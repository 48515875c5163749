----------------------------- MODULE MCAdminWeb -----------------------------
(***************************************************************************)
(* The modules of the administration web interface side by side: a         *)
(* behaviour is one scene, in which one of them moves and the others rest. *)
(***************************************************************************)
EXTENDS AdminAccess, AdminSession, AdminCache, TableSearch, PageForm

ASSUME TwoUsers == {"ada", "bo"} \subseteq Users

VARIABLE scene

Scenes == {"access", "session", "cache", "table", "form"}

webVars == <<scene, accessVars, sessionVars, cacheVars, tableVars, formVars>>

(* Bound: two resources are granted, or users or groups besides the right  *)
(* to edit roles and the view of a third.                                  *)
Granted(permissions) == {r \in Resources : permissions[r] # "none"}
MCProfiles ==
  {p \in Permissions :
     \/ Cardinality(Granted(p)) <= 1
     \/ Cardinality(Granted(p)) = 2 /\ Granted(p) \cap {"directory", "authz.roles"} # {}
     \/ /\ Cardinality(Granted(p)) = 3
        /\ p["authz.roles"] = "edit"
        /\ "edit" \in {p["users"], p["groups"]}
        /\ \E r \in Resources : p[r] = "view"}

RestingAccess ==
  /\ granted = [r \in Resources |-> "none"]
  /\ account = granted
  /\ place = Enter("account", "typed", {})
  /\ reductions = 0

RestingTable ==
  /\ byColumn = FALSE /\ latest = First /\ rendered = First
  /\ draft = NoText /\ timer = NotSet
  /\ pages = 0 /\ answered = TRUE /\ failed = FALSE /\ effect = FALSE
  /\ wanted = Wanted(First)
  /\ crossed = FALSE /\ undone = {} /\ cancelled = FALSE /\ inputs = 0

(* Bound: somebody else signs in after the first session.                  *)
MCOwners == {[session \in Sessions |-> IF session = 1 THEN "ada" ELSE "bo"]}

(* Bounds: the form of a record that is not mounted anew is the one that   *)
(* uploads images, and nobody else changes the record during two saves.    *)
MCForms == Forms \ {EditedCheckin, EditedStation, EditedRole, EditedGroup}
MCChanges ==
  ChangedMeanwhile => Cardinality({i \in 1..MaxSaves : pending[i].stage # "none"}) <= 1

WebInit ==
  /\ scene \in Scenes
  /\ IF scene = "access" THEN AccessInit(Profiles) ELSE RestingAccess
  /\ SessionInit(MCOwners)
  /\ IF scene = "cache" THEN CacheInit(MutationHooks, QueryHooks)
                        ELSE CacheInit({useUpdateLocation}, {useLocation})
  /\ IF scene = "table" THEN TableInit ELSE RestingTable
  /\ IF scene = "form" THEN FormInit(MCForms, Contents) ELSE FormInit({NewRole}, Contents)

Access(A) ==
  scene = "access" /\ A /\ UNCHANGED <<scene, sessionVars, cacheVars, tableVars, formVars>>
Session(A) ==
  scene = "session" /\ A /\ UNCHANGED <<scene, accessVars, cacheVars, tableVars, formVars>>
Cache(A) ==
  scene = "cache" /\ A /\ UNCHANGED <<scene, accessVars, sessionVars, tableVars, formVars>>
Table(A) ==
  scene = "table" /\ A /\ UNCHANGED <<scene, accessVars, sessionVars, cacheVars, formVars>>
Form(A) ==
  scene = "form" /\ A /\ UNCHANGED <<scene, accessVars, sessionVars, cacheVars, tableVars>>

WebNext ==
  \/ Access(AccessNext) \/ Session(SessionNext) \/ Cache(CacheNext) \/ Table(TableNext)
  \/ Form(FormNext /\ MCChanges)

(* The fairness of the modules, each in its scene.                         *)
WebFairness ==
  /\ WF_accessVars(scene = "access" /\ Guard)
  /\ WF_sessionVars(scene = "session" /\ Guards)
  /\ WF_sessionVars(scene = "session" /\ Land) /\ WF_sessionVars(scene = "session" /\ Poll)
  /\ \A key \in Cached : WF_sessionVars(scene = "session" /\ (Loaded(key) \/ Refused(key)))
  /\ WF_sessionVars(scene = "session" /\ (Answered("read") \/ Refused("read")))
  /\ WF_tableVars(scene = "table" /\ onQueryChange) /\ WF_tableVars(scene = "table" /\ Render)
  /\ WF_tableVars(scene = "table" /\ (Answer \/ Fail))
  /\ WF_tableVars(scene = "table" /\ useDataTable)

WebSpec == WebInit /\ [][WebNext]_webVars /\ WebFairness

(* Every variable of every module holds a value of its kind.               *)
WebTypeOK == AccessTypeOK /\ SessionTypeOK /\ CacheTypeOK /\ TableTypeOK /\ FormTypeOK
=============================================================================
