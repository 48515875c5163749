----------------------------- MODULE AdminCache -----------------------------
(***************************************************************************)
(* One cached answer of the administration web interface while somebody    *)
(* saves something that changes it.  The query cache keeps an answer until *)
(* it is invalidated; what the mutation hook sets and invalidates when its *)
(* call succeeds must bring every answer up to date that the server now    *)
(* gives differently, however fetches and pages come and go meanwhile.     *)
(***************************************************************************)
EXTENDS AdminApi, SequencesExt

VARIABLES
  mutation,    \* the hook of the save
  query,       \* the hook of the answer
  active,      \* a page that is mounted observes it
  data,        \* the cached answer: missing, or from before or after the save
  invalid,     \* it is invalidated
  fetch,       \* none, or on its way: not answered yet, or answered like data
  saving,      \* how far the save is
  late         \* a fetch was on its way when the save succeeded, and was kept

cacheVars == <<mutation, query, active, data, invalid, fetch, saving, late>>

MutationHooks ==
  {useUpdateAccount, useRotateAPIKey, useRevokeAPIKey, useCreateLocation,
   useUpdateLocation, useDeleteLocation, useCreateCheckin, useUpdateCheckin,
   useCreateStation, useUpdateStation, useDeleteStation, useRotateStationKey,
   useCreateAuthzRole, useUpdateAuthzRole, useDeleteAuthzRole, useCreateUser,
   useUpdateUser, useDeleteUser, useUpdateGroup, useTriggerDirectorySync}

QueryHooks ==
  {useAccount, useLocations, useStationLocations, useLocation, useCheckins,
   useCheckinDepartments, useCheckinLocations, useCheckinAvailableLocations,
   useCheckinPeople, useCheckinUser, useCheckin, useStations, useStation, useAuthzRoles,
   useAuthzRole, useUsers, useUserRoles, useUser, useGroups, useGroup, useDirectorySync}

(* Whose answers the server makes up from what an operation changes.  The  *)
(* record of a deletion is gone: there is no other answer to wait for.     *)
LocationNames == {"listStationLocations", "listCheckinAvailableLocations"}
CheckinReaders ==
  {"listCheckins", "listCheckinDepartments", "listCheckinLocations"}
RoleReaders == {"listUsers", "getUser", "listGroups", "getGroup", "getAccount"}
PersonReaders ==
  {"listUsers", "getUser", "getAccount", "listCheckins", "getCheckin", "getCheckinUser",
   "listCheckinPeople"}

Changes(operation) ==
  CASE operation \in {"createLocation", "deleteLocation"} ->
         {"listLocations"} \cup LocationNames
    [] operation = "updateLocation" ->
         {"listLocations", "getLocation", "listStations", "getStation",
          "listCheckinLocations", "listCheckins", "getCheckin"} \cup LocationNames
    [] operation = "createCheckin" -> CheckinReaders
    [] operation = "updateCheckin" -> CheckinReaders \cup {"getCheckin"}
    [] operation = "createStation" -> {"listStations"}
    [] operation = "rotateStationKey" -> {"listStations", "getStation"}
    [] operation = "updateStation" ->
         {"listStations", "getStation", "listCheckins", "getCheckin"}
    [] operation = "deleteStation" -> {"listStations", "listCheckins", "getCheckin"}
    [] operation = "createRole" -> {"listRoles", "listUserRoles"}
    [] operation = "updateRole" -> {"listRoles", "getRole", "listUserRoles"} \cup RoleReaders
    [] operation = "deleteRole" -> {"listRoles", "listUserRoles"} \cup RoleReaders
    [] operation = "createUser" -> {"listUsers", "listCheckinPeople"}
    [] operation \in {"updateUser", "updateAccount"} -> PersonReaders
    [] operation = "deleteUser" ->
         {"listUsers", "listGroups", "getGroup", "listCheckinPeople"}
    [] operation = "updateGroup" -> RoleReaders
    [] operation \in {"rotateAccountApiKey", "revokeAccountApiKey"} -> {"getAccount"}
    [] operation = "triggerDirectorySync" -> {"getDirectorySync"}

(* What other features show of it is left to grow old: the names of        *)
(* locations, stations and people on check-ins and in their pickers, those *)
(* of locations on stations, and a new role among those of the user list.  *)
LeftToAge(operation, answer) ==
  \/ /\ answer \in CheckinReaders \cup {"getCheckin", "getCheckinUser", "listCheckinPeople",
                                        "listCheckinAvailableLocations"}
     /\ operation \notin {"createCheckin", "updateCheckin"}
  \/ operation = "updateLocation" /\ answer \in {"listStations", "getStation"}
  \/ operation = "createRole" /\ answer = "listUserRoles"

CacheTypeOK ==
  /\ mutation \in MutationHooks /\ query \in QueryHooks
  /\ active \in BOOLEAN /\ invalid \in BOOLEAN /\ late \in BOOLEAN
  /\ data \in {"missing", "before", "after"}
  /\ fetch \in {"none", "asked", "before", "after"}
  /\ saving \in {"edited", "sent", "committed", "saved", "failed"}

CacheInit(hooks, readings) ==
  /\ mutation \in hooks
  /\ query \in readings
  /\ query.operation \in Changes(mutation.operation)
  /\ active = FALSE
  /\ data = "missing"
  /\ invalid = FALSE
  /\ fetch = "none"
  /\ saving = "edited"
  /\ late = FALSE

-----------------------------------------------------------------------------
(* A page mounts: a missing or invalid answer is fetched, and one that is  *)
(* older than thirty seconds.                                              *)
Mount ==
  /\ ~active
  /\ active' = TRUE
  /\ \/ /\ fetch = "none"
        /\ fetch' = "asked"
     \/ /\ fetch # "none" \/ (data # "missing" /\ ~invalid)
        /\ UNCHANGED fetch
  /\ UNCHANGED <<mutation, query, data, invalid, saving, late>>

(* The last observer leaves, and what it was waiting for is aborted.       *)
Unmount ==
  /\ active
  /\ active' = FALSE
  /\ fetch' = "none"
  /\ UNCHANGED <<mutation, query, data, invalid, saving, late>>

(* It polls, the window gets the focus, or a link is pointed at and the    *)
(* loader of its route asks ahead, with nobody observing.                  *)
Refresh ==
  /\ fetch = "none"
  /\ active \/ data = "missing" \/ invalid
  /\ fetch' = "asked"
  /\ UNCHANGED <<mutation, query, active, data, invalid, saving, late>>

ServerAnswers ==
  /\ fetch = "asked"
  /\ fetch' = IF saving \in {"edited", "sent"} THEN "before" ELSE "after"
  /\ UNCHANGED <<mutation, query, active, data, invalid, saving, late>>

Arrive ==
  /\ fetch \in {"before", "after"}
  /\ data' = fetch
  /\ invalid' = FALSE
  /\ fetch' = "none"
  /\ UNCHANGED <<mutation, query, active, saving, late>>

FetchFails ==
  /\ fetch # "none"
  /\ fetch' = "none"
  /\ invalid' = (data # "missing")
  /\ UNCHANGED <<mutation, query, active, data, saving, late>>

-----------------------------------------------------------------------------
Submit ==
  /\ saving \in {"edited"}
  /\ saving' = "sent"
  /\ UNCHANGED <<mutation, query, active, data, invalid, fetch, late>>

(* The server commits, or refuses and leaves the form as it was.           *)
Commit ==
  /\ saving = "sent"
  /\ saving' \in {"committed", "edited"}
  /\ UNCHANGED <<mutation, query, active, data, invalid, fetch, late>>

(* The answer to the save is lost: nothing is set or invalidated.          *)
SaveLost ==
  /\ saving = "committed"
  /\ saving' = "failed"
  /\ UNCHANGED <<mutation, query, active, data, invalid, fetch, late>>

Set == query.key \in mutation.sets
Invalidated ==
  /\ \E stale \in mutation.stale : IsPrefix(stale, query.key)
  /\ ~\E gone \in mutation.gone : IsPrefix(gone, query.key)

(* Set answers are cached at once.  An invalidated one that is observed is *)
(* fetched again, its fetch on the way dropped, unless it is the first;    *)
(* one that nobody observes is only marked.                                *)
onSuccess ==
  /\ saving = "committed"
  /\ saving' = "saved"
  /\ data' = IF Set THEN "after" ELSE data
  /\ invalid' = IF data' = "missing" THEN invalid
                ELSE Invalidated \/ (invalid /\ ~Set)
  /\ LET dropped == Invalidated /\ active /\ (data' # "missing" \/ fetch = "none")
     IN /\ fetch' = IF dropped THEN "asked" ELSE fetch
        /\ late' = (fetch # "none" /\ ~dropped)
  /\ UNCHANGED <<mutation, query, active>>

CacheNext ==
  \/ Mount \/ Unmount \/ Refresh \/ ServerAnswers \/ Arrive \/ FetchFails
  \/ Submit \/ Commit \/ SaveLost \/ onSuccess

CacheSpec == CacheInit(MutationHooks, QueryHooks) /\ [][CacheNext]_cacheVars

-----------------------------------------------------------------------------
(* Once a save has succeeded, no answer it changed is taken for current    *)
(* any more: it is the new one, or being fetched, or marked for the next   *)
(* page that shows it.  Exempt is what other features show of the record,  *)
(* and an answer already on its way that the hook did not have dropped: a  *)
(* first one, one fetched ahead, or one of an answer that was only set.    *)
SavedIsShown ==
  saving = "saved" /\ fetch = "none" /\ ~invalid /\ data # "missing" =>
    \/ data = "after"
    \/ LeftToAge(mutation.operation, query.operation)
    \/ late
=============================================================================
