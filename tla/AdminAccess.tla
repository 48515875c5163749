---------------------------- MODULE AdminAccess ----------------------------
(***************************************************************************)
(* Moving about the administration web interface.  The router enters an    *)
(* address through the guards of its routes; every guard reads the cached  *)
(* account, which is fetched again when it is older than thirty seconds,   *)
(* and lets it pass or redirects.  What a page then asks and where it      *)
(* leads follow from the cached account too, while the server decides by   *)
(* what the account is granted at that moment.                             *)
(***************************************************************************)
EXTENDS AdminPages

CONSTANTS
  Profiles,        \* what accounts may be granted
  MaxReductions    \* how often the server takes a permission away

ASSUME ProfilesAssumption == Profiles \subseteq Permissions
ASSUME MaxReductionsAssumption == MaxReductions \in Nat

VARIABLES
  granted,      \* what the server grants the account
  account,      \* the effective permissions of the cached account
  place,        \* the address being entered or shown
  reductions    \* permissions taken away so far

accessVars == <<granted, account, place, reductions>>

(* Addresses that only redirect an account that is signed in.              *)
Entries == {"index", "login"}

(* "typed" stands for a navigation that no link promised.                  *)
Links == Addresses \cup {"typed"}

AccessTypeOK ==
  /\ granted \in Permissions
  /\ account \in Permissions
  /\ place \in [address : Addresses \cup Entries, passed : 0..4, link : Links,
               read : SUBSET Permissions]
  /\ reductions \in 0..MaxReductions

Enter(address, link, read) ==
  [address |-> address, passed |-> 0, link |-> link, read |-> read]

AccessInit(profiles) ==
  /\ granted \in profiles
  /\ account = granted
  /\ place = Enter("index", "typed", {})
  /\ reductions = 0

-----------------------------------------------------------------------------
(* The guards of an address run from the outermost in; passed is the last  *)
(* route that is entered.  An address that only redirects has none.        *)
NextGuards ==
  {depth \in DOMAIN Matches[place.address] :
     /\ depth > place.passed
     /\ Matches[place.address][depth].needs # {}}

Shown == place.address \notin Entries /\ NextGuards = {}

(* firstAccessiblePath of the account, or the page the route names.        *)
Otherwise(route, permissions) ==
  IF route.otherwise = "home" THEN firstAccessiblePath(permissions) ELSE route.otherwise

requirePermissions(depth, permissions, read) ==
  LET route == Matches[place.address][depth]
  IN place' = IF canAll(permissions, route.needs)
                THEN [place EXCEPT !.passed = depth, !.read = read]
                ELSE Enter(Otherwise(route, permissions), place.link, read)

(* The next guard reads the account and passes or redirects.               *)
Guard ==
  /\ account' \in {account, granted}
  /\ LET read == place.read \cup {account'}
     IN \/ /\ place.address \in Entries
           /\ place' = Enter(firstAccessiblePath(account'), place.link, read)
        \/ /\ place.address \notin Entries
           /\ \E depth \in NextGuards :
                /\ \A other \in NextGuards : depth <= other
                /\ requirePermissions(depth, account', read)
  /\ UNCHANGED <<granted, reductions>>

(* An observer refetches the account when the page mounts or the window    *)
(* gets the focus again.                                                   *)
Refetch ==
  /\ Shown
  /\ account # granted
  /\ account' = granted
  /\ UNCHANGED <<granted, place, reductions>>

Offered(address, permissions) ==
  UNION {part.leads : part \in {p \in Parts(address) : canAll(permissions, p.needs)}}

(* Links that are there whatever lies behind them: a group's members, the  *)
(* crumb of the directory, and the way home from nowhere.                  *)
Unchecked(address) ==
  {"index"} \cup
    IF address \in {"directory.groups.index", "directory.groups.$id.index"}
      THEN {"directory.users.index"} ELSE {}

Follow ==
  /\ Shown
  /\ \E to \in Offered(place.address, account) :
       place' = Enter(to, IF to \in Unchecked(place.address) THEN "typed" ELSE to,
                      place.read \cup {account})
  /\ UNCHANGED <<granted, account, reductions>>

Navigate ==
  /\ Shown
  /\ \E to \in AppSidebar(account) \cup SidebarUserMenu(account) :
       place' = Enter(to, to, {account})
  /\ UNCHANGED <<granted, account, reductions>>

StepUp ==
  /\ Shown
  /\ \E to \in AppBreadcrumbs(place.address) :
       place' = Enter(to, IF to = "directory.index" THEN "typed" ELSE to,
                      place.read \cup {account})
  /\ UNCHANGED <<granted, account, reductions>>

(* Going back in the history, or opening an address of one's own.          *)
Open ==
  /\ Shown
  /\ \E to \in Addresses \cup Entries : place' = Enter(to, "typed", {})
  /\ UNCHANGED <<granted, account, reductions>>

(* Roles are edited elsewhere: a permission of the account gets lower.     *)
Reduce ==
  /\ reductions < MaxReductions
  /\ \E resource \in Resources, level \in {"none", "view"} :
       /\ can(granted, resource, IF level = "view" THEN "edit" ELSE "view")
       /\ granted' = [granted EXCEPT ![resource] = level]
  /\ reductions' = reductions + 1
  /\ UNCHANGED <<account, place>>

AccessNext ==
  Guard \/ Refetch \/ Follow \/ Navigate \/ StepUp \/ Open \/ Reduce

AccessSpec == AccessInit(Profiles) /\ [][AccessNext]_accessVars /\ WF_accessVars(Guard)

-----------------------------------------------------------------------------
(* Nothing the link or the guards read has changed since.                  *)
Current == Shown /\ account = granted /\ place.read \subseteq {granted}

(* A page never asks the server for what it then refuses, and never offers *)
(* such a thing, unless the account's permissions changed since its guards *)
(* read them.  The chip of the user list narrowed to a group is the        *)
(* exception: it asks for the group without looking.                       *)
RefusalsAreStale ==
  Current =>
    \A part \in Parts(place.address) :
      canAll(account, part.needs) =>
        \A operation \in part.asks :
          \/ Permits(granted, operation)
          \/ place.address = "directory.users.index" /\ operation = "getGroup"

(* A link leads where it says: what the guards let pass and what pages,    *)
(* sidebar, menu and crumbs offer agree, so nobody who follows a link is   *)
(* sent elsewhere, unless the account's permissions changed meanwhile.     *)
LinksLand == Current => place.link \in {"typed", place.address}

(* Guards that redirect into each other always end on a page.              *)
GuardsSettle == []<>Shown
=============================================================================
