------------------------------ MODULE AdminApi ------------------------------
(***************************************************************************)
(* What the administration web interface asks the server for: the          *)
(* operations of its generated client, the permission the server requires  *)
(* for each, and the query and mutation hooks built on them, with the      *)
(* cached answers each one reads, replaces or declares stale.              *)
(*                                                                         *)
(* A permission is a function from resources to levels, as an account's    *)
(* effective_permissions are.  All records of a kind are one: a detail key *)
(* stands for the record on the screen.                                    *)
(***************************************************************************)
EXTENDS Naturals, Sequences, FiniteSets

Resources ==
  {"checkins", "locations", "stations", "directory", "users", "groups", "authz.roles"}

Levels == {"none", "view", "edit"}

Permissions == [Resources -> Levels]

View(resource) == {<<resource, "view">>}
Edit(resource) == {<<resource, "edit">>}

(* can and canAll of the authz library: edit includes view.                *)
can(permissions, resource, access) ==
  permissions[resource] \in (IF access = "view" THEN {"view", "edit"} ELSE {"edit"})

canAll(permissions, requirements) ==
  \A need \in requirements : can(permissions, need[1], need[2])

ManageRoles(resource) == Edit(resource) \cup Edit("authz.roles")

-----------------------------------------------------------------------------
(* The operations of the generated client, one set per tag.                *)

AccountOperations ==
  {"getAccount", "updateAccount", "revokeAccountApiKey", "rotateAccountApiKey"}

RoleOperations ==
  {"listAuthorizationResources", "listRoles", "createRole", "deleteRole", "getRole",
   "updateRole"}

CheckinOperations ==
  {"listCheckins", "createCheckin", "listCheckinAvailableLocations",
   "listCheckinDepartments", "listCheckinLocations", "listCheckinPeople",
   "getCheckinUser", "getCheckin", "updateCheckin"}

SyncOperations == {"getDirectorySync", "triggerDirectorySync"}

GroupOperations == {"listGroups", "getGroup", "updateGroup"}

LocationOperations ==
  {"listLocations", "createLocation", "listLocationBackgrounds",
   "createLocationBackgroundUpload", "listLocationGroups", "listLocationLogos",
   "createLocationLogoUpload", "deleteLocation", "getLocation", "updateLocation",
   "setLocationBackground", "setLocationLogo"}

StationOperations ==
  {"listStations", "createStation", "listStationLocations", "deleteStation",
   "getStation", "updateStation", "rotateStationKey"}

UserOperations ==
  {"listUsers", "createUser", "listUserRoles", "deleteUser", "getUser", "updateUser"}

Operations ==
  UNION {AccountOperations, RoleOperations, CheckinOperations, SyncOperations,
         GroupOperations, LocationOperations, StationOperations, UserOperations}

(* What the server requires of the caller, as registered with each         *)
(* operation; an account's own operations only need somebody signed in.    *)
Needs(operations, requirements) == [operations |-> operations, requirements |-> requirements]

LocationRules ==
  {Needs({"listLocations", "getLocation"}, View("locations")),
   Needs({"listLocationGroups", "createLocation", "updateLocation", "deleteLocation"},
         Edit("locations"))}

LocationImageRules ==
  {Needs({"listLocationBackgrounds", "listLocationLogos"}, View("locations")),
   Needs({"createLocationBackgroundUpload", "createLocationLogoUpload",
          "setLocationBackground", "setLocationLogo"}, Edit("locations"))}

CheckinRules ==
  {Needs({"listCheckinDepartments", "listCheckinLocations", "getCheckinUser",
          "listCheckins", "getCheckin"}, View("checkins")),
   Needs({"listCheckinAvailableLocations", "listCheckinPeople", "createCheckin",
          "updateCheckin"}, Edit("checkins"))}

StationRules ==
  {Needs({"listStations", "getStation"}, View("stations")),
   Needs({"listStationLocations", "createStation", "updateStation", "deleteStation",
          "rotateStationKey"}, Edit("stations"))}

RoleRules ==
  {Needs({"listAuthorizationResources", "listRoles", "getRole"}, View("authz.roles")),
   Needs({"createRole", "updateRole", "deleteRole"}, Edit("authz.roles"))}

UserRules ==
  {Needs({"listUserRoles", "listUsers", "getUser"}, View("users")),
   Needs({"createUser", "updateUser", "deleteUser"}, ManageRoles("users"))}

GroupRules ==
  {Needs({"listGroups", "getGroup"}, View("groups")),
   Needs({"updateGroup"}, ManageRoles("groups"))}

SyncRules ==
  {Needs({"getDirectorySync"}, View("directory")),
   Needs({"triggerDirectorySync"}, Edit("directory"))}

AccountRules == {Needs(AccountOperations, {})}

Rules ==
  UNION {LocationRules, LocationImageRules, CheckinRules, StationRules, RoleRules, UserRules,
         GroupRules, SyncRules, AccountRules}

(* The server does what an account asks when it is granted what the        *)
(* operation's rules require.                                              *)
Permits(permissions, operation) ==
  \A rule \in Rules : operation \in rule.operations => canAll(permissions, rule.requirements)

(* Every operation the client can call is registered with a requirement.   *)
ASSUME EveryOperationRuled == UNION {rule.operations : rule \in Rules} = Operations

-----------------------------------------------------------------------------
(* A query hook calls an operation and keeps the answer under a key; a     *)
(* mutation hook, when its operation succeeded, sets the answers under     *)
(* some keys and invalidates every answer under a stale prefix; a deletion *)
(* leaves the answers of the record that is gone alone.                    *)

Query(operation, key) == [operation |-> operation, key |-> key]

Mutation(operation, sets, stale) ==
  [operation |-> operation, sets |-> sets, stale |-> stale, gone |-> {}]

Deletion(operation, gone, stale) ==
  [operation |-> operation, sets |-> {}, stale |-> stale, gone |-> {gone}]

AccountKey == <<"account">>
SessionKey == <<"auth", "session">>
StationChoices == <<"stations", "locations">>

useAccount == Query("getAccount", AccountKey)
useUpdateAccount ==
  Mutation("updateAccount", {AccountKey, <<"users", "detail">>, SessionKey}, {<<"users">>})
useRotateAPIKey == Mutation("rotateAccountApiKey", {AccountKey}, {})
useRevokeAPIKey == Mutation("revokeAccountApiKey", {AccountKey}, {})

useLocations == Query("listLocations", <<"locations", "list">>)
useStationLocations == Query("listStationLocations", StationChoices)
useLocationGroups == Query("listLocationGroups", <<"locations", "groups">>)
useLocation == Query("getLocation", <<"locations", "detail">>)
useCreateLocation == Mutation("createLocation", {}, {<<"locations">>, StationChoices})
useUpdateLocation ==
  Mutation("updateLocation", {<<"locations", "detail">>}, {<<"locations">>, StationChoices})
useDeleteLocation ==
  Deletion("deleteLocation", <<"locations", "detail">>, {<<"locations">>, StationChoices})

useLocationBackgrounds ==
  Query("listLocationBackgrounds", <<"locations", "backgrounds", "list">>)
useLocationLogos == Query("listLocationLogos", <<"locations", "logos", "list">>)
useUploadLocationBackground == Mutation("createLocationBackgroundUpload", {}, {})
useUploadLocationLogo == Mutation("createLocationLogoUpload", {}, {})

useCheckins == Query("listCheckins", <<"checkins", "list">>)
useCheckinDepartments == Query("listCheckinDepartments", <<"checkins", "departments">>)
useCheckinLocations == Query("listCheckinLocations", <<"checkins", "locations">>)
useCheckinAvailableLocations ==
  Query("listCheckinAvailableLocations", <<"checkins", "available-locations">>)
useCheckinPeople == Query("listCheckinPeople", <<"checkins", "people">>)
useCheckinUser == Query("getCheckinUser", <<"checkins", "users">>)
useCheckin == Query("getCheckin", <<"checkins", "detail">>)
useCreateCheckin == Mutation("createCheckin", {<<"checkins", "detail">>}, {<<"checkins">>})
useUpdateCheckin == Mutation("updateCheckin", {<<"checkins", "detail">>}, {<<"checkins">>})

useStations == Query("listStations", <<"stations", "list">>)
useStation == Query("getStation", <<"stations", "detail">>)
useCreateStation == Mutation("createStation", {}, {<<"stations">>})
useUpdateStation == Mutation("updateStation", {<<"stations", "detail">>}, {<<"stations">>})
useDeleteStation == Deletion("deleteStation", <<"stations", "detail">>, {<<"stations">>})
useRotateStationKey ==
  Mutation("rotateStationKey", {<<"stations", "detail">>}, {<<"stations">>})

(* A role, a user and a group decide what accounts may do.                 *)
Roles == <<"authz", "roles">>
RoleList == <<"authz", "roles", "list">>
RoleDetail == <<"authz", "roles", "detail">>
Identities == {<<"users">>, <<"groups">>}
SignedInKeys == {SessionKey, AccountKey}

useAuthzResources == Query("listAuthorizationResources", <<"authz", "resources">>)
useAuthzRoles == Query("listRoles", RoleList)
useAuthzRole == Query("getRole", RoleDetail)
useCreateAuthzRole == Mutation("createRole", {}, {Roles})
useUpdateAuthzRoleAlone ==
  Mutation("updateRole", {RoleDetail}, {Roles} \cup Identities)
useUpdateAuthzRole ==
  Mutation("updateRole", {RoleDetail}, {Roles} \cup Identities \cup SignedInKeys)
useDeleteAuthzRole ==
  Deletion("deleteRole", RoleDetail, {Roles} \cup Identities \cup SignedInKeys)

useUsers == Query("listUsers", <<"users", "list">>)
useUserRoles == Query("listUserRoles", <<"users", "roles">>)
useUser == Query("getUser", <<"users", "detail">>)
useCreateUser == Mutation("createUser", {}, {<<"users">>})
useUpdateUser == Mutation("updateUser", {<<"users", "detail">>}, Identities \cup SignedInKeys)
useDeleteUser == Deletion("deleteUser", <<"users", "detail">>, Identities)

useGroups == Query("listGroups", <<"groups", "list">>)
useGroup == Query("getGroup", <<"groups", "detail">>)
useUpdateGroup == Mutation("updateGroup", {<<"groups", "detail">>}, Identities \cup SignedInKeys)

useDirectorySync == Query("getDirectorySync", <<"directory", "sync">>)
useTriggerDirectorySync == Mutation("triggerDirectorySync", {<<"directory", "sync">>}, {})
=============================================================================
