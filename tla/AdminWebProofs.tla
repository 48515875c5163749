--------------------------- MODULE AdminWebProofs ---------------------------
(***************************************************************************)
(* Proofs about AdminCache, for every save and every cached answer that it *)
(* changes: once a save has succeeded no answer that it changed is taken   *)
(* for current.  And about the modules of the administration web interface *)
(* side by side.                                                           *)
(***************************************************************************)
EXTENDS MCAdminWeb, AdminAccessProofs, AdminSessionProofs, AdminInputProofs

-----------------------------------------------------------------------------
(* Keys.                                                                   *)

LEMMA KeyPrefixes ==
  ASSUME NEW a, NEW b, NEW c
  PROVE  /\ IsPrefix(<<a>>, <<a>>) /\ IsPrefix(<<a>>, <<a, b>>)
         /\ IsPrefix(<<a, b>>, <<a, b>>) /\ IsPrefix(<<a, b>>, <<a, b, c>>)
BY DEF IsPrefix

LEMMA OtherKeys ==
  ASSUME NEW a, NEW b, NEW c, NEW d, NEW e, NEW f
  PROVE  /\ ~IsPrefix(<<a, b>>, <<d>>) /\ ~IsPrefix(<<a, b, c>>, <<d>>)
         /\ ~IsPrefix(<<a, b, c>>, <<d, e>>)
         /\ IsPrefix(<<a, b>>, <<d, e>>) => a = d /\ b = e
         /\ IsPrefix(<<a, b>>, <<d, e, f>>) => a = d /\ b = e
         /\ IsPrefix(<<a, b, c>>, <<d, e, f>>) => c = f
BY DEF IsPrefix

(* The key of the answers of each operation.                               *)
LEMMA QueryKeys ==
  \A q \in QueryHooks :
    /\ q.operation = "getAccount" => q.key = <<"account">>
    /\ q.operation = "listLocations" => q.key = <<"locations", "list">>
    /\ q.operation = "getLocation" => q.key = <<"locations", "detail">>
    /\ q.operation = "listStationLocations" => q.key = <<"stations", "locations">>
    /\ q.operation = "listCheckins" => q.key = <<"checkins", "list">>
    /\ q.operation = "getCheckin" => q.key = <<"checkins", "detail">>
    /\ q.operation = "listCheckinDepartments" => q.key = <<"checkins", "departments">>
    /\ q.operation = "listCheckinLocations" => q.key = <<"checkins", "locations">>
    /\ q.operation = "listStations" => q.key = <<"stations", "list">>
    /\ q.operation = "getStation" => q.key = <<"stations", "detail">>
    /\ q.operation = "listRoles" => q.key = <<"authz", "roles", "list">>
    /\ q.operation = "getRole" => q.key = <<"authz", "roles", "detail">>
    /\ q.operation = "listUsers" => q.key = <<"users", "list">>
    /\ q.operation = "listUserRoles" => q.key = <<"users", "roles">>
    /\ q.operation = "getUser" => q.key = <<"users", "detail">>
    /\ q.operation = "listGroups" => q.key = <<"groups", "list">>
    /\ q.operation = "getGroup" => q.key = <<"groups", "detail">>
    /\ q.operation = "getDirectorySync" => q.key = <<"directory", "sync">>
<1> SUFFICES ASSUME NEW q \in QueryHooks
             PROVE  \/ q \in {Query("getAccount", <<"account">>),
                              Query("listLocations", <<"locations", "list">>),
                              Query("getLocation", <<"locations", "detail">>),
                              Query("listStationLocations", <<"stations", "locations">>),
                              Query("listCheckins", <<"checkins", "list">>),
                              Query("getCheckin", <<"checkins", "detail">>),
                              Query("listCheckinDepartments", <<"checkins", "departments">>),
                              Query("listCheckinLocations", <<"checkins", "locations">>),
                              Query("listStations", <<"stations", "list">>),
                              Query("getStation", <<"stations", "detail">>),
                              Query("listRoles", <<"authz", "roles", "list">>),
                              Query("getRole", <<"authz", "roles", "detail">>),
                              Query("listUsers", <<"users", "list">>),
                              Query("listUserRoles", <<"users", "roles">>),
                              Query("getUser", <<"users", "detail">>),
                              Query("listGroups", <<"groups", "list">>),
                              Query("getGroup", <<"groups", "detail">>),
                              Query("getDirectorySync", <<"directory", "sync">>)}
                    \/ q.operation \in {"listCheckinAvailableLocations", "listCheckinPeople",
                                        "getCheckinUser"}
  BY DEF Query
<1> QED
  BY DEF QueryHooks, Query, useAccount, useLocations, useStationLocations, useLocation,
         useCheckins, useCheckinDepartments, useCheckinLocations, useCheckinAvailableLocations,
         useCheckinPeople, useCheckinUser, useCheckin, useStations, useStation, useAuthzRoles,
         useAuthzRole, useUsers, useUserRoles, useUser, useGroups, useGroup, useDirectorySync,
         AccountKey, StationChoices, RoleList, RoleDetail

(* The answers below each stale prefix.                                    *)
LEMMA StaleKeys ==
  /\ \A key \in {<<"locations", "list">>, <<"locations", "detail">>} :
       IsPrefix(<<"locations">>, key)
  /\ IsPrefix(<<"stations", "locations">>, <<"stations", "locations">>)
  /\ \A key \in {<<"stations", "list">>, <<"stations", "detail">>} : IsPrefix(<<"stations">>, key)
  /\ \A key \in {<<"checkins", "list">>, <<"checkins", "detail">>,
                 <<"checkins", "departments">>, <<"checkins", "locations">>} :
       IsPrefix(<<"checkins">>, key)
  /\ \A key \in {<<"users", "list">>, <<"users", "roles">>, <<"users", "detail">>} :
       IsPrefix(<<"users">>, key)
  /\ \A key \in {<<"groups", "list">>, <<"groups", "detail">>} : IsPrefix(<<"groups">>, key)
  /\ \A key \in {<<"authz", "roles", "list">>, <<"authz", "roles", "detail">>} :
       IsPrefix(<<"authz", "roles">>, key)
  /\ IsPrefix(<<"account">>, <<"account">>)
<1>1. \A a, b : IsPrefix(<<a>>, <<a>>) /\ IsPrefix(<<a>>, <<a, b>>) /\ IsPrefix(<<a, b>>, <<a, b>>)
  BY KeyPrefixes
<1>2. \A a, b, c : IsPrefix(<<a, b>>, <<a, b, c>>)
  BY KeyPrefixes
<1> QED BY <1>1, <1>2

(* An answer that is still there is not below the key of what is gone.     *)
LEMMA GoneKeys ==
  /\ \A key \in {<<"locations", "list">>, <<"stations", "locations">>} :
       ~IsPrefix(<<"locations", "detail">>, key)
  /\ ~IsPrefix(<<"stations", "detail">>, <<"stations", "list">>)
  /\ \A key \in {<<"authz", "roles", "list">>, <<"users", "list">>, <<"users", "roles">>,
                 <<"users", "detail">>, <<"groups", "list">>, <<"groups", "detail">>,
                 <<"account">>} :
       ~IsPrefix(<<"authz", "roles", "detail">>, key)
  /\ \A key \in {<<"users", "list">>, <<"groups", "list">>, <<"groups", "detail">>} :
       ~IsPrefix(<<"users", "detail">>, key)
<1>1. \A a, b, d, e : IsPrefix(<<a, b>>, <<d, e>>) => b = e /\ a = d
  BY OtherKeys
<1>2. /\ ~IsPrefix(<<"locations", "detail">>, <<"locations", "list">>)
      /\ ~IsPrefix(<<"locations", "detail">>, <<"stations", "locations">>)
      /\ ~IsPrefix(<<"stations", "detail">>, <<"stations", "list">>)
  BY <1>1
<1>3. /\ ~IsPrefix(<<"users", "detail">>, <<"users", "list">>)
      /\ ~IsPrefix(<<"users", "detail">>, <<"groups", "list">>)
      /\ ~IsPrefix(<<"users", "detail">>, <<"groups", "detail">>)
  BY <1>1
<1>4. \A a, b, c, d, e : ~IsPrefix(<<a, b, c>>, <<d>>) /\ ~IsPrefix(<<a, b, c>>, <<d, e>>)
  BY OtherKeys
<1>5. \A a, b, c, d, e, f : IsPrefix(<<a, b, c>>, <<d, e, f>>) => c = f
  BY OtherKeys
<1>6. ~IsPrefix(<<"authz", "roles", "detail">>, <<"authz", "roles", "list">>)
  BY <1>5
<1> QED BY <1>2, <1>3, <1>4, <1>6

(* Every answer that a save changes is set by its hook, or invalidated, or *)
(* one of those left to grow old: one lemma for each hook.                 *)
Covered(m, q) ==
  \/ q.key \in m.sets
  \/ /\ \E stale \in m.stale : IsPrefix(stale, q.key)
     /\ ~\E gone \in m.gone : IsPrefix(gone, q.key)
  \/ LeftToAge(m.operation, q.operation)

CoversAll(m) == \A q \in QueryHooks : q.operation \in Changes(m.operation) => Covered(m, q)

LEMMA UpdateAccountCovers == CoversAll(useUpdateAccount)
<1> SUFFICES ASSUME NEW q \in QueryHooks, q.operation \in Changes(useUpdateAccount.operation)
             PROVE  Covered(useUpdateAccount, q)
  BY DEF CoversAll
<1>1. /\ useUpdateAccount.operation = "updateAccount"
      /\ useUpdateAccount.sets = {<<"account">>, <<"users", "detail">>,
                                  <<"auth", "session">>}
      /\ useUpdateAccount.stale = {<<"users">>}
      /\ useUpdateAccount.gone = {}
  BY DEF useUpdateAccount, Mutation, AccountKey, SessionKey
<1>2. \/ q.operation \in {"listUsers", "getUser", "getAccount"}
      \/ LeftToAge("updateAccount", q.operation)
  BY <1>1 DEF Changes, LeftToAge, PersonReaders, CheckinReaders
<1>3. \/ q.key \in {<<"users", "list">>, <<"users", "detail">>, <<"account">>}
      \/ LeftToAge("updateAccount", q.operation)
  BY <1>2, QueryKeys
<1> QED BY <1>1, <1>3, StaleKeys DEF Covered

LEMMA RotateAPIKeyCovers == CoversAll(useRotateAPIKey)
<1> SUFFICES ASSUME NEW q \in QueryHooks, q.operation \in Changes(useRotateAPIKey.operation)
             PROVE  Covered(useRotateAPIKey, q)
  BY DEF CoversAll
<1>1. /\ useRotateAPIKey.operation = "rotateAccountApiKey"
      /\ useRotateAPIKey.sets = {<<"account">>}
  BY DEF useRotateAPIKey, Mutation, AccountKey
<1>2. q.operation \in {"getAccount"}
  BY <1>1 DEF Changes
<1>3. q.key \in {<<"account">>}
  BY <1>2, QueryKeys
<1> QED BY <1>1, <1>3 DEF Covered

LEMMA RevokeAPIKeyCovers == CoversAll(useRevokeAPIKey)
<1> SUFFICES ASSUME NEW q \in QueryHooks, q.operation \in Changes(useRevokeAPIKey.operation)
             PROVE  Covered(useRevokeAPIKey, q)
  BY DEF CoversAll
<1>1. /\ useRevokeAPIKey.operation = "revokeAccountApiKey"
      /\ useRevokeAPIKey.sets = {<<"account">>}
  BY DEF useRevokeAPIKey, Mutation, AccountKey
<1>2. q.operation \in {"getAccount"}
  BY <1>1 DEF Changes
<1>3. q.key \in {<<"account">>}
  BY <1>2, QueryKeys
<1> QED BY <1>1, <1>3 DEF Covered

LEMMA CreateLocationCovers == CoversAll(useCreateLocation)
<1> SUFFICES ASSUME NEW q \in QueryHooks, q.operation \in Changes(useCreateLocation.operation)
             PROVE  Covered(useCreateLocation, q)
  BY DEF CoversAll
<1>1. /\ useCreateLocation.operation = "createLocation"
      /\ useCreateLocation.stale = {<<"locations">>, <<"stations", "locations">>}
      /\ useCreateLocation.gone = {}
  BY DEF useCreateLocation, Mutation, StationChoices
<1>2. \/ q.operation \in {"listLocations", "listStationLocations"}
      \/ LeftToAge("createLocation", q.operation)
  BY <1>1 DEF Changes, LeftToAge, LocationNames, CheckinReaders
<1>3. \/ q.key \in {<<"locations", "list">>, <<"stations", "locations">>}
      \/ LeftToAge("createLocation", q.operation)
  BY <1>2, QueryKeys
<1> QED BY <1>1, <1>3, StaleKeys DEF Covered

LEMMA UpdateLocationCovers == CoversAll(useUpdateLocation)
<1> SUFFICES ASSUME NEW q \in QueryHooks, q.operation \in Changes(useUpdateLocation.operation)
             PROVE  Covered(useUpdateLocation, q)
  BY DEF CoversAll
<1>1. /\ useUpdateLocation.operation = "updateLocation"
      /\ useUpdateLocation.sets = {<<"locations", "detail">>}
      /\ useUpdateLocation.stale = {<<"locations">>, <<"stations", "locations">>}
      /\ useUpdateLocation.gone = {}
  BY DEF useUpdateLocation, Mutation, StationChoices
<1>2. \/ q.operation \in {"listLocations", "getLocation", "listStationLocations"}
      \/ LeftToAge("updateLocation", q.operation)
  BY <1>1 DEF Changes, LeftToAge, LocationNames, CheckinReaders
<1>3. \/ q.key \in {<<"locations", "list">>, <<"locations", "detail">>,
                    <<"stations", "locations">>}
      \/ LeftToAge("updateLocation", q.operation)
  BY <1>2, QueryKeys
<1> QED BY <1>1, <1>3, StaleKeys DEF Covered

LEMMA DeleteLocationCovers == CoversAll(useDeleteLocation)
<1> SUFFICES ASSUME NEW q \in QueryHooks, q.operation \in Changes(useDeleteLocation.operation)
             PROVE  Covered(useDeleteLocation, q)
  BY DEF CoversAll
<1>1. /\ useDeleteLocation.operation = "deleteLocation"
      /\ useDeleteLocation.stale = {<<"locations">>, <<"stations", "locations">>}
      /\ useDeleteLocation.gone = {<<"locations", "detail">>}
  BY DEF useDeleteLocation, Deletion, StationChoices
<1>2. \/ q.operation \in {"listLocations", "listStationLocations"}
      \/ LeftToAge("deleteLocation", q.operation)
  BY <1>1 DEF Changes, LeftToAge, LocationNames, CheckinReaders
<1>3. \/ q.key \in {<<"locations", "list">>, <<"stations", "locations">>}
      \/ LeftToAge("deleteLocation", q.operation)
  BY <1>2, QueryKeys
<1> QED BY <1>1, <1>3, StaleKeys, GoneKeys DEF Covered

LEMMA CreateCheckinCovers == CoversAll(useCreateCheckin)
<1> SUFFICES ASSUME NEW q \in QueryHooks, q.operation \in Changes(useCreateCheckin.operation)
             PROVE  Covered(useCreateCheckin, q)
  BY DEF CoversAll
<1>1. /\ useCreateCheckin.operation = "createCheckin"
      /\ useCreateCheckin.sets = {<<"checkins", "detail">>}
      /\ useCreateCheckin.stale = {<<"checkins">>}
      /\ useCreateCheckin.gone = {}
  BY DEF useCreateCheckin, Mutation
<1>2. q.operation \in {"listCheckins", "listCheckinDepartments", "listCheckinLocations"}
  BY <1>1 DEF Changes, CheckinReaders
<1>3. q.key \in {<<"checkins", "list">>, <<"checkins", "departments">>,
                 <<"checkins", "locations">>}
  BY <1>2, QueryKeys
<1> QED BY <1>1, <1>3, StaleKeys DEF Covered

LEMMA UpdateCheckinCovers == CoversAll(useUpdateCheckin)
<1> SUFFICES ASSUME NEW q \in QueryHooks, q.operation \in Changes(useUpdateCheckin.operation)
             PROVE  Covered(useUpdateCheckin, q)
  BY DEF CoversAll
<1>1. /\ useUpdateCheckin.operation = "updateCheckin"
      /\ useUpdateCheckin.sets = {<<"checkins", "detail">>}
      /\ useUpdateCheckin.stale = {<<"checkins">>}
      /\ useUpdateCheckin.gone = {}
  BY DEF useUpdateCheckin, Mutation
<1>2. q.operation \in {"listCheckins", "listCheckinDepartments", "listCheckinLocations",
                       "getCheckin"}
  BY <1>1 DEF Changes, CheckinReaders
<1>3. q.key \in {<<"checkins", "list">>, <<"checkins", "departments">>,
                 <<"checkins", "locations">>, <<"checkins", "detail">>}
  BY <1>2, QueryKeys
<1> QED BY <1>1, <1>3, StaleKeys DEF Covered

LEMMA CreateStationCovers == CoversAll(useCreateStation)
<1> SUFFICES ASSUME NEW q \in QueryHooks, q.operation \in Changes(useCreateStation.operation)
             PROVE  Covered(useCreateStation, q)
  BY DEF CoversAll
<1>1. /\ useCreateStation.operation = "createStation"
      /\ useCreateStation.stale = {<<"stations">>}
      /\ useCreateStation.gone = {}
  BY DEF useCreateStation, Mutation
<1>2. q.operation \in {"listStations"}
  BY <1>1 DEF Changes
<1>3. q.key \in {<<"stations", "list">>}
  BY <1>2, QueryKeys
<1> QED BY <1>1, <1>3, StaleKeys DEF Covered

LEMMA UpdateStationCovers == CoversAll(useUpdateStation)
<1> SUFFICES ASSUME NEW q \in QueryHooks, q.operation \in Changes(useUpdateStation.operation)
             PROVE  Covered(useUpdateStation, q)
  BY DEF CoversAll
<1>1. /\ useUpdateStation.operation = "updateStation"
      /\ useUpdateStation.sets = {<<"stations", "detail">>}
      /\ useUpdateStation.stale = {<<"stations">>}
      /\ useUpdateStation.gone = {}
  BY DEF useUpdateStation, Mutation
<1>2. \/ q.operation \in {"listStations", "getStation"}
      \/ LeftToAge("updateStation", q.operation)
  BY <1>1 DEF Changes, LeftToAge, CheckinReaders
<1>3. \/ q.key \in {<<"stations", "list">>, <<"stations", "detail">>}
      \/ LeftToAge("updateStation", q.operation)
  BY <1>2, QueryKeys
<1> QED BY <1>1, <1>3, StaleKeys DEF Covered

LEMMA DeleteStationCovers == CoversAll(useDeleteStation)
<1> SUFFICES ASSUME NEW q \in QueryHooks, q.operation \in Changes(useDeleteStation.operation)
             PROVE  Covered(useDeleteStation, q)
  BY DEF CoversAll
<1>1. /\ useDeleteStation.operation = "deleteStation"
      /\ useDeleteStation.stale = {<<"stations">>}
      /\ useDeleteStation.gone = {<<"stations", "detail">>}
  BY DEF useDeleteStation, Deletion
<1>2. \/ q.operation \in {"listStations"}
      \/ LeftToAge("deleteStation", q.operation)
  BY <1>1 DEF Changes, LeftToAge, CheckinReaders
<1>3. \/ q.key \in {<<"stations", "list">>}
      \/ LeftToAge("deleteStation", q.operation)
  BY <1>2, QueryKeys
<1> QED BY <1>1, <1>3, StaleKeys, GoneKeys DEF Covered

LEMMA RotateStationKeyCovers == CoversAll(useRotateStationKey)
<1> SUFFICES ASSUME NEW q \in QueryHooks, q.operation \in Changes(useRotateStationKey.operation)
             PROVE  Covered(useRotateStationKey, q)
  BY DEF CoversAll
<1>1. /\ useRotateStationKey.operation = "rotateStationKey"
      /\ useRotateStationKey.sets = {<<"stations", "detail">>}
      /\ useRotateStationKey.stale = {<<"stations">>}
      /\ useRotateStationKey.gone = {}
  BY DEF useRotateStationKey, Mutation
<1>2. q.operation \in {"listStations", "getStation"}
  BY <1>1 DEF Changes
<1>3. q.key \in {<<"stations", "list">>, <<"stations", "detail">>}
  BY <1>2, QueryKeys
<1> QED BY <1>1, <1>3, StaleKeys DEF Covered

LEMMA CreateAuthzRoleCovers == CoversAll(useCreateAuthzRole)
<1> SUFFICES ASSUME NEW q \in QueryHooks, q.operation \in Changes(useCreateAuthzRole.operation)
             PROVE  Covered(useCreateAuthzRole, q)
  BY DEF CoversAll
<1>1. /\ useCreateAuthzRole.operation = "createRole"
      /\ useCreateAuthzRole.stale = {<<"authz", "roles">>}
      /\ useCreateAuthzRole.gone = {}
  BY DEF useCreateAuthzRole, Mutation, Roles
<1>2. \/ q.operation \in {"listRoles"}
      \/ LeftToAge("createRole", q.operation)
  BY <1>1 DEF Changes, LeftToAge, CheckinReaders
<1>3. \/ q.key \in {<<"authz", "roles", "list">>}
      \/ LeftToAge("createRole", q.operation)
  BY <1>2, QueryKeys
<1> QED BY <1>1, <1>3, StaleKeys DEF Covered

LEMMA UpdateAuthzRoleCovers == CoversAll(useUpdateAuthzRole)
<1> SUFFICES ASSUME NEW q \in QueryHooks, q.operation \in Changes(useUpdateAuthzRole.operation)
             PROVE  Covered(useUpdateAuthzRole, q)
  BY DEF CoversAll
<1>1. /\ useUpdateAuthzRole.operation = "updateRole"
      /\ useUpdateAuthzRole.sets = {<<"authz", "roles", "detail">>}
      /\ useUpdateAuthzRole.stale = {<<"authz", "roles">>, <<"users">>, <<"groups">>,
                                     <<"auth", "session">>, <<"account">>}
      /\ useUpdateAuthzRole.gone = {}
  BY DEF useUpdateAuthzRole, Mutation, Roles, RoleDetail, Identities, SignedInKeys,
         SessionKey, AccountKey
<1>2. q.operation \in {"listRoles", "getRole", "listUserRoles", "listUsers", "getUser",
                       "listGroups", "getGroup", "getAccount"}
  BY <1>1 DEF Changes, RoleReaders
<1>3. q.key \in {<<"authz", "roles", "list">>, <<"authz", "roles", "detail">>,
                 <<"users", "roles">>, <<"users", "list">>, <<"users", "detail">>,
                 <<"groups", "list">>, <<"groups", "detail">>, <<"account">>}
  BY <1>2, QueryKeys
<1> QED BY <1>1, <1>3, StaleKeys DEF Covered

LEMMA DeleteAuthzRoleCovers == CoversAll(useDeleteAuthzRole)
<1> SUFFICES ASSUME NEW q \in QueryHooks, q.operation \in Changes(useDeleteAuthzRole.operation)
             PROVE  Covered(useDeleteAuthzRole, q)
  BY DEF CoversAll
<1>1. /\ useDeleteAuthzRole.operation = "deleteRole"
      /\ useDeleteAuthzRole.stale = {<<"authz", "roles">>, <<"users">>, <<"groups">>,
                                     <<"auth", "session">>, <<"account">>}
      /\ useDeleteAuthzRole.gone = {<<"authz", "roles", "detail">>}
  BY DEF useDeleteAuthzRole, Deletion, Roles, RoleDetail, Identities, SignedInKeys,
         SessionKey, AccountKey
<1>2. q.operation \in {"listRoles", "listUserRoles", "listUsers", "getUser", "listGroups",
                       "getGroup", "getAccount"}
  BY <1>1 DEF Changes, RoleReaders
<1>3. q.key \in {<<"authz", "roles", "list">>, <<"users", "roles">>, <<"users", "list">>,
                 <<"users", "detail">>, <<"groups", "list">>, <<"groups", "detail">>,
                 <<"account">>}
  BY <1>2, QueryKeys
<1> QED BY <1>1, <1>3, StaleKeys, GoneKeys DEF Covered

LEMMA CreateUserCovers == CoversAll(useCreateUser)
<1> SUFFICES ASSUME NEW q \in QueryHooks, q.operation \in Changes(useCreateUser.operation)
             PROVE  Covered(useCreateUser, q)
  BY DEF CoversAll
<1>1. /\ useCreateUser.operation = "createUser"
      /\ useCreateUser.stale = {<<"users">>}
      /\ useCreateUser.gone = {}
  BY DEF useCreateUser, Mutation
<1>2. \/ q.operation \in {"listUsers"}
      \/ LeftToAge("createUser", q.operation)
  BY <1>1 DEF Changes, LeftToAge, CheckinReaders
<1>3. \/ q.key \in {<<"users", "list">>}
      \/ LeftToAge("createUser", q.operation)
  BY <1>2, QueryKeys
<1> QED BY <1>1, <1>3, StaleKeys DEF Covered

LEMMA UpdateUserCovers == CoversAll(useUpdateUser)
<1> SUFFICES ASSUME NEW q \in QueryHooks, q.operation \in Changes(useUpdateUser.operation)
             PROVE  Covered(useUpdateUser, q)
  BY DEF CoversAll
<1>1. /\ useUpdateUser.operation = "updateUser"
      /\ useUpdateUser.sets = {<<"users", "detail">>}
      /\ useUpdateUser.stale = {<<"users">>, <<"groups">>, <<"auth", "session">>,
                                <<"account">>}
      /\ useUpdateUser.gone = {}
  BY DEF useUpdateUser, Mutation, Identities, SignedInKeys, SessionKey, AccountKey
<1>2. \/ q.operation \in {"listUsers", "getUser", "getAccount"}
      \/ LeftToAge("updateUser", q.operation)
  BY <1>1 DEF Changes, LeftToAge, PersonReaders, CheckinReaders
<1>3. \/ q.key \in {<<"users", "list">>, <<"users", "detail">>, <<"account">>}
      \/ LeftToAge("updateUser", q.operation)
  BY <1>2, QueryKeys
<1> QED BY <1>1, <1>3, StaleKeys DEF Covered

LEMMA DeleteUserCovers == CoversAll(useDeleteUser)
<1> SUFFICES ASSUME NEW q \in QueryHooks, q.operation \in Changes(useDeleteUser.operation)
             PROVE  Covered(useDeleteUser, q)
  BY DEF CoversAll
<1>1. /\ useDeleteUser.operation = "deleteUser"
      /\ useDeleteUser.stale = {<<"users">>, <<"groups">>}
      /\ useDeleteUser.gone = {<<"users", "detail">>}
  BY DEF useDeleteUser, Deletion, Identities
<1>2. \/ q.operation \in {"listUsers", "listGroups", "getGroup"}
      \/ LeftToAge("deleteUser", q.operation)
  BY <1>1 DEF Changes, LeftToAge, CheckinReaders
<1>3. \/ q.key \in {<<"users", "list">>, <<"groups", "list">>, <<"groups", "detail">>}
      \/ LeftToAge("deleteUser", q.operation)
  BY <1>2, QueryKeys
<1> QED BY <1>1, <1>3, StaleKeys, GoneKeys DEF Covered

LEMMA UpdateGroupCovers == CoversAll(useUpdateGroup)
<1> SUFFICES ASSUME NEW q \in QueryHooks, q.operation \in Changes(useUpdateGroup.operation)
             PROVE  Covered(useUpdateGroup, q)
  BY DEF CoversAll
<1>1. /\ useUpdateGroup.operation = "updateGroup"
      /\ useUpdateGroup.sets = {<<"groups", "detail">>}
      /\ useUpdateGroup.stale = {<<"users">>, <<"groups">>, <<"auth", "session">>,
                                 <<"account">>}
      /\ useUpdateGroup.gone = {}
  BY DEF useUpdateGroup, Mutation, Identities, SignedInKeys, SessionKey, AccountKey
<1>2. q.operation \in {"listUsers", "getUser", "listGroups", "getGroup", "getAccount"}
  BY <1>1 DEF Changes, RoleReaders
<1>3. q.key \in {<<"users", "list">>, <<"users", "detail">>, <<"groups", "list">>,
                 <<"groups", "detail">>, <<"account">>}
  BY <1>2, QueryKeys
<1> QED BY <1>1, <1>3, StaleKeys DEF Covered

LEMMA TriggerDirectorySyncCovers == CoversAll(useTriggerDirectorySync)
<1> SUFFICES ASSUME NEW q \in QueryHooks, q.operation \in Changes(useTriggerDirectorySync.operation)
             PROVE  Covered(useTriggerDirectorySync, q)
  BY DEF CoversAll
<1>1. /\ useTriggerDirectorySync.operation = "triggerDirectorySync"
      /\ useTriggerDirectorySync.sets = {<<"directory", "sync">>}
  BY DEF useTriggerDirectorySync, Mutation
<1>2. q.operation \in {"getDirectorySync"}
  BY <1>1 DEF Changes
<1>3. q.key \in {<<"directory", "sync">>}
  BY <1>2, QueryKeys
<1> QED BY <1>1, <1>3 DEF Covered

LEMMA EveryHookCovers == \A m \in MutationHooks : CoversAll(m)
BY UpdateAccountCovers, RotateAPIKeyCovers, RevokeAPIKeyCovers, CreateLocationCovers,
   UpdateLocationCovers, DeleteLocationCovers, CreateCheckinCovers, UpdateCheckinCovers,
   CreateStationCovers, UpdateStationCovers, DeleteStationCovers, RotateStationKeyCovers,
   CreateAuthzRoleCovers, UpdateAuthzRoleCovers, DeleteAuthzRoleCovers, CreateUserCovers,
   UpdateUserCovers, DeleteUserCovers, UpdateGroupCovers, TriggerDirectorySyncCovers
DEF MutationHooks

-----------------------------------------------------------------------------
(* Once the save has succeeded what is cached from before is marked, and   *)
(* no answer from before is on its way.                                    *)

Marked ==
  saving = "saved" =>
    \/ late
    \/ LeftToAge(mutation.operation, query.operation)
    \/ fetch # "before" /\ (data = "before" => invalid)

CacheInv == CacheTypeOK /\ query.operation \in Changes(mutation.operation) /\ Marked

LEMMA CacheStart ==
  ASSUME NEW hooks \in SUBSET MutationHooks, NEW readings \in SUBSET QueryHooks,
         CacheInit(hooks, readings)
  PROVE  CacheInv
BY DEF CacheInit, CacheInv, CacheTypeOK, Marked

(* What the hook does when the call succeeds.                              *)
LEMMA SuccessMarks == ASSUME CacheInv, onSuccess PROVE CacheInv'
<1>1. UNCHANGED <<mutation, query, active>> /\ saving' = "saved"
  BY DEF onSuccess
<1>2. /\ mutation \in MutationHooks /\ query \in QueryHooks
      /\ query.operation \in Changes(mutation.operation)
  BY DEF CacheInv, CacheTypeOK
<1>3. Set \/ Invalidated \/ LeftToAge(mutation.operation, query.operation)
  BY <1>2, EveryHookCovers DEF CoversAll, Covered, Set, Invalidated
<1> DEFINE dropped == Invalidated /\ active /\ (data' # "missing" \/ fetch = "none")
<1>4. /\ data' = IF Set THEN "after" ELSE data
      /\ invalid' = IF data' = "missing" THEN invalid
                    ELSE Invalidated \/ (invalid /\ ~Set)
      /\ fetch' = IF dropped THEN "asked" ELSE fetch
      /\ late' = (fetch # "none" /\ ~dropped)
  BY DEF onSuccess
<1>5. Set \in BOOLEAN /\ Invalidated \in BOOLEAN /\ dropped \in BOOLEAN
  BY DEF Set, Invalidated
<1> HIDE DEF dropped
<1>6. CacheTypeOK'
  BY <1>1, <1>4, <1>5 DEF CacheInv, CacheTypeOK
<1>7. late' \/ fetch' = "asked" \/ fetch' = "none"
  BY <1>4, <1>5
<1>8. CASE Set
  BY <1>1, <1>4, <1>6, <1>7, <1>8 DEF CacheInv, Marked
<1>9. CASE Invalidated
  <2>1. data' = "before" => invalid'
    BY <1>4, <1>9
  <2> QED BY <1>1, <1>6, <1>7, <2>1 DEF CacheInv, Marked
<1>10. CASE LeftToAge(mutation.operation, query.operation)
  BY <1>1, <1>6, <1>10 DEF CacheInv, Marked
<1> QED BY <1>3, <1>8, <1>9, <1>10

LEMMA CacheSteps == ASSUME CacheInv, [CacheNext]_cacheVars PROVE CacheInv'
<1>1. CASE onSuccess BY <1>1, SuccessMarks
<1>2. CASE Mount \/ Unmount \/ Refresh
  BY <1>2 DEF Mount, Unmount, Refresh, CacheInv, CacheTypeOK, Marked
<1>3. CASE ServerAnswers
  BY <1>3 DEF ServerAnswers, CacheInv, CacheTypeOK, Marked
<1>4. CASE Arrive
  BY <1>4 DEF Arrive, CacheInv, CacheTypeOK, Marked
<1>5. CASE FetchFails
  BY <1>5 DEF FetchFails, CacheInv, CacheTypeOK, Marked
<1>6. CASE Submit \/ Commit \/ SaveLost
  BY <1>6 DEF Submit, Commit, SaveLost, CacheInv, CacheTypeOK, Marked
<1>7. CASE UNCHANGED cacheVars
  BY <1>7 DEF cacheVars, CacheInv, CacheTypeOK, Marked
<1> QED BY <1>1, <1>2, <1>3, <1>4, <1>5, <1>6, <1>7 DEF CacheNext

(* Whatever hook saves and whichever answer its operation changes, no      *)
(* order of fetches, pages and the answer to the save leaves the old one   *)
(* for current, unless it is left to grow old or was on its way and kept.  *)
THEOREM SavedIsShownHolds == CacheSpec => []SavedIsShown
<1>1. CacheInit(MutationHooks, QueryHooks) => CacheInv
  BY CacheStart
<1>2. CacheInv => SavedIsShown
  BY DEF CacheInv, CacheTypeOK, Marked, SavedIsShown
<1> QED BY <1>1, CacheSteps, <1>2, PTL DEF CacheSpec

(* The save and the answer that it changes stay what they were, and every  *)
(* fetch is asked, answered or over.                                       *)
THEOREM CacheTyped == CacheSpec => []CacheTypeOK
<1>1. CacheInit(MutationHooks, QueryHooks) => CacheInv
  BY CacheStart
<1>2. CacheInv => CacheTypeOK
  BY DEF CacheInv
<1> QED BY <1>1, CacheSteps, <1>2, PTL DEF CacheSpec

-----------------------------------------------------------------------------
(* The modules of the interface side by side.                              *)

WebInv ==
  /\ AccessInv
  /\ TabTyped /\ Presented
  /\ CacheInv
  /\ TableInv /\ ControlsTyped
  /\ FormInv

(* A module that rests is at a state that its own invariant allows.        *)
LEMMA RestingAccessKept == RestingAccess => AccessInv
<1> SUFFICES ASSUME RestingAccess PROVE AccessInv
  OBVIOUS
<1>1. granted \in Permissions
  BY DEF RestingAccess, Permissions, Levels
<1>2. "account" \in Addresses
  BY OtherTable
<1> QED BY <1>1, <1>2, StartKeeps DEF RestingAccess

LEMMA RestingTableKept == RestingTable => TableInv /\ ControlsTyped
<1> SUFFICES ASSUME RestingTable PROVE TableInv /\ ControlsTyped
  OBVIOUS
<1>1. First \in Searches /\ First.q = NoText /\ NoText \in Texts
  BY FirstIsASearch, TextsAssumption DEF First
<1>2. Wanted(First) \in [q : Texts, filters : [Keys -> SUBSET Options], scope : BOOLEAN]
  BY <1>1 DEF Searches, Wanted
<1>3. 0 \in 0..Loading /\ 0 \in 0..MaxInputs
  BY MaxPagesAssumption, MaxInputsAssumption DEF Loading
<1>4. TableInv
  BY <1>1, <1>2, <1>3 DEF RestingTable, TableInv, SearchTyped, Asked, Boxed, Wanted
<1>5. ControlsTyped
  BY <1>1, <1>3 DEF RestingTable, ControlsTyped
<1> QED BY <1>4, <1>5

LEMMA WebStart == WebInit => WebInv
<1> SUFFICES ASSUME WebInit PROVE WebInv
  OBVIOUS
<1>1. AccessInv
  BY AccessStart, RestingAccessKept DEF WebInit
<1>2. TabTyped /\ Presented
  <2>1. MCOwners \subseteq [Sessions -> Users]
    BY TwoUsers DEF MCOwners
  <2> QED BY <2>1, TypedStart DEF WebInit
<1>3. CacheInv
  <2>1. {useUpdateLocation} \subseteq MutationHooks /\ {useLocation} \subseteq QueryHooks
    BY DEF MutationHooks, QueryHooks
  <2> QED BY <2>1, CacheStart DEF WebInit
<1>4. TableInv /\ ControlsTyped
  BY TableStart, ControlsStart, RestingTableKept DEF WebInit
<1>5. FormInv
  <2>1. MCForms \subseteq Forms /\ {NewRole} \subseteq Forms
    BY DEF MCForms, Forms
  <2> QED BY <2>1, FormStart DEF WebInit
<1> QED BY <1>1, <1>2, <1>3, <1>4, <1>5 DEF WebInv

LEMMA WebSteps == WebInv /\ [WebNext]_webVars => WebInv'
<1> SUFFICES ASSUME WebInv, [WebNext]_webVars PROVE WebInv'
  OBVIOUS
<1>1. [AccessNext]_accessVars
  BY DEF WebNext, Access, Session, Cache, Table, Form, webVars
<1>2. [SessionNext]_sessionVars
  BY DEF WebNext, Access, Session, Cache, Table, Form, webVars
<1>3. [CacheNext]_cacheVars
  BY DEF WebNext, Access, Session, Cache, Table, Form, webVars
<1>4. [TableNext]_tableVars
  BY DEF WebNext, Access, Session, Cache, Table, Form, webVars
<1>5. [FormNext]_formVars
  BY DEF WebNext, Access, Session, Cache, Table, Form, webVars
<1> QED
  BY <1>1, <1>2, <1>3, <1>4, <1>5, AccessSteps, TypedSteps, CacheSteps, TableSteps,
     ControlsSteps, FormSteps
  DEF WebInv

(* The run of the modules side by side never leaves their types, for any   *)
(* account, users, sessions, texts, contents and bounds.                   *)
THEOREM WebTyped == WebSpec => []WebTypeOK
<1>1. WebInv => WebTypeOK
  BY DEF WebInv, WebTypeOK, AccessInv, TabTyped, Presented, SessionTypeOK, CacheInv,
         TableInv, SearchTyped, ControlsTyped, TableTypeOK, FormInv
<1> QED BY WebStart, WebSteps, <1>1, PTL DEF WebSpec
=============================================================================
