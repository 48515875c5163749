----------------------------- MODULE AdminPages -----------------------------
(***************************************************************************)
(* The pages of the administration web interface, the tree of its routes,  *)
(* what each route guards, and the navigation.                             *)
(*                                                                         *)
(* A page is a set of parts.  A part asks the server for the operations of *)
(* some hooks and leads to some routes, and is there when the account may  *)
(* do what the part needs.  Routes are named as their files are.           *)
(***************************************************************************)
EXTENDS AdminApi, FiniteSetsExt

Part(asks, leads, needs) == [asks |-> asks, leads |-> leads, needs |-> needs]
Asks(hooks) == Part({hook.operation : hook \in hooks}, {}, {})
AsksIf(needs, hooks) == Part({hook.operation : hook \in hooks}, {}, needs)
Leads(routes) == Part({}, routes, {})
LeadsIf(needs, routes) == Part({}, routes, needs)

-----------------------------------------------------------------------------
(* The pages.                                                              *)

UserFilterChip == {Asks({useCheckinUser})}
CheckinListPage ==
  UserFilterChip \cup
    {Asks({useCheckins, useCheckinDepartments, useCheckinLocations}),
     Leads({"checkins.index", "checkins.$id.index"}),
     LeadsIf(Edit("checkins"), {"checkins.new"})}
CheckinDetailPage ==
  {Asks({useCheckin}), Leads({"checkins.index"}),
   LeadsIf(Edit("checkins"), {"checkins.$id.edit"})}
CheckinLocationCombobox == {Asks({useCheckinAvailableLocations})}
CheckinPersonCombobox == {Asks({useCheckinPeople})}
CheckinForm == CheckinLocationCombobox \cup CheckinPersonCombobox
CheckinCreatePage ==
  CheckinForm \cup
    {Asks({useCreateCheckin}), Leads({"checkins.index", "checkins.$id.index"})}
CheckinEditPage ==
  CheckinForm \cup {Asks({useCheckin, useUpdateCheckin}), Leads({"checkins.$id.index"})}

LocationListPage ==
  {Asks({useLocations}), Leads({"locations.$id.index"}),
   LeadsIf(Edit("locations"), {"locations.new"})}
LocationDetailPage ==
  {Asks({useLocation}), AsksIf(Edit("locations"), {useDeleteLocation}),
   LeadsIf(Edit("locations"), {"locations.$id.edit", "locations.index"})}
LocationImagePicker == {Asks({useLocationBackgrounds, useLocationLogos})}
GroupPicker == {Asks({useLocationGroups})}
LocationForm == LocationImagePicker \cup GroupPicker
LocationCreatePage ==
  LocationForm \cup
    {Asks({useCreateLocation, useUploadLocationBackground, useUploadLocationLogo}),
     Leads({"locations.index", "locations.$id.index"})}
LocationEditPage ==
  LocationForm \cup
    {Asks({useLocation, useUpdateLocation, useUploadLocationBackground,
           useUploadLocationLogo}),
     Leads({"locations.$id.index"})}

StationListPage ==
  {Asks({useStations}), Leads({"stations.$id.index"}),
   LeadsIf(Edit("stations"), {"stations.new"})}
StationDetailPage ==
  {Asks({useStation}), AsksIf(Edit("stations"), {useRotateStationKey, useDeleteStation}),
   LeadsIf(Edit("stations"), {"stations.$id.edit", "stations.index"})}
LocationCombobox == {Asks({useStationLocations})}
StationForm == LocationCombobox
StationCreatePage ==
  StationForm \cup
    {Asks({useCreateStation}), Leads({"stations.index", "stations.$id.index"})}
StationEditPage ==
  StationForm \cup {Asks({useStation, useUpdateStation}), Leads({"stations.$id.index"})}

(* The picture of a sync with its counts; its button is for editors.       *)
UsersOverviewCard ==
  {AsksIf(View("users"), {useUsers}), LeadsIf(View("users"), {"directory.users.index"})}
GroupsOverviewCard ==
  {AsksIf(View("groups"), {useGroups}),
   LeadsIf(View("groups"), {"directory.groups.index"})}
DirectorySyncAction ==
  {Asks({useDirectorySync}), AsksIf(Edit("directory"), {useTriggerDirectorySync})}
DirectoryOverviewPage == UsersOverviewCard \cup GroupsOverviewCard \cup DirectorySyncAction

(* The chip of a list narrowed to a group asks for that group, whatever    *)
(* the account may see of groups.                                          *)
GroupFilterChip == {Asks({useGroup})}
UserDeleteDialog == {AsksIf(ManageRoles("users"), {useDeleteUser})}
UserRowActionsByUsers ==
  {LeadsIf(View("checkins"), {"checkins.index"}),
   LeadsIf(Edit("users"), {"directory.users.$id.edit", "account"})}
UserRowActions ==
  {LeadsIf(View("checkins"), {"checkins.index"}),
   LeadsIf(ManageRoles("users"), {"directory.users.$id.edit", "account"})}
UserListPage ==
  GroupFilterChip \cup UserDeleteDialog \cup UserRowActions \cup
    {Asks({useUsers, useUserRoles, useAccount}), Leads({"directory.users.$id.index"}),
     LeadsIf(ManageRoles("users"), {"directory.users.new"})}
UserDetailPage ==
  UserDeleteDialog \cup
    {Asks({useUser, useAccount}), Leads({"account"}),
     LeadsIf(View("checkins"), {"checkins.index"}),
     LeadsIf(ManageRoles("users"), {"directory.users.$id.edit", "directory.users.index"})}
RolePicker == {Asks({useAuthzRoles})}
UserCreateForm == RolePicker
UserCreatePage ==
  UserCreateForm \cup
    {Asks({useCreateUser}),
     Leads({"directory.users.index", "directory.users.$id.index"})}

APIKeySection == {Asks({useRotateAPIKey, useRevokeAPIKey})}
AccountForm == APIKeySection \cup {Asks({useUpdateAccount})}
AccountPage == AccountForm \cup {Asks({useAccount})}

(* One's own record is edited as an account.                               *)
UserForm == RolePicker
UserEdit == UserForm \cup {Asks({useUpdateUser}), Leads({"directory.users.$id.index"})}
UserEditPage == UserEdit \cup AccountPage \cup {Asks({useUser})}

GroupListPage ==
  {Asks({useGroups}), Leads({"directory.groups.$id.index", "directory.users.index"})}
GroupDetailPage ==
  {Asks({useGroup}), Leads({"directory.users.index"}),
   LeadsIf(ManageRoles("groups"), {"directory.groups.$id.edit"})}
GroupRoleForm ==
  RolePicker \cup {Asks({useUpdateGroup}), Leads({"directory.groups.$id.index"})}
GroupEditPage == GroupRoleForm \cup {Asks({useGroup})}

RoleListPage ==
  {Asks({useAuthzRoles}), Leads({"roles.$id.index"}),
   LeadsIf(Edit("authz.roles"), {"roles.new"})}
RoleDetailPage ==
  {Asks({useAuthzRole, useAuthzResources}),
   AsksIf(Edit("authz.roles"), {useDeleteAuthzRole}),
   LeadsIf(Edit("authz.roles"), {"roles.$id.edit", "roles.index"})}
RoleForm == {Asks({useAuthzResources})}
RoleCreatePage ==
  RoleForm \cup {Asks({useCreateAuthzRole}), Leads({"roles.index", "roles.$id.index"})}
RoleEditPage ==
  RoleForm \cup {Asks({useAuthzRole, useUpdateAuthzRole}), Leads({"roles.$id.index"})}

NotFoundPage == {Leads({"index"})}

-----------------------------------------------------------------------------
(* The routes, one definition per file: the address its path stands for,   *)
(* what its guard needs, where it sends an account that lacks it, and what *)
(* it renders; a loader asks as its page does.  "home" is the first page   *)
(* the navigation offers.                                                  *)

Route(at, needs, otherwise, page) ==
  [at |-> at, needs |-> needs, otherwise |-> otherwise, page |-> page]
Section(at, resource) == Route(at, View(resource), "home", {})
Renders(at, page) == Route(at, {}, "home", page)
Loads(at, hook) == Route(at, {}, "home", {Asks({hook})})

AccountRoute == Renders("account", AccountPage)
SplatRoute == Renders("$", NotFoundPage)

CheckinsRoute == Section("checkins.index", "checkins")
CheckinsIndexRoute == Renders("checkins.index", CheckinListPage)
CheckinsNewRoute == Route("checkins.new", Edit("checkins"), "home", CheckinCreatePage)
CheckinsIdRoute == Loads("checkins.$id.index", useCheckin)
CheckinsIdIndexRoute == Renders("checkins.$id.index", CheckinDetailPage)
CheckinsIdEditRoute ==
  Route("checkins.$id.edit", Edit("checkins"), "checkins.$id.index", CheckinEditPage)

LocationsRoute == Section("locations.index", "locations")
LocationsIndexRoute == Renders("locations.index", LocationListPage)
LocationsNewRoute == Route("locations.new", Edit("locations"), "home", LocationCreatePage)
LocationsIdRoute == Loads("locations.$id.index", useLocation)
LocationsIdIndexRoute == Renders("locations.$id.index", LocationDetailPage)
LocationsIdEditRoute ==
  Route("locations.$id.edit", Edit("locations"), "locations.$id.index", LocationEditPage)

StationsRoute == Section("stations.index", "stations")
StationsIndexRoute == Renders("stations.index", StationListPage)
StationsNewRoute == Route("stations.new", Edit("stations"), "home", StationCreatePage)
StationsIdRoute == Loads("stations.$id.index", useStation)
StationsIdIndexRoute == Renders("stations.$id.index", StationDetailPage)
StationsIdEditRoute ==
  Route("stations.$id.edit", Edit("stations"), "stations.$id.index", StationEditPage)

DirectoryRoute == Renders("directory.index", {})
DirectoryIndexRoute ==
  Route("directory.index", View("directory"), "home", DirectoryOverviewPage)

DirectoryUsersRoute == Section("directory.users.index", "users")
DirectoryUsersIndexRoute == Renders("directory.users.index", UserListPage)
DirectoryUsersNewRouteByUsers ==
  Route("directory.users.new", Edit("users"), "directory.users.index", UserCreatePage)
DirectoryUsersNewRoute ==
  Route("directory.users.new", ManageRoles("users"), "directory.users.index", UserCreatePage)
DirectoryUsersIdRoute == Loads("directory.users.$id.index", useUser)
DirectoryUsersIdIndexRoute == Renders("directory.users.$id.index", UserDetailPage)
DirectoryUsersIdEditRoute ==
  Route("directory.users.$id.edit", ManageRoles("users"), "directory.users.$id.index",
        UserEditPage)

DirectoryGroupsRoute == Section("directory.groups.index", "groups")
DirectoryGroupsIndexRoute == Renders("directory.groups.index", GroupListPage)
DirectoryGroupsIdRoute == Loads("directory.groups.$id.index", useGroup)
DirectoryGroupsIdIndexRoute == Renders("directory.groups.$id.index", GroupDetailPage)
DirectoryGroupsIdEditRoute ==
  Route("directory.groups.$id.edit", ManageRoles("groups"), "directory.groups.$id.index",
        GroupEditPage)

RolesRoute == Route("roles.index", View("authz.roles"), "checkins.index", {})
RolesIndexRoute == Renders("roles.index", RoleListPage)
RolesNewRoute == Route("roles.new", Edit("authz.roles"), "roles.index", RoleCreatePage)
RolesIdRoute == Loads("roles.$id.index", useAuthzRole)
RolesIdIndexRoute == Renders("roles.$id.index", RoleDetailPage)
RolesIdEditRoute ==
  Route("roles.$id.edit", Edit("authz.roles"), "roles.$id.index", RoleEditPage)

-----------------------------------------------------------------------------
(* The tree as its branches, one definition per parent with children: the  *)
(* routes from the shell of the application down to one without children,  *)
(* whose guards run and whose parts are shown in that order.               *)

CheckinsIdRouteChildren ==
  {<<CheckinsRoute, CheckinsIdRoute, CheckinsIdIndexRoute>>,
   <<CheckinsRoute, CheckinsIdRoute, CheckinsIdEditRoute>>}
CheckinsRouteChildren ==
  {<<CheckinsRoute, CheckinsIndexRoute>>, <<CheckinsRoute, CheckinsNewRoute>>}
    \cup CheckinsIdRouteChildren
LocationsIdRouteChildren ==
  {<<LocationsRoute, LocationsIdRoute, LocationsIdIndexRoute>>,
   <<LocationsRoute, LocationsIdRoute, LocationsIdEditRoute>>}
LocationsRouteChildren ==
  {<<LocationsRoute, LocationsIndexRoute>>, <<LocationsRoute, LocationsNewRoute>>}
    \cup LocationsIdRouteChildren
StationsIdRouteChildren ==
  {<<StationsRoute, StationsIdRoute, StationsIdIndexRoute>>,
   <<StationsRoute, StationsIdRoute, StationsIdEditRoute>>}
StationsRouteChildren ==
  {<<StationsRoute, StationsIndexRoute>>, <<StationsRoute, StationsNewRoute>>}
    \cup StationsIdRouteChildren
DirectoryUsersIdRouteChildren ==
  {<<DirectoryRoute, DirectoryUsersRoute, DirectoryUsersIdRoute, DirectoryUsersIdIndexRoute>>,
   <<DirectoryRoute, DirectoryUsersRoute, DirectoryUsersIdRoute, DirectoryUsersIdEditRoute>>}
DirectoryUsersRouteChildren ==
  {<<DirectoryRoute, DirectoryUsersRoute, DirectoryUsersIndexRoute>>,
   <<DirectoryRoute, DirectoryUsersRoute, DirectoryUsersNewRoute>>}
    \cup DirectoryUsersIdRouteChildren
DirectoryGroupsIdRouteChildren ==
  {<<DirectoryRoute, DirectoryGroupsRoute, DirectoryGroupsIdRoute,
     DirectoryGroupsIdIndexRoute>>,
   <<DirectoryRoute, DirectoryGroupsRoute, DirectoryGroupsIdRoute,
     DirectoryGroupsIdEditRoute>>}
DirectoryGroupsRouteChildren ==
  {<<DirectoryRoute, DirectoryGroupsRoute, DirectoryGroupsIndexRoute>>}
    \cup DirectoryGroupsIdRouteChildren
DirectoryRouteChildren ==
  {<<DirectoryRoute, DirectoryIndexRoute>>}
    \cup DirectoryUsersRouteChildren \cup DirectoryGroupsRouteChildren
RolesIdRouteChildren ==
  {<<RolesRoute, RolesIdRoute, RolesIdIndexRoute>>,
   <<RolesRoute, RolesIdRoute, RolesIdEditRoute>>}
RolesRouteChildren ==
  {<<RolesRoute, RolesIndexRoute>>, <<RolesRoute, RolesNewRoute>>}
    \cup RolesIdRouteChildren
AuthenticatedRouteChildren ==
  {<<AccountRoute>>, <<SplatRoute>>}

routeTree ==
  UNION {AuthenticatedRouteChildren, RolesRouteChildren, DirectoryRouteChildren,
         StationsRouteChildren, LocationsRouteChildren, CheckinsRouteChildren}

AddressOf(branch) == branch[Len(branch)].at

Addresses == {AddressOf(branch) : branch \in routeTree}

Matches == [address \in Addresses |-> CHOOSE branch \in routeTree : AddressOf(branch) = address]

(* What an address renders: the parts of the routes it matches.            *)
Parts(address) ==
  UNION {Matches[address][depth].page : depth \in DOMAIN Matches[address]}

-----------------------------------------------------------------------------
(* The navigation: items with an address, a need or items of their own.    *)

NavItem(to, needs) == [to |-> to, needs |-> needs, items |-> <<>>]

DirectoryMenu ==
  [to |-> "directory.index", needs |-> {},
   items |-> <<NavItem("directory.index", View("directory")),
               NavItem("directory.users.index", View("users")),
               NavItem("directory.groups.index", View("groups"))>>]

navSections ==
  <<NavItem("checkins.index", View("checkins")), NavItem("locations.index", View("locations")),
    NavItem("stations.index", View("stations")), DirectoryMenu>>

(* An item without a need of its own is there for its items' sake.         *)
Allowed(item, permissions) ==
  IF item.needs # {} THEN canAll(permissions, item.needs) ELSE item.items = <<>>

(* The positions of what is left of items that have none of their own, and *)
(* of the navigation.                                                      *)
AllowedAmong(items, permissions) == {i \in DOMAIN items : Allowed(items[i], permissions)}

filterNavigation(items, permissions) ==
  {i \in DOMAIN items : \/ Allowed(items[i], permissions)
                        \/ AllowedAmong(items[i].items, permissions) # {}}

TargetOfItem(item, permissions) == item.to

(* An item that only its items keep leads where the first of them leads.   *)
Target(item, permissions) ==
  IF Allowed(item, permissions) THEN item.to
  ELSE item.items[Min(AllowedAmong(item.items, permissions))].to

firstAccessiblePath(permissions) ==
  LET visible == filterNavigation(navSections, permissions)
  IN IF visible = {} THEN "account" ELSE Target(navSections[Min(visible)], permissions)

ItemsOf(item, permissions) ==
  {item.items[i].to : i \in AllowedAmong(item.items, permissions)}

AppSidebar(permissions) ==
  {firstAccessiblePath(permissions)} \cup
    UNION {{Target(navSections[i], permissions)} \cup ItemsOf(navSections[i], permissions) :
             i \in filterNavigation(navSections, permissions)}

SidebarUserMenu(permissions) ==
  {"account"} \cup
    IF can(permissions, "authz.roles", "view") THEN {"roles.index"} ELSE {}

(* The crumbs of a page lead to the pages of the routes above it.          *)
AppBreadcrumbs(address) ==
  {Matches[address][depth].at : depth \in DOMAIN Matches[address]} \ {address}
=============================================================================
