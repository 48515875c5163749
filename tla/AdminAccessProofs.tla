------------------------- MODULE AdminAccessProofs -------------------------
(***************************************************************************)
(* Proofs about AdminAccess, for every account and any number of           *)
(* permissions taken away: what the guards let pass, what the pages ask    *)
(* and where they lead agree with the rules of the server.                 *)
(***************************************************************************)
EXTENDS AdminAccess, TLAPS

(* Every guard on the way to an address lets an account pass.              *)
Opens(address, permissions) ==
  /\ address \in Addresses
  /\ \A depth \in DOMAIN Matches[address] : canAll(permissions, Matches[address][depth].needs)

(* What is rendered for an account asks only for what the server does for  *)
(* it, and leads only where it may go.                                     *)
Granting(address, permissions) ==
  \A part \in Parts(address) : canAll(permissions, part.needs) =>
    \A operation \in part.asks :
      \/ Permits(permissions, operation)
      \/ address = "directory.users.index" /\ operation = "getGroup"

Leading(address, permissions) ==
  \A to \in Offered(address, permissions) \ Unchecked(address) : Opens(to, permissions)

-----------------------------------------------------------------------------
(* The tree, one lemma per section: the branch of each address.            *)

LEMMA CheckinsBranches ==
  /\ \A branch \in CheckinsRouteChildren :
       AddressOf(branch) \in {"checkins.index", "checkins.new", "checkins.$id.index",
                              "checkins.$id.edit"}
  /\ \A one, other \in CheckinsRouteChildren : AddressOf(one) = AddressOf(other) => one = other
BY DEF AddressOf, Route, Renders, CheckinsRouteChildren, CheckinsIdRouteChildren,
       CheckinsIndexRoute, CheckinsNewRoute, CheckinsIdIndexRoute, CheckinsIdEditRoute

LEMMA LocationsBranches ==
  /\ \A branch \in LocationsRouteChildren :
       AddressOf(branch) \in {"locations.index", "locations.new", "locations.$id.index",
                              "locations.$id.edit"}
  /\ \A one, other \in LocationsRouteChildren : AddressOf(one) = AddressOf(other) => one = other
BY DEF AddressOf, Route, Renders, LocationsRouteChildren, LocationsIdRouteChildren,
       LocationsIndexRoute, LocationsNewRoute, LocationsIdIndexRoute, LocationsIdEditRoute

LEMMA StationsBranches ==
  /\ \A branch \in StationsRouteChildren :
       AddressOf(branch) \in {"stations.index", "stations.new", "stations.$id.index",
                              "stations.$id.edit"}
  /\ \A one, other \in StationsRouteChildren : AddressOf(one) = AddressOf(other) => one = other
BY DEF AddressOf, Route, Renders, StationsRouteChildren, StationsIdRouteChildren,
       StationsIndexRoute, StationsNewRoute, StationsIdIndexRoute, StationsIdEditRoute

LEMMA UsersBranches ==
  /\ \A branch \in DirectoryUsersRouteChildren :
       AddressOf(branch) \in {"directory.users.index", "directory.users.new",
                              "directory.users.$id.index", "directory.users.$id.edit"}
  /\ \A one, other \in DirectoryUsersRouteChildren :
       AddressOf(one) = AddressOf(other) => one = other
BY DEF AddressOf, Route, Renders, DirectoryUsersRouteChildren, DirectoryUsersIdRouteChildren,
       DirectoryUsersIndexRoute, DirectoryUsersNewRoute, DirectoryUsersIdIndexRoute,
       DirectoryUsersIdEditRoute

LEMMA GroupsBranches ==
  /\ \A branch \in DirectoryGroupsRouteChildren :
       AddressOf(branch) \in {"directory.groups.index", "directory.groups.$id.index",
                              "directory.groups.$id.edit"}
  /\ \A one, other \in DirectoryGroupsRouteChildren :
       AddressOf(one) = AddressOf(other) => one = other
BY DEF AddressOf, Route, Renders, DirectoryGroupsRouteChildren, DirectoryGroupsIdRouteChildren,
       DirectoryGroupsIndexRoute, DirectoryGroupsIdIndexRoute, DirectoryGroupsIdEditRoute

LEMMA RolesBranches ==
  /\ \A branch \in RolesRouteChildren :
       AddressOf(branch) \in {"roles.index", "roles.new", "roles.$id.index", "roles.$id.edit"}
  /\ \A one, other \in RolesRouteChildren : AddressOf(one) = AddressOf(other) => one = other
BY DEF AddressOf, Route, Renders, RolesRouteChildren, RolesIdRouteChildren,
       RolesIndexRoute, RolesNewRoute, RolesIdIndexRoute, RolesIdEditRoute

LEMMA OtherBranches ==
  /\ \A branch \in AuthenticatedRouteChildren : AddressOf(branch) \in {"account", "$"}
  /\ \A one, other \in AuthenticatedRouteChildren :
       AddressOf(one) = AddressOf(other) => one = other
  /\ AddressOf(<<DirectoryRoute, DirectoryIndexRoute>>) = "directory.index"
BY DEF AddressOf, Route, Renders, AuthenticatedRouteChildren, AccountRoute, SplatRoute,
       DirectoryIndexRoute

(* An address has one branch.                                              *)
LEMMA OneBranch ==
  ASSUME NEW one \in routeTree, NEW other \in routeTree, AddressOf(one) = AddressOf(other)
  PROVE  one = other
<1>1. \A branch \in routeTree :
        \/ branch \in CheckinsRouteChildren \/ branch \in LocationsRouteChildren
        \/ branch \in StationsRouteChildren \/ branch \in DirectoryUsersRouteChildren
        \/ branch \in DirectoryGroupsRouteChildren \/ branch \in RolesRouteChildren
        \/ branch \in AuthenticatedRouteChildren
        \/ branch = <<DirectoryRoute, DirectoryIndexRoute>>
  BY DEF routeTree, DirectoryRouteChildren
<1> QED
  BY <1>1, CheckinsBranches, LocationsBranches, StationsBranches, UsersBranches,
     GroupsBranches, RolesBranches, OtherBranches

LEMMA MatchIs ==
  ASSUME NEW branch \in routeTree
  PROVE  AddressOf(branch) \in Addresses /\ Matches[AddressOf(branch)] = branch
<1>1. AddressOf(branch) \in Addresses
  BY DEF Addresses
<1>2. \A other \in routeTree : AddressOf(other) = AddressOf(branch) => other = branch
  BY OneBranch
<1> QED BY <1>1, <1>2 DEF Matches

(* The branch of each address, section by section.                         *)

LEMMA CheckinsTable ==
  /\ Matches["checkins.index"] = <<CheckinsRoute, CheckinsIndexRoute>>
  /\ Matches["checkins.new"] = <<CheckinsRoute, CheckinsNewRoute>>
  /\ Matches["checkins.$id.index"]
       = <<CheckinsRoute, CheckinsIdRoute, CheckinsIdIndexRoute>>
  /\ Matches["checkins.$id.edit"] = <<CheckinsRoute, CheckinsIdRoute, CheckinsIdEditRoute>>
  /\ {"checkins.index", "checkins.new", "checkins.$id.index",
      "checkins.$id.edit"}
       \subseteq Addresses
<1>1. /\ <<CheckinsRoute, CheckinsIndexRoute>> \in routeTree
      /\ <<CheckinsRoute, CheckinsNewRoute>> \in routeTree
      /\ <<CheckinsRoute, CheckinsIdRoute, CheckinsIdIndexRoute>> \in routeTree
      /\ <<CheckinsRoute, CheckinsIdRoute, CheckinsIdEditRoute>> \in routeTree
  BY DEF routeTree, CheckinsRouteChildren, CheckinsIdRouteChildren
<1>2. /\ AddressOf(<<CheckinsRoute, CheckinsIndexRoute>>) = "checkins.index"
      /\ AddressOf(<<CheckinsRoute, CheckinsNewRoute>>) = "checkins.new"
      /\ AddressOf(<<CheckinsRoute, CheckinsIdRoute, CheckinsIdIndexRoute>>)
           = "checkins.$id.index"
      /\ AddressOf(<<CheckinsRoute, CheckinsIdRoute, CheckinsIdEditRoute>>)
           = "checkins.$id.edit"
  BY DEF AddressOf, Route, Renders, CheckinsIndexRoute, CheckinsNewRoute,
       CheckinsIdIndexRoute, CheckinsIdEditRoute
<1> QED BY <1>1, <1>2, MatchIs

LEMMA LocationsTable ==
  /\ Matches["locations.index"] = <<LocationsRoute, LocationsIndexRoute>>
  /\ Matches["locations.new"] = <<LocationsRoute, LocationsNewRoute>>
  /\ Matches["locations.$id.index"]
       = <<LocationsRoute, LocationsIdRoute, LocationsIdIndexRoute>>
  /\ Matches["locations.$id.edit"]
       = <<LocationsRoute, LocationsIdRoute, LocationsIdEditRoute>>
  /\ {"locations.index", "locations.new", "locations.$id.index",
      "locations.$id.edit"}
       \subseteq Addresses
<1>1. /\ <<LocationsRoute, LocationsIndexRoute>> \in routeTree
      /\ <<LocationsRoute, LocationsNewRoute>> \in routeTree
      /\ <<LocationsRoute, LocationsIdRoute, LocationsIdIndexRoute>> \in routeTree
      /\ <<LocationsRoute, LocationsIdRoute, LocationsIdEditRoute>> \in routeTree
  BY DEF routeTree, LocationsRouteChildren, LocationsIdRouteChildren
<1>2. /\ AddressOf(<<LocationsRoute, LocationsIndexRoute>>) = "locations.index"
      /\ AddressOf(<<LocationsRoute, LocationsNewRoute>>) = "locations.new"
      /\ AddressOf(<<LocationsRoute, LocationsIdRoute, LocationsIdIndexRoute>>)
           = "locations.$id.index"
      /\ AddressOf(<<LocationsRoute, LocationsIdRoute, LocationsIdEditRoute>>)
           = "locations.$id.edit"
  BY DEF AddressOf, Route, Renders, LocationsIndexRoute, LocationsNewRoute,
       LocationsIdIndexRoute, LocationsIdEditRoute
<1> QED BY <1>1, <1>2, MatchIs

LEMMA StationsTable ==
  /\ Matches["stations.index"] = <<StationsRoute, StationsIndexRoute>>
  /\ Matches["stations.new"] = <<StationsRoute, StationsNewRoute>>
  /\ Matches["stations.$id.index"]
       = <<StationsRoute, StationsIdRoute, StationsIdIndexRoute>>
  /\ Matches["stations.$id.edit"] = <<StationsRoute, StationsIdRoute, StationsIdEditRoute>>
  /\ {"stations.index", "stations.new", "stations.$id.index",
      "stations.$id.edit"}
       \subseteq Addresses
<1>1. /\ <<StationsRoute, StationsIndexRoute>> \in routeTree
      /\ <<StationsRoute, StationsNewRoute>> \in routeTree
      /\ <<StationsRoute, StationsIdRoute, StationsIdIndexRoute>> \in routeTree
      /\ <<StationsRoute, StationsIdRoute, StationsIdEditRoute>> \in routeTree
  BY DEF routeTree, StationsRouteChildren, StationsIdRouteChildren
<1>2. /\ AddressOf(<<StationsRoute, StationsIndexRoute>>) = "stations.index"
      /\ AddressOf(<<StationsRoute, StationsNewRoute>>) = "stations.new"
      /\ AddressOf(<<StationsRoute, StationsIdRoute, StationsIdIndexRoute>>)
           = "stations.$id.index"
      /\ AddressOf(<<StationsRoute, StationsIdRoute, StationsIdEditRoute>>)
           = "stations.$id.edit"
  BY DEF AddressOf, Route, Renders, StationsIndexRoute, StationsNewRoute,
       StationsIdIndexRoute, StationsIdEditRoute
<1> QED BY <1>1, <1>2, MatchIs

LEMMA UsersTable ==
  /\ Matches["directory.users.index"]
       = <<DirectoryRoute, DirectoryUsersRoute, DirectoryUsersIndexRoute>>
  /\ Matches["directory.users.new"]
       = <<DirectoryRoute, DirectoryUsersRoute, DirectoryUsersNewRoute>>
  /\ Matches["directory.users.$id.index"]
       = <<DirectoryRoute, DirectoryUsersRoute, DirectoryUsersIdRoute,
           DirectoryUsersIdIndexRoute>>
  /\ Matches["directory.users.$id.edit"]
       = <<DirectoryRoute, DirectoryUsersRoute, DirectoryUsersIdRoute,
           DirectoryUsersIdEditRoute>>
  /\ {"directory.users.index", "directory.users.new", "directory.users.$id.index",
      "directory.users.$id.edit"}
       \subseteq Addresses
<1>1. /\ <<DirectoryRoute, DirectoryUsersRoute, DirectoryUsersIndexRoute>> \in routeTree
      /\ <<DirectoryRoute, DirectoryUsersRoute, DirectoryUsersNewRoute>> \in routeTree
      /\ <<DirectoryRoute, DirectoryUsersRoute, DirectoryUsersIdRoute,
           DirectoryUsersIdIndexRoute>> \in routeTree
      /\ <<DirectoryRoute, DirectoryUsersRoute, DirectoryUsersIdRoute,
           DirectoryUsersIdEditRoute>> \in routeTree
  BY DEF routeTree, DirectoryRouteChildren, DirectoryUsersRouteChildren,
       DirectoryUsersIdRouteChildren
<1>2. /\ AddressOf(<<DirectoryRoute, DirectoryUsersRoute, DirectoryUsersIndexRoute>>)
           = "directory.users.index"
      /\ AddressOf(<<DirectoryRoute, DirectoryUsersRoute, DirectoryUsersNewRoute>>)
           = "directory.users.new"
      /\ AddressOf(<<DirectoryRoute, DirectoryUsersRoute, DirectoryUsersIdRoute,
                     DirectoryUsersIdIndexRoute>>)
           = "directory.users.$id.index"
      /\ AddressOf(<<DirectoryRoute, DirectoryUsersRoute, DirectoryUsersIdRoute,
                     DirectoryUsersIdEditRoute>>)
           = "directory.users.$id.edit"
  BY DEF AddressOf, Route, Renders, DirectoryUsersIndexRoute, DirectoryUsersNewRoute,
       DirectoryUsersIdIndexRoute, DirectoryUsersIdEditRoute
<1> QED BY <1>1, <1>2, MatchIs

LEMMA GroupsTable ==
  /\ Matches["directory.groups.index"]
       = <<DirectoryRoute, DirectoryGroupsRoute, DirectoryGroupsIndexRoute>>
  /\ Matches["directory.groups.$id.index"]
       = <<DirectoryRoute, DirectoryGroupsRoute, DirectoryGroupsIdRoute,
           DirectoryGroupsIdIndexRoute>>
  /\ Matches["directory.groups.$id.edit"]
       = <<DirectoryRoute, DirectoryGroupsRoute, DirectoryGroupsIdRoute,
           DirectoryGroupsIdEditRoute>>
  /\ {"directory.groups.index", "directory.groups.$id.index",
      "directory.groups.$id.edit"}
       \subseteq Addresses
<1>1. /\ <<DirectoryRoute, DirectoryGroupsRoute, DirectoryGroupsIndexRoute>> \in routeTree
      /\ <<DirectoryRoute, DirectoryGroupsRoute, DirectoryGroupsIdRoute,
           DirectoryGroupsIdIndexRoute>> \in routeTree
      /\ <<DirectoryRoute, DirectoryGroupsRoute, DirectoryGroupsIdRoute,
           DirectoryGroupsIdEditRoute>> \in routeTree
  BY DEF routeTree, DirectoryRouteChildren, DirectoryGroupsRouteChildren,
       DirectoryGroupsIdRouteChildren
<1>2. /\ AddressOf(<<DirectoryRoute, DirectoryGroupsRoute, DirectoryGroupsIndexRoute>>)
           = "directory.groups.index"
      /\ AddressOf(<<DirectoryRoute, DirectoryGroupsRoute, DirectoryGroupsIdRoute,
                     DirectoryGroupsIdIndexRoute>>)
           = "directory.groups.$id.index"
      /\ AddressOf(<<DirectoryRoute, DirectoryGroupsRoute, DirectoryGroupsIdRoute,
                     DirectoryGroupsIdEditRoute>>)
           = "directory.groups.$id.edit"
  BY DEF AddressOf, Route, Renders, DirectoryGroupsIndexRoute, DirectoryGroupsIdIndexRoute,
       DirectoryGroupsIdEditRoute
<1> QED BY <1>1, <1>2, MatchIs

LEMMA RolesTable ==
  /\ Matches["roles.index"] = <<RolesRoute, RolesIndexRoute>>
  /\ Matches["roles.new"] = <<RolesRoute, RolesNewRoute>>
  /\ Matches["roles.$id.index"] = <<RolesRoute, RolesIdRoute, RolesIdIndexRoute>>
  /\ Matches["roles.$id.edit"] = <<RolesRoute, RolesIdRoute, RolesIdEditRoute>>
  /\ {"roles.index", "roles.new", "roles.$id.index", "roles.$id.edit"} \subseteq Addresses
<1>1. /\ <<RolesRoute, RolesIndexRoute>> \in routeTree
      /\ <<RolesRoute, RolesNewRoute>> \in routeTree
      /\ <<RolesRoute, RolesIdRoute, RolesIdIndexRoute>> \in routeTree
      /\ <<RolesRoute, RolesIdRoute, RolesIdEditRoute>> \in routeTree
  BY DEF routeTree, RolesRouteChildren, RolesIdRouteChildren
<1>2. /\ AddressOf(<<RolesRoute, RolesIndexRoute>>) = "roles.index"
      /\ AddressOf(<<RolesRoute, RolesNewRoute>>) = "roles.new"
      /\ AddressOf(<<RolesRoute, RolesIdRoute, RolesIdIndexRoute>>) = "roles.$id.index"
      /\ AddressOf(<<RolesRoute, RolesIdRoute, RolesIdEditRoute>>) = "roles.$id.edit"
  BY DEF AddressOf, Route, Renders, RolesIndexRoute, RolesNewRoute, RolesIdIndexRoute,
       RolesIdEditRoute
<1> QED BY <1>1, <1>2, MatchIs

LEMMA OtherTable ==
  /\ Matches["account"] = <<AccountRoute>> /\ Matches["$"] = <<SplatRoute>>
  /\ Matches["directory.index"] = <<DirectoryRoute, DirectoryIndexRoute>>
  /\ {"account", "$", "directory.index"} \subseteq Addresses
<1>1. /\ <<AccountRoute>> \in routeTree /\ <<SplatRoute>> \in routeTree
      /\ <<DirectoryRoute, DirectoryIndexRoute>> \in routeTree
  BY DEF routeTree, DirectoryRouteChildren, AuthenticatedRouteChildren
<1>2. /\ AddressOf(<<AccountRoute>>) = "account" /\ AddressOf(<<SplatRoute>>) = "$"
      /\ AddressOf(<<DirectoryRoute, DirectoryIndexRoute>>) = "directory.index"
  BY DEF AddressOf, Route, Renders, AccountRoute, SplatRoute, DirectoryIndexRoute
<1> QED BY <1>1, <1>2, MatchIs


(* What opens each address.                                                *)

LEMMA Requirements ==
  ASSUME NEW p \in Permissions
  PROVE  /\ canAll(p, {})
         /\ \A resource : canAll(p, View(resource)) <=> can(p, resource, "view")
         /\ \A resource : canAll(p, Edit(resource)) <=> can(p, resource, "edit")
         /\ \A resource : canAll(p, ManageRoles(resource)) <=>
              can(p, resource, "edit") /\ can(p, "authz.roles", "edit")
         /\ \A resource : can(p, resource, "edit") => can(p, resource, "view")
BY DEF canAll, can, View, Edit, ManageRoles

LEMMA CheckinsOpen ==
  ASSUME NEW p \in Permissions
  PROVE  /\ Opens("checkins.index", p) <=> can(p, "checkins", "view")
         /\ Opens("checkins.new", p) <=> can(p, "checkins", "edit")
         /\ Opens("checkins.$id.index", p) <=> can(p, "checkins", "view")
         /\ Opens("checkins.$id.edit", p) <=> can(p, "checkins", "edit")
<1>1. /\ CheckinsRoute.needs = View("checkins")
      /\ CheckinsIndexRoute.needs = {}
      /\ CheckinsNewRoute.needs = Edit("checkins")
      /\ CheckinsIdRoute.needs = {}
      /\ CheckinsIdIndexRoute.needs = {}
      /\ CheckinsIdEditRoute.needs = Edit("checkins")
  BY DEF Route, Section, Renders, Loads, CheckinsRoute, CheckinsIndexRoute,
       CheckinsNewRoute, CheckinsIdRoute, CheckinsIdIndexRoute, CheckinsIdEditRoute
<1>2. Opens("checkins.index", p) <=>
        /\ canAll(p, CheckinsRoute.needs) /\ canAll(p, CheckinsIndexRoute.needs)
  BY CheckinsTable DEF Opens
<1>3. Opens("checkins.new", p) <=>
        /\ canAll(p, CheckinsRoute.needs) /\ canAll(p, CheckinsNewRoute.needs)
  BY CheckinsTable DEF Opens
<1>4. Opens("checkins.$id.index", p) <=>
        /\ canAll(p, CheckinsRoute.needs) /\ canAll(p, CheckinsIdRoute.needs)
        /\ canAll(p, CheckinsIdIndexRoute.needs)
  BY CheckinsTable DEF Opens
<1>5. Opens("checkins.$id.edit", p) <=>
        /\ canAll(p, CheckinsRoute.needs) /\ canAll(p, CheckinsIdRoute.needs)
        /\ canAll(p, CheckinsIdEditRoute.needs)
  BY CheckinsTable DEF Opens
<1> QED BY <1>1, <1>2, <1>3, <1>4, <1>5, Requirements

LEMMA LocationsOpen ==
  ASSUME NEW p \in Permissions
  PROVE  /\ Opens("locations.index", p) <=> can(p, "locations", "view")
         /\ Opens("locations.new", p) <=> can(p, "locations", "edit")
         /\ Opens("locations.$id.index", p) <=> can(p, "locations", "view")
         /\ Opens("locations.$id.edit", p) <=> can(p, "locations", "edit")
<1>1. /\ LocationsRoute.needs = View("locations")
      /\ LocationsIndexRoute.needs = {}
      /\ LocationsNewRoute.needs = Edit("locations")
      /\ LocationsIdRoute.needs = {}
      /\ LocationsIdIndexRoute.needs = {}
      /\ LocationsIdEditRoute.needs = Edit("locations")
  BY DEF Route, Section, Renders, Loads, LocationsRoute, LocationsIndexRoute,
       LocationsNewRoute, LocationsIdRoute, LocationsIdIndexRoute, LocationsIdEditRoute
<1>2. Opens("locations.index", p) <=>
        /\ canAll(p, LocationsRoute.needs) /\ canAll(p, LocationsIndexRoute.needs)
  BY LocationsTable DEF Opens
<1>3. Opens("locations.new", p) <=>
        /\ canAll(p, LocationsRoute.needs) /\ canAll(p, LocationsNewRoute.needs)
  BY LocationsTable DEF Opens
<1>4. Opens("locations.$id.index", p) <=>
        /\ canAll(p, LocationsRoute.needs) /\ canAll(p, LocationsIdRoute.needs)
        /\ canAll(p, LocationsIdIndexRoute.needs)
  BY LocationsTable DEF Opens
<1>5. Opens("locations.$id.edit", p) <=>
        /\ canAll(p, LocationsRoute.needs) /\ canAll(p, LocationsIdRoute.needs)
        /\ canAll(p, LocationsIdEditRoute.needs)
  BY LocationsTable DEF Opens
<1> QED BY <1>1, <1>2, <1>3, <1>4, <1>5, Requirements

LEMMA StationsOpen ==
  ASSUME NEW p \in Permissions
  PROVE  /\ Opens("stations.index", p) <=> can(p, "stations", "view")
         /\ Opens("stations.new", p) <=> can(p, "stations", "edit")
         /\ Opens("stations.$id.index", p) <=> can(p, "stations", "view")
         /\ Opens("stations.$id.edit", p) <=> can(p, "stations", "edit")
<1>1. /\ StationsRoute.needs = View("stations")
      /\ StationsIndexRoute.needs = {}
      /\ StationsNewRoute.needs = Edit("stations")
      /\ StationsIdRoute.needs = {}
      /\ StationsIdIndexRoute.needs = {}
      /\ StationsIdEditRoute.needs = Edit("stations")
  BY DEF Route, Section, Renders, Loads, StationsRoute, StationsIndexRoute,
       StationsNewRoute, StationsIdRoute, StationsIdIndexRoute, StationsIdEditRoute
<1>2. Opens("stations.index", p) <=>
        /\ canAll(p, StationsRoute.needs) /\ canAll(p, StationsIndexRoute.needs)
  BY StationsTable DEF Opens
<1>3. Opens("stations.new", p) <=>
        /\ canAll(p, StationsRoute.needs) /\ canAll(p, StationsNewRoute.needs)
  BY StationsTable DEF Opens
<1>4. Opens("stations.$id.index", p) <=>
        /\ canAll(p, StationsRoute.needs) /\ canAll(p, StationsIdRoute.needs)
        /\ canAll(p, StationsIdIndexRoute.needs)
  BY StationsTable DEF Opens
<1>5. Opens("stations.$id.edit", p) <=>
        /\ canAll(p, StationsRoute.needs) /\ canAll(p, StationsIdRoute.needs)
        /\ canAll(p, StationsIdEditRoute.needs)
  BY StationsTable DEF Opens
<1> QED BY <1>1, <1>2, <1>3, <1>4, <1>5, Requirements

LEMMA UsersOpen ==
  ASSUME NEW p \in Permissions
  PROVE  /\ Opens("directory.users.index", p) <=> can(p, "users", "view")
         /\ Opens("directory.users.new", p) <=>
              can(p, "users", "edit") /\ can(p, "authz.roles", "edit")
         /\ Opens("directory.users.$id.index", p) <=> can(p, "users", "view")
         /\ Opens("directory.users.$id.edit", p) <=>
              can(p, "users", "edit") /\ can(p, "authz.roles", "edit")
<1>1. /\ DirectoryRoute.needs = {}
      /\ DirectoryUsersRoute.needs = View("users")
      /\ DirectoryUsersIndexRoute.needs = {}
      /\ DirectoryUsersNewRoute.needs = ManageRoles("users")
      /\ DirectoryUsersIdRoute.needs = {}
      /\ DirectoryUsersIdIndexRoute.needs = {}
      /\ DirectoryUsersIdEditRoute.needs = ManageRoles("users")
  BY DEF Route, Section, Renders, Loads, DirectoryRoute, DirectoryUsersRoute,
       DirectoryUsersIndexRoute, DirectoryUsersNewRoute, DirectoryUsersIdRoute,
       DirectoryUsersIdIndexRoute, DirectoryUsersIdEditRoute
<1>2. Opens("directory.users.index", p) <=>
        /\ canAll(p, DirectoryRoute.needs) /\ canAll(p, DirectoryUsersRoute.needs)
        /\ canAll(p, DirectoryUsersIndexRoute.needs)
  BY UsersTable DEF Opens
<1>3. Opens("directory.users.new", p) <=>
        /\ canAll(p, DirectoryRoute.needs) /\ canAll(p, DirectoryUsersRoute.needs)
        /\ canAll(p, DirectoryUsersNewRoute.needs)
  BY UsersTable DEF Opens
<1>4. Opens("directory.users.$id.index", p) <=>
        /\ canAll(p, DirectoryRoute.needs) /\ canAll(p, DirectoryUsersRoute.needs)
        /\ canAll(p, DirectoryUsersIdRoute.needs)
        /\ canAll(p, DirectoryUsersIdIndexRoute.needs)
  BY UsersTable DEF Opens
<1>5. Opens("directory.users.$id.edit", p) <=>
        /\ canAll(p, DirectoryRoute.needs) /\ canAll(p, DirectoryUsersRoute.needs)
        /\ canAll(p, DirectoryUsersIdRoute.needs) /\ canAll(p, DirectoryUsersIdEditRoute.needs)
  BY UsersTable DEF Opens
<1> QED BY <1>1, <1>2, <1>3, <1>4, <1>5, Requirements

LEMMA GroupsOpen ==
  ASSUME NEW p \in Permissions
  PROVE  /\ Opens("directory.groups.index", p) <=> can(p, "groups", "view")
         /\ Opens("directory.groups.$id.index", p) <=> can(p, "groups", "view")
         /\ Opens("directory.groups.$id.edit", p) <=>
              can(p, "groups", "edit") /\ can(p, "authz.roles", "edit")
<1>1. /\ DirectoryRoute.needs = {}
      /\ DirectoryGroupsRoute.needs = View("groups")
      /\ DirectoryGroupsIndexRoute.needs = {}
      /\ DirectoryGroupsIdRoute.needs = {}
      /\ DirectoryGroupsIdIndexRoute.needs = {}
      /\ DirectoryGroupsIdEditRoute.needs = ManageRoles("groups")
  BY DEF Route, Section, Renders, Loads, DirectoryRoute, DirectoryGroupsRoute,
       DirectoryGroupsIndexRoute, DirectoryGroupsIdRoute, DirectoryGroupsIdIndexRoute,
       DirectoryGroupsIdEditRoute
<1>2. Opens("directory.groups.index", p) <=>
        /\ canAll(p, DirectoryRoute.needs) /\ canAll(p, DirectoryGroupsRoute.needs)
        /\ canAll(p, DirectoryGroupsIndexRoute.needs)
  BY GroupsTable DEF Opens
<1>3. Opens("directory.groups.$id.index", p) <=>
        /\ canAll(p, DirectoryRoute.needs) /\ canAll(p, DirectoryGroupsRoute.needs)
        /\ canAll(p, DirectoryGroupsIdRoute.needs)
        /\ canAll(p, DirectoryGroupsIdIndexRoute.needs)
  BY GroupsTable DEF Opens
<1>4. Opens("directory.groups.$id.edit", p) <=>
        /\ canAll(p, DirectoryRoute.needs) /\ canAll(p, DirectoryGroupsRoute.needs)
        /\ canAll(p, DirectoryGroupsIdRoute.needs)
        /\ canAll(p, DirectoryGroupsIdEditRoute.needs)
  BY GroupsTable DEF Opens
<1> QED BY <1>1, <1>2, <1>3, <1>4, Requirements

LEMMA RolesOpen ==
  ASSUME NEW p \in Permissions
  PROVE  /\ Opens("roles.index", p) <=> can(p, "authz.roles", "view")
         /\ Opens("roles.new", p) <=> can(p, "authz.roles", "edit")
         /\ Opens("roles.$id.index", p) <=> can(p, "authz.roles", "view")
         /\ Opens("roles.$id.edit", p) <=> can(p, "authz.roles", "edit")
<1>1. /\ RolesRoute.needs = View("authz.roles")
      /\ RolesIndexRoute.needs = {}
      /\ RolesNewRoute.needs = Edit("authz.roles")
      /\ RolesIdRoute.needs = {}
      /\ RolesIdIndexRoute.needs = {}
      /\ RolesIdEditRoute.needs = Edit("authz.roles")
  BY DEF Route, Section, Renders, Loads, RolesRoute, RolesIndexRoute, RolesNewRoute,
       RolesIdRoute, RolesIdIndexRoute, RolesIdEditRoute
<1>2. Opens("roles.index", p) <=>
        /\ canAll(p, RolesRoute.needs) /\ canAll(p, RolesIndexRoute.needs)
  BY RolesTable DEF Opens
<1>3. Opens("roles.new", p) <=>
        /\ canAll(p, RolesRoute.needs) /\ canAll(p, RolesNewRoute.needs)
  BY RolesTable DEF Opens
<1>4. Opens("roles.$id.index", p) <=>
        /\ canAll(p, RolesRoute.needs) /\ canAll(p, RolesIdRoute.needs)
        /\ canAll(p, RolesIdIndexRoute.needs)
  BY RolesTable DEF Opens
<1>5. Opens("roles.$id.edit", p) <=>
        /\ canAll(p, RolesRoute.needs) /\ canAll(p, RolesIdRoute.needs)
        /\ canAll(p, RolesIdEditRoute.needs)
  BY RolesTable DEF Opens
<1> QED BY <1>1, <1>2, <1>3, <1>4, <1>5, Requirements

LEMMA OtherOpen ==
  ASSUME NEW p \in Permissions
  PROVE  /\ Opens("account", p) /\ Opens("$", p)
         /\ Opens("directory.index", p) <=> can(p, "directory", "view")
BY OtherTable, Requirements DEF Opens, Route, Renders, AccountRoute, SplatRoute,
       DirectoryRoute, DirectoryIndexRoute


(* What the server does for an account.                                    *)

(* The rules that name some operations require the same for each of them.  *)
Require(operations, requirements) ==
  \A rule \in Rules, operation \in operations :
    operation \in rule.operations => rule.requirements = requirements

LEMMA Required ==
  /\ Require(AccountOperations, {})
  /\ Require({"listCheckinDepartments", "listCheckinLocations", "getCheckinUser",
              "listCheckins", "getCheckin"}, View("checkins"))
  /\ Require({"listCheckinAvailableLocations", "listCheckinPeople", "createCheckin",
              "updateCheckin"}, Edit("checkins"))
  /\ Require({"listLocations", "getLocation", "listLocationBackgrounds",
              "listLocationLogos"}, View("locations"))
  /\ Require({"listLocationGroups", "createLocation", "updateLocation", "deleteLocation",
              "createLocationBackgroundUpload", "createLocationLogoUpload"},
             Edit("locations"))
  /\ Require({"listStations", "getStation"}, View("stations"))
  /\ Require({"listStationLocations", "createStation", "updateStation", "deleteStation",
              "rotateStationKey"}, Edit("stations"))
  /\ Require({"listAuthorizationResources", "listRoles", "getRole"}, View("authz.roles"))
  /\ Require({"createRole", "updateRole", "deleteRole"}, Edit("authz.roles"))
  /\ Require({"listUserRoles", "listUsers", "getUser"}, View("users"))
  /\ Require({"createUser", "updateUser", "deleteUser"}, ManageRoles("users"))
  /\ Require({"listGroups", "getGroup"}, View("groups"))
  /\ Require({"updateGroup"}, ManageRoles("groups"))
  /\ Require({"getDirectorySync"}, View("directory"))
  /\ Require({"triggerDirectorySync"}, Edit("directory"))
BY DEF Require, Rules, Needs, AccountRules, CheckinRules, LocationRules, LocationImageRules,
       StationRules, RoleRules, UserRules, GroupRules, SyncRules, AccountOperations

LEMMA Served ==
  ASSUME NEW p \in Permissions
  PROVE  /\ \A operation \in AccountOperations : Permits(p, operation)
         /\ can(p, "checkins", "view") =>
              \A operation \in {"listCheckinDepartments", "listCheckinLocations",
                                "getCheckinUser", "listCheckins", "getCheckin"} :
                Permits(p, operation)
         /\ can(p, "checkins", "edit") =>
              \A operation \in {"listCheckinAvailableLocations", "listCheckinPeople",
                                "createCheckin", "updateCheckin"} :
                Permits(p, operation)
         /\ can(p, "locations", "view") =>
              \A operation \in {"listLocations", "getLocation", "listLocationBackgrounds",
                                "listLocationLogos"} :
                Permits(p, operation)
         /\ can(p, "locations", "edit") =>
              \A operation \in {"listLocationGroups", "createLocation", "updateLocation",
                                "deleteLocation", "createLocationBackgroundUpload",
                                "createLocationLogoUpload"} :
                Permits(p, operation)
         /\ can(p, "stations", "view") =>
              \A operation \in {"listStations", "getStation"} :
                Permits(p, operation)
         /\ can(p, "stations", "edit") =>
              \A operation \in {"listStationLocations", "createStation", "updateStation",
                                "deleteStation", "rotateStationKey"} :
                Permits(p, operation)
         /\ can(p, "authz.roles", "view") =>
              \A operation \in {"listAuthorizationResources", "listRoles", "getRole"} :
                Permits(p, operation)
         /\ can(p, "authz.roles", "edit") =>
              \A operation \in {"createRole", "updateRole", "deleteRole"} :
                Permits(p, operation)
         /\ can(p, "users", "view") =>
              \A operation \in {"listUserRoles", "listUsers", "getUser"} :
                Permits(p, operation)
         /\ can(p, "users", "edit") /\ can(p, "authz.roles", "edit") =>
              \A operation \in {"createUser", "updateUser", "deleteUser"} :
                Permits(p, operation)
         /\ can(p, "groups", "view") =>
              \A operation \in {"listGroups", "getGroup"} :
                Permits(p, operation)
         /\ can(p, "groups", "edit") /\ can(p, "authz.roles", "edit") =>
              \A operation \in {"updateGroup"} :
                Permits(p, operation)
         /\ can(p, "directory", "view") =>
              \A operation \in {"getDirectorySync"} :
                Permits(p, operation)
         /\ can(p, "directory", "edit") =>
              \A operation \in {"triggerDirectorySync"} :
                Permits(p, operation)
<1>1. \A operations, requirements :
        Require(operations, requirements) /\ canAll(p, requirements) =>
          \A operation \in operations : Permits(p, operation)
  BY DEF Require, Permits
<1> QED BY <1>1, Required, Requirements

(* What each address renders.                                              *)

LEMMA CheckinsParts ==
  /\ Parts("checkins.index") = CheckinListPage
  /\ Parts("checkins.new") = CheckinCreatePage
  /\ Parts("checkins.$id.index") = {Asks({useCheckin})} \cup CheckinDetailPage
  /\ Parts("checkins.$id.edit") = {Asks({useCheckin})} \cup CheckinEditPage
<1>1. /\ CheckinsRoute.page = {}
      /\ CheckinsIndexRoute.page = CheckinListPage
      /\ CheckinsNewRoute.page = CheckinCreatePage
      /\ CheckinsIdRoute.page = {Asks({useCheckin})}
      /\ CheckinsIdIndexRoute.page = CheckinDetailPage
      /\ CheckinsIdEditRoute.page = CheckinEditPage
  BY DEF Route, Section, Renders, Loads, CheckinsRoute, CheckinsIndexRoute,
       CheckinsNewRoute, CheckinsIdRoute, CheckinsIdIndexRoute, CheckinsIdEditRoute
<1>2. Parts("checkins.index") =
        CheckinsRoute.page \cup CheckinsIndexRoute.page
  BY CheckinsTable DEF Parts
<1>3. Parts("checkins.new") =
        CheckinsRoute.page \cup CheckinsNewRoute.page
  BY CheckinsTable DEF Parts
<1>4. Parts("checkins.$id.index") =
        CheckinsRoute.page \cup CheckinsIdRoute.page \cup CheckinsIdIndexRoute.page
  BY CheckinsTable DEF Parts
<1>5. Parts("checkins.$id.edit") =
        CheckinsRoute.page \cup CheckinsIdRoute.page \cup CheckinsIdEditRoute.page
  BY CheckinsTable DEF Parts
<1> QED BY <1>1, <1>2, <1>3, <1>4, <1>5

LEMMA LocationsParts ==
  /\ Parts("locations.index") = LocationListPage
  /\ Parts("locations.new") = LocationCreatePage
  /\ Parts("locations.$id.index") = {Asks({useLocation})} \cup LocationDetailPage
  /\ Parts("locations.$id.edit") = {Asks({useLocation})} \cup LocationEditPage
<1>1. /\ LocationsRoute.page = {}
      /\ LocationsIndexRoute.page = LocationListPage
      /\ LocationsNewRoute.page = LocationCreatePage
      /\ LocationsIdRoute.page = {Asks({useLocation})}
      /\ LocationsIdIndexRoute.page = LocationDetailPage
      /\ LocationsIdEditRoute.page = LocationEditPage
  BY DEF Route, Section, Renders, Loads, LocationsRoute, LocationsIndexRoute,
       LocationsNewRoute, LocationsIdRoute, LocationsIdIndexRoute, LocationsIdEditRoute
<1>2. Parts("locations.index") =
        LocationsRoute.page \cup LocationsIndexRoute.page
  BY LocationsTable DEF Parts
<1>3. Parts("locations.new") =
        LocationsRoute.page \cup LocationsNewRoute.page
  BY LocationsTable DEF Parts
<1>4. Parts("locations.$id.index") =
        LocationsRoute.page \cup LocationsIdRoute.page \cup LocationsIdIndexRoute.page
  BY LocationsTable DEF Parts
<1>5. Parts("locations.$id.edit") =
        LocationsRoute.page \cup LocationsIdRoute.page \cup LocationsIdEditRoute.page
  BY LocationsTable DEF Parts
<1> QED BY <1>1, <1>2, <1>3, <1>4, <1>5

LEMMA StationsParts ==
  /\ Parts("stations.index") = StationListPage
  /\ Parts("stations.new") = StationCreatePage
  /\ Parts("stations.$id.index") = {Asks({useStation})} \cup StationDetailPage
  /\ Parts("stations.$id.edit") = {Asks({useStation})} \cup StationEditPage
<1>1. /\ StationsRoute.page = {}
      /\ StationsIndexRoute.page = StationListPage
      /\ StationsNewRoute.page = StationCreatePage
      /\ StationsIdRoute.page = {Asks({useStation})}
      /\ StationsIdIndexRoute.page = StationDetailPage
      /\ StationsIdEditRoute.page = StationEditPage
  BY DEF Route, Section, Renders, Loads, StationsRoute, StationsIndexRoute,
       StationsNewRoute, StationsIdRoute, StationsIdIndexRoute, StationsIdEditRoute
<1>2. Parts("stations.index") =
        StationsRoute.page \cup StationsIndexRoute.page
  BY StationsTable DEF Parts
<1>3. Parts("stations.new") =
        StationsRoute.page \cup StationsNewRoute.page
  BY StationsTable DEF Parts
<1>4. Parts("stations.$id.index") =
        StationsRoute.page \cup StationsIdRoute.page \cup StationsIdIndexRoute.page
  BY StationsTable DEF Parts
<1>5. Parts("stations.$id.edit") =
        StationsRoute.page \cup StationsIdRoute.page \cup StationsIdEditRoute.page
  BY StationsTable DEF Parts
<1> QED BY <1>1, <1>2, <1>3, <1>4, <1>5

LEMMA UsersParts ==
  /\ Parts("directory.users.index") = UserListPage
  /\ Parts("directory.users.new") = UserCreatePage
  /\ Parts("directory.users.$id.index") = {Asks({useUser})} \cup UserDetailPage
  /\ Parts("directory.users.$id.edit") = {Asks({useUser})} \cup UserEditPage
<1>1. /\ DirectoryRoute.page = {}
      /\ DirectoryUsersRoute.page = {}
      /\ DirectoryUsersIndexRoute.page = UserListPage
      /\ DirectoryUsersNewRoute.page = UserCreatePage
      /\ DirectoryUsersIdRoute.page = {Asks({useUser})}
      /\ DirectoryUsersIdIndexRoute.page = UserDetailPage
      /\ DirectoryUsersIdEditRoute.page = UserEditPage
  BY DEF Route, Section, Renders, Loads, DirectoryRoute, DirectoryUsersRoute,
       DirectoryUsersIndexRoute, DirectoryUsersNewRoute, DirectoryUsersIdRoute,
       DirectoryUsersIdIndexRoute, DirectoryUsersIdEditRoute
<1>2. Parts("directory.users.index") =
        DirectoryRoute.page \cup DirectoryUsersRoute.page \cup DirectoryUsersIndexRoute.page
  BY UsersTable DEF Parts
<1>3. Parts("directory.users.new") =
        DirectoryRoute.page \cup DirectoryUsersRoute.page \cup DirectoryUsersNewRoute.page
  BY UsersTable DEF Parts
<1>4. Parts("directory.users.$id.index") =
        DirectoryRoute.page \cup DirectoryUsersRoute.page \cup DirectoryUsersIdRoute.page
          \cup DirectoryUsersIdIndexRoute.page
  BY UsersTable DEF Parts
<1>5. Parts("directory.users.$id.edit") =
        DirectoryRoute.page \cup DirectoryUsersRoute.page \cup DirectoryUsersIdRoute.page
          \cup DirectoryUsersIdEditRoute.page
  BY UsersTable DEF Parts
<1> QED BY <1>1, <1>2, <1>3, <1>4, <1>5

LEMMA GroupsParts ==
  /\ Parts("directory.groups.index") = GroupListPage
  /\ Parts("directory.groups.$id.index") = {Asks({useGroup})} \cup GroupDetailPage
  /\ Parts("directory.groups.$id.edit") = {Asks({useGroup})} \cup GroupEditPage
<1>1. /\ DirectoryRoute.page = {}
      /\ DirectoryGroupsRoute.page = {}
      /\ DirectoryGroupsIndexRoute.page = GroupListPage
      /\ DirectoryGroupsIdRoute.page = {Asks({useGroup})}
      /\ DirectoryGroupsIdIndexRoute.page = GroupDetailPage
      /\ DirectoryGroupsIdEditRoute.page = GroupEditPage
  BY DEF Route, Section, Renders, Loads, DirectoryRoute, DirectoryGroupsRoute,
       DirectoryGroupsIndexRoute, DirectoryGroupsIdRoute, DirectoryGroupsIdIndexRoute,
       DirectoryGroupsIdEditRoute
<1>2. Parts("directory.groups.index") =
        DirectoryRoute.page \cup DirectoryGroupsRoute.page \cup DirectoryGroupsIndexRoute.page
  BY GroupsTable DEF Parts
<1>3. Parts("directory.groups.$id.index") =
        DirectoryRoute.page \cup DirectoryGroupsRoute.page \cup DirectoryGroupsIdRoute.page
          \cup DirectoryGroupsIdIndexRoute.page
  BY GroupsTable DEF Parts
<1>4. Parts("directory.groups.$id.edit") =
        DirectoryRoute.page \cup DirectoryGroupsRoute.page \cup DirectoryGroupsIdRoute.page
          \cup DirectoryGroupsIdEditRoute.page
  BY GroupsTable DEF Parts
<1> QED BY <1>1, <1>2, <1>3, <1>4

LEMMA RolesParts ==
  /\ Parts("roles.index") = RoleListPage
  /\ Parts("roles.new") = RoleCreatePage
  /\ Parts("roles.$id.index") = {Asks({useAuthzRole})} \cup RoleDetailPage
  /\ Parts("roles.$id.edit") = {Asks({useAuthzRole})} \cup RoleEditPage
<1>1. /\ RolesRoute.page = {}
      /\ RolesIndexRoute.page = RoleListPage
      /\ RolesNewRoute.page = RoleCreatePage
      /\ RolesIdRoute.page = {Asks({useAuthzRole})}
      /\ RolesIdIndexRoute.page = RoleDetailPage
      /\ RolesIdEditRoute.page = RoleEditPage
  BY DEF Route, Section, Renders, Loads, RolesRoute, RolesIndexRoute, RolesNewRoute,
       RolesIdRoute, RolesIdIndexRoute, RolesIdEditRoute
<1>2. Parts("roles.index") =
        RolesRoute.page \cup RolesIndexRoute.page
  BY RolesTable DEF Parts
<1>3. Parts("roles.new") =
        RolesRoute.page \cup RolesNewRoute.page
  BY RolesTable DEF Parts
<1>4. Parts("roles.$id.index") =
        RolesRoute.page \cup RolesIdRoute.page \cup RolesIdIndexRoute.page
  BY RolesTable DEF Parts
<1>5. Parts("roles.$id.edit") =
        RolesRoute.page \cup RolesIdRoute.page \cup RolesIdEditRoute.page
  BY RolesTable DEF Parts
<1> QED BY <1>1, <1>2, <1>3, <1>4, <1>5

LEMMA OtherParts ==
  /\ Parts("account") = AccountPage /\ Parts("$") = NotFoundPage
  /\ Parts("directory.index") = DirectoryOverviewPage
BY OtherTable DEF Parts, Route, Renders, AccountRoute, SplatRoute, DirectoryRoute,
       DirectoryIndexRoute

(* A page whose guards passed asks only for what the server does.          *)

LEMMA CheckinsGranting ==
  ASSUME NEW p \in Permissions,
         NEW address \in {"checkins.index", "checkins.new", "checkins.$id.index",
                          "checkins.$id.edit"},
         Opens(address, p)
  PROVE  Granting(address, p)
<1> USE Requirements, Served DEF Granting, Part
<1>1. CASE address = "checkins.index"
  BY <1>1, CheckinsOpen, CheckinsParts DEF Asks, Leads, LeadsIf, Query, CheckinListPage,
       UserFilterChip, useCheckinUser, useCheckins, useCheckinDepartments,
       useCheckinLocations
<1>2. CASE address = "checkins.new"
  BY <1>2, CheckinsOpen, CheckinsParts DEF Asks, Leads, Query, Mutation, CheckinCreatePage,
       CheckinForm, CheckinLocationCombobox, CheckinPersonCombobox,
       useCheckinAvailableLocations, useCheckinPeople, useCreateCheckin
<1>3. CASE address = "checkins.$id.index"
  BY <1>3, CheckinsOpen, CheckinsParts DEF Asks, Leads, LeadsIf, Query, CheckinDetailPage,
       useCheckin
<1>4. CASE address = "checkins.$id.edit"
  BY <1>4, CheckinsOpen, CheckinsParts DEF Asks, Leads, Query, Mutation, CheckinEditPage,
       CheckinForm, CheckinLocationCombobox, CheckinPersonCombobox, useCheckin,
       useCheckinAvailableLocations, useCheckinPeople, useUpdateCheckin
<1> QED BY <1>1, <1>2, <1>3, <1>4

LEMMA LocationsGranting ==
  ASSUME NEW p \in Permissions,
         NEW address \in {"locations.index", "locations.new", "locations.$id.index",
                          "locations.$id.edit"},
         Opens(address, p)
  PROVE  Granting(address, p)
<1> USE Requirements, Served DEF Granting, Part
<1>1. CASE address = "locations.index"
  BY <1>1, LocationsOpen, LocationsParts DEF Asks, Leads, LeadsIf, Query, LocationListPage,
       useLocations
<1>2. CASE address = "locations.new"
  BY <1>2, LocationsOpen, LocationsParts DEF Asks, Leads, Query, Mutation,
       LocationCreatePage, LocationForm, LocationImagePicker, GroupPicker,
       useLocationBackgrounds, useLocationLogos, useLocationGroups, useCreateLocation,
       useUploadLocationBackground, useUploadLocationLogo
<1>3. CASE address = "locations.$id.index"
  BY <1>3, LocationsOpen, LocationsParts DEF Asks, AsksIf, LeadsIf, Query, Deletion,
       LocationDetailPage, useLocation, useDeleteLocation
<1>4. CASE address = "locations.$id.edit"
  BY <1>4, LocationsOpen, LocationsParts DEF Asks, Leads, Query, Mutation, LocationEditPage,
       LocationForm, LocationImagePicker, GroupPicker, useLocation, useLocationBackgrounds,
       useLocationLogos, useLocationGroups, useUpdateLocation, useUploadLocationBackground,
       useUploadLocationLogo
<1> QED BY <1>1, <1>2, <1>3, <1>4

LEMMA StationsGranting ==
  ASSUME NEW p \in Permissions,
         NEW address \in {"stations.index", "stations.new", "stations.$id.index",
                          "stations.$id.edit"},
         Opens(address, p)
  PROVE  Granting(address, p)
<1> USE Requirements, Served DEF Granting, Part
<1>1. CASE address = "stations.index"
  BY <1>1, StationsOpen, StationsParts DEF Asks, Leads, LeadsIf, Query, StationListPage,
       useStations
<1>2. CASE address = "stations.new"
  BY <1>2, StationsOpen, StationsParts DEF Asks, Leads, Query, Mutation, StationCreatePage,
       StationForm, LocationCombobox, useStationLocations, useCreateStation
<1>3. CASE address = "stations.$id.index"
  BY <1>3, StationsOpen, StationsParts DEF Asks, AsksIf, LeadsIf, Query, Mutation, Deletion,
       StationDetailPage, useStation, useRotateStationKey, useDeleteStation
<1>4. CASE address = "stations.$id.edit"
  BY <1>4, StationsOpen, StationsParts DEF Asks, Leads, Query, Mutation, StationEditPage,
       StationForm, LocationCombobox, useStation, useStationLocations, useUpdateStation
<1> QED BY <1>1, <1>2, <1>3, <1>4

LEMMA UsersGranting ==
  ASSUME NEW p \in Permissions,
         NEW address \in {"directory.users.index", "directory.users.new",
                          "directory.users.$id.index", "directory.users.$id.edit"},
         Opens(address, p)
  PROVE  Granting(address, p)
<1> USE Requirements, Served DEF Granting, Part
<1>1. CASE address = "directory.users.index"
  BY <1>1, UsersOpen, UsersParts DEF Asks, AsksIf, Leads, LeadsIf, Query, Deletion,
       UserListPage, GroupFilterChip, UserDeleteDialog, UserRowActions, useGroup,
       useDeleteUser, useUsers, useUserRoles, useAccount, AccountOperations
<1>2. CASE address = "directory.users.new"
  BY <1>2, UsersOpen, UsersParts DEF Asks, Leads, Query, Mutation, UserCreatePage,
       UserCreateForm, RolePicker, useAuthzRoles, useCreateUser
<1>3. CASE address = "directory.users.$id.index"
  BY <1>3, UsersOpen, UsersParts DEF Asks, AsksIf, Leads, LeadsIf, Query, Deletion,
       UserDetailPage, UserDeleteDialog, useUser, useDeleteUser, useAccount,
       AccountOperations
<1>4. CASE address = "directory.users.$id.edit"
  BY <1>4, UsersOpen, UsersParts DEF Asks, Leads, Query, Mutation, UserEditPage, UserEdit,
       UserForm, RolePicker, AccountPage, AccountForm, APIKeySection, useUser,
       useAuthzRoles, useUpdateUser, useRotateAPIKey, useRevokeAPIKey, useUpdateAccount,
       useAccount, AccountOperations
<1> QED BY <1>1, <1>2, <1>3, <1>4

LEMMA GroupsGranting ==
  ASSUME NEW p \in Permissions,
         NEW address \in {"directory.groups.index", "directory.groups.$id.index",
                          "directory.groups.$id.edit"},
         Opens(address, p)
  PROVE  Granting(address, p)
<1> USE Requirements, Served DEF Granting, Part
<1>1. CASE address = "directory.groups.index"
  BY <1>1, GroupsOpen, GroupsParts DEF Asks, Leads, Query, GroupListPage, useGroups
<1>2. CASE address = "directory.groups.$id.index"
  BY <1>2, GroupsOpen, GroupsParts DEF Asks, Leads, LeadsIf, Query, GroupDetailPage,
       useGroup
<1>3. CASE address = "directory.groups.$id.edit"
  BY <1>3, GroupsOpen, GroupsParts DEF Asks, Leads, Query, Mutation, GroupEditPage,
       GroupRoleForm, RolePicker, useGroup, useAuthzRoles, useUpdateGroup
<1> QED BY <1>1, <1>2, <1>3

LEMMA RolesGranting ==
  ASSUME NEW p \in Permissions,
         NEW address \in {"roles.index", "roles.new", "roles.$id.index", "roles.$id.edit"},
         Opens(address, p)
  PROVE  Granting(address, p)
<1> USE Requirements, Served DEF Granting, Part
<1>1. CASE address = "roles.index"
  BY <1>1, RolesOpen, RolesParts DEF Asks, Leads, LeadsIf, Query, RoleListPage,
       useAuthzRoles
<1>2. CASE address = "roles.new"
  BY <1>2, RolesOpen, RolesParts DEF Asks, Leads, Query, Mutation, RoleCreatePage, RoleForm,
       useAuthzResources, useCreateAuthzRole
<1>3. CASE address = "roles.$id.index"
  BY <1>3, RolesOpen, RolesParts DEF Asks, AsksIf, LeadsIf, Query, Deletion, RoleDetailPage,
       useAuthzRole, useAuthzResources, useDeleteAuthzRole
<1>4. CASE address = "roles.$id.edit"
  BY <1>4, RolesOpen, RolesParts DEF Asks, Leads, Query, Mutation, RoleEditPage, RoleForm,
       useAuthzRole, useAuthzResources, useUpdateAuthzRole
<1> QED BY <1>1, <1>2, <1>3, <1>4

LEMMA OtherGranting ==
  ASSUME NEW p \in Permissions,
         NEW address \in {"account", "$", "directory.index"},
         Opens(address, p)
  PROVE  Granting(address, p)
<1> USE Requirements, Served DEF Granting, Part
<1>1. CASE address = "account"
  BY <1>1, OtherOpen, OtherParts DEF Asks, Query, Mutation, AccountPage, AccountForm,
       APIKeySection, useRotateAPIKey, useRevokeAPIKey, useUpdateAccount, useAccount,
       AccountOperations
<1>2. CASE address = "$"
  BY <1>2, OtherOpen, OtherParts DEF Leads, NotFoundPage
<1>3. CASE address = "directory.index"
  BY <1>3, OtherOpen, OtherParts DEF Asks, AsksIf, LeadsIf, Query, Mutation,
       DirectoryOverviewPage, UsersOverviewCard, GroupsOverviewCard, DirectorySyncAction,
       useUsers, useGroups, useDirectorySync, useTriggerDirectorySync
<1> QED BY <1>1, <1>2, <1>3

(* A page whose guards passed leads only where the account may go.         *)

LEMMA CheckinsLeading ==
  ASSUME NEW p \in Permissions,
         NEW address \in {"checkins.index", "checkins.new", "checkins.$id.index",
                          "checkins.$id.edit"},
         Opens(address, p)
  PROVE  Leading(address, p)
<1> USE Requirements DEF Leading, Offered, Unchecked, Part
<1>1. CASE address = "checkins.index"
  BY <1>1, CheckinsOpen, CheckinsParts DEF Asks, Leads, LeadsIf, CheckinListPage,
       UserFilterChip
<1>2. CASE address = "checkins.new"
  BY <1>2, CheckinsOpen, CheckinsParts DEF Asks, Leads, CheckinCreatePage, CheckinForm,
       CheckinLocationCombobox, CheckinPersonCombobox
<1>3. CASE address = "checkins.$id.index"
  BY <1>3, CheckinsOpen, CheckinsParts DEF Asks, Leads, LeadsIf, CheckinDetailPage
<1>4. CASE address = "checkins.$id.edit"
  BY <1>4, CheckinsOpen, CheckinsParts DEF Asks, Leads, CheckinEditPage, CheckinForm,
       CheckinLocationCombobox, CheckinPersonCombobox
<1> QED BY <1>1, <1>2, <1>3, <1>4

LEMMA LocationsLeading ==
  ASSUME NEW p \in Permissions,
         NEW address \in {"locations.index", "locations.new", "locations.$id.index",
                          "locations.$id.edit"},
         Opens(address, p)
  PROVE  Leading(address, p)
<1> USE Requirements DEF Leading, Offered, Unchecked, Part
<1>1. CASE address = "locations.index"
  BY <1>1, LocationsOpen, LocationsParts DEF Asks, Leads, LeadsIf, LocationListPage
<1>2. CASE address = "locations.new"
  BY <1>2, LocationsOpen, LocationsParts DEF Asks, Leads, LocationCreatePage, LocationForm,
       LocationImagePicker, GroupPicker
<1>3. CASE address = "locations.$id.index"
  BY <1>3, LocationsOpen, LocationsParts DEF Asks, AsksIf, LeadsIf, LocationDetailPage
<1>4. CASE address = "locations.$id.edit"
  BY <1>4, LocationsOpen, LocationsParts DEF Asks, Leads, LocationEditPage, LocationForm,
       LocationImagePicker, GroupPicker
<1> QED BY <1>1, <1>2, <1>3, <1>4

LEMMA StationsLeading ==
  ASSUME NEW p \in Permissions,
         NEW address \in {"stations.index", "stations.new", "stations.$id.index",
                          "stations.$id.edit"},
         Opens(address, p)
  PROVE  Leading(address, p)
<1> USE Requirements DEF Leading, Offered, Unchecked, Part
<1>1. CASE address = "stations.index"
  BY <1>1, StationsOpen, StationsParts DEF Asks, Leads, LeadsIf, StationListPage
<1>2. CASE address = "stations.new"
  BY <1>2, StationsOpen, StationsParts DEF Asks, Leads, StationCreatePage, StationForm,
       LocationCombobox
<1>3. CASE address = "stations.$id.index"
  BY <1>3, StationsOpen, StationsParts DEF Asks, AsksIf, LeadsIf, StationDetailPage
<1>4. CASE address = "stations.$id.edit"
  BY <1>4, StationsOpen, StationsParts DEF Asks, Leads, StationEditPage, StationForm,
       LocationCombobox
<1> QED BY <1>1, <1>2, <1>3, <1>4

LEMMA UsersLeading ==
  ASSUME NEW p \in Permissions,
         NEW address \in {"directory.users.index", "directory.users.new",
                          "directory.users.$id.index", "directory.users.$id.edit"},
         Opens(address, p)
  PROVE  Leading(address, p)
<1> USE Requirements DEF Leading, Offered, Unchecked, Part
<1>1. CASE address = "directory.users.index"
  BY <1>1, UsersOpen, UsersParts, CheckinsOpen, OtherOpen DEF Asks, AsksIf, Leads, LeadsIf,
       UserListPage, GroupFilterChip, UserDeleteDialog, UserRowActions
<1>2. CASE address = "directory.users.new"
  BY <1>2, UsersOpen, UsersParts, CheckinsOpen, OtherOpen DEF Asks, Leads, UserCreatePage,
       UserCreateForm, RolePicker
<1>3. CASE address = "directory.users.$id.index"
  BY <1>3, UsersOpen, UsersParts, CheckinsOpen, OtherOpen DEF Asks, AsksIf, Leads, LeadsIf,
       UserDetailPage, UserDeleteDialog
<1>4. CASE address = "directory.users.$id.edit"
  BY <1>4, UsersOpen, UsersParts, CheckinsOpen, OtherOpen DEF Asks, Leads, UserEditPage,
       UserEdit, UserForm, RolePicker, AccountPage, AccountForm, APIKeySection
<1> QED BY <1>1, <1>2, <1>3, <1>4

LEMMA GroupsLeading ==
  ASSUME NEW p \in Permissions,
         NEW address \in {"directory.groups.index", "directory.groups.$id.index",
                          "directory.groups.$id.edit"},
         Opens(address, p)
  PROVE  Leading(address, p)
<1> USE Requirements DEF Leading, Offered, Unchecked, Part
<1>1. CASE address = "directory.groups.index"
  BY <1>1, GroupsOpen, GroupsParts DEF Asks, Leads, GroupListPage
<1>2. CASE address = "directory.groups.$id.index"
  BY <1>2, GroupsOpen, GroupsParts DEF Asks, Leads, LeadsIf, GroupDetailPage
<1>3. CASE address = "directory.groups.$id.edit"
  BY <1>3, GroupsOpen, GroupsParts DEF Asks, Leads, GroupEditPage, GroupRoleForm, RolePicker
<1> QED BY <1>1, <1>2, <1>3

LEMMA RolesLeading ==
  ASSUME NEW p \in Permissions,
         NEW address \in {"roles.index", "roles.new", "roles.$id.index", "roles.$id.edit"},
         Opens(address, p)
  PROVE  Leading(address, p)
<1> USE Requirements DEF Leading, Offered, Unchecked, Part
<1>1. CASE address = "roles.index"
  BY <1>1, RolesOpen, RolesParts DEF Asks, Leads, LeadsIf, RoleListPage
<1>2. CASE address = "roles.new"
  BY <1>2, RolesOpen, RolesParts DEF Asks, Leads, RoleCreatePage, RoleForm
<1>3. CASE address = "roles.$id.index"
  BY <1>3, RolesOpen, RolesParts DEF Asks, AsksIf, LeadsIf, RoleDetailPage
<1>4. CASE address = "roles.$id.edit"
  BY <1>4, RolesOpen, RolesParts DEF Asks, Leads, RoleEditPage, RoleForm
<1> QED BY <1>1, <1>2, <1>3, <1>4

LEMMA OtherLeading ==
  ASSUME NEW p \in Permissions,
         NEW address \in {"account", "$", "directory.index"},
         Opens(address, p)
  PROVE  Leading(address, p)
<1> USE Requirements DEF Leading, Offered, Unchecked, Part
<1>1. CASE address = "account"
  BY <1>1, OtherOpen, OtherParts DEF Asks, AccountPage, AccountForm, APIKeySection
<1>2. CASE address = "$"
  BY <1>2, OtherOpen, OtherParts DEF Leads, NotFoundPage
<1>3. CASE address = "directory.index"
  BY <1>3, OtherOpen, OtherParts, UsersOpen, GroupsOpen DEF Asks, AsksIf, LeadsIf,
       DirectoryOverviewPage, UsersOverviewCard, GroupsOverviewCard, DirectorySyncAction
<1> QED BY <1>1, <1>2, <1>3

-----------------------------------------------------------------------------
(* Every address, taken together.                                          *)

LEMMA AddressesAre ==
  ASSUME NEW address \in Addresses
  PROVE  \/ address \in {"checkins.index", "checkins.new", "checkins.$id.index",
                         "checkins.$id.edit"}
         \/ address \in {"locations.index", "locations.new", "locations.$id.index",
                         "locations.$id.edit"}
         \/ address \in {"stations.index", "stations.new", "stations.$id.index",
                         "stations.$id.edit"}
         \/ address \in {"directory.users.index", "directory.users.new",
                         "directory.users.$id.index", "directory.users.$id.edit"}
         \/ address \in {"directory.groups.index", "directory.groups.$id.index",
                         "directory.groups.$id.edit"}
         \/ address \in {"roles.index", "roles.new", "roles.$id.index", "roles.$id.edit"}
         \/ address \in {"account", "$", "directory.index"}
<1>1. PICK branch \in routeTree : AddressOf(branch) = address
  BY DEF Addresses
<1>2. \/ branch \in CheckinsRouteChildren \/ branch \in LocationsRouteChildren
      \/ branch \in StationsRouteChildren \/ branch \in DirectoryUsersRouteChildren
      \/ branch \in DirectoryGroupsRouteChildren \/ branch \in RolesRouteChildren
      \/ branch \in AuthenticatedRouteChildren
      \/ branch = <<DirectoryRoute, DirectoryIndexRoute>>
  BY DEF routeTree, DirectoryRouteChildren
<1> QED
  BY <1>1, <1>2, CheckinsBranches, LocationsBranches, StationsBranches, UsersBranches,
     GroupsBranches, RolesBranches, OtherBranches

LEMMA EntriesAreNot == Entries \cap Addresses = {}
BY AddressesAre DEF Entries

LEMMA BranchShape ==
  ASSUME NEW address \in Addresses
  PROVE  DOMAIN Matches[address] \subseteq 1..4
BY AddressesAre, CheckinsTable, LocationsTable, StationsTable, UsersTable, GroupsTable,
   RolesTable, OtherTable

(* A page whose guards all passed asks and leads as it should.             *)
LEMMA OpenPages ==
  ASSUME NEW p \in Permissions, NEW address, Opens(address, p)
  PROVE  Granting(address, p) /\ Leading(address, p)
<1>1. address \in Addresses
  BY DEF Opens
<1>2. Granting(address, p)
  BY <1>1, AddressesAre, CheckinsGranting, LocationsGranting, StationsGranting, UsersGranting,
     GroupsGranting, RolesGranting, OtherGranting
<1>3. Leading(address, p)
  BY <1>1, AddressesAre, CheckinsLeading, LocationsLeading, StationsLeading, UsersLeading,
     GroupsLeading, RolesLeading, OtherLeading
<1> QED BY <1>2, <1>3

-----------------------------------------------------------------------------
(* The navigation leads only where the account may go.                     *)

LEMMA LeastIsThere ==
  ASSUME NEW S, S \subseteq 1..4, S # {}
  PROVE  Min(S) \in S
<1>1. \E x \in S : \A y \in S : x <= y
  <2>1. CASE 1 \in S
    BY <2>1
  <2>2. CASE 1 \notin S /\ 2 \in S
    BY <2>2
  <2>3. CASE S \subseteq 3..4
    <3>1. CASE 3 \in S
      BY <2>3, <3>1
    <3>2. CASE 3 \notin S
      <4>1. \A x \in S : x = 4
        BY <2>3, <3>2
      <4>2. 4 \in S
        BY <4>1
      <4> QED BY <4>1, <4>2
    <3> QED BY <3>1, <3>2
  <2> QED BY <2>1, <2>2, <2>3
<1> QED BY <1>1 DEF Min

LEMMA MenuItemsOpen ==
  ASSUME NEW p \in Permissions,
         NEW i \in AllowedAmong(DirectoryMenu.items, p)
  PROVE  Opens(DirectoryMenu.items[i].to, p)
<1>1. i \in 1..3 /\ Allowed(DirectoryMenu.items[i], p)
  BY DEF AllowedAmong, DirectoryMenu
<1>2. \A resource : View(resource) # {}
  BY DEF View
<1>3. CASE i = 1
  BY <1>1, <1>2, <1>3, OtherOpen, Requirements DEF Allowed, DirectoryMenu, NavItem
<1>4. CASE i = 2
  BY <1>1, <1>2, <1>4, UsersOpen, Requirements DEF Allowed, DirectoryMenu, NavItem
<1>5. CASE i = 3
  BY <1>1, <1>2, <1>5, GroupsOpen, Requirements DEF Allowed, DirectoryMenu, NavItem
<1> QED BY <1>1, <1>3, <1>4, <1>5

LEMMA TargetsOpen ==
  ASSUME NEW p \in Permissions,
         NEW i \in filterNavigation(navSections, p)
  PROVE  /\ Opens(Target(navSections[i], p), p)
         /\ \A to \in ItemsOf(navSections[i], p) : Opens(to, p)
<1>1. /\ i \in 1..4
      /\ \/ Allowed(navSections[i], p)
         \/ AllowedAmong(navSections[i].items, p) # {}
  BY DEF filterNavigation, navSections
<1>2. \A resource : View(resource) # {}
  BY DEF View
<1>3. CASE i \in 1..3
  <2>1. /\ navSections[i].items = <<>> /\ navSections[i].needs # {}
        /\ AllowedAmong(navSections[i].items, p) = {}
    BY <1>2, <1>3 DEF navSections, NavItem, AllowedAmong
  <2>2. Target(navSections[i], p) = navSections[i].to /\ ItemsOf(navSections[i], p) = {}
    BY <1>1, <2>1 DEF Target, ItemsOf
  <2>3. canAll(p, navSections[i].needs)
    BY <1>1, <2>1 DEF Allowed
  <2> QED
    BY <1>3, <2>2, <2>3, CheckinsOpen, LocationsOpen, StationsOpen, Requirements
    DEF navSections, NavItem
<1>4. CASE i = 4
  <2>1. navSections[i] = DirectoryMenu
    BY <1>4 DEF navSections
  <2>2. ~Allowed(DirectoryMenu, p)
    BY DEF Allowed, DirectoryMenu
  <2>3. AllowedAmong(DirectoryMenu.items, p) \subseteq 1..3
    BY DEF AllowedAmong, DirectoryMenu
  <2>4. Min(AllowedAmong(DirectoryMenu.items, p)) \in AllowedAmong(DirectoryMenu.items, p)
    BY <1>1, <2>1, <2>2, <2>3, LeastIsThere
  <2> QED BY <2>1, <2>2, <2>4, MenuItemsOpen DEF Target, ItemsOf
<1> QED BY <1>1, <1>3, <1>4

(* The page an account is sent to when it may not enter another one is one *)
(* it may enter.                                                           *)
THEOREM HomeOpens == \A p \in Permissions : Opens(firstAccessiblePath(p), p)
<1> TAKE p \in Permissions
<1> DEFINE visible == filterNavigation(navSections, p)
<1>1. visible \subseteq 1..4
  BY DEF filterNavigation, navSections
<1>2. CASE visible = {}
  BY <1>2, OtherOpen DEF firstAccessiblePath
<1>3. CASE visible # {}
  <2>1. Min(visible) \in visible
    BY <1>1, <1>3, LeastIsThere
  <2>2. firstAccessiblePath(p) = Target(navSections[Min(visible)], p)
    BY <1>3 DEF firstAccessiblePath
  <2> QED BY <2>1, <2>2, TargetsOpen
<1> QED BY <1>2, <1>3

LEMMA SidebarOpens ==
  ASSUME NEW p \in Permissions,
         NEW to \in AppSidebar(p) \cup SidebarUserMenu(p)
  PROVE  Opens(to, p)
<1>1. CASE to \in AppSidebar(p)
  BY <1>1, HomeOpens, TargetsOpen DEF AppSidebar
<1>2. CASE to \in SidebarUserMenu(p)
  BY <1>2, OtherOpen, RolesOpen DEF SidebarUserMenu
<1> QED BY <1>1, <1>2

(* The crumbs of a page lead up to pages it takes no more to enter, the    *)
(* directory's overview aside, and a route sends elsewhere in the tree.    *)
Upwards(address) ==
  \A to \in AppBreadcrumbs(address) :
    /\ to \in Addresses
    /\ \A p \in Permissions : Opens(address, p) /\ to # "directory.index" => Opens(to, p)

Inwards(address) ==
  \A depth \in DOMAIN Matches[address] :
    Matches[address][depth].otherwise \in {"home"} \cup Addresses

LEMMA CheckinsWays ==
  ASSUME NEW address \in {"checkins.index", "checkins.new", "checkins.$id.index",
                          "checkins.$id.edit"}
  PROVE  Upwards(address) /\ Inwards(address)
<1>1. /\ CheckinsRoute.at = "checkins.index"
      /\ CheckinsIndexRoute.at = "checkins.index"
      /\ CheckinsNewRoute.at = "checkins.new"
      /\ CheckinsIdRoute.at = "checkins.$id.index"
      /\ CheckinsIdIndexRoute.at = "checkins.$id.index"
      /\ CheckinsIdEditRoute.at = "checkins.$id.edit"
  BY DEF Route, Section, Renders, Loads, CheckinsRoute, CheckinsIndexRoute,
       CheckinsNewRoute, CheckinsIdRoute, CheckinsIdIndexRoute, CheckinsIdEditRoute
<1>2. /\ CheckinsRoute.otherwise = "home"
      /\ CheckinsIndexRoute.otherwise = "home"
      /\ CheckinsNewRoute.otherwise = "home"
      /\ CheckinsIdRoute.otherwise = "home"
      /\ CheckinsIdIndexRoute.otherwise = "home"
      /\ CheckinsIdEditRoute.otherwise = "checkins.$id.index"
  BY DEF Route, Section, Renders, Loads, CheckinsRoute, CheckinsIndexRoute,
       CheckinsNewRoute, CheckinsIdRoute, CheckinsIdIndexRoute, CheckinsIdEditRoute
<1>3. AppBreadcrumbs(address) \subseteq {"checkins.index", "checkins.$id.index"}
  BY <1>1, CheckinsTable DEF AppBreadcrumbs
<1>4. Upwards(address)
  BY <1>3, CheckinsOpen, CheckinsTable, Requirements DEF Upwards
<1>5. Inwards(address)
  BY <1>2, CheckinsTable DEF Inwards
<1> QED BY <1>4, <1>5

LEMMA LocationsWays ==
  ASSUME NEW address \in {"locations.index", "locations.new", "locations.$id.index",
                          "locations.$id.edit"}
  PROVE  Upwards(address) /\ Inwards(address)
<1>1. /\ LocationsRoute.at = "locations.index"
      /\ LocationsIndexRoute.at = "locations.index"
      /\ LocationsNewRoute.at = "locations.new"
      /\ LocationsIdRoute.at = "locations.$id.index"
      /\ LocationsIdIndexRoute.at = "locations.$id.index"
      /\ LocationsIdEditRoute.at = "locations.$id.edit"
  BY DEF Route, Section, Renders, Loads, LocationsRoute, LocationsIndexRoute,
       LocationsNewRoute, LocationsIdRoute, LocationsIdIndexRoute, LocationsIdEditRoute
<1>2. /\ LocationsRoute.otherwise = "home"
      /\ LocationsIndexRoute.otherwise = "home"
      /\ LocationsNewRoute.otherwise = "home"
      /\ LocationsIdRoute.otherwise = "home"
      /\ LocationsIdIndexRoute.otherwise = "home"
      /\ LocationsIdEditRoute.otherwise = "locations.$id.index"
  BY DEF Route, Section, Renders, Loads, LocationsRoute, LocationsIndexRoute,
       LocationsNewRoute, LocationsIdRoute, LocationsIdIndexRoute, LocationsIdEditRoute
<1>3. AppBreadcrumbs(address) \subseteq {"locations.index", "locations.$id.index"}
  BY <1>1, LocationsTable DEF AppBreadcrumbs
<1>4. Upwards(address)
  BY <1>3, LocationsOpen, LocationsTable, Requirements DEF Upwards
<1>5. Inwards(address)
  BY <1>2, LocationsTable DEF Inwards
<1> QED BY <1>4, <1>5

LEMMA StationsWays ==
  ASSUME NEW address \in {"stations.index", "stations.new", "stations.$id.index",
                          "stations.$id.edit"}
  PROVE  Upwards(address) /\ Inwards(address)
<1>1. /\ StationsRoute.at = "stations.index"
      /\ StationsIndexRoute.at = "stations.index"
      /\ StationsNewRoute.at = "stations.new"
      /\ StationsIdRoute.at = "stations.$id.index"
      /\ StationsIdIndexRoute.at = "stations.$id.index"
      /\ StationsIdEditRoute.at = "stations.$id.edit"
  BY DEF Route, Section, Renders, Loads, StationsRoute, StationsIndexRoute,
       StationsNewRoute, StationsIdRoute, StationsIdIndexRoute, StationsIdEditRoute
<1>2. /\ StationsRoute.otherwise = "home"
      /\ StationsIndexRoute.otherwise = "home"
      /\ StationsNewRoute.otherwise = "home"
      /\ StationsIdRoute.otherwise = "home"
      /\ StationsIdIndexRoute.otherwise = "home"
      /\ StationsIdEditRoute.otherwise = "stations.$id.index"
  BY DEF Route, Section, Renders, Loads, StationsRoute, StationsIndexRoute,
       StationsNewRoute, StationsIdRoute, StationsIdIndexRoute, StationsIdEditRoute
<1>3. AppBreadcrumbs(address) \subseteq {"stations.index", "stations.$id.index"}
  BY <1>1, StationsTable DEF AppBreadcrumbs
<1>4. Upwards(address)
  BY <1>3, StationsOpen, StationsTable, Requirements DEF Upwards
<1>5. Inwards(address)
  BY <1>2, StationsTable DEF Inwards
<1> QED BY <1>4, <1>5

LEMMA UsersWays ==
  ASSUME NEW address \in {"directory.users.index", "directory.users.new",
                          "directory.users.$id.index", "directory.users.$id.edit"}
  PROVE  Upwards(address) /\ Inwards(address)
<1>1. /\ DirectoryRoute.at = "directory.index"
      /\ DirectoryUsersRoute.at = "directory.users.index"
      /\ DirectoryUsersIndexRoute.at = "directory.users.index"
      /\ DirectoryUsersNewRoute.at = "directory.users.new"
      /\ DirectoryUsersIdRoute.at = "directory.users.$id.index"
      /\ DirectoryUsersIdIndexRoute.at = "directory.users.$id.index"
      /\ DirectoryUsersIdEditRoute.at = "directory.users.$id.edit"
  BY DEF Route, Section, Renders, Loads, DirectoryRoute, DirectoryUsersRoute,
       DirectoryUsersIndexRoute, DirectoryUsersNewRoute, DirectoryUsersIdRoute,
       DirectoryUsersIdIndexRoute, DirectoryUsersIdEditRoute
<1>2. /\ DirectoryRoute.otherwise = "home"
      /\ DirectoryUsersRoute.otherwise = "home"
      /\ DirectoryUsersIndexRoute.otherwise = "home"
      /\ DirectoryUsersNewRoute.otherwise = "directory.users.index"
      /\ DirectoryUsersIdRoute.otherwise = "home"
      /\ DirectoryUsersIdIndexRoute.otherwise = "home"
      /\ DirectoryUsersIdEditRoute.otherwise = "directory.users.$id.index"
  BY DEF Route, Section, Renders, Loads, DirectoryRoute, DirectoryUsersRoute,
       DirectoryUsersIndexRoute, DirectoryUsersNewRoute, DirectoryUsersIdRoute,
       DirectoryUsersIdIndexRoute, DirectoryUsersIdEditRoute
<1>3. AppBreadcrumbs(address) \subseteq {"directory.users.index", "directory.users.$id.index",
                                         "directory.index"}
  BY <1>1, UsersTable DEF AppBreadcrumbs
<1>4. Upwards(address)
  BY <1>3, UsersOpen, UsersTable, OtherTable, Requirements DEF Upwards
<1>5. Inwards(address)
  BY <1>2, UsersTable DEF Inwards
<1> QED BY <1>4, <1>5

LEMMA GroupsWays ==
  ASSUME NEW address \in {"directory.groups.index", "directory.groups.$id.index",
                          "directory.groups.$id.edit"}
  PROVE  Upwards(address) /\ Inwards(address)
<1>1. /\ DirectoryRoute.at = "directory.index"
      /\ DirectoryGroupsRoute.at = "directory.groups.index"
      /\ DirectoryGroupsIndexRoute.at = "directory.groups.index"
      /\ DirectoryGroupsIdRoute.at = "directory.groups.$id.index"
      /\ DirectoryGroupsIdIndexRoute.at = "directory.groups.$id.index"
      /\ DirectoryGroupsIdEditRoute.at = "directory.groups.$id.edit"
  BY DEF Route, Section, Renders, Loads, DirectoryRoute, DirectoryGroupsRoute,
       DirectoryGroupsIndexRoute, DirectoryGroupsIdRoute, DirectoryGroupsIdIndexRoute,
       DirectoryGroupsIdEditRoute
<1>2. /\ DirectoryRoute.otherwise = "home"
      /\ DirectoryGroupsRoute.otherwise = "home"
      /\ DirectoryGroupsIndexRoute.otherwise = "home"
      /\ DirectoryGroupsIdRoute.otherwise = "home"
      /\ DirectoryGroupsIdIndexRoute.otherwise = "home"
      /\ DirectoryGroupsIdEditRoute.otherwise = "directory.groups.$id.index"
  BY DEF Route, Section, Renders, Loads, DirectoryRoute, DirectoryGroupsRoute,
       DirectoryGroupsIndexRoute, DirectoryGroupsIdRoute, DirectoryGroupsIdIndexRoute,
       DirectoryGroupsIdEditRoute
<1>3. AppBreadcrumbs(address) \subseteq {"directory.groups.index", "directory.groups.$id.index",
                                         "directory.index"}
  BY <1>1, GroupsTable DEF AppBreadcrumbs
<1>4. Upwards(address)
  BY <1>3, GroupsOpen, GroupsTable, OtherTable, Requirements DEF Upwards
<1>5. Inwards(address)
  BY <1>2, GroupsTable DEF Inwards
<1> QED BY <1>4, <1>5

LEMMA RolesWays ==
  ASSUME NEW address \in {"roles.index", "roles.new", "roles.$id.index", "roles.$id.edit"}
  PROVE  Upwards(address) /\ Inwards(address)
<1>1. /\ RolesRoute.at = "roles.index"
      /\ RolesIndexRoute.at = "roles.index"
      /\ RolesNewRoute.at = "roles.new"
      /\ RolesIdRoute.at = "roles.$id.index"
      /\ RolesIdIndexRoute.at = "roles.$id.index"
      /\ RolesIdEditRoute.at = "roles.$id.edit"
  BY DEF Route, Section, Renders, Loads, RolesRoute, RolesIndexRoute, RolesNewRoute,
       RolesIdRoute, RolesIdIndexRoute, RolesIdEditRoute
<1>2. /\ RolesRoute.otherwise = "checkins.index"
      /\ RolesIndexRoute.otherwise = "home"
      /\ RolesNewRoute.otherwise = "roles.index"
      /\ RolesIdRoute.otherwise = "home"
      /\ RolesIdIndexRoute.otherwise = "home"
      /\ RolesIdEditRoute.otherwise = "roles.$id.index"
  BY DEF Route, Section, Renders, Loads, RolesRoute, RolesIndexRoute, RolesNewRoute,
       RolesIdRoute, RolesIdIndexRoute, RolesIdEditRoute
<1>3. AppBreadcrumbs(address) \subseteq {"roles.index", "roles.$id.index"}
  BY <1>1, RolesTable DEF AppBreadcrumbs
<1>4. Upwards(address)
  BY <1>3, RolesOpen, RolesTable, Requirements DEF Upwards
<1>5. Inwards(address)
  BY <1>2, RolesTable, CheckinsTable DEF Inwards
<1> QED BY <1>4, <1>5

LEMMA OtherWays ==
  ASSUME NEW address \in {"account", "$", "directory.index"}
  PROVE  Upwards(address) /\ Inwards(address)
BY OtherTable
DEF Upwards, Inwards, AppBreadcrumbs, Route, Renders, AccountRoute, SplatRoute, DirectoryRoute,
    DirectoryIndexRoute

LEMMA Ways ==
  ASSUME NEW address \in Addresses
  PROVE  Upwards(address) /\ Inwards(address)
BY AddressesAre, CheckinsWays, LocationsWays, StationsWays, UsersWays, GroupsWays, RolesWays,
   OtherWays

(* Wherever a page leads there is something.                               *)
Known(address) == \A part \in Parts(address) : part.leads \subseteq Addresses \cup {"index"}

LEMMA CheckinsKnown ==
  ASSUME NEW address \in {"checkins.index", "checkins.new", "checkins.$id.index",
                          "checkins.$id.edit"}
  PROVE  Known(address)
BY CheckinsParts, CheckinsTable
DEF Known, Part, Asks, Leads, LeadsIf, CheckinListPage, UserFilterChip, CheckinCreatePage,
    CheckinForm, CheckinLocationCombobox, CheckinPersonCombobox, CheckinDetailPage,
    CheckinEditPage

LEMMA LocationsKnown ==
  ASSUME NEW address \in {"locations.index", "locations.new", "locations.$id.index",
                          "locations.$id.edit"}
  PROVE  Known(address)
BY LocationsParts, LocationsTable
DEF Known, Part, Asks, AsksIf, Leads, LeadsIf, LocationListPage, LocationCreatePage,
    LocationForm, LocationImagePicker, GroupPicker, LocationDetailPage, LocationEditPage

LEMMA StationsKnown ==
  ASSUME NEW address \in {"stations.index", "stations.new", "stations.$id.index",
                          "stations.$id.edit"}
  PROVE  Known(address)
BY StationsParts, StationsTable
DEF Known, Part, Asks, AsksIf, Leads, LeadsIf, StationListPage, StationCreatePage,
    StationForm, LocationCombobox, StationDetailPage, StationEditPage

LEMMA UsersKnown ==
  ASSUME NEW address \in {"directory.users.index", "directory.users.new",
                          "directory.users.$id.index", "directory.users.$id.edit"}
  PROVE  Known(address)
BY UsersParts, UsersTable, CheckinsTable, OtherTable
DEF Known, Part, Asks, AsksIf, Leads, LeadsIf, UserListPage, GroupFilterChip,
    UserDeleteDialog, UserRowActions, UserCreatePage, UserCreateForm, RolePicker,
    UserDetailPage, UserEditPage, UserEdit, UserForm, AccountPage, AccountForm,
    APIKeySection

LEMMA GroupsKnown ==
  ASSUME NEW address \in {"directory.groups.index", "directory.groups.$id.index",
                          "directory.groups.$id.edit"}
  PROVE  Known(address)
BY GroupsParts, GroupsTable, UsersTable
DEF Known, Part, Asks, Leads, LeadsIf, GroupListPage, GroupDetailPage, GroupEditPage,
    GroupRoleForm, RolePicker

LEMMA RolesKnown ==
  ASSUME NEW address \in {"roles.index", "roles.new", "roles.$id.index", "roles.$id.edit"}
  PROVE  Known(address)
BY RolesParts, RolesTable
DEF Known, Part, Asks, AsksIf, Leads, LeadsIf, RoleListPage, RoleCreatePage, RoleForm,
    RoleDetailPage, RoleEditPage

LEMMA OtherKnown ==
  ASSUME NEW address \in {"account", "$", "directory.index"}
  PROVE  Known(address)
BY OtherParts, UsersTable, GroupsTable
DEF Known, Part, Asks, AsksIf, Leads, LeadsIf, AccountPage, AccountForm, APIKeySection,
    NotFoundPage, DirectoryOverviewPage, UsersOverviewCard, GroupsOverviewCard,
    DirectorySyncAction

LEMMA OfferedKnown ==
  ASSUME NEW address \in Addresses, NEW permissions
  PROVE  Offered(address, permissions) \subseteq Addresses \cup {"index"}
<1>1. Known(address)
  BY AddressesAre, CheckinsKnown, LocationsKnown, StationsKnown, UsersKnown, GroupsKnown,
     RolesKnown, OtherKnown
<1> QED BY <1>1 DEF Known, Offered

-----------------------------------------------------------------------------
(* The inductive invariant.  As long as everything the way to a place read *)
(* was the same permissions, the guards passed so far hold of them, and a  *)
(* link has led where it said, to an address they open.                    *)

Passed ==
  place.address \in Addresses =>
    \A p \in Permissions : place.read \subseteq {p} =>
      \A depth \in DOMAIN Matches[place.address] :
        depth <= place.passed => canAll(p, Matches[place.address][depth].needs)

Promised ==
  place.link # "typed" =>
    /\ place.read # {}
    /\ \A p \in Permissions : place.read = {p} =>
         place.address = place.link /\ Opens(place.address, p)

AccessInv == AccessTypeOK /\ Passed /\ Promised

Places == [address : Addresses \cup Entries, passed : 0..4, link : Links,
           read : SUBSET Permissions]

(* A place just entered, by a link or by hand.                             *)
LEMMA EnteredKeeps ==
  ASSUME NEW address \in Addresses \cup Entries, NEW link \in Links,
         NEW read \in SUBSET Permissions,
         place' = Enter(address, link, read),
         link # "typed" =>
           /\ read # {}
           /\ \A p \in Permissions : read = {p} => address = link /\ Opens(address, p)
  PROVE  place' \in Places /\ Passed' /\ Promised'
<1>1. /\ place'.address = address /\ place'.passed = 0
      /\ place'.link = link /\ place'.read = read
  BY DEF Enter
<1>2. place' \in Places
  BY DEF Enter, Places
<1>3. Passed'
  BY <1>1, BranchShape DEF Passed
<1>4. Promised'
  BY <1>1 DEF Promised
<1> QED BY <1>2, <1>3, <1>4

(* What is shown has passed all its guards.                                *)
LEMMA ShownOpens ==
  ASSUME AccessInv, Shown, NEW p \in Permissions, place.read \subseteq {p}
  PROVE  Opens(place.address, p)
<1>1. place.address \in Addresses
  BY DEF Shown, AccessInv, AccessTypeOK
<1>2. ASSUME NEW depth \in DOMAIN Matches[place.address]
      PROVE  canAll(p, Matches[place.address][depth].needs)
  <2>1. depth \in 1..4 /\ place.passed \in 0..4
    BY <1>1, BranchShape DEF AccessInv, AccessTypeOK
  <2>2. CASE depth <= place.passed
    BY <1>1, <2>2 DEF AccessInv, Passed
  <2>3. CASE depth > place.passed
    <3>1. Matches[place.address][depth].needs = {}
      BY <2>3 DEF Shown, NextGuards
    <3> QED BY <3>1, Requirements
  <2> QED BY <2>1, <2>2, <2>3
<1> QED BY <1>1, <1>2 DEF Opens

LEMMA OtherwiseKnown ==
  ASSUME NEW address \in Addresses, NEW depth \in DOMAIN Matches[address],
         NEW p \in Permissions
  PROVE  Otherwise(Matches[address][depth], p) \in Addresses
<1>1. firstAccessiblePath(p) \in Addresses
  BY HomeOpens DEF Opens
<1>2. Matches[address][depth].otherwise \in {"home"} \cup Addresses
  BY Ways DEF Inwards
<1> QED BY <1>1, <1>2 DEF Otherwise

(* A guard lets pass or sends elsewhere; it never sends away who followed  *)
(* a link with the permissions the link was offered to.                    *)
LEMMA GuardKeeps ==
  ASSUME AccessInv, Guard
  PROVE  place' \in Places /\ Passed' /\ Promised'
<1> DEFINE read == place.read \cup {account'}
<1>1. /\ account' \in Permissions /\ read \in SUBSET Permissions
      /\ place \in Places /\ place.link \in Links
  BY DEF AccessInv, AccessTypeOK, Guard, Places
<1>2. \A p : read = {p} => account' = p /\ place.read \subseteq {p}
  OBVIOUS
<1>3. place.link # "typed" =>
        \A p \in Permissions : read = {p} =>
          place.address = place.link /\ Opens(place.address, p)
  BY <1>2 DEF AccessInv, Promised
<1>4. CASE place.address \in Entries
  <2>1. place' = Enter(firstAccessiblePath(account'), place.link, read)
    BY <1>4 DEF Guard
  <2>2. firstAccessiblePath(account') \in Addresses
    BY <1>1, HomeOpens DEF Opens
  <2>3. place.link # "typed" => \A p \in Permissions : read # {p}
    BY <1>3, <1>4, EntriesAreNot DEF Opens
  <2> HIDE DEF read
  <2>4. account' \in read
    BY DEF read
  <2> QED BY <1>1, <2>1, <2>2, <2>3, <2>4, EnteredKeeps
<1>5. CASE place.address \notin Entries
  <2>1. PICK depth \in NextGuards :
          /\ \A other \in NextGuards : depth <= other
          /\ requirePermissions(depth, account', read)
    BY <1>5 DEF Guard
  <2>2. place.address \in Addresses /\ depth \in DOMAIN Matches[place.address]
    BY <1>1, <1>5 DEF Places, NextGuards
  <2>3. DOMAIN Matches[place.address] \subseteq 1..4
    BY <2>2, BranchShape
  <2> DEFINE route == Matches[place.address][depth]
  <2>4. CASE canAll(account', route.needs)
    <3>1. place' = [place EXCEPT !.passed = depth, !.read = read]
      BY <2>1, <2>4 DEF requirePermissions
    <3>2. /\ place' \in Places /\ place'.address = place.address
          /\ place'.link = place.link /\ place'.passed = depth /\ place'.read = read
      <4> HIDE DEF read
      <4>1. depth \in 0..4
        BY <2>2, <2>3
      <4>2. place' = [address |-> place.address, passed |-> depth, link |-> place.link,
                      read |-> read]
        BY <1>1, <3>1 DEF Places
      <4>3. place' \in Places
        BY <1>1, <4>1, <4>2 DEF Places
      <4> QED BY <4>2, <4>3
    <3>3. ASSUME NEW p \in Permissions, read \subseteq {p},
                 NEW other \in DOMAIN Matches[place.address], other <= depth
          PROVE  canAll(p, Matches[place.address][other].needs)
      <4>1. account' = p /\ place.read \subseteq {p}
        BY <3>3
      <4>2. other \in 1..4 /\ depth \in 1..4 /\ place.passed \in 0..4
        BY <1>1, <2>2, <2>3 DEF Places
      <4>3. CASE other <= place.passed
        BY <2>2, <4>1, <4>3 DEF AccessInv, Passed
      <4>4. CASE other = depth
        BY <2>4, <4>1, <4>4
      <4>5. CASE other > place.passed /\ other # depth
        <5>1. other \notin NextGuards
          BY <2>1, <3>3, <4>2, <4>5
        <5>2. Matches[place.address][other].needs = {}
          BY <4>5, <5>1 DEF NextGuards
        <5> QED BY <5>2, Requirements
      <4> QED BY <4>2, <4>3, <4>4, <4>5
    <3>4. Passed'
      BY <3>2, <3>3 DEF Passed
    <3>5. Promised'
      BY <1>3, <3>2 DEF Promised
    <3> QED BY <3>2, <3>4, <3>5
  <2>5. CASE ~canAll(account', route.needs)
    <3>1. place' = Enter(Otherwise(route, account'), place.link, read)
      BY <2>1, <2>5 DEF requirePermissions
    <3>2. Otherwise(route, account') \in Addresses
      BY <1>1, <2>2, OtherwiseKnown
    <3>3. place.link # "typed" => \A p \in Permissions : read # {p}
      BY <1>2, <1>3, <2>2, <2>5 DEF Opens
    <3> HIDE DEF read, route
    <3>4. account' \in read
      BY DEF read
    <3> QED BY <1>1, <3>1, <3>2, <3>3, <3>4, EnteredKeeps
  <2> QED BY <2>4, <2>5
<1> QED BY <1>4, <1>5

LEMMA FollowKeeps ==
  ASSUME AccessInv, Follow
  PROVE  place' \in Places /\ Passed' /\ Promised'
<1> DEFINE read == place.read \cup {account}
<1>1. PICK to \in Offered(place.address, account) :
        place' = Enter(to, IF to \in Unchecked(place.address) THEN "typed" ELSE to, read)
  BY DEF Follow
<1>2. Shown /\ place.address \in Addresses
  BY DEF Follow, Shown, AccessInv, AccessTypeOK
<1>3. /\ to \in Addresses \cup {"index"} /\ account \in Permissions
      /\ read \in SUBSET Permissions
  BY <1>2, OfferedKnown DEF AccessInv, AccessTypeOK
<1>4. CASE to \in Unchecked(place.address)
  BY <1>1, <1>3, <1>4, EnteredKeeps DEF Entries, Links
<1>5. CASE to \notin Unchecked(place.address)
  <2>1. ASSUME NEW p \in Permissions, read = {p}
        PROVE  Opens(to, p)
    <3>1. account = p /\ place.read \subseteq {p}
      BY <2>1
    <3>2. Opens(place.address, p)
      BY <1>2, <3>1, ShownOpens
    <3> QED BY <1>5, <3>1, <3>2, OpenPages DEF Leading
  <2>2. to \in Addresses /\ to # "index"
    BY <1>3, <1>5 DEF Unchecked
  <2>3. account \in read
    OBVIOUS
  <2>4. place' = Enter(to, to, read)
    BY <1>1, <1>5
  <2> HIDE DEF read
  <2> QED BY <1>3, <2>1, <2>2, <2>3, <2>4, EnteredKeeps DEF Links
<1> QED BY <1>4, <1>5

LEMMA NavigateKeeps ==
  ASSUME AccessInv, Navigate
  PROVE  place' \in Places /\ Passed' /\ Promised'
<1>1. PICK to \in AppSidebar(account) \cup SidebarUserMenu(account) :
        place' = Enter(to, to, {account})
  BY DEF Navigate
<1>2. account \in Permissions
  BY DEF AccessInv, AccessTypeOK
<1>3. Opens(to, account) /\ to \in Addresses
  BY <1>2, SidebarOpens DEF Opens
<1> QED BY <1>1, <1>2, <1>3, EnteredKeeps DEF Links

LEMMA StepUpKeeps ==
  ASSUME AccessInv, StepUp
  PROVE  place' \in Places /\ Passed' /\ Promised'
<1> DEFINE read == place.read \cup {account}
<1>1. PICK to \in AppBreadcrumbs(place.address) :
        place' = Enter(to, IF to = "directory.index" THEN "typed" ELSE to, read)
  BY DEF StepUp
<1>2. Shown /\ place.address \in Addresses
  BY DEF StepUp, Shown, AccessInv, AccessTypeOK
<1>3. /\ to \in Addresses /\ account \in Permissions /\ read \in SUBSET Permissions
  BY <1>2, Ways DEF Upwards, AccessInv, AccessTypeOK
<1>4. CASE to = "directory.index"
  BY <1>1, <1>3, <1>4, EnteredKeeps DEF Links
<1>5. CASE to # "directory.index"
  <2>1. ASSUME NEW p \in Permissions, read = {p}
        PROVE  Opens(to, p)
    <3>1. place.read \subseteq {p}
      BY <2>1
    <3>2. Opens(place.address, p)
      BY <1>2, <3>1, ShownOpens
    <3> QED BY <1>2, <1>5, <3>2, Ways DEF Upwards
  <2>2. account \in read
    OBVIOUS
  <2>3. place' = Enter(to, to, read)
    BY <1>1, <1>5
  <2> HIDE DEF read
  <2> QED BY <1>3, <2>1, <2>2, <2>3, EnteredKeeps DEF Links
<1> QED BY <1>4, <1>5

LEMMA ReduceKeeps ==
  ASSUME AccessInv, Reduce
  PROVE  granted' \in Permissions /\ reductions' \in 0..MaxReductions
<1>1. PICK resource \in Resources, level \in {"none", "view"} :
        granted' = [granted EXCEPT ![resource] = level]
  BY DEF Reduce
<1>2. granted' \in Permissions
  BY <1>1 DEF AccessInv, AccessTypeOK, Permissions, Levels
<1> QED BY <1>2, MaxReductionsAssumption DEF Reduce, AccessInv, AccessTypeOK

(* An account that starts anywhere without having read anything.           *)
LEMMA StartKeeps ==
  ASSUME granted \in Permissions, account = granted, reductions = 0,
         NEW address \in Addresses \cup Entries, place = Enter(address, "typed", {})
  PROVE  AccessInv
<1>1. AccessTypeOK
  BY MaxReductionsAssumption DEF AccessTypeOK, Enter, Links
<1>2. Passed
  BY BranchShape DEF Passed, Enter
<1> QED BY <1>1, <1>2 DEF AccessInv, Promised, Enter

LEMMA AccessStart == AccessInit(Profiles) => AccessInv
BY ProfilesAssumption, StartKeeps DEF AccessInit, Entries

LEMMA AccessSteps == AccessInv /\ [AccessNext]_accessVars => AccessInv'
<1> SUFFICES ASSUME AccessInv, [AccessNext]_accessVars PROVE AccessInv'
  OBVIOUS
<1> USE DEF AccessInv, AccessTypeOK, Places
<1>1. CASE Guard
  <2>1. account' \in Permissions
    BY <1>1 DEF Guard
  <2> QED BY <1>1, <2>1, GuardKeeps DEF Guard
<1>2. CASE Refetch
  BY <1>2 DEF Refetch, Passed, Promised
<1>3. CASE Follow
  BY <1>3, FollowKeeps DEF Follow
<1>4. CASE Navigate
  BY <1>4, NavigateKeeps DEF Navigate
<1>5. CASE StepUp
  BY <1>5, StepUpKeeps DEF StepUp
<1>6. CASE Open
  <2>1. PICK to \in Addresses \cup Entries : place' = Enter(to, "typed", {})
    BY <1>6 DEF Open
  <2> QED BY <1>6, <2>1, EnteredKeeps DEF Open, Links
<1>7. CASE Reduce
  BY <1>7, ReduceKeeps DEF Reduce, Passed, Promised
<1>8. CASE UNCHANGED accessVars
  BY <1>8 DEF accessVars, Passed, Promised
<1> QED BY <1>1, <1>2, <1>3, <1>4, <1>5, <1>6, <1>7, <1>8 DEF AccessNext

LEMMA AccessAlways == AccessSpec => []AccessInv
<1> QED BY AccessStart, AccessSteps, PTL DEF AccessSpec

(* The account, the place and the permissions are always of their kind:    *)
(* nothing leads or redirects to an address that does not exist.           *)
THEOREM AccessTyped == AccessSpec => []AccessTypeOK
<1>1. AccessInv => AccessTypeOK
  BY DEF AccessInv
<1> QED BY <1>1, AccessAlways, PTL

(* A page never asks the server for what it then refuses, unless the       *)
(* account's permissions changed since its guards read them.               *)
THEOREM RefusalsAlwaysStale == AccessSpec => []RefusalsAreStale
<1>1. AccessInv => RefusalsAreStale
  <2> SUFFICES ASSUME AccessInv, Current PROVE RefusalsAreStale
    BY DEF RefusalsAreStale
  <2>1. granted \in Permissions /\ account = granted
    BY DEF AccessInv, AccessTypeOK, Current
  <2>2. Granting(place.address, granted)
    BY <2>1, ShownOpens, OpenPages DEF Current
  <2> QED BY <2>1, <2>2 DEF Granting, RefusalsAreStale
<1> QED BY <1>1, AccessAlways, PTL

(* Nobody who follows a link is sent elsewhere, unless the account's       *)
(* permissions changed meanwhile.                                          *)
THEOREM LinksAlwaysLand == AccessSpec => []LinksLand
<1>1. AccessInv => LinksLand
  <2> SUFFICES ASSUME AccessInv, Current, place.link # "typed"
               PROVE  place.link = place.address
    BY DEF LinksLand
  <2>1. granted \in Permissions /\ place.read = {granted}
    BY DEF AccessInv, AccessTypeOK, Promised, Current
  <2> QED BY <2>1 DEF AccessInv, Promised
<1> QED BY <1>1, AccessAlways, PTL
=============================================================================
