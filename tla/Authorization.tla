----------------------------- MODULE Authorization -----------------------------
(***************************************************************************)
(* Which requests the API admits: the static routes and permissions, the   *)
(* static permissions plugin, the CASL plugin and the two middlewares that *)
(* every request passes (verifyToken, withAuth).  A request is a path with *)
(* its identifiers replaced by ":id", and a method; an operation is an     *)
(* action on a subject.                                                    *)
(***************************************************************************)
EXTENDS Naturals

Operation(action, subject) == <<action, subject>>
Request(route, method) == <<route, method>>

Reads(route, subject) == <<Request(route, "GET"), Operation("READ", subject)>>
Creates(route, subject) == <<Request(route, "POST"), Operation("CREATE", subject)>>
Updates(route, subject) == <<Request(route, "PUT"), Operation("UPDATE", subject)>>

\* The map has /datasets/share, and the route is /datasets/:id/share: it is not secured,
\* so everybody is refused.
accountAndEnvironmentRoutes ==
    {Creates("/aws-accounts", "Account"),
     Reads("/datasets", "Dataset"), Creates("/datasets", "Dataset"),
     Reads("/datasets/:id", "Dataset"), Creates("/datasets/import", "Dataset"),
     Creates("/datasets/share", "Dataset"),
     Reads("/environments", "Environment"), Creates("/environments", "Environment"),
     Reads("/environments/:id", "Environment"),
     Reads("/environments/:id/connections", "EnvironmentConnection"),
     Updates("/environments/:id/start", "Environment"),
     Updates("/environments/:id/stop", "Environment"),
     Updates("/environments/:id/terminate", "Environment")}

typeAndUserRoutes ==
    {Reads("/environmentTypes", "EnvironmentType"),
     Creates("/environmentTypes", "EnvironmentType"),
     Reads("/environmentTypes/:id", "EnvironmentType"),
     Updates("/environmentTypes/:id", "EnvironmentType"),
     Reads("/environmentTypes/:id/configurations", "EnvironmentTypeConfig"),
     Creates("/environmentTypes/:id/configurations", "EnvironmentTypeConfig"),
     Reads("/environmentTypes/:id/configurations/:id", "EnvironmentTypeConfig"),
     Updates("/environmentTypes/:id/configurations/:id", "EnvironmentTypeConfig"),
     Reads("/projects", "Project"),
     Creates("/roles", "Role"), Updates("/roles/Researcher", "Role"),
     Reads("/users", "User"), Creates("/users", "User")}

routesMap == accountAndEnvironmentRoutes \cup typeAndUserRoutes

routesIgnored ==
    {Request("/login", "GET"), Request("/token", "POST"), Request("/logout", "GET"),
     Request("/refresh", "GET"), Request("/loggedIn", "GET")}

adminPermissions ==
    {Operation("CREATE", "Account"), Operation("READ", "EnvironmentConnection"),
     Operation("READ", "Project"), Operation("READ", "Role"), Operation("UPDATE", "Role"),
     Operation("CREATE", "User"), Operation("READ", "User")}
    \cup {"CREATE", "READ", "UPDATE"} \X
         {"Environment", "Dataset", "EnvironmentType", "EnvironmentTypeConfig"}

researcherPermissions ==
    {"CREATE", "READ", "UPDATE"} \X {"Environment", "Dataset"}
    \cup {"READ"} \X {"EnvironmentConnection", "EnvironmentType", "EnvironmentTypeConfig", "Project"}

\* a role that the map does not have grants nothing
GetPermissions(role) ==
    CASE role = "Admin" -> adminPermissions
      [] role = "Researcher" -> researcherPermissions
      [] OTHER -> {}

GetPermissionsByUser(roles) == UNION {GetPermissions(role) : role \in roles}

IsRouteIgnored(request) == request \in routesIgnored

GetOperationsByRoute(request) == {row[2] : row \in {r \in routesMap : r[1] = request}}

\* CASLAuthorizationPlugin.isAuthorized; no permission is a DENY
IsAuthorized(permissions, operations) == operations \subseteq permissions

\* Mutant of IsAuthorizedOnRoute: a route that is not secured asks for nothing.
IsAuthorizedOnOpenRoute(roles, request) ==
    IsAuthorized(GetPermissionsByUser(roles), GetOperationsByRoute(request))

\* A route, or a method of it, that the map does not have throws RouteNotSecuredError.
IsAuthorizedOnRoute(roles, request) ==
    /\ GetOperationsByRoute(request) # {}
    /\ IsAuthorized(GetPermissionsByUser(roles), GetOperationsByRoute(request))

\* verifyToken, then withAuth.  A token without groups is refused as invalid.
Answer(request, valid, roles) ==
    CASE IsRouteIgnored(request) -> "admitted"
      [] ~IsRouteIgnored(request) /\ (~valid \/ roles = {}) -> "401"
      [] ~IsRouteIgnored(request) /\ valid /\ roles # {} ->
            IF IsAuthorizedOnRoute(roles, request) THEN "admitted" ELSE "403"

Admitted(request, valid, roles) == Answer(request, valid, roles) = "admitted"
================================================================================
