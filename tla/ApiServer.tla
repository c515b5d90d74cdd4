------------------------------ MODULE ApiServer ------------------------------
(***************************************************************************)
(* The two HTTP servers over the control plane: createApiHandler of the    *)
(* core package (api.ts, in-memory store) and the NestJS API (controllers, *)
(* RbacGuard, RaibitserverService, Prisma).  A route is the action it      *)
(* requires and the order of its steps: authorization, lookups, scope      *)
(* checks, reading the body, the effect.                                   *)
(*                                                                         *)
(* In the node server only reading the body lets other requests in; in the *)
(* NestJS server the body is there first and every repository call does.   *)
(* Quota and security policy are a choice here (see Tenancy); the content  *)
(* of rows and answers is left out.                                        *)
(***************************************************************************)
EXTENDS Naturals, Sequences, FiniteSets

CONSTANTS
    Orgs, Projects, Services, Resources, Deployments,   \* ids
    Subjects,      \* what a token or the headers make of a caller
    Requests,      \* requests, each served once
    Load,          \* the operations and the callers each request may be of
    Home, Work, Main,    \* the organization, project and service that exist at first ...
    Attached,            \* ... with resources of the project and deployments of the service
    None

Targets == Orgs \cup Projects \cup Services \cup Resources \cup Deployments

ASSUME SetsAssumption ==
    /\ Home \in Orgs /\ Work \in Projects /\ Main \in Services /\ None \notin Targets
    /\ Attached \subseteq Resources \cup Deployments
\* An id is of one table: a prefix of the table's name, or a cuid.
ASSUME TablesAssumption ==
    /\ Orgs \cap (Projects \cup Services \cup Resources \cup Deployments) = {}
    /\ Projects \cap (Services \cup Resources \cup Deployments) = {}
    /\ Services \cap (Resources \cup Deployments) = {} /\ Resources \cap Deployments = {}
ASSUME SubjectsAssumption ==
    Subjects \subseteq [role : STRING, orgs : SUBSET Orgs, projects : SUBSET Projects,
                       global : BOOLEAN, admin : BOOLEAN, system : BOOLEAN]
ASSUME LoadAssumption == \A r \in Requests : Load[r].subjects \subseteq Subjects

VARIABLES
    server,      \* "node" or "nest"
    orgOf,       \* the organization of each project
    projectOf,   \* the project of each service and resource
    serviceOf,   \* the service of each deployment
    req,         \* requests in progress
    used,        \* ids that were given to a row
    late         \* deployments created by a route that looked the service up before the body

vars == <<server, orgOf, projectOf, serviceOf, req, used, late>>

NoRequest == [pc |-> "new", op |-> "none", subject |-> None, target |-> None, path |-> None,
              move |-> None, secret |-> FALSE, i |-> 0, project |-> None,
              scoped |-> None, org |-> None, there |-> FALSE]

Outcomes == {"done", "refused", "missing", "failed"}

Init ==
    /\ server \in {"node", "nest"}
    /\ orgOf = [p \in Projects |-> IF p = Work THEN Home ELSE None]
    /\ projectOf = [y \in Services \cup Resources |-> IF y \in {Main} \cup Attached THEN Work ELSE None]
    /\ serviceOf = [d \in Deployments |-> IF d \in Attached THEN Main ELSE None]
    /\ req = [r \in Requests |-> NoRequest]
    /\ used = {Work, Main} \cup Attached /\ late = {}

--------------------------------------------------------------------------------
(***************************************************************************)
(* Roles                                                                   *)
(***************************************************************************)
ProjectActions == {"project:read", "project:create", "project:update", "project:delete"}

ROLE_PERMISSIONS ==
    [admin |-> ProjectActions \cup
        {"service:create", "service:update", "deploy:run", "env:write", "env:read", "db:create",
         "db:delete", "db:schema:read", "team:invite", "audit:read", "logs:read", "metrics:read"},
     developer |-> {"project:read", "deploy:run", "logs:read", "metrics:read", "env:write-limited",
                    "db:schema:read"},
     viewer |-> {"project:read", "logs:read", "metrics:read"},
     billing |-> {"project:read", "billing:read", "billing:write", "usage:read"},
     dbadmin |-> {"project:read", "db:create", "db:delete", "db:connect", "db:schema:read",
                  "db:data:read", "db:query", "db:query:write", "backup:restore"},
     projectowner |-> ProjectActions,
     maintainer |-> {"project:read", "project:update", "service:create", "service:update",
                     "deploy:run", "env:write", "env:read", "db:connect", "db:schema:read",
                     "db:data:read", "logs:read", "metrics:read"}]

\* A stronger permission implies a weaker one.
Implied(action) ==
    CASE action = "env:write-limited" -> {"env:write"}
      [] action = "db:schema:read"    -> {"db:connect", "db:data:read"}
      [] action = "db:data:read"      -> {"db:connect"}
      [] action = "db:query:write"    -> {"db:query"}
      [] OTHER                        -> {}

can(role, action) ==
    \/ role = "owner"
    \/ /\ role \in DOMAIN ROLE_PERMISSIONS
       /\ ROLE_PERMISSIONS[role] \cap ({action} \cup Implied(action)) # {}

--------------------------------------------------------------------------------
(***************************************************************************)
(* Routes of the node server.  "any" stands for no required action.        *)
(***************************************************************************)
\* The table of all operations, from the tables of each group of them.
Joined(tables) ==
    [op \in UNION {DOMAIN t : t \in tables} |-> (CHOOSE t \in tables : op \in DOMAIN t)[op]]

R(action, kind, effect, steps) ==
    [action |-> action, kind |-> kind, effect |-> effect, steps |-> steps]

NodeAuthRoutes ==
    [me        |-> R("any", "none", "read", <<"effect">>),
     logout    |-> R("any", "none", "read", <<"effect">>),
     snapshot  |-> R("audit:read", "none", "read", <<"auth", "effect">>),
     configStatus |-> R("audit:read", "none", "read", <<"auth", "effect">>)]

\* Building, source, registry, Kubernetes, provisioning, compose and manifest plans.
NodePlanRoutes == [plan |-> R("project:read", "none", "read", <<"auth", "body", "effect">>)]

NodeOrganizationRoutes ==
    [createProjectInOrg |-> R("project:update", "org", "create",
                              <<"auth", "scopeOrg", "policy", "body", "effect">>),
     createProject |-> R("project:create", "org", "create",
                         <<"body", "auth", "scopeOrg", "policy", "effect">>)]

NodeProjectRoutes ==
    [getProject    |-> R("project:read", "project", "read", <<"auth", "scope", "effect">>),
     updateProject |-> R("project:create", "project", "update", <<"auth", "scope", "body", "effect">>),
     deleteProject |-> R("project:delete", "project", "delete", <<"auth", "scope", "effect">>),
     listServices  |-> R("project:read", "project", "read", <<"auth", "scope", "effect">>)]

\* Variant: the project is checked before the body is read.
nodeServiceRoutesCheckedFirst ==
    [createService |-> R("service:create", "newService", "create",
                         <<"auth", "scope", "policy", "body", "effect">>),
     getService    |-> R("project:read", "service", "read", <<"auth", "find", "scope", "effect">>),
     updateService |-> R("service:update", "service", "update",
                         <<"auth", "find", "scope", "body", "effect">>),
     deleteService |-> R("project:delete", "service", "delete", <<"auth", "find", "scope", "effect">>)]

NodeServiceRoutes ==
    [createService |-> R("service:create", "newService", "create",
                         <<"body", "auth", "scope", "policy", "effect">>),
     getService    |-> R("project:read", "service", "read", <<"auth", "find", "scope", "effect">>),
     updateService |-> R("service:update", "service", "update",
                         <<"auth", "find", "scope", "body", "effect">>),
     deleteService |-> R("project:delete", "service", "delete", <<"auth", "find", "scope", "effect">>)]

NodeResourceRoutes ==
    [listResources  |-> R("project:read", "project", "read", <<"auth", "scope", "effect">>),
     createResource |-> R("db:create", "newResource", "create",
                          <<"body", "auth", "scope", "policy", "effect">>),
     getResource    |-> R("project:read", "resource", "read", <<"auth", "find", "scope", "effect">>),
     updateResource |-> R("db:create", "resource", "update",
                          <<"auth", "find", "scope", "body", "effect">>),
     deleteResource |-> R("db:delete", "resource", "delete", <<"auth", "find", "scope", "effect">>),
     provisionResource |-> R("db:create", "resource", "check",
                             <<"auth", "find", "scope", "body", "effect">>),
     attachResource |-> R("db:create", "resource", "check",
                          <<"auth", "find", "scope", "body", "effect">>)]

\* By the service alone, and by project and service.
NodeDeployRoutes ==
    [createDeploymentForService |-> R("deploy:run", "newDeployment", "create",
                              <<"find", "body", "auth", "scope", "policy", "effect">>),
     createDeployment |-> R("deploy:run", "newDeployment", "create",
                            <<"body", "auth", "inProject", "scope", "policy", "effect">>)]

NodeDeploymentRoutes ==
    [getDeployment |-> R("project:read", "deployment", "read", <<"auth", "find", "scope", "effect">>),
     updateDeploymentStatus |-> R("deploy:run", "deployment", "check",
                              <<"auth", "find", "scope", "system", "body", "effect">>),
     cancelDeployment |-> R("deploy:run", "deployment", "check",
                            <<"auth", "find", "scope", "body", "effect">>)]

NodeLogRoutes ==
    [deploymentLogs   |-> R("logs:read", "deployment", "read", <<"auth", "effect">>),
     deploymentStream |-> R("logs:read", "deployment", "read", <<"auth", "find", "scope", "effect">>),
     runtimeLogs      |-> R("logs:read", "service", "read", <<"auth", "effect">>),
     runtimeStream    |-> R("logs:read", "service", "read", <<"auth", "find", "scope", "effect">>)]

NodeConsoleRoutes ==
    [consoleTable   |-> R("db:data:read", "resource", "read", <<"auth", "find", "scope", "effect">>),
     consoleView    |-> R("db:schema:read", "resource", "read", <<"auth", "find", "scope", "effect">>),
     consoleQuery   |-> R("db:data:read", "resource", "read",
                          <<"auth", "body", "find", "scope", "effect">>),
     consoleCommand |-> R("db:query:write", "resource", "read",
                          <<"auth", "body", "find", "scope", "effect">>)]

NodeAdminRoutes ==
    [approveUser |-> R("audit:read", "account", "account", <<"auth", "admin", "body", "effect">>),
     setQuota    |-> R("audit:read", "account", "account", <<"auth", "admin", "body", "effect">>),
     usageMe     |-> R("metrics:read", "none", "read", <<"auth", "effect">>)]

NodeEnvironmentRoutes ==
    [listEnvironment |-> R("env:read", "service", "read", <<"auth", "inProject", "scope", "effect">>),
     upsertEnvironment |-> R("env:write-limited", "service", "check",
                         <<"auth", "inProject", "scope", "body", "secretEntries", "effect">>)]

NodeGitHubRoutes ==
    [connectGitHub |-> R("team:invite", "org", "account", <<"auth", "body", "scopeOrg", "effect">>),
     listGitHub    |-> R("project:read", "org", "read", <<"auth", "scopeOrg", "effect">>),
     attachGitHub  |-> R("deploy:run", "service", "check",
                         <<"auth", "inProject", "scope", "body", "effect">>),
     importGitHub  |-> R("deploy:run", "newService", "create", <<"auth", "body", "scope", "effect">>)]

NodeRoutes ==
    Joined({NodeAuthRoutes, NodePlanRoutes, NodeOrganizationRoutes, NodeProjectRoutes,
            NodeServiceRoutes, NodeResourceRoutes, NodeDeployRoutes, NodeDeploymentRoutes,
            NodeLogRoutes, NodeConsoleRoutes, NodeAdminRoutes, NodeEnvironmentRoutes,
            NodeGitHubRoutes})

--------------------------------------------------------------------------------
(***************************************************************************)
(* The NestJS controllers: the permission of each handler ...              *)
(***************************************************************************)
AuthController == [me |-> "project:read", logout |-> "project:read"]

ProjectsController ==
    [createProject |-> "project:create", getProject |-> "project:read",
     updateProject |-> "project:update", deleteProject |-> "project:delete"]

ServicesController ==
    [listServices |-> "project:read", createService |-> "service:create",
     getService |-> "project:read", updateService |-> "service:update",
     deleteService |-> "project:delete"]

ResourcesController ==
    [listResources |-> "project:read", createResource |-> "db:create", getResource |-> "project:read",
     updateResource |-> "db:create", deleteResource |-> "db:delete",
     provisionResource |-> "db:create", attachResource |-> "db:create"]

ResourceConsoleController ==
    [consoleTable |-> "db:data:read", consoleView |-> "db:schema:read",
     consoleQuery |-> "db:data:read", consoleCommand |-> "db:query:write"]

DeploymentsController ==
    [createDeploymentForService |-> "deploy:run", createDeployment |-> "deploy:run",
     getDeployment |-> "project:read", updateDeploymentStatus |-> "deploy:run",
     cancelDeployment |-> "deploy:run", deploymentLogs |-> "logs:read",
     deploymentStream |-> "logs:read", runtimeLogs |-> "logs:read", runtimeStream |-> "logs:read"]

\* Variant: the handler asks for the permission to write secrets.
environmentControllerStrict ==
    [listEnvironment |-> "env:read", upsertEnvironment |-> "env:write"]

EnvironmentController ==
    [listEnvironment |-> "env:read", upsertEnvironment |-> "env:write-limited"]

GitHubIntegrationController ==
    [connectGitHub |-> "team:invite", listGitHub |-> "project:read", attachGitHub |-> "deploy:run",
     importGitHub |-> "deploy:run"]

AdminController == [approveUser |-> "audit:read", setQuota |-> "audit:read"]
UsageController == [usageMe |-> "metrics:read"]

RequirePermission ==
    Joined({AuthController, ProjectsController, ServicesController, ResourcesController,
            ResourceConsoleController, DeploymentsController, EnvironmentController,
            GitHubIntegrationController, AdminController, UsageController})

\* ... and the handlers whose path names the project: the guard passes the path to requireScope.
ProjectInPath ==
    {"getProject", "updateProject", "deleteProject", "listServices", "createService", "listResources",
     "createResource", "createDeployment", "listEnvironment", "upsertEnvironment", "attachGitHub"}

(***************************************************************************)
(* ... and the awaits of the service methods, in their order.              *)
(***************************************************************************)
ProjectSteps ==
    [createProject |-> <<"scopeOrg", "policy", "effect">>, getProject |-> <<"scope", "effect">>,
     updateProject |-> <<"scope", "effect">>, deleteProject |-> <<"scope", "effect">>]

ServiceSteps ==
    [listServices |-> <<"scope", "effect">>, createService |-> <<"scope", "policy", "effect">>,
     getService |-> <<"find", "scope", "effect">>, updateService |-> <<"find", "scope", "effect">>,
     deleteService |-> <<"find", "scope", "effect">>]

ResourceSteps ==
    [listResources |-> <<"scope", "effect">>, createResource |-> <<"scope", "policy", "effect">>,
     getResource |-> <<"find", "scope", "effect">>, updateResource |-> <<"find", "scope", "effect">>,
     deleteResource |-> <<"find", "scope", "effect">>,
     provisionResource |-> <<"find", "scope", "effect">>,
     attachResource |-> <<"find", "scope", "effect">>]

DeploymentSteps ==
    [createDeployment |-> <<"scope", "inProject", "policy", "effect">>,
     createDeploymentForService |-> <<"find", "scope", "inProject", "policy", "effect">>,
     getDeployment |-> <<"find", "scope", "effect">>,
     updateDeploymentStatus |-> <<"find", "scope", "system", "effect">>,
     cancelDeployment |-> <<"find", "scope", "effect">>]

LogSteps == [op \in DOMAIN NodeLogRoutes |-> <<"find", "scope", "effect">>]

ConsoleSteps == [op \in DOMAIN NodeConsoleRoutes |-> <<"find", "scope", "effect">>]

EnvironmentSteps ==
    [listEnvironment |-> <<"scope", "inProject", "effect">>,
     upsertEnvironment |-> <<"scope", "inProject", "secretEntries", "effect">>]

AccountSteps ==
    [me |-> <<"effect">>, logout |-> <<"effect">>, usageMe |-> <<"effect">>,
     approveUser |-> <<"admin", "effect">>, setQuota |-> <<"admin", "effect">>]

GitHubSteps ==
    [connectGitHub |-> <<"scopeOrg", "effect">>, listGitHub |-> <<"scopeOrg", "effect">>,
     attachGitHub |-> <<"scope", "inProject", "effect">>, importGitHub |-> <<"scope", "effect">>]

NestSteps ==
    Joined({ProjectSteps, ServiceSteps, ResourceSteps, DeploymentSteps, LogSteps, ConsoleSteps,
            EnvironmentSteps, AccountSteps, GitHubSteps})

NestRoutes == [op \in DOMAIN RequirePermission |->
                 R(RequirePermission[op], NodeRoutes[op].kind, NodeRoutes[op].effect,
                   <<"auth", "params">> \o NestSteps[op])]

Routes == IF server = "node" THEN NodeRoutes ELSE NestRoutes
Route(r) == Routes[req[r].op]
Step(r)  == Route(r).steps[req[r].i]

Records ==
    [pc : {"new", "running"} \cup Outcomes, op : DOMAIN NodeRoutes \cup {"none"}, subject : Subjects \cup {None},
     target : Targets \cup {None}, path : Projects \cup {None}, move : Orgs \cup {None},
     secret : BOOLEAN, i : Nat, project : Projects \cup {None}, scoped : Orgs \cup {None},
     org : Targets \cup {None}, there : BOOLEAN]

TypeOK ==
    /\ server \in {"node", "nest"}
    /\ orgOf \in [Projects -> Orgs \cup {None}]
    /\ projectOf \in [Services \cup Resources -> Projects \cup {None}]
    /\ serviceOf \in [Deployments -> Services \cup {None}]
    /\ req \in [Requests -> Records]
    /\ used \subseteq Targets /\ late \subseteq Deployments

--------------------------------------------------------------------------------
(***************************************************************************)
(* Checks                                                                  *)
(***************************************************************************)
Exists(x) == \/ x \in Projects /\ orgOf[x] # None
             \/ x \in Services \cup Resources /\ projectOf[x] # None
             \/ x \in Deployments /\ serviceOf[x] # None

\* The project a row belongs to, as the row says.
ProjectOfRow(x) ==
    CASE x \in Projects -> x
      [] x \in Services \cup Resources -> projectOf[x]
      [] x \in Deployments -> projectOf[serviceOf[x]]
      [] OTHER -> None

matchesScope(r, org) == req[r].subject.global \/ org \in req[r].subject.orgs

\* The guard calls requireScope with the path's parameters.
requireScopeOfParams(r) ==
    \/ req[r].op \notin ProjectInPath \/ req[r].subject.global
    \/ req[r].path \in req[r].subject.projects

\* node: the project must exist.
assertProjectAccessNode(r, p) ==
    /\ p \in Projects /\ orgOf[p] # None
    /\ p \in req[r].subject.projects \/ matchesScope(r, orgOf[p])

\* NestJS: a subject scoped to the project, or to everything, is not asked for its existence.
assertProjectAccessNest(r, p) ==
    \/ req[r].subject.global \/ p \in req[r].subject.projects
    \/ p \in Projects /\ orgOf[p] # None /\ matchesScope(r, orgOf[p])

\* Variant: the organization is not compared.
assertProjectAccessAny(r, p) == p \in Projects /\ orgOf[p] # None

assertProjectAccess(r, p) ==
    IF server = "node" THEN assertProjectAccessNode(r, p) ELSE assertProjectAccessNest(r, p)

--------------------------------------------------------------------------------
Serving(r) == req[r].pc = "running" /\ req[r].i <= Len(Route(r).steps)

\* Between two awaits on input a request of the node server has the process to itself.
Holds(q) == server = "node" /\ req[q].pc = "running" /\ req[q].i > 1 /\ Step(q) # "body"

May(r) == \A q \in Requests \ {r} : ~Holds(q)

Advance(r) == req' = [req EXCEPT ![r].i = @ + 1]
End(r, outcome) == req' = [req EXCEPT ![r].pc = outcome]

OfKind(kind) ==
    CASE kind = "org" -> Orgs
      [] kind \in {"project", "newService", "newResource"} -> Projects
      [] kind \in {"service", "newDeployment"} -> Services
      [] kind = "resource" -> Resources
      [] kind = "deployment" -> Deployments
      [] OTHER -> {None}

\* A path with a project and a service may name any pair; otherwise the project is the target.
PathProjects(op, x) ==
    IF op \in {"createDeployment", "listEnvironment", "upsertEnvironment", "attachGitHub"} THEN Projects
    ELSE {IF x \in Projects THEN x ELSE None}

arrive(r, op, s, x, path, move, secret) ==
    /\ May(r)
    /\ req' = [req EXCEPT ![r] = [NoRequest EXCEPT !.pc = "running", !.op = op, !.subject = s,
                  !.target = x, !.path = path, !.project = path, !.move = move, !.secret = secret,
                  !.i = 1]]
    /\ UNCHANGED <<server, orgOf, projectOf, serviceOf, used, late>>

\* One check of a route: it passes, or ends the request.
Check(r, step, passes, outcome) ==
    /\ Serving(r) /\ May(r) /\ Step(r) = step
    /\ IF passes THEN Advance(r) ELSE End(r, outcome)
    /\ UNCHANGED <<server, orgOf, projectOf, serviceOf, used, late>>

requireAction(r) == Check(r, "auth", can(req[r].subject.role, Route(r).action), "refused")
params(r)        == Check(r, "params", requireScopeOfParams(r), "refused")
requireScope(r)  == Check(r, "scopeOrg", matchesScope(r, req[r].target), "refused")
assertAdmin(r)   == Check(r, "admin", req[r].subject.admin \/ req[r].subject.global, "refused")
assertSystemDeploymentActor(r) == Check(r, "system", req[r].subject.system, "refused")
assertEnvironmentWriteAllowed(r) ==
    Check(r, "secretEntries", req[r].secret => can(req[r].subject.role, "env:write"), "refused")

\* enforceUserCan and validateServiceSecurity.
policy(r) == \E ok \in BOOLEAN : Check(r, "policy", ok, "refused")

readJson(r) == Check(r, "body", TRUE, "refused")

find(r) ==
    /\ Serving(r) /\ May(r) /\ Step(r) = "find"
    /\ IF Exists(req[r].target)
       THEN req' = [req EXCEPT ![r].i = @ + 1, ![r].project = ProjectOfRow(req[r].target)]
       ELSE End(r, "missing")
    /\ UNCHANGED <<server, orgOf, projectOf, serviceOf, used, late>>

\* assertServiceInProject: the service is there and in the project of the path.
assertServiceInProject(r) ==
    /\ Serving(r) /\ May(r) /\ Step(r) = "inProject"
    /\ IF ~Exists(req[r].target) THEN End(r, "missing")
       ELSE IF projectOf[req[r].target] # req[r].project THEN End(r, "refused")
       ELSE Advance(r)
    /\ UNCHANGED <<server, orgOf, projectOf, serviceOf, used, late>>

scope(r) ==
    /\ Serving(r) /\ May(r) /\ Step(r) = "scope"
    /\ IF assertProjectAccess(r, req[r].project)
       THEN req' = [req EXCEPT ![r].i = @ + 1,
                       ![r].scoped = IF req[r].project \in Projects THEN orgOf[req[r].project] ELSE None]
       ELSE End(r, "refused")
    /\ UNCHANGED <<server, orgOf, projectOf, serviceOf, used, late>>

--------------------------------------------------------------------------------
(***************************************************************************)
(* Effects                                                                 *)
(***************************************************************************)
AtEffect(r, effect) == Serving(r) /\ May(r) /\ Step(r) = "effect" /\ Route(r).effect = effect

Answer(r, outcome, there) ==
    req' = [req EXCEPT ![r].pc = outcome, ![r].there = there,
               ![r].org = IF req[r].project \in Projects THEN orgOf[req[r].project] ELSE req[r].target]

read(r) ==
    /\ AtEffect(r, "read") /\ Answer(r, "done", TRUE)
    /\ UNCHANGED <<server, orgOf, projectOf, serviceOf, used, late>>

\* Approvals, quotas and integrations (Tenancy, Webhook).
changeAccount(r) ==
    /\ AtEffect(r, "account") /\ Answer(r, "done", TRUE)
    /\ UNCHANGED <<server, orgOf, projectOf, serviceOf, used, late>>

\* The database never gives an id twice (cuid); the in-memory store derives it from the names.
Give(x) ==
    /\ server = "nest" => x \notin used
    /\ used' = used \cup {x}

createProject(r, p) ==
    /\ AtEffect(r, "create") /\ Route(r).kind = "org" /\ orgOf[p] = None /\ Give(p)
    /\ orgOf' = [orgOf EXCEPT ![p] = req[r].target] /\ Answer(r, "done", TRUE)
    /\ UNCHANGED <<server, projectOf, serviceOf, late>>

\* The in-memory store does not look for the project; the foreign key does.
createChild(r, x) ==
    /\ AtEffect(r, "create")
    /\ \/ Route(r).kind = "newService" /\ x \in Services
       \/ Route(r).kind = "newResource" /\ x \in Resources
    /\ projectOf[x] = None
    /\ IF server = "node" \/ Exists(req[r].target)
       THEN projectOf' = [projectOf EXCEPT ![x] = req[r].target] /\ Give(x) /\ Answer(r, "done", TRUE)
       ELSE End(r, "failed") /\ UNCHANGED <<projectOf, used>>
    /\ UNCHANGED <<server, orgOf, serviceOf, late>>

createDeployment(r, d) ==
    /\ AtEffect(r, "create") /\ Route(r).kind = "newDeployment" /\ serviceOf[d] = None
    /\ IF server = "node" \/ Exists(req[r].target)
       THEN /\ serviceOf' = [serviceOf EXCEPT ![d] = req[r].target]
            /\ Give(d) /\ Answer(r, "done", TRUE)
            /\ late' = IF server = "node" /\ req[r].op = "createDeploymentForService"
                       THEN late \cup {d} ELSE late \ {d}
       ELSE End(r, "failed") /\ UNCHANGED <<serviceOf, used, late>>
    /\ UNCHANGED <<server, orgOf, projectOf>>

\* An updated row that is gone: not found for a project; an empty answer for a service or a
\* resource of the node server, whose update returns null; an error from the database.
AnswerWhenGone(r) ==
    IF server = "nest" THEN "failed" ELSE IF Route(r).kind = "project" THEN "missing" ELSE "done"

\* updateProject of the in-memory store takes every field of the body.
update(r) ==
    /\ AtEffect(r, "update")
    /\ IF Exists(req[r].target) THEN Answer(r, "done", TRUE) ELSE Answer(r, AnswerWhenGone(r), FALSE)
    /\ orgOf' = IF /\ server = "node" /\ Route(r).kind = "project" /\ req[r].move # None
                   /\ Exists(req[r].target)
                THEN [orgOf EXCEPT ![req[r].target] = req[r].move] ELSE orgOf
    /\ UNCHANGED <<server, projectOf, serviceOf, used, late>>

\* Variant: the store changes what it finds and answers.
checkedUpdateSilently(r) ==
    /\ AtEffect(r, "check") /\ Answer(r, "done", Exists(req[r].target))
    /\ UNCHANGED <<server, orgOf, projectOf, serviceOf, used, late>>

\* Operations that look for their row again: deployment status, cancel, rollback, environment,
\* attaching, provisioning.
checkedUpdate(r) ==
    /\ AtEffect(r, "check")
    /\ Answer(r, IF Exists(req[r].target) THEN "done"
                 ELSE IF server = "node" THEN "missing" ELSE "failed", Exists(req[r].target))
    /\ UNCHANGED <<server, orgOf, projectOf, serviceOf, used, late>>

\* Rows below the deleted one go with it.
delete(r) ==
    LET x    == req[r].target
        gone == {y \in Services \cup Resources : y = x \/ projectOf[y] = x}
    IN /\ AtEffect(r, "delete")
       /\ IF ~Exists(x) THEN End(r, "failed") /\ UNCHANGED <<orgOf, projectOf, serviceOf>>
          ELSE /\ Answer(r, "done", TRUE)
               /\ orgOf' = [p \in Projects |-> IF p = x THEN None ELSE orgOf[p]]
               /\ projectOf' = [y \in DOMAIN projectOf |-> IF y \in gone THEN None ELSE projectOf[y]]
               /\ serviceOf' = [d \in Deployments |-> IF serviceOf[d] \in gone THEN None ELSE serviceOf[d]]
    /\ UNCHANGED <<server, used, late>>

Next ==
    \E r \in Requests :
        \/ /\ req[r].pc = "new"
           /\ \E op \in DOMAIN Routes \cap Load[r].ops, s \in Load[r].subjects :
                 \E x \in OfKind(Routes[op].kind) : \E path \in PathProjects(op, x),
                    move \in (IF op = "updateProject" THEN Orgs \cup {None} ELSE {None}),
                    secret \in (IF op = "upsertEnvironment" THEN BOOLEAN ELSE {FALSE}) :
                       arrive(r, op, s, x, path, move, secret)
        \/ requireAction(r) \/ params(r) \/ requireScope(r) \/ assertAdmin(r)
        \/ assertSystemDeploymentActor(r) \/ assertEnvironmentWriteAllowed(r)
        \/ policy(r) \/ readJson(r) \/ find(r) \/ assertServiceInProject(r) \/ scope(r)
        \/ read(r) \/ changeAccount(r) \/ update(r) \/ checkedUpdate(r) \/ delete(r)
        \/ \E p \in Projects : createProject(r, p)
        \/ \E x \in Services \cup Resources : createChild(r, x)
        \/ \E d \in Deployments : createDeployment(r, d)

Spec == Init /\ [][Next]_vars

--------------------------------------------------------------------------------
(***************************************************************************)
(* Properties                                                              *)
(***************************************************************************)
Changes(r) == req[r].pc = "done" /\ Route(r).effect # "read"

\* Deleting rows while other requests are served leaves no row below a missing one: a service and
\* a resource have their project and a deployment its service.  The exception is the node route
\* POST /services/:id/deployments, which looks the service up before it reads the body and does
\* not look again (api.ts:328).
NoOrphans ==
    /\ TypeOK
    /\ \A y \in DOMAIN projectOf : projectOf[y] # None => Exists(projectOf[y])
    /\ \A d \in Deployments \ late : serviceOf[d] # None => Exists(serviceOf[d])

\* A request that is answered as done changed a row that was there when it was changed, although
\* the row was looked up in an earlier step.  The exceptions are the PATCH routes of services and
\* resources of the node server, whose store returns null for a missing row.
UpdatesReachRows ==
    \A r \in Requests :
        Changes(r) => \/ req[r].there
                      \/ server = "node" /\ req[r].op \in {"updateService", "updateResource"}

Unscoped == {"deploymentLogs", "runtimeLogs"}

\* Whatever is read or changed, if it still exists, belongs, at that moment, to an organization or a project of the
\* caller: the scope check made some awaits before still holds.  The exceptions, in the node
\* server: two log routes check no scope (api.ts:397, 422), and a project that PATCH /projects
\* moves to another organization while the body of a checked request is being read.
InScope ==
    \A r \in Requests :
        req[r].pc = "done" /\ Route(r).kind \notin {"none", "account"} =>
            \/ req[r].subject.global \/ req[r].project \in req[r].subject.projects
            \/ req[r].org \in req[r].subject.orgs \cup {None}
            \/ server = "node" /\ (req[r].op \in Unscoped \/ req[r].scoped # req[r].org)

Differences == {"updateProject"}

\* A caller one server serves is not turned away by the role check of the other: the table in
\* api.ts and the decorators of the controllers say the same, but for PATCH /projects/:id
\* (project:create in one, project:update in the other) and the routes that need no role in one.
ServersAgree ==
    \A r \in Requests :
        LET op == req[r].op
        IN req[r].pc = "done" /\ op \in DOMAIN NodeRoutes \cap DOMAIN RequirePermission
              /\ op \notin Differences \cup {"me", "logout"} =>
           can(req[r].subject.role, NodeRoutes[op].action)
              /\ can(req[r].subject.role, RequirePermission[op])
================================================================================
