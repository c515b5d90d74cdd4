---------------------------- MODULE ApiServerProofs ----------------------------
(***************************************************************************)
(* Proofs about ApiServer, for every set of organizations, projects,       *)
(* services, resources, deployments and callers, and for any number of     *)
(* requests at a time.                                                     *)
(*                                                                         *)
(* The route tables are looked at once, route by route: each row has its   *)
(* kind and its action, makes its checks before the effect and looks the   *)
(* row up before it checks its scope (NodeTable, PermissionTable,          *)
(* StepTable).  From there on a request is a walk through the steps of     *)
(* some route, and the invariant says what the checks behind it still      *)
(* guarantee, although other requests went on in between.                  *)
(***************************************************************************)
EXTENDS ApiServer, TLAPS

--------------------------------------------------------------------------------
(***************************************************************************)
(* The inductive invariant.  x is the record of a request.                 *)
(***************************************************************************)
StepsOf(x) == Routes[x.op].steps

\* The request has gone past this check of its route.
Past(x, step) == \E k \in 1..(x.i - 1) : StepsOf(x)[k] = step

\* A request is of a route of the server and has a step to take; it is about the project of its
\* path until a row is found.
Routed(x) ==
    /\ x.op \in DOMAIN Routes /\ x.subject \in Subjects
    /\ x.target \in OfKind(Routes[x.op].kind)
    /\ x.i \in 1..Len(StepsOf(x))
    /\ Routes[x.op].kind = "org" => x.project = None
    /\ Routes[x.op].kind \in {"project", "newService", "newResource"} => x.project = x.target

\* What the checks that were passed say of the caller.
Cleared(x) ==
    /\ Past(x, "auth") => can(x.subject.role, Routes[x.op].action)
    /\ Past(x, "scopeOrg") => x.subject.global \/ x.target \in x.subject.orgs
    /\ Past(x, "scope") => \/ x.subject.global \/ x.project \in x.subject.projects
                           \/ x.project \in Projects /\ x.scoped \in x.subject.orgs

\* Only the last step answers, and the answer is what UpdatesReachRows and InScope ask for.
Settled(x) ==
    x.pc = "done" =>
        /\ x.i = Len(StepsOf(x))
        /\ \/ Routes[x.op].effect = "read" \/ x.there
           \/ server = "node" /\ x.op \in {"updateService", "updateResource"}
        /\ \/ Routes[x.op].kind \in {"none", "account"}
           \/ x.subject.global \/ x.project \in x.subject.projects
           \/ x.org \in x.subject.orgs \cup {None}
           \/ server = "node" /\ (x.op \in Unscoped \/ x.scoped # x.org)

\* In the NestJS server the project stays in the organization that was checked for as long as it
\* exists, and its id is given to no other row.
StillScoped(x) ==
    server = "nest" /\ x.pc = "running" /\ Past(x, "scope") =>
        \/ x.subject.global \/ x.project \in x.subject.projects
        \/ x.project \in used /\ orgOf[x.project] \in {x.scoped, None}

\* In the node server nobody else runs between the check of the parent and the row's creation.
ParentThere(x) ==
    server = "node" /\ x.pc = "running" =>
        /\ Routes[x.op].kind \in {"newService", "newResource"} /\ Past(x, "scope") =>
                  Exists(x.target)
        /\ x.op = "createDeployment" /\ Past(x, "inProject") => Exists(x.target)

Steady(x) == x.pc # "new" => Routed(x) /\ Cleared(x) /\ Settled(x)

Here(x) == StillScoped(x) /\ ParentThere(x)

RowsUsed == \A p \in Projects : orgOf[p] # None => p \in used

IInv ==
    /\ NoOrphans /\ RowsUsed
    /\ \A r \in Requests : Steady(req[r]) /\ Here(req[r])

--------------------------------------------------------------------------------
(***************************************************************************)
(* The route tables.  KindOf and Needs say what an operation is about and    *)
(* which action it requires where the servers agree; the lemmas look at     *)
(* every route.                                                             *)
(***************************************************************************)
\* The kind of row each operation is about, and the action it needs where the servers agree.
KindOf(op) ==
    CASE op \in {"createProjectInOrg", "createProject", "connectGitHub", "listGitHub"} -> "org"
      [] op \in {"getProject", "updateProject", "deleteProject", "listServices",
          "listResources"} -> "project"
      [] op \in {"createService", "importGitHub"} -> "newService"
      [] op \in {"getService", "updateService", "deleteService", "runtimeLogs",
          "runtimeStream", "listEnvironment", "upsertEnvironment", "attachGitHub"} -> "service"
      [] op \in {"createResource"} -> "newResource"
      [] op \in {"getResource", "updateResource", "deleteResource", "provisionResource",
          "attachResource", "consoleTable", "consoleView", "consoleQuery",
          "consoleCommand"} -> "resource"
      [] op \in {"createDeploymentForService", "createDeployment"} -> "newDeployment"
      [] op \in {"getDeployment", "updateDeploymentStatus", "cancelDeployment",
          "deploymentLogs", "deploymentStream"} -> "deployment"
      [] op \in {"approveUser", "setQuota"} -> "account"
      [] OTHER -> "none"

Needs(op) ==
    CASE op \in {"snapshot", "configStatus", "approveUser", "setQuota"} -> "audit:read"
      [] op \in {"plan", "getProject", "listServices", "getService", "listResources",
          "getResource", "getDeployment", "listGitHub"} -> "project:read"
      [] op \in {"createProjectInOrg"} -> "project:update"
      [] op \in {"createProject"} -> "project:create"
      [] op \in {"deleteProject", "deleteService"} -> "project:delete"
      [] op \in {"createService"} -> "service:create"
      [] op \in {"updateService"} -> "service:update"
      [] op \in {"createResource", "updateResource", "provisionResource",
          "attachResource"} -> "db:create"
      [] op \in {"deleteResource"} -> "db:delete"
      [] op \in {"createDeploymentForService", "createDeployment", "updateDeploymentStatus",
          "cancelDeployment", "attachGitHub", "importGitHub"} -> "deploy:run"
      [] op \in {"deploymentLogs", "deploymentStream", "runtimeLogs",
          "runtimeStream"} -> "logs:read"
      [] op \in {"consoleTable", "consoleQuery"} -> "db:data:read"
      [] op \in {"consoleView"} -> "db:schema:read"
      [] op \in {"consoleCommand"} -> "db:query:write"
      [] op \in {"usageMe"} -> "metrics:read"
      [] op \in {"listEnvironment"} -> "env:read"
      [] op \in {"upsertEnvironment"} -> "env:write-limited"
      [] op \in {"connectGitHub"} -> "team:invite"
      [] OTHER -> "any"

\* The steps make this check before the last of them.
Makes(S, step) == \E k \in 1..(Len(S) - 1) : S[k] = step

\* Only the last step is the effect; the row is found before its scope is checked.
Orderly(S) ==
    /\ Len(S) \in Nat /\ Len(S) > 0 /\ S[Len(S)] = "effect"
    /\ \A i \in 1..Len(S) : S[i] = "effect" => i = Len(S)
    /\ \A i, k \in 1..Len(S) : S[i] = "find" /\ S[k] = "scope" => i < k

NoFind(S) == \A i \in 1..Len(S) : S[i] # "find"

NoBodyAfter(S, step) == \A i, k \in 1..Len(S) : S[k] = step /\ k < i => S[i] # "body"

\* What the steps of an operation check in both servers.
Guarded(op, S) ==
    /\ Orderly(S)
    /\ KindOf(op) = "org" => Makes(S, "scopeOrg") /\ NoFind(S)
    /\ KindOf(op) \in {"project", "newService", "newResource"} => NoFind(S)
    /\ KindOf(op) \notin {"none", "account", "org"} /\ op \notin Unscoped => Makes(S, "scope")
    /\ op \notin {"me", "logout"} => Makes(S, "auth")

NodeRoute(op, rt) ==
    /\ rt.kind = KindOf(op)
    /\ op \notin {"me", "logout"} \cup Differences => rt.action = Needs(op)
    /\ rt.effect = "update" => op \in {"updateProject", "updateService", "updateResource"}
    /\ Guarded(op, rt.steps)
    /\ KindOf(op) \in {"newService", "newResource"} => NoBodyAfter(rt.steps, "scope")
    /\ op = "createDeployment" =>
              Makes(rt.steps, "inProject") /\ NoBodyAfter(rt.steps, "inProject")

\* The steps of a NestJS operation; its log routes check the scope too, and every route a role.
NestGuarded(op, S) ==
    /\ Guarded(op, S) /\ Makes(S, "auth")
    /\ op \in Unscoped => Makes(S, "scope")

\* A row of the joined table is one of the table that has the operation.
LEMMA JoinedValue ==
    ASSUME NEW tables, NEW op \in DOMAIN Joined(tables)
    PROVE  \E t \in tables : op \in DOMAIN t /\ Joined(tables)[op] = t[op]
BY DEF Joined

\* The joined table has the operations of every table.
LEMMA JoinedDomain ==
    ASSUME NEW tables, NEW t \in tables, NEW op \in DOMAIN t
    PROVE  op \in DOMAIN Joined(tables)
BY DEF Joined

\* What the checks of a list of steps amount to, one lemma for each list the node server has.
LEMMA EffectOnly ==
    ASSUME NEW S, Len(S) = 1 /\ S[1] = "effect"
    PROVE  Orderly(S) /\ NoFind(S)
BY DEF Orderly, NoFind

LEMMA AuthEffect ==
    ASSUME NEW S, Len(S) = 2 /\ S[1] = "auth" /\ S[2] = "effect"
    PROVE  Orderly(S) /\ Makes(S, "auth") /\ NoFind(S)
BY DEF Orderly, Makes, NoFind

LEMMA AuthBodyEffect ==
    ASSUME NEW S, Len(S) = 3 /\ S[1] = "auth" /\ S[2] = "body" /\ S[3] = "effect"
    PROVE  Orderly(S) /\ Makes(S, "auth") /\ NoFind(S)
BY DEF Orderly, Makes, NoFind

LEMMA AuthScopeOrgPolicyBodyEffect ==
    ASSUME NEW S, Len(S) = 5 /\ S[1] = "auth" /\ S[2] = "scopeOrg" /\ S[3] = "policy"
               /\ S[4] = "body" /\ S[5] = "effect"
    PROVE  Orderly(S) /\ Makes(S, "auth") /\ Makes(S, "scopeOrg") /\ NoFind(S)
BY DEF Orderly, Makes, NoFind

LEMMA BodyAuthScopeOrgPolicyEffect ==
    ASSUME NEW S, Len(S) = 5 /\ S[1] = "body" /\ S[2] = "auth" /\ S[3] = "scopeOrg"
               /\ S[4] = "policy" /\ S[5] = "effect"
    PROVE  Orderly(S) /\ Makes(S, "auth") /\ Makes(S, "scopeOrg") /\ NoFind(S)
BY DEF Orderly, Makes, NoFind

LEMMA AuthScopeEffect ==
    ASSUME NEW S, Len(S) = 3 /\ S[1] = "auth" /\ S[2] = "scope" /\ S[3] = "effect"
    PROVE  Orderly(S) /\ Makes(S, "auth") /\ Makes(S, "scope") /\ NoFind(S)
               /\ NoBodyAfter(S, "scope")
BY DEF Orderly, Makes, NoFind, NoBodyAfter

LEMMA AuthScopeBodyEffect ==
    ASSUME NEW S, Len(S) = 4 /\ S[1] = "auth" /\ S[2] = "scope" /\ S[3] = "body"
               /\ S[4] = "effect"
    PROVE  Orderly(S) /\ Makes(S, "auth") /\ Makes(S, "scope") /\ NoFind(S)
BY DEF Orderly, Makes, NoFind

LEMMA BodyAuthScopePolicyEffect ==
    ASSUME NEW S, Len(S) = 5 /\ S[1] = "body" /\ S[2] = "auth" /\ S[3] = "scope"
               /\ S[4] = "policy" /\ S[5] = "effect"
    PROVE  Orderly(S) /\ Makes(S, "auth") /\ Makes(S, "scope") /\ NoFind(S)
               /\ NoBodyAfter(S, "scope")
BY DEF Orderly, Makes, NoFind, NoBodyAfter

LEMMA AuthFindScopeEffect ==
    ASSUME NEW S, Len(S) = 4 /\ S[1] = "auth" /\ S[2] = "find" /\ S[3] = "scope"
               /\ S[4] = "effect"
    PROVE  Orderly(S) /\ Makes(S, "auth") /\ Makes(S, "scope") /\ NoBodyAfter(S, "scope")
BY DEF Orderly, Makes, NoBodyAfter

LEMMA AuthFindScopeBodyEffect ==
    ASSUME NEW S, Len(S) = 5 /\ S[1] = "auth" /\ S[2] = "find" /\ S[3] = "scope"
               /\ S[4] = "body" /\ S[5] = "effect"
    PROVE  Orderly(S) /\ Makes(S, "auth") /\ Makes(S, "scope")
BY DEF Orderly, Makes

LEMMA FindBodyAuthScopePolicyEffect ==
    ASSUME NEW S, Len(S) = 6 /\ S[1] = "find" /\ S[2] = "body" /\ S[3] = "auth"
               /\ S[4] = "scope" /\ S[5] = "policy" /\ S[6] = "effect"
    PROVE  Orderly(S) /\ Makes(S, "auth") /\ Makes(S, "scope") /\ NoBodyAfter(S, "scope")
BY DEF Orderly, Makes, NoBodyAfter

LEMMA BodyAuthInProjectScopePolicyEffect ==
    ASSUME NEW S, Len(S) = 6 /\ S[1] = "body" /\ S[2] = "auth" /\ S[3] = "inProject"
               /\ S[4] = "scope" /\ S[5] = "policy" /\ S[6] = "effect"
    PROVE  Orderly(S) /\ Makes(S, "auth") /\ Makes(S, "scope") /\ Makes(S, "inProject")
               /\ NoFind(S) /\ NoBodyAfter(S, "scope") /\ NoBodyAfter(S, "inProject")
BY DEF Orderly, Makes, NoFind, NoBodyAfter

LEMMA AuthFindScopeSystemBodyEffect ==
    ASSUME NEW S, Len(S) = 6 /\ S[1] = "auth" /\ S[2] = "find" /\ S[3] = "scope"
               /\ S[4] = "system" /\ S[5] = "body" /\ S[6] = "effect"
    PROVE  Orderly(S) /\ Makes(S, "auth") /\ Makes(S, "scope")
BY DEF Orderly, Makes

LEMMA AuthBodyFindScopeEffect ==
    ASSUME NEW S, Len(S) = 5 /\ S[1] = "auth" /\ S[2] = "body" /\ S[3] = "find"
               /\ S[4] = "scope" /\ S[5] = "effect"
    PROVE  Orderly(S) /\ Makes(S, "auth") /\ Makes(S, "scope") /\ NoBodyAfter(S, "scope")
BY DEF Orderly, Makes, NoBodyAfter

LEMMA AuthAdminBodyEffect ==
    ASSUME NEW S, Len(S) = 4 /\ S[1] = "auth" /\ S[2] = "admin" /\ S[3] = "body"
               /\ S[4] = "effect"
    PROVE  Orderly(S) /\ Makes(S, "auth") /\ NoFind(S)
BY DEF Orderly, Makes, NoFind

LEMMA AuthInProjectScopeEffect ==
    ASSUME NEW S, Len(S) = 4 /\ S[1] = "auth" /\ S[2] = "inProject" /\ S[3] = "scope"
               /\ S[4] = "effect"
    PROVE  Orderly(S) /\ Makes(S, "auth") /\ Makes(S, "scope") /\ Makes(S, "inProject")
               /\ NoFind(S) /\ NoBodyAfter(S, "scope") /\ NoBodyAfter(S, "inProject")
BY DEF Orderly, Makes, NoFind, NoBodyAfter

LEMMA AuthInProjectScopeBodySecretEntriesEffect ==
    ASSUME NEW S, Len(S) = 6 /\ S[1] = "auth" /\ S[2] = "inProject" /\ S[3] = "scope"
               /\ S[4] = "body" /\ S[5] = "secretEntries" /\ S[6] = "effect"
    PROVE  Orderly(S) /\ Makes(S, "auth") /\ Makes(S, "scope") /\ Makes(S, "inProject")
               /\ NoFind(S)
BY DEF Orderly, Makes, NoFind

LEMMA AuthBodyScopeOrgEffect ==
    ASSUME NEW S, Len(S) = 4 /\ S[1] = "auth" /\ S[2] = "body" /\ S[3] = "scopeOrg"
               /\ S[4] = "effect"
    PROVE  Orderly(S) /\ Makes(S, "auth") /\ Makes(S, "scopeOrg") /\ NoFind(S)
BY DEF Orderly, Makes, NoFind

LEMMA AuthScopeOrgEffect ==
    ASSUME NEW S, Len(S) = 3 /\ S[1] = "auth" /\ S[2] = "scopeOrg" /\ S[3] = "effect"
    PROVE  Orderly(S) /\ Makes(S, "auth") /\ Makes(S, "scopeOrg") /\ NoFind(S)
BY DEF Orderly, Makes, NoFind

LEMMA AuthInProjectScopeBodyEffect ==
    ASSUME NEW S, Len(S) = 5 /\ S[1] = "auth" /\ S[2] = "inProject" /\ S[3] = "scope"
               /\ S[4] = "body" /\ S[5] = "effect"
    PROVE  Orderly(S) /\ Makes(S, "auth") /\ Makes(S, "scope") /\ Makes(S, "inProject")
               /\ NoFind(S)
BY DEF Orderly, Makes, NoFind

LEMMA AuthBodyScopeEffect ==
    ASSUME NEW S, Len(S) = 4 /\ S[1] = "auth" /\ S[2] = "body" /\ S[3] = "scope"
               /\ S[4] = "effect"
    PROVE  Orderly(S) /\ Makes(S, "auth") /\ Makes(S, "scope") /\ NoFind(S)
               /\ NoBodyAfter(S, "scope")
BY DEF Orderly, Makes, NoFind, NoBodyAfter

\* Every route of the node server has its kind and action and makes its checks, table by table.
LEMMA NodeAuthRoutesOK == \A op \in DOMAIN NodeAuthRoutes : NodeRoute(op, NodeAuthRoutes[op])
<1>1. DOMAIN NodeAuthRoutes = {"me", "logout", "snapshot", "configStatus"}
  BY DEF NodeAuthRoutes
<1>2. NodeRoute("me", NodeAuthRoutes["me"])
  <2>1. PICK S : /\ NodeAuthRoutes["me"] = R("any", "none", "read", S)
               /\ Len(S) = 1 /\ S[1] = "effect"
    BY DEF NodeAuthRoutes
  <2>2. KindOf("me") = "none" /\ Needs("me") = "any"
    BY DEF KindOf, Needs
  <2> QED BY <2>1, <2>2, EffectOnly DEF R, NodeRoute, Guarded, Differences, Unscoped
<1>3. NodeRoute("logout", NodeAuthRoutes["logout"])
  <2>1. PICK S : /\ NodeAuthRoutes["logout"] = R("any", "none", "read", S)
               /\ Len(S) = 1 /\ S[1] = "effect"
    BY DEF NodeAuthRoutes
  <2>2. KindOf("logout") = "none" /\ Needs("logout") = "any"
    BY DEF KindOf, Needs
  <2> QED BY <2>1, <2>2, EffectOnly DEF R, NodeRoute, Guarded, Differences, Unscoped
<1>4. NodeRoute("snapshot", NodeAuthRoutes["snapshot"])
  <2>1. PICK S : /\ NodeAuthRoutes["snapshot"] = R("audit:read", "none", "read", S)
               /\ Len(S) = 2 /\ S[1] = "auth" /\ S[2] = "effect"
    BY DEF NodeAuthRoutes
  <2>2. KindOf("snapshot") = "none" /\ Needs("snapshot") = "audit:read"
    BY DEF KindOf, Needs
  <2> QED BY <2>1, <2>2, AuthEffect DEF R, NodeRoute, Guarded, Differences, Unscoped
<1>5. NodeRoute("configStatus", NodeAuthRoutes["configStatus"])
  <2>1. PICK S : /\ NodeAuthRoutes["configStatus"] = R("audit:read", "none", "read", S)
               /\ Len(S) = 2 /\ S[1] = "auth" /\ S[2] = "effect"
    BY DEF NodeAuthRoutes
  <2>2. KindOf("configStatus") = "none" /\ Needs("configStatus") = "audit:read"
    BY DEF KindOf, Needs
  <2> QED BY <2>1, <2>2, AuthEffect DEF R, NodeRoute, Guarded, Differences, Unscoped
<1> QED BY <1>1, <1>2, <1>3, <1>4, <1>5

LEMMA NodePlanRoutesOK == \A op \in DOMAIN NodePlanRoutes : NodeRoute(op, NodePlanRoutes[op])
<1>1. DOMAIN NodePlanRoutes = {"plan"}
  BY DEF NodePlanRoutes
<1>2. NodeRoute("plan", NodePlanRoutes["plan"])
  <2>1. PICK S : /\ NodePlanRoutes["plan"] = R("project:read", "none", "read", S)
               /\ Len(S) = 3 /\ S[1] = "auth" /\ S[2] = "body" /\ S[3] = "effect"
    BY DEF NodePlanRoutes
  <2>2. KindOf("plan") = "none" /\ Needs("plan") = "project:read"
    BY DEF KindOf, Needs
  <2> QED BY <2>1, <2>2, AuthBodyEffect DEF R, NodeRoute, Guarded, Differences, Unscoped
<1> QED BY <1>1, <1>2

LEMMA NodeOrganizationRoutesOK ==
    \A op \in DOMAIN NodeOrganizationRoutes : NodeRoute(op, NodeOrganizationRoutes[op])
<1>1. DOMAIN NodeOrganizationRoutes = {"createProjectInOrg", "createProject"}
  BY DEF NodeOrganizationRoutes
<1>2. NodeRoute("createProjectInOrg", NodeOrganizationRoutes["createProjectInOrg"])
  <2>1. PICK S : /\ NodeOrganizationRoutes["createProjectInOrg"] = R("project:update", "org",
                       "create", S)
               /\ Len(S) = 5 /\ S[1] = "auth" /\ S[2] = "scopeOrg" /\ S[3] = "policy"
                     /\ S[4] = "body" /\ S[5] = "effect"
    BY DEF NodeOrganizationRoutes
  <2>2. KindOf("createProjectInOrg") = "org" /\ Needs("createProjectInOrg") = "project:update"
    BY DEF KindOf, Needs
  <2> QED BY <2>1, <2>2, AuthScopeOrgPolicyBodyEffect DEF R, NodeRoute, Guarded, Differences,
        Unscoped
<1>3. NodeRoute("createProject", NodeOrganizationRoutes["createProject"])
  <2>1. PICK S : /\ NodeOrganizationRoutes["createProject"] = R("project:create", "org",
                       "create", S)
               /\ Len(S) = 5 /\ S[1] = "body" /\ S[2] = "auth" /\ S[3] = "scopeOrg"
                     /\ S[4] = "policy" /\ S[5] = "effect"
    BY DEF NodeOrganizationRoutes
  <2>2. KindOf("createProject") = "org" /\ Needs("createProject") = "project:create"
    BY DEF KindOf, Needs
  <2> QED BY <2>1, <2>2, BodyAuthScopeOrgPolicyEffect DEF R, NodeRoute, Guarded, Differences,
        Unscoped
<1> QED BY <1>1, <1>2, <1>3

LEMMA NodeProjectRoutesOK ==
    \A op \in DOMAIN NodeProjectRoutes : NodeRoute(op, NodeProjectRoutes[op])
<1>1. DOMAIN NodeProjectRoutes = {"getProject", "updateProject", "deleteProject", "listServices"}
  BY DEF NodeProjectRoutes
<1>2. NodeRoute("getProject", NodeProjectRoutes["getProject"])
  <2>1. PICK S : /\ NodeProjectRoutes["getProject"] = R("project:read", "project", "read", S)
               /\ Len(S) = 3 /\ S[1] = "auth" /\ S[2] = "scope" /\ S[3] = "effect"
    BY DEF NodeProjectRoutes
  <2>2. KindOf("getProject") = "project" /\ Needs("getProject") = "project:read"
    BY DEF KindOf, Needs
  <2> QED BY <2>1, <2>2, AuthScopeEffect DEF R, NodeRoute, Guarded, Differences, Unscoped
<1>3. NodeRoute("updateProject", NodeProjectRoutes["updateProject"])
  <2>1. PICK S : /\ NodeProjectRoutes["updateProject"] = R("project:create", "project",
                       "update", S)
               /\ Len(S) = 4 /\ S[1] = "auth" /\ S[2] = "scope" /\ S[3] = "body"
                     /\ S[4] = "effect"
    BY DEF NodeProjectRoutes
  <2>2. KindOf("updateProject") = "project" /\ Needs("updateProject") = "any"
    BY DEF KindOf, Needs
  <2> QED BY <2>1, <2>2, AuthScopeBodyEffect DEF R, NodeRoute, Guarded, Differences, Unscoped
<1>4. NodeRoute("deleteProject", NodeProjectRoutes["deleteProject"])
  <2>1. PICK S : /\ NodeProjectRoutes["deleteProject"] = R("project:delete", "project",
                       "delete", S)
               /\ Len(S) = 3 /\ S[1] = "auth" /\ S[2] = "scope" /\ S[3] = "effect"
    BY DEF NodeProjectRoutes
  <2>2. KindOf("deleteProject") = "project" /\ Needs("deleteProject") = "project:delete"
    BY DEF KindOf, Needs
  <2> QED BY <2>1, <2>2, AuthScopeEffect DEF R, NodeRoute, Guarded, Differences, Unscoped
<1>5. NodeRoute("listServices", NodeProjectRoutes["listServices"])
  <2>1. PICK S : /\ NodeProjectRoutes["listServices"] = R("project:read", "project", "read", S)
               /\ Len(S) = 3 /\ S[1] = "auth" /\ S[2] = "scope" /\ S[3] = "effect"
    BY DEF NodeProjectRoutes
  <2>2. KindOf("listServices") = "project" /\ Needs("listServices") = "project:read"
    BY DEF KindOf, Needs
  <2> QED BY <2>1, <2>2, AuthScopeEffect DEF R, NodeRoute, Guarded, Differences, Unscoped
<1> QED BY <1>1, <1>2, <1>3, <1>4, <1>5

LEMMA NodeServiceRoutesOK ==
    \A op \in DOMAIN NodeServiceRoutes : NodeRoute(op, NodeServiceRoutes[op])
<1>1. DOMAIN NodeServiceRoutes = {"createService", "getService", "updateService", "deleteService"}
  BY DEF NodeServiceRoutes
<1>2. NodeRoute("createService", NodeServiceRoutes["createService"])
  <2>1. PICK S : /\ NodeServiceRoutes["createService"] = R("service:create", "newService",
                       "create", S)
               /\ Len(S) = 5 /\ S[1] = "body" /\ S[2] = "auth" /\ S[3] = "scope"
                     /\ S[4] = "policy" /\ S[5] = "effect"
    BY DEF NodeServiceRoutes
  <2>2. KindOf("createService") = "newService" /\ Needs("createService") = "service:create"
    BY DEF KindOf, Needs
  <2> QED BY <2>1, <2>2, BodyAuthScopePolicyEffect DEF R, NodeRoute, Guarded, Differences,
        Unscoped
<1>3. NodeRoute("getService", NodeServiceRoutes["getService"])
  <2>1. PICK S : /\ NodeServiceRoutes["getService"] = R("project:read", "service", "read", S)
               /\ Len(S) = 4 /\ S[1] = "auth" /\ S[2] = "find" /\ S[3] = "scope"
                     /\ S[4] = "effect"
    BY DEF NodeServiceRoutes
  <2>2. KindOf("getService") = "service" /\ Needs("getService") = "project:read"
    BY DEF KindOf, Needs
  <2> QED BY <2>1, <2>2, AuthFindScopeEffect DEF R, NodeRoute, Guarded, Differences, Unscoped
<1>4. NodeRoute("updateService", NodeServiceRoutes["updateService"])
  <2>1. PICK S : /\ NodeServiceRoutes["updateService"] = R("service:update", "service",
                       "update", S)
               /\ Len(S) = 5 /\ S[1] = "auth" /\ S[2] = "find" /\ S[3] = "scope"
                     /\ S[4] = "body" /\ S[5] = "effect"
    BY DEF NodeServiceRoutes
  <2>2. KindOf("updateService") = "service" /\ Needs("updateService") = "service:update"
    BY DEF KindOf, Needs
  <2> QED BY <2>1, <2>2, AuthFindScopeBodyEffect DEF R, NodeRoute, Guarded, Differences, Unscoped
<1>5. NodeRoute("deleteService", NodeServiceRoutes["deleteService"])
  <2>1. PICK S : /\ NodeServiceRoutes["deleteService"] = R("project:delete", "service",
                       "delete", S)
               /\ Len(S) = 4 /\ S[1] = "auth" /\ S[2] = "find" /\ S[3] = "scope"
                     /\ S[4] = "effect"
    BY DEF NodeServiceRoutes
  <2>2. KindOf("deleteService") = "service" /\ Needs("deleteService") = "project:delete"
    BY DEF KindOf, Needs
  <2> QED BY <2>1, <2>2, AuthFindScopeEffect DEF R, NodeRoute, Guarded, Differences, Unscoped
<1> QED BY <1>1, <1>2, <1>3, <1>4, <1>5

LEMMA NodeResourceRoutesOK ==
    \A op \in DOMAIN NodeResourceRoutes : NodeRoute(op, NodeResourceRoutes[op])
<1>1. DOMAIN NodeResourceRoutes = {"listResources", "createResource", "getResource",
        "updateResource", "deleteResource", "provisionResource", "attachResource"}
  BY DEF NodeResourceRoutes
<1>2. NodeRoute("listResources", NodeResourceRoutes["listResources"])
  <2>1. PICK S : /\ NodeResourceRoutes["listResources"] = R("project:read", "project", "read", S)
               /\ Len(S) = 3 /\ S[1] = "auth" /\ S[2] = "scope" /\ S[3] = "effect"
    BY DEF NodeResourceRoutes
  <2>2. KindOf("listResources") = "project" /\ Needs("listResources") = "project:read"
    BY DEF KindOf, Needs
  <2> QED BY <2>1, <2>2, AuthScopeEffect DEF R, NodeRoute, Guarded, Differences, Unscoped
<1>3. NodeRoute("createResource", NodeResourceRoutes["createResource"])
  <2>1. PICK S : /\ NodeResourceRoutes["createResource"] = R("db:create", "newResource",
                       "create", S)
               /\ Len(S) = 5 /\ S[1] = "body" /\ S[2] = "auth" /\ S[3] = "scope"
                     /\ S[4] = "policy" /\ S[5] = "effect"
    BY DEF NodeResourceRoutes
  <2>2. KindOf("createResource") = "newResource" /\ Needs("createResource") = "db:create"
    BY DEF KindOf, Needs
  <2> QED BY <2>1, <2>2, BodyAuthScopePolicyEffect DEF R, NodeRoute, Guarded, Differences,
        Unscoped
<1>4. NodeRoute("getResource", NodeResourceRoutes["getResource"])
  <2>1. PICK S : /\ NodeResourceRoutes["getResource"] = R("project:read", "resource", "read", S)
               /\ Len(S) = 4 /\ S[1] = "auth" /\ S[2] = "find" /\ S[3] = "scope"
                     /\ S[4] = "effect"
    BY DEF NodeResourceRoutes
  <2>2. KindOf("getResource") = "resource" /\ Needs("getResource") = "project:read"
    BY DEF KindOf, Needs
  <2> QED BY <2>1, <2>2, AuthFindScopeEffect DEF R, NodeRoute, Guarded, Differences, Unscoped
<1>5. NodeRoute("updateResource", NodeResourceRoutes["updateResource"])
  <2>1. PICK S : /\ NodeResourceRoutes["updateResource"] = R("db:create", "resource", "update", S)
               /\ Len(S) = 5 /\ S[1] = "auth" /\ S[2] = "find" /\ S[3] = "scope"
                     /\ S[4] = "body" /\ S[5] = "effect"
    BY DEF NodeResourceRoutes
  <2>2. KindOf("updateResource") = "resource" /\ Needs("updateResource") = "db:create"
    BY DEF KindOf, Needs
  <2> QED BY <2>1, <2>2, AuthFindScopeBodyEffect DEF R, NodeRoute, Guarded, Differences, Unscoped
<1>6. NodeRoute("deleteResource", NodeResourceRoutes["deleteResource"])
  <2>1. PICK S : /\ NodeResourceRoutes["deleteResource"] = R("db:delete", "resource", "delete", S)
               /\ Len(S) = 4 /\ S[1] = "auth" /\ S[2] = "find" /\ S[3] = "scope"
                     /\ S[4] = "effect"
    BY DEF NodeResourceRoutes
  <2>2. KindOf("deleteResource") = "resource" /\ Needs("deleteResource") = "db:delete"
    BY DEF KindOf, Needs
  <2> QED BY <2>1, <2>2, AuthFindScopeEffect DEF R, NodeRoute, Guarded, Differences, Unscoped
<1>7. NodeRoute("provisionResource", NodeResourceRoutes["provisionResource"])
  <2>1. PICK S : /\ NodeResourceRoutes["provisionResource"] = R("db:create", "resource",
                       "check", S)
               /\ Len(S) = 5 /\ S[1] = "auth" /\ S[2] = "find" /\ S[3] = "scope"
                     /\ S[4] = "body" /\ S[5] = "effect"
    BY DEF NodeResourceRoutes
  <2>2. KindOf("provisionResource") = "resource" /\ Needs("provisionResource") = "db:create"
    BY DEF KindOf, Needs
  <2> QED BY <2>1, <2>2, AuthFindScopeBodyEffect DEF R, NodeRoute, Guarded, Differences, Unscoped
<1>8. NodeRoute("attachResource", NodeResourceRoutes["attachResource"])
  <2>1. PICK S : /\ NodeResourceRoutes["attachResource"] = R("db:create", "resource", "check", S)
               /\ Len(S) = 5 /\ S[1] = "auth" /\ S[2] = "find" /\ S[3] = "scope"
                     /\ S[4] = "body" /\ S[5] = "effect"
    BY DEF NodeResourceRoutes
  <2>2. KindOf("attachResource") = "resource" /\ Needs("attachResource") = "db:create"
    BY DEF KindOf, Needs
  <2> QED BY <2>1, <2>2, AuthFindScopeBodyEffect DEF R, NodeRoute, Guarded, Differences, Unscoped
<1> QED BY <1>1, <1>2, <1>3, <1>4, <1>5, <1>6, <1>7, <1>8

LEMMA NodeDeployRoutesOK ==
    \A op \in DOMAIN NodeDeployRoutes : NodeRoute(op, NodeDeployRoutes[op])
<1>1. DOMAIN NodeDeployRoutes = {"createDeploymentForService", "createDeployment"}
  BY DEF NodeDeployRoutes
<1>2. NodeRoute("createDeploymentForService", NodeDeployRoutes["createDeploymentForService"])
  <2>1. PICK S : /\ NodeDeployRoutes["createDeploymentForService"] = R("deploy:run",
                       "newDeployment", "create", S)
               /\ Len(S) = 6 /\ S[1] = "find" /\ S[2] = "body" /\ S[3] = "auth"
                     /\ S[4] = "scope" /\ S[5] = "policy" /\ S[6] = "effect"
    BY DEF NodeDeployRoutes
  <2>2. KindOf("createDeploymentForService") = "newDeployment"
          /\ Needs("createDeploymentForService") = "deploy:run"
    BY DEF KindOf, Needs
  <2> QED BY <2>1, <2>2, FindBodyAuthScopePolicyEffect DEF R, NodeRoute, Guarded, Differences,
        Unscoped
<1>3. NodeRoute("createDeployment", NodeDeployRoutes["createDeployment"])
  <2>1. PICK S : /\ NodeDeployRoutes["createDeployment"] = R("deploy:run", "newDeployment",
                       "create", S)
               /\ Len(S) = 6 /\ S[1] = "body" /\ S[2] = "auth" /\ S[3] = "inProject"
                     /\ S[4] = "scope" /\ S[5] = "policy" /\ S[6] = "effect"
    BY DEF NodeDeployRoutes
  <2>2. KindOf("createDeployment") = "newDeployment" /\ Needs("createDeployment") = "deploy:run"
    BY DEF KindOf, Needs
  <2> QED BY <2>1, <2>2, BodyAuthInProjectScopePolicyEffect DEF R, NodeRoute, Guarded,
        Differences, Unscoped
<1> QED BY <1>1, <1>2, <1>3

LEMMA NodeDeploymentRoutesOK ==
    \A op \in DOMAIN NodeDeploymentRoutes : NodeRoute(op, NodeDeploymentRoutes[op])
<1>1. DOMAIN NodeDeploymentRoutes = {"getDeployment", "updateDeploymentStatus",
        "cancelDeployment"}
  BY DEF NodeDeploymentRoutes
<1>2. NodeRoute("getDeployment", NodeDeploymentRoutes["getDeployment"])
  <2>1. PICK S : /\ NodeDeploymentRoutes["getDeployment"] = R("project:read", "deployment",
                       "read", S)
               /\ Len(S) = 4 /\ S[1] = "auth" /\ S[2] = "find" /\ S[3] = "scope"
                     /\ S[4] = "effect"
    BY DEF NodeDeploymentRoutes
  <2>2. KindOf("getDeployment") = "deployment" /\ Needs("getDeployment") = "project:read"
    BY DEF KindOf, Needs
  <2> QED BY <2>1, <2>2, AuthFindScopeEffect DEF R, NodeRoute, Guarded, Differences, Unscoped
<1>3. NodeRoute("updateDeploymentStatus", NodeDeploymentRoutes["updateDeploymentStatus"])
  <2>1. PICK S : /\ NodeDeploymentRoutes["updateDeploymentStatus"] = R("deploy:run",
                       "deployment", "check", S)
               /\ Len(S) = 6 /\ S[1] = "auth" /\ S[2] = "find" /\ S[3] = "scope"
                     /\ S[4] = "system" /\ S[5] = "body" /\ S[6] = "effect"
    BY DEF NodeDeploymentRoutes
  <2>2. KindOf("updateDeploymentStatus") = "deployment"
          /\ Needs("updateDeploymentStatus") = "deploy:run"
    BY DEF KindOf, Needs
  <2> QED BY <2>1, <2>2, AuthFindScopeSystemBodyEffect DEF R, NodeRoute, Guarded, Differences,
        Unscoped
<1>4. NodeRoute("cancelDeployment", NodeDeploymentRoutes["cancelDeployment"])
  <2>1. PICK S : /\ NodeDeploymentRoutes["cancelDeployment"] = R("deploy:run", "deployment",
                       "check", S)
               /\ Len(S) = 5 /\ S[1] = "auth" /\ S[2] = "find" /\ S[3] = "scope"
                     /\ S[4] = "body" /\ S[5] = "effect"
    BY DEF NodeDeploymentRoutes
  <2>2. KindOf("cancelDeployment") = "deployment" /\ Needs("cancelDeployment") = "deploy:run"
    BY DEF KindOf, Needs
  <2> QED BY <2>1, <2>2, AuthFindScopeBodyEffect DEF R, NodeRoute, Guarded, Differences, Unscoped
<1> QED BY <1>1, <1>2, <1>3, <1>4

LEMMA NodeLogRoutesOK == \A op \in DOMAIN NodeLogRoutes : NodeRoute(op, NodeLogRoutes[op])
<1>1. DOMAIN NodeLogRoutes = {"deploymentLogs", "deploymentStream", "runtimeLogs",
        "runtimeStream"}
  BY DEF NodeLogRoutes
<1>2. NodeRoute("deploymentLogs", NodeLogRoutes["deploymentLogs"])
  <2>1. PICK S : /\ NodeLogRoutes["deploymentLogs"] = R("logs:read", "deployment", "read", S)
               /\ Len(S) = 2 /\ S[1] = "auth" /\ S[2] = "effect"
    BY DEF NodeLogRoutes
  <2>2. KindOf("deploymentLogs") = "deployment" /\ Needs("deploymentLogs") = "logs:read"
    BY DEF KindOf, Needs
  <2> QED BY <2>1, <2>2, AuthEffect DEF R, NodeRoute, Guarded, Differences, Unscoped
<1>3. NodeRoute("deploymentStream", NodeLogRoutes["deploymentStream"])
  <2>1. PICK S : /\ NodeLogRoutes["deploymentStream"] = R("logs:read", "deployment", "read", S)
               /\ Len(S) = 4 /\ S[1] = "auth" /\ S[2] = "find" /\ S[3] = "scope"
                     /\ S[4] = "effect"
    BY DEF NodeLogRoutes
  <2>2. KindOf("deploymentStream") = "deployment" /\ Needs("deploymentStream") = "logs:read"
    BY DEF KindOf, Needs
  <2> QED BY <2>1, <2>2, AuthFindScopeEffect DEF R, NodeRoute, Guarded, Differences, Unscoped
<1>4. NodeRoute("runtimeLogs", NodeLogRoutes["runtimeLogs"])
  <2>1. PICK S : /\ NodeLogRoutes["runtimeLogs"] = R("logs:read", "service", "read", S)
               /\ Len(S) = 2 /\ S[1] = "auth" /\ S[2] = "effect"
    BY DEF NodeLogRoutes
  <2>2. KindOf("runtimeLogs") = "service" /\ Needs("runtimeLogs") = "logs:read"
    BY DEF KindOf, Needs
  <2> QED BY <2>1, <2>2, AuthEffect DEF R, NodeRoute, Guarded, Differences, Unscoped
<1>5. NodeRoute("runtimeStream", NodeLogRoutes["runtimeStream"])
  <2>1. PICK S : /\ NodeLogRoutes["runtimeStream"] = R("logs:read", "service", "read", S)
               /\ Len(S) = 4 /\ S[1] = "auth" /\ S[2] = "find" /\ S[3] = "scope"
                     /\ S[4] = "effect"
    BY DEF NodeLogRoutes
  <2>2. KindOf("runtimeStream") = "service" /\ Needs("runtimeStream") = "logs:read"
    BY DEF KindOf, Needs
  <2> QED BY <2>1, <2>2, AuthFindScopeEffect DEF R, NodeRoute, Guarded, Differences, Unscoped
<1> QED BY <1>1, <1>2, <1>3, <1>4, <1>5

LEMMA NodeConsoleRoutesOK ==
    \A op \in DOMAIN NodeConsoleRoutes : NodeRoute(op, NodeConsoleRoutes[op])
<1>1. DOMAIN NodeConsoleRoutes = {"consoleTable", "consoleView", "consoleQuery", "consoleCommand"}
  BY DEF NodeConsoleRoutes
<1>2. NodeRoute("consoleTable", NodeConsoleRoutes["consoleTable"])
  <2>1. PICK S : /\ NodeConsoleRoutes["consoleTable"] = R("db:data:read", "resource", "read", S)
               /\ Len(S) = 4 /\ S[1] = "auth" /\ S[2] = "find" /\ S[3] = "scope"
                     /\ S[4] = "effect"
    BY DEF NodeConsoleRoutes
  <2>2. KindOf("consoleTable") = "resource" /\ Needs("consoleTable") = "db:data:read"
    BY DEF KindOf, Needs
  <2> QED BY <2>1, <2>2, AuthFindScopeEffect DEF R, NodeRoute, Guarded, Differences, Unscoped
<1>3. NodeRoute("consoleView", NodeConsoleRoutes["consoleView"])
  <2>1. PICK S : /\ NodeConsoleRoutes["consoleView"] = R("db:schema:read", "resource", "read", S)
               /\ Len(S) = 4 /\ S[1] = "auth" /\ S[2] = "find" /\ S[3] = "scope"
                     /\ S[4] = "effect"
    BY DEF NodeConsoleRoutes
  <2>2. KindOf("consoleView") = "resource" /\ Needs("consoleView") = "db:schema:read"
    BY DEF KindOf, Needs
  <2> QED BY <2>1, <2>2, AuthFindScopeEffect DEF R, NodeRoute, Guarded, Differences, Unscoped
<1>4. NodeRoute("consoleQuery", NodeConsoleRoutes["consoleQuery"])
  <2>1. PICK S : /\ NodeConsoleRoutes["consoleQuery"] = R("db:data:read", "resource", "read", S)
               /\ Len(S) = 5 /\ S[1] = "auth" /\ S[2] = "body" /\ S[3] = "find"
                     /\ S[4] = "scope" /\ S[5] = "effect"
    BY DEF NodeConsoleRoutes
  <2>2. KindOf("consoleQuery") = "resource" /\ Needs("consoleQuery") = "db:data:read"
    BY DEF KindOf, Needs
  <2> QED BY <2>1, <2>2, AuthBodyFindScopeEffect DEF R, NodeRoute, Guarded, Differences, Unscoped
<1>5. NodeRoute("consoleCommand", NodeConsoleRoutes["consoleCommand"])
  <2>1. PICK S : /\ NodeConsoleRoutes["consoleCommand"] = R("db:query:write", "resource",
                       "read", S)
               /\ Len(S) = 5 /\ S[1] = "auth" /\ S[2] = "body" /\ S[3] = "find"
                     /\ S[4] = "scope" /\ S[5] = "effect"
    BY DEF NodeConsoleRoutes
  <2>2. KindOf("consoleCommand") = "resource" /\ Needs("consoleCommand") = "db:query:write"
    BY DEF KindOf, Needs
  <2> QED BY <2>1, <2>2, AuthBodyFindScopeEffect DEF R, NodeRoute, Guarded, Differences, Unscoped
<1> QED BY <1>1, <1>2, <1>3, <1>4, <1>5

LEMMA NodeAdminRoutesOK == \A op \in DOMAIN NodeAdminRoutes : NodeRoute(op, NodeAdminRoutes[op])
<1>1. DOMAIN NodeAdminRoutes = {"approveUser", "setQuota", "usageMe"}
  BY DEF NodeAdminRoutes
<1>2. NodeRoute("approveUser", NodeAdminRoutes["approveUser"])
  <2>1. PICK S : /\ NodeAdminRoutes["approveUser"] = R("audit:read", "account", "account", S)
               /\ Len(S) = 4 /\ S[1] = "auth" /\ S[2] = "admin" /\ S[3] = "body"
                     /\ S[4] = "effect"
    BY DEF NodeAdminRoutes
  <2>2. KindOf("approveUser") = "account" /\ Needs("approveUser") = "audit:read"
    BY DEF KindOf, Needs
  <2> QED BY <2>1, <2>2, AuthAdminBodyEffect DEF R, NodeRoute, Guarded, Differences, Unscoped
<1>3. NodeRoute("setQuota", NodeAdminRoutes["setQuota"])
  <2>1. PICK S : /\ NodeAdminRoutes["setQuota"] = R("audit:read", "account", "account", S)
               /\ Len(S) = 4 /\ S[1] = "auth" /\ S[2] = "admin" /\ S[3] = "body"
                     /\ S[4] = "effect"
    BY DEF NodeAdminRoutes
  <2>2. KindOf("setQuota") = "account" /\ Needs("setQuota") = "audit:read"
    BY DEF KindOf, Needs
  <2> QED BY <2>1, <2>2, AuthAdminBodyEffect DEF R, NodeRoute, Guarded, Differences, Unscoped
<1>4. NodeRoute("usageMe", NodeAdminRoutes["usageMe"])
  <2>1. PICK S : /\ NodeAdminRoutes["usageMe"] = R("metrics:read", "none", "read", S)
               /\ Len(S) = 2 /\ S[1] = "auth" /\ S[2] = "effect"
    BY DEF NodeAdminRoutes
  <2>2. KindOf("usageMe") = "none" /\ Needs("usageMe") = "metrics:read"
    BY DEF KindOf, Needs
  <2> QED BY <2>1, <2>2, AuthEffect DEF R, NodeRoute, Guarded, Differences, Unscoped
<1> QED BY <1>1, <1>2, <1>3, <1>4

LEMMA NodeEnvironmentRoutesOK ==
    \A op \in DOMAIN NodeEnvironmentRoutes : NodeRoute(op, NodeEnvironmentRoutes[op])
<1>1. DOMAIN NodeEnvironmentRoutes = {"listEnvironment", "upsertEnvironment"}
  BY DEF NodeEnvironmentRoutes
<1>2. NodeRoute("listEnvironment", NodeEnvironmentRoutes["listEnvironment"])
  <2>1. PICK S : /\ NodeEnvironmentRoutes["listEnvironment"] = R("env:read", "service", "read", S)
               /\ Len(S) = 4 /\ S[1] = "auth" /\ S[2] = "inProject" /\ S[3] = "scope"
                     /\ S[4] = "effect"
    BY DEF NodeEnvironmentRoutes
  <2>2. KindOf("listEnvironment") = "service" /\ Needs("listEnvironment") = "env:read"
    BY DEF KindOf, Needs
  <2> QED BY <2>1, <2>2, AuthInProjectScopeEffect DEF R, NodeRoute, Guarded, Differences, Unscoped
<1>3. NodeRoute("upsertEnvironment", NodeEnvironmentRoutes["upsertEnvironment"])
  <2>1. PICK S : /\ NodeEnvironmentRoutes["upsertEnvironment"] = R("env:write-limited",
                       "service", "check", S)
               /\ Len(S) = 6 /\ S[1] = "auth" /\ S[2] = "inProject" /\ S[3] = "scope"
                     /\ S[4] = "body" /\ S[5] = "secretEntries" /\ S[6] = "effect"
    BY DEF NodeEnvironmentRoutes
  <2>2. KindOf("upsertEnvironment") = "service"
          /\ Needs("upsertEnvironment") = "env:write-limited"
    BY DEF KindOf, Needs
  <2> QED BY <2>1, <2>2, AuthInProjectScopeBodySecretEntriesEffect DEF R, NodeRoute, Guarded,
        Differences, Unscoped
<1> QED BY <1>1, <1>2, <1>3

LEMMA NodeGitHubRoutesOK ==
    \A op \in DOMAIN NodeGitHubRoutes : NodeRoute(op, NodeGitHubRoutes[op])
<1>1. DOMAIN NodeGitHubRoutes = {"connectGitHub", "listGitHub", "attachGitHub", "importGitHub"}
  BY DEF NodeGitHubRoutes
<1>2. NodeRoute("connectGitHub", NodeGitHubRoutes["connectGitHub"])
  <2>1. PICK S : /\ NodeGitHubRoutes["connectGitHub"] = R("team:invite", "org", "account", S)
               /\ Len(S) = 4 /\ S[1] = "auth" /\ S[2] = "body" /\ S[3] = "scopeOrg"
                     /\ S[4] = "effect"
    BY DEF NodeGitHubRoutes
  <2>2. KindOf("connectGitHub") = "org" /\ Needs("connectGitHub") = "team:invite"
    BY DEF KindOf, Needs
  <2> QED BY <2>1, <2>2, AuthBodyScopeOrgEffect DEF R, NodeRoute, Guarded, Differences, Unscoped
<1>3. NodeRoute("listGitHub", NodeGitHubRoutes["listGitHub"])
  <2>1. PICK S : /\ NodeGitHubRoutes["listGitHub"] = R("project:read", "org", "read", S)
               /\ Len(S) = 3 /\ S[1] = "auth" /\ S[2] = "scopeOrg" /\ S[3] = "effect"
    BY DEF NodeGitHubRoutes
  <2>2. KindOf("listGitHub") = "org" /\ Needs("listGitHub") = "project:read"
    BY DEF KindOf, Needs
  <2> QED BY <2>1, <2>2, AuthScopeOrgEffect DEF R, NodeRoute, Guarded, Differences, Unscoped
<1>4. NodeRoute("attachGitHub", NodeGitHubRoutes["attachGitHub"])
  <2>1. PICK S : /\ NodeGitHubRoutes["attachGitHub"] = R("deploy:run", "service", "check", S)
               /\ Len(S) = 5 /\ S[1] = "auth" /\ S[2] = "inProject" /\ S[3] = "scope"
                     /\ S[4] = "body" /\ S[5] = "effect"
    BY DEF NodeGitHubRoutes
  <2>2. KindOf("attachGitHub") = "service" /\ Needs("attachGitHub") = "deploy:run"
    BY DEF KindOf, Needs
  <2> QED BY <2>1, <2>2, AuthInProjectScopeBodyEffect DEF R, NodeRoute, Guarded, Differences,
        Unscoped
<1>5. NodeRoute("importGitHub", NodeGitHubRoutes["importGitHub"])
  <2>1. PICK S : /\ NodeGitHubRoutes["importGitHub"] = R("deploy:run", "newService", "create", S)
               /\ Len(S) = 4 /\ S[1] = "auth" /\ S[2] = "body" /\ S[3] = "scope"
                     /\ S[4] = "effect"
    BY DEF NodeGitHubRoutes
  <2>2. KindOf("importGitHub") = "newService" /\ Needs("importGitHub") = "deploy:run"
    BY DEF KindOf, Needs
  <2> QED BY <2>1, <2>2, AuthBodyScopeEffect DEF R, NodeRoute, Guarded, Differences, Unscoped
<1> QED BY <1>1, <1>2, <1>3, <1>4, <1>5

\* The same for the lists of the NestJS server: the guard, the path and body, then the controller.
LEMMA AuthParamsScopeOrgPolicyEffect ==
    ASSUME NEW S, S = <<"auth", "params">> \o <<"scopeOrg", "policy", "effect">>
    PROVE  Orderly(S) /\ Makes(S, "auth") /\ Makes(S, "scopeOrg") /\ NoFind(S)
<1>1. Len(S) = 5 /\ S[1] = "auth" /\ S[2] = "params" /\ S[3] = "scopeOrg" /\ S[4] = "policy"
        /\ S[5] = "effect"
  OBVIOUS
<1> QED BY ONLY <1>1 DEF Orderly, Makes, NoFind

LEMMA AuthParamsScopeEffect ==
    ASSUME NEW S, S = <<"auth", "params">> \o <<"scope", "effect">>
    PROVE  Orderly(S) /\ Makes(S, "auth") /\ Makes(S, "scope") /\ NoFind(S)
<1>1. Len(S) = 4 /\ S[1] = "auth" /\ S[2] = "params" /\ S[3] = "scope" /\ S[4] = "effect"
  OBVIOUS
<1> QED BY ONLY <1>1 DEF Orderly, Makes, NoFind

LEMMA AuthParamsScopePolicyEffect ==
    ASSUME NEW S, S = <<"auth", "params">> \o <<"scope", "policy", "effect">>
    PROVE  Orderly(S) /\ Makes(S, "auth") /\ Makes(S, "scope") /\ NoFind(S)
<1>1. Len(S) = 5 /\ S[1] = "auth" /\ S[2] = "params" /\ S[3] = "scope" /\ S[4] = "policy"
        /\ S[5] = "effect"
  OBVIOUS
<1> QED BY ONLY <1>1 DEF Orderly, Makes, NoFind

LEMMA AuthParamsFindScopeEffect ==
    ASSUME NEW S, S = <<"auth", "params">> \o <<"find", "scope", "effect">>
    PROVE  Orderly(S) /\ Makes(S, "auth") /\ Makes(S, "scope")
<1>1. Len(S) = 5 /\ S[1] = "auth" /\ S[2] = "params" /\ S[3] = "find" /\ S[4] = "scope"
        /\ S[5] = "effect"
  OBVIOUS
<1> QED BY ONLY <1>1 DEF Orderly, Makes

LEMMA AuthParamsScopeInProjectPolicyEffect ==
    ASSUME NEW S, S = <<"auth", "params">> \o <<"scope", "inProject", "policy", "effect">>
    PROVE  Orderly(S) /\ Makes(S, "auth") /\ Makes(S, "scope") /\ NoFind(S)
<1>1. Len(S) = 6 /\ S[1] = "auth" /\ S[2] = "params" /\ S[3] = "scope" /\ S[4] = "inProject"
        /\ S[5] = "policy" /\ S[6] = "effect"
  OBVIOUS
<1> QED BY ONLY <1>1 DEF Orderly, Makes, NoFind

LEMMA AuthParamsFindScopeInProjectPolicyEffect ==
    ASSUME NEW S, S = <<"auth", "params">> \o <<"find", "scope", "inProject", "policy", "effect">>
    PROVE  Orderly(S) /\ Makes(S, "auth") /\ Makes(S, "scope")
<1>1. Len(S) = 7 /\ S[1] = "auth" /\ S[2] = "params" /\ S[3] = "find" /\ S[4] = "scope"
        /\ S[5] = "inProject" /\ S[6] = "policy" /\ S[7] = "effect"
  OBVIOUS
<1> QED BY ONLY <1>1 DEF Orderly, Makes

LEMMA AuthParamsFindScopeSystemEffect ==
    ASSUME NEW S, S = <<"auth", "params">> \o <<"find", "scope", "system", "effect">>
    PROVE  Orderly(S) /\ Makes(S, "auth") /\ Makes(S, "scope")
<1>1. Len(S) = 6 /\ S[1] = "auth" /\ S[2] = "params" /\ S[3] = "find" /\ S[4] = "scope"
        /\ S[5] = "system" /\ S[6] = "effect"
  OBVIOUS
<1> QED BY ONLY <1>1 DEF Orderly, Makes

LEMMA AuthParamsScopeInProjectEffect ==
    ASSUME NEW S, S = <<"auth", "params">> \o <<"scope", "inProject", "effect">>
    PROVE  Orderly(S) /\ Makes(S, "auth") /\ Makes(S, "scope") /\ NoFind(S)
<1>1. Len(S) = 5 /\ S[1] = "auth" /\ S[2] = "params" /\ S[3] = "scope" /\ S[4] = "inProject"
        /\ S[5] = "effect"
  OBVIOUS
<1> QED BY ONLY <1>1 DEF Orderly, Makes, NoFind

LEMMA AuthParamsScopeInProjectSecretEntriesEffect ==
    ASSUME NEW S, S = <<"auth", "params">> \o <<"scope", "inProject", "secretEntries", "effect">>
    PROVE  Orderly(S) /\ Makes(S, "auth") /\ Makes(S, "scope") /\ NoFind(S)
<1>1. Len(S) = 6 /\ S[1] = "auth" /\ S[2] = "params" /\ S[3] = "scope" /\ S[4] = "inProject"
        /\ S[5] = "secretEntries" /\ S[6] = "effect"
  OBVIOUS
<1> QED BY ONLY <1>1 DEF Orderly, Makes, NoFind

LEMMA AuthParamsEffect ==
    ASSUME NEW S, S = <<"auth", "params">> \o <<"effect">>
    PROVE  Orderly(S) /\ Makes(S, "auth") /\ NoFind(S)
<1>1. Len(S) = 3 /\ S[1] = "auth" /\ S[2] = "params" /\ S[3] = "effect"
  OBVIOUS
<1> QED BY ONLY <1>1 DEF Orderly, Makes, NoFind

LEMMA AuthParamsAdminEffect ==
    ASSUME NEW S, S = <<"auth", "params">> \o <<"admin", "effect">>
    PROVE  Orderly(S) /\ Makes(S, "auth") /\ NoFind(S)
<1>1. Len(S) = 4 /\ S[1] = "auth" /\ S[2] = "params" /\ S[3] = "admin" /\ S[4] = "effect"
  OBVIOUS
<1> QED BY ONLY <1>1 DEF Orderly, Makes, NoFind

LEMMA AuthParamsScopeOrgEffect ==
    ASSUME NEW S, S = <<"auth", "params">> \o <<"scopeOrg", "effect">>
    PROVE  Orderly(S) /\ Makes(S, "auth") /\ Makes(S, "scopeOrg") /\ NoFind(S)
<1>1. Len(S) = 4 /\ S[1] = "auth" /\ S[2] = "params" /\ S[3] = "scopeOrg" /\ S[4] = "effect"
  OBVIOUS
<1> QED BY ONLY <1>1 DEF Orderly, Makes, NoFind

\* The steps of every NestJS operation make its checks, table by table.
LEMMA ProjectStepsOK ==
    \A op \in DOMAIN ProjectSteps : NestGuarded(op, <<"auth", "params">> \o ProjectSteps[op])
<1>1. DOMAIN ProjectSteps = {"createProject", "getProject", "updateProject", "deleteProject"}
  BY DEF ProjectSteps
<1>2. NestGuarded("createProject", <<"auth", "params">> \o ProjectSteps["createProject"])
  <2>1. ProjectSteps["createProject"] = <<"scopeOrg", "policy", "effect">>
    BY DEF ProjectSteps
  <2>2. KindOf("createProject") = "org"
    BY DEF KindOf
  <2> QED BY <2>1, <2>2, AuthParamsScopeOrgPolicyEffect DEF Guarded, NestGuarded, Unscoped
<1>3. NestGuarded("getProject", <<"auth", "params">> \o ProjectSteps["getProject"])
  <2>1. ProjectSteps["getProject"] = <<"scope", "effect">>
    BY DEF ProjectSteps
  <2>2. KindOf("getProject") = "project"
    BY DEF KindOf
  <2> QED BY <2>1, <2>2, AuthParamsScopeEffect DEF Guarded, NestGuarded, Unscoped
<1>4. NestGuarded("updateProject", <<"auth", "params">> \o ProjectSteps["updateProject"])
  <2>1. ProjectSteps["updateProject"] = <<"scope", "effect">>
    BY DEF ProjectSteps
  <2>2. KindOf("updateProject") = "project"
    BY DEF KindOf
  <2> QED BY <2>1, <2>2, AuthParamsScopeEffect DEF Guarded, NestGuarded, Unscoped
<1>5. NestGuarded("deleteProject", <<"auth", "params">> \o ProjectSteps["deleteProject"])
  <2>1. ProjectSteps["deleteProject"] = <<"scope", "effect">>
    BY DEF ProjectSteps
  <2>2. KindOf("deleteProject") = "project"
    BY DEF KindOf
  <2> QED BY <2>1, <2>2, AuthParamsScopeEffect DEF Guarded, NestGuarded, Unscoped
<1> QED BY <1>1, <1>2, <1>3, <1>4, <1>5

LEMMA ServiceStepsOK ==
    \A op \in DOMAIN ServiceSteps : NestGuarded(op, <<"auth", "params">> \o ServiceSteps[op])
<1>1. DOMAIN ServiceSteps = {"listServices", "createService", "getService", "updateService",
        "deleteService"}
  BY DEF ServiceSteps
<1>2. NestGuarded("listServices", <<"auth", "params">> \o ServiceSteps["listServices"])
  <2>1. ServiceSteps["listServices"] = <<"scope", "effect">>
    BY DEF ServiceSteps
  <2>2. KindOf("listServices") = "project"
    BY DEF KindOf
  <2> QED BY <2>1, <2>2, AuthParamsScopeEffect DEF Guarded, NestGuarded, Unscoped
<1>3. NestGuarded("createService", <<"auth", "params">> \o ServiceSteps["createService"])
  <2>1. ServiceSteps["createService"] = <<"scope", "policy", "effect">>
    BY DEF ServiceSteps
  <2>2. KindOf("createService") = "newService"
    BY DEF KindOf
  <2> QED BY <2>1, <2>2, AuthParamsScopePolicyEffect DEF Guarded, NestGuarded, Unscoped
<1>4. NestGuarded("getService", <<"auth", "params">> \o ServiceSteps["getService"])
  <2>1. ServiceSteps["getService"] = <<"find", "scope", "effect">>
    BY DEF ServiceSteps
  <2>2. KindOf("getService") = "service"
    BY DEF KindOf
  <2> QED BY <2>1, <2>2, AuthParamsFindScopeEffect DEF Guarded, NestGuarded, Unscoped
<1>5. NestGuarded("updateService", <<"auth", "params">> \o ServiceSteps["updateService"])
  <2>1. ServiceSteps["updateService"] = <<"find", "scope", "effect">>
    BY DEF ServiceSteps
  <2>2. KindOf("updateService") = "service"
    BY DEF KindOf
  <2> QED BY <2>1, <2>2, AuthParamsFindScopeEffect DEF Guarded, NestGuarded, Unscoped
<1>6. NestGuarded("deleteService", <<"auth", "params">> \o ServiceSteps["deleteService"])
  <2>1. ServiceSteps["deleteService"] = <<"find", "scope", "effect">>
    BY DEF ServiceSteps
  <2>2. KindOf("deleteService") = "service"
    BY DEF KindOf
  <2> QED BY <2>1, <2>2, AuthParamsFindScopeEffect DEF Guarded, NestGuarded, Unscoped
<1> QED BY <1>1, <1>2, <1>3, <1>4, <1>5, <1>6

LEMMA ResourceStepsOK ==
    \A op \in DOMAIN ResourceSteps : NestGuarded(op, <<"auth", "params">> \o ResourceSteps[op])
<1>1. DOMAIN ResourceSteps = {"listResources", "createResource", "getResource",
        "updateResource", "deleteResource", "provisionResource", "attachResource"}
  BY DEF ResourceSteps
<1>2. NestGuarded("listResources", <<"auth", "params">> \o ResourceSteps["listResources"])
  <2>1. ResourceSteps["listResources"] = <<"scope", "effect">>
    BY DEF ResourceSteps
  <2>2. KindOf("listResources") = "project"
    BY DEF KindOf
  <2> QED BY <2>1, <2>2, AuthParamsScopeEffect DEF Guarded, NestGuarded, Unscoped
<1>3. NestGuarded("createResource", <<"auth", "params">> \o ResourceSteps["createResource"])
  <2>1. ResourceSteps["createResource"] = <<"scope", "policy", "effect">>
    BY DEF ResourceSteps
  <2>2. KindOf("createResource") = "newResource"
    BY DEF KindOf
  <2> QED BY <2>1, <2>2, AuthParamsScopePolicyEffect DEF Guarded, NestGuarded, Unscoped
<1>4. NestGuarded("getResource", <<"auth", "params">> \o ResourceSteps["getResource"])
  <2>1. ResourceSteps["getResource"] = <<"find", "scope", "effect">>
    BY DEF ResourceSteps
  <2>2. KindOf("getResource") = "resource"
    BY DEF KindOf
  <2> QED BY <2>1, <2>2, AuthParamsFindScopeEffect DEF Guarded, NestGuarded, Unscoped
<1>5. NestGuarded("updateResource", <<"auth", "params">> \o ResourceSteps["updateResource"])
  <2>1. ResourceSteps["updateResource"] = <<"find", "scope", "effect">>
    BY DEF ResourceSteps
  <2>2. KindOf("updateResource") = "resource"
    BY DEF KindOf
  <2> QED BY <2>1, <2>2, AuthParamsFindScopeEffect DEF Guarded, NestGuarded, Unscoped
<1>6. NestGuarded("deleteResource", <<"auth", "params">> \o ResourceSteps["deleteResource"])
  <2>1. ResourceSteps["deleteResource"] = <<"find", "scope", "effect">>
    BY DEF ResourceSteps
  <2>2. KindOf("deleteResource") = "resource"
    BY DEF KindOf
  <2> QED BY <2>1, <2>2, AuthParamsFindScopeEffect DEF Guarded, NestGuarded, Unscoped
<1>7. NestGuarded("provisionResource", <<"auth", "params">> \o ResourceSteps["provisionResource"])
  <2>1. ResourceSteps["provisionResource"] = <<"find", "scope", "effect">>
    BY DEF ResourceSteps
  <2>2. KindOf("provisionResource") = "resource"
    BY DEF KindOf
  <2> QED BY <2>1, <2>2, AuthParamsFindScopeEffect DEF Guarded, NestGuarded, Unscoped
<1>8. NestGuarded("attachResource", <<"auth", "params">> \o ResourceSteps["attachResource"])
  <2>1. ResourceSteps["attachResource"] = <<"find", "scope", "effect">>
    BY DEF ResourceSteps
  <2>2. KindOf("attachResource") = "resource"
    BY DEF KindOf
  <2> QED BY <2>1, <2>2, AuthParamsFindScopeEffect DEF Guarded, NestGuarded, Unscoped
<1> QED BY <1>1, <1>2, <1>3, <1>4, <1>5, <1>6, <1>7, <1>8

LEMMA DeploymentStepsOK ==
    \A op \in DOMAIN DeploymentSteps : NestGuarded(op, <<"auth",
    "params">> \o DeploymentSteps[op])
<1>1. DOMAIN DeploymentSteps = {"createDeployment", "createDeploymentForService",
        "getDeployment", "updateDeploymentStatus", "cancelDeployment"}
  BY DEF DeploymentSteps
<1>2. NestGuarded("createDeployment", <<"auth", "params">> \o DeploymentSteps["createDeployment"])
  <2>1. DeploymentSteps["createDeployment"] = <<"scope", "inProject", "policy", "effect">>
    BY DEF DeploymentSteps
  <2>2. KindOf("createDeployment") = "newDeployment"
    BY DEF KindOf
  <2> QED BY <2>1, <2>2, AuthParamsScopeInProjectPolicyEffect DEF Guarded, NestGuarded, Unscoped
<1>3. NestGuarded("createDeploymentForService", <<"auth",
        "params">> \o DeploymentSteps["createDeploymentForService"])
  <2>1. DeploymentSteps["createDeploymentForService"] = <<"find", "scope", "inProject",
          "policy", "effect">>
    BY DEF DeploymentSteps
  <2>2. KindOf("createDeploymentForService") = "newDeployment"
    BY DEF KindOf
  <2> QED BY <2>1, <2>2, AuthParamsFindScopeInProjectPolicyEffect DEF Guarded, NestGuarded,
        Unscoped
<1>4. NestGuarded("getDeployment", <<"auth", "params">> \o DeploymentSteps["getDeployment"])
  <2>1. DeploymentSteps["getDeployment"] = <<"find", "scope", "effect">>
    BY DEF DeploymentSteps
  <2>2. KindOf("getDeployment") = "deployment"
    BY DEF KindOf
  <2> QED BY <2>1, <2>2, AuthParamsFindScopeEffect DEF Guarded, NestGuarded, Unscoped
<1>5. NestGuarded("updateDeploymentStatus", <<"auth",
        "params">> \o DeploymentSteps["updateDeploymentStatus"])
  <2>1. DeploymentSteps["updateDeploymentStatus"] = <<"find", "scope", "system", "effect">>
    BY DEF DeploymentSteps
  <2>2. KindOf("updateDeploymentStatus") = "deployment"
    BY DEF KindOf
  <2> QED BY <2>1, <2>2, AuthParamsFindScopeSystemEffect DEF Guarded, NestGuarded, Unscoped
<1>6. NestGuarded("cancelDeployment", <<"auth", "params">> \o DeploymentSteps["cancelDeployment"])
  <2>1. DeploymentSteps["cancelDeployment"] = <<"find", "scope", "effect">>
    BY DEF DeploymentSteps
  <2>2. KindOf("cancelDeployment") = "deployment"
    BY DEF KindOf
  <2> QED BY <2>1, <2>2, AuthParamsFindScopeEffect DEF Guarded, NestGuarded, Unscoped
<1> QED BY <1>1, <1>2, <1>3, <1>4, <1>5, <1>6

LEMMA LogStepsOK ==
    \A op \in DOMAIN LogSteps : NestGuarded(op, <<"auth", "params">> \o LogSteps[op])
<1>1. DOMAIN LogSteps = {"deploymentLogs", "deploymentStream", "runtimeLogs", "runtimeStream"}
  BY DEF LogSteps, NodeLogRoutes
<1>2. NestGuarded("deploymentLogs", <<"auth", "params">> \o LogSteps["deploymentLogs"])
  <2>1. LogSteps["deploymentLogs"] = <<"find", "scope", "effect">>
    BY DEF LogSteps, NodeLogRoutes
  <2>2. KindOf("deploymentLogs") = "deployment"
    BY DEF KindOf
  <2> QED BY <2>1, <2>2, AuthParamsFindScopeEffect DEF Guarded, NestGuarded, Unscoped
<1>3. NestGuarded("deploymentStream", <<"auth", "params">> \o LogSteps["deploymentStream"])
  <2>1. LogSteps["deploymentStream"] = <<"find", "scope", "effect">>
    BY DEF LogSteps, NodeLogRoutes
  <2>2. KindOf("deploymentStream") = "deployment"
    BY DEF KindOf
  <2> QED BY <2>1, <2>2, AuthParamsFindScopeEffect DEF Guarded, NestGuarded, Unscoped
<1>4. NestGuarded("runtimeLogs", <<"auth", "params">> \o LogSteps["runtimeLogs"])
  <2>1. LogSteps["runtimeLogs"] = <<"find", "scope", "effect">>
    BY DEF LogSteps, NodeLogRoutes
  <2>2. KindOf("runtimeLogs") = "service"
    BY DEF KindOf
  <2> QED BY <2>1, <2>2, AuthParamsFindScopeEffect DEF Guarded, NestGuarded, Unscoped
<1>5. NestGuarded("runtimeStream", <<"auth", "params">> \o LogSteps["runtimeStream"])
  <2>1. LogSteps["runtimeStream"] = <<"find", "scope", "effect">>
    BY DEF LogSteps, NodeLogRoutes
  <2>2. KindOf("runtimeStream") = "service"
    BY DEF KindOf
  <2> QED BY <2>1, <2>2, AuthParamsFindScopeEffect DEF Guarded, NestGuarded, Unscoped
<1> QED BY <1>1, <1>2, <1>3, <1>4, <1>5

LEMMA ConsoleStepsOK ==
    \A op \in DOMAIN ConsoleSteps : NestGuarded(op, <<"auth", "params">> \o ConsoleSteps[op])
<1>1. DOMAIN ConsoleSteps = {"consoleTable", "consoleView", "consoleQuery", "consoleCommand"}
  BY DEF ConsoleSteps, NodeConsoleRoutes
<1>2. NestGuarded("consoleTable", <<"auth", "params">> \o ConsoleSteps["consoleTable"])
  <2>1. ConsoleSteps["consoleTable"] = <<"find", "scope", "effect">>
    BY DEF ConsoleSteps, NodeConsoleRoutes
  <2>2. KindOf("consoleTable") = "resource"
    BY DEF KindOf
  <2> QED BY <2>1, <2>2, AuthParamsFindScopeEffect DEF Guarded, NestGuarded, Unscoped
<1>3. NestGuarded("consoleView", <<"auth", "params">> \o ConsoleSteps["consoleView"])
  <2>1. ConsoleSteps["consoleView"] = <<"find", "scope", "effect">>
    BY DEF ConsoleSteps, NodeConsoleRoutes
  <2>2. KindOf("consoleView") = "resource"
    BY DEF KindOf
  <2> QED BY <2>1, <2>2, AuthParamsFindScopeEffect DEF Guarded, NestGuarded, Unscoped
<1>4. NestGuarded("consoleQuery", <<"auth", "params">> \o ConsoleSteps["consoleQuery"])
  <2>1. ConsoleSteps["consoleQuery"] = <<"find", "scope", "effect">>
    BY DEF ConsoleSteps, NodeConsoleRoutes
  <2>2. KindOf("consoleQuery") = "resource"
    BY DEF KindOf
  <2> QED BY <2>1, <2>2, AuthParamsFindScopeEffect DEF Guarded, NestGuarded, Unscoped
<1>5. NestGuarded("consoleCommand", <<"auth", "params">> \o ConsoleSteps["consoleCommand"])
  <2>1. ConsoleSteps["consoleCommand"] = <<"find", "scope", "effect">>
    BY DEF ConsoleSteps, NodeConsoleRoutes
  <2>2. KindOf("consoleCommand") = "resource"
    BY DEF KindOf
  <2> QED BY <2>1, <2>2, AuthParamsFindScopeEffect DEF Guarded, NestGuarded, Unscoped
<1> QED BY <1>1, <1>2, <1>3, <1>4, <1>5

LEMMA EnvironmentStepsOK ==
    \A op \in DOMAIN EnvironmentSteps : NestGuarded(op, <<"auth",
    "params">> \o EnvironmentSteps[op])
<1>1. DOMAIN EnvironmentSteps = {"listEnvironment", "upsertEnvironment"}
  BY DEF EnvironmentSteps
<1>2. NestGuarded("listEnvironment", <<"auth", "params">> \o EnvironmentSteps["listEnvironment"])
  <2>1. EnvironmentSteps["listEnvironment"] = <<"scope", "inProject", "effect">>
    BY DEF EnvironmentSteps
  <2>2. KindOf("listEnvironment") = "service"
    BY DEF KindOf
  <2> QED BY <2>1, <2>2, AuthParamsScopeInProjectEffect DEF Guarded, NestGuarded, Unscoped
<1>3. NestGuarded("upsertEnvironment", <<"auth",
        "params">> \o EnvironmentSteps["upsertEnvironment"])
  <2>1. EnvironmentSteps["upsertEnvironment"] = <<"scope", "inProject", "secretEntries",
          "effect">>
    BY DEF EnvironmentSteps
  <2>2. KindOf("upsertEnvironment") = "service"
    BY DEF KindOf
  <2> QED BY <2>1, <2>2, AuthParamsScopeInProjectSecretEntriesEffect DEF Guarded, NestGuarded,
        Unscoped
<1> QED BY <1>1, <1>2, <1>3

LEMMA AccountStepsOK ==
    \A op \in DOMAIN AccountSteps : NestGuarded(op, <<"auth", "params">> \o AccountSteps[op])
<1>1. DOMAIN AccountSteps = {"me", "logout", "usageMe", "approveUser", "setQuota"}
  BY DEF AccountSteps
<1>2. NestGuarded("me", <<"auth", "params">> \o AccountSteps["me"])
  <2>1. AccountSteps["me"] = <<"effect">>
    BY DEF AccountSteps
  <2>2. KindOf("me") = "none"
    BY DEF KindOf
  <2> QED BY <2>1, <2>2, AuthParamsEffect DEF Guarded, NestGuarded, Unscoped
<1>3. NestGuarded("logout", <<"auth", "params">> \o AccountSteps["logout"])
  <2>1. AccountSteps["logout"] = <<"effect">>
    BY DEF AccountSteps
  <2>2. KindOf("logout") = "none"
    BY DEF KindOf
  <2> QED BY <2>1, <2>2, AuthParamsEffect DEF Guarded, NestGuarded, Unscoped
<1>4. NestGuarded("usageMe", <<"auth", "params">> \o AccountSteps["usageMe"])
  <2>1. AccountSteps["usageMe"] = <<"effect">>
    BY DEF AccountSteps
  <2>2. KindOf("usageMe") = "none"
    BY DEF KindOf
  <2> QED BY <2>1, <2>2, AuthParamsEffect DEF Guarded, NestGuarded, Unscoped
<1>5. NestGuarded("approveUser", <<"auth", "params">> \o AccountSteps["approveUser"])
  <2>1. AccountSteps["approveUser"] = <<"admin", "effect">>
    BY DEF AccountSteps
  <2>2. KindOf("approveUser") = "account"
    BY DEF KindOf
  <2> QED BY <2>1, <2>2, AuthParamsAdminEffect DEF Guarded, NestGuarded, Unscoped
<1>6. NestGuarded("setQuota", <<"auth", "params">> \o AccountSteps["setQuota"])
  <2>1. AccountSteps["setQuota"] = <<"admin", "effect">>
    BY DEF AccountSteps
  <2>2. KindOf("setQuota") = "account"
    BY DEF KindOf
  <2> QED BY <2>1, <2>2, AuthParamsAdminEffect DEF Guarded, NestGuarded, Unscoped
<1> QED BY <1>1, <1>2, <1>3, <1>4, <1>5, <1>6

LEMMA GitHubStepsOK ==
    \A op \in DOMAIN GitHubSteps : NestGuarded(op, <<"auth", "params">> \o GitHubSteps[op])
<1>1. DOMAIN GitHubSteps = {"connectGitHub", "listGitHub", "attachGitHub", "importGitHub"}
  BY DEF GitHubSteps
<1>2. NestGuarded("connectGitHub", <<"auth", "params">> \o GitHubSteps["connectGitHub"])
  <2>1. GitHubSteps["connectGitHub"] = <<"scopeOrg", "effect">>
    BY DEF GitHubSteps
  <2>2. KindOf("connectGitHub") = "org"
    BY DEF KindOf
  <2> QED BY <2>1, <2>2, AuthParamsScopeOrgEffect DEF Guarded, NestGuarded, Unscoped
<1>3. NestGuarded("listGitHub", <<"auth", "params">> \o GitHubSteps["listGitHub"])
  <2>1. GitHubSteps["listGitHub"] = <<"scopeOrg", "effect">>
    BY DEF GitHubSteps
  <2>2. KindOf("listGitHub") = "org"
    BY DEF KindOf
  <2> QED BY <2>1, <2>2, AuthParamsScopeOrgEffect DEF Guarded, NestGuarded, Unscoped
<1>4. NestGuarded("attachGitHub", <<"auth", "params">> \o GitHubSteps["attachGitHub"])
  <2>1. GitHubSteps["attachGitHub"] = <<"scope", "inProject", "effect">>
    BY DEF GitHubSteps
  <2>2. KindOf("attachGitHub") = "service"
    BY DEF KindOf
  <2> QED BY <2>1, <2>2, AuthParamsScopeInProjectEffect DEF Guarded, NestGuarded, Unscoped
<1>5. NestGuarded("importGitHub", <<"auth", "params">> \o GitHubSteps["importGitHub"])
  <2>1. GitHubSteps["importGitHub"] = <<"scope", "effect">>
    BY DEF GitHubSteps
  <2>2. KindOf("importGitHub") = "newService"
    BY DEF KindOf
  <2> QED BY <2>1, <2>2, AuthParamsScopeEffect DEF Guarded, NestGuarded, Unscoped
<1> QED BY <1>1, <1>2, <1>3, <1>4, <1>5

\* Every operation of the NestJS server requires its action, controller by controller.
LEMMA AuthControllerOK ==
    \A op \in DOMAIN AuthController : op \notin {"me", "logout"} \cup Differences =>
            AuthController[op] = Needs(op)
<1>1. DOMAIN AuthController = {"me", "logout"}
  BY DEF AuthController
<1> QED BY <1>1 DEF AuthController, Needs, Differences

LEMMA ProjectsControllerOK ==
    \A op \in DOMAIN ProjectsController : op \notin {"me", "logout"} \cup Differences =>
            ProjectsController[op] = Needs(op)
<1>1. DOMAIN ProjectsController = {"createProject", "getProject", "updateProject",
        "deleteProject"}
  BY DEF ProjectsController
<1> QED BY <1>1 DEF ProjectsController, Needs, Differences

LEMMA ServicesControllerOK ==
    \A op \in DOMAIN ServicesController : op \notin {"me", "logout"} \cup Differences =>
            ServicesController[op] = Needs(op)
<1>1. DOMAIN ServicesController = {"listServices", "createService", "getService",
        "updateService", "deleteService"}
  BY DEF ServicesController
<1> QED BY <1>1 DEF ServicesController, Needs, Differences

LEMMA ResourcesControllerOK ==
    \A op \in DOMAIN ResourcesController : op \notin {"me", "logout"} \cup Differences =>
            ResourcesController[op] = Needs(op)
<1>1. DOMAIN ResourcesController = {"listResources", "createResource", "getResource",
        "updateResource", "deleteResource", "provisionResource", "attachResource"}
  BY DEF ResourcesController
<1> QED BY <1>1 DEF ResourcesController, Needs, Differences

LEMMA ResourceConsoleControllerOK ==
    \A op \in DOMAIN ResourceConsoleController : op \notin {"me", "logout"} \cup Differences =>
            ResourceConsoleController[op] = Needs(op)
<1>1. DOMAIN ResourceConsoleController = {"consoleTable", "consoleView", "consoleQuery",
        "consoleCommand"}
  BY DEF ResourceConsoleController
<1> QED BY <1>1 DEF ResourceConsoleController, Needs, Differences

LEMMA DeploymentsControllerOK ==
    \A op \in DOMAIN DeploymentsController : op \notin {"me", "logout"} \cup Differences =>
            DeploymentsController[op] = Needs(op)
<1>1. DOMAIN DeploymentsController = {"createDeploymentForService", "createDeployment",
        "getDeployment", "updateDeploymentStatus", "cancelDeployment", "deploymentLogs",
        "deploymentStream", "runtimeLogs", "runtimeStream"}
  BY DEF DeploymentsController
<1> QED BY <1>1 DEF DeploymentsController, Needs, Differences

LEMMA EnvironmentControllerOK ==
    \A op \in DOMAIN EnvironmentController : op \notin {"me", "logout"} \cup Differences =>
            EnvironmentController[op] = Needs(op)
<1>1. DOMAIN EnvironmentController = {"listEnvironment", "upsertEnvironment"}
  BY DEF EnvironmentController
<1> QED BY <1>1 DEF EnvironmentController, Needs, Differences

LEMMA GitHubIntegrationControllerOK ==
    \A op \in DOMAIN GitHubIntegrationController : op \notin {"me",
        "logout"} \cup Differences => GitHubIntegrationController[op] = Needs(op)
<1>1. DOMAIN GitHubIntegrationController = {"connectGitHub", "listGitHub", "attachGitHub",
        "importGitHub"}
  BY DEF GitHubIntegrationController
<1> QED BY <1>1 DEF GitHubIntegrationController, Needs, Differences

LEMMA AdminControllerOK ==
    \A op \in DOMAIN AdminController : op \notin {"me", "logout"} \cup Differences =>
            AdminController[op] = Needs(op)
<1>1. DOMAIN AdminController = {"approveUser", "setQuota"}
  BY DEF AdminController
<1> QED BY <1>1 DEF AdminController, Needs, Differences

LEMMA UsageControllerOK ==
    \A op \in DOMAIN UsageController : op \notin {"me", "logout"} \cup Differences =>
            UsageController[op] = Needs(op)
<1>1. DOMAIN UsageController = {"usageMe"}
  BY DEF UsageController
<1> QED BY <1>1 DEF UsageController, Needs, Differences

\* All routes of the node server.
LEMMA NodeTable == \A op \in DOMAIN NodeRoutes : NodeRoute(op, NodeRoutes[op])
<1> TAKE op \in DOMAIN NodeRoutes
<1>1. PICK t : /\ t \in {NodeAuthRoutes, NodePlanRoutes, NodeOrganizationRoutes,
                     NodeProjectRoutes,
                   NodeServiceRoutes, NodeResourceRoutes, NodeDeployRoutes, NodeDeploymentRoutes,
                   NodeLogRoutes, NodeConsoleRoutes, NodeAdminRoutes, NodeEnvironmentRoutes,
                   NodeGitHubRoutes}
             /\ op \in DOMAIN t /\ NodeRoutes[op] = t[op]
  BY JoinedValue DEF NodeRoutes
<1>2. CASE t = NodeAuthRoutes
  BY <1>1, <1>2, NodeAuthRoutesOK
<1>3. CASE t = NodePlanRoutes
  BY <1>1, <1>3, NodePlanRoutesOK
<1>4. CASE t = NodeOrganizationRoutes
  BY <1>1, <1>4, NodeOrganizationRoutesOK
<1>5. CASE t = NodeProjectRoutes
  BY <1>1, <1>5, NodeProjectRoutesOK
<1>6. CASE t = NodeServiceRoutes
  BY <1>1, <1>6, NodeServiceRoutesOK
<1>7. CASE t = NodeResourceRoutes
  BY <1>1, <1>7, NodeResourceRoutesOK
<1>8. CASE t = NodeDeployRoutes
  BY <1>1, <1>8, NodeDeployRoutesOK
<1>9. CASE t = NodeDeploymentRoutes
  BY <1>1, <1>9, NodeDeploymentRoutesOK
<1>10. CASE t = NodeLogRoutes
  BY <1>1, <1>10, NodeLogRoutesOK
<1>11. CASE t = NodeConsoleRoutes
  BY <1>1, <1>11, NodeConsoleRoutesOK
<1>12. CASE t = NodeAdminRoutes
  BY <1>1, <1>12, NodeAdminRoutesOK
<1>13. CASE t = NodeEnvironmentRoutes
  BY <1>1, <1>13, NodeEnvironmentRoutesOK
<1>14. CASE t = NodeGitHubRoutes
  BY <1>1, <1>14, NodeGitHubRoutesOK
<1> QED BY <1>1, <1>2, <1>3, <1>4, <1>5, <1>6, <1>7, <1>8, <1>9, <1>10, <1>11, <1>12, <1>13, <1>14

\* All actions the NestJS server requires.
LEMMA PermissionTable ==
    \A op \in DOMAIN RequirePermission :
        op \notin {"me", "logout"} \cup Differences => RequirePermission[op] = Needs(op)
<1> TAKE op \in DOMAIN RequirePermission
<1>1. PICK t : /\ t \in {AuthController, ProjectsController, ServicesController,
                     ResourcesController,
                   ResourceConsoleController, DeploymentsController, EnvironmentController,
                   GitHubIntegrationController, AdminController, UsageController}
             /\ op \in DOMAIN t /\ RequirePermission[op] = t[op]
  BY JoinedValue DEF RequirePermission
<1>2. CASE t = AuthController
  BY <1>1, <1>2, AuthControllerOK
<1>3. CASE t = ProjectsController
  BY <1>1, <1>3, ProjectsControllerOK
<1>4. CASE t = ServicesController
  BY <1>1, <1>4, ServicesControllerOK
<1>5. CASE t = ResourcesController
  BY <1>1, <1>5, ResourcesControllerOK
<1>6. CASE t = ResourceConsoleController
  BY <1>1, <1>6, ResourceConsoleControllerOK
<1>7. CASE t = DeploymentsController
  BY <1>1, <1>7, DeploymentsControllerOK
<1>8. CASE t = EnvironmentController
  BY <1>1, <1>8, EnvironmentControllerOK
<1>9. CASE t = GitHubIntegrationController
  BY <1>1, <1>9, GitHubIntegrationControllerOK
<1>10. CASE t = AdminController
  BY <1>1, <1>10, AdminControllerOK
<1>11. CASE t = UsageController
  BY <1>1, <1>11, UsageControllerOK
<1> QED BY <1>1, <1>2, <1>3, <1>4, <1>5, <1>6, <1>7, <1>8, <1>9, <1>10, <1>11

\* All steps of the NestJS server.
LEMMA StepTable ==
    \A op \in DOMAIN NestSteps : NestGuarded(op, <<"auth", "params">> \o NestSteps[op])
<1> TAKE op \in DOMAIN NestSteps
<1>1. PICK t : /\ t \in {ProjectSteps, ServiceSteps, ResourceSteps, DeploymentSteps, LogSteps,
                   ConsoleSteps, EnvironmentSteps, AccountSteps, GitHubSteps}
             /\ op \in DOMAIN t /\ NestSteps[op] = t[op]
  BY JoinedValue DEF NestSteps
<1>2. CASE t = ProjectSteps
  BY <1>1, <1>2, ProjectStepsOK
<1>3. CASE t = ServiceSteps
  BY <1>1, <1>3, ServiceStepsOK
<1>4. CASE t = ResourceSteps
  BY <1>1, <1>4, ResourceStepsOK
<1>5. CASE t = DeploymentSteps
  BY <1>1, <1>5, DeploymentStepsOK
<1>6. CASE t = LogSteps
  BY <1>1, <1>6, LogStepsOK
<1>7. CASE t = ConsoleSteps
  BY <1>1, <1>7, ConsoleStepsOK
<1>8. CASE t = EnvironmentSteps
  BY <1>1, <1>8, EnvironmentStepsOK
<1>9. CASE t = AccountSteps
  BY <1>1, <1>9, AccountStepsOK
<1>10. CASE t = GitHubSteps
  BY <1>1, <1>10, GitHubStepsOK
<1> QED BY <1>1, <1>2, <1>3, <1>4, <1>5, <1>6, <1>7, <1>8, <1>9, <1>10

\* Every operation of the NestJS server is one of the node server,
LEMMA NodeDomain == DOMAIN RequirePermission \subseteq DOMAIN NodeRoutes
<1>1. {"me", "logout", "snapshot", "configStatus"} \subseteq DOMAIN NodeRoutes
  <2>1. DOMAIN NodeAuthRoutes = {"me", "logout", "snapshot", "configStatus"}
    BY DEF NodeAuthRoutes
  <2> QED BY <2>1, JoinedDomain DEF NodeRoutes
<1>2. {"plan"} \subseteq DOMAIN NodeRoutes
  <2>1. DOMAIN NodePlanRoutes = {"plan"}
    BY DEF NodePlanRoutes
  <2> QED BY <2>1, JoinedDomain DEF NodeRoutes
<1>3. {"createProjectInOrg", "createProject"} \subseteq DOMAIN NodeRoutes
  <2>1. DOMAIN NodeOrganizationRoutes = {"createProjectInOrg", "createProject"}
    BY DEF NodeOrganizationRoutes
  <2> QED BY <2>1, JoinedDomain DEF NodeRoutes
<1>4. {"getProject", "updateProject", "deleteProject", "listServices"} \subseteq DOMAIN NodeRoutes
  <2>1. DOMAIN NodeProjectRoutes = {"getProject", "updateProject", "deleteProject",
          "listServices"}
    BY DEF NodeProjectRoutes
  <2> QED BY <2>1, JoinedDomain DEF NodeRoutes
<1>5. {"createService", "getService", "updateService",
        "deleteService"} \subseteq DOMAIN NodeRoutes
  <2>1. DOMAIN NodeServiceRoutes = {"createService", "getService", "updateService",
          "deleteService"}
    BY DEF NodeServiceRoutes
  <2> QED BY <2>1, JoinedDomain DEF NodeRoutes
<1>6. {"listResources", "createResource", "getResource", "updateResource", "deleteResource",
        "provisionResource", "attachResource"} \subseteq DOMAIN NodeRoutes
  <2>1. DOMAIN NodeResourceRoutes = {"listResources", "createResource", "getResource",
          "updateResource", "deleteResource", "provisionResource", "attachResource"}
    BY DEF NodeResourceRoutes
  <2> QED BY <2>1, JoinedDomain DEF NodeRoutes
<1>7. {"createDeploymentForService", "createDeployment"} \subseteq DOMAIN NodeRoutes
  <2>1. DOMAIN NodeDeployRoutes = {"createDeploymentForService", "createDeployment"}
    BY DEF NodeDeployRoutes
  <2> QED BY <2>1, JoinedDomain DEF NodeRoutes
<1>8. {"getDeployment", "updateDeploymentStatus", "cancelDeployment"} \subseteq DOMAIN NodeRoutes
  <2>1. DOMAIN NodeDeploymentRoutes = {"getDeployment", "updateDeploymentStatus",
          "cancelDeployment"}
    BY DEF NodeDeploymentRoutes
  <2> QED BY <2>1, JoinedDomain DEF NodeRoutes
<1>9. {"deploymentLogs", "deploymentStream", "runtimeLogs",
        "runtimeStream"} \subseteq DOMAIN NodeRoutes
  <2>1. DOMAIN NodeLogRoutes = {"deploymentLogs", "deploymentStream", "runtimeLogs",
          "runtimeStream"}
    BY DEF NodeLogRoutes
  <2> QED BY <2>1, JoinedDomain DEF NodeRoutes
<1>10. {"consoleTable", "consoleView", "consoleQuery",
         "consoleCommand"} \subseteq DOMAIN NodeRoutes
  <2>1. DOMAIN NodeConsoleRoutes = {"consoleTable", "consoleView", "consoleQuery",
          "consoleCommand"}
    BY DEF NodeConsoleRoutes
  <2> QED BY <2>1, JoinedDomain DEF NodeRoutes
<1>11. {"approveUser", "setQuota", "usageMe"} \subseteq DOMAIN NodeRoutes
  <2>1. DOMAIN NodeAdminRoutes = {"approveUser", "setQuota", "usageMe"}
    BY DEF NodeAdminRoutes
  <2> QED BY <2>1, JoinedDomain DEF NodeRoutes
<1>12. {"listEnvironment", "upsertEnvironment"} \subseteq DOMAIN NodeRoutes
  <2>1. DOMAIN NodeEnvironmentRoutes = {"listEnvironment", "upsertEnvironment"}
    BY DEF NodeEnvironmentRoutes
  <2> QED BY <2>1, JoinedDomain DEF NodeRoutes
<1>13. {"connectGitHub", "listGitHub", "attachGitHub", "importGitHub"} \subseteq DOMAIN NodeRoutes
  <2>1. DOMAIN NodeGitHubRoutes = {"connectGitHub", "listGitHub", "attachGitHub", "importGitHub"}
    BY DEF NodeGitHubRoutes
  <2> QED BY <2>1, JoinedDomain DEF NodeRoutes
<1> SUFFICES ASSUME NEW op \in DOMAIN RequirePermission PROVE op \in DOMAIN NodeRoutes
  OBVIOUS
<1>14. PICK t : t \in {AuthController, ProjectsController, ServicesController,
         ResourcesController,
                   ResourceConsoleController, DeploymentsController, EnvironmentController,
                   GitHubIntegrationController, AdminController, UsageController}
                       /\ op \in DOMAIN t
  BY JoinedValue DEF RequirePermission
<1>15. CASE t = AuthController
  <2>1. DOMAIN AuthController = {"me", "logout"}
    BY DEF AuthController
  <2> QED BY <1>14, <1>15, <2>1, <1>1
<1>16. CASE t = ProjectsController
  <2>1. DOMAIN ProjectsController = {"createProject", "getProject", "updateProject",
          "deleteProject"}
    BY DEF ProjectsController
  <2> QED BY <1>14, <1>16, <2>1, <1>3, <1>4
<1>17. CASE t = ServicesController
  <2>1. DOMAIN ServicesController = {"listServices", "createService", "getService",
          "updateService", "deleteService"}
    BY DEF ServicesController
  <2> QED BY <1>14, <1>17, <2>1, <1>4, <1>5
<1>18. CASE t = ResourcesController
  <2>1. DOMAIN ResourcesController = {"listResources", "createResource", "getResource",
          "updateResource", "deleteResource", "provisionResource", "attachResource"}
    BY DEF ResourcesController
  <2> QED BY <1>14, <1>18, <2>1, <1>6
<1>19. CASE t = ResourceConsoleController
  <2>1. DOMAIN ResourceConsoleController = {"consoleTable", "consoleView", "consoleQuery",
          "consoleCommand"}
    BY DEF ResourceConsoleController
  <2> QED BY <1>14, <1>19, <2>1, <1>10
<1>20. CASE t = DeploymentsController
  <2>1. DOMAIN DeploymentsController = {"createDeploymentForService", "createDeployment",
          "getDeployment", "updateDeploymentStatus", "cancelDeployment", "deploymentLogs",
          "deploymentStream", "runtimeLogs", "runtimeStream"}
    BY DEF DeploymentsController
  <2> QED BY <1>14, <1>20, <2>1, <1>7, <1>8, <1>9
<1>21. CASE t = EnvironmentController
  <2>1. DOMAIN EnvironmentController = {"listEnvironment", "upsertEnvironment"}
    BY DEF EnvironmentController
  <2> QED BY <1>14, <1>21, <2>1, <1>12
<1>22. CASE t = GitHubIntegrationController
  <2>1. DOMAIN GitHubIntegrationController = {"connectGitHub", "listGitHub", "attachGitHub",
          "importGitHub"}
    BY DEF GitHubIntegrationController
  <2> QED BY <1>14, <1>22, <2>1, <1>13
<1>23. CASE t = AdminController
  <2>1. DOMAIN AdminController = {"approveUser", "setQuota"}
    BY DEF AdminController
  <2> QED BY <1>14, <1>23, <2>1, <1>11
<1>24. CASE t = UsageController
  <2>1. DOMAIN UsageController = {"usageMe"}
    BY DEF UsageController
  <2> QED BY <1>14, <1>24, <2>1, <1>11
<1> QED BY <1>14, <1>15, <1>16, <1>17, <1>18, <1>19, <1>20, <1>21, <1>22, <1>23, <1>24

\* and has its steps.
LEMMA StepDomain == DOMAIN RequirePermission \subseteq DOMAIN NestSteps
<1>1. {"createProject", "getProject", "updateProject", "deleteProject"} \subseteq DOMAIN NestSteps
  <2>1. DOMAIN ProjectSteps = {"createProject", "getProject", "updateProject", "deleteProject"}
    BY DEF ProjectSteps
  <2> QED BY <2>1, JoinedDomain DEF NestSteps
<1>2. {"listServices", "createService", "getService", "updateService",
        "deleteService"} \subseteq DOMAIN NestSteps
  <2>1. DOMAIN ServiceSteps = {"listServices", "createService", "getService", "updateService",
          "deleteService"}
    BY DEF ServiceSteps
  <2> QED BY <2>1, JoinedDomain DEF NestSteps
<1>3. {"listResources", "createResource", "getResource", "updateResource", "deleteResource",
        "provisionResource", "attachResource"} \subseteq DOMAIN NestSteps
  <2>1. DOMAIN ResourceSteps = {"listResources", "createResource", "getResource",
          "updateResource", "deleteResource", "provisionResource", "attachResource"}
    BY DEF ResourceSteps
  <2> QED BY <2>1, JoinedDomain DEF NestSteps
<1>4. {"createDeployment", "createDeploymentForService", "getDeployment",
        "updateDeploymentStatus", "cancelDeployment"} \subseteq DOMAIN NestSteps
  <2>1. DOMAIN DeploymentSteps = {"createDeployment", "createDeploymentForService",
          "getDeployment", "updateDeploymentStatus", "cancelDeployment"}
    BY DEF DeploymentSteps
  <2> QED BY <2>1, JoinedDomain DEF NestSteps
<1>5. {"deploymentLogs", "deploymentStream", "runtimeLogs",
        "runtimeStream"} \subseteq DOMAIN NestSteps
  <2>1. DOMAIN LogSteps = {"deploymentLogs", "deploymentStream", "runtimeLogs", "runtimeStream"}
    BY DEF LogSteps, NodeLogRoutes
  <2> QED BY <2>1, JoinedDomain DEF NestSteps
<1>6. {"consoleTable", "consoleView", "consoleQuery", "consoleCommand"} \subseteq DOMAIN NestSteps
  <2>1. DOMAIN ConsoleSteps = {"consoleTable", "consoleView", "consoleQuery", "consoleCommand"}
    BY DEF ConsoleSteps, NodeConsoleRoutes
  <2> QED BY <2>1, JoinedDomain DEF NestSteps
<1>7. {"listEnvironment", "upsertEnvironment"} \subseteq DOMAIN NestSteps
  <2>1. DOMAIN EnvironmentSteps = {"listEnvironment", "upsertEnvironment"}
    BY DEF EnvironmentSteps
  <2> QED BY <2>1, JoinedDomain DEF NestSteps
<1>8. {"me", "logout", "usageMe", "approveUser", "setQuota"} \subseteq DOMAIN NestSteps
  <2>1. DOMAIN AccountSteps = {"me", "logout", "usageMe", "approveUser", "setQuota"}
    BY DEF AccountSteps
  <2> QED BY <2>1, JoinedDomain DEF NestSteps
<1>9. {"connectGitHub", "listGitHub", "attachGitHub", "importGitHub"} \subseteq DOMAIN NestSteps
  <2>1. DOMAIN GitHubSteps = {"connectGitHub", "listGitHub", "attachGitHub", "importGitHub"}
    BY DEF GitHubSteps
  <2> QED BY <2>1, JoinedDomain DEF NestSteps
<1> SUFFICES ASSUME NEW op \in DOMAIN RequirePermission PROVE op \in DOMAIN NestSteps
  OBVIOUS
<1>10. PICK t : t \in {AuthController, ProjectsController, ServicesController,
         ResourcesController,
                   ResourceConsoleController, DeploymentsController, EnvironmentController,
                   GitHubIntegrationController, AdminController, UsageController}
                       /\ op \in DOMAIN t
  BY JoinedValue DEF RequirePermission
<1>11. CASE t = AuthController
  <2>1. DOMAIN AuthController = {"me", "logout"}
    BY DEF AuthController
  <2> QED BY <1>10, <1>11, <2>1, <1>8
<1>12. CASE t = ProjectsController
  <2>1. DOMAIN ProjectsController = {"createProject", "getProject", "updateProject",
          "deleteProject"}
    BY DEF ProjectsController
  <2> QED BY <1>10, <1>12, <2>1, <1>1
<1>13. CASE t = ServicesController
  <2>1. DOMAIN ServicesController = {"listServices", "createService", "getService",
          "updateService", "deleteService"}
    BY DEF ServicesController
  <2> QED BY <1>10, <1>13, <2>1, <1>2
<1>14. CASE t = ResourcesController
  <2>1. DOMAIN ResourcesController = {"listResources", "createResource", "getResource",
          "updateResource", "deleteResource", "provisionResource", "attachResource"}
    BY DEF ResourcesController
  <2> QED BY <1>10, <1>14, <2>1, <1>3
<1>15. CASE t = ResourceConsoleController
  <2>1. DOMAIN ResourceConsoleController = {"consoleTable", "consoleView", "consoleQuery",
          "consoleCommand"}
    BY DEF ResourceConsoleController
  <2> QED BY <1>10, <1>15, <2>1, <1>6
<1>16. CASE t = DeploymentsController
  <2>1. DOMAIN DeploymentsController = {"createDeploymentForService", "createDeployment",
          "getDeployment", "updateDeploymentStatus", "cancelDeployment", "deploymentLogs",
          "deploymentStream", "runtimeLogs", "runtimeStream"}
    BY DEF DeploymentsController
  <2> QED BY <1>10, <1>16, <2>1, <1>4, <1>5
<1>17. CASE t = EnvironmentController
  <2>1. DOMAIN EnvironmentController = {"listEnvironment", "upsertEnvironment"}
    BY DEF EnvironmentController
  <2> QED BY <1>10, <1>17, <2>1, <1>7
<1>18. CASE t = GitHubIntegrationController
  <2>1. DOMAIN GitHubIntegrationController = {"connectGitHub", "listGitHub", "attachGitHub",
          "importGitHub"}
    BY DEF GitHubIntegrationController
  <2> QED BY <1>10, <1>18, <2>1, <1>9
<1>19. CASE t = AdminController
  <2>1. DOMAIN AdminController = {"approveUser", "setQuota"}
    BY DEF AdminController
  <2> QED BY <1>10, <1>19, <2>1, <1>8
<1>20. CASE t = UsageController
  <2>1. DOMAIN UsageController = {"usageMe"}
    BY DEF UsageController
  <2> QED BY <1>10, <1>20, <2>1, <1>8
<1> QED BY <1>10, <1>11, <1>12, <1>13, <1>14, <1>15, <1>16, <1>17, <1>18, <1>19, <1>20

\* What the proofs use of a route of either server.
Lawful(op, rt) ==
    /\ rt.kind = KindOf(op) /\ Guarded(op, rt.steps)
    /\ op \notin {"me", "logout"} \cup Differences => rt.action = Needs(op)
    /\ rt.effect = "update" => op \in {"updateProject", "updateService", "updateResource"}

\* All routes of the NestJS server.
LEMMA NestTable ==
    \A op \in DOMAIN NestRoutes :
        Lawful(op, NestRoutes[op]) /\ NestGuarded(op, NestRoutes[op].steps)
<1> TAKE op \in DOMAIN NestRoutes
<1>1. op \in DOMAIN RequirePermission
  BY DEF NestRoutes
<1>2. op \in DOMAIN NodeRoutes /\ op \in DOMAIN NestSteps
  BY <1>1, NodeDomain, StepDomain
<1>3. NestRoutes[op] = R(RequirePermission[op], NodeRoutes[op].kind, NodeRoutes[op].effect,
                         <<"auth", "params">> \o NestSteps[op])
  BY <1>1 DEF NestRoutes
<1>4. PICK S : S = <<"auth", "params">> \o NestSteps[op]
  OBVIOUS
<1>5. NestRoutes[op] = R(RequirePermission[op], NodeRoutes[op].kind, NodeRoutes[op].effect, S)
  BY <1>3, <1>4
<1>6. NestGuarded(op, S)
  BY <1>2, <1>4, StepTable
<1>7. NodeRoute(op, NodeRoutes[op])
  BY <1>2, NodeTable
<1>8. op \notin {"me", "logout"} \cup Differences => RequirePermission[op] = Needs(op)
  BY <1>1, PermissionTable
<1> QED BY <1>5, <1>6, <1>7, <1>8 DEF R, NodeRoute, Lawful, NestGuarded

--------------------------------------------------------------------------------
(***************************************************************************)
(* A request goes on: the checks                                            *)
(***************************************************************************)
\* Whatever the server, a route is lawful.
LEMMA RouteFacts ==
    ASSUME server \in {"node", "nest"}, NEW op \in DOMAIN Routes
    PROVE  /\ Lawful(op, Routes[op]) /\ op \in DOMAIN NodeRoutes
           /\ server = "node" => NodeRoute(op, Routes[op])
           /\ server = "nest" => NestGuarded(op, Routes[op].steps)
<1>1. CASE server = "node"
  <2>1. Routes = NodeRoutes
    BY <1>1 DEF Routes
  <2>2. NodeRoute(op, Routes[op])
    BY <2>1, NodeTable
  <2>3. Lawful(op, Routes[op])
    BY <2>2 DEF NodeRoute, Lawful
  <2> QED BY <1>1, <2>1, <2>2, <2>3
<1>2. CASE server = "nest"
  <2>1. Routes = NestRoutes
    BY <1>2 DEF Routes
  <2>2. op \in DOMAIN RequirePermission
    BY <2>1 DEF NestRoutes
  <2> QED BY <1>2, <2>1, <2>2, NestTable, NodeDomain
<1> QED BY <1>1, <1>2

\* Only the last step of a route is its effect.
LEMMA OrderFacts ==
    ASSUME server \in {"node", "nest"}, NEW op \in DOMAIN Routes, NEW S, S = Routes[op].steps
    PROVE  Orderly(S)
BY RouteFacts DEF Lawful, Guarded

\* The requests that do not move, while another one does.
LEMMA OthersKeep ==
    ASSUME IInv, NEW r \in Requests, May(r), server' = server,
           NEW q \in Requests, q # r, req'[q] = req[q], used \subseteq used',
           server = "nest" => \A p \in Projects \cap used : orgOf'[p] \in {orgOf[p], None}
    PROVE  Steady(req[q])' /\ Here(req[q])'
<1> DEFINE x == req[q]
<1>1. Steady(x) /\ Here(x) /\ TypeOK
  BY DEF IInv, NoOrphans
<1>2. x \in Records /\ server \in {"node", "nest"}
  BY <1>1 DEF TypeOK
<1>3. Routes' = Routes
  BY DEF Routes
<1>4. Steady(req[q])'
  BY <1>1, <1>3 DEF Steady, Routed, Cleared, Settled, Past, StepsOf, OfKind
<1>5. StillScoped(req[q])'
  <2> SUFFICES ASSUME server = "nest", x.pc = "running", Past(x, "scope"),
                      ~x.subject.global, x.project \notin x.subject.projects
               PROVE  x.project \in used' /\ orgOf'[x.project] \in {x.scoped, None}
    BY <1>3 DEF StillScoped, Past, StepsOf
  <2>1. x.project \in used /\ orgOf[x.project] \in {x.scoped, None}
    BY <1>1 DEF Here, StillScoped
  <2>2. x.project \in Projects
    BY <1>1 DEF Steady, Cleared
  <2> QED BY <2>1, <2>2
<1>6. ParentThere(req[q])'
  <2> SUFFICES ASSUME server = "node", x.pc = "running",
                      \/ Routes[x.op].kind \in {"newService", "newResource"} /\ Past(x, "scope")
                      \/ x.op = "createDeployment" /\ Past(x, "inProject")
               PROVE  FALSE
    BY <1>3 DEF ParentThere, Past, StepsOf
  <2>1. PICK S : S = Routes[x.op].steps
    OBVIOUS
  <2>2. x.op \in DOMAIN Routes /\ x.i \in 1..Len(S)
    BY <1>1, <2>1 DEF Steady, Routed, StepsOf
  <2>3. NodeRoute(x.op, Routes[x.op]) /\ Orderly(S)
    BY <1>2, <2>1, <2>2, RouteFacts, OrderFacts
  <2>4. PICK k \in 1..(x.i - 1) :
           \/ S[k] = "scope" /\ NoBodyAfter(S, "scope")
           \/ S[k] = "inProject" /\ NoBodyAfter(S, "inProject")
    BY <2>1, <2>3 DEF Past, StepsOf, NodeRoute
  <2>5. Len(S) \in Nat /\ k \in 1..Len(S) /\ k < x.i /\ x.i > 1
    BY <2>2, <2>3, <2>4 DEF Orderly
  <2>6. S[x.i] # "body"
    BY <2>2, <2>4, <2>5 DEF NoBodyAfter
  <2>7. ~Holds(q)
    BY DEF May
  <2> QED BY <2>1, <2>5, <2>6, <2>7 DEF Holds, Step, Route
<1> QED BY <1>4, <1>5, <1>6 DEF Here

RowsTyped ==
    /\ server \in {"node", "nest"}
    /\ orgOf \in [Projects -> Orgs \cup {None}]
    /\ projectOf \in [Services \cup Resources -> Projects \cup {None}]
    /\ serviceOf \in [Deployments -> Services \cup {None}]
    /\ used \subseteq Targets /\ late \subseteq Deployments

RowsThere ==
    /\ \A z \in DOMAIN projectOf : projectOf[z] # None => Exists(projectOf[z])
    /\ \A d \in Deployments \ late : serviceOf[d] # None => Exists(serviceOf[d])

\* Rows unchanged, one request moved.
LEMMA Collect ==
    ASSUME IInv, NEW r \in Requests, NEW y \in Records, req' = [req EXCEPT ![r] = y],
           RowsTyped', May(r), server' = server, used \subseteq used',
           server = "nest" => \A p \in Projects \cap used : orgOf'[p] \in {orgOf[p], None},
           RowsThere', RowsUsed', Steady(y)', Here(y)'
    PROVE  IInv'
<1>1. TypeOK /\ TypeOK'
  BY DEF IInv, NoOrphans, TypeOK, RowsTyped
<1>2. req'[r] = y /\ \A q \in Requests \ {r} : req'[q] = req[q]
  BY <1>1 DEF TypeOK
<1>3. ASSUME NEW q \in Requests PROVE Steady(req[q])' /\ Here(req[q])'
  <2>1. CASE q = r
    BY <1>2, <2>1
  <2>2. CASE q # r
    BY <1>2, <2>2, OthersKeep
  <2> QED BY <2>1, <2>2
<1> QED BY <1>1, <1>3 DEF IInv, NoOrphans, RowsThere

\* One request moved as it may, the others kept what they rely on.
LEMMA Still ==
    ASSUME IInv, NEW r \in Requests, NEW y \in Records, req' = [req EXCEPT ![r] = y], May(r),
           UNCHANGED <<server, orgOf, projectOf, serviceOf, used, late>>, Steady(y), Here(y)
    PROVE  IInv'
<1>1. RowsTyped'
  BY DEF IInv, NoOrphans, TypeOK, RowsTyped
<1>2. Routes' = Routes
  BY DEF Routes
<1>3. Steady(y)'
  BY <1>2 DEF Steady, Routed, Cleared, Settled, Past, StepsOf, OfKind
<1>4. Here(y)'
  BY <1>2 DEF Here, StillScoped, ParentThere, Past, StepsOf, Exists
<1>5. RowsUsed'
  BY DEF IInv, RowsUsed
<1>6. RowsThere'
  BY DEF IInv, NoOrphans, RowsThere, Exists
<1>8. server = "nest" => \A p \in Projects \cap used : orgOf'[p] \in {orgOf[p], None}
  OBVIOUS
<1>9. server' = server /\ used \subseteq used'
  OBVIOUS
<1> QED BY <1>1, <1>3, <1>4, <1>5, <1>6, <1>8, <1>9, Collect

\* A request that ended without an answer has nothing more to satisfy.
LEMMA EndKeeps ==
    ASSUME IInv, NEW r \in Requests, May(r), NEW outcome \in Outcomes \ {"done"},
               req[r].pc = "running",
           End(r, outcome), UNCHANGED <<server, orgOf, projectOf, serviceOf, used, late>>
    PROVE  IInv'
<1>1. req \in [Requests -> Records] /\ Steady(req[r])
  BY DEF IInv, NoOrphans, TypeOK
<1>2. PICK y : y = [req[r] EXCEPT !.pc = outcome]
  OBVIOUS
<1>3. y \in Records
  BY <1>1, <1>2 DEF Records, Outcomes
<1>4. req' = [req EXCEPT ![r] = y]
  BY <1>1, <1>2 DEF End
<1>5. /\ y.pc = outcome /\ y.op = req[r].op /\ y.subject = req[r].subject
        /\ y.target = req[r].target
      /\ y.i = req[r].i /\ y.project = req[r].project /\ y.scoped = req[r].scoped
  BY <1>1, <1>2 DEF Records
<1>6. Steady(y)
  BY <1>1, <1>5 DEF Steady, Routed, Cleared, Settled, Past, StepsOf
<1>7. Here(y)
  BY <1>5 DEF Here, StillScoped, ParentThere, Outcomes
<1> QED BY <1>3, <1>4, <1>6, <1>7, Still

\* A request that passes the check it is at.
LEMMA MoveKeeps ==
    ASSUME IInv, NEW r \in Requests, May(r), Serving(r), NEW y \in Records,
               req' = [req EXCEPT ![r] = y],
           UNCHANGED <<server, orgOf, projectOf, serviceOf, used, late>>,
           y.pc = "running", y.op = req[r].op, y.subject = req[r].subject,
               y.target = req[r].target,
           y.i = req[r].i + 1, Step(r) # "effect",
           Step(r) # "find" => y.project = req[r].project,
           Step(r) # "scope" => y.scoped = req[r].scoped,
           Step(r) = "auth" => can(y.subject.role, Route(r).action),
           Step(r) = "scopeOrg" => y.subject.global \/ y.target \in y.subject.orgs,
           Step(r) = "scope" =>
               /\ \/ y.subject.global \/ y.project \in y.subject.projects
                  \/ /\ y.project \in Projects /\ y.scoped \in y.subject.orgs
                     /\ server = "nest" =>
                               y.project \in used /\ orgOf[y.project] \in {y.scoped, None}
               /\ server = "node" /\ Route(r).kind \in {"newService", "newResource"} =>
                         Exists(y.target),
           Step(r) = "inProject" => Exists(y.target)
    PROVE  IInv'
<1> DEFINE x == req[r]
<1>1. Steady(x) /\ Here(x) /\ TypeOK /\ x.pc = "running"
  BY DEF IInv, NoOrphans, Serving
<1>2. x \in Records /\ server \in {"node", "nest"}
  BY <1>1 DEF TypeOK
<1>3. PICK S : S = Routes[x.op].steps
  OBVIOUS
<1>4. Routed(x) /\ Cleared(x) /\ x.op \in DOMAIN Routes /\ x.i \in 1..Len(S)
  BY <1>1, <1>3 DEF Steady, Routed, StepsOf
<1>5. Lawful(x.op, Routes[x.op]) /\ Orderly(S) /\ Guarded(x.op, S)
  BY <1>2, <1>3, <1>4, RouteFacts, OrderFacts DEF Lawful
<1>6. Step(r) = S[x.i] /\ StepsOf(x) = S /\ StepsOf(y) = S /\ Route(r) = Routes[x.op]
  BY <1>3 DEF Step, Route, StepsOf
<1>7. Len(S) \in Nat /\ x.i # Len(S) /\ y.i \in 1..Len(S) /\ x.i \in Nat
  <2>1. Len(S) \in Nat /\ x.i # Len(S)
    BY <1>5, <1>6 DEF Orderly
  <2> QED BY <1>4, <2>1
<1>8. ASSUME NEW step, Past(y, step) PROVE Past(x, step) \/ S[x.i] = step
  <2>1. PICK k \in 1..(y.i - 1) : S[k] = step
    BY <1>6, <1>8 DEF Past
  <2>2. k = x.i \/ k \in 1..(x.i - 1)
    BY <1>7, <2>1
  <2> QED BY <1>6, <2>1, <2>2 DEF Past
<1>9. S[x.i] = "find" => ~Past(y, "scope")
  <2> SUFFICES ASSUME S[x.i] = "find", Past(y, "scope") PROVE FALSE
    OBVIOUS
  <2>1. Past(x, "scope")
    BY <1>8
  <2>2. PICK k \in 1..(x.i - 1) : S[k] = "scope"
    BY <1>6, <2>1 DEF Past
  <2>3. k \in 1..Len(S) /\ k < x.i
    BY <1>4, <1>7, <2>2
  <2> QED BY <1>4, <1>5, <1>7, <2>2, <2>3 DEF Orderly
<1>10. Routed(y)
  <2>1. Routes[x.op].kind \in {"org", "project", "newService", "newResource"} => S[x.i] # "find"
    BY <1>4, <1>5 DEF Lawful, Guarded, NoFind
  <2>2. Routes[x.op].kind \in {"org", "project", "newService", "newResource"} =>
              y.project = x.project
    BY <1>6, <2>1
  <2> QED BY <1>4, <1>6, <1>7, <2>2 DEF Routed
<1>11. Cleared(y)
  <2>1. Past(y, "auth") => can(y.subject.role, Routes[y.op].action)
    BY <1>4, <1>6, <1>8 DEF Cleared
  <2>2. Past(y, "scopeOrg") => y.subject.global \/ y.target \in y.subject.orgs
    BY <1>4, <1>6, <1>8 DEF Cleared
  <2>3. Past(y, "scope") => \/ y.subject.global \/ y.project \in y.subject.projects
                            \/ y.project \in Projects /\ y.scoped \in y.subject.orgs
    <3>1. CASE S[x.i] = "scope"
      BY <1>6, <3>1
    <3>2. CASE S[x.i] # "scope" /\ S[x.i] # "find"
      BY <1>4, <1>6, <1>8, <3>2 DEF Cleared
    <3> QED BY <1>9, <3>1, <3>2
  <2> QED BY <2>1, <2>2, <2>3 DEF Cleared
<1>12. Steady(y)
  BY <1>10, <1>11 DEF Steady, Settled
<1>13. StillScoped(y)
  <2> SUFFICES ASSUME server = "nest", Past(y, "scope")
               PROVE  \/ y.subject.global \/ y.project \in y.subject.projects
                      \/ y.project \in used /\ orgOf[y.project] \in {y.scoped, None}
    BY DEF StillScoped
  <2>1. CASE S[x.i] = "scope"
    BY <1>6, <2>1
  <2>2. CASE S[x.i] # "scope" /\ S[x.i] # "find"
    BY <1>1, <1>6, <1>8, <2>2 DEF Here, StillScoped
  <2> QED BY <1>9, <2>1, <2>2
<1>14. ParentThere(y)
  <2>1. ASSUME server = "node", Routes[x.op].kind \in {"newService", "newResource"}, Past(y,
          "scope")
        PROVE  Exists(y.target)
    BY <1>1, <1>6, <1>8, <2>1 DEF Here, ParentThere
  <2>2. ASSUME server = "node", x.op = "createDeployment", Past(y, "inProject")
        PROVE  Exists(y.target)
    BY <1>1, <1>6, <1>8, <2>2 DEF Here, ParentThere
  <2> QED BY <2>1, <2>2 DEF ParentThere
<1> QED BY <1>12, <1>13, <1>14, Still DEF Here

\* A check that looks at nothing but the request and its caller keeps the invariant.
LEMMA AdvanceKeeps ==
    ASSUME IInv, NEW r \in Requests, May(r), Serving(r), Advance(r),
           UNCHANGED <<server, orgOf, projectOf, serviceOf, used, late>>,
           Step(r) \notin {"effect", "scope"},
           Step(r) = "auth" => can(req[r].subject.role, Route(r).action),
           Step(r) = "scopeOrg" => matchesScope(r, req[r].target),
           Step(r) = "inProject" => Exists(req[r].target)
    PROVE  IInv'
<1>1. req \in [Requests -> Records] /\ req[r].pc = "running"
  BY DEF IInv, NoOrphans, TypeOK, Serving
<1>2. PICK y : y = [req[r] EXCEPT !.i = @ + 1]
  OBVIOUS
<1>3. y \in Records
  BY <1>1, <1>2 DEF Records
<1>4. req' = [req EXCEPT ![r] = y]
  BY <1>1, <1>2 DEF Advance
<1>5. /\ y.pc = "running" /\ y.op = req[r].op /\ y.subject = req[r].subject
      /\ y.target = req[r].target /\ y.i = req[r].i + 1
  BY <1>1, <1>2 DEF Records
<1>6. y.project = req[r].project /\ y.scoped = req[r].scoped
  BY <1>1, <1>2 DEF Records
<1>7. Step(r) = "scopeOrg" => y.subject.global \/ y.target \in y.subject.orgs
  BY <1>5 DEF matchesScope
<1>8. Step(r) = "auth" => can(y.subject.role, Route(r).action)
  BY <1>5
<1>9. Step(r) = "inProject" => Exists(y.target)
  BY <1>5
<1> QED BY <1>3, <1>4, <1>5, <1>6, <1>7, <1>8, <1>9, MoveKeeps

\* The checks that change nothing but the step the request is at.
LEMMA CheckKeeps ==
    ASSUME IInv, NEW r \in Requests,
           \/ requireAction(r) \/ params(r) \/ requireScope(r) \/ assertAdmin(r)
           \/ assertSystemDeploymentActor(r) \/ assertEnvironmentWriteAllowed(r)
           \/ policy(r) \/ readJson(r)
    PROVE  IInv'
<1>1. PICK step \in {"auth", "params", "scopeOrg", "admin", "system", "secretEntries",
        "policy", "body"} :
        /\ Serving(r) /\ May(r) /\ Step(r) = step
        /\ \/ Advance(r) \/ End(r, "refused")
        /\ Advance(r) /\ ~End(r, "refused") =>
              /\ step = "auth" => can(req[r].subject.role, Route(r).action)
              /\ step = "scopeOrg" => matchesScope(r, req[r].target)
        /\ UNCHANGED <<server, orgOf, projectOf, serviceOf, used, late>>
  BY DEF requireAction, params, requireScope, assertAdmin, assertSystemDeploymentActor,
         assertEnvironmentWriteAllowed, policy, readJson, Check
<1>2. CASE End(r, "refused")
  BY <1>1, <1>2, EndKeeps DEF Serving, Outcomes
<1>3. CASE ~End(r, "refused")
  BY <1>1, <1>3, AdvanceKeeps
<1> QED BY <1>2, <1>3

\* The record of a request with other fields of the right types is one.
LEMMA RecordUpdates ==
    ASSUME NEW x \in Records
    PROVE  /\ [x EXCEPT !.i = @ + 1] \in Records
           /\ \A p \in Projects \cup {None} : [x EXCEPT !.project = p] \in Records
           /\ \A o \in Orgs \cup {None} : [x EXCEPT !.scoped = o] \in Records
           /\ \A c \in Outcomes : [x EXCEPT !.pc = c] \in Records
           /\ \A b \in BOOLEAN : [x EXCEPT !.there = b] \in Records
           /\ \A t \in Targets \cup {None} : [x EXCEPT !.org = t] \in Records
<1>1. [x EXCEPT !.i = @ + 1] \in Records
  BY DEF Records
<1>2. ASSUME NEW p \in Projects \cup {None} PROVE [x EXCEPT !.project = p] \in Records
  BY DEF Records
<1>3. ASSUME NEW o \in Orgs \cup {None} PROVE [x EXCEPT !.scoped = o] \in Records
  BY DEF Records
<1>4. ASSUME NEW c \in Outcomes PROVE [x EXCEPT !.pc = c] \in Records
  BY DEF Records
<1>5. ASSUME NEW b \in BOOLEAN PROVE [x EXCEPT !.there = b] \in Records
  BY DEF Records
<1>6. ASSUME NEW t \in Targets \cup {None} PROVE [x EXCEPT !.org = t] \in Records
  BY DEF Records
<1> QED BY <1>1, <1>2, <1>3, <1>4, <1>5, <1>6

\* The project of a request is set.
LEMMA SetProject ==
    ASSUME NEW x \in Records, NEW p \in Projects \cup {None}
    PROVE  [x EXCEPT !.i = @ + 1, !.project = p] \in Records
<1>1. PICK z \in Records : z = [x EXCEPT !.i = @ + 1]
  BY RecordUpdates
<1>2. [x EXCEPT !.i = @ + 1, !.project = p] = [z EXCEPT !.project = p]
  BY <1>1
<1> QED BY <1>2, RecordUpdates

\* The organization checked is set.
LEMMA SetScoped ==
    ASSUME NEW x \in Records, NEW o \in Orgs \cup {None}
    PROVE  [x EXCEPT !.i = @ + 1, !.scoped = o] \in Records
<1>1. PICK z \in Records : z = [x EXCEPT !.i = @ + 1]
  BY RecordUpdates
<1>2. [x EXCEPT !.i = @ + 1, !.scoped = o] = [z EXCEPT !.scoped = o]
  BY <1>1
<1> QED BY <1>2, RecordUpdates

\* A request is answered.
LEMMA SetAnswer ==
    ASSUME NEW x \in Records, NEW c \in Outcomes, NEW b \in BOOLEAN, NEW t \in Targets \cup {None}
    PROVE  [x EXCEPT !.pc = c, !.there = b, !.org = t] \in Records
<1>1. PICK z \in Records : z = [x EXCEPT !.pc = c]
  BY RecordUpdates
<1>2. PICK w \in Records : w = [z EXCEPT !.there = b]
  BY RecordUpdates
<1>3. [x EXCEPT !.pc = c, !.there = b, !.org = t] = [w EXCEPT !.org = t]
  BY <1>1, <1>2
<1> QED BY <1>3, RecordUpdates

\* Looking a row up keeps the invariant: the project is that of a row that is there.
LEMMA FindKeeps ==
    ASSUME IInv, NEW r \in Requests, find(r)
    PROVE  IInv'
<1>1. Serving(r) /\ May(r) /\ Step(r) = "find" /\ req[r].pc = "running"
      /\ UNCHANGED <<server, orgOf, projectOf, serviceOf, used, late>>
  BY DEF find, Serving
<1>2. CASE ~Exists(req[r].target)
  <2>1. End(r, "missing")
    BY <1>2 DEF find
  <2> QED BY <1>1, <2>1, EndKeeps DEF Outcomes
<1>3. CASE Exists(req[r].target)
  <2>1. TypeOK /\ req \in [Requests -> Records]
    BY DEF IInv, NoOrphans, TypeOK
  <2>2. PICK p : p = ProjectOfRow(req[r].target)
    OBVIOUS
  <2>3. p \in Projects \cup {None}
    <3>1. CASE req[r].target \in Projects
      BY <2>2, <3>1, TablesAssumption DEF ProjectOfRow
    <3>2. CASE req[r].target \in Services \cup Resources
      BY <2>1, <2>2, <3>2, TablesAssumption DEF ProjectOfRow, TypeOK
    <3>3. CASE req[r].target \in Deployments
      <4>1. serviceOf[req[r].target] \in Services
        BY <1>3, <2>1, <3>3, TablesAssumption DEF Exists, TypeOK
      <4>2. p = projectOf[serviceOf[req[r].target]]
        BY <2>2, <3>3, TablesAssumption DEF ProjectOfRow
      <4> QED BY <2>1, <4>1, <4>2 DEF TypeOK
    <3> QED BY <1>3, <3>1, <3>2, <3>3 DEF Exists
  <2>4. PICK y : y = [req[r] EXCEPT !.i = @ + 1, !.project = p]
    OBVIOUS
  <2>5. y \in Records
    BY <2>1, <2>3, <2>4, SetProject
  <2>6. req' = [req EXCEPT ![r] = y]
    BY <1>3, <2>1, <2>2, <2>4 DEF find
  <2>7. /\ y.pc = "running" /\ y.op = req[r].op /\ y.subject = req[r].subject
        /\ y.target = req[r].target /\ y.i = req[r].i + 1 /\ y.scoped = req[r].scoped
    BY <1>1, <2>1, <2>4 DEF Records
  <2> QED BY <1>1, <2>5, <2>6, <2>7, MoveKeeps
<1> QED BY <1>2, <1>3

\* Looking for the service in the project of the path keeps the invariant.
LEMMA InProjectKeeps ==
    ASSUME IInv, NEW r \in Requests, assertServiceInProject(r)
    PROVE  IInv'
<1>1. Serving(r) /\ May(r) /\ Step(r) = "inProject" /\ req[r].pc = "running"
      /\ UNCHANGED <<server, orgOf, projectOf, serviceOf, used, late>>
  BY DEF assertServiceInProject, Serving
<1>2. CASE End(r, "missing") \/ End(r, "refused")
  BY <1>1, <1>2, EndKeeps DEF Outcomes
<1>3. CASE ~(End(r, "missing") \/ End(r, "refused"))
  <2>1. Exists(req[r].target) /\ Advance(r)
    BY <1>3 DEF assertServiceInProject
  <2> QED BY <1>1, <2>1, AdvanceKeeps
<1> QED BY <1>2, <1>3

\* Checking the scope keeps the invariant: the caller may act on the project as it is now.
LEMMA ScopeKeeps ==
    ASSUME IInv, NEW r \in Requests, scope(r)
    PROVE  IInv'
<1> DEFINE x == req[r]
<1>1. Serving(r) /\ May(r) /\ Step(r) = "scope" /\ x.pc = "running"
      /\ UNCHANGED <<server, orgOf, projectOf, serviceOf, used, late>>
  BY DEF scope, Serving
<1>2. TypeOK /\ req \in [Requests -> Records] /\ Steady(x) /\ RowsUsed
  BY DEF IInv, NoOrphans, TypeOK
<1>3. CASE ~assertProjectAccess(r, x.project)
  <2>1. End(r, "refused")
    BY <1>3 DEF scope
  <2> QED BY <1>1, <2>1, EndKeeps DEF Outcomes
<1>4. CASE assertProjectAccess(r, x.project)
  <2>1. PICK o : o = IF x.project \in Projects THEN orgOf[x.project] ELSE None
    OBVIOUS
  <2>2. o \in Orgs \cup {None}
    BY <1>2, <2>1 DEF TypeOK
  <2>3. PICK y : y = [x EXCEPT !.i = @ + 1, !.scoped = o]
    OBVIOUS
  <2>4. y \in Records
    BY <1>2, <2>2, <2>3, SetScoped
  <2>5. req' = [req EXCEPT ![r] = y]
    BY <1>2, <1>4, <2>1, <2>3 DEF scope
  <2>6. /\ y.pc = "running" /\ y.op = x.op /\ y.subject = x.subject
        /\ y.target = x.target /\ y.i = x.i + 1 /\ y.project = x.project
    BY <1>1, <1>2, <2>3 DEF Records
  <2>7. y.scoped = o
    BY <1>2, <2>3 DEF Records
  <2>8. \/ y.subject.global \/ y.project \in y.subject.projects
        \/ /\ y.project \in Projects /\ y.scoped \in y.subject.orgs
           /\ server = "nest" => y.project \in used /\ orgOf[y.project] \in {y.scoped, None}
    <3>1. SUFFICES ASSUME ~x.subject.global, x.project \notin x.subject.projects
                   PROVE  /\ x.project \in Projects /\ o \in x.subject.orgs
                          /\ server = "nest" =>
                                    x.project \in used /\ orgOf[x.project] \in {o, None}
      BY <2>6, <2>7
    <3>2. x.project \in Projects /\ orgOf[x.project] # None /\ matchesScope(r, orgOf[x.project])
      BY <1>4, <3>1 DEF assertProjectAccess, assertProjectAccessNode, assertProjectAccessNest
    <3> QED BY <1>2, <2>1, <3>1, <3>2 DEF matchesScope, RowsUsed
  <2>9. server = "node" /\ Route(r).kind \in {"newService", "newResource"} => Exists(y.target)
    <3> SUFFICES ASSUME server = "node", Route(r).kind \in {"newService", "newResource"}
                 PROVE  Exists(y.target)
      OBVIOUS
    <3>1. x.project = x.target
      BY <1>1, <1>2 DEF Steady, Routed, Route
    <3>2. x.project \in Projects /\ orgOf[x.project] # None
      BY <1>4 DEF assertProjectAccess, assertProjectAccessNode
    <3> QED BY <2>6, <3>1, <3>2 DEF Exists
  <2> QED BY <1>1, <2>4, <2>5, <2>6, <2>8, <2>9, MoveKeeps
<1> QED BY <1>3, <1>4

\* An answer: the checks that the route made are behind it.
LEMMA AnswerFacts ==
    ASSUME IInv, NEW r \in Requests, NEW effect, AtEffect(r, effect), NEW outcome \in Outcomes,
           NEW there \in BOOLEAN, Answer(r, outcome, there),
           outcome = "done" => \/ effect = "read" \/ there
                               \/ server = "node" /\ req[r].op \in {"updateService",
                                  "updateResource"}
    PROVE  \E y \in Records : req' = [req EXCEPT ![r] = y] /\ Steady(y) /\ y.pc # "running"
<1> DEFINE x == req[r]
<1>1. TypeOK /\ x \in Records /\ Steady(x) /\ Here(x) /\ x.pc = "running"
      /\ req \in [Requests -> Records] /\ server \in {"node", "nest"}
  BY DEF IInv, NoOrphans, TypeOK, AtEffect, Serving
<1>2. PICK o : o = IF x.project \in Projects THEN orgOf[x.project] ELSE x.target
  OBVIOUS
<1>3. o \in Targets \cup {None}
  <2>1. CASE x.project \in Projects
    BY <1>1, <1>2, <2>1 DEF TypeOK, Targets
  <2>2. CASE x.project \notin Projects
    BY <1>1, <1>2, <2>2 DEF Records
  <2> QED BY <2>1, <2>2
<1>4. PICK y \in Records : y = [x EXCEPT !.pc = outcome, !.there = there, !.org = o]
  BY <1>1, <1>3, SetAnswer
<1>5. req' = [req EXCEPT ![r] = y]
  BY <1>1, <1>2, <1>4 DEF Answer
<1>6. y.pc = outcome /\ y.there = there /\ y.org = o
  BY <1>1, <1>4 DEF Records
<1>7. /\ y.op = x.op /\ y.subject = x.subject /\ y.target = x.target /\ y.i = x.i
      /\ y.project = x.project /\ y.scoped = x.scoped
  BY <1>1, <1>4 DEF Records
<1>8. PICK S : S = Routes[x.op].steps
  OBVIOUS
<1>9. /\ Routed(x) /\ Cleared(x) /\ x.op \in DOMAIN Routes /\ x.i \in 1..Len(S)
      /\ StepsOf(x) = S /\ StepsOf(y) = S /\ S[x.i] = "effect" /\ Routes[x.op].effect = effect
  BY <1>1, <1>7, <1>8 DEF Steady, Routed, StepsOf, AtEffect, Step, Route
<1>10. /\ Lawful(x.op, Routes[x.op]) /\ Orderly(S) /\ Guarded(x.op, S)
       /\ server = "nest" => NestGuarded(x.op, S)
  BY <1>1, <1>8, <1>9, RouteFacts, OrderFacts DEF Lawful
<1>11. x.i = Len(S)
  BY <1>9, <1>10 DEF Orderly
<1>12. ASSUME NEW step, Makes(S, step) PROVE Past(x, step)
  BY <1>9, <1>11, <1>12 DEF Makes, Past
<1>13. Routed(y) /\ Cleared(y)
  BY <1>7, <1>9 DEF Routed, Cleared, Past, StepsOf
<1>14. \/ Routes[x.op].kind \in {"none", "account"}
       \/ x.subject.global \/ x.project \in x.subject.projects
       \/ o \in x.subject.orgs \cup {None}
       \/ server = "node" /\ (x.op \in Unscoped \/ x.scoped # o)
  <2>1. CASE Routes[x.op].kind = "org"
    <3>1. Past(x, "scopeOrg")
      BY <1>10, <1>12, <2>1 DEF Lawful, Guarded
    <3>2. x.project = None
      BY <1>9, <2>1 DEF Routed
    <3>3. o = x.target
      BY <1>2, <3>2, SetsAssumption DEF Targets
    <3> QED BY <1>9, <3>1, <3>3 DEF Cleared
  <2>2. CASE server = "node" /\ x.op \in Unscoped
    BY <2>2
  <2>3. CASE /\ Routes[x.op].kind \notin {"none", "account", "org"}
             /\ ~(server = "node" /\ x.op \in Unscoped)
    <3>1. Past(x, "scope")
      BY <1>1, <1>10, <1>12, <2>3 DEF Lawful, Guarded, NestGuarded
    <3>2. \/ x.subject.global \/ x.project \in x.subject.projects
          \/ x.project \in Projects /\ x.scoped \in x.subject.orgs
      BY <1>9, <3>1 DEF Cleared
    <3>3. CASE server = "node"
      BY <1>2, <3>2, <3>3
    <3>4. CASE server = "nest"
      <4>1. \/ x.subject.global \/ x.project \in x.subject.projects
            \/ x.project \in used /\ orgOf[x.project] \in {x.scoped, None}
        BY <1>1, <3>1, <3>4 DEF Here, StillScoped
      <4> QED BY <1>2, <3>2, <4>1
    <3> QED BY <1>1, <3>3, <3>4
  <2> QED BY <2>1, <2>2, <2>3
<1>15. Settled(y)
  BY <1>6, <1>7, <1>9, <1>11, <1>14 DEF Settled
<1>16. Steady(y)
  BY <1>13, <1>15 DEF Steady
<1>17. y.pc # "running"
  BY <1>6 DEF Outcomes
<1> QED BY <1>5, <1>16, <1>17

--------------------------------------------------------------------------------
(***************************************************************************)
(* The effects                                                              *)
(***************************************************************************)
\* Answering at the last step keeps the invariant if the rows were changed as they may be.
LEMMA AnswerKeeps ==
    ASSUME IInv, NEW r \in Requests, NEW effect, AtEffect(r, effect), NEW outcome \in Outcomes,
           NEW there \in BOOLEAN, Answer(r, outcome, there),
           outcome = "done" => \/ effect = "read" \/ there
                               \/ server = "node" /\ req[r].op \in {"updateService",
                                  "updateResource"},
           UNCHANGED <<server, orgOf, projectOf, serviceOf, used, late>>
    PROVE  IInv'
<1>1. PICK y \in Records : req' = [req EXCEPT ![r] = y] /\ Steady(y) /\ y.pc # "running"
  BY AnswerFacts
<1>2. Here(y)
  BY <1>1 DEF Here, StillScoped, ParentThere
<1>3. May(r)
  BY DEF AtEffect
<1> QED BY <1>1, <1>2, <1>3, Still

\* An answer that changes rows.
LEMMA AnswerCollect ==
    ASSUME IInv, NEW r \in Requests, NEW effect, AtEffect(r, effect), Answer(r, "done", TRUE),
           RowsTyped', server' = server, used \subseteq used',
           server = "nest" => \A p \in Projects \cap used : orgOf'[p] \in {orgOf[p], None},
           RowsThere', RowsUsed'
    PROVE  IInv'
<1>1. PICK y \in Records : req' = [req EXCEPT ![r] = y] /\ Steady(y) /\ y.pc # "running"
  BY AnswerFacts DEF Outcomes
<1>2. Routes' = Routes
  BY DEF Routes
<1>3. Steady(y)'
  BY <1>1, <1>2 DEF Steady, Routed, Cleared, Settled, Past, StepsOf, OfKind
<1>4. Here(y)'
  BY <1>1 DEF Here, StillScoped, ParentThere
<1>5. May(r)
  BY DEF AtEffect
<1> QED BY <1>1, <1>3, <1>4, <1>5, Collect

\* Reading keeps the invariant.
LEMMA ReadKeeps ==
    ASSUME IInv, NEW r \in Requests, read(r) \/ changeAccount(r)
    PROVE  IInv'
<1>1. CASE read(r)
  BY <1>1, AnswerKeeps DEF read, Outcomes
<1>2. CASE changeAccount(r)
  BY <1>2, AnswerKeeps DEF changeAccount, Outcomes
<1> QED BY <1>1, <1>2

\* Changing a row that was looked up again keeps the invariant.
LEMMA CheckedUpdateKeeps ==
    ASSUME IInv, NEW r \in Requests, checkedUpdate(r)
    PROVE  IInv'
<1>1. AtEffect(r, "check") /\ UNCHANGED <<server, orgOf, projectOf, serviceOf, used, late>>
  BY DEF checkedUpdate
<1>2. CASE Exists(req[r].target)
  <2>1. Answer(r, "done", Exists(req[r].target))
    BY <1>2 DEF checkedUpdate
  <2>2. Exists(req[r].target) = TRUE
    BY <1>2 DEF Exists
  <2>3. Answer(r, "done", TRUE)
    BY <2>1, <2>2
  <2> QED BY <1>1, <2>3, AnswerKeeps DEF Outcomes
<1>3. CASE ~Exists(req[r].target)
  <2>1. PICK outcome \in {"missing", "failed"} : Answer(r, outcome, Exists(req[r].target))
    BY <1>3 DEF checkedUpdate
  <2>2. Exists(req[r].target) = FALSE
    BY <1>3 DEF Exists
  <2>3. Answer(r, outcome, FALSE)
    BY <2>1, <2>2
  <2> QED BY <1>1, <2>1, <2>3, AnswerKeeps DEF Outcomes
<1> QED BY <1>2, <1>3

\* Updating keeps the invariant, a move of a project to another organization included.
LEMMA UpdateKeeps ==
    ASSUME IInv, NEW r \in Requests, update(r)
    PROVE  IInv'
<1> DEFINE x == req[r]
<1>1. AtEffect(r, "update") /\ UNCHANGED <<server, projectOf, serviceOf, used, late>>
  BY DEF update
<1>2. TypeOK /\ x \in Records /\ Steady(x) /\ x.pc = "running" /\ server \in {"node", "nest"}
      /\ RowsUsed /\ RowsThere
  BY <1>1 DEF IInv, NoOrphans, TypeOK, RowsThere, AtEffect, Serving
<1>3. CASE ~Exists(x.target)
  <2>1. Answer(r, AnswerWhenGone(r), FALSE) /\ orgOf' = orgOf
    BY <1>3 DEF update
  <2>2. PICK outcome : outcome = AnswerWhenGone(r)
    OBVIOUS
  <2>3. outcome \in {"failed", "missing", "done"}
    BY <2>2 DEF AnswerWhenGone
  <2>4. outcome = "done" => server = "node" /\ x.op \in {"updateService", "updateResource"}
    <3> SUFFICES ASSUME outcome = "done" PROVE server = "node"
          /\ x.op \in {"updateService", "updateResource"}
      OBVIOUS
    <3>1. server = "node" /\ Routes[x.op].kind # "project"
      BY <1>2, <2>2 DEF AnswerWhenGone, Route
    <3>2. x.op \in DOMAIN Routes /\ Routes[x.op].effect = "update"
      BY <1>1, <1>2 DEF Steady, Routed, AtEffect, Route
    <3>3. KindOf(x.op) # "project" /\ x.op \in {"updateProject", "updateService",
            "updateResource"}
      BY <1>2, <3>1, <3>2, RouteFacts DEF Lawful
    <3>4. KindOf("updateProject") = "project"
      BY DEF KindOf
    <3> QED BY <3>1, <3>3, <3>4
  <2>5. Answer(r, outcome, FALSE)
    BY <2>1, <2>2
  <2> QED BY <1>1, <2>1, <2>3, <2>4, <2>5, AnswerKeeps DEF Outcomes
<1>4. CASE Exists(x.target)
  <2>1. Answer(r, "done", TRUE)
    BY <1>4 DEF update
  <2>2. CASE orgOf' = orgOf
    BY <1>1, <2>1, <2>2, AnswerKeeps DEF Outcomes
  <2>3. CASE orgOf' # orgOf
    <3>1. server = "node" /\ Route(r).kind = "project" /\ x.move # None
          /\ orgOf' = [orgOf EXCEPT ![x.target] = x.move]
      BY <2>3 DEF update
    <3>2. x.move \in Orgs /\ x.target \in Projects
      BY <1>2, <3>1 DEF Records, Steady, Routed, OfKind, Route
    <3>3. orgOf[x.target] # None
      BY <1>4, <3>2, TablesAssumption DEF Exists
    <3>4. RowsTyped'
      BY <1>1, <1>2, <3>1, <3>2 DEF TypeOK, RowsTyped
    <3>5. \A p \in Projects : orgOf[p] # None <=> orgOf'[p] # None
      BY <1>2, <3>1, <3>2, <3>3, SetsAssumption DEF TypeOK, Targets
    <3>6. RowsUsed'
      BY <1>1, <1>2, <3>5 DEF RowsUsed
    <3>7. RowsThere'
      BY <1>1, <1>2, <3>5 DEF RowsThere, Exists
    <3> QED BY <1>1, <2>1, <3>1, <3>4, <3>6, <3>7, AnswerCollect
  <2> QED BY <2>2, <2>3
<1> QED BY <1>3, <1>4

\* A new project keeps the invariant: in the NestJS server no request relies on its id.
LEMMA CreateProjectKeeps ==
    ASSUME IInv, NEW r \in Requests, NEW p \in Projects, createProject(r, p)
    PROVE  IInv'
<1> DEFINE x == req[r]
<1>1. /\ AtEffect(r, "create") /\ Route(r).kind = "org" /\ orgOf[p] = None /\ Give(p)
      /\ orgOf' = [orgOf EXCEPT ![p] = x.target] /\ Answer(r, "done", TRUE)
      /\ UNCHANGED <<server, projectOf, serviceOf, late>>
  BY DEF createProject
<1>2. TypeOK /\ x \in Records /\ Steady(x) /\ x.pc = "running" /\ RowsUsed /\ RowsThere
  BY <1>1 DEF IInv, NoOrphans, TypeOK, RowsThere, AtEffect, Serving
<1>3. x.target \in Orgs
  BY <1>1, <1>2 DEF Steady, Routed, OfKind, Route
<1>4. used' = used \cup {p} /\ (server = "nest" => p \notin used)
  BY <1>1 DEF Give
<1>5. \A c \in Projects : orgOf'[c] = IF c = p THEN x.target ELSE orgOf[c]
  BY <1>1, <1>2 DEF TypeOK
<1>6. RowsTyped'
  BY <1>1, <1>2, <1>3, <1>4 DEF TypeOK, RowsTyped, Targets
<1>7. RowsUsed'
  BY <1>2, <1>4, <1>5 DEF RowsUsed
<1>8. x.target # None
  BY <1>3, SetsAssumption DEF Targets
<1>9. RowsThere'
  BY <1>1, <1>2, <1>5, <1>8 DEF RowsThere, Exists
<1>10. server = "nest" => \A c \in Projects \cap used : orgOf'[c] \in {orgOf[c], None}
  BY <1>4, <1>5
<1>11. server' = server /\ used \subseteq used'
  BY <1>1, <1>4
<1> QED BY <1>1, <1>6, <1>7, <1>9, <1>10, <1>11, AnswerCollect

\* At its effect a request is past every check that its steps make.
LEMMA PastAtEffect ==
    ASSUME IInv, NEW r \in Requests, NEW effect, AtEffect(r, effect), NEW step,
           Makes(StepsOf(req[r]), step)
    PROVE  Past(req[r], step)
<1> DEFINE x == req[r]
<1>1. Steady(x) /\ x.pc = "running" /\ server \in {"node", "nest"}
  BY DEF IInv, NoOrphans, TypeOK, AtEffect, Serving
<1>2. PICK S : S = StepsOf(x)
  OBVIOUS
<1>3. x.op \in DOMAIN Routes /\ x.i \in 1..Len(S) /\ S[x.i] = "effect"
  BY <1>1, <1>2 DEF Steady, Routed, StepsOf, AtEffect, Step, Route
<1>4. Orderly(S)
  BY <1>1, <1>2, <1>3, OrderFacts DEF StepsOf
<1>5. x.i = Len(S)
  BY <1>3, <1>4 DEF Orderly
<1> QED BY <1>2, <1>5 DEF Makes, Past

\* A new service or resource keeps the invariant: its project is there.
LEMMA CreateChildKeeps ==
    ASSUME IInv, NEW r \in Requests, NEW c \in Services \cup Resources, createChild(r, c)
    PROVE  IInv'
<1> DEFINE x == req[r]
<1>1. /\ AtEffect(r, "create") /\ Routes[x.op].kind \in {"newService", "newResource"}
      /\ projectOf[c] = None /\ UNCHANGED <<server, orgOf, serviceOf, late>>
  BY DEF createChild, Route
<1>2. TypeOK /\ x \in Records /\ Steady(x) /\ Here(x) /\ x.pc = "running" /\ RowsUsed /\ RowsThere
      /\ server \in {"node", "nest"} /\ May(r)
  BY <1>1 DEF IInv, NoOrphans, TypeOK, RowsThere, AtEffect, Serving
<1>3. x.target \in Projects /\ x.op \in DOMAIN Routes
  BY <1>1, <1>2 DEF Steady, Routed, OfKind
<1>4. CASE ~(server = "node" \/ Exists(x.target))
  <2>1. End(r, "failed") /\ UNCHANGED <<projectOf, used>>
    BY <1>4 DEF createChild
  <2> QED BY <1>1, <1>2, <2>1, EndKeeps DEF Outcomes
<1>5. CASE server = "node" \/ Exists(x.target)
  <2>1. projectOf' = [projectOf EXCEPT ![c] = x.target] /\ Give(c) /\ Answer(r, "done", TRUE)
    BY <1>5 DEF createChild
  <2>2. Exists(x.target)
    <3>1. CASE server = "node"
      <4>1. Guarded(x.op, StepsOf(x)) /\ KindOf(x.op) \in {"newService", "newResource"}
        BY <1>1, <1>2, <1>3, RouteFacts DEF Lawful, StepsOf
      <4>2. x.op \notin Unscoped
        BY <4>1 DEF Unscoped, KindOf
      <4>3. Past(x, "scope")
        BY <1>1, <4>1, <4>2, PastAtEffect DEF Guarded
      <4> QED BY <1>1, <1>2, <3>1, <4>3 DEF Here, ParentThere
    <3> QED BY <1>5, <3>1
  <2>3. orgOf[x.target] # None
    BY <1>3, <2>2, TablesAssumption DEF Exists
  <2>4. used' = used \cup {c}
    BY <2>1 DEF Give
  <2>5. \A z \in Services \cup Resources : projectOf'[z] = IF z = c THEN x.target ELSE projectOf[z]
    BY <1>2, <2>1 DEF TypeOK
  <2>6. RowsTyped'
    BY <1>1, <1>2, <1>3, <2>1, <2>4 DEF TypeOK, RowsTyped, Targets
  <2>7. RowsUsed'
    BY <1>1, <1>2, <2>4 DEF RowsUsed
  <2>8. DOMAIN projectOf = Services \cup Resources /\ DOMAIN projectOf' = Services \cup Resources
    BY <1>2, <2>1 DEF TypeOK
  <2>9. ASSUME NEW z \in DOMAIN projectOf', projectOf'[z] # None PROVE Exists(projectOf[z])'
    <3>1. CASE z = c
      BY <1>1, <1>3, <2>3, <2>5, <2>8, <3>1 DEF Exists
    <3>2. CASE z # c
      <4>1. projectOf'[z] = projectOf[z] /\ projectOf[z] \in Projects
        BY <1>2, <2>5, <2>8, <2>9, <3>2 DEF TypeOK
      <4>2. orgOf[projectOf[z]] # None
        BY <1>2, <2>8, <2>9, <4>1, TablesAssumption DEF RowsThere, Exists
      <4> QED BY <1>1, <4>1, <4>2 DEF Exists
    <3> QED BY <3>1, <3>2
  <2>10. ASSUME NEW d \in Deployments \ late', serviceOf'[d] # None PROVE Exists(serviceOf[d])'
    <3>1. serviceOf[d] \in Services /\ serviceOf' = serviceOf
      BY <1>1, <1>2, <2>10 DEF TypeOK
    <3>2. projectOf[serviceOf[d]] # None
      BY <1>1, <1>2, <2>10, <3>1, TablesAssumption DEF RowsThere, Exists
    <3>3. projectOf'[serviceOf[d]] # None
      BY <1>3, <2>5, <3>1, <3>2, SetsAssumption DEF Targets
    <3> QED BY <3>1, <3>3 DEF Exists
  <2>11. RowsThere'
    BY <2>9, <2>10 DEF RowsThere
  <2>12. server = "nest" => \A p \in Projects \cap used : orgOf'[p] \in {orgOf[p], None}
    BY <1>1
  <2>13. server' = server /\ used \subseteq used'
    BY <1>1, <2>4
  <2> QED BY <1>1, <2>1, <2>6, <2>7, <2>11, <2>12, <2>13, AnswerCollect
<1> QED BY <1>4, <1>5

\* A new deployment keeps the invariant: its service is there, or it is late.
LEMMA CreateDeploymentKeeps ==
    ASSUME IInv, NEW r \in Requests, NEW d \in Deployments, createDeployment(r, d)
    PROVE  IInv'
<1> DEFINE x == req[r]
<1>1. /\ AtEffect(r, "create") /\ Routes[x.op].kind = "newDeployment"
      /\ UNCHANGED <<server, orgOf, projectOf>>
  BY DEF createDeployment, Route
<1>2. TypeOK /\ x \in Records /\ Steady(x) /\ Here(x) /\ x.pc = "running" /\ RowsUsed /\ RowsThere
      /\ server \in {"node", "nest"} /\ May(r)
  BY <1>1 DEF IInv, NoOrphans, TypeOK, RowsThere, AtEffect, Serving
<1>3. x.target \in Services /\ x.op \in DOMAIN Routes
  BY <1>1, <1>2 DEF Steady, Routed, OfKind
<1>4. CASE ~(server = "node" \/ Exists(x.target))
  <2>1. End(r, "failed") /\ UNCHANGED <<serviceOf, used, late>>
    BY <1>4 DEF createDeployment
  <2> QED BY <1>1, <1>2, <2>1, EndKeeps DEF Outcomes
<1>5. CASE server = "node" \/ Exists(x.target)
  <2>1. /\ serviceOf' = [serviceOf EXCEPT ![d] = x.target] /\ Give(d) /\ Answer(r, "done", TRUE)
        /\ late' = IF server = "node" /\ x.op = "createDeploymentForService"
                   THEN late \cup {d} ELSE late \ {d}
    BY <1>5 DEF createDeployment
  <2>2. d \notin late' => Exists(x.target)
    <3> SUFFICES ASSUME d \notin late', server = "node" PROVE Exists(x.target)
      BY <1>5
    <3>1. x.op # "createDeploymentForService"
      BY <2>1
    <3>2. NodeRoute(x.op, Routes[x.op])
      BY <1>2, <1>3, RouteFacts
    <3>3. KindOf(x.op) = "newDeployment"
      BY <1>1, <3>2 DEF NodeRoute
    <3>4. x.op = "createDeployment"
      BY <3>1, <3>3 DEF KindOf
    <3>5. Makes(StepsOf(x), "inProject")
      BY <3>2, <3>4 DEF NodeRoute, StepsOf
    <3>6. Past(x, "inProject")
      BY <1>1, <3>5, PastAtEffect
    <3> QED BY <1>2, <3>4, <3>6 DEF Here, ParentThere
  <2>3. used' = used \cup {d}
    BY <2>1 DEF Give
  <2>4. \A e \in Deployments : serviceOf'[e] = IF e = d THEN x.target ELSE serviceOf[e]
    BY <1>2, <2>1 DEF TypeOK
  <2>5. RowsTyped'
    BY <1>1, <1>2, <1>3, <2>1, <2>3 DEF TypeOK, RowsTyped, Targets
  <2>6. RowsUsed'
    BY <1>1, <1>2, <2>3 DEF RowsUsed
  <2>7. ASSUME NEW z \in DOMAIN projectOf', projectOf'[z] # None PROVE Exists(projectOf[z])'
    <3>1. projectOf[z] \in Projects /\ orgOf[projectOf[z]] # None
      BY <1>1, <1>2, <2>7, TablesAssumption DEF TypeOK, RowsThere, Exists
    <3> QED BY <1>1, <3>1 DEF Exists
  <2>8. ASSUME NEW e \in Deployments \ late', serviceOf'[e] # None PROVE Exists(serviceOf[e])'
    <3>1. CASE e = d
      <4>1. projectOf[x.target] # None
        BY <1>3, <2>2, <2>8, <3>1, TablesAssumption DEF Exists
      <4> QED BY <1>1, <1>3, <2>4, <3>1, <4>1 DEF Exists
    <3>2. CASE e # d
      <4>1. serviceOf'[e] = serviceOf[e] /\ e \notin late /\ serviceOf[e] \in Services
        BY <1>2, <2>1, <2>4, <2>8, <3>2 DEF TypeOK
      <4>2. projectOf[serviceOf[e]] # None
        BY <1>2, <2>8, <4>1, TablesAssumption DEF RowsThere, Exists
      <4> QED BY <1>1, <4>1, <4>2 DEF Exists
    <3> QED BY <3>1, <3>2
  <2>9. RowsThere'
    BY <2>7, <2>8 DEF RowsThere
  <2>10. server = "nest" => \A p \in Projects \cap used : orgOf'[p] \in {orgOf[p], None}
    BY <1>1
  <2>11. server' = server /\ used \subseteq used'
    BY <1>1, <2>3
  <2> QED BY <1>1, <2>1, <2>5, <2>6, <2>9, <2>10, <2>11, AnswerCollect
<1> QED BY <1>4, <1>5

\* Deleting keeps the invariant: what is below the row goes with it.
LEMMA DeleteKeeps ==
    ASSUME IInv, NEW r \in Requests, delete(r)
    PROVE  IInv'
<1> DEFINE x == req[r].target
<1>1. PICK gone : gone = {y \in Services \cup Resources : y = x \/ projectOf[y] = x}
  OBVIOUS
<1>2. /\ AtEffect(r, "delete") /\ UNCHANGED <<server, used, late>>
      /\ IF ~Exists(x) THEN End(r, "failed") /\ UNCHANGED <<orgOf, projectOf, serviceOf>>
         ELSE /\ Answer(r, "done", TRUE)
              /\ orgOf' = [p \in Projects |-> IF p = x THEN None ELSE orgOf[p]]
              /\ projectOf' = [y \in DOMAIN projectOf |-> IF y \in gone THEN None ELSE projectOf[y]]
              /\ serviceOf' = [d \in Deployments |-> IF serviceOf[d] \in gone THEN None ELSE serviceOf[d]]
  BY <1>1 DEF delete
<1>3. TypeOK /\ req[r].pc = "running" /\ RowsUsed /\ RowsThere /\ May(r)
  BY <1>2 DEF IInv, NoOrphans, TypeOK, RowsThere, AtEffect, Serving
<1>4. CASE ~Exists(x)
  <2>1. End(r, "failed") /\ UNCHANGED <<server, orgOf, projectOf, serviceOf, used, late>>
    BY <1>2, <1>4
  <2> QED BY <1>3, <2>1, EndKeeps DEF Outcomes
<1>5. CASE Exists(x)
  <2>1. /\ Answer(r, "done", TRUE)
        /\ orgOf' = [p \in Projects |-> IF p = x THEN None ELSE orgOf[p]]
        /\ projectOf' = [y \in DOMAIN projectOf |-> IF y \in gone THEN None ELSE projectOf[y]]
        /\ serviceOf' = [d \in Deployments |-> IF serviceOf[d] \in gone THEN None ELSE serviceOf[d]]
    BY <1>2, <1>5
  <2>2. \A p \in Projects : orgOf'[p] = IF p = x THEN None ELSE orgOf[p]
    BY <2>1
  <2>3. DOMAIN projectOf = Services \cup Resources /\ DOMAIN projectOf' = Services \cup Resources
    BY <1>3, <2>1 DEF TypeOK
  <2>4. \A y \in Services \cup Resources : projectOf'[y] = IF y \in gone THEN None ELSE projectOf[y]
    BY <2>1, <2>3
  <2>5. \A d \in Deployments : serviceOf'[d] = IF serviceOf[d] \in gone THEN None ELSE serviceOf[d]
    BY <2>1
  <2>6. RowsTyped'
    BY <1>2, <1>3, <2>1, <2>3 DEF TypeOK, RowsTyped
  <2>7. RowsUsed'
    BY <1>2, <1>3, <2>2 DEF RowsUsed
  <2>8. ASSUME NEW z \in DOMAIN projectOf', projectOf'[z] # None PROVE Exists(projectOf[z])'
    <3>1. z \in Services \cup Resources /\ z \notin gone /\ projectOf'[z] = projectOf[z]
      BY <2>3, <2>4, <2>8
    <3>2. projectOf[z] \in Projects /\ projectOf[z] # x
      BY <1>1, <1>3, <2>8, <3>1 DEF TypeOK
    <3>3. orgOf[projectOf[z]] # None
      BY <1>3, <2>3, <2>8, <3>1, <3>2, TablesAssumption DEF RowsThere, Exists
    <3> QED BY <2>2, <3>1, <3>2, <3>3 DEF Exists
  <2>9. ASSUME NEW d \in Deployments \ late', serviceOf'[d] # None PROVE Exists(serviceOf[d])'
    <3>1. serviceOf'[d] = serviceOf[d] /\ serviceOf[d] \notin gone /\ d \notin late
      BY <1>2, <2>5, <2>9
    <3>2. serviceOf[d] \in Services
      BY <1>3, <2>9, <3>1 DEF TypeOK
    <3>3. projectOf[serviceOf[d]] # None
      BY <1>3, <2>9, <3>1, <3>2, TablesAssumption DEF RowsThere, Exists
    <3>4. projectOf'[serviceOf[d]] # None
      BY <2>4, <3>1, <3>2, <3>3
    <3> QED BY <3>1, <3>2, <3>4 DEF Exists
  <2>10. RowsThere'
    BY <2>8, <2>9 DEF RowsThere
  <2>11. server = "nest" => \A p \in Projects \cap used : orgOf'[p] \in {orgOf[p], None}
    BY <2>2
  <2>12. server' = server /\ used \subseteq used'
    BY <1>2
  <2> QED BY <1>2, <2>1, <2>6, <2>7, <2>10, <2>11, <2>12, AnswerCollect
<1> QED BY <1>4, <1>5

\* A request arrives at the first step of its route, past no check.
LEMMA ArriveKeeps ==
    ASSUME IInv, NEW r \in Requests, req[r].pc = "new", NEW op \in DOMAIN Routes \cap Load[r].ops,
           NEW s \in Load[r].subjects, NEW x \in OfKind(Routes[op].kind),
               NEW path \in PathProjects(op, x),
           NEW move \in Orgs \cup {None}, NEW secret \in BOOLEAN,
           arrive(r, op, s, x, path, move, secret)
    PROVE  IInv'
<1>1. TypeOK /\ req \in [Requests -> Records] /\ server \in {"node", "nest"}
  BY DEF IInv, NoOrphans, TypeOK
<1>2. PICK y : y = [NoRequest EXCEPT !.pc = "running", !.op = op, !.subject = s,
                       !.target = x, !.path = path, !.project = path, !.move = move,
                           !.secret = secret,
                       !.i = 1]
  OBVIOUS
<1>3. y = [pc |-> "running", op |-> op, subject |-> s, target |-> x, path |-> path,
           move |-> move, secret |-> secret, i |-> 1, project |-> path,
           scoped |-> None, org |-> None, there |-> FALSE]
  BY <1>2 DEF NoRequest
<1>4. op \in DOMAIN NodeRoutes /\ Lawful(op, Routes[op])
  BY <1>1, RouteFacts
<1>5. s \in Subjects
  BY LoadAssumption
<1>6. x \in Targets \cup {None}
  BY DEF OfKind, Targets
<1>7. path \in Projects \cup {None}
  BY DEF PathProjects
<1>8. y \in Records
  BY <1>3, <1>4, <1>5, <1>6, <1>7 DEF Records
<1>9. /\ y.pc = "running" /\ y.op = op /\ y.subject = s /\ y.target = x
      /\ y.i = 1 /\ y.project = path
  BY <1>3
<1>10. ASSUME NEW step PROVE ~Past(y, step)
  BY <1>9 DEF Past
<1>11. Routed(y)
  <2>1. PICK S : S = Routes[op].steps
    OBVIOUS
  <2>2. Orderly(S)
    BY <1>1, <2>1, OrderFacts
  <2>3. y.i \in 1..Len(StepsOf(y))
    BY <1>9, <2>1, <2>2 DEF Orderly, StepsOf
  <2>4. Routes[op].kind = KindOf(op)
    BY <1>4 DEF Lawful
  <2>5. Routes[op].kind \in {"org", "project", "newService", "newResource"} =>
            op \notin {"createDeployment", "listEnvironment", "upsertEnvironment", "attachGitHub"}
    BY <2>4 DEF KindOf
  <2>6. Routes[op].kind = "org" => path = None
    <3> SUFFICES ASSUME Routes[op].kind = "org" PROVE path = None
      OBVIOUS
    <3>1. x \in Orgs
      BY DEF OfKind
    <3> QED BY <2>5, <3>1, TablesAssumption DEF PathProjects
  <2>7. Routes[op].kind \in {"project", "newService", "newResource"} => path = x
    <3> SUFFICES ASSUME Routes[op].kind \in {"project", "newService",
          "newResource"} PROVE path = x
      OBVIOUS
    <3>1. x \in Projects
      BY DEF OfKind
    <3> QED BY <2>5, <3>1 DEF PathProjects
  <2> QED BY <1>5, <1>9, <2>3, <2>6, <2>7 DEF Routed
<1>12. Steady(y)
  BY <1>9, <1>10, <1>11 DEF Steady, Cleared, Settled
<1>13. Here(y)
  BY <1>10 DEF Here, StillScoped, ParentThere
<1>14. /\ May(r) /\ req' = [req EXCEPT ![r] = y]
       /\ UNCHANGED <<server, orgOf, projectOf, serviceOf, used, late>>
  BY <1>2 DEF arrive
<1> QED BY <1>8, <1>12, <1>13, <1>14, Still

--------------------------------------------------------------------------------
(***************************************************************************)
(* The theorems                                                             *)
(***************************************************************************)
\* The initial state satisfies the inductive invariant.
LEMMA InitIInv == Init => IInv
<1> SUFFICES ASSUME Init PROVE IInv
  OBVIOUS
<1>1. NoRequest \in Records
  BY DEF NoRequest, Records
<1>2. \A r \in Requests : req[r] = NoRequest /\ req[r].pc = "new"
  BY DEF Init, NoRequest
<1>3. TypeOK
  BY <1>1, SetsAssumption DEF Init, TypeOK, Targets
<1>4. ASSUME NEW r \in Requests PROVE Steady(req[r]) /\ Here(req[r])
  BY <1>2 DEF Steady, Here, StillScoped, ParentThere
<1>5. RowsUsed
  BY DEF Init, RowsUsed
<1>6. Home # None /\ Work # None
  BY SetsAssumption DEF Targets
<1>7. \A y \in DOMAIN projectOf : projectOf[y] # None => Exists(projectOf[y])
  BY <1>6, SetsAssumption DEF Init, Exists
<1>8. \A d \in Deployments \ late : serviceOf[d] # None => Exists(serviceOf[d])
  BY <1>6, SetsAssumption DEF Init, Exists
<1> QED BY <1>3, <1>4, <1>5, <1>7, <1>8 DEF IInv, NoOrphans

\* Every step keeps it.
LEMMA NextIInv == IInv /\ [Next]_vars => IInv'
<1> SUFFICES ASSUME IInv, [Next]_vars PROVE IInv'
  OBVIOUS
<1>1. CASE UNCHANGED vars
  <2>1. UNCHANGED <<server, orgOf, projectOf, serviceOf, req, used, late>>
    BY <1>1 DEF vars
  <2>2. NoOrphans'
    BY <2>1 DEF IInv, NoOrphans, TypeOK, Exists
  <2>3. RowsUsed'
    BY <2>1 DEF IInv, RowsUsed
  <2>4. ASSUME NEW r \in Requests PROVE Steady(req[r])' /\ Here(req[r])'
    <3>1. Steady(req[r]) /\ Here(req[r])
      BY DEF IInv
    <3>2. Steady(req[r])'
      BY <2>1, <3>1 DEF Steady, Routed, Cleared, Settled, Past, StepsOf, Routes
    <3>3. Here(req[r])'
      BY <2>1, <3>1 DEF Here, StillScoped, ParentThere, Past, StepsOf, Routes, Exists
    <3> QED BY <3>2, <3>3
  <2> QED BY <2>2, <2>3, <2>4 DEF IInv
<1>2. CASE Next
  <2>1. PICK r \in Requests :
          \/ /\ req[r].pc = "new"
             /\ \E op \in DOMAIN Routes \cap Load[r].ops, s \in Load[r].subjects :
                   \E x \in OfKind(Routes[op].kind) : \E path \in PathProjects(op, x),
                      move \in (IF op = "updateProject" THEN Orgs \cup {None} ELSE {None}),
                      secret \in (IF op = "upsertEnvironment" THEN BOOLEAN ELSE {FALSE}) :
                         arrive(r, op, s, x, path, move, secret)
          \/ requireAction(r) \/ params(r) \/ requireScope(r) \/ assertAdmin(r)
          \/ assertSystemDeploymentActor(r) \/ assertEnvironmentWriteAllowed(r)
          \/ policy(r) \/ readJson(r) \/ find(r) \/ assertServiceInProject(r) \/ scope(r)
          \/ read(r) \/ changeAccount(r) \/ update(r) \/ checkedUpdate(r) \/ delete(r)
          \/ \E p \in Projects : createProject(r, p)
          \/ \E x \in Services \cup Resources : createChild(r, x)
          \/ \E d \in Deployments : createDeployment(r, d)
    BY <1>2 DEF Next
  <2>2. ASSUME req[r].pc = "new", NEW op \in DOMAIN Routes \cap Load[r].ops,
          NEW s \in Load[r].subjects,
               NEW x \in OfKind(Routes[op].kind), NEW path \in PathProjects(op, x),
               NEW move \in (IF op = "updateProject" THEN Orgs \cup {None} ELSE {None}),
               NEW secret \in (IF op = "upsertEnvironment" THEN BOOLEAN ELSE {FALSE}),
               arrive(r, op, s, x, path, move, secret)
        PROVE  IInv'
    <3>1. move \in Orgs \cup {None} /\ secret \in BOOLEAN
      OBVIOUS
    <3> QED BY <2>2, <3>1, ArriveKeeps
  <2>3. CASE \/ requireAction(r) \/ params(r) \/ requireScope(r) \/ assertAdmin(r)
             \/ assertSystemDeploymentActor(r) \/ assertEnvironmentWriteAllowed(r)
             \/ policy(r) \/ readJson(r)
    BY <2>3, CheckKeeps
  <2>4. CASE find(r)
    BY <2>4, FindKeeps
  <2>5. CASE assertServiceInProject(r)
    BY <2>5, InProjectKeeps
  <2>6. CASE scope(r)
    BY <2>6, ScopeKeeps
  <2>7. CASE read(r) \/ changeAccount(r)
    BY <2>7, ReadKeeps
  <2>8. CASE update(r)
    BY <2>8, UpdateKeeps
  <2>9. CASE checkedUpdate(r)
    BY <2>9, CheckedUpdateKeeps
  <2>10. CASE delete(r)
    BY <2>10, DeleteKeeps
  <2>11. ASSUME NEW p \in Projects, createProject(r, p) PROVE IInv'
    BY <2>11, CreateProjectKeeps
  <2>12. ASSUME NEW x \in Services \cup Resources, createChild(r, x) PROVE IInv'
    BY <2>12, CreateChildKeeps
  <2>13. ASSUME NEW d \in Deployments, createDeployment(r, d) PROVE IInv'
    BY <2>13, CreateDeploymentKeeps
  <2> QED BY <2>1, <2>2, <2>3, <2>4, <2>5, <2>6, <2>7, <2>8, <2>9, <2>10, <2>11, <2>12, <2>13
<1> QED BY <1>1, <1>2

\* The inductive invariant holds as long as requests are served.
LEMMA Invariance == Spec => []IInv
BY InitIInv, NextIInv, PTL DEF Spec

\* Every field of a request and every table has its type, whatever is created, moved or deleted
\* while requests are served.
THEOREM TypeCorrect == Spec => []TypeOK
<1>1. IInv => TypeOK
  BY DEF IInv, NoOrphans
<1> QED BY <1>1, Invariance, PTL

\* No service or resource without its project and, but for the one route of the node server that
\* does not look again after the body, no deployment without its service.
THEOREM RowsHaveParents == Spec => []NoOrphans
<1>1. IInv => NoOrphans
  BY DEF IInv
<1> QED BY <1>1, Invariance, PTL

\* A request that is answered as done changed a row that was there.
THEOREM ChangesReachRows == Spec => []UpdatesReachRows
<1>1. IInv => UpdatesReachRows
  BY DEF IInv, UpdatesReachRows, Changes, Steady, Settled, Route
<1> QED BY <1>1, Invariance, PTL

\* What is read or changed belongs to the caller's organizations or projects.
THEOREM AnswersInScope == Spec => []InScope
<1>1. ASSUME IInv, NEW r \in Requests, req[r].pc = "done", Route(r).kind \notin {"none",
        "account"}
      PROVE  \/ req[r].subject.global \/ req[r].project \in req[r].subject.projects
             \/ req[r].org \in req[r].subject.orgs \cup {None}
             \/ server = "node" /\ (req[r].op \in Unscoped \/ req[r].scoped # req[r].org)
  <2>1. Settled(req[r])
    BY <1>1 DEF IInv, Steady
  <2> QED BY <1>1, <2>1 DEF Settled, Route
<1>2. IInv => InScope
  BY <1>1 DEF InScope
<1> QED BY <1>2, Invariance, PTL

\* The role that passed one server's check passes the other's.
THEOREM RolesAgree == Spec => []ServersAgree
<1>1. ASSUME IInv, NEW r \in Requests, req[r].pc = "done",
             req[r].op \in DOMAIN NodeRoutes \cap DOMAIN RequirePermission,
             req[r].op \notin Differences \cup {"me", "logout"}
      PROVE  can(req[r].subject.role, NodeRoutes[req[r].op].action)
                /\ can(req[r].subject.role, RequirePermission[req[r].op])
  <2> DEFINE x == req[r]
  <2>1. server \in {"node", "nest"} /\ Steady(x)
    BY <1>1 DEF IInv, NoOrphans, TypeOK
  <2>2. x.op \in DOMAIN Routes /\ x.i = Len(StepsOf(x)) /\ Cleared(x)
    BY <1>1, <2>1 DEF Steady, Routed, Settled
  <2>3. Lawful(x.op, Routes[x.op])
    BY <2>1, <2>2, RouteFacts
  <2>4. Makes(StepsOf(x), "auth") /\ Routes[x.op].action = Needs(x.op)
    BY <1>1, <2>3 DEF Lawful, Guarded, StepsOf
  <2>5. Past(x, "auth")
    BY <2>2, <2>4 DEF Makes, Past
  <2>6. can(x.subject.role, Needs(x.op))
    BY <2>2, <2>4, <2>5 DEF Cleared
  <2>7. NodeRoutes[x.op].action = Needs(x.op)
    BY <1>1, NodeTable DEF NodeRoute
  <2>8. RequirePermission[x.op] = Needs(x.op)
    BY <1>1, PermissionTable
  <2> QED BY <2>6, <2>7, <2>8
<1>2. IInv => ServersAgree
  BY <1>1 DEF ServersAgree
<1> QED BY <1>2, Invariance, PTL
================================================================================
