------------------------------- MODULE Tenancy -------------------------------
(***************************************************************************)
(* Accounts, organizations and quotas behind the API: signup, login and    *)
(* the creating requests of RaibitserverService, with the repository calls *)
(* they await (persistence.ts; store.ts where the in-memory store differs) *)
(* and the policies of identity.ts, auth.ts and quota.ts.                  *)
(*                                                                         *)
(* An account is its email, an organization its slug, a password the       *)
(* signup that chose it.  Requests run in steps, one per await.  Names,    *)
(* plans, audit records and the content of tokens beyond the claims used   *)
(* here are left out.                                                      *)
(***************************************************************************)
EXTENDS Naturals, FiniteSets, FiniteSetsExt

CONSTANTS
    Emails, Slugs, Names,   \* accounts, organizations, project names
    Requests,               \* API requests, each served once
    AdminEmails,            \* ADMIN_EMAILS
    Sizes,                  \* storage requests: a unit and a number
    Limits,                 \* limits an administrator may set
    Scenarios,              \* initial databases and the operations clients send
    MaxAdmin, MaxFaults,    \* bounds on administrator calls and on failures
    None

Metrics  == {"maxProjects", "maxDeploymentsPerDay", "maxPreviewDeployments", "maxDbStorageMb"}
Projects == Slugs \X Names

ASSUME SizesAssumption == Sizes \subseteq [unit : {"Mb", "Gb"}, n : Nat \ {0}]
ASSUME LimitsAssumption == Limits \subseteq [Metrics -> Nat]
ASSUME BoundsAssumption == MaxAdmin \in Nat /\ MaxFaults \in Nat

User  == [role : {"USER", "ADMIN"}, accountType : {"NON_CLUB", "CLUB_MEMBER"},
          approval : {"PENDING", "APPROVED", "REJECTED"}, password : Requests \cup {None},
          born : Nat]
Token == [user : Emails, orgs : SUBSET Slugs, userRole : {"USER", "ADMIN"},
          approval : {"PENDING", "APPROVED", "REJECTED"}]

ASSUME SetsAssumption == AdminEmails \subseteq Emails /\ None \notin Requests /\ None \notin Token

VARIABLES
    config,    \* production or not, Prisma or memory, the operations clients send
    users,     \* the User table, a function on the emails that have an account
    orgs,      \* the Organization table
    members,   \* the Membership table
    rows,      \* projects, deployments and resources, with the account that created them
    quota,     \* the Quota table, a function on the accounts that have a row
    tokens,    \* session tokens handed out
    req,       \* requests in progress
    promoted,  \* accounts an administrator made ADMIN
    admin, faults

vars == <<config, users, orgs, members, rows, quota, tokens, req, promoted, admin, faults>>

Signup   == {"slug", "org", "users", "create", "member"}
Login    == {"reading", "promote", "answer"}
Creating == {"access", "check", "check2", "write"}
Pending  == Signup \cup Login \cup Creating

Row == [kind : {"project", "production", "preview", "resource"}, project : Projects,
        mb : Nat, by : Emails, request : Requests \cup {None}]

NoRequest == [pc |-> "new", op |-> "none", email |-> None, slug |-> None, name |-> None,
              preview |-> FALSE, size |-> None, invite |-> FALSE, first |-> FALSE,
              token |-> None, user |-> None, with |-> {}, raced |-> FALSE, limit |-> 0,
              stopped |-> FALSE]

Request == [pc : {"new", "done", "refused", "failed"} \cup Pending,
            op : {"none", "signup", "login", "project", "deploy", "resource"},
            email : Emails \cup {None}, slug : Slugs \cup {None}, name : Names \cup {None},
            preview : BOOLEAN, size : Sizes \cup {None}, invite : BOOLEAN, first : BOOLEAN,
            token : Token \cup {None}, user : User \cup {None}, with : SUBSET Requests,
            raced : BOOLEAN, limit : Nat, stopped : BOOLEAN]

\* A scenario is what an installation holds while no request is in progress: organizations
\* have members, and tokens and rows belong to members.  The passwords in it are nobody's of
\* the requests to come.
ASSUME ScenariosAssumption ==
    \A s \in Scenarios :
        /\ s.config.production \in BOOLEAN /\ s.config.default \in [Metrics -> Nat]
        /\ DOMAIN s.users \subseteq Emails /\ IsFiniteSet(DOMAIN s.users)
        /\ \A e \in DOMAIN s.users : s.users[e] \in User /\ s.users[e].password = None
        /\ s.orgs \subseteq Slugs /\ s.members \subseteq s.orgs \X DOMAIN s.users
        /\ \A o \in s.orgs : \E e \in Emails : <<o, e>> \in s.members
        /\ s.tokens \subseteq Token /\ \A t \in s.tokens : \A o \in t.orgs : <<o, t.user>> \in s.members
        /\ s.rows \subseteq Row /\ IsFiniteSet(s.rows) /\ \A x \in s.rows : <<x.project[1], x.by>> \in s.members

TypeOK ==
    /\ DOMAIN users \subseteq Emails /\ \A e \in DOMAIN users : users[e] \in User
    /\ orgs \subseteq Slugs
    /\ members \subseteq orgs \X DOMAIN users
    /\ rows \subseteq Row
    /\ DOMAIN quota \subseteq Emails /\ \A e \in DOMAIN quota : quota[e] \in [Metrics -> Nat]
    /\ tokens \subseteq Token
    /\ req \in [Requests -> Request]
    /\ promoted \subseteq Emails
    /\ admin \in 0..MaxAdmin /\ faults \in 0..MaxFaults

Init ==
    \E s \in Scenarios :
        /\ config = s.config
        /\ users = s.users /\ orgs = s.orgs /\ members = s.members /\ tokens = s.tokens
        /\ rows = s.rows /\ quota = << >> /\ promoted = {e \in DOMAIN s.users : s.users[e].role = "ADMIN"}
        /\ req = [r \in Requests |-> NoRequest]
        /\ admin = 0 /\ faults = 0

--------------------------------------------------------------------------------
Put(f, k, v) == [x \in DOMAIN f \cup {k} |-> IF x = k THEN v ELSE f[x]]

Arrives(r) == req[r].pc = "new" /\ \A q \in Requests : q < r => req[q].pc # "new"
Goto(r, pc) == req' = [req EXCEPT ![r].pc = pc]

At(r, op, pc) == req[r].op = op /\ req[r].pc = pc

--------------------------------------------------------------------------------
(***************************************************************************)
(* Signup                                                                  *)
(***************************************************************************)

\* Variant: the first account and administrators' emails, everywhere.
bootstrapWithoutInvite(email, invite, firstUser) == firstUser \/ email \in AdminEmails

\* signupPolicyForAccount: in production an administrator's email with the invite token, else
\* the first account or an administrator's email.
IsAdminBootstrap(email, invite, firstUser) ==
    IF config.production THEN invite /\ email \in AdminEmails
                         ELSE firstUser \/ email \in AdminEmails

signupPolicyForAccount(r) ==
    LET boot == IsAdminBootstrap(req[r].email, req[r].invite, req[r].first) IN
    [role |-> IF boot THEN "ADMIN" ELSE "USER", accountType |-> "NON_CLUB",
     approval |-> IF boot THEN "APPROVED" ELSE "PENDING"]

\* Variant: an existing account is not looked for.
signupAgain(r, email, slug, invite) ==
    /\ Arrives(r) /\ "signup" \in config.ops
    /\ req' = [req EXCEPT ![r] = [NoRequest EXCEPT !.op = "signup", !.email = email, !.slug = slug,
                                     !.invite = invite, !.pc = "slug"]]
    /\ UNCHANGED <<config, users, orgs, members, rows, quota, tokens, promoted, admin, faults>>

\* The account must not exist; the organization is looked up next.
signup(r, email, slug, invite) ==
    LET current == {q \in Requests : req[q].op = "signup" /\ req[q].pc \in Signup} IN
    /\ Arrives(r) /\ "signup" \in config.ops
    /\ req' = [q \in Requests |->
          IF q = r
          THEN [NoRequest EXCEPT !.op = "signup", !.email = email, !.slug = slug,
                                 !.invite = invite, !.with = current,
                                 !.pc = IF email \in DOMAIN users THEN "refused" ELSE "slug"]
          ELSE IF q \in current THEN [req[q] EXCEPT !.with = @ \cup {r}] ELSE req[q]]
    /\ UNCHANGED <<config, users, orgs, members, rows, quota, tokens, promoted, admin, faults>>

findOrganizationBySlug(r) ==
    /\ At(r, "signup", "slug")
    /\ Goto(r, IF req[r].slug \in orgs THEN "refused" ELSE "org")
    /\ UNCHANGED <<config, users, orgs, members, rows, quota, tokens, promoted, admin, faults>>

\* An upsert: an organization somebody created meanwhile is taken over.
createOrganization(r) ==
    /\ At(r, "signup", "org")
    /\ orgs' = orgs \cup {req[r].slug}
    /\ Goto(r, "users")
    /\ UNCHANGED <<config, users, members, rows, quota, tokens, promoted, admin, faults>>

\* Variant: an account that appeared meanwhile ends the signup here.
countUsersRefusing(r) ==
    /\ At(r, "signup", "users")
    /\ req' = [req EXCEPT ![r].pc = IF req[r].email \in DOMAIN users THEN "refused" ELSE "create",
                          ![r].first = (DOMAIN users = {})]
    /\ UNCHANGED <<config, users, orgs, members, rows, quota, tokens, promoted, admin, faults>>

\* usersForRepository: is this the first account?
countUsers(r) ==
    /\ At(r, "signup", "users")
    /\ req' = [req EXCEPT ![r].pc = "create", ![r].first = (DOMAIN users = {})]
    /\ UNCHANGED <<config, users, orgs, members, rows, quota, tokens, promoted, admin, faults>>

\* An upsert: the account of a concurrent signup is overwritten, password and role included.
createUser(r) ==
    /\ At(r, "signup", "create")
    /\ LET e == req[r].email
           p == signupPolicyForAccount(r)
       IN /\ users' = Put(users, e, [role |-> p.role, accountType |-> p.accountType,
                            approval |-> p.approval, password |-> r,
                            born |-> IF e \in DOMAIN users THEN users[e].born
                                     ELSE Cardinality(DOMAIN users)])
          /\ req' = [q \in Requests |->
                IF q = r THEN [req[r] EXCEPT !.pc = "member"]
                ELSE IF req[q].token # None /\ req[q].token.user = e
                THEN [req[q] EXCEPT !.stopped = FALSE] ELSE req[q]]
    /\ UNCHANGED <<config, orgs, members, rows, quota, tokens, promoted, admin, faults>>

TokenFor(e, user, slugs) ==
    [user |-> e, orgs |-> slugs, userRole |-> user.role, approval |-> user.approval]

\* The membership and the answer, with a token made from the row as it was created.  Whatever
\* the organization holds counts from now on in the usage of the account.
addMember(r) ==
    /\ At(r, "signup", "member")
    /\ members' = members \cup {<<req[r].slug, req[r].email>>}
    /\ tokens' = tokens \cup {TokenFor(req[r].email, signupPolicyForAccount(r), {req[r].slug})}
    /\ req' = [q \in Requests |->
          IF q = r THEN [req[r] EXCEPT !.pc = "done"]
          ELSE IF req[q].token # None /\ req[q].token.user = req[r].email
          THEN [req[q] EXCEPT !.raced = TRUE] ELSE req[q]]
    /\ UNCHANGED <<config, users, orgs, rows, quota, promoted, admin, faults>>

--------------------------------------------------------------------------------
(***************************************************************************)
(* Login                                                                   *)
(***************************************************************************)

\* A wrong password is refused.
login(r, email) ==
    /\ Arrives(r) /\ "login" \in config.ops
    /\ \/ /\ email \in DOMAIN users
          /\ req' = [req EXCEPT ![r] = [NoRequest EXCEPT !.op = "login", !.email = email,
                                           !.user = users[email], !.pc = "promote"]]
       \/ req' = [req EXCEPT ![r] = [NoRequest EXCEPT !.op = "login", !.email = email,
                                        !.pc = "refused"]]
    /\ UNCHANGED <<config, users, orgs, members, rows, quota, tokens, promoted, admin, faults>>

\* Outside production the oldest account becomes administrator when there is none.
shouldPromoteFirstLogin(r) ==
    /\ ~config.production /\ req[r].user.role # "ADMIN"
    /\ \A e \in DOMAIN users : users[e].role # "ADMIN"
    /\ \A e \in DOMAIN users : users[req[r].email].born <= users[e].born

Approved(user, accountType, role) ==
    [user EXCEPT !.approval = "APPROVED", !.accountType = accountType, !.role = role]

\* In memory an approval resets the limits; in Prisma an existing row keeps them.
QuotaAfterApproval(e, accountType) ==
    IF accountType # "NON_CLUB" \/ (config.backend = "prisma" /\ e \in DOMAIN quota) THEN quota
    ELSE Put(quota, e, config.default)

promoteFirstLogin(r) ==
    /\ At(r, "login", "promote")
    /\ IF shouldPromoteFirstLogin(r)
       THEN LET e == req[r].email
                u == Approved(users[e], "NON_CLUB", "ADMIN")
            IN /\ users' = [users EXCEPT ![e] = u]
               /\ quota' = QuotaAfterApproval(e, "NON_CLUB")
               /\ req' = [req EXCEPT ![r].pc = "answer", ![r].user = u]
       ELSE Goto(r, "answer") /\ UNCHANGED <<users, quota>>
    /\ UNCHANGED <<config, orgs, members, rows, tokens, promoted, admin, faults>>

\* listMembershipsForUser, createSessionToken.
answerLogin(r) ==
    /\ At(r, "login", "answer")
    /\ tokens' = tokens \cup {TokenFor(req[r].email, req[r].user,
                                       {s \in Slugs : <<s, req[r].email>> \in members})}
    /\ Goto(r, "done")
    /\ UNCHANGED <<config, users, orgs, members, rows, quota, promoted, admin, faults>>

--------------------------------------------------------------------------------
(***************************************************************************)
(* Creating requests                                                       *)
(***************************************************************************)
Stopped(e) == e \in DOMAIN users /\ users[e].approval = "REJECTED"

Start(r, op, t, slug, name, size, preview) ==
    /\ Arrives(r) /\ op \in config.ops
    /\ req' = [req EXCEPT ![r] = [NoRequest EXCEPT !.op = op, !.token = t, !.slug = slug,
                                     !.name = name, !.size = size, !.preview = preview,
                                     !.pc = "access", !.stopped = Stopped(t.user)]]
    /\ UNCHANGED <<config, users, orgs, members, rows, quota, tokens, promoted, admin, faults>>

createProject(r, t, slug, name)          == Start(r, "project", t, slug, name, None, FALSE)
createDeployment(r, t, p, preview)       == Start(r, "deploy", t, p[1], p[2], None, preview)
addResource(r, t, p, size)               == Start(r, "resource", t, p[1], p[2], size, FALSE)

ProjectOf(r) == <<req[r].slug, req[r].name>>
ProjectRows  == {x \in rows : x.kind = "project"}
ProjectsNow  == {x.project : x \in ProjectRows}

\* enforceScope for a new project, assertProjectAccess for an existing one.
assertProjectAccess(r) ==
    /\ req[r].pc = "access"
    /\ Goto(r, IF /\ req[r].slug \in req[r].token.orgs
                  /\ req[r].op = "project" \/ ProjectOf(r) \in ProjectsNow
               THEN "check" ELSE "refused")
    /\ UNCHANGED <<config, users, orgs, members, rows, quota, tokens, promoted, admin, faults>>

MetricOf(r) ==
    CASE req[r].op = "project"  -> "maxProjects"
      [] req[r].op = "resource" -> "maxDbStorageMb"
      [] OTHER -> IF req[r].preview /\ req[r].pc # "check" THEN "maxPreviewDeployments"
                                                          ELSE "maxDeploymentsPerDay"

\* resourceStorageMb, added up.
Storage(resources) == MapThenSumSet(LAMBDA x : x.mb, resources)

\* quotaUsageForUser: what there is in the organizations of the account.
Usage(e, metric) ==
    LET mine == {x \in rows : <<x.project[1], e>> \in members /\ x.project \in ProjectsNow} IN
    CASE metric = "maxProjects" -> Cardinality({x.project : x \in mine})
      [] metric = "maxDeploymentsPerDay" ->
            Cardinality({x \in mine : x.kind \in {"production", "preview"}})
      [] metric = "maxPreviewDeployments" -> Cardinality({x \in mine : x.kind = "preview"})
      [] metric = "maxDbStorageMb" -> Storage({x \in mine : x.kind = "resource"})

\* The API adds a number of megabytes or of gigabytes as it comes.
Increment(r) == IF req[r].op = "resource" THEN req[r].size.n ELSE 1

LimitOf(e, metric) == (IF e \in DOMAIN quota THEN quota[e] ELSE config.default)[metric]

Unlimited(e) == users[e].role = "ADMIN" \/ users[e].accountType = "CLUB_MEMBER"

\* Variant: the token's claim is believed.
userMayCreateByToken(r, e) == req[r].token.approval = "APPROVED"

UserMayCreate(r, e) == users[e].approval = "APPROVED"

\* Variant: the increment is forgotten.
withinQuotaBefore(r, e) == Usage(e, MetricOf(r)) <= LimitOf(e, MetricOf(r))

WithinQuota(r, e) == Usage(e, MetricOf(r)) + Increment(r) <= LimitOf(e, MetricOf(r))

AfterCheck(r) ==
    IF req[r].op = "deploy" /\ req[r].preview /\ req[r].pc = "check" THEN "check2" ELSE "write"

\* One call of enforceUserCan; its reads are taken together.
enforceUserCan(r) ==
    LET e == req[r].token.user IN
    /\ req[r].pc \in {"check", "check2"}
    /\ IF e \notin DOMAIN users \/ Unlimited(e)
       THEN req' = [req EXCEPT ![r].pc = AfterCheck(r), ![r].limit = 0] /\ UNCHANGED quota
       ELSE IF ~UserMayCreate(r, e)
       THEN Goto(r, "refused") /\ UNCHANGED quota
       ELSE /\ quota' = IF e \in DOMAIN quota THEN quota ELSE Put(quota, e, config.default)
            /\ req' = [req EXCEPT ![r].pc = IF WithinQuota(r, e) THEN AfterCheck(r) ELSE "refused",
                                  ![r].limit = LimitOf(e, MetricOf(r)),
                                  ![r].raced = FALSE]
    /\ UNCHANGED <<config, users, orgs, members, rows, tokens, promoted, admin, faults>>

\* resourceStorageMb: gigabytes count 1024 megabytes each, once the row is there.
Mb(size) == IF size.unit = "Gb" THEN 1024 * size.n ELSE size.n

NewRow(r) ==
    [kind |-> CASE req[r].op = "project" -> "project" [] req[r].op = "resource" -> "resource"
                [] OTHER -> IF req[r].preview THEN "preview" ELSE "production",
     project |-> ProjectOf(r), by |-> req[r].token.user,
     mb |-> IF req[r].op = "resource" THEN Mb(req[r].size) ELSE 0, request |-> r]

\* A project is an upsert; the rest needs its project, except in memory.
Creates(r) == IF req[r].op = "project" THEN ProjectOf(r) \notin ProjectsNow
              ELSE ProjectOf(r) \in ProjectsNow \/ config.backend = "memory"

write(r) ==
    /\ req[r].pc = "write"
    /\ IF Creates(r)
       THEN /\ rows' = rows \cup {NewRow(r)}
            /\ req' = [q \in Requests |->
                  IF q = r THEN [req[r] EXCEPT !.pc = "done"]
                  ELSE IF req[q].pc \in Creating THEN [req[q] EXCEPT !.raced = TRUE] ELSE req[q]]
       ELSE Goto(r, IF req[r].op = "project" THEN "done" ELSE "failed") /\ UNCHANGED rows
    /\ UNCHANGED <<config, users, orgs, members, quota, tokens, promoted, admin, faults>>

\* The project's rows go with it.
deleteProject(p) ==
    /\ p \in ProjectsNow /\ admin < MaxAdmin /\ admin' = admin + 1
    /\ rows' = {x \in rows : x.project # p}
    /\ UNCHANGED <<config, users, orgs, members, quota, tokens, req, promoted, faults>>

--------------------------------------------------------------------------------
(***************************************************************************)
(* Administrators; assertAdmin believes the token                          *)
(***************************************************************************)
AdminCall == /\ admin < MaxAdmin /\ admin' = admin + 1
             /\ \E t \in tokens : t.userRole = "ADMIN"

approveUser(e, accountType, role) ==
    /\ AdminCall /\ e \in DOMAIN users
    /\ users' = [users EXCEPT ![e] = Approved(@, accountType, role)]
    /\ quota' = QuotaAfterApproval(e, accountType)
    /\ promoted' = IF role = "ADMIN" THEN promoted \cup {e} ELSE promoted
    /\ req' = [q \in Requests |-> IF req[q].token # None /\ req[q].token.user = e
                                  THEN [req[q] EXCEPT !.stopped = FALSE] ELSE req[q]]
    /\ UNCHANGED <<config, orgs, members, rows, tokens, faults>>

rejectUser(e) ==
    /\ AdminCall /\ e \in DOMAIN users
    /\ users' = [users EXCEPT ![e].approval = "REJECTED"]
    /\ UNCHANGED <<config, orgs, members, rows, quota, tokens, req, promoted, faults>>

setQuota(e, limits) ==
    /\ AdminCall /\ e \in DOMAIN users
    /\ quota' = Put(quota, e, limits)
    /\ UNCHANGED <<config, users, orgs, members, rows, tokens, req, promoted, faults>>

\* A repository call fails: the request ends where it is.
fail(r) ==
    /\ req[r].pc \in Pending
    /\ faults < MaxFaults /\ faults' = faults + 1
    /\ Goto(r, "failed")
    /\ UNCHANGED <<config, users, orgs, members, rows, quota, tokens, promoted, admin>>

Next ==
    \/ \E r \in Requests :
          \/ \E e \in Emails, s \in Slugs, invite \in BOOLEAN : signup(r, e, s, invite)
          \/ findOrganizationBySlug(r) \/ createOrganization(r) \/ countUsers(r)
          \/ createUser(r) \/ addMember(r)
          \/ \E e \in Emails : login(r, e)
          \/ promoteFirstLogin(r) \/ answerLogin(r)
          \/ \E t \in tokens, s \in Slugs, n \in Names : createProject(r, t, s, n)
          \/ \E t \in tokens, p \in ProjectsNow, preview \in BOOLEAN : createDeployment(r, t, p, preview)
          \/ \E t \in tokens, p \in ProjectsNow, size \in Sizes : addResource(r, t, p, size)
          \/ assertProjectAccess(r) \/ enforceUserCan(r) \/ write(r) \/ fail(r)
    \/ \E p \in Projects : deleteProject(p)
    \/ \E e \in Emails :
          \/ \E a \in {"NON_CLUB", "CLUB_MEMBER"}, role \in {"USER", "ADMIN"} : approveUser(e, a, role)
          \/ rejectUser(e)
          \/ \E l \in Limits : setQuota(e, l)

Spec == Init /\ [][Next]_vars

--------------------------------------------------------------------------------
(***************************************************************************)
(* Properties                                                              *)
(***************************************************************************)
Answered(r) == req[r].op = "signup" /\ req[r].pc = "done"

\* Signups check and create in separate awaits, and both creations are upserts.  Unless another
\* signup for the same email was under way at the same time, an account keeps the password its
\* owner chose; unless one for the same slug was, an organization has one member.
SignupsDoNotCollide ==
    \A r \in Requests : Answered(r) =>
        /\ (\A q \in req[r].with : req[q].email # req[r].email) =>
              users[req[r].email].password = r
        /\ (\A q \in req[r].with : req[q].slug # req[r].slug) =>
              {e \in Emails : <<req[r].slug, e>> \in members} = {req[r].email}

\* Nobody is ADMIN by accident: in production an administrator was invited or was promoted by
\* one; outside it may also be the first account, and there are two such only when their
\* signups overlapped (countUsers and createUser are two awaits).
AdminsAccounted ==
    LET Own(e)  == {r \in Requests : req[r].op = "signup" /\ req[r].email = e}
        self    == {e \in DOMAIN users : users[e].role = "ADMIN" /\ e \notin promoted}
        Invited(e) == e \in AdminEmails /\ (config.production => \E r \in Own(e) : req[r].invite)
    IN /\ config.production => \A e \in self : Invited(e)
       /\ \A e, f \in {x \in self : ~Invited(x)} : e # f =>
             \/ \E r \in Own(e), q \in Own(f) : q \in req[r].with
             \/ \E r \in Requests : req[r].op = "login"

\* An organization is never left without a member, unless a repository call failed between
\* createOrganization and addMember; and everything in it was created by one of its members.
OrganizationsAreOwned ==
    /\ TypeOK
    /\ faults = 0 /\ (\A r \in Requests : req[r].pc \notin Signup) =>
          \A s \in orgs : \E e \in Emails : <<s, e>> \in members
    /\ \A x \in rows : <<x.project[1], x.by>> \in members

\* A rejected account creates nothing with the tokens it still holds: a request that arrived
\* after the rejection, and before any new approval, is refused (enforceUserCan reads the
\* database, not the claims), administrators and club members apart.
RejectedIsStopped ==
    \A r \in Requests : req[r].stopped /\ req[r].pc = "done" /\ req[r].op # "login" =>
        Unlimited(req[r].token.user)

\* The quota holds at every write that nothing slipped in front of, no write of another request
\* and no organization that a concurrent signup gave to the account: after it the usage is
\* within the limit the last check saw.  Sizes in gigabytes are left out: the check adds
\* the bare number (see the README).
QuotaHeldUnlessRaced ==
    [][\A r \in Requests :
          req[r].pc = "write" /\ req'[r].pc = "done" /\ ~req[r].raced /\ req[r].limit > 0
             /\ (req[r].op = "resource" => req[r].size.unit = "Mb") =>
          Usage(req[r].token.user, MetricOf(r))' <= req[r].limit]_vars
================================================================================
