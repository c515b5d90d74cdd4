----------------------------- MODULE TenancyProofs -----------------------------
(***************************************************************************)
(* Proofs about Tenancy, for any number of requests, accounts and          *)
(* organizations, every initial database, policy and quota, both           *)
(* repositories, and any number of administrator calls and faults.         *)
(***************************************************************************)
EXTENDS Tenancy, FiniteSetTheorems, NaturalsInduction, WellFoundedInduction, TLAPS

USE SetsAssumption, SizesAssumption, LimitsAssumption, BoundsAssumption

--------------------------------------------------------------------------------
(***************************************************************************)
(* The inductive invariant                                                 *)
(***************************************************************************)
CreatingOps == {"project", "deploy", "resource"}

\* The memberships that a token claims are real.
Owned(t) == \A s \in t.orgs : <<s, t.user>> \in members

\* The fields of a request that its operation uses are there.
Shape(r) ==
    /\ req[r].pc = "new" <=> req[r].op = "none"
    /\ req[r].pc \in Signup => req[r].op = "signup"
    /\ req[r].pc \in Login => req[r].op = "login"
    /\ req[r].pc \in Creating => req[r].op \in CreatingOps
    /\ req[r].op = "signup" => req[r].email \in Emails /\ req[r].slug \in Slugs
    /\ req[r].op # "signup" => req[r].with = {}
    /\ req[r].pc \in {"promote", "answer"} => req[r].user \in User /\ req[r].email \in DOMAIN users
    /\ req[r].op \in CreatingOps =>
          /\ req[r].token \in Token /\ Owned(req[r].token)
          /\ req[r].slug \in Slugs /\ req[r].name \in Names
          /\ req[r].op = "resource" => req[r].size \in Sizes
          /\ req[r].pc \in {"check", "check2", "write"} => req[r].slug \in req[r].token.orgs

TypeInv ==
    /\ TypeOK
    /\ IsFiniteSet(DOMAIN users)
    /\ config.production \in BOOLEAN /\ config.default \in [Metrics -> Nat]
    /\ \A r \in Requests : Shape(r)

\* Signups remember each other when they overlap, and only then.
WithInv ==
    /\ \A q, r \in Requests : q \in req[r].with => r \in req[q].with /\ req[q].op = "signup"
    /\ \A q, r \in Requests : q # r /\ req[q].pc \in Signup /\ req[r].pc \in Signup => q \in req[r].with

SlugMate(r)  == \E q \in req[r].with : req[q].slug = req[r].slug
EmailMate(r) == \E q \in req[r].with : req[q].email = req[r].email

\* A signup that looked its slug up has it for itself, unless another was doing the same.
SlugInv(r) ==
    req[r].op = "signup" =>
        /\ req[r].pc = "org" /\ ~SlugMate(r) => req[r].slug \notin orgs
        /\ req[r].pc \in {"users", "create", "member", "done"} => req[r].slug \in orgs
        /\ req[r].pc \in {"users", "create", "member"} /\ ~SlugMate(r) =>
              \A e \in Emails : <<req[r].slug, e>> \notin members
        /\ req[r].pc = "done" /\ ~SlugMate(r) =>
              \A e \in Emails : <<req[r].slug, e>> \in members <=> e = req[r].email

\* The same for the email, whose account is looked for before anything else.
EmailInv(r) ==
    req[r].op = "signup" =>
        /\ req[r].pc \in {"slug", "org", "users", "create"} /\ ~EmailMate(r) =>
              req[r].email \notin DOMAIN users
        /\ req[r].pc \in {"member", "done"} =>
              /\ req[r].email \in DOMAIN users
              /\ ~EmailMate(r) => users[req[r].email].password = r

\* A signup that got past its lookups while r, answered, has the slug or the email, overlapped r.
PairInv(q, r) ==
    req[r].op = "signup" /\ req[r].pc = "done" =>
        /\ req[q].pc \in Signup \ {"slug"} /\ req[q].slug = req[r].slug => q \in req[r].with
        /\ req[q].pc \in Signup /\ req[q].email = req[r].email => q \in req[r].with

CollideInv ==
    /\ \A r \in Requests : SlugInv(r) /\ EmailInv(r)
    /\ \A q, r \in Requests : PairInv(q, r)

\* The password of an account tells the signup that wrote the row.
OwnerInv(e) ==
    users[e].password # None =>
        /\ req[users[e].password].op = "signup" /\ req[users[e].password].email = e
        /\ req[users[e].password].pc \in {"member", "done", "failed"}

Promoting == ~config.production /\ \E r \in Requests : req[r].op = "login"

\* An administrator that nobody made one is so by the policy of its signup.
AdminInv(e) ==
    users[e].role = "ADMIN" /\ e \notin promoted /\ ~Promoting =>
        LET r == users[e].password IN
        /\ r # None
        /\ IsAdminBootstrap(e, req[r].invite, req[r].first)

\* Whoever counted no account overlapped every signup that wrote one since.
FirstInv(q) ==
    /\ req[q].first => req[q].pc \notin {"new", "slug", "org", "users"} /\ req[q].op = "signup"
    /\ req[q].first /\ req[q].pc = "create" =>
          \A e \in DOMAIN users : users[e].password \in req[q].with

FirstPair(e, f) ==
    LET r == users[e].password
        q == users[f].password
    IN  r # None /\ q # None /\ req[r].first /\ req[q].first => q \in req[r].with

AccountInv ==
    /\ \A e \in DOMAIN users : OwnerInv(e) /\ AdminInv(e)
    /\ \A q \in Requests : FirstInv(q)
    /\ \A e, f \in DOMAIN users : e # f => FirstPair(e, f)

OrgInv ==
    /\ faults = 0 => \A s \in orgs :
          \/ \E e \in Emails : <<s, e>> \in members
          \/ \E r \in Requests : req[r].slug = s /\ req[r].pc \in {"users", "create", "member"}
    /\ \A x \in rows : <<x.project[1], x.by>> \in members
    /\ \A t \in tokens : Owned(t)

\* A stopped account stays rejected or was made administrator, and gets past no check otherwise.
StopInv(r) ==
    req[r].stopped =>
        /\ req[r].op \in CreatingOps
        /\ req[r].token.user \in DOMAIN users
        /\ users[req[r].token.user].approval = "REJECTED" \/ Unlimited(req[r].token.user)
        /\ req[r].pc \in {"check2", "write", "done"} => Unlimited(req[r].token.user)

IInv ==
    /\ TypeInv
    /\ WithInv
    /\ CollideInv
    /\ AccountInv
    /\ OrgInv
    /\ \A r \in Requests : StopInv(r)

--------------------------------------------------------------------------------
(***************************************************************************)
(* Records and tables                                                      *)
(***************************************************************************)

\* The tables are well typed.
TablesOK ==
    /\ DOMAIN users \subseteq Emails /\ IsFiniteSet(DOMAIN users)
    /\ \A e \in DOMAIN users : users[e] \in User
    /\ orgs \subseteq Slugs /\ members \subseteq orgs \X DOMAIN users /\ rows \subseteq Row
    /\ DOMAIN quota \subseteq Emails /\ \A e \in DOMAIN quota : quota[e] \in [Metrics -> Nat]
    /\ tokens \subseteq Token /\ promoted \subseteq Emails
    /\ admin \in 0..MaxAdmin /\ faults \in 0..MaxFaults
    /\ config.production \in BOOLEAN /\ config.default \in [Metrics -> Nat]

\* Types are those of the tables and those of the requests.
LEMMA TypeSplit ==
    TypeInv <=> TablesOK /\ req \in [Requests -> Request] /\ \A r \in Requests : Shape(r)
BY DEF TypeInv, TypeOK, TablesOK

\* The same after a step.
LEMMA TypeSplitPrime ==
    TypeInv' <=> TablesOK' /\ req' \in [Requests -> Request] /\ \A r \in Requests : Shape(r)'
BY DEF TypeInv, TypeOK, TablesOK

\* The fields that tell what a request is about.
Ident(q) ==
    /\ req'[q].op = req[q].op /\ req'[q].email = req[q].email /\ req'[q].slug = req[q].slug
    /\ req'[q].name = req[q].name /\ req'[q].size = req[q].size
    /\ req'[q].invite = req[q].invite /\ req'[q].token = req[q].token
    /\ req'[q].with = req[q].with

\* Another request has not changed, as far as the invariant looks.
Rests(q) ==
    /\ Ident(q) /\ req'[q].pc = req[q].pc /\ req'[q].user = req[q].user
    /\ req'[q].first = req[q].first /\ req'[q].stopped = req[q].stopped

Others(r) == \A q \in Requests \ {r} : Rests(q)

Pcs == {"new", "done", "refused", "failed"} \cup Pending

\* A request that only goes on to another step.
LEMMA GotoFacts ==
    ASSUME TypeInv, NEW r \in Requests, NEW c \in Pcs, Goto(r, c)
    PROVE  /\ req' \in [Requests -> Request] /\ Others(r)
           /\ Ident(r) /\ req'[r].pc = c /\ req'[r].user = req[r].user
           /\ req'[r].first = req[r].first /\ req'[r].stopped = req[r].stopped
<1>1. req \in [Requests -> Request] /\ req[r] \in Request
  BY DEF TypeInv, TypeOK
<1>2. PICK x : x = [req[r] EXCEPT !.pc = c]
  OBVIOUS
<1>3. /\ x \in Request /\ x.pc = c /\ x.op = req[r].op /\ x.email = req[r].email
      /\ x.slug = req[r].slug /\ x.name = req[r].name /\ x.size = req[r].size
      /\ x.invite = req[r].invite /\ x.token = req[r].token /\ x.with = req[r].with
      /\ x.user = req[r].user /\ x.first = req[r].first /\ x.stopped = req[r].stopped
  BY <1>1, <1>2 DEF Request, Pcs
<1>4. req' = [req EXCEPT ![r] = x]
  BY <1>1, <1>2 DEF Goto
<1>5. req'[r] = x /\ req' \in [Requests -> Request] /\ \A q \in Requests \ {r} : req'[q] = req[q]
  BY <1>1, <1>3, <1>4
<1>6. QED
  BY <1>3, <1>5 DEF Ident, Others, Rests

\* A request that ends, and overtakes those of Q.
LEMMA OvertakeFacts ==
    ASSUME TypeInv, NEW r \in Requests, NEW Q,
           req' = [q \in Requests |-> IF q = r THEN [req[r] EXCEPT !.pc = "done"]
                                      ELSE IF q \in Q THEN [req[q] EXCEPT !.raced = TRUE] ELSE req[q]]
    PROVE  /\ req' \in [Requests -> Request] /\ Others(r)
           /\ Ident(r) /\ req'[r].pc = "done" /\ req'[r].user = req[r].user
           /\ req'[r].first = req[r].first /\ req'[r].stopped = req[r].stopped
<1>1. req \in [Requests -> Request] /\ req[r] \in Request
  BY DEF TypeInv, TypeOK
<1>2. PICK x : x = [req[r] EXCEPT !.pc = "done"]
  OBVIOUS
<1>3. /\ x \in Request /\ x.pc = "done" /\ x.op = req[r].op /\ x.email = req[r].email
      /\ x.slug = req[r].slug /\ x.name = req[r].name /\ x.size = req[r].size
      /\ x.invite = req[r].invite /\ x.token = req[r].token /\ x.with = req[r].with
      /\ x.user = req[r].user /\ x.first = req[r].first /\ x.stopped = req[r].stopped
  BY <1>1, <1>2 DEF Request
<1>4. req'[r] = x
  BY <1>2
<1>5. ASSUME NEW q \in Requests \ {r} PROVE req'[q] \in Request /\ Rests(q)
  <2>1. req[q] \in Request
    BY <1>1
  <2>2. CASE q \in Q
    <3>1. PICK y : y = [req[q] EXCEPT !.raced = TRUE]
      OBVIOUS
    <3>2. /\ y \in Request /\ y.pc = req[q].pc /\ y.op = req[q].op /\ y.email = req[q].email
          /\ y.slug = req[q].slug /\ y.name = req[q].name /\ y.size = req[q].size
          /\ y.invite = req[q].invite /\ y.token = req[q].token /\ y.with = req[q].with
          /\ y.user = req[q].user /\ y.first = req[q].first /\ y.stopped = req[q].stopped
      BY <2>1, <3>1 DEF Request
    <3>3. req'[q] = y
      BY <2>2, <3>1
    <3>4. QED
      BY <3>2, <3>3 DEF Rests, Ident
  <2>3. CASE q \notin Q
    <3>1. req'[q] = req[q]
      BY <2>3
    <3>2. QED
      BY <2>1, <3>1 DEF Rests, Ident
  <2>4. QED
    BY <2>2, <2>3
<1>6. req' \in [Requests -> Request]
  <2>1. \A q \in Requests : req'[q] \in Request
    BY <1>3, <1>4, <1>5
  <2>2. DOMAIN req' = Requests /\ req' = [q \in DOMAIN req' |-> req'[q]]
    OBVIOUS
  <2>3. QED
    BY <2>1, <2>2
<1>7. Others(r) /\ Ident(r)
  BY <1>3, <1>4, <1>5 DEF Others, Ident
<1>8. QED
  BY <1>3, <1>4, <1>6, <1>7

--------------------------------------------------------------------------------
(***************************************************************************)
(* What is kept when a step does not concern it                            *)
(***************************************************************************)

\* A request that rests keeps its shape while accounts and memberships are added.
LEMMA ShapeKept ==
    ASSUME NEW q \in Requests, Shape(q), Ident(q), req'[q].pc = req[q].pc, req'[q].user = req[q].user,
           members \subseteq members', DOMAIN users \subseteq DOMAIN users'
    PROVE  Shape(q)'
BY DEF Shape, Ident, Owned

\* What a step has to leave of a request for the overlaps of signups to stay known.
Calm(q) ==
    /\ req'[q].with = req[q].with
    /\ req'[q].op = "signup" <=> req[q].op = "signup"
    /\ req[q].op = "signup" => /\ req'[q].email = req[q].email /\ req'[q].slug = req[q].slug
                               /\ req'[q].invite = req[q].invite /\ req'[q].first = req[q].first
    /\ req'[q].pc \in Signup => req[q].pc \in Signup

\* Resting requests are calm.
LEMMA RestsCalm ==
    ASSUME NEW q, Rests(q)
    PROVE  Calm(q)
BY DEF Rests, Ident, Calm

\* Overlaps stay known.
LEMMA WithKept ==
    ASSUME TypeInv, WithInv, \A q \in Requests : req'[q].with = req[q].with,
           \A q \in Requests : req[q].op = "signup" => req'[q].op = "signup",
           \A q \in Requests : req'[q].pc \in Signup => req[q].pc \in Signup
    PROVE  WithInv'
BY DEF WithInv

\* Whether a signup has a mate does not change.
LEMMA MatesKept ==
    ASSUME TypeInv, WithInv, NEW r \in Requests, req[r].op = "signup",
           \A q \in Requests : req'[q].with = req[q].with,
           \A q \in Requests : req[q].op = "signup" =>
               req'[q].email = req[q].email /\ req'[q].slug = req[q].slug
    PROVE  (SlugMate(r)' <=> SlugMate(r)) /\ (EmailMate(r)' <=> EmailMate(r))
<1>1. req[r].with \subseteq Requests
  BY DEF TypeInv, TypeOK, Request
<1>2. \A q \in req[r].with : req'[q].email = req[q].email /\ req'[q].slug = req[q].slug
  BY <1>1 DEF WithInv
<1>3. req'[r].with = req[r].with /\ req'[r].email = req[r].email /\ req'[r].slug = req[r].slug
  OBVIOUS
<1>4. QED
  BY <1>2, <1>3 DEF SlugMate, EmailMate

\* A signup stays where it is, is refused, or fails.
Stays(q) == req[q].op = "signup" => req'[q].pc \in {req[q].pc, "failed", "refused"}

\* The same accounts, with the same passwords.
SameAccounts ==
    DOMAIN users' = DOMAIN users /\ \A e \in DOMAIN users : users'[e].password = users[e].password

\* What is known of colliding signups stays when neither they nor their tables move.
LEMMA CollideKept ==
    ASSUME TypeInv, WithInv, CollideInv, UNCHANGED <<orgs, members>>, SameAccounts,
           \A q \in Requests :
               /\ req'[q].with = req[q].with
               /\ req'[q].op = "signup" <=> req[q].op = "signup"
               /\ req[q].op = "signup" => req'[q].email = req[q].email /\ req'[q].slug = req[q].slug
               /\ req'[q].pc \in Signup => req[q].pc \in Signup
               /\ Stays(q) \/ (req[q].pc = "users" /\ req'[q].pc = "create")
    PROVE  CollideInv'
<1>1. ASSUME NEW r \in Requests PROVE SlugInv(r)' /\ EmailInv(r)'
  <2>1. CASE req[r].op = "signup"
    <3>1. (SlugMate(r)' <=> SlugMate(r)) /\ (EmailMate(r)' <=> EmailMate(r))
      BY <2>1, MatesKept
    <3>2. SlugInv(r) /\ EmailInv(r)
      BY DEF CollideInv
    <3>3. SlugInv(r)'
      BY <2>1, <3>1, <3>2 DEF SlugInv, Stays
    <3>4. EmailInv(r)'
      <4>1. CASE req'[r].pc \in {"slug", "org", "users", "create"}
        BY <2>1, <3>1, <3>2, <4>1 DEF EmailInv, Stays, SameAccounts
      <4>2. CASE req'[r].pc \in {"member", "done"}
        BY <2>1, <3>1, <3>2, <4>2 DEF EmailInv, Stays, SameAccounts
      <4>3. QED
        BY <4>1, <4>2 DEF EmailInv
    <3>5. QED
      BY <3>3, <3>4
  <2>2. CASE req[r].op # "signup"
    BY <2>2 DEF SlugInv, EmailInv
  <2>3. QED
    BY <2>1, <2>2
<1>2. ASSUME NEW q \in Requests, NEW r \in Requests PROVE PairInv(q, r)'
  <2>1. PairInv(q, r) /\ Shape(q)
    BY DEF CollideInv, TypeInv
  <2>2. req'[q].pc \in Signup => req[q].op = "signup"
    BY <2>1 DEF Shape
  <2>3. QED
    BY <2>1, <2>2 DEF PairInv, Stays, Signup
<1>3. QED
  BY <1>1, <1>2 DEF CollideInv

\* What is known of administrators stays: nobody becomes one unnoticed, and nobody
\* comes to the point of creating an account.
LEMMA AccountKept ==
    ASSUME TypeInv, AccountInv, SameAccounts, UNCHANGED config, promoted \subseteq promoted',
           \A q \in Requests :
               /\ req[q].op = "signup" =>
                     /\ req'[q].op = "signup" /\ req'[q].email = req[q].email
                     /\ req'[q].invite = req[q].invite /\ req'[q].first = req[q].first
               /\ req[q].with \subseteq req'[q].with
               /\ req'[q].first => req[q].first
               /\ req[q].op = "login" => req'[q].op = "login"
               /\ req[q].op = "signup" =>
                     \/ req'[q].pc \in {req[q].pc, "failed"}
                     \/ req[q].pc = "member" /\ req'[q].pc = "done"
                     \/ req[q].pc \in {"slug", "org"} /\ req'[q].pc # "create",
           \/ Promoting'
           \/ \A e \in DOMAIN users :
                 users'[e].role = "ADMIN" /\ e \notin promoted' => users[e].role = "ADMIN"
    PROVE  AccountInv'
<1>1. \A e \in DOMAIN users : /\ OwnerInv(e) /\ AdminInv(e)
                              /\ users[e].password \in Requests \cup {None}
  BY DEF AccountInv, TypeInv, TypeOK, User
<1>2. Promoting => Promoting'
  BY DEF Promoting
<1>3. ASSUME NEW e \in DOMAIN users PROVE OwnerInv(e)'
  BY <1>1 DEF OwnerInv, SameAccounts
<1>4. ASSUME NEW e \in DOMAIN users PROVE AdminInv(e)'
  <2> SUFFICES ASSUME users'[e].role = "ADMIN", e \notin promoted', ~Promoting'
               PROVE  /\ users'[e].password # None
                      /\ IsAdminBootstrap(e, req[users[e].password].invite, req[users[e].password].first)'
    BY DEF AdminInv
  <2>1. users[e].role = "ADMIN" /\ e \notin promoted /\ ~Promoting
    BY <1>2
  <2>2. /\ users[e].password # None
        /\ IsAdminBootstrap(e, req[users[e].password].invite, req[users[e].password].first)
    BY <1>1, <2>1 DEF AdminInv
  <2>3. users'[e].password = users[e].password /\ users[e].password \in Requests
        /\ req[users[e].password].op = "signup"
    BY <1>1, <2>2 DEF SameAccounts, OwnerInv
  <2>4. /\ req'[users[e].password].invite = req[users[e].password].invite
        /\ req'[users[e].password].first = req[users[e].password].first
    BY <2>3
  <2>5. QED
    BY <2>2, <2>3, <2>4 DEF IsAdminBootstrap
<1>5. ASSUME NEW q \in Requests PROVE FirstInv(q)'
  <2>1. FirstInv(q)
    BY DEF AccountInv
  <2>2. CASE req'[q].first
    <3>1. req[q].first /\ req[q].op = "signup" /\ req[q].pc \notin {"new", "slug", "org", "users"}
      BY <2>1, <2>2 DEF FirstInv
    <3>2. req'[q].pc \notin {"new", "slug", "org", "users"} /\ req'[q].op = "signup"
          /\ (req'[q].pc = "create" => req[q].pc = "create")
      BY <3>1
    <3>3. QED
      BY <2>1, <3>1, <3>2 DEF FirstInv, SameAccounts
  <2>3. QED
    BY <2>2 DEF FirstInv
<1>6. ASSUME NEW e \in DOMAIN users, NEW f \in DOMAIN users, e # f PROVE FirstPair(e, f)'
  <2>1. FirstPair(e, f)
    BY <1>6 DEF AccountInv
  <2>2. users'[e].password = users[e].password /\ users'[f].password = users[f].password
    BY DEF SameAccounts
  <2>3. QED
    BY <1>1, <2>1, <2>2 DEF FirstPair
<1>7. DOMAIN users' = DOMAIN users
  BY DEF SameAccounts
<1>8. QED
  BY <1>3, <1>4, <1>5, <1>6, <1>7 DEF AccountInv

\* Past createOrganization and before addMember.
Joining == {"users", "create", "member"}

\* Organizations stay owned when new ones have a signup, and new rows and tokens a member,
\* behind them.
LEMMA OrgKept ==
    ASSUME TypeInv, OrgInv, members \subseteq members', faults' = 0 => faults = 0,
           \A s \in orgs' : s \in orgs \/ \E r \in Requests : req'[r].slug = s /\ req'[r].pc \in Joining,
           \A q \in Requests : req[q].pc \in Joining =>
               \/ req'[q].pc \in Joining /\ req'[q].slug = req[q].slug
               \/ faults' # 0
               \/ \E e \in Emails : <<req[q].slug, e>> \in members',
           \A x \in rows' : x \in rows \/ <<x.project[1], x.by>> \in members',
           \A t \in tokens' : t \in tokens \/ Owned(t)'
    PROVE  OrgInv'
<1>1. \A t \in tokens' : Owned(t)'
  BY DEF OrgInv, Owned
<1>2. \A x \in rows' : <<x.project[1], x.by>> \in members'
  BY DEF OrgInv
<1>3. ASSUME faults' = 0, NEW s \in orgs'
      PROVE  \/ \E e \in Emails : <<s, e>> \in members'
             \/ \E r \in Requests : req'[r].slug = s /\ req'[r].pc \in {"users", "create", "member"}
  <2>1. CASE s \in orgs
    <3>1. CASE \E e \in Emails : <<s, e>> \in members
      BY <3>1
    <3>2. CASE \E r \in Requests : req[r].slug = s /\ req[r].pc \in {"users", "create", "member"}
      BY <1>3, <3>2 DEF Joining
    <3>3. QED
      BY <1>3, <2>1, <3>1, <3>2 DEF OrgInv
  <2>2. CASE s \notin orgs
    BY <2>2 DEF Joining
  <2>3. QED
    BY <2>1, <2>2
<1>4. QED
  BY <1>1, <1>2, <1>3 DEF OrgInv

\* An account does not lose what stops it or what exempts it.
Tame(u) ==
    u \in DOMAIN users =>
        /\ u \in DOMAIN users'
        /\ Unlimited(u) => Unlimited(u)'
        /\ users[u].approval = "REJECTED" => users'[u].approval = "REJECTED" \/ Unlimited(u)'

\* A stopped request stays so while its account stays tame and it passes no check.
LEMMA StopKept ==
    ASSUME NEW q \in Requests, StopInv(q), Tame(req[q].token.user),
           req'[q].stopped => /\ req[q].stopped
                              /\ req'[q].op = req[q].op /\ req'[q].token = req[q].token,
           req'[q].pc \in {"check2", "write", "done"} => req[q].pc \in {"check2", "write", "done"}
    PROVE  StopInv(q)'
<1> SUFFICES ASSUME req'[q].stopped PROVE StopInv(q)'
  BY DEF StopInv
<1>1. req[q].stopped /\ req'[q].op = req[q].op /\ req'[q].token = req[q].token
  OBVIOUS
<1>2. PICK u : u = req[q].token.user
  OBVIOUS
<1>3. /\ req[q].op \in CreatingOps /\ u \in DOMAIN users
      /\ users[u].approval = "REJECTED" \/ Unlimited(u)
      /\ req[q].pc \in {"check2", "write", "done"} => Unlimited(u)
  BY <1>1, <1>2 DEF StopInv
<1>4. /\ u \in DOMAIN users' /\ (users'[u].approval = "REJECTED" \/ Unlimited(u)')
      /\ req'[q].pc \in {"check2", "write", "done"} => Unlimited(u)'
  BY <1>2, <1>3 DEF Tame
<1>5. (Unlimited(req[q].token.user))' <=> Unlimited(u)'
  BY <1>1, <1>2 DEF Unlimited
<1>6. QED
  BY <1>1, <1>2, <1>3, <1>4, <1>5 DEF StopInv

\* Accounts that do not change are tame.
LEMMA TameUnchanged ==
    ASSUME UNCHANGED users, NEW u PROVE Tame(u)
BY DEF Tame, Unlimited

\* A step outside the signups: they stay where they are, or fail.
LEMMA QuietStep ==
    ASSUME IInv, TypeInv', UNCHANGED <<config, orgs, members>>, SameAccounts,
           promoted \subseteq promoted', faults' = 0 => faults = 0,
           \A q \in Requests :
               /\ Calm(q)
               /\ req'[q].first => req[q].first
               /\ req[q].op = "login" => req'[q].op = "login"
               /\ req[q].op = "signup" => req'[q].pc = req[q].pc \/ (req'[q].pc = "failed" /\ faults' # 0),
           \/ Promoting'
           \/ \A e \in DOMAIN users :
                 users'[e].role = "ADMIN" /\ e \notin promoted' => users[e].role = "ADMIN",
           \A x \in rows' : x \in rows \/ <<x.project[1], x.by>> \in members',
           \A t \in tokens' : t \in tokens \/ Owned(t)',
           \A q \in Requests : StopInv(q)'
    PROVE  IInv'
<1>1. TypeInv /\ WithInv /\ CollideInv /\ AccountInv /\ OrgInv
  BY DEF IInv
<1>2. WithInv'
  BY <1>1, WithKept DEF Calm
<1>3. CollideInv'
  <2>1. ASSUME NEW q \in Requests
        PROVE  /\ req'[q].with = req[q].with
               /\ req'[q].op = "signup" <=> req[q].op = "signup"
               /\ req[q].op = "signup" => req'[q].email = req[q].email /\ req'[q].slug = req[q].slug
               /\ req'[q].pc \in Signup => req[q].pc \in Signup
               /\ Stays(q) \/ (req[q].pc = "users" /\ req'[q].pc = "create")
    <3>1. Calm(q) /\ Stays(q)
      BY DEF Stays
    <3>2. QED
      BY <3>1 DEF Calm
  <2>2. UNCHANGED <<orgs, members>>
    OBVIOUS
  <2>3. QED
    BY <1>1, <2>1, <2>2, CollideKept
<1>4. AccountInv'
  BY <1>1, AccountKept DEF Calm
<1>5. \A q \in Requests : req[q].pc \in Joining => req[q].op = "signup"
  BY <1>1 DEF TypeInv, Shape, Joining, Signup
<1>6. OrgInv'
  <2>1. \A q \in Requests : req[q].pc \in Joining =>
            \/ req'[q].pc \in Joining /\ req'[q].slug = req[q].slug
            \/ faults' # 0
    BY <1>5 DEF Calm
  <2>2. QED
    BY <1>1, <2>1, OrgKept
<1>7. QED
  BY <1>2, <1>3, <1>4, <1>6 DEF IInv

--------------------------------------------------------------------------------
(***************************************************************************)
(* Creating requests                                                       *)
(***************************************************************************)

\* A request is received: the token it carries is one that was handed out.
LEMMA StartStep ==
    ASSUME IInv, NEW r \in Requests, NEW op \in CreatingOps, NEW t \in tokens, NEW slug \in Slugs,
           NEW name \in Names, NEW size \in Sizes \cup {None}, op = "resource" => size \in Sizes,
           NEW preview \in BOOLEAN, Start(r, op, t, slug, name, size, preview)
    PROVE  IInv'
<1>1. TypeInv /\ TablesOK /\ req \in [Requests -> Request] /\ OrgInv
      /\ \A q \in Requests : Shape(q) /\ StopInv(q)
  BY TypeSplit DEF IInv
<1>2. /\ req[r].pc = "new" /\ req[r].op = "none" /\ req[r].with = {} /\ req[r].first = FALSE
      /\ UNCHANGED <<config, users, orgs, members, rows, quota, tokens, promoted, admin, faults>>
  <2>1. req[r].pc = "new" /\ UNCHANGED <<config, users, orgs, members, rows, quota, tokens, promoted, admin, faults>>
    BY DEF Start, Arrives
  <2>2. req[r].op = "none" /\ req[r].with = {}
    BY <1>1, <2>1 DEF Shape
  <2>3. FirstInv(r) /\ req[r].first \in BOOLEAN
    BY <1>1 DEF IInv, AccountInv, Request
  <2>4. QED
    BY <2>1, <2>2, <2>3 DEF FirstInv
<1>3. PICK b \in BOOLEAN : b = Stopped(t.user)
  BY DEF Stopped
<1>4. PICK x : x = [NoRequest EXCEPT !.op = op, !.token = t, !.slug = slug,
                        !.name = name, !.size = size, !.preview = preview,
                        !.pc = "access", !.stopped = b]
  OBVIOUS
<1>5. t \in Token /\ Owned(t)
  BY <1>1 DEF TablesOK, OrgInv
<1>6. /\ x \in Request /\ x.op = op /\ x.token = t /\ x.slug = slug /\ x.name = name /\ x.size = size
      /\ x.pc = "access" /\ x.stopped = b /\ x.with = {} /\ x.first = FALSE
  <2>1. x \in Request
    <3>1. "access" \in Pending
      BY DEF Pending, Creating
    <3>2. op \in {"none", "signup", "login", "project", "deploy", "resource"}
      BY DEF CreatingOps
    <3>3. x = [pc |-> "access", op |-> op, email |-> None, slug |-> slug, name |-> name,
               preview |-> preview, size |-> size, invite |-> FALSE, first |-> FALSE,
               token |-> t, user |-> None, with |-> {}, raced |-> FALSE, limit |-> 0,
               stopped |-> b]
      BY <1>4 DEF NoRequest
    <3>4. QED
      BY <1>5, <3>1, <3>2, <3>3 DEF Request
  <2>2. x.op = op /\ x.token = t /\ x.slug = slug /\ x.name = name /\ x.size = size
    BY <1>4 DEF NoRequest
  <2>3. x.pc = "access" /\ x.stopped = b /\ x.with = {} /\ x.first = FALSE
    BY <1>4 DEF NoRequest
  <2>4. QED
    BY <2>1, <2>2, <2>3
<1>7. req' = [req EXCEPT ![r] = x]
  BY <1>3, <1>4 DEF Start
<1>8. req'[r] = x /\ req' \in [Requests -> Request] /\ \A q \in Requests \ {r} : req'[q] = req[q]
  BY <1>1, <1>6, <1>7
<1>9. ASSUME NEW q \in Requests \ {r} PROVE Rests(q)
  BY <1>8 DEF Rests, Ident
<1>10. Shape(r)'
  BY <1>2, <1>5, <1>6, <1>8 DEF Shape, Signup, Login, Creating, CreatingOps, Owned
<1>11. TypeInv'
  <2>1. \A q \in Requests : Shape(q)'
    BY <1>1, <1>2, <1>9, <1>10, ShapeKept DEF Rests
  <2>2. TablesOK'
    BY <1>1, <1>2 DEF TablesOK
  <2>3. QED
    BY <1>8, <2>1, <2>2, TypeSplitPrime
<1>12. ASSUME NEW q \in Requests
       PROVE  /\ Calm(q)
              /\ req'[q].first => req[q].first
              /\ req[q].op = "login" => req'[q].op = "login"
              /\ req[q].op = "signup" => req'[q].pc = req[q].pc
  <2>1. CASE q = r
    BY <1>2, <1>6, <1>8, <2>1 DEF Calm, Signup, CreatingOps
  <2>2. CASE q # r
    BY <1>9, <2>2, RestsCalm DEF Rests, Ident
  <2>3. QED
    BY <2>1, <2>2
<1>13. ASSUME NEW q \in Requests PROVE StopInv(q)'
  <2>1. CASE q = r
    BY <1>2, <1>3, <1>6, <1>8, <2>1 DEF StopInv, Stopped
  <2>2. CASE q # r
    BY <1>1, <1>2, <1>9, <2>2, StopKept, TameUnchanged DEF Rests, Ident
  <2>3. QED
    BY <2>1, <2>2
<1>14. SameAccounts
  BY <1>2 DEF SameAccounts
<1>15. /\ promoted \subseteq promoted' /\ (faults' = 0 => faults = 0)
       /\ \A e \in DOMAIN users :
             users'[e].role = "ADMIN" /\ e \notin promoted' => users[e].role = "ADMIN"
       /\ (\A y \in rows' : y \in rows) /\ (\A y \in tokens' : y \in tokens)
  BY <1>2
<1>16. QED
  BY <1>2, <1>11, <1>12, <1>13, <1>14, <1>15, QuietStep

\* A request other than a signup goes on, and no account or organization changes.
LEMMA MoveStep ==
    ASSUME IInv, NEW r \in Requests, req[r].op # "signup", TablesOK', Shape(r)', StopInv(r)',
           req' \in [Requests -> Request], Others(r), Ident(r), req'[r].first = req[r].first,
           req'[r].pc \notin Signup,
           UNCHANGED <<config, users, orgs, members, promoted, faults>>,
           \A x \in rows' : x \in rows \/ <<x.project[1], x.by>> \in members,
           \A t \in tokens' : t \in tokens \/ Owned(t)
    PROVE  IInv'
<1>1. TypeInv /\ \A q \in Requests : Shape(q) /\ StopInv(q)
  BY TypeSplit DEF IInv
<1>2. ASSUME NEW q \in Requests PROVE Shape(q)' /\ StopInv(q)'
  <2>1. CASE q = r
    BY <2>1
  <2>2. CASE q # r
    <3>1. Rests(q)
      BY <2>2 DEF Others
    <3>2. Shape(q)'
      BY <1>1, <3>1, ShapeKept DEF Rests
    <3>3. StopInv(q)'
      BY <1>1, <3>1, StopKept, TameUnchanged DEF Rests, Ident
    <3>4. QED
      BY <3>2, <3>3
  <2>3. QED
    BY <2>1, <2>2
<1>3. TypeInv'
  BY <1>2, TypeSplitPrime
<1>4. ASSUME NEW q \in Requests
      PROVE  /\ Calm(q)
             /\ req'[q].first => req[q].first
             /\ req[q].op = "login" => req'[q].op = "login"
             /\ req[q].op = "signup" => req'[q].pc = req[q].pc
  <2>1. CASE q = r
    BY <2>1 DEF Calm, Ident
  <2>2. CASE q # r
    BY <2>2, RestsCalm DEF Others, Rests, Ident
  <2>3. QED
    BY <2>1, <2>2
<1>5. /\ SameAccounts /\ promoted \subseteq promoted' /\ (faults' = 0 => faults = 0)
      /\ \A e \in DOMAIN users :
            users'[e].role = "ADMIN" /\ e \notin promoted' => users[e].role = "ADMIN"
  BY DEF SameAccounts
<1>6. /\ \A x \in rows' : x \in rows \/ <<x.project[1], x.by>> \in members'
      /\ \A t \in tokens' : t \in tokens \/ Owned(t)'
  BY DEF Owned
<1>7. QED
  BY <1>2, <1>3, <1>4, <1>5, <1>6, QuietStep

\* assertProjectAccess lets a request pass only with a token of the organization.
LEMMA AccessStep ==
    ASSUME IInv, NEW r \in Requests, assertProjectAccess(r) PROVE IInv'
<1>1. TypeInv /\ TablesOK /\ Shape(r) /\ StopInv(r)
  BY TypeSplit DEF IInv
<1>2. /\ req[r].pc = "access" /\ req[r].op \in CreatingOps
      /\ UNCHANGED <<config, users, orgs, members, rows, quota, tokens, promoted, admin, faults>>
  BY <1>1 DEF assertProjectAccess, Shape, Creating
<1>3. PICK c \in {"check", "refused"} :
          Goto(r, c) /\ (c = "check" => req[r].slug \in req[r].token.orgs)
  BY DEF assertProjectAccess
<1>4. c \in Pcs
  BY <1>3 DEF Pcs, Pending, Creating
<1>5. /\ req' \in [Requests -> Request] /\ Others(r) /\ Ident(r) /\ req'[r].pc = c
      /\ req'[r].user = req[r].user /\ req'[r].first = req[r].first
      /\ req'[r].stopped = req[r].stopped
  BY <1>1, <1>3, <1>4, GotoFacts
<1>6. TablesOK'
  BY <1>1, <1>2 DEF TablesOK
<1>7. Shape(r)'
  BY <1>1, <1>2, <1>3, <1>5 DEF Shape, Ident, Signup, Login, Creating, CreatingOps, Owned
<1>8. StopInv(r)'
  BY <1>1, <1>2, <1>3, <1>5, StopKept, TameUnchanged DEF Ident
<1>9. req[r].op # "signup" /\ req'[r].pc \notin Signup
  BY <1>2, <1>3, <1>5 DEF CreatingOps, Signup
<1>10. QED
  BY <1>2, <1>5, <1>6, <1>7, <1>8, <1>9, MoveStep

\* A row that is put into the quota table is well typed.
LEMMA QuotaType ==
    ASSUME TablesOK, NEW e \in Emails, UNCHANGED config,
           quota' \in {quota, Put(quota, e, config.default)}
    PROVE  DOMAIN quota' \subseteq Emails /\ \A f \in DOMAIN quota' : quota'[f] \in [Metrics -> Nat]
<1>1. PICK v : v = config.default
  OBVIOUS
<1>2. v \in [Metrics -> Nat] /\ DOMAIN quota \subseteq Emails
      /\ \A f \in DOMAIN quota : quota[f] \in [Metrics -> Nat]
  BY <1>1 DEF TablesOK
<1>3. CASE quota' = quota
  BY <1>2, <1>3
<1>4. CASE quota' = Put(quota, e, v)
  <2>1. /\ DOMAIN quota' = DOMAIN quota \cup {e} /\ quota'[e] = v
        /\ \A f \in DOMAIN quota : f # e => quota'[f] = quota[f]
    BY <1>4 DEF Put
  <2>2. ASSUME NEW f \in DOMAIN quota' PROVE quota'[f] \in [Metrics -> Nat] /\ f \in Emails
    <3>1. CASE f = e
      BY <1>2, <2>1, <3>1
    <3>2. CASE f # e
      <4>1. f \in DOMAIN quota /\ quota'[f] = quota[f]
        BY <2>1, <3>2
      <4>2. QED
        BY <1>2, <4>1
    <3>3. QED
      BY <3>1, <3>2
  <2>3. QED
    BY <2>2
<1>5. QED
  BY <1>1, <1>3, <1>4

\* The outcome of a check: a stopped account passes only when it is unlimited.
LEMMA CheckedStep ==
    ASSUME IInv, NEW r \in Requests, req[r].pc \in {"check", "check2"}, req[r].op \in CreatingOps,
           UNCHANGED <<config, users, orgs, members, rows, tokens, promoted, admin, faults>>,
           NEW e, e = req[r].token.user,
           quota' \in {quota, Put(quota, e, config.default)},
           NEW c \in {"check2", "write", "refused"}, NEW l \in Nat, NEW x,
           \/ x = [req[r] EXCEPT !.pc = c, !.limit = l]
           \/ x = [req[r] EXCEPT !.pc = c, !.limit = l, !.raced = FALSE],
           req' = [req EXCEPT ![r] = x],
           \/ c = "refused"
           \/ e \notin DOMAIN users \/ Unlimited(e)
           \/ users[e].approval = "APPROVED"
    PROVE  IInv'
<1>1. TypeInv /\ TablesOK /\ Shape(r) /\ StopInv(r) /\ req \in [Requests -> Request] /\ req[r] \in Request
  BY TypeSplit DEF IInv
<1>2. /\ x \in Request /\ x.pc = c /\ x.op = req[r].op /\ x.email = req[r].email
      /\ x.slug = req[r].slug /\ x.name = req[r].name /\ x.size = req[r].size
      /\ x.invite = req[r].invite /\ x.token = req[r].token /\ x.with = req[r].with
      /\ x.user = req[r].user /\ x.first = req[r].first /\ x.stopped = req[r].stopped
  <2>1. CASE x = [req[r] EXCEPT !.pc = c, !.limit = l]
    <3>1. x \in Request
      <4>1. c \in {"new", "done", "refused", "failed"} \cup Pending
        BY DEF Pending, Creating
      <4>2. QED
        BY <1>1, <2>1, <4>1 DEF Request
    <3>2. x.pc = c /\ x.op = req[r].op /\ x.email = req[r].email /\ x.slug = req[r].slug
      BY <1>1, <2>1 DEF Request
    <3>3. x.name = req[r].name /\ x.size = req[r].size /\ x.invite = req[r].invite /\ x.token = req[r].token
      BY <1>1, <2>1 DEF Request
    <3>4. x.with = req[r].with /\ x.user = req[r].user /\ x.first = req[r].first /\ x.stopped = req[r].stopped
      BY <1>1, <2>1 DEF Request
    <3>5. QED
      BY <3>1, <3>2, <3>3, <3>4
  <2>2. CASE x = [req[r] EXCEPT !.pc = c, !.limit = l, !.raced = FALSE]
    <3>1. x \in Request
      <4>1. c \in {"new", "done", "refused", "failed"} \cup Pending
        BY DEF Pending, Creating
      <4>2. QED
        <5>1. PICK y : y = [req[r] EXCEPT !.pc = c, !.limit = l]
          OBVIOUS
        <5>2. y \in Request
          BY <1>1, <4>1, <5>1 DEF Request
        <5>3. PICK no \in BOOLEAN : no = FALSE
          OBVIOUS
        <5>4. x = [y EXCEPT !.raced = no]
          BY <2>2, <5>1, <5>3, Zenon
        <5>5. QED
          BY <5>2, <5>4 DEF Request
    <3>2. x.pc = c /\ x.op = req[r].op /\ x.email = req[r].email /\ x.slug = req[r].slug
      BY <1>1, <2>2 DEF Request
    <3>3. x.name = req[r].name /\ x.size = req[r].size /\ x.invite = req[r].invite /\ x.token = req[r].token
      BY <1>1, <2>2 DEF Request
    <3>4. x.with = req[r].with /\ x.user = req[r].user /\ x.first = req[r].first /\ x.stopped = req[r].stopped
      BY <1>1, <2>2 DEF Request
    <3>5. QED
      BY <3>1, <3>2, <3>3, <3>4
  <2>3. QED
    BY <2>1, <2>2
<1>3. req'[r] = x /\ req' \in [Requests -> Request] /\ \A q \in Requests \ {r} : req'[q] = req[q]
  BY <1>1, <1>2
<1>4. Others(r) /\ Ident(r)
  BY <1>2, <1>3 DEF Others, Rests, Ident
<1>5. TablesOK'
  <2>1. e \in Emails
    BY <1>1 DEF Shape, Token
  <2>2. DOMAIN quota' \subseteq Emails /\ \A f \in DOMAIN quota' : quota'[f] \in [Metrics -> Nat]
    BY <1>1, <2>1, QuotaType
  <2>3. QED
    BY <1>1, <2>2 DEF TablesOK
<1>6. Shape(r)'
  BY <1>1, <1>2, <1>3 DEF Shape, Signup, Login, Creating, CreatingOps, Owned
<1>7. StopInv(r)'
  <2> SUFFICES ASSUME req[r].stopped PROVE StopInv(r)'
    BY <1>2, <1>3 DEF StopInv
  <2>1. e \in DOMAIN users /\ (users[e].approval = "REJECTED" \/ Unlimited(e))
    BY <1>1 DEF StopInv
  <2>2. c # "refused" => Unlimited(e)
    BY <2>1
  <2>3. Unlimited(req[r].token.user)' <=> Unlimited(e)
    BY <1>2, <1>3 DEF Unlimited
  <2>4. QED
    BY <1>2, <1>3, <2>1, <2>2, <2>3 DEF StopInv
<1>8. req[r].op # "signup" /\ req'[r].pc \notin Signup
  BY <1>2, <1>3 DEF CreatingOps, Signup
<1>9. QED
  BY <1>2, <1>3, <1>4, <1>5, <1>6, <1>7, <1>8, MoveStep

\* A check passes only who is unlimited or approved: a stopped account is unlimited then.
LEMMA EnforceStep ==
    ASSUME IInv, NEW r \in Requests, enforceUserCan(r) PROVE IInv'
<1>1. TypeInv /\ TablesOK /\ Shape(r) /\ StopInv(r) /\ req \in [Requests -> Request] /\ req[r] \in Request
  BY TypeSplit DEF IInv
<1>2. /\ req[r].pc \in {"check", "check2"} /\ req[r].op \in CreatingOps
      /\ UNCHANGED <<config, users, orgs, members, rows, tokens, promoted, admin, faults>>
  BY <1>1 DEF enforceUserCan, Shape, Creating
<1>3. PICK e : e = req[r].token.user
  OBVIOUS
<1>4. e \in Emails
  BY <1>1, <1>2, <1>3 DEF Shape, Token
<1>5. AfterCheck(r) \in {"check2", "write"}
  BY DEF AfterCheck
<1>6. LimitOf(e, MetricOf(r)) \in Nat
  <2>1. MetricOf(r) \in Metrics
    BY <1>2 DEF MetricOf, Metrics, CreatingOps
  <2>2. QED
    BY <1>1, <2>1 DEF LimitOf, TablesOK
<1>7. CASE e \notin DOMAIN users \/ Unlimited(e)
  <2>1. req' = [req EXCEPT ![r].pc = AfterCheck(r), ![r].limit = 0] /\ UNCHANGED quota
    BY <1>3, <1>7 DEF enforceUserCan
  <2>2. PICK x : x = [req[r] EXCEPT !.pc = AfterCheck(r), !.limit = 0]
    OBVIOUS
  <2>3. req' = [req EXCEPT ![r] = x]
    BY <1>1, <2>1, <2>2
  <2>4. QED
    BY <1>2, <1>3, <1>5, <1>7, <2>1, <2>2, <2>3, CheckedStep
<1>8. CASE ~(e \notin DOMAIN users \/ Unlimited(e)) /\ users[e].approval # "APPROVED"
  <2>1. Goto(r, "refused") /\ UNCHANGED quota
    BY <1>3, <1>8 DEF enforceUserCan, UserMayCreate
  <2>2. PICK x : x = [req[r] EXCEPT !.pc = "refused", !.limit = req[r].limit]
    OBVIOUS
  <2>3. req' = [req EXCEPT ![r] = x]
    BY <1>1, <2>1, <2>2 DEF Goto, Request
  <2>4. req[r].limit \in Nat
    BY <1>1 DEF Request
  <2>5. QED
    BY <1>2, <1>3, <2>1, <2>2, <2>3, <2>4, CheckedStep
<1>9. CASE ~(e \notin DOMAIN users \/ Unlimited(e)) /\ users[e].approval = "APPROVED"
  <2>1. PICK c : c = IF WithinQuota(r, e) THEN AfterCheck(r) ELSE "refused"
    OBVIOUS
  <2>2. c \in {"check2", "write", "refused"}
    BY <1>5, <2>1
  <2>3. /\ quota' = IF e \in DOMAIN quota THEN quota ELSE Put(quota, e, config.default)
        /\ req' = [req EXCEPT ![r].pc = c, ![r].limit = LimitOf(e, MetricOf(r)), ![r].raced = FALSE]
    BY <1>3, <1>9, <2>1 DEF enforceUserCan, UserMayCreate
  <2>4. PICK l \in Nat : l = LimitOf(e, MetricOf(r))
    BY <1>6
  <2>5. PICK x : x = [req[r] EXCEPT !.pc = c, !.limit = l, !.raced = FALSE]
    OBVIOUS
  <2>6. req' = [req EXCEPT ![r] = x]
    BY <1>1, <2>3, <2>4, <2>5
  <2>7. quota' \in {quota, Put(quota, e, config.default)}
    BY <2>3
  <2>8. QED
    BY <1>2, <1>3, <1>9, <2>2, <2>4, <2>5, <2>6, <2>7, CheckedStep
<1>10. QED
  BY <1>7, <1>8, <1>9

\* A row is written for a project of an organization that the token belongs to.
LEMMA WriteStep ==
    ASSUME IInv, NEW r \in Requests, write(r) PROVE IInv'
<1>1. TypeInv /\ TablesOK /\ Shape(r) /\ StopInv(r) /\ req \in [Requests -> Request] /\ req[r] \in Request
  BY TypeSplit DEF IInv
<1>2. /\ req[r].pc = "write" /\ req[r].op \in CreatingOps
      /\ UNCHANGED <<config, users, orgs, members, quota, tokens, promoted, admin, faults>>
  BY <1>1 DEF write, Shape, Creating
<1>3. PICK c \in {"done", "failed"}, R \in SUBSET {NewRow(r)} :
          /\ rows' = rows \cup R
          /\ req' \in [Requests -> Request] /\ Others(r) /\ Ident(r) /\ req'[r].pc = c
          /\ req'[r].user = req[r].user /\ req'[r].first = req[r].first
          /\ req'[r].stopped = req[r].stopped
  <2>1. CASE Creates(r)
    <3>1. /\ rows' = rows \cup {NewRow(r)}
          /\ req' = [q \in Requests |->
                IF q = r THEN [req[r] EXCEPT !.pc = "done"]
                ELSE IF req[q].pc \in Creating THEN [req[q] EXCEPT !.raced = TRUE] ELSE req[q]]
      BY <2>1 DEF write
    <3>2. PICK Q : Q = {q \in Requests : req[q].pc \in Creating}
      OBVIOUS
    <3>3. req' = [q \in Requests |->
              IF q = r THEN [req[r] EXCEPT !.pc = "done"]
              ELSE IF q \in Q THEN [req[q] EXCEPT !.raced = TRUE] ELSE req[q]]
      BY <3>1, <3>2
    <3>4. QED
      BY <1>1, <3>1, <3>3, OvertakeFacts
  <2>2. CASE ~Creates(r)
    <3>1. PICK c \in {"done", "failed"} : Goto(r, c)
      BY <2>2 DEF write
    <3>2. c \in Pcs /\ rows' = rows \cup {}
      BY <2>2 DEF Pcs, write
    <3>3. QED
      BY <1>1, <3>1, <3>2, GotoFacts
  <2>3. QED
    BY <2>1, <2>2
<1>4. /\ NewRow(r) \in Row /\ NewRow(r).project[1] = req[r].slug /\ NewRow(r).by = req[r].token.user
      /\ <<req[r].slug, req[r].token.user>> \in members
  <2>1. /\ req[r].token \in Token /\ req[r].slug \in Slugs /\ req[r].name \in Names
        /\ req[r].slug \in req[r].token.orgs /\ req[r].token.user \in Emails
        /\ req[r].op = "resource" => req[r].size \in Sizes
    BY <1>1, <1>2 DEF Shape, Token
  <2>2. <<req[r].slug, req[r].token.user>> \in members
    BY <1>1, <1>2, <2>1 DEF Shape, Owned
  <2>3. req[r].op = "resource" => Mb(req[r].size) \in Nat
    BY <2>1 DEF Mb
  <2>4. ProjectOf(r) \in Projects /\ ProjectOf(r)[1] = req[r].slug
    BY <2>1 DEF ProjectOf, Projects
  <2>5. NewRow(r).project = ProjectOf(r) /\ NewRow(r).by = req[r].token.user
    BY DEF NewRow
  <2>6. NewRow(r) \in Row
    <3>1. PICK k \in {"project", "production", "preview", "resource"} :
              k = CASE req[r].op = "project" -> "project" [] req[r].op = "resource" -> "resource"
                    [] OTHER -> IF req[r].preview THEN "preview" ELSE "production"
      BY <1>2 DEF CreatingOps
    <3>2. PICK m \in Nat : m = IF req[r].op = "resource" THEN Mb(req[r].size) ELSE 0
      BY <2>3
    <3>3. NewRow(r) = [kind |-> k, project |-> ProjectOf(r), by |-> req[r].token.user, mb |-> m,
                       request |-> r]
      BY <3>1, <3>2 DEF NewRow
    <3>4. QED
      BY <2>1, <2>4, <3>1, <3>2, <3>3 DEF Row
  <2>7. QED
    BY <2>2, <2>4, <2>5, <2>6
<1>5. TablesOK'
  <2>1. rows' \subseteq Row
    BY <1>1, <1>3, <1>4 DEF TablesOK
  <2>2. QED
    BY <1>1, <1>2, <2>1 DEF TablesOK
<1>6. Shape(r)'
  BY <1>1, <1>2, <1>3 DEF Shape, Ident, Signup, Login, Creating, CreatingOps, Owned
<1>7. StopInv(r)'
  BY <1>1, <1>2, <1>3, StopKept, TameUnchanged DEF Ident
<1>8. req[r].op # "signup" /\ req'[r].pc \notin Signup
  BY <1>2, <1>3 DEF CreatingOps, Signup
<1>9. \A x \in rows' : x \in rows \/ <<x.project[1], x.by>> \in members
  BY <1>3, <1>4
<1>10. QED
  BY <1>2, <1>3, <1>5, <1>6, <1>7, <1>8, <1>9, MoveStep

\* A request that fails ends where it is; its faults are counted.
LEMMA FailStep ==
    ASSUME IInv, NEW r \in Requests, fail(r) PROVE IInv'
<1>1. TypeInv /\ TablesOK /\ \A q \in Requests : Shape(q) /\ StopInv(q)
  BY TypeSplit DEF IInv
<1>2. /\ req[r].pc \in Pending /\ faults < MaxFaults /\ faults' = faults + 1 /\ Goto(r, "failed")
      /\ UNCHANGED <<config, users, orgs, members, rows, quota, tokens, promoted, admin>>
  BY DEF fail
<1>3. faults \in Nat /\ faults' # 0 /\ faults' \in 0..MaxFaults
  BY <1>1, <1>2 DEF TablesOK
<1>4. /\ req' \in [Requests -> Request] /\ Others(r) /\ Ident(r) /\ req'[r].pc = "failed"
      /\ req'[r].user = req[r].user /\ req'[r].first = req[r].first
      /\ req'[r].stopped = req[r].stopped
  <2>1. "failed" \in Pcs
    BY DEF Pcs
  <2>2. QED
    BY <1>1, <1>2, <2>1, GotoFacts
<1>5. req[r].pc # "new" /\ req[r].op # "none"
  BY <1>1, <1>2 DEF Pending, Signup, Login, Creating, Shape
<1>6. Shape(r)'
  BY <1>1, <1>2, <1>4, <1>5 DEF Shape, Ident, Signup, Login, Creating, Owned
<1>7. ASSUME NEW q \in Requests PROVE Shape(q)' /\ StopInv(q)'
  <2>1. CASE q = r
    BY <1>1, <1>2, <1>4, <1>6, <2>1, StopKept, TameUnchanged DEF Ident
  <2>2. CASE q # r
    <3>1. Rests(q)
      BY <1>4, <2>2 DEF Others
    <3>2. Shape(q)'
      BY <1>1, <1>2, <3>1, ShapeKept DEF Rests
    <3>3. StopInv(q)'
      BY <1>1, <1>2, <3>1, StopKept, TameUnchanged DEF Rests, Ident
    <3>4. QED
      BY <3>2, <3>3
  <2>3. QED
    BY <2>1, <2>2
<1>8. TypeInv'
  <2>1. TablesOK'
    BY <1>1, <1>2, <1>3 DEF TablesOK
  <2>2. QED
    BY <1>4, <1>7, <2>1, TypeSplitPrime
<1>9. ASSUME NEW q \in Requests
      PROVE  /\ Calm(q)
             /\ req'[q].first => req[q].first
             /\ req[q].op = "login" => req'[q].op = "login"
             /\ req[q].op = "signup" => req'[q].pc = req[q].pc \/ (req'[q].pc = "failed" /\ faults' # 0)
  <2>1. CASE q = r
    BY <1>3, <1>4, <2>1 DEF Calm, Ident, Signup
  <2>2. CASE q # r
    BY <1>4, <2>2, RestsCalm DEF Others, Rests, Ident
  <2>3. QED
    BY <2>1, <2>2
<1>10. /\ SameAccounts /\ promoted \subseteq promoted' /\ (faults' = 0 => faults = 0)
       /\ \A e \in DOMAIN users :
             users'[e].role = "ADMIN" /\ e \notin promoted' => users[e].role = "ADMIN"
       /\ (\A y \in rows' : y \in rows) /\ (\A y \in tokens' : y \in tokens)
  BY <1>2, <1>3 DEF SameAccounts
<1>11. QED
  BY <1>2, <1>7, <1>8, <1>9, <1>10, QuietStep

--------------------------------------------------------------------------------
(***************************************************************************)
(* Login and administrators                                                *)
(***************************************************************************)

\* A request that is not about to create anything keeps to the invariant when nobody but
\* administrators writes accounts: every request rests, except that it may be stopped no more.
LEMMA AdminStep ==
    ASSUME IInv, TablesOK', req' \in [Requests -> Request], UNCHANGED <<config, orgs, members, faults>>,
           rows' \subseteq rows, UNCHANGED tokens, SameAccounts, promoted \subseteq promoted',
           \A e \in DOMAIN users :
               users'[e].role = "ADMIN" /\ e \notin promoted' => users[e].role = "ADMIN",
           \A q \in Requests :
               /\ Ident(q) /\ req'[q].pc = req[q].pc /\ req'[q].user = req[q].user
               /\ req'[q].first = req[q].first
               /\ req'[q].stopped => req[q].stopped /\ Tame(req[q].token.user)
    PROVE  IInv'
<1>1. TypeInv /\ \A q \in Requests : Shape(q) /\ StopInv(q)
  BY TypeSplit DEF IInv
<1>2. ASSUME NEW q \in Requests PROVE Shape(q)' /\ StopInv(q)'
  <2> USE DEF SameAccounts
  <2>1. Shape(q)'
    <3>1. /\ Shape(q) /\ Ident(q) /\ req'[q].pc = req[q].pc /\ req'[q].user = req[q].user
          /\ members \subseteq members' /\ DOMAIN users \subseteq DOMAIN users'
      BY <1>1
    <3>2. QED
      BY <3>1, ShapeKept
  <2>2. CASE req'[q].stopped
    <3>1. /\ StopInv(q) /\ Tame(req[q].token.user) /\ req[q].stopped
          /\ req'[q].op = req[q].op /\ req'[q].token = req[q].token /\ req'[q].pc = req[q].pc
      BY <1>1, <2>2 DEF Ident
    <3>2. QED
      BY <2>1, <3>1, StopKept
  <2>3. CASE ~req'[q].stopped
    BY <2>1, <2>3 DEF StopInv
  <2>4. QED
    BY <2>1, <2>2, <2>3
<1>3. TypeInv'
  BY <1>2, TypeSplitPrime
<1>4. ASSUME NEW q \in Requests
      PROVE  /\ Calm(q)
             /\ req'[q].first => req[q].first
             /\ req[q].op = "login" => req'[q].op = "login"
             /\ req[q].op = "signup" => req'[q].pc = req[q].pc
  BY DEF Calm, Ident
<1>5. (\A y \in rows' : y \in rows) /\ (\A y \in tokens' : y \in tokens) /\ (faults' = 0 => faults = 0)
  OBVIOUS
<1>6. QED
  BY <1>2, <1>3, <1>4, <1>5, QuietStep

\* A row of the User table is written again with the password it had.
LEMMA UserWritten ==
    ASSUME TablesOK, NEW e \in DOMAIN users, NEW u \in User, u.password = users[e].password,
           users' = [users EXCEPT ![e] = u]
    PROVE  /\ SameAccounts /\ users'[e] = u /\ IsFiniteSet(DOMAIN users')
           /\ \A f \in DOMAIN users : users'[f] \in User /\ (f # e => users'[f] = users[f])
<1>1. DOMAIN users' = DOMAIN users /\ users'[e] = u /\ \A f \in DOMAIN users : f # e => users'[f] = users[f]
  OBVIOUS
<1>2. QED
  BY <1>1 DEF SameAccounts, TablesOK

\* deleteProject and setQuota touch neither accounts nor requests.
LEMMA TableStep ==
    ASSUME IInv,
           \/ \E p \in Projects : deleteProject(p)
           \/ \E e \in Emails, l \in Limits : setQuota(e, l)
    PROVE  IInv'
<1>1. TypeInv /\ TablesOK /\ req \in [Requests -> Request]
  BY TypeSplit DEF IInv
<1>2. /\ UNCHANGED <<config, users, orgs, members, tokens, req, promoted, faults>>
      /\ rows' \subseteq rows /\ admin' = admin + 1 /\ admin < MaxAdmin
  BY DEF deleteProject, setQuota, AdminCall
<1>3. DOMAIN quota' \subseteq Emails /\ \A f \in DOMAIN quota' : quota'[f] \in [Metrics -> Nat]
  <2>1. CASE \E p \in Projects : deleteProject(p)
    BY <1>1, <2>1 DEF deleteProject, TablesOK
  <2>2. CASE \E e \in Emails, l \in Limits : setQuota(e, l)
    <3>1. PICK e \in Emails, l \in Limits : quota' = Put(quota, e, l)
      BY <2>2 DEF setQuota
    <3>2. l \in [Metrics -> Nat] /\ DOMAIN quota \subseteq Emails
          /\ \A f \in DOMAIN quota : quota[f] \in [Metrics -> Nat]
      BY <1>1 DEF TablesOK
    <3>3. /\ DOMAIN quota' = DOMAIN quota \cup {e} /\ quota'[e] = l
          /\ \A f \in DOMAIN quota : f # e => quota'[f] = quota[f]
      BY <3>1 DEF Put
    <3>4. QED
      BY <3>2, <3>3
  <2>3. QED
    BY <2>1, <2>2
<1>4. TablesOK'
  <2>1. admin' \in 0..MaxAdmin
    BY <1>1, <1>2 DEF TablesOK
  <2>2. QED
    BY <1>1, <1>2, <1>3, <2>1 DEF TablesOK
<1>5. ASSUME NEW q \in Requests
      PROVE  /\ Ident(q) /\ req'[q].pc = req[q].pc /\ req'[q].user = req[q].user
             /\ req'[q].first = req[q].first
             /\ req'[q].stopped => req[q].stopped /\ Tame(req[q].token.user)
  BY <1>2, TameUnchanged DEF Ident
<1>6. SameAccounts /\ req' \in [Requests -> Request]
  BY <1>1, <1>2 DEF SameAccounts
<1>7. QED
  BY <1>2, <1>4, <1>5, <1>6, AdminStep

\* What approving makes of an account and of its limits.
LEMMA ApprovalFacts ==
    ASSUME TablesOK, UNCHANGED config, NEW e \in DOMAIN users,
           NEW a \in {"NON_CLUB", "CLUB_MEMBER"}, NEW role \in {"USER", "ADMIN"},
           quota' = QuotaAfterApproval(e, a)
    PROVE  /\ Approved(users[e], a, role) \in User
           /\ Approved(users[e], a, role).password = users[e].password
           /\ Approved(users[e], a, role).role = role
           /\ DOMAIN quota' \subseteq Emails /\ \A f \in DOMAIN quota' : quota'[f] \in [Metrics -> Nat]
<1>1. users[e] \in User /\ e \in Emails
  BY DEF TablesOK
<1>2. quota' \in {quota, Put(quota, e, config.default)}
  BY DEF QuotaAfterApproval
<1>3. QED
  BY <1>1, <1>2, QuotaType DEF Approved, User

\* An approval releases the requests it stopped, and its administrators are remembered.
LEMMA ApproveStep ==
    ASSUME IInv, NEW e \in Emails, NEW a \in {"NON_CLUB", "CLUB_MEMBER"}, NEW role \in {"USER", "ADMIN"},
           approveUser(e, a, role)
    PROVE  IInv'
<1>1. TypeInv /\ TablesOK /\ req \in [Requests -> Request] /\ \A q \in Requests : Shape(q) /\ StopInv(q)
  BY TypeSplit DEF IInv
<1>2. /\ admin < MaxAdmin /\ admin' = admin + 1 /\ e \in DOMAIN users
      /\ users' = [users EXCEPT ![e] = Approved(users[e], a, role)]
      /\ quota' = QuotaAfterApproval(e, a)
      /\ promoted' = IF role = "ADMIN" THEN promoted \cup {e} ELSE promoted
      /\ req' = [q \in Requests |-> IF req[q].token # None /\ req[q].token.user = e
                                    THEN [req[q] EXCEPT !.stopped = FALSE] ELSE req[q]]
      /\ UNCHANGED <<config, orgs, members, rows, tokens, faults>>
  BY DEF approveUser, AdminCall
<1>3. PICK u : u = Approved(users[e], a, role)
  OBVIOUS
<1>4. /\ u \in User /\ u.password = users[e].password /\ u.role = role
      /\ DOMAIN quota' \subseteq Emails /\ \A f \in DOMAIN quota' : quota'[f] \in [Metrics -> Nat]
  BY <1>1, <1>2, <1>3, ApprovalFacts
<1>5. /\ SameAccounts /\ users'[e] = u /\ IsFiniteSet(DOMAIN users')
      /\ \A f \in DOMAIN users : users'[f] \in User /\ (f # e => users'[f] = users[f])
  BY <1>1, <1>2, <1>3, <1>4, UserWritten
<1>6. promoted \subseteq promoted' /\ promoted' \subseteq Emails
  BY <1>1, <1>2 DEF TablesOK
<1>7. \A f \in DOMAIN users :
          users'[f].role = "ADMIN" /\ f \notin promoted' => users[f].role = "ADMIN"
  BY <1>2, <1>4, <1>5
<1>8. TablesOK'
  <2>1. admin' \in 0..MaxAdmin
    BY <1>1, <1>2 DEF TablesOK
  <2>2. DOMAIN users' = DOMAIN users
    BY <1>5 DEF SameAccounts
  <2>3. QED
    BY <1>1, <1>2, <1>4, <1>5, <1>6, <2>1, <2>2 DEF TablesOK
<1>9. ASSUME NEW q \in Requests
      PROVE  /\ req'[q] \in Request
             /\ Ident(q) /\ req'[q].pc = req[q].pc /\ req'[q].user = req[q].user
             /\ req'[q].first = req[q].first
             /\ req'[q].stopped => req[q].stopped /\ Tame(req[q].token.user)
  <2>1. req[q] \in Request
    BY <1>1
  <2>2. CASE req[q].token # None /\ req[q].token.user = e
    <3>1. PICK y : y = [req[q] EXCEPT !.stopped = FALSE]
      OBVIOUS
    <3>2. /\ y \in Request /\ y.pc = req[q].pc /\ y.op = req[q].op /\ y.email = req[q].email
          /\ y.slug = req[q].slug /\ y.name = req[q].name /\ y.size = req[q].size
          /\ y.invite = req[q].invite /\ y.token = req[q].token /\ y.with = req[q].with
          /\ y.user = req[q].user /\ y.first = req[q].first /\ y.stopped = FALSE
      BY <2>1, <3>1 DEF Request
    <3>3. req'[q] = y
      BY <1>2, <2>2, <3>1
    <3>4. QED
      BY <3>2, <3>3 DEF Ident
  <2>3. CASE ~(req[q].token # None /\ req[q].token.user = e)
    <3>1. req'[q] = req[q]
      BY <1>2, <2>3
    <3>2. ASSUME req[q].stopped PROVE Tame(req[q].token.user)
      <4>1. StopInv(q) /\ Shape(q)
        BY <1>1
      <4>2. req[q].op \in CreatingOps
        BY <3>2, <4>1 DEF StopInv
      <4>3. req[q].token \in Token
        BY <4>1, <4>2 DEF Shape
      <4>4. req[q].token.user # e
        BY <2>3, <4>3
      <4>5. ASSUME NEW f, f # e PROVE Tame(f)
        BY <1>5, <4>5 DEF Tame, SameAccounts, Unlimited
      <4>6. QED
        BY <4>4, <4>5
    <3>3. QED
      BY <2>1, <3>1, <3>2 DEF Ident
  <2>4. QED
    BY <2>2, <2>3
<1>10. req' \in [Requests -> Request]
  <2>1. DOMAIN req' = Requests /\ req' = [q \in DOMAIN req' |-> req'[q]]
    BY <1>2
  <2>2. QED
    BY <1>9, <2>1
<1>11. QED
  BY <1>2, <1>5, <1>6, <1>7, <1>8, <1>9, <1>10, AdminStep

\* A rejection exempts nobody.
LEMMA RejectStep ==
    ASSUME IInv, NEW e \in Emails, rejectUser(e) PROVE IInv'
<1>1. TypeInv /\ TablesOK /\ req \in [Requests -> Request]
  BY TypeSplit DEF IInv
<1>2. /\ admin < MaxAdmin /\ admin' = admin + 1 /\ e \in DOMAIN users
      /\ users' = [users EXCEPT ![e].approval = "REJECTED"]
      /\ UNCHANGED <<config, orgs, members, rows, quota, tokens, req, promoted, faults>>
  BY DEF rejectUser, AdminCall
<1>3. PICK u : u = [users[e] EXCEPT !.approval = "REJECTED"]
  OBVIOUS
<1>4. /\ u \in User /\ u.password = users[e].password /\ u.role = users[e].role
      /\ u.accountType = users[e].accountType /\ u.approval = "REJECTED"
  BY <1>1, <1>2, <1>3 DEF TablesOK, User
<1>5. users' = [users EXCEPT ![e] = u]
  BY <1>2, <1>3
<1>6. /\ SameAccounts /\ users'[e] = u /\ IsFiniteSet(DOMAIN users')
      /\ \A f \in DOMAIN users : users'[f] \in User /\ (f # e => users'[f] = users[f])
  BY <1>1, <1>2, <1>4, <1>5, UserWritten
<1>7. \A f \in DOMAIN users :
          users'[f].role = "ADMIN" /\ f \notin promoted' => users[f].role = "ADMIN"
  BY <1>2, <1>4, <1>6
<1>8. TablesOK'
  <2>1. admin' \in 0..MaxAdmin
    BY <1>1, <1>2 DEF TablesOK
  <2>2. DOMAIN users' = DOMAIN users
    BY <1>6 DEF SameAccounts
  <2>3. QED
    BY <1>1, <1>2, <1>6, <2>1, <2>2 DEF TablesOK
<1>9. ASSUME NEW f PROVE Tame(f)
  <2>1. CASE f = e
    BY <1>2, <1>4, <1>6, <2>1 DEF Tame, Unlimited, SameAccounts
  <2>2. CASE f # e
    BY <1>6, <2>2 DEF Tame, Unlimited, SameAccounts
  <2>3. QED
    BY <2>1, <2>2
<1>10. ASSUME NEW q \in Requests
       PROVE  /\ Ident(q) /\ req'[q].pc = req[q].pc /\ req'[q].user = req[q].user
              /\ req'[q].first = req[q].first
              /\ req'[q].stopped => req[q].stopped /\ Tame(req[q].token.user)
  BY <1>2, <1>9 DEF Ident
<1>11. req' \in [Requests -> Request] /\ rows' \subseteq rows /\ promoted \subseteq promoted'
  BY <1>1, <1>2
<1>12. QED
  BY <1>2, <1>6, <1>7, <1>8, <1>10, <1>11, AdminStep

\* A login is a request that carries no token; from then on promotions are possible.
LEMMA LoginStep ==
    ASSUME IInv, NEW r \in Requests, NEW email \in Emails, login(r, email) PROVE IInv'
<1>1. TypeInv /\ TablesOK /\ req \in [Requests -> Request]
      /\ \A q \in Requests : Shape(q) /\ StopInv(q)
  BY TypeSplit DEF IInv
<1>2. /\ req[r].pc = "new"
      /\ UNCHANGED <<config, users, orgs, members, rows, quota, tokens, promoted, admin, faults>>
  BY DEF login, Arrives
<1>3. req[r].op = "none" /\ req[r].with = {}
  BY <1>1, <1>2 DEF Shape
<1>4. PICK x : /\ req' = [req EXCEPT ![r] = x]
               /\ x \in Request /\ x.op = "login" /\ x.pc \in {"promote", "refused"} /\ x.with = {}
               /\ x.first = FALSE /\ x.stopped = FALSE
               /\ x.pc = "promote" => x.user \in User /\ x.email \in DOMAIN users
  <2>1. CASE /\ email \in DOMAIN users
             /\ req' = [req EXCEPT ![r] = [NoRequest EXCEPT !.op = "login", !.email = email,
                                               !.user = users[email], !.pc = "promote"]]
    <3>1. users[email] \in User
      BY <1>1, <2>1 DEF TablesOK
    <3>2. PICK u \in User : u = users[email]
      BY <3>1
    <3>3. PICK x : x = [NoRequest EXCEPT !.op = "login", !.email = email, !.user = u, !.pc = "promote"]
      OBVIOUS
    <3>4. /\ x \in Request /\ x.op = "login" /\ x.pc = "promote" /\ x.with = {}
          /\ x.first = FALSE /\ x.stopped = FALSE /\ x.user = u /\ x.email = email
      BY <3>3 DEF NoRequest, Request, Pending, Login
    <3>5. QED
      BY <2>1, <3>2, <3>3, <3>4
  <2>2. CASE req' = [req EXCEPT ![r] = [NoRequest EXCEPT !.op = "login", !.email = email,
                                            !.pc = "refused"]]
    <3>1. PICK x : x = [NoRequest EXCEPT !.op = "login", !.email = email, !.pc = "refused"]
      OBVIOUS
    <3>2. /\ x \in Request /\ x.op = "login" /\ x.pc = "refused" /\ x.with = {}
          /\ x.first = FALSE /\ x.stopped = FALSE
      BY <3>1 DEF NoRequest, Request, Pending, Login
    <3>3. QED
      BY <2>2, <3>1, <3>2
  <2>3. QED
    BY <2>1, <2>2 DEF login
<1>5. req'[r] = x /\ req' \in [Requests -> Request] /\ \A q \in Requests \ {r} : req'[q] = req[q]
  BY <1>1, <1>4
<1>6. ASSUME NEW q \in Requests \ {r} PROVE Rests(q)
  BY <1>5 DEF Rests, Ident
<1>7. Shape(r)'
  BY <1>2, <1>4, <1>5 DEF Shape, Signup, Login, Creating, CreatingOps
<1>8. ASSUME NEW q \in Requests PROVE Shape(q)' /\ StopInv(q)'
  <2>1. CASE q = r
    BY <1>4, <1>5, <1>7, <2>1 DEF StopInv
  <2>2. CASE q # r
    <3>1. Rests(q)
      BY <1>6, <2>2
    <3>2. Shape(q)'
      BY <1>1, <1>2, <3>1, ShapeKept DEF Rests
    <3>3. StopInv(q)'
      BY <1>1, <1>2, <3>1, StopKept, TameUnchanged DEF Rests, Ident
    <3>4. QED
      BY <3>2, <3>3
  <2>3. QED
    BY <2>1, <2>2
<1>9. TypeInv'
  <2>1. TablesOK'
    BY <1>1, <1>2 DEF TablesOK
  <2>2. QED
    BY <1>5, <1>8, <2>1, TypeSplitPrime
<1>10. ASSUME NEW q \in Requests
       PROVE  /\ Calm(q)
              /\ req'[q].first => req[q].first
              /\ req[q].op = "login" => req'[q].op = "login"
              /\ req[q].op = "signup" => req'[q].pc = req[q].pc
  <2>1. CASE q = r
    BY <1>3, <1>4, <1>5, <2>1 DEF Calm, Signup
  <2>2. CASE q # r
    BY <1>6, <2>2, RestsCalm DEF Rests, Ident
  <2>3. QED
    BY <2>1, <2>2
<1>11. /\ SameAccounts /\ promoted \subseteq promoted' /\ (faults' = 0 => faults = 0)
       /\ \A e \in DOMAIN users :
             users'[e].role = "ADMIN" /\ e \notin promoted' => users[e].role = "ADMIN"
       /\ (\A y \in rows' : y \in rows) /\ (\A y \in tokens' : y \in tokens)
  BY <1>2 DEF SameAccounts
<1>12. QED
  BY <1>2, <1>8, <1>9, <1>10, <1>11, QuietStep

\* A promotion at login makes an administrator, outside production only.
LEMMA PromoteStep ==
    ASSUME IInv, NEW r \in Requests, promoteFirstLogin(r) PROVE IInv'
<1>1. TypeInv /\ TablesOK /\ req \in [Requests -> Request] /\ req[r] \in Request
      /\ \A q \in Requests : Shape(q) /\ StopInv(q)
  BY TypeSplit DEF IInv
<1>2. /\ req[r].op = "login" /\ req[r].pc = "promote" /\ req[r].email \in DOMAIN users
      /\ UNCHANGED <<config, orgs, members, rows, tokens, promoted, admin, faults>>
  BY <1>1 DEF promoteFirstLogin, At, Shape
<1>3. CASE ~shouldPromoteFirstLogin(r)
  <2>1. Goto(r, "answer") /\ UNCHANGED <<users, quota>>
    BY <1>3 DEF promoteFirstLogin
  <2>2. "answer" \in Pcs
    BY DEF Pcs, Pending, Login
  <2>3. /\ req' \in [Requests -> Request] /\ Others(r) /\ Ident(r) /\ req'[r].pc = "answer"
        /\ req'[r].user = req[r].user /\ req'[r].first = req[r].first
        /\ req'[r].stopped = req[r].stopped
    BY <1>1, <2>1, <2>2, GotoFacts
  <2>4. TablesOK'
    BY <1>1, <1>2, <2>1 DEF TablesOK
  <2>5. Shape(r)'
    BY <1>1, <1>2, <2>1, <2>3 DEF Shape, Ident, Signup, Login, Creating, CreatingOps
  <2>6. StopInv(r)'
    BY <1>1, <1>2, <2>1, <2>3, StopKept, TameUnchanged DEF Ident
  <2>7. req'[r].pc \notin Signup
    BY <2>3 DEF Signup
  <2>8. QED
    BY <1>2, <2>1, <2>3, <2>4, <2>5, <2>6, <2>7, MoveStep
<1>4. CASE shouldPromoteFirstLogin(r)
  <2>1. PICK e : e = req[r].email
    OBVIOUS
  <2>2. PICK u : u = Approved(users[e], "NON_CLUB", "ADMIN")
    OBVIOUS
  <2>3. /\ users' = [users EXCEPT ![e] = u] /\ quota' = QuotaAfterApproval(e, "NON_CLUB")
        /\ req' = [req EXCEPT ![r].pc = "answer", ![r].user = u]
    BY <1>4, <2>1, <2>2 DEF promoteFirstLogin
  <2>4. e \in DOMAIN users
    BY <1>2, <2>1
  <2>5. /\ u \in User /\ u.password = users[e].password /\ u.role = "ADMIN"
        /\ DOMAIN quota' \subseteq Emails /\ \A f \in DOMAIN quota' : quota'[f] \in [Metrics -> Nat]
    BY <1>1, <1>2, <2>2, <2>3, <2>4, ApprovalFacts
  <2>6. /\ SameAccounts /\ users'[e] = u /\ IsFiniteSet(DOMAIN users')
        /\ \A f \in DOMAIN users : users'[f] \in User /\ (f # e => users'[f] = users[f])
    BY <1>1, <2>3, <2>4, <2>5, UserWritten
  <2>7. DOMAIN users' = DOMAIN users
    BY <2>6 DEF SameAccounts
  <2>8. PICK x : x = [req[r] EXCEPT !.pc = "answer", !.user = u]
    OBVIOUS
  <2>9. /\ x \in Request /\ x.pc = "answer" /\ x.op = req[r].op /\ x.email = req[r].email
        /\ x.slug = req[r].slug /\ x.name = req[r].name /\ x.size = req[r].size
        /\ x.invite = req[r].invite /\ x.token = req[r].token /\ x.with = req[r].with
        /\ x.user = u /\ x.first = req[r].first /\ x.stopped = req[r].stopped
    <3>1. x \in Request
      <4>1. "answer" \in Pending
        BY DEF Pending, Login
      <4>2. QED
        BY <1>1, <2>5, <2>8, <4>1 DEF Request
    <3>2. x.pc = "answer" /\ x.op = req[r].op /\ x.email = req[r].email /\ x.slug = req[r].slug
      BY <1>1, <2>8 DEF Request
    <3>3. x.name = req[r].name /\ x.size = req[r].size /\ x.invite = req[r].invite /\ x.token = req[r].token
      BY <1>1, <2>8 DEF Request
    <3>4. x.with = req[r].with /\ x.user = u /\ x.first = req[r].first /\ x.stopped = req[r].stopped
      BY <1>1, <2>8 DEF Request
    <3>5. QED
      BY <3>1, <3>2, <3>3, <3>4
  <2>10. req' = [req EXCEPT ![r] = x]
    BY <1>1, <2>3, <2>8
  <2>11. req'[r] = x /\ req' \in [Requests -> Request] /\ \A q \in Requests \ {r} : req'[q] = req[q]
    BY <1>1, <2>9, <2>10
  <2>12. ASSUME NEW q \in Requests \ {r} PROVE Rests(q)
    BY <2>11 DEF Rests, Ident
  <2>13. ASSUME NEW f PROVE Tame(f)
    <3>1. CASE f = e
      BY <2>4, <2>5, <2>6, <2>7, <3>1 DEF Tame, Unlimited
    <3>2. CASE f # e
      BY <2>6, <2>7, <3>2 DEF Tame, Unlimited
    <3>3. QED
      BY <3>1, <3>2
  <2>14. ASSUME NEW q \in Requests PROVE Shape(q)' /\ StopInv(q)'
    <3>1. CASE q = r
      <4>1. ~req[r].stopped
        BY <1>1, <1>2 DEF StopInv, CreatingOps
      <4>2. StopInv(r)'
        BY <2>9, <2>11, <4>1 DEF StopInv
      <4>3. Shape(r)'
        BY <1>1, <1>2, <2>5, <2>7, <2>9, <2>11 DEF Shape, Signup, Login, Creating, CreatingOps
      <4>4. QED
        BY <3>1, <4>2, <4>3
    <3>2. CASE q # r
      <4>1. Rests(q) /\ Tame(req[q].token.user)
        BY <2>12, <2>13, <3>2
      <4>2. Shape(q)'
        BY <1>1, <1>2, <2>7, <4>1, ShapeKept DEF Rests
      <4>3. StopInv(q)'
        BY <1>1, <4>1, StopKept DEF Rests, Ident
      <4>4. QED
        BY <4>2, <4>3
    <3>3. QED
      BY <3>1, <3>2
  <2>15. TypeInv'
    <3>1. TablesOK'
      BY <1>1, <1>2, <2>5, <2>6, <2>7 DEF TablesOK
    <3>2. QED
      BY <2>11, <2>14, <3>1, TypeSplitPrime
  <2>16. ASSUME NEW q \in Requests
         PROVE  /\ Calm(q)
                /\ req'[q].first => req[q].first
                /\ req[q].op = "login" => req'[q].op = "login"
                /\ req[q].op = "signup" => req'[q].pc = req[q].pc
    <3>1. CASE q = r
      BY <1>2, <2>9, <2>11, <3>1 DEF Calm, Signup
    <3>2. CASE q # r
      BY <2>12, <3>2, RestsCalm DEF Rests, Ident
    <3>3. QED
      BY <3>1, <3>2
  <2>17. Promoting'
    <3>1. ~config.production /\ req'[r].op = "login"
      BY <1>2, <1>4, <2>9, <2>11 DEF shouldPromoteFirstLogin
    <3>2. QED
      BY <1>2, <3>1 DEF Promoting
  <2>18. /\ promoted \subseteq promoted' /\ (faults' = 0 => faults = 0)
         /\ (\A y \in rows' : y \in rows) /\ (\A y \in tokens' : y \in tokens)
    BY <1>2
  <2>19. QED
    BY <1>2, <2>6, <2>14, <2>15, <2>16, <2>17, <2>18, QuietStep
<1>5. QED
  BY <1>3, <1>4

\* The token of a login claims the memberships there are.
LEMMA AnswerStep ==
    ASSUME IInv, NEW r \in Requests, answerLogin(r) PROVE IInv'
<1>1. TypeInv /\ TablesOK /\ Shape(r) /\ StopInv(r)
  BY TypeSplit DEF IInv
<1>2. PICK t : t = TokenFor(req[r].email, req[r].user, {s \in Slugs : <<s, req[r].email>> \in members})
  OBVIOUS
<1>3. /\ req[r].op = "login" /\ req[r].pc = "answer" /\ tokens' = tokens \cup {t} /\ Goto(r, "done")
      /\ UNCHANGED <<config, users, orgs, members, rows, quota, promoted, admin, faults>>
  BY <1>2 DEF answerLogin, At
<1>4. "done" \in Pcs
  BY DEF Pcs
<1>5. /\ req' \in [Requests -> Request] /\ Others(r) /\ Ident(r) /\ req'[r].pc = "done"
      /\ req'[r].user = req[r].user /\ req'[r].first = req[r].first
      /\ req'[r].stopped = req[r].stopped
  BY <1>1, <1>3, <1>4, GotoFacts
<1>6. t \in Token /\ Owned(t)
  <2>1. req[r].user \in User /\ req[r].email \in Emails
    BY <1>1, <1>3 DEF Shape, TablesOK
  <2>2. QED
    BY <1>2, <2>1 DEF TokenFor, Token, User, Owned
<1>7. TablesOK'
  BY <1>1, <1>3, <1>6 DEF TablesOK
<1>8. Shape(r)'
  BY <1>1, <1>3, <1>5 DEF Shape, Ident, Signup, Login, Creating, CreatingOps
<1>9. StopInv(r)'
  BY <1>1, <1>3, <1>5 DEF StopInv, Ident, CreatingOps
<1>10. req'[r].pc \notin Signup
  BY <1>5 DEF Signup
<1>11. \A y \in tokens' : y \in tokens \/ Owned(y)
  BY <1>3, <1>6
<1>12. QED
  BY <1>3, <1>5, <1>7, <1>8, <1>9, <1>10, <1>11, MoveStep

--------------------------------------------------------------------------------
(***************************************************************************)
(* Signup                                                                  *)
(***************************************************************************)

\* A signup goes on: what it writes concerns types and overlaps no further.
LEMMA SignupMove ==
    ASSUME IInv, NEW r \in Requests, req[r].op = "signup", req[r].pc \in Signup, UNCHANGED users,
           TablesOK', Shape(r)', members \subseteq members', req' \in [Requests -> Request],
           Others(r), Ident(r), req'[r].stopped = req[r].stopped
    PROVE  TypeInv' /\ WithInv' /\ \A q \in Requests : StopInv(q)'
<1>1. TypeInv /\ WithInv /\ \A q \in Requests : Shape(q) /\ StopInv(q)
  BY TypeSplit DEF IInv
<1>2. ASSUME NEW q \in Requests PROVE Shape(q)' /\ StopInv(q)'
  <2>1. CASE q = r
    <3>1. ~req[r].stopped
      BY <1>1 DEF StopInv, CreatingOps
    <3>2. StopInv(r)'
      BY <3>1 DEF StopInv
    <3>3. QED
      BY <2>1, <3>2
  <2>2. CASE q # r
    <3>1. Rests(q)
      BY <2>2 DEF Others
    <3>2. Shape(q)'
      BY <1>1, <3>1, ShapeKept DEF Rests
    <3>3. StopInv(q)'
      BY <1>1, <3>1, StopKept, TameUnchanged DEF Rests, Ident
    <3>4. QED
      BY <3>2, <3>3
  <2>3. QED
    BY <2>1, <2>2
<1>3. TypeInv'
  BY <1>2, TypeSplitPrime
<1>4. \A q \in Requests : /\ req'[q].with = req[q].with
                          /\ req[q].op = "signup" => req'[q].op = "signup"
                          /\ req'[q].pc \in Signup => req[q].pc \in Signup
  BY DEF Others, Rests, Ident
<1>5. WithInv'
  BY <1>1, <1>4, WithKept
<1>6. QED
  BY <1>2, <1>3, <1>5

\* What a signup in progress knows about the others: they overlap it.
LEMMA Overlapping ==
    ASSUME WithInv, NEW r \in Requests, NEW q \in Requests, q # r,
           req[r].pc \in Signup, req[q].pc \in Signup
    PROVE  /\ q \in req[r].with /\ r \in req[q].with
           /\ req[q].slug = req[r].slug => SlugMate(q) /\ SlugMate(r)
           /\ req[q].email = req[r].email => EmailMate(q) /\ EmailMate(r)
BY DEF WithInv, SlugMate, EmailMate

\* The slug was free when it was looked up.
LEMMA FindOrganizationStep ==
    ASSUME IInv, NEW r \in Requests, findOrganizationBySlug(r) PROVE IInv'
<1>1. TypeInv /\ TablesOK /\ Shape(r) /\ WithInv /\ CollideInv /\ AccountInv /\ OrgInv
  BY TypeSplit DEF IInv
<1>2. /\ req[r].op = "signup" /\ req[r].pc = "slug"
      /\ UNCHANGED <<config, users, orgs, members, rows, quota, tokens, promoted, admin, faults>>
  BY DEF findOrganizationBySlug, At
<1>3. PICK c \in {"org", "refused"} : Goto(r, c) /\ (c = "org" => req[r].slug \notin orgs)
  BY DEF findOrganizationBySlug
<1>4. c \in Pcs
  BY DEF Pcs, Pending, Signup
<1>5. /\ req' \in [Requests -> Request] /\ Others(r) /\ Ident(r) /\ req'[r].pc = c
      /\ req'[r].first = req[r].first /\ req'[r].stopped = req[r].stopped
  BY <1>1, <1>3, <1>4, GotoFacts
<1>6. TablesOK' /\ Shape(r)' /\ members \subseteq members' /\ req[r].pc \in Signup
  <2>1. TablesOK'
    BY <1>1, <1>2 DEF TablesOK
  <2>2. Shape(r)'
    BY <1>1, <1>2, <1>3, <1>5 DEF Shape, Ident, Signup, Login, Creating, CreatingOps
  <2>3. QED
    BY <1>2, <2>1, <2>2 DEF Signup
<1>7. TypeInv' /\ WithInv' /\ \A q \in Requests : StopInv(q)'
  BY <1>2, <1>5, <1>6, SignupMove
<1>8. \A q \in Requests : /\ req'[q].with = req[q].with /\ req'[q].op = req[q].op
                          /\ req'[q].email = req[q].email /\ req'[q].slug = req[q].slug
                          /\ req'[q].invite = req[q].invite /\ req'[q].first = req[q].first
  BY <1>5 DEF Others, Rests, Ident
<1>9. \A q \in Requests \ {r} : req'[q].pc = req[q].pc
  BY <1>5 DEF Others, Rests
<1>10. CollideInv'
  <2>1. ASSUME NEW q \in Requests PROVE SlugInv(q)' /\ EmailInv(q)'
    <3> SUFFICES ASSUME req[q].op = "signup" PROVE SlugInv(q)' /\ EmailInv(q)'
      BY <1>8 DEF SlugInv, EmailInv
    <3>1. (SlugMate(q)' <=> SlugMate(q)) /\ (EmailMate(q)' <=> EmailMate(q))
      BY <1>1, <1>8, MatesKept
    <3>2. SlugInv(q) /\ EmailInv(q)
      BY <1>1 DEF CollideInv
    <3>3. CASE q = r
      BY <1>2, <1>3, <1>5, <1>8, <3>1, <3>2, <3>3 DEF SlugInv, EmailInv
    <3>4. CASE q # r
      BY <1>2, <1>8, <1>9, <3>1, <3>2, <3>4 DEF SlugInv, EmailInv
    <3>5. QED
      BY <3>3, <3>4
  <2>2. ASSUME NEW p \in Requests, NEW q \in Requests PROVE PairInv(p, q)'
    <3>1. PairInv(p, q) /\ SlugInv(q)
      BY <1>1 DEF CollideInv
    <3>2. q # r => req'[q].pc = req[q].pc
      BY <1>9
    <3>3. q = r => req'[q].pc # "done"
      BY <1>3, <1>5
    <3>4. CASE p = r
      BY <1>2, <1>3, <1>5, <1>8, <3>1, <3>2, <3>3, <3>4 DEF PairInv, SlugInv, Signup
    <3>5. CASE p # r
      BY <1>8, <1>9, <3>1, <3>2, <3>3, <3>5 DEF PairInv
    <3>6. QED
      BY <3>4, <3>5
  <2>3. QED
    BY <2>1, <2>2 DEF CollideInv
<1>11. AccountInv'
  <2>1. ASSUME NEW q \in Requests
        PROVE  /\ req[q].op = "signup" =>
                     /\ req'[q].op = "signup" /\ req'[q].email = req[q].email
                     /\ req'[q].invite = req[q].invite /\ req'[q].first = req[q].first
               /\ req[q].with \subseteq req'[q].with
               /\ req'[q].first => req[q].first
               /\ req[q].op = "login" => req'[q].op = "login"
               /\ req[q].op = "signup" =>
                     \/ req'[q].pc \in {req[q].pc, "failed"}
                     \/ req[q].pc = "member" /\ req'[q].pc = "done"
                     \/ req[q].pc \in {"slug", "org"} /\ req'[q].pc # "create"
    BY <1>2, <1>3, <1>5, <1>8, <1>9
  <2>2. /\ SameAccounts /\ promoted \subseteq promoted'
        /\ \A e \in DOMAIN users :
              users'[e].role = "ADMIN" /\ e \notin promoted' => users[e].role = "ADMIN"
    BY <1>2 DEF SameAccounts
  <2>3. QED
    BY <1>1, <1>2, <2>1, <2>2, AccountKept
<1>12. OrgInv'
  <2>1. \A q \in Requests : req[q].pc \in Joining => req'[q].pc \in Joining /\ req'[q].slug = req[q].slug
    BY <1>2, <1>8, <1>9 DEF Joining
  <2>2. QED
    BY <1>1, <1>2, <2>1, OrgKept
<1>13. QED
  BY <1>7, <1>10, <1>11, <1>12 DEF IInv

\* Whoever creates the organization meanwhile is a mate.
LEMMA CreateOrganizationStep ==
    ASSUME IInv, NEW r \in Requests, createOrganization(r) PROVE IInv'
<1>1. TypeInv /\ TablesOK /\ Shape(r) /\ WithInv /\ CollideInv /\ AccountInv /\ OrgInv
  BY TypeSplit DEF IInv
<1>2. /\ req[r].op = "signup" /\ req[r].pc = "org" /\ orgs' = orgs \cup {req[r].slug}
      /\ Goto(r, "users")
      /\ UNCHANGED <<config, users, members, rows, quota, tokens, promoted, admin, faults>>
  BY DEF createOrganization, At
<1>3. req[r].pc \in Signup /\ req[r].slug \in Slugs
  BY <1>1, <1>2 DEF Shape, Signup
<1>4. /\ req' \in [Requests -> Request] /\ Others(r) /\ Ident(r) /\ req'[r].pc = "users"
      /\ req'[r].first = req[r].first /\ req'[r].stopped = req[r].stopped
  <2>1. "users" \in Pcs
    BY DEF Pcs, Pending, Signup
  <2>2. QED
    BY <1>1, <1>2, <2>1, GotoFacts
<1>5. TablesOK' /\ Shape(r)' /\ members \subseteq members'
  <2>1. orgs' \subseteq Slugs /\ members' \subseteq orgs' \X DOMAIN users'
    BY <1>1, <1>2, <1>3 DEF TablesOK
  <2>2. TablesOK'
    BY <1>1, <1>2, <2>1 DEF TablesOK
  <2>3. Shape(r)'
    BY <1>1, <1>2, <1>4 DEF Shape, Ident, Signup, Login, Creating, CreatingOps
  <2>4. QED
    BY <1>2, <2>2, <2>3
<1>6. TypeInv' /\ WithInv' /\ \A q \in Requests : StopInv(q)'
  BY <1>2, <1>3, <1>4, <1>5, SignupMove
<1>7. \A q \in Requests : /\ req'[q].with = req[q].with /\ req'[q].op = req[q].op
                          /\ req'[q].email = req[q].email /\ req'[q].slug = req[q].slug
                          /\ req'[q].invite = req[q].invite /\ req'[q].first = req[q].first
  BY <1>4 DEF Others, Rests, Ident
<1>8. \A q \in Requests \ {r} : req'[q].pc = req[q].pc
  BY <1>4 DEF Others, Rests
<1>9. CollideInv'
  <2>1. ASSUME NEW q \in Requests PROVE SlugInv(q)' /\ EmailInv(q)'
    <3> SUFFICES ASSUME req[q].op = "signup" PROVE SlugInv(q)' /\ EmailInv(q)'
      BY <1>7 DEF SlugInv, EmailInv
    <3>1. (SlugMate(q)' <=> SlugMate(q)) /\ (EmailMate(q)' <=> EmailMate(q))
      BY <1>1, <1>7, MatesKept
    <3>2. SlugInv(q) /\ EmailInv(q)
      BY <1>1 DEF CollideInv
    <3>3. EmailInv(q)'
      <4>1. CASE q = r
        BY <1>2, <1>4, <1>7, <3>1, <3>2, <4>1 DEF EmailInv
      <4>2. CASE q # r
        BY <1>2, <1>7, <1>8, <3>1, <3>2, <4>2 DEF EmailInv
      <4>3. QED
        BY <4>1, <4>2
    <3>4. CASE q = r
      <4>1. ~SlugMate(r) => \A e \in Emails : <<req[r].slug, e>> \notin members
        BY <1>1, <1>2, <3>2, <3>4 DEF SlugInv, TablesOK
      <4>2. SlugInv(q)'
        BY <1>2, <1>4, <1>7, <3>1, <3>4, <4>1 DEF SlugInv
      <4>3. QED
        BY <3>3, <4>2
    <3>5. CASE q # r
      <4>1. req[q].pc = "org" /\ ~SlugMate(q) => req[q].slug # req[r].slug
        BY <1>1, <1>3, <3>5, Overlapping DEF Signup
      <4>2. SlugInv(q)'
        BY <1>2, <1>7, <1>8, <3>1, <3>2, <3>5, <4>1 DEF SlugInv
      <4>3. QED
        BY <3>3, <4>2
    <3>6. QED
      BY <3>4, <3>5
  <2>2. ASSUME NEW p \in Requests, NEW q \in Requests PROVE PairInv(p, q)'
    <3>1. PairInv(p, q)
      BY <1>1 DEF CollideInv
    <3>2. q # r => req'[q].pc = req[q].pc
      BY <1>8
    <3>3. q = r => req'[q].pc # "done"
      BY <1>4
    <3>4. req'[p].pc \in Signup \ {"slug"} => req[p].pc \in Signup \ {"slug"}
      BY <1>2, <1>8 DEF Signup
    <3>5. req'[p].pc \in Signup => req[p].pc \in Signup
      BY <1>3, <1>8
    <3>6. QED
      BY <1>7, <3>1, <3>2, <3>3, <3>4, <3>5 DEF PairInv
  <2>3. QED
    BY <2>1, <2>2 DEF CollideInv
<1>10. AccountInv'
  <2>1. ASSUME NEW q \in Requests
        PROVE  /\ req[q].op = "signup" =>
                     /\ req'[q].op = "signup" /\ req'[q].email = req[q].email
                     /\ req'[q].invite = req[q].invite /\ req'[q].first = req[q].first
               /\ req[q].with \subseteq req'[q].with
               /\ req'[q].first => req[q].first
               /\ req[q].op = "login" => req'[q].op = "login"
               /\ req[q].op = "signup" =>
                     \/ req'[q].pc \in {req[q].pc, "failed"}
                     \/ req[q].pc = "member" /\ req'[q].pc = "done"
                     \/ req[q].pc \in {"slug", "org"} /\ req'[q].pc # "create"
    BY <1>2, <1>4, <1>7, <1>8
  <2>2. /\ SameAccounts /\ promoted \subseteq promoted'
        /\ \A e \in DOMAIN users :
              users'[e].role = "ADMIN" /\ e \notin promoted' => users[e].role = "ADMIN"
    BY <1>2 DEF SameAccounts
  <2>3. QED
    BY <1>1, <1>2, <2>1, <2>2, AccountKept
<1>11. OrgInv'
  <2>1. \A q \in Requests : req[q].pc \in Joining => req'[q].pc \in Joining /\ req'[q].slug = req[q].slug
    BY <1>2, <1>7, <1>8 DEF Joining
  <2>2. \A s \in orgs' : s \in orgs \/ \E q \in Requests : req'[q].slug = s /\ req'[q].pc \in Joining
    BY <1>2, <1>4, <1>7 DEF Joining
  <2>3. QED
    BY <1>1, <1>2, <2>1, <2>2, OrgKept
<1>12. QED
  BY <1>6, <1>9, <1>10, <1>11 DEF IInv

\* The accounts are counted: who counts none knows that there is none.
LEMMA CountUsersStep ==
    ASSUME IInv, NEW r \in Requests, countUsers(r) PROVE IInv'
<1>1. TypeInv /\ TablesOK /\ Shape(r) /\ WithInv /\ CollideInv /\ AccountInv /\ OrgInv
      /\ req \in [Requests -> Request] /\ req[r] \in Request
  BY TypeSplit DEF IInv
<1>2. /\ req[r].op = "signup" /\ req[r].pc = "users"
      /\ req' = [req EXCEPT ![r].pc = "create", ![r].first = (DOMAIN users = {})]
      /\ UNCHANGED <<config, users, orgs, members, rows, quota, tokens, promoted, admin, faults>>
  BY DEF countUsers, At
<1>3. PICK b \in BOOLEAN : b = (DOMAIN users = {})
  OBVIOUS
<1>4. PICK x : x = [req[r] EXCEPT !.pc = "create", !.first = b]
  OBVIOUS
<1>5. /\ x \in Request /\ x.pc = "create" /\ x.op = req[r].op /\ x.email = req[r].email
      /\ x.slug = req[r].slug /\ x.name = req[r].name /\ x.size = req[r].size
      /\ x.invite = req[r].invite /\ x.token = req[r].token /\ x.with = req[r].with
      /\ x.user = req[r].user /\ x.first = b /\ x.stopped = req[r].stopped
  <2>1. x \in Request
    <3>1. "create" \in Pending
      BY DEF Pending, Signup
    <3>2. QED
      BY <1>1, <1>4, <3>1 DEF Request
  <2>2. x.pc = "create" /\ x.op = req[r].op /\ x.email = req[r].email /\ x.slug = req[r].slug
    BY <1>1, <1>4 DEF Request
  <2>3. x.name = req[r].name /\ x.size = req[r].size /\ x.invite = req[r].invite /\ x.token = req[r].token
    BY <1>1, <1>4 DEF Request
  <2>4. x.with = req[r].with /\ x.user = req[r].user /\ x.first = b /\ x.stopped = req[r].stopped
    BY <1>1, <1>4 DEF Request
  <2>5. QED
    BY <2>1, <2>2, <2>3, <2>4
<1>6. req' = [req EXCEPT ![r] = x]
  BY <1>1, <1>2, <1>3, <1>4
<1>7. req'[r] = x /\ req' \in [Requests -> Request] /\ \A q \in Requests \ {r} : req'[q] = req[q]
  BY <1>1, <1>5, <1>6
<1>8. Others(r) /\ Ident(r)
  BY <1>5, <1>7 DEF Others, Rests, Ident
<1>9. TypeInv' /\ WithInv' /\ \A q \in Requests : StopInv(q)'
  <2>1. TablesOK'
    BY <1>1, <1>2 DEF TablesOK
  <2>2. Shape(r)'
    BY <1>1, <1>2, <1>5, <1>7 DEF Shape, Signup, Login, Creating, CreatingOps
  <2>3. req[r].pc \in Signup /\ req'[r].stopped = req[r].stopped /\ members \subseteq members'
    BY <1>2, <1>5, <1>7 DEF Signup
  <2>4. QED
    BY <1>2, <1>7, <1>8, <2>1, <2>2, <2>3, SignupMove
<1>10. \A q \in Requests : /\ req'[q].with = req[q].with /\ req'[q].op = req[q].op
                           /\ req'[q].email = req[q].email /\ req'[q].slug = req[q].slug
                           /\ req'[q].invite = req[q].invite
  BY <1>8 DEF Others, Rests, Ident
<1>11. \A q \in Requests \ {r} : req'[q] = req[q]
  BY <1>7
<1>12. CollideInv'
  <2>1. ASSUME NEW q \in Requests
        PROVE  /\ req'[q].pc \in Signup => req[q].pc \in Signup
               /\ Stays(q) \/ (req[q].pc = "users" /\ req'[q].pc = "create")
    BY <1>2, <1>5, <1>7, <1>11 DEF Stays, Signup
  <2>2. SameAccounts
    BY <1>2 DEF SameAccounts
  <2>3. QED
    BY <1>1, <1>2, <1>10, <2>1, <2>2, CollideKept
<1>13. AccountInv'
  <2>1. \A e \in DOMAIN users : OwnerInv(e) /\ AdminInv(e) /\ users[e].password \in Requests \cup {None}
    BY <1>1 DEF AccountInv, TypeInv, TypeOK, User
  <2>2. \A e \in DOMAIN users : users[e].password # r
    BY <1>2, <2>1, SMTT(30) DEF OwnerInv
  <2>3. Promoting' <=> Promoting
    BY <1>2, <1>10 DEF Promoting
  <2>4. ASSUME NEW e \in DOMAIN users PROVE OwnerInv(e)' /\ AdminInv(e)'
    <3>1. CASE users[e].password = None
      BY <1>2, <2>1, <2>3, <3>1 DEF OwnerInv, AdminInv
    <3>2. CASE users[e].password # None
      <4>1. req'[users[e].password] = req[users[e].password]
        BY <1>11, <2>1, <2>2, <3>2
      <4>2. OwnerInv(e)'
        <5>1. users' = users /\ OwnerInv(e)
          BY <1>2, <2>1
        <5>2. QED
          BY <4>1, <5>1 DEF OwnerInv
      <4>3. AdminInv(e)'
        <5> SUFFICES ASSUME users'[e].role = "ADMIN", e \notin promoted', ~Promoting'
                     PROVE  /\ users'[e].password # None
                            /\ IsAdminBootstrap(e, req[users[e].password].invite, req[users[e].password].first)'
          BY DEF AdminInv
        <5>1. IsAdminBootstrap(e, req[users[e].password].invite, req[users[e].password].first)
          BY <1>2, <2>1, <2>3 DEF AdminInv
        <5>2. users' = users /\ config' = config
          BY <1>2
        <5>3. QED
          BY <3>2, <4>1, <5>1, <5>2 DEF IsAdminBootstrap
      <4>4. QED
        BY <4>2, <4>3
    <3>3. QED
      BY <3>1, <3>2
  <2>5. ASSUME NEW q \in Requests PROVE FirstInv(q)'
    <3>1. CASE q = r
      BY <1>2, <1>3, <1>5, <1>7, <3>1 DEF FirstInv
    <3>2. CASE q # r
      BY <1>1, <1>2, <1>11, <3>2 DEF FirstInv, AccountInv
    <3>3. QED
      BY <3>1, <3>2
  <2>6. ASSUME NEW e \in DOMAIN users, NEW f \in DOMAIN users, e # f PROVE FirstPair(e, f)'
    <3>1. FirstPair(e, f)
      BY <1>1, <2>6 DEF AccountInv
    <3>2. /\ users[e].password # None => req'[users[e].password] = req[users[e].password]
          /\ users[f].password # None => req'[users[f].password] = req[users[f].password]
      BY <1>11, <2>1, <2>2
    <3>3. QED
      BY <1>2, <3>1, <3>2 DEF FirstPair
  <2>7. QED
    BY <1>2, <2>4, <2>5, <2>6 DEF AccountInv
<1>14. OrgInv'
  <2>1. \A q \in Requests : req[q].pc \in Joining => req'[q].pc \in Joining /\ req'[q].slug = req[q].slug
    BY <1>2, <1>5, <1>7, <1>10, <1>11 DEF Joining
  <2>2. QED
    BY <1>1, <1>2, <2>1, OrgKept
<1>15. QED
  BY <1>9, <1>12, <1>13, <1>14 DEF IInv

\* The membership makes the organization the account's: alone in it, unless another signup had
\* the slug at the same time.
LEMMA AddMemberStep ==
    ASSUME IInv, NEW r \in Requests, addMember(r) PROVE IInv'
<1>1. TypeInv /\ TablesOK /\ Shape(r) /\ WithInv /\ CollideInv /\ AccountInv /\ OrgInv
  BY TypeSplit DEF IInv
<1>2. PICK e, s : e = req[r].email /\ s = req[r].slug
  OBVIOUS
<1>3. PICK t : t = TokenFor(e, signupPolicyForAccount(r), {s})
  OBVIOUS
<1>4. /\ req[r].op = "signup" /\ req[r].pc = "member" /\ members' = members \cup {<<s, e>>}
      /\ tokens' = tokens \cup {t}
      /\ UNCHANGED <<config, users, orgs, rows, quota, promoted, admin, faults>>
  BY <1>2, <1>3 DEF addMember, At
<1>5. req[r].pc \in Signup /\ e \in Emails /\ s \in Slugs /\ e \in DOMAIN users /\ s \in orgs
  BY <1>1, <1>2, <1>4 DEF Shape, Signup, CollideInv, SlugInv, EmailInv
<1>6. t \in Token /\ t.orgs = {s} /\ t.user = e
  BY <1>3, <1>5 DEF TokenFor, Token, signupPolicyForAccount
<1>7. /\ req' \in [Requests -> Request] /\ Others(r) /\ Ident(r) /\ req'[r].pc = "done"
      /\ req'[r].first = req[r].first /\ req'[r].stopped = req[r].stopped
  <2>1. PICK Q : Q = {q \in Requests : req[q].token # None /\ req[q].token.user = req[r].email}
    OBVIOUS
  <2>2. req' = [q \in Requests |->
            IF q = r THEN [req[r] EXCEPT !.pc = "done"]
            ELSE IF q \in Q THEN [req[q] EXCEPT !.raced = TRUE] ELSE req[q]]
    BY <2>1 DEF addMember
  <2>3. QED
    BY <1>1, <2>2, OvertakeFacts
<1>8. TablesOK' /\ Shape(r)' /\ members \subseteq members'
  <2>1. members' \subseteq orgs' \X DOMAIN users' /\ tokens' \subseteq Token
    BY <1>1, <1>4, <1>5, <1>6 DEF TablesOK
  <2>2. TablesOK'
    BY <1>1, <1>4, <2>1 DEF TablesOK
  <2>3. Shape(r)'
    BY <1>1, <1>4, <1>7 DEF Shape, Ident, Signup, Login, Creating, CreatingOps
  <2>4. QED
    BY <1>4, <2>2, <2>3
<1>9. TypeInv' /\ WithInv' /\ \A q \in Requests : StopInv(q)'
  BY <1>4, <1>5, <1>7, <1>8, SignupMove
<1>10. \A q \in Requests : /\ req'[q].with = req[q].with /\ req'[q].op = req[q].op
                           /\ req'[q].email = req[q].email /\ req'[q].slug = req[q].slug
                           /\ req'[q].invite = req[q].invite /\ req'[q].first = req[q].first
  BY <1>7 DEF Others, Rests, Ident
<1>11. \A q \in Requests \ {r} : req'[q].pc = req[q].pc
  BY <1>7 DEF Others, Rests
<1>12. CollideInv'
  <2>1. ASSUME NEW q \in Requests PROVE SlugInv(q)' /\ EmailInv(q)'
    <3> SUFFICES ASSUME req[q].op = "signup" PROVE SlugInv(q)' /\ EmailInv(q)'
      BY <1>10 DEF SlugInv, EmailInv
    <3>1. (SlugMate(q)' <=> SlugMate(q)) /\ (EmailMate(q)' <=> EmailMate(q))
      BY <1>1, <1>10, MatesKept
    <3>2. SlugInv(q) /\ EmailInv(q)
      BY <1>1 DEF CollideInv
    <3>3. EmailInv(q)'
      <4>1. CASE q = r
        BY <1>4, <1>7, <1>10, <3>1, <3>2, <4>1 DEF EmailInv
      <4>2. CASE q # r
        BY <1>4, <1>10, <1>11, <3>1, <3>2, <4>2 DEF EmailInv
      <4>3. QED
        BY <4>1, <4>2
    <3>4. CASE q = r
      <4>1. ~SlugMate(r) => \A f \in Emails : <<s, f>> \notin members
        BY <1>2, <1>4, <3>2, <3>4 DEF SlugInv
      <4>2. ~SlugMate(r) => \A f \in Emails : <<s, f>> \in members' <=> f = e
        BY <1>4, <4>1
      <4>3. SlugInv(q)'
        BY <1>2, <1>4, <1>5, <1>7, <1>10, <3>1, <3>4, <4>2 DEF SlugInv
      <4>4. QED
        BY <3>3, <4>3
    <3>5. CASE q # r
      <4>1. req[q].pc \in {"users", "create", "member", "done"} /\ ~SlugMate(q) => req[q].slug # s
        <5>1. CASE req[q].pc \in {"users", "create", "member"}
          BY <1>1, <1>2, <1>5, <3>5, <5>1, Overlapping DEF Signup
        <5>2. CASE req[q].pc = "done"
          <6>1. PairInv(r, q)
            BY <1>1 DEF CollideInv
          <6>2. req[q].slug = s => r \in req[q].with
            BY <1>2, <1>4, <5>2, <6>1 DEF PairInv, Signup
          <6>3. QED
            BY <1>2, <6>2 DEF SlugMate
        <5>3. QED
          BY <5>1, <5>2
      <4>2. req[q].slug # s =>
                \A f \in Emails : <<req[q].slug, f>> \in members' <=> <<req[q].slug, f>> \in members
        BY <1>4
      <4>3. SlugInv(q)'
        BY <1>4, <1>10, <1>11, <3>1, <3>2, <3>5, <4>1, <4>2 DEF SlugInv
      <4>4. QED
        BY <3>3, <4>3
    <3>6. QED
      BY <3>4, <3>5
  <2>2. ASSUME NEW p \in Requests, NEW q \in Requests PROVE PairInv(p, q)'
    <3>1. PairInv(p, q)
      BY <1>1 DEF CollideInv
    <3>2. CASE p = r
      BY <1>7, <3>2 DEF PairInv, Signup
    <3>3. CASE p # r /\ q = r
      <4>1. req[p].pc \in Signup => p \in req[r].with
        BY <1>1, <1>5, <3>3, Overlapping
      <4>2. QED
        BY <1>10, <1>11, <3>3, <4>1 DEF PairInv
    <3>4. CASE p # r /\ q # r
      BY <1>10, <1>11, <3>1, <3>4 DEF PairInv
    <3>5. QED
      BY <3>2, <3>3, <3>4
  <2>3. QED
    BY <2>1, <2>2 DEF CollideInv
<1>13. AccountInv'
  <2>1. ASSUME NEW q \in Requests
        PROVE  /\ req[q].op = "signup" =>
                     /\ req'[q].op = "signup" /\ req'[q].email = req[q].email
                     /\ req'[q].invite = req[q].invite /\ req'[q].first = req[q].first
               /\ req[q].with \subseteq req'[q].with
               /\ req'[q].first => req[q].first
               /\ req[q].op = "login" => req'[q].op = "login"
               /\ req[q].op = "signup" =>
                     \/ req'[q].pc \in {req[q].pc, "failed"}
                     \/ req[q].pc = "member" /\ req'[q].pc = "done"
                     \/ req[q].pc \in {"slug", "org"} /\ req'[q].pc # "create"
    BY <1>4, <1>7, <1>10, <1>11
  <2>2. /\ SameAccounts /\ promoted \subseteq promoted'
        /\ \A f \in DOMAIN users :
              users'[f].role = "ADMIN" /\ f \notin promoted' => users[f].role = "ADMIN"
    BY <1>4 DEF SameAccounts
  <2>3. QED
    BY <1>1, <1>4, <2>1, <2>2, AccountKept
<1>14. OrgInv'
  <2>1. \A q \in Requests : req[q].pc \in Joining =>
            \/ req'[q].pc \in Joining /\ req'[q].slug = req[q].slug
            \/ \E f \in Emails : <<req[q].slug, f>> \in members'
    BY <1>2, <1>4, <1>5, <1>10, <1>11
  <2>2. \A y \in tokens' : y \in tokens \/ Owned(y)'
    BY <1>4, <1>6 DEF Owned
  <2>3. QED
    BY <1>1, <1>4, <1>8, <2>1, <2>2, OrgKept
<1>15. QED
  BY <1>9, <1>12, <1>13, <1>14 DEF IInv

\* The account is written: another signup's, if there is one, overlaps.
LEMMA CreateUserStep ==
    ASSUME IInv, NEW r \in Requests, createUser(r) PROVE IInv'
<1>1. TypeInv /\ TablesOK /\ WithInv /\ CollideInv /\ AccountInv /\ OrgInv
      /\ req \in [Requests -> Request] /\ req[r] \in Request
      /\ \A q \in Requests : Shape(q) /\ StopInv(q)
  BY TypeSplit DEF IInv
<1>2. PICK e : e = req[r].email
  OBVIOUS
<1>3. PICK u : u = [role |-> signupPolicyForAccount(r).role,
                    accountType |-> signupPolicyForAccount(r).accountType,
                    approval |-> signupPolicyForAccount(r).approval, password |-> r,
                    born |-> IF e \in DOMAIN users THEN users[e].born ELSE Cardinality(DOMAIN users)]
  OBVIOUS
<1>4. /\ req[r].op = "signup" /\ req[r].pc = "create" /\ users' = Put(users, e, u)
      /\ req' = [q \in Requests |->
            IF q = r THEN [req[r] EXCEPT !.pc = "member"]
            ELSE IF req[q].token # None /\ req[q].token.user = e
            THEN [req[q] EXCEPT !.stopped = FALSE] ELSE req[q]]
      /\ UNCHANGED <<config, orgs, members, rows, quota, tokens, promoted, admin, faults>>
  BY <1>2, <1>3 DEF createUser, At
<1>5. req[r].pc \in Signup /\ e \in Emails
  BY <1>1, <1>2, <1>4 DEF Shape, Signup
<1>6. /\ u \in User /\ u.password = r
      /\ u.role = "ADMIN" => IsAdminBootstrap(e, req[r].invite, req[r].first)
  <2>1. Cardinality(DOMAIN users) \in Nat
    BY <1>1, FS_CardinalityType DEF TablesOK
  <2>2. e \in DOMAIN users => users[e].born \in Nat
    BY <1>1 DEF TablesOK, User
  <2>3. /\ signupPolicyForAccount(r).role \in {"USER", "ADMIN"}
        /\ signupPolicyForAccount(r).accountType = "NON_CLUB"
        /\ signupPolicyForAccount(r).approval \in {"PENDING", "APPROVED"}
        /\ signupPolicyForAccount(r).role = "ADMIN" => IsAdminBootstrap(e, req[r].invite, req[r].first)
    BY <1>2 DEF signupPolicyForAccount
  <2>4. QED
    BY <1>3, <2>1, <2>2, <2>3 DEF User
<1>7. /\ DOMAIN users' = DOMAIN users \cup {e} /\ users'[e] = u
      /\ \A f \in DOMAIN users : f # e => users'[f] = users[f]
  BY <1>4 DEF Put
<1>8. TablesOK'
  <2>1. IsFiniteSet(DOMAIN users')
    BY <1>1, <1>7, FS_AddElement DEF TablesOK
  <2>2. DOMAIN users' \subseteq Emails /\ \A f \in DOMAIN users' : users'[f] \in User
    BY <1>1, <1>5, <1>6, <1>7 DEF TablesOK
  <2>3. members' \subseteq orgs' \X DOMAIN users'
    BY <1>1, <1>4, <1>7 DEF TablesOK
  <2>4. QED
    BY <1>1, <1>4, <2>1, <2>2, <2>3 DEF TablesOK
<1>9. req'[r] \in Request /\ Ident(r) /\ req'[r].pc = "member" /\ req'[r].first = req[r].first
      /\ req'[r].stopped = req[r].stopped
  <2>1. PICK x : x = [req[r] EXCEPT !.pc = "member"]
    OBVIOUS
  <2>2. /\ x \in Request /\ x.pc = "member" /\ x.op = req[r].op /\ x.email = req[r].email
        /\ x.slug = req[r].slug /\ x.name = req[r].name /\ x.size = req[r].size
        /\ x.invite = req[r].invite /\ x.token = req[r].token /\ x.with = req[r].with
        /\ x.user = req[r].user /\ x.first = req[r].first /\ x.stopped = req[r].stopped
    BY <1>1, <2>1 DEF Request, Pending, Signup
  <2>3. req'[r] = x
    BY <1>4, <2>1
  <2>4. QED
    BY <2>2, <2>3 DEF Ident
<1>10. ASSUME NEW q \in Requests \ {r}
       PROVE  /\ req'[q] \in Request
              /\ Ident(q) /\ req'[q].pc = req[q].pc /\ req'[q].user = req[q].user
              /\ req'[q].first = req[q].first
              /\ req'[q].stopped => req[q].stopped /\ Tame(req[q].token.user)
  <2>1. req[q] \in Request
    BY <1>1
  <2>2. CASE req[q].token # None /\ req[q].token.user = e
    <3>1. PICK y : y = [req[q] EXCEPT !.stopped = FALSE]
      OBVIOUS
    <3>2. /\ y \in Request /\ y.pc = req[q].pc /\ y.op = req[q].op /\ y.email = req[q].email
          /\ y.slug = req[q].slug /\ y.name = req[q].name /\ y.size = req[q].size
          /\ y.invite = req[q].invite /\ y.token = req[q].token /\ y.with = req[q].with
          /\ y.user = req[q].user /\ y.first = req[q].first /\ y.stopped = FALSE
      BY <2>1, <3>1 DEF Request
    <3>3. req'[q] = y
      BY <1>4, <2>2, <3>1
    <3>4. QED
      BY <3>2, <3>3 DEF Ident
  <2>3. CASE ~(req[q].token # None /\ req[q].token.user = e)
    <3>1. req'[q] = req[q]
      BY <1>4, <2>3
    <3>2. ASSUME req[q].stopped PROVE Tame(req[q].token.user)
      <4>1. StopInv(q) /\ Shape(q)
        BY <1>1
      <4>2. req[q].op \in CreatingOps
        BY <3>2, <4>1 DEF StopInv
      <4>3. req[q].token \in Token
        BY <4>1, <4>2 DEF Shape
      <4>4. req[q].token.user # e
        BY <2>3, <4>3
      <4>5. ASSUME NEW f, f # e PROVE Tame(f)
        BY <1>7, <4>5 DEF Tame, Unlimited
      <4>6. QED
        BY <4>4, <4>5
    <3>3. QED
      BY <2>1, <3>1, <3>2 DEF Ident
  <2>4. QED
    BY <2>2, <2>3
<1>11. req' \in [Requests -> Request]
  <2>1. DOMAIN req' = Requests /\ req' = [q \in DOMAIN req' |-> req'[q]]
    BY <1>4
  <2>2. QED
    BY <1>9, <1>10, <2>1
<1>12. ASSUME NEW q \in Requests PROVE Shape(q)' /\ StopInv(q)'
  <2>1. CASE q = r
    <3>1. ~req[r].stopped
      BY <1>1, <1>4 DEF StopInv, CreatingOps
    <3>2. StopInv(r)'
      BY <1>9, <3>1 DEF StopInv
    <3>3. Shape(r)'
      BY <1>1, <1>4, <1>9 DEF Shape, Ident, Signup, Login, Creating, CreatingOps
    <3>4. QED
      BY <2>1, <3>2, <3>3
  <2>2. CASE q # r
    <3>1. /\ Ident(q) /\ req'[q].pc = req[q].pc /\ req'[q].user = req[q].user
          /\ req'[q].stopped => req[q].stopped /\ Tame(req[q].token.user)
      BY <1>10, <2>2
    <3>2. Shape(q)'
      BY <1>1, <1>4, <1>7, <3>1, ShapeKept
    <3>3. CASE req'[q].stopped
      BY <1>1, <3>1, <3>2, <3>3, StopKept DEF Ident
    <3>4. CASE ~req'[q].stopped
      BY <3>2, <3>4 DEF StopInv
    <3>5. QED
      BY <3>3, <3>4
  <2>3. QED
    BY <2>1, <2>2
<1>13. TypeInv'
  BY <1>8, <1>11, <1>12, TypeSplitPrime
<1>14. \A q \in Requests : /\ req'[q].with = req[q].with /\ req'[q].op = req[q].op
                           /\ req'[q].email = req[q].email /\ req'[q].slug = req[q].slug
                           /\ req'[q].invite = req[q].invite /\ req'[q].first = req[q].first
  BY <1>9, <1>10 DEF Ident
<1>15. \A q \in Requests \ {r} : req'[q].pc = req[q].pc
  BY <1>10
<1>16. WithInv'
  <2>1. \A q \in Requests : req'[q].pc \in Signup => req[q].pc \in Signup
    BY <1>5, <1>15
  <2>2. QED
    BY <1>1, <1>14, <2>1, WithKept
<1>17. CollideInv'
  <2>1. ASSUME NEW q \in Requests PROVE SlugInv(q)' /\ EmailInv(q)'
    <3> SUFFICES ASSUME req[q].op = "signup" PROVE SlugInv(q)' /\ EmailInv(q)'
      BY <1>14 DEF SlugInv, EmailInv
    <3>1. (SlugMate(q)' <=> SlugMate(q)) /\ (EmailMate(q)' <=> EmailMate(q))
      BY <1>1, <1>14, MatesKept
    <3>2. SlugInv(q) /\ EmailInv(q)
      BY <1>1 DEF CollideInv
    <3>3. SlugInv(q)'
      <4>1. CASE q = r
        <5>1. /\ orgs' = orgs /\ members' = members /\ req'[r].pc = "member" /\ req[r].pc = "create"
              /\ req'[r].slug = req[r].slug /\ req'[r].op = req[r].op
          BY <1>4, <1>9, <1>14
        <5>2. QED
          BY <3>1, <3>2, <4>1, <5>1 DEF SlugInv
      <4>2. CASE q # r
        BY <1>4, <1>14, <1>15, <3>1, <3>2, <4>2 DEF SlugInv
      <4>3. QED
        BY <4>1, <4>2
    <3>4. CASE q = r
      <4>1. EmailInv(q)'
        BY <1>2, <1>6, <1>7, <1>9, <1>14, <3>4 DEF EmailInv
      <4>2. QED
        BY <3>3, <4>1
    <3>5. CASE q # r
      <4>1. req[q].pc \in Signup \cup {"done"} /\ ~EmailMate(q) => req[q].email # e
        <5>1. CASE req[q].pc \in Signup
          BY <1>1, <1>2, <1>5, <3>5, <5>1, Overlapping
        <5>2. CASE req[q].pc = "done"
          <6>1. PairInv(r, q)
            BY <1>1 DEF CollideInv
          <6>2. req[q].email = e => r \in req[q].with
            BY <1>2, <1>5, <5>2, <6>1 DEF PairInv
          <6>3. QED
            BY <1>2, <6>2 DEF EmailMate
        <5>3. QED
          BY <5>1, <5>2
      <4>2. CASE req[q].pc \in {"slug", "org", "users", "create"}
        <5>1. EmailInv(q)'
          BY <1>7, <1>14, <1>15, <3>1, <3>2, <3>5, <4>1, <4>2 DEF EmailInv, Signup
        <5>2. QED
          BY <3>3, <5>1
      <4>3. CASE req[q].pc \in {"member", "done"}
        <5>1. /\ req[q].email \in DOMAIN users
              /\ ~EmailMate(q) => users[req[q].email].password = q /\ req[q].email # e
          BY <3>2, <4>1, <4>3 DEF EmailInv, Signup
        <5>2. EmailInv(q)'
          BY <1>7, <1>14, <1>15, <3>1, <3>5, <4>3, <5>1 DEF EmailInv
        <5>3. QED
          BY <3>3, <5>2
      <4>4. CASE req[q].pc \notin {"slug", "org", "users", "create", "member", "done"}
        <5>1. EmailInv(q)'
          BY <1>15, <3>5, <4>4 DEF EmailInv
        <5>2. QED
          BY <3>3, <5>1
      <4>5. QED
        BY <4>2, <4>3, <4>4
    <3>6. QED
      BY <3>4, <3>5
  <2>2. ASSUME NEW p \in Requests, NEW q \in Requests PROVE PairInv(p, q)'
    <3>1. PairInv(p, q)
      BY <1>1 DEF CollideInv
    <3>2. q # r => req'[q].pc = req[q].pc
      BY <1>15
    <3>3. q = r => req'[q].pc # "done"
      BY <1>9
    <3>4. req'[p].pc \in Signup \ {"slug"} => req[p].pc \in Signup \ {"slug"}
      BY <1>4, <1>15 DEF Signup
    <3>5. req'[p].pc \in Signup => req[p].pc \in Signup
      BY <1>5, <1>15
    <3>6. QED
      BY <1>14, <3>1, <3>2, <3>3, <3>4, <3>5 DEF PairInv
  <2>3. QED
    BY <2>1, <2>2 DEF CollideInv
<1>18. AccountInv'
  <2>1. \A f \in DOMAIN users : /\ OwnerInv(f) /\ AdminInv(f)
                                /\ users[f].password \in Requests \cup {None}
                                /\ users[f].password # r
    <3>1. \A f \in DOMAIN users : OwnerInv(f) /\ AdminInv(f) /\ users[f].password \in Requests \cup {None}
      BY <1>1 DEF AccountInv, TypeInv, TypeOK, User
    <3>2. \A f \in DOMAIN users : users[f].password # r
      BY <1>4, <3>1 DEF OwnerInv
    <3>3. QED
      BY <3>1, <3>2
  <2>2. Promoting' <=> Promoting
    BY <1>4, <1>14 DEF Promoting
  <2>3. ASSUME NEW f \in DOMAIN users' PROVE OwnerInv(f)' /\ AdminInv(f)'
    <3>1. CASE f = e
      <4>1. users'[f].password = r /\ users'[f].role = u.role
        BY <1>6, <1>7, <3>1
      <4>2. OwnerInv(f)'
        BY <1>2, <1>4, <1>9, <1>14, <3>1, <4>1 DEF OwnerInv
      <4>3. IsAdminBootstrap(f, req[r].invite, req[r].first) =>
                IsAdminBootstrap(f, req[r].invite, req[r].first)'
        BY <1>4, <1>14 DEF IsAdminBootstrap
      <4>4. AdminInv(f)'
        <5> SUFFICES ASSUME users'[f].role = "ADMIN"
                     PROVE  /\ users'[f].password # None
                            /\ IsAdminBootstrap(f, req[users[f].password].invite, req[users[f].password].first)'
          BY DEF AdminInv
        <5>1. IsAdminBootstrap(f, req[r].invite, req[r].first)'
          BY <1>6, <3>1, <4>1, <4>3
        <5>2. QED
          BY <4>1, <5>1
      <4>5. QED
        BY <4>2, <4>4
    <3>2. CASE f # e
      <4>1. f \in DOMAIN users /\ users'[f] = users[f]
        BY <1>7, <3>2
      <4>2. PICK p : p = users[f].password
        OBVIOUS
      <4>3. OwnerInv(f)'
        <5>1. p # None => /\ req'[p].pc = req[p].pc /\ req'[p].op = req[p].op /\ req'[p].email = req[p].email
                          /\ req[p].op = "signup" /\ req[p].email = f
                          /\ req[p].pc \in {"member", "done", "failed"}
          BY <1>14, <1>15, <2>1, <4>1, <4>2 DEF OwnerInv
        <5>2. QED
          BY <4>1, <4>2, <5>1 DEF OwnerInv
      <4>4. AdminInv(f)'
        <5> SUFFICES ASSUME users'[f].role = "ADMIN", f \notin promoted', ~Promoting'
                     PROVE  /\ users'[f].password # None
                            /\ IsAdminBootstrap(f, req[users[f].password].invite, req[users[f].password].first)'
          BY DEF AdminInv
        <5>1. p # None /\ IsAdminBootstrap(f, req[p].invite, req[p].first)
          BY <1>4, <2>1, <2>2, <4>1, <4>2 DEF AdminInv
        <5>2. p \in Requests /\ req'[p].invite = req[p].invite /\ req'[p].first = req[p].first
          BY <1>14, <2>1, <4>1, <4>2, <5>1
        <5>3. IsAdminBootstrap(f, req[p].invite, req[p].first)'
          BY <1>4, <5>1, <5>2 DEF IsAdminBootstrap
        <5>4. QED
          BY <4>1, <4>2, <5>1, <5>3
      <4>5. QED
        BY <4>3, <4>4
    <3>3. QED
      BY <3>1, <3>2
  <2>4. ASSUME NEW q \in Requests PROVE FirstInv(q)'
    <3>1. FirstInv(q)
      BY <1>1 DEF AccountInv
    <3>2. CASE q = r
      BY <1>4, <1>9, <1>14, <3>1, <3>2 DEF FirstInv
    <3>3. CASE q # r
      <4>1. ASSUME req[q].first, req[q].pc = "create", NEW f \in DOMAIN users'
            PROVE  users'[f].password \in req[q].with
        <5>1. CASE f = e
          BY <1>1, <1>5, <1>6, <1>7, <3>3, <4>1, <5>1, Overlapping DEF Signup
        <5>2. CASE f # e
          BY <1>7, <3>1, <4>1, <5>2 DEF FirstInv
        <5>3. QED
          BY <5>1, <5>2
      <4>2. QED
        BY <1>14, <1>15, <3>1, <3>3, <4>1 DEF FirstInv
    <3>4. QED
      BY <3>2, <3>3
  <2>5. ASSUME NEW f \in DOMAIN users', NEW g \in DOMAIN users', f # g PROVE FirstPair(f, g)'
    <3>1. FirstInv(r)
      BY <1>1 DEF AccountInv
    <3>2. PICK p, q : p = users'[f].password /\ q = users'[g].password
      OBVIOUS
    <3>3. SUFFICES ASSUME p # None, q # None, req'[p].first, req'[q].first PROVE q \in req'[p].with
      BY <3>2 DEF FirstPair
    <3>4. p \in Requests /\ q \in Requests
      BY <1>6, <1>7, <2>1, <3>2, <3>3
    <3>5. req[p].first /\ req[q].first /\ req'[p].with = req[p].with
      BY <1>14, <3>3, <3>4
    <3>6. CASE f = e
      <4>1. p = r /\ g \in DOMAIN users /\ q = users[g].password
        BY <1>6, <1>7, <2>5, <3>2, <3>6
      <4>2. QED
        BY <1>4, <3>1, <3>5, <4>1 DEF FirstInv
    <3>7. CASE g = e
      <4>1. q = r /\ f \in DOMAIN users /\ p = users[f].password
        BY <1>6, <1>7, <2>5, <3>2, <3>7
      <4>2. p \in req[r].with
        BY <1>4, <3>1, <3>5, <4>1 DEF FirstInv
      <4>3. QED
        BY <1>1, <3>4, <3>5, <4>1, <4>2 DEF WithInv
    <3>8. CASE f # e /\ g # e
      <4>1. f \in DOMAIN users /\ g \in DOMAIN users /\ p = users[f].password /\ q = users[g].password
        BY <1>7, <3>2, <3>8
      <4>2. FirstPair(f, g)
        BY <1>1, <2>5, <4>1 DEF AccountInv
      <4>3. QED
        BY <3>3, <3>5, <4>1, <4>2 DEF FirstPair
    <3>9. QED
      BY <3>6, <3>7, <3>8
  <2>6. QED
    BY <2>3, <2>4, <2>5 DEF AccountInv
<1>19. OrgInv'
  <2>1. \A q \in Requests : req[q].pc \in Joining => req'[q].pc \in Joining /\ req'[q].slug = req[q].slug
    BY <1>9, <1>14, <1>15 DEF Joining
  <2>2. QED
    BY <1>1, <1>4, <2>1, OrgKept
<1>20. QED
  BY <1>12, <1>13, <1>16, <1>17, <1>18, <1>19 DEF IInv

\* A signup comes in: it and the signups under way know of each other from now on.
LEMMA SignupStep ==
    ASSUME IInv, NEW r \in Requests, NEW e \in Emails, NEW s \in Slugs, NEW invite \in BOOLEAN,
           signup(r, e, s, invite)
    PROVE  IInv'
<1>1. TypeInv /\ TablesOK /\ WithInv /\ CollideInv /\ AccountInv /\ OrgInv
      /\ req \in [Requests -> Request] /\ \A q \in Requests : Shape(q) /\ StopInv(q)
  BY TypeSplit DEF IInv
<1>2. PICK current : current = {q \in Requests : req[q].op = "signup" /\ req[q].pc \in Signup}
  OBVIOUS
<1>3. PICK c \in {"refused", "slug"} : c = IF e \in DOMAIN users THEN "refused" ELSE "slug"
  OBVIOUS
<1>4. PICK x : x = [NoRequest EXCEPT !.op = "signup", !.email = e, !.slug = s, !.invite = invite,
                                     !.with = current, !.pc = c]
  OBVIOUS
<1>5. /\ req[r].pc = "new"
      /\ req' = [q \in Requests |->
            IF q = r THEN x ELSE IF q \in current THEN [req[q] EXCEPT !.with = @ \cup {r}] ELSE req[q]]
      /\ UNCHANGED <<config, users, orgs, members, rows, quota, tokens, promoted, admin, faults>>
  BY <1>2, <1>3, <1>4 DEF signup, Arrives
<1>6. req[r].op = "none" /\ req[r].with = {} /\ r \notin current
  BY <1>1, <1>2, <1>5 DEF Shape
<1>7. /\ x \in Request /\ x.op = "signup" /\ x.email = e /\ x.slug = s /\ x.with = current /\ x.pc = c
      /\ x.first = FALSE /\ x.stopped = FALSE
  <2>1. current \in SUBSET Requests
    BY <1>2
  <2>2. QED
    BY <1>3, <1>4, <2>1 DEF NoRequest, Request, Pending, Signup
<1>8. req'[r] = x
  BY <1>5
<1>9. ASSUME NEW q \in Requests \ {r}
      PROVE  /\ req'[q] \in Request
             /\ req'[q].op = req[q].op /\ req'[q].email = req[q].email /\ req'[q].slug = req[q].slug
             /\ req'[q].name = req[q].name /\ req'[q].size = req[q].size
             /\ req'[q].invite = req[q].invite /\ req'[q].token = req[q].token
             /\ req'[q].pc = req[q].pc /\ req'[q].user = req[q].user
             /\ req'[q].first = req[q].first /\ req'[q].stopped = req[q].stopped
             /\ req'[q].with = IF q \in current THEN req[q].with \cup {r} ELSE req[q].with
  <2>1. req[q] \in Request
    BY <1>1
  <2>2. CASE q \in current
    <3>1. PICK y : y = [req[q] EXCEPT !.with = @ \cup {r}]
      OBVIOUS
    <3>2. /\ y \in Request /\ y.pc = req[q].pc /\ y.op = req[q].op /\ y.email = req[q].email
          /\ y.slug = req[q].slug /\ y.name = req[q].name /\ y.size = req[q].size
          /\ y.invite = req[q].invite /\ y.token = req[q].token /\ y.with = req[q].with \cup {r}
          /\ y.user = req[q].user /\ y.first = req[q].first /\ y.stopped = req[q].stopped
      BY <2>1, <3>1 DEF Request
    <3>3. req'[q] = y
      BY <1>5, <2>2, <3>1
    <3>4. QED
      BY <2>2, <3>2, <3>3
  <2>3. CASE q \notin current
    <3>1. req'[q] = req[q]
      BY <1>5, <2>3
    <3>2. QED
      BY <2>1, <2>3, <3>1
  <2>4. QED
    BY <2>2, <2>3
<1>10. req' \in [Requests -> Request]
  <2>1. DOMAIN req' = Requests /\ req' = [q \in DOMAIN req' |-> req'[q]]
    BY <1>5
  <2>2. QED
    BY <1>7, <1>8, <1>9, <2>1
<1>11. ASSUME NEW q \in Requests PROVE Shape(q)' /\ StopInv(q)'
  <2>1. CASE q = r
    <3>1. Shape(r)'
      BY <1>3, <1>7, <1>8 DEF Shape, Signup, Login, Creating, CreatingOps
    <3>2. StopInv(r)'
      BY <1>7, <1>8 DEF StopInv
    <3>3. QED
      BY <2>1, <3>1, <3>2
  <2>2. CASE q # r
    <3>1. q \in Requests \ {r}
      BY <2>2
    <3>2. Shape(q) /\ (req[q].op # "signup" => q \notin current)
      BY <1>1, <1>2
    <3>3. users' = users /\ members' = members
      BY <1>5
    <3>4. Shape(q)'
      BY <1>9, <3>1, <3>2, <3>3 DEF Shape, Owned
    <3>5. StopInv(q)'
      BY <1>1, <1>5, <1>9, <3>1, StopKept, TameUnchanged
    <3>6. QED
      BY <3>4, <3>5
  <2>3. QED
    BY <2>1, <2>2
<1>12. TypeInv'
  <2>1. TablesOK'
    BY <1>1, <1>5 DEF TablesOK
  <2>2. QED
    BY <1>10, <1>11, <2>1, TypeSplitPrime
<1>13. \A q \in Requests : /\ req[q].with \subseteq Requests /\ r \notin req[q].with
                           /\ req[q].with \subseteq req'[q].with
                           /\ req[q].pc \in Signup => q \in current
  <2>1. ASSUME NEW q \in Requests PROVE req[q].with \subseteq Requests /\ r \notin req[q].with
    BY <1>1, <1>6 DEF WithInv, Request
  <2>2. ASSUME NEW q \in Requests PROVE req[q].with \subseteq req'[q].with
    BY <1>6, <1>9
  <2>3. ASSUME NEW q \in Requests PROVE req[q].pc \in Signup => q \in current
    BY <1>1, <1>2 DEF Shape
  <2>4. QED
    BY <2>1, <2>2, <2>3
<1>14. WithInv'
  <2>1. ASSUME NEW p \in Requests, NEW q \in Requests, q \in req'[p].with
        PROVE  p \in req'[q].with /\ req'[q].op = "signup"
    <3>1. CASE p = r
      BY <1>2, <1>6, <1>7, <1>8, <1>9, <2>1, <3>1
    <3>2. CASE p # r /\ q = r
      <4>1. p \in current
        <5>1. r \notin req[p].with /\ r \in req'[p].with
          BY <1>13, <2>1, <3>2
        <5>2. req'[p].with = IF p \in current THEN req[p].with \cup {r} ELSE req[p].with
          BY <1>9, <3>2
        <5>3. QED
          BY <5>1, <5>2
      <4>2. req'[r].with = current /\ req'[r].op = "signup"
        BY <1>7, <1>8
      <4>3. QED
        BY <3>2, <4>1, <4>2
    <3>3. CASE p # r /\ q # r
      <4>1. q \in req[p].with
        <5>1. req'[p].with \subseteq req[p].with \cup {r}
          BY <1>9, <3>3
        <5>2. QED
          BY <2>1, <3>3, <5>1
      <4>2. p \in req[q].with /\ req[q].op = "signup"
        BY <1>1, <4>1 DEF WithInv
      <4>3. QED
        BY <1>9, <1>13, <3>3, <4>2
    <3>4. QED
      BY <3>1, <3>2, <3>3
  <2>2. ASSUME NEW p \in Requests, NEW q \in Requests, q # p, req'[q].pc \in Signup, req'[p].pc \in Signup
        PROVE  q \in req'[p].with
    <3>1. CASE p = r
      <4>1. req'[q].pc = req[q].pc
        BY <1>9, <2>2, <3>1
      <4>2. q \in current
        BY <1>13, <2>2, <4>1
      <4>3. req'[r].with = current
        BY <1>7, <1>8
      <4>4. QED
        BY <3>1, <4>2, <4>3
    <3>2. CASE p # r /\ q = r
      <4>1. req'[p].pc = req[p].pc
        BY <1>9, <3>2
      <4>2. p \in current
        BY <1>13, <2>2, <4>1
      <4>3. req'[p].with = req[p].with \cup {r}
        BY <1>9, <3>2, <4>2
      <4>4. QED
        BY <3>2, <4>3
    <3>3. CASE p # r /\ q # r
      BY <1>1, <1>9, <1>13, <2>2, <3>3 DEF WithInv
    <3>4. QED
      BY <3>1, <3>2, <3>3
  <2>3. QED
    BY <2>1, <2>2 DEF WithInv
<1>15. CollideInv'
  <2>1. ASSUME NEW q \in Requests PROVE SlugInv(q)' /\ EmailInv(q)'
    <3>1. CASE q = r
      <4>1. SlugInv(r)'
        BY <1>3, <1>7, <1>8 DEF SlugInv
      <4>2. EmailInv(r)'
        BY <1>3, <1>5, <1>7, <1>8 DEF EmailInv
      <4>3. QED
        BY <3>1, <4>1, <4>2
    <3>2. CASE q # r
      <4>1. SlugInv(q) /\ EmailInv(q)
        BY <1>1 DEF CollideInv
      <4>2. SlugMate(q) => SlugMate(q)'
        <5> SUFFICES ASSUME NEW p \in req[q].with, req[p].slug = req[q].slug PROVE SlugMate(q)'
          BY DEF SlugMate
        <5>1. p \in req'[q].with /\ p \in Requests \ {r}
          BY <1>13
        <5>2. req'[p].slug = req[p].slug /\ req'[q].slug = req[q].slug
          BY <1>9, <3>2, <5>1
        <5>3. QED
          BY <5>1, <5>2 DEF SlugMate
      <4>3. EmailMate(q) => EmailMate(q)'
        <5> SUFFICES ASSUME NEW p \in req[q].with, req[p].email = req[q].email PROVE EmailMate(q)'
          BY DEF EmailMate
        <5>1. p \in req'[q].with /\ p \in Requests \ {r}
          BY <1>13
        <5>2. req'[p].email = req[p].email /\ req'[q].email = req[q].email
          BY <1>9, <3>2, <5>1
        <5>3. QED
          BY <5>1, <5>2 DEF EmailMate
      <4>4. /\ users' = users /\ orgs' = orgs /\ members' = members /\ req'[q].pc = req[q].pc
            /\ req'[q].op = req[q].op /\ req'[q].email = req[q].email /\ req'[q].slug = req[q].slug
        BY <1>5, <1>9, <3>2
      <4>5. SlugInv(q)'
        BY <4>1, <4>2, <4>4 DEF SlugInv
      <4>6. EmailInv(q)'
        BY <4>1, <4>3, <4>4 DEF EmailInv
      <4>7. QED
        BY <4>5, <4>6
    <3>3. QED
      BY <3>1, <3>2
  <2>2. ASSUME NEW p \in Requests, NEW q \in Requests PROVE PairInv(p, q)'
    <3>1. PairInv(p, q) /\ EmailInv(q)
      BY <1>1 DEF CollideInv
    <3>2. CASE q = r
      BY <1>3, <1>7, <1>8, <3>2 DEF PairInv
    <3>3. CASE q # r /\ p = r
      <4>1. req[q].op = "signup" /\ req[q].pc = "done" => req[q].email \in DOMAIN users
        BY <3>1 DEF EmailInv
      <4>2. QED
        BY <1>3, <1>7, <1>8, <1>9, <3>3, <4>1 DEF PairInv, Signup
    <3>4. CASE q # r /\ p # r
      BY <1>9, <1>13, <3>1, <3>4 DEF PairInv
    <3>5. QED
      BY <3>2, <3>3, <3>4
  <2>3. QED
    BY <2>1, <2>2 DEF CollideInv
<1>16. AccountInv'
  <2>1. ASSUME NEW q \in Requests
        PROVE  /\ req[q].op = "signup" =>
                     /\ req'[q].op = "signup" /\ req'[q].email = req[q].email
                     /\ req'[q].invite = req[q].invite /\ req'[q].first = req[q].first
               /\ req[q].with \subseteq req'[q].with
               /\ req'[q].first => req[q].first
               /\ req[q].op = "login" => req'[q].op = "login"
               /\ req[q].op = "signup" =>
                     \/ req'[q].pc \in {req[q].pc, "failed"}
                     \/ req[q].pc = "member" /\ req'[q].pc = "done"
                     \/ req[q].pc \in {"slug", "org"} /\ req'[q].pc # "create"
    <3>1. CASE q = r
      BY <1>6, <1>7, <1>8, <1>13, <3>1
    <3>2. CASE q # r
      BY <1>9, <1>13, <3>2
    <3>3. QED
      BY <3>1, <3>2
  <2>2. /\ SameAccounts /\ promoted \subseteq promoted'
        /\ \A f \in DOMAIN users :
              users'[f].role = "ADMIN" /\ f \notin promoted' => users[f].role = "ADMIN"
    BY <1>5 DEF SameAccounts
  <2>3. QED
    BY <1>1, <1>5, <2>1, <2>2, AccountKept
<1>17. OrgInv'
  <2>1. \A q \in Requests : req[q].pc \in Joining => req'[q].pc \in Joining /\ req'[q].slug = req[q].slug
    BY <1>5, <1>9 DEF Joining
  <2>2. QED
    BY <1>1, <1>5, <2>1, OrgKept
<1>18. QED
  BY <1>11, <1>12, <1>14, <1>15, <1>16, <1>17 DEF IInv

--------------------------------------------------------------------------------
(***************************************************************************)
(* The theorems                                                            *)
(***************************************************************************)

\* An installation at rest satisfies the invariant, whatever is in it.
LEMMA InitIInv == Init => IInv
<1> SUFFICES ASSUME Init PROVE IInv
  OBVIOUS
<1>1. PICK s \in Scenarios :
          /\ config = s.config
          /\ users = s.users /\ orgs = s.orgs /\ members = s.members /\ tokens = s.tokens
          /\ rows = s.rows /\ quota = << >>
          /\ promoted = {e \in DOMAIN s.users : s.users[e].role = "ADMIN"}
          /\ req = [r \in Requests |-> NoRequest]
          /\ admin = 0 /\ faults = 0
  BY DEF Init
<1>2. /\ config.production \in BOOLEAN /\ config.default \in [Metrics -> Nat]
      /\ DOMAIN users \subseteq Emails /\ IsFiniteSet(DOMAIN users)
      /\ \A e \in DOMAIN users : users[e] \in User /\ users[e].password = None
      /\ orgs \subseteq Slugs /\ members \subseteq orgs \X DOMAIN users
      /\ \A o \in orgs : \E e \in Emails : <<o, e>> \in members
      /\ tokens \subseteq Token /\ \A t \in tokens : \A o \in t.orgs : <<o, t.user>> \in members
      /\ rows \subseteq Row /\ \A x \in rows : <<x.project[1], x.by>> \in members
  BY <1>1, ScenariosAssumption
<1>3. \A r \in Requests : req[r] = NoRequest
  BY <1>1
<1>4. NoRequest \in Request /\ NoRequest.pc = "new" /\ NoRequest.op = "none" /\ NoRequest.with = {}
      /\ NoRequest.first = FALSE /\ NoRequest.stopped = FALSE
  BY DEF NoRequest, Request
<1>5. TypeInv
  <2>1. req \in [Requests -> Request]
    BY <1>1, <1>4
  <2>2. \A r \in Requests : Shape(r)
    BY <1>3, <1>4 DEF Shape, Signup, Login, Creating, CreatingOps
  <2>3. DOMAIN quota = {}
    BY <1>1
  <2>4. TablesOK
    BY <1>1, <1>2, <2>3 DEF TablesOK
  <2>5. QED
    BY <2>1, <2>2, <2>4, TypeSplit
<1>6. WithInv
  BY <1>3, <1>4 DEF WithInv, Signup
<1>7. CollideInv
  BY <1>3, <1>4 DEF CollideInv, SlugInv, EmailInv, PairInv
<1>8. AccountInv
  <2>1. \A e \in DOMAIN users : OwnerInv(e) /\ AdminInv(e)
    BY <1>1, <1>2 DEF OwnerInv, AdminInv
  <2>2. \A r \in Requests : FirstInv(r)
    BY <1>3, <1>4 DEF FirstInv
  <2>3. \A e, f \in DOMAIN users : FirstPair(e, f)
    BY <1>2 DEF FirstPair
  <2>4. QED
    BY <2>1, <2>2, <2>3 DEF AccountInv
<1>9. OrgInv
  BY <1>2 DEF OrgInv, Owned
<1>10. \A r \in Requests : StopInv(r)
  BY <1>3, <1>4 DEF StopInv
<1>11. QED
  BY <1>5, <1>6, <1>7, <1>8, <1>9, <1>10 DEF IInv

\* The requests that create something start with a token of ours, in an organization.
LEMMA ReceiveStep ==
    ASSUME IInv, NEW r \in Requests,
           \/ \E t \in tokens, s \in Slugs, n \in Names : createProject(r, t, s, n)
           \/ \E t \in tokens, p \in ProjectsNow, preview \in BOOLEAN : createDeployment(r, t, p, preview)
           \/ \E t \in tokens, p \in ProjectsNow, size \in Sizes : addResource(r, t, p, size)
    PROVE  IInv'
<1>1. \A p \in ProjectsNow : p[1] \in Slugs /\ p[2] \in Names
  <2>1. rows \subseteq Row
    BY DEF IInv, TypeInv, TypeOK
  <2>2. QED
    BY <2>1 DEF ProjectsNow, ProjectRows, Row, Projects
<1>2. CASE \E t \in tokens, s \in Slugs, n \in Names : createProject(r, t, s, n)
  <2>1. PICK t \in tokens, s \in Slugs, n \in Names : Start(r, "project", t, s, n, None, FALSE)
    BY <1>2 DEF createProject
  <2>2. "project" \in CreatingOps /\ None \in Sizes \cup {None} /\ FALSE \in BOOLEAN /\ "project" # "resource"
    BY DEF CreatingOps
  <2>3. QED
    BY <2>1, <2>2, StartStep
<1>3. CASE \E t \in tokens, p \in ProjectsNow, preview \in BOOLEAN : createDeployment(r, t, p, preview)
  <2>1. PICK t \in tokens, p \in ProjectsNow, preview \in BOOLEAN :
            Start(r, "deploy", t, p[1], p[2], None, preview)
    BY <1>3 DEF createDeployment
  <2>2. "deploy" \in CreatingOps /\ None \in Sizes \cup {None} /\ ~("deploy" = "resource")
    BY DEF CreatingOps
  <2>3. PICK s \in Slugs, n \in Names : Start(r, "deploy", t, s, n, None, preview)
    BY <1>1, <2>1
  <2>4. CASE preview = TRUE
    <3>1. Start(r, "deploy", t, s, n, None, TRUE) /\ TRUE \in BOOLEAN
      BY <2>3, <2>4
    <3>2. QED
      BY <2>2, <3>1, StartStep
  <2>5. CASE preview = FALSE
    <3>1. Start(r, "deploy", t, s, n, None, FALSE) /\ FALSE \in BOOLEAN
      BY <2>3, <2>5
    <3>2. QED
      BY <2>2, <3>1, StartStep
  <2>6. QED
    BY <2>4, <2>5
<1>4. CASE \E t \in tokens, p \in ProjectsNow, size \in Sizes : addResource(r, t, p, size)
  <2>1. PICK t \in tokens, p \in ProjectsNow, size \in Sizes :
            Start(r, "resource", t, p[1], p[2], size, FALSE)
    BY <1>4 DEF addResource
  <2>2. "resource" \in CreatingOps /\ size \in Sizes \cup {None} /\ FALSE \in BOOLEAN
    BY DEF CreatingOps
  <2>3. QED
    BY <1>1, <2>1, <2>2, StartStep
<1>5. QED
  BY <1>2, <1>3, <1>4

\* Every step keeps the invariant.
LEMMA NextIInv == IInv /\ [Next]_vars => IInv'
<1> SUFFICES ASSUME IInv, [Next]_vars PROVE IInv'
  OBVIOUS
<1>1. CASE UNCHANGED vars
  <2>1. TypeInv /\ TablesOK /\ req \in [Requests -> Request]
    BY TypeSplit DEF IInv
  <2>2. UNCHANGED <<config, users, orgs, members, rows, quota, tokens, req, promoted, admin, faults>>
    BY <1>1 DEF vars
  <2>3. TablesOK' /\ req' \in [Requests -> Request] /\ SameAccounts
    BY <2>1, <2>2 DEF TablesOK, SameAccounts
  <2>4. \A q \in Requests :
            /\ Ident(q) /\ req'[q].pc = req[q].pc /\ req'[q].user = req[q].user
            /\ req'[q].first = req[q].first
            /\ req'[q].stopped => req[q].stopped /\ Tame(req[q].token.user)
    BY <2>2, TameUnchanged DEF Ident
  <2>5. QED
    BY <2>2, <2>3, <2>4, AdminStep
<1>2. ASSUME NEW r \in Requests,
             \/ \E e \in Emails, s \in Slugs, invite \in BOOLEAN : signup(r, e, s, invite)
             \/ findOrganizationBySlug(r) \/ createOrganization(r) \/ countUsers(r)
             \/ createUser(r) \/ addMember(r)
             \/ \E e \in Emails : login(r, e)
             \/ promoteFirstLogin(r) \/ answerLogin(r)
             \/ \E t \in tokens, s \in Slugs, n \in Names : createProject(r, t, s, n)
             \/ \E t \in tokens, p \in ProjectsNow, preview \in BOOLEAN : createDeployment(r, t, p, preview)
             \/ \E t \in tokens, p \in ProjectsNow, size \in Sizes : addResource(r, t, p, size)
             \/ assertProjectAccess(r) \/ enforceUserCan(r) \/ write(r) \/ fail(r)
      PROVE  IInv'
  <2>1. CASE \E e \in Emails, s \in Slugs, invite \in BOOLEAN : signup(r, e, s, invite)
    BY <2>1, SignupStep
  <2>2. CASE findOrganizationBySlug(r) \/ createOrganization(r) \/ countUsers(r)
    BY <2>2, FindOrganizationStep, CreateOrganizationStep, CountUsersStep
  <2>3. CASE createUser(r) \/ addMember(r)
    BY <2>3, CreateUserStep, AddMemberStep
  <2>4. CASE (\E e \in Emails : login(r, e)) \/ promoteFirstLogin(r) \/ answerLogin(r)
    BY <2>4, LoginStep, PromoteStep, AnswerStep
  <2>5. CASE \/ \E t \in tokens, s \in Slugs, n \in Names : createProject(r, t, s, n)
             \/ \E t \in tokens, p \in ProjectsNow, preview \in BOOLEAN : createDeployment(r, t, p, preview)
             \/ \E t \in tokens, p \in ProjectsNow, size \in Sizes : addResource(r, t, p, size)
    BY <2>5, ReceiveStep
  <2>6. CASE assertProjectAccess(r) \/ enforceUserCan(r) \/ write(r) \/ fail(r)
    BY <2>6, AccessStep, EnforceStep, WriteStep, FailStep
  <2>7. QED
    BY <1>2, <2>1, <2>2, <2>3, <2>4, <2>5, <2>6
<1>3. CASE \E p \in Projects : deleteProject(p)
  BY <1>3, TableStep
<1>4. ASSUME NEW e \in Emails,
             \/ \E a \in {"NON_CLUB", "CLUB_MEMBER"}, role \in {"USER", "ADMIN"} : approveUser(e, a, role)
             \/ rejectUser(e)
             \/ \E l \in Limits : setQuota(e, l)
      PROVE  IInv'
  <2>1. CASE \E a \in {"NON_CLUB", "CLUB_MEMBER"}, role \in {"USER", "ADMIN"} : approveUser(e, a, role)
    BY <2>1, ApproveStep
  <2>2. CASE rejectUser(e)
    BY <2>2, RejectStep
  <2>3. CASE \E l \in Limits : setQuota(e, l)
    BY <2>3, TableStep
  <2>4. QED
    BY <1>4, <2>1, <2>2, <2>3
<1>5. QED
  BY <1>1, <1>2, <1>3, <1>4 DEF Next

\* The inductive invariant holds in every state that the API's accounts, organizations and
\* creating requests reach.
THEOREM Invariance == Spec => []IInv
BY InitIInv, NextIInv, PTL DEF Spec

\* Signups look up and create in separate awaits, and both creations are upserts
\* (createOrganization, createUser): still an account keeps its owner's password and an
\* organization its one member, unless signups for the same email or slug overlapped.
THEOREM SignupsCollideOnlyInOverlap == Spec => []SignupsDoNotCollide
<1>1. IInv => SignupsDoNotCollide
  <2> SUFFICES ASSUME IInv, NEW r \in Requests, Answered(r)
               PROVE  /\ (\A q \in req[r].with : req[q].email # req[r].email) =>
                            users[req[r].email].password = r
                      /\ (\A q \in req[r].with : req[q].slug # req[r].slug) =>
                            {e \in Emails : <<req[r].slug, e>> \in members} = {req[r].email}
    BY DEF SignupsDoNotCollide
  <2>1. SlugInv(r) /\ EmailInv(r) /\ req[r].op = "signup" /\ req[r].pc = "done"
    BY DEF IInv, CollideInv, Answered
  <2>2. req[r].email \in Emails
    BY <2>1 DEF IInv, TypeInv, Shape
  <2>3. ~EmailMate(r) => users[req[r].email].password = r
    BY <2>1 DEF EmailInv
  <2>4. ~SlugMate(r) => \A e \in Emails : <<req[r].slug, e>> \in members <=> e = req[r].email
    BY <2>1 DEF SlugInv
  <2>5. ~SlugMate(r) => {e \in Emails : <<req[r].slug, e>> \in members} = {req[r].email}
    BY <2>2, <2>4
  <2>6. QED
    BY <2>3, <2>5 DEF EmailMate, SlugMate
<1>2. QED
  BY <1>1, Invariance, PTL

\* Nobody is administrator by accident: signupPolicyForAccount gives the role to invited
\* administrators in production, and outside it also to the first account, of which there are
\* two only when their signups overlapped.
THEOREM AdministratorsAreAccounted == Spec => []AdminsAccounted
<1>1. ASSUME IInv, NEW e \in DOMAIN users, users[e].role = "ADMIN", e \notin promoted, ~Promoting
      PROVE  /\ users[e].password \in Requests /\ users[e].password # None
             /\ req[users[e].password].op = "signup" /\ req[users[e].password].email = e
             /\ IsAdminBootstrap(e, req[users[e].password].invite, req[users[e].password].first)
  <2>1. OwnerInv(e) /\ AdminInv(e) /\ users[e].password \in Requests \cup {None}
    BY <1>1 DEF IInv, AccountInv, TypeInv, TypeOK, User
  <2>2. QED
    BY <1>1, <2>1 DEF OwnerInv, AdminInv
<1>2. ASSUME IInv PROVE AdminsAccounted
  <2> DEFINE Own(e)  == {r \in Requests : req[r].op = "signup" /\ req[r].email = e}
             self    == {e \in DOMAIN users : users[e].role = "ADMIN" /\ e \notin promoted}
             Invited(e) == e \in AdminEmails /\ (config.production => \E r \in Own(e) : req[r].invite)
  <2>1. config.production \in BOOLEAN
    BY <1>2 DEF IInv, TypeInv
  <2>2. ASSUME config.production, NEW e \in self PROVE Invited(e)
    <3>1. ~Promoting
      BY <2>2 DEF Promoting
    <3>2. /\ users[e].password \in Own(e)
          /\ IsAdminBootstrap(e, req[users[e].password].invite, req[users[e].password].first)
      BY <1>1, <1>2, <3>1
    <3>3. QED
      BY <2>2, <3>2 DEF IsAdminBootstrap
  <2>3. ASSUME NEW e \in self, NEW f \in self, ~Invited(e), ~Invited(f), e # f,
               ~\E r \in Requests : req[r].op = "login"
        PROVE  \E r \in Own(e), q \in Own(f) : q \in req[r].with
    <3>1. ~Promoting /\ ~config.production
      BY <2>1, <2>2, <2>3 DEF Promoting
    <3>2. PICK r, q : r = users[e].password /\ q = users[f].password
      OBVIOUS
    <3>3. r \in Own(e) /\ r # None /\ IsAdminBootstrap(e, req[r].invite, req[r].first)
      BY <1>1, <1>2, <3>1, <3>2
    <3>4. q \in Own(f) /\ q # None /\ IsAdminBootstrap(f, req[q].invite, req[q].first)
      BY <1>1, <1>2, <3>1, <3>2
    <3>5. req[r].first /\ req[q].first
      BY <2>3, <3>1, <3>3, <3>4 DEF IsAdminBootstrap
    <3>6. FirstPair(e, f)
      BY <1>2, <2>3 DEF IInv, AccountInv
    <3>7. q \in req[r].with
      BY <3>2, <3>3, <3>4, <3>5, <3>6 DEF FirstPair
    <3>8. QED
      BY <3>3, <3>4, <3>7
  <2>4. config.production => \A e \in self : Invited(e)
    BY <2>2
  <2>5. \A e, f \in {x \in self : ~Invited(x)} : e # f =>
             \/ \E r \in Own(e), q \in Own(f) : q \in req[r].with
             \/ \E r \in Requests : req[r].op = "login"
    BY <2>3
  <2>6. QED
    BY <2>4, <2>5 DEF AdminsAccounted
<1>3. QED
  BY <1>2, Invariance, PTL

\* An organization is never left without a member unless a repository call failed between
\* createOrganization and addMember, and whatever is in it was created by a member of it.
THEOREM OrganizationsHaveOwners == Spec => []OrganizationsAreOwned
<1>1. IInv => OrganizationsAreOwned
  <2> SUFFICES ASSUME IInv PROVE OrganizationsAreOwned
    OBVIOUS
  <2>1. TypeOK /\ OrgInv
    BY DEF IInv, TypeInv
  <2>2. ASSUME faults = 0, \A r \in Requests : req[r].pc \notin Signup, NEW s \in orgs
        PROVE  \E e \in Emails : <<s, e>> \in members
    BY <2>1, <2>2 DEF OrgInv, Signup
  <2>3. QED
    BY <2>1, <2>2 DEF OrganizationsAreOwned, OrgInv
<1>2. QED
  BY <1>1, Invariance, PTL

\* A request that arrived after its account was rejected, and before any new approval, creates
\* nothing: enforceUserCan reads the database and not the claims of the token.
THEOREM RejectionsHold == Spec => []RejectedIsStopped
<1>1. IInv => RejectedIsStopped
  BY DEF IInv, StopInv, RejectedIsStopped
<1>2. QED
  BY <1>1, Invariance, PTL

--------------------------------------------------------------------------------
(***************************************************************************)
(* Storage                                                                 *)
(*                                                                         *)
(* Usage adds the megabytes up with MapThenSumSet, a function chosen by    *)
(* its recursion, which takes the elements in an order nobody knows.  That *)
(* the function exists, and that the order does not matter, is shown by    *)
(* induction on the size of the set.                                       *)
(***************************************************************************)
\* A set of naturals that is not empty has a least element.
LEMMA LeastElement ==
  ASSUME NEW T \in SUBSET Nat, T # {} PROVE \E x \in T : \A y \in T : x <= y
<1> DEFINE Rel == {ss \in Nat \X Nat : ss[1] < ss[2]}
<1>0. IsWellFoundedOn(Rel, Nat)
  BY NatLessThanWellFounded DEF OpToRel
<1>1. ASSUME NEW x \in Nat, NEW y \in Nat, <<y, x>> \notin Rel PROVE x <= y
  BY <1>1
<1> HIDE DEF Rel
<1>2. \E x \in T : \A y \in T : ~ (<<y, x>> \in Rel)
  BY <1>0, WFMin
<1>3. QED
  BY <1>1, <1>2

\* Induction over the naturals, with a set in place of a predicate.
LEMMA UpwardInduction ==
  ASSUME NEW T \in SUBSET Nat, 0 \in T, \A n \in T : n+1 \in T PROVE T = Nat
<1>1. ASSUME Nat \ T # {} PROVE FALSE
  <2>1. PICK x \in Nat \ T : \A y \in Nat \ T : x <= y
    BY <1>1, LeastElement
  <2>2. x # 0 /\ x-1 \in Nat /\ x - 1 + 1 = x
    BY <2>1
  <2>3. x - 1 \in T
    BY <2>1, <2>2
  <2> QED BY <2>1, <2>2, <2>3
<1> QED BY <1>1

\* MapThenSumSet takes its elements in the order of CHOOSE.
Chosen(s) == CHOOSE x \in s : TRUE

\* f sums the megabytes of every subset of S.
Summing(S, f) ==
    f = [s \in SUBSET S |-> IF s = {} THEN 0 ELSE Chosen(s).mb + f[s \ {Chosen(s)}]]

\* Every element of S has its megabytes.
Sized(S) == IsFiniteSet(S) /\ \A x \in S : x.mb \in Nat

\* Storage is the value of such an f.
LEMMA StorageBySum == ASSUME NEW S PROVE Storage(S) = (CHOOSE f : Summing(S, f))[S]
BY DEF Storage, MapThenSumSet, MapThenFoldSet, Summing, Chosen

\* What is left of a finite set without one of its elements.
LEMMA OneLess ==
  ASSUME NEW S, IsFiniteSet(S), NEW s \in SUBSET S, NEW x \in s
  PROVE  /\ IsFiniteSet(s) /\ Cardinality(s) \in Nat \ {0}
         /\ s \ {x} \in SUBSET S /\ Cardinality(s \ {x}) = Cardinality(s) - 1
<1>1. IsFiniteSet(s) /\ Cardinality(s) \in Nat
  BY FS_Subset, FS_CardinalityType
<1>2. Cardinality(s) # 0
  BY <1>1, FS_EmptySet
<1>3. Cardinality(s \ {x}) = Cardinality(s) - 1
  BY <1>1, FS_RemoveElement
<1> QED BY <1>1, <1>2, <1>3

\* The chosen element is one.
LEMMA ChosenIn == ASSUME NEW s, s # {} PROVE Chosen(s) \in s
BY DEF Chosen

\* There is such an f: by induction on the size of the sets it is right for.
LEMMA SumExists ==
  ASSUME NEW S, Sized(S)
  PROVE  \E f \in [SUBSET S -> Nat] : Summing(S, f)
<1> DEFINE Rhs(f, s) == IF s = {} THEN 0 ELSE Chosen(s).mb + f[s \ {Chosen(s)}]
           Upto(n, f) == \A s \in SUBSET S : Cardinality(s) <= n => f[s] = Rhs(f, s)
           T == {n \in Nat : \E f \in [SUBSET S -> Nat] : Upto(n, f)}
<1>1. 0 \in T
  <2> DEFINE f == [s \in SUBSET S |-> 0]
  <2>1. ASSUME NEW s \in SUBSET S, Cardinality(s) <= 0 PROVE s = {}
    <3>1. IsFiniteSet(s) /\ Cardinality(s) \in Nat
      BY FS_Subset, FS_CardinalityType DEF Sized
    <3> QED BY <2>1, <3>1, FS_EmptySet
  <2>2. f \in [SUBSET S -> Nat] /\ Upto(0, f)
    BY <2>1
  <2> QED BY <2>2
<1>2. ASSUME NEW n \in T PROVE n + 1 \in T
  <2>1. PICK f \in [SUBSET S -> Nat] : Upto(n, f)
    BY <1>2
  <2> DEFINE g == [s \in SUBSET S |-> Rhs(f, s)]
  <2>2. ASSUME NEW s \in SUBSET S, s # {}
        PROVE  /\ Chosen(s) \in s /\ Chosen(s).mb \in Nat /\ s \ {Chosen(s)} \in SUBSET S
               /\ Cardinality(s) \in Nat /\ Cardinality(s \ {Chosen(s)}) = Cardinality(s) - 1
    <3>1. Chosen(s) \in s
      BY <2>2, ChosenIn
    <3> QED BY <3>1, OneLess DEF Sized
  <2>3. g \in [SUBSET S -> Nat]
    <3>1. ASSUME NEW s \in SUBSET S PROVE Rhs(f, s) \in Nat
      <4>1. CASE s = {}
        BY <4>1
      <4>2. CASE s # {}
        <5>1. Chosen(s).mb \in Nat /\ f[s \ {Chosen(s)}] \in Nat
          BY <2>1, <2>2, <4>2
        <5> QED BY <4>2, <5>1
      <4> QED BY <4>1, <4>2
    <3> HIDE DEF Rhs
    <3> QED BY <3>1
  <2>4. ASSUME NEW s \in SUBSET S, Cardinality(s) <= n + 1 PROVE g[s] = Rhs(g, s)
    <3>1. CASE s = {}
      BY <3>1
    <3>2. CASE s # {}
      <4>1. PICK t : t = s \ {Chosen(s)}
        OBVIOUS
      <4>2. t \in SUBSET S /\ Cardinality(t) <= n
        BY <2>2, <2>4, <3>2, <4>1
      <4>3. f[t] = Rhs(f, t)
        BY <2>1, <4>2
      <4>4. g[t] = Rhs(f, t)
        BY <4>2
      <4>5. g[s] = Rhs(f, s)
        OBVIOUS
      <4> QED BY <3>2, <4>1, <4>3, <4>4, <4>5
    <3> QED BY <3>1, <3>2
  <2> HIDE DEF g
  <2>5. Upto(n + 1, g) /\ n + 1 \in Nat
    BY <2>4, <1>2
  <2> QED BY <2>3, <2>5
<1>3. Cardinality(S) \in T
  <2>1. T = Nat
    <3>1. T \in SUBSET Nat
      OBVIOUS
    <3> HIDE DEF T
    <3> QED BY <1>1, <1>2, <3>1, UpwardInduction
  <2> HIDE DEF T
  <2> QED BY <2>1, FS_CardinalityType DEF Sized
<1>4. PICK f \in [SUBSET S -> Nat] : Upto(Cardinality(S), f)
  BY <1>3
<1>5. ASSUME NEW s \in SUBSET S PROVE f[s] = Rhs(f, s)
  <2>1. Cardinality(s) <= Cardinality(S)
    BY FS_Subset DEF Sized
  <2> HIDE DEF Rhs
  <2> QED BY <1>4, <2>1
<1>6. f = [s \in SUBSET S |-> Rhs(f, s)]
  <2> HIDE DEF Rhs
  <2> QED BY <1>4, <1>5
<1> QED BY <1>6 DEF Summing

\* Two of them agree where both are defined.
LEMMA SumsAgree ==
  ASSUME NEW S, NEW T, IsFiniteSet(S), NEW f, NEW g, Summing(S, f), Summing(T, g),
         NEW u, u \in SUBSET S, u \in SUBSET T
  PROVE  f[u] = g[u]
<1> DEFINE K == {n \in Nat : \A s \in (SUBSET S) \cap (SUBSET T) : Cardinality(s) <= n => f[s] = g[s]}
<1>0. ASSUME NEW s \in (SUBSET S) \cap (SUBSET T)
      PROVE  /\ f[s] = IF s = {} THEN 0 ELSE Chosen(s).mb + f[s \ {Chosen(s)}]
             /\ g[s] = IF s = {} THEN 0 ELSE Chosen(s).mb + g[s \ {Chosen(s)}]
  <2>1. PICK F : F = [x \in SUBSET S |-> IF x = {} THEN 0 ELSE Chosen(x).mb + f[x \ {Chosen(x)}]]
    OBVIOUS
  <2>2. PICK G : G = [x \in SUBSET T |-> IF x = {} THEN 0 ELSE Chosen(x).mb + g[x \ {Chosen(x)}]]
    OBVIOUS
  <2>3. f = F /\ g = G
    BY <2>1, <2>2 DEF Summing
  <2>4. F[s] = IF s = {} THEN 0 ELSE Chosen(s).mb + f[s \ {Chosen(s)}]
    BY <2>1
  <2>5. G[s] = IF s = {} THEN 0 ELSE Chosen(s).mb + g[s \ {Chosen(s)}]
    BY <2>2
  <2> QED BY <2>3, <2>4, <2>5
<1>1. 0 \in K
  <2>1. ASSUME NEW s \in (SUBSET S) \cap (SUBSET T), Cardinality(s) <= 0 PROVE f[s] = g[s]
    <3>1. IsFiniteSet(s) /\ Cardinality(s) \in Nat
      BY FS_Subset, FS_CardinalityType
    <3>2. s = {}
      BY <2>1, <3>1, FS_EmptySet
    <3> QED BY <1>0, <3>2
  <2> QED BY <2>1
<1>2. ASSUME NEW n \in K PROVE n + 1 \in K
  <2>1. ASSUME NEW s \in (SUBSET S) \cap (SUBSET T), Cardinality(s) <= n + 1, s # {} PROVE f[s] = g[s]
    <3>1. PICK t : t = s \ {Chosen(s)}
      OBVIOUS
    <3>2. Cardinality(s) \in Nat /\ Cardinality(t) = Cardinality(s) - 1 /\ t \in (SUBSET S) \cap (SUBSET T)
      BY <2>1, <3>1, OneLess, ChosenIn
    <3>3. f[t] = g[t]
      BY <1>2, <2>1, <3>2
    <3>4. f[s] = Chosen(s).mb + f[t] /\ g[s] = Chosen(s).mb + g[t]
      BY <1>0, <2>1, <3>1
    <3> QED BY <3>3, <3>4
  <2>2. f[{}] = g[{}]
    BY <1>0
  <2>3. ASSUME NEW s \in (SUBSET S) \cap (SUBSET T), Cardinality(s) <= n + 1 PROVE f[s] = g[s]
    <3>1. CASE s = {}
      BY <2>2, <3>1
    <3>2. CASE s # {}
      <4> HIDE DEF K
      <4> QED BY <2>1, <2>3, <3>2
    <3> QED BY <3>1, <3>2
  <2> QED BY <1>2, <2>3
<1>3. K = Nat
  <2>1. K \in SUBSET Nat
    OBVIOUS
  <2> HIDE DEF K
  <2> QED BY <1>1, <1>2, <2>1, UpwardInduction
<1>4. Cardinality(u) \in K
  <2>1. Cardinality(u) \in Nat
    BY FS_Subset, FS_CardinalityType
  <2> HIDE DEF K
  <2> QED BY <1>3, <2>1
<1> QED BY <1>4, FS_Subset, FS_CardinalityType

\* Storage of any subset is what the same f says.
LEMMA StorageIs ==
  ASSUME NEW S, Sized(S), NEW f, Summing(S, f), NEW s \in SUBSET S
  PROVE  Storage(s) = f[s]
<1>1. Sized(s)
  BY FS_Subset DEF Sized
<1>2. PICK g : g = CHOOSE h : Summing(s, h)
  OBVIOUS
<1>3. \E h : Summing(s, h)
  BY <1>1, SumExists
<1>4. Summing(s, g)
  BY <1>2, <1>3
<1>5. g[s] = f[s]
  BY <1>1, <1>4, SumsAgree DEF Sized
<1> QED BY <1>2, <1>5, StorageBySum

\* Storage does not depend on the order: every element adds its megabytes.
LEMMA StorageAdds ==
  ASSUME NEW S, Sized(S)
  PROVE  /\ Storage(S) \in Nat
         /\ \A x \in S : Storage(S) = x.mb + Storage(S \ {x})
<1>1. PICK f \in [SUBSET S -> Nat] : Summing(S, f)
  BY SumExists
<1>0. ASSUME NEW s \in SUBSET S, s # {} PROVE f[s] = Chosen(s).mb + f[s \ {Chosen(s)}]
  <2>1. PICK F : F = [x \in SUBSET S |-> IF x = {} THEN 0 ELSE Chosen(x).mb + f[x \ {Chosen(x)}]]
    OBVIOUS
  <2>2. f = F
    BY <1>1, <2>1 DEF Summing
  <2>3. F[s] = Chosen(s).mb + f[s \ {Chosen(s)}]
    BY <1>0, <2>1
  <2> QED BY <2>2, <2>3
<1> DEFINE K == {n \in Nat : \A s \in SUBSET S : Cardinality(s) <= n =>
                                \A x \in s : f[s] = x.mb + f[s \ {x}]}
<1>2. 0 \in K
  <2>1. ASSUME NEW s \in SUBSET S, Cardinality(s) <= 0, NEW x \in s PROVE FALSE
    <3>1. Cardinality(s) \in Nat \ {0}
      BY OneLess DEF Sized
    <3> HIDE DEF K
    <3> QED BY <2>1, <3>1
  <2> QED BY <2>1
<1>3. ASSUME NEW n \in K PROVE n + 1 \in K
  <2>1. ASSUME NEW s \in SUBSET S, Cardinality(s) <= n + 1, NEW x \in s
        PROVE  f[s] = x.mb + f[s \ {x}]
    <3>1. PICK c : c = Chosen(s)
      OBVIOUS
    <3>2. c \in s /\ f[s] = c.mb + f[s \ {c}]
      BY <1>0, <3>1, ChosenIn
    <3>3. CASE c = x
      BY <3>2, <3>3
    <3>4. CASE c # x
      <4>1. PICK t : t = s \ {c}
        OBVIOUS
      <4>2. PICK v : v = s \ {x}
        OBVIOUS
      <4>3. PICK w : w = t \ {x}
        OBVIOUS
      <4>4. w = v \ {c} /\ x \in t /\ c \in v /\ t \in SUBSET S /\ v \in SUBSET S /\ w \in SUBSET S
        BY <3>2, <3>4, <4>1, <4>2, <4>3
      <4>5. Cardinality(t) <= n /\ Cardinality(v) <= n
        BY <1>3, <2>1, <3>2, <4>1, <4>2, OneLess DEF Sized
      <4>6. f[t] = x.mb + f[w]
        BY <1>3, <4>3, <4>4, <4>5
      <4>7. f[v] = c.mb + f[w]
        BY <1>3, <4>4, <4>5
      <4>8. x.mb \in Nat /\ c.mb \in Nat /\ f[w] \in Nat
        BY <1>1, <2>1, <3>2, <4>4 DEF Sized
      <4> QED BY <3>2, <4>1, <4>2, <4>6, <4>7, <4>8
    <3> QED BY <3>3, <3>4
  <2> QED BY <1>3, <2>1
<1>4. K = Nat
  <2>1. K \in SUBSET Nat
    OBVIOUS
  <2> HIDE DEF K
  <2> QED BY <1>2, <1>3, <2>1, UpwardInduction
<1>5. Cardinality(S) \in K
  <2> HIDE DEF K
  <2> QED BY <1>4, FS_CardinalityType DEF Sized
<1>6. \A x \in S : f[S] = x.mb + f[S \ {x}]
  BY <1>5, FS_CardinalityType DEF Sized
<1>7. ASSUME NEW s \in SUBSET S PROVE Storage(s) = f[s]
  BY <1>1, StorageIs
<1>8. Storage(S) = f[S] /\ f[S] \in Nat
  BY <1>1, <1>7
<1>9. ASSUME NEW x \in S PROVE Storage(S) = x.mb + Storage(S \ {x})
  <2>1. Storage(S \ {x}) = f[S \ {x}]
    BY <1>7
  <2> QED BY <1>6, <1>8, <2>1
<1> QED BY <1>8, <1>9

\* A part takes no more storage than the whole.
LEMMA StorageGrows ==
  ASSUME NEW S, Sized(S), NEW u \in SUBSET S
  PROVE  Storage(u) <= Storage(S)
<1> DEFINE K == {n \in Nat : \A s \in SUBSET S :
                    u \subseteq s /\ Cardinality(s \ u) <= n => Storage(u) <= Storage(s)}
<1>0. ASSUME NEW s \in SUBSET S
      PROVE  /\ Sized(s) /\ Storage(s) \in Nat /\ IsFiniteSet(s \ u) /\ Cardinality(s \ u) \in Nat
             /\ \A x \in s : Storage(s) = x.mb + Storage(s \ {x})
  <2>1. Sized(s) /\ IsFiniteSet(s \ u)
    BY FS_Subset DEF Sized
  <2> QED BY <2>1, StorageAdds, FS_CardinalityType
<1>1. 0 \in K
  <2>1. ASSUME NEW s \in SUBSET S, u \subseteq s, Cardinality(s \ u) <= 0 PROVE Storage(u) <= Storage(s)
    <3>0. IsFiniteSet(s \ u) /\ Cardinality(s \ u) \in Nat
      BY <1>0
    <3>1. Cardinality(s \ u) = 0
      <4> HIDE DEF K
      <4> QED BY <3>0, <2>1
    <3>2. s \ u = {}
      BY <3>0, <3>1, FS_EmptySet
    <3>3. s = u
      BY <2>1, <3>2
    <3>4. Storage(s) \in Nat
      BY <1>0
    <3>5. Storage(s) <= Storage(s)
      BY <3>4
    <3> QED BY <3>3, <3>5
  <2> QED BY <2>1
<1>2. ASSUME NEW n \in K PROVE n + 1 \in K
  <2>1. ASSUME NEW s \in SUBSET S, u \subseteq s, Cardinality(s \ u) <= n + 1
        PROVE  Storage(u) <= Storage(s)
    <3>1. CASE s = u
      <4>1. Storage(s) \in Nat
        BY <1>0
      <4>2. Storage(s) <= Storage(s)
        BY <4>1
      <4> QED BY <3>1, <4>2
    <3>2. CASE s # u
      <4>1. PICK x \in s : x \notin u
        BY <2>1, <3>2
      <4>2. PICK t : t = s \ {x}
        OBVIOUS
      <4>3. t \in SUBSET S /\ u \subseteq t /\ t \ u = (s \ u) \ {x}
        BY <2>1, <4>1, <4>2
      <4>4. Cardinality(t \ u) <= n
        <5>1. Cardinality((s \ u) \ {x}) = Cardinality(s \ u) - 1
          BY <1>0, <4>1, FS_RemoveElement
        <5>2. Cardinality(s \ u) \in Nat /\ Cardinality(s \ u) <= n + 1 /\ n \in Nat
          BY <1>0, <1>2, <2>1
        <5>3. Cardinality(t \ u) = Cardinality(s \ u) - 1
          BY <4>3, <5>1
        <5> HIDE DEF K
        <5> QED BY <5>2, <5>3
      <4>5. Storage(u) <= Storage(t)
        BY <1>2, <4>3, <4>4
      <4>6. Storage(s) = x.mb + Storage(t) /\ x.mb \in Nat
        BY <1>0, <4>1, <4>2 DEF Sized
      <4>7. Storage(t) \in Nat /\ Storage(s) \in Nat /\ Storage(u) \in Nat
        BY <1>0, <4>3
      <4> QED BY <4>5, <4>6, <4>7
    <3> QED BY <3>1, <3>2
  <2> QED BY <1>2, <2>1
<1>3. K = Nat
  <2>1. K \in SUBSET Nat
    OBVIOUS
  <2> HIDE DEF K
  <2> QED BY <1>1, <1>2, <2>1, UpwardInduction
<1>4. Cardinality(S \ u) \in K
  <2>1. Cardinality(S \ u) \in Nat
    BY <1>0
  <2> HIDE DEF K
  <2> QED BY <1>3, <2>1
<1>5. Cardinality(S \ u) <= Cardinality(S \ u)
  <2>1. Cardinality(S \ u) \in Nat
    BY <1>0
  <2> QED BY <2>1
<1>6. \A s \in SUBSET S : u \subseteq s /\ Cardinality(s \ u) <= Cardinality(S \ u) => Storage(u) <= Storage(s)
  BY <1>4
<1>7. S \in SUBSET S /\ u \subseteq S
  OBVIOUS
<1> HIDE DEF K
<1> QED BY <1>5, <1>6, <1>7

--------------------------------------------------------------------------------
(***************************************************************************)
(* Usage, of tables R of rows and M of memberships                         *)
(***************************************************************************)
ProjectsIn(R) == {x.project : x \in {y \in R : y.kind = "project"}}
MineIn(R, M, e) == {x \in R : <<x.project[1], e>> \in M /\ x.project \in ProjectsIn(R)}

\* The rows that count in a metric; projects are counted by name.
CountedIn(R, M, e, metric) ==
    CASE metric = "maxProjects" -> {x.project : x \in MineIn(R, M, e)}
      [] metric = "maxDeploymentsPerDay" ->
            {x \in MineIn(R, M, e) : x.kind \in {"production", "preview"}}
      [] metric = "maxPreviewDeployments" -> {x \in MineIn(R, M, e) : x.kind = "preview"}
      [] metric = "maxDbStorageMb" -> {x \in MineIn(R, M, e) : x.kind = "resource"}

Amount(S, metric) == IF metric = "maxDbStorageMb" THEN Storage(S) ELSE Cardinality(S)

UsageIn(R, M, e, metric) == Amount(CountedIn(R, M, e, metric), metric)

\* Usage is that of the tables, before and after a step.
LEMMA UsageIs ==
    ASSUME NEW e, NEW metric \in Metrics
    PROVE  /\ Usage(e, metric) = UsageIn(rows, members, e, metric)
           /\ Usage(e, metric)' = UsageIn(rows', members', e, metric)
<1>1. CASE metric = "maxProjects"
  BY <1>1 DEF Usage, UsageIn, Amount, CountedIn, MineIn, ProjectsIn, ProjectsNow, ProjectRows
<1>2. CASE metric = "maxDeploymentsPerDay"
  BY <1>2 DEF Usage, UsageIn, Amount, CountedIn, MineIn, ProjectsIn, ProjectsNow, ProjectRows
<1>3. CASE metric = "maxPreviewDeployments"
  BY <1>3 DEF Usage, UsageIn, Amount, CountedIn, MineIn, ProjectsIn, ProjectsNow, ProjectRows
<1>4. CASE metric = "maxDbStorageMb"
  BY <1>4 DEF Usage, UsageIn, Amount, CountedIn, MineIn, ProjectsIn, ProjectsNow, ProjectRows
<1>5. QED
  BY <1>1, <1>2, <1>3, <1>4 DEF Metrics

\* The projects of finitely many rows are finitely many.
LEMMA ProjectsFinite ==
    ASSUME NEW S, IsFiniteSet(S) PROVE IsFiniteSet({x.project : x \in S})
<1>1. PICK T : T = {x.project : x \in S}
  OBVIOUS
<1>2. PICK f : f = [x \in S |-> x.project]
  OBVIOUS
<1>3. f \in Surjection(S, T)
  BY <1>1, <1>2 DEF Surjection
<1>4. QED
  BY <1>1, <1>3, FS_Surjection

\* What counts is finite, and rows that take storage have their megabytes.
LEMMA CountedFinite ==
    ASSUME NEW R \in SUBSET Row, IsFiniteSet(R), NEW M, NEW e, NEW metric \in Metrics
    PROVE  /\ IsFiniteSet(CountedIn(R, M, e, metric))
           /\ metric = "maxDbStorageMb" => Sized(CountedIn(R, M, e, metric))
<1>1. MineIn(R, M, e) \in SUBSET R /\ IsFiniteSet(MineIn(R, M, e))
  BY FS_Subset DEF MineIn
<1>2. CASE metric = "maxProjects"
  BY <1>1, <1>2, ProjectsFinite DEF CountedIn
<1>3. CASE metric # "maxProjects"
  <2>1. CountedIn(R, M, e, metric) \in SUBSET MineIn(R, M, e)
    BY <1>3 DEF CountedIn, Metrics
  <2>2. IsFiniteSet(CountedIn(R, M, e, metric))
    BY <1>1, <2>1, FS_Subset
  <2>3. \A x \in CountedIn(R, M, e, metric) : x.mb \in Nat
    BY <1>1, <2>1 DEF Row
  <2>4. QED
    BY <2>2, <2>3 DEF Sized
<1>4. QED
  BY <1>2, <1>3

\* A larger set amounts to more.
LEMMA AmountGrows ==
    ASSUME NEW S, NEW metric \in Metrics, IsFiniteSet(S), metric = "maxDbStorageMb" => Sized(S)
    PROVE  /\ Amount(S, metric) \in Nat
           /\ \A T \in SUBSET S : Amount(T, metric) <= Amount(S, metric)
<1>1. CASE metric = "maxDbStorageMb"
  BY <1>1, StorageAdds, StorageGrows DEF Amount
<1>2. CASE metric # "maxDbStorageMb"
  BY <1>2, FS_Subset, FS_CardinalityType DEF Amount
<1>3. QED
  BY <1>1, <1>2

\* One element more adds its megabytes, or one.
LEMMA AmountAdds ==
    ASSUME NEW S, NEW metric \in Metrics, IsFiniteSet(S), NEW x,
           metric = "maxDbStorageMb" => Sized(S) /\ x.mb \in Nat
    PROVE  /\ IsFiniteSet(S \cup {x}) /\ (metric = "maxDbStorageMb" => Sized(S \cup {x}))
           /\ Amount(S \cup {x}, metric)
                 <= Amount(S, metric) + (IF metric = "maxDbStorageMb" THEN x.mb ELSE 1)
<1>0. IsFiniteSet(S \cup {x}) /\ Cardinality(S) \in Nat
      /\ Cardinality(S \cup {x}) = IF x \in S THEN Cardinality(S) ELSE Cardinality(S) + 1
  BY FS_AddElement, FS_CardinalityType
<1>1. CASE metric = "maxDbStorageMb"
  <2>1. Sized(S \cup {x})
    BY <1>0, <1>1 DEF Sized
  <2>2. Storage(S) \in Nat
    BY <1>1, StorageAdds
  <2>3. CASE x \in S
    <3>1. S \cup {x} = S
      BY <2>3
    <3>2. Storage(S) <= Storage(S) + x.mb
      BY <1>1, <2>2
    <3>3. QED
      BY <1>0, <1>1, <2>1, <3>1, <3>2 DEF Amount
  <2>4. CASE x \notin S
    <3>1. (S \cup {x}) \ {x} = S
      BY <2>4
    <3>2. Storage(S \cup {x}) = x.mb + Storage((S \cup {x}) \ {x})
      BY <2>1, StorageAdds
    <3>3. Storage(S \cup {x}) = x.mb + Storage(S)
      BY <3>1, <3>2
    <3>4. Storage(S \cup {x}) <= Storage(S) + x.mb
      BY <1>1, <2>2, <3>3
    <3>5. QED
      BY <1>0, <1>1, <2>1, <3>4 DEF Amount
  <2>5. QED
    BY <2>3, <2>4
<1>2. CASE metric # "maxDbStorageMb"
  BY <1>0, <1>2 DEF Amount
<1>3. QED
  BY <1>1, <1>2

\* Usage does not grow with fewer rows and no further membership of the account.
LEMMA UsageShrinks ==
    ASSUME NEW R \in SUBSET Row, IsFiniteSet(R), NEW Q \in SUBSET R, NEW M, NEW N, NEW e,
           NEW metric \in Metrics, \A s : <<s, e>> \in N => <<s, e>> \in M
    PROVE  /\ UsageIn(R, M, e, metric) \in Nat /\ UsageIn(Q, N, e, metric) \in Nat
           /\ UsageIn(Q, N, e, metric) <= UsageIn(R, M, e, metric)
<1>1. ProjectsIn(Q) \subseteq ProjectsIn(R)
  BY DEF ProjectsIn
<1>2. MineIn(Q, N, e) \subseteq MineIn(R, M, e)
  BY <1>1 DEF MineIn
<1>3. CountedIn(Q, N, e, metric) \subseteq CountedIn(R, M, e, metric)
  <2>1. CASE metric = "maxProjects"
    BY <1>2, <2>1 DEF CountedIn
  <2>2. CASE metric # "maxProjects"
    BY <1>2, <2>2 DEF CountedIn, Metrics
  <2>3. QED
    BY <2>1, <2>2
<1>4. IsFiniteSet(Q) /\ Q \in SUBSET Row
  BY FS_Subset
<1>5. QED
  BY <1>3, <1>4, CountedFinite, AmountGrows DEF UsageIn

\* A row more adds its megabytes or one; a project more, when projects are counted.
LEMMA UsageAdds ==
    ASSUME NEW R \in SUBSET Row, IsFiniteSet(R), NEW x \in Row, NEW M, NEW e,
           NEW metric \in Metrics, x.kind = "project" => metric = "maxProjects"
    PROVE  UsageIn(R \cup {x}, M, e, metric)
              <= UsageIn(R, M, e, metric) + (IF metric = "maxDbStorageMb" THEN x.mb ELSE 1)
<1>1. PICK S : S = CountedIn(R, M, e, metric)
  OBVIOUS
<1>2. PICK y : y = IF metric = "maxProjects" THEN x.project ELSE x
  OBVIOUS
<1>3. CountedIn(R \cup {x}, M, e, metric) \subseteq S \cup {y}
  <2>1. CASE metric = "maxProjects"
    <3>1. ASSUME NEW z \in MineIn(R \cup {x}, M, e) PROVE z.project \in S \cup {y}
      <4>1. CASE z.project = x.project
        BY <1>2, <2>1, <4>1
      <4>2. CASE z.project # x.project
        <5>1. z \in R /\ <<z.project[1], e>> \in M /\ z.project \in ProjectsIn(R \cup {x})
          BY <3>1, <4>2 DEF MineIn
        <5>2. z.project \in ProjectsIn(R)
          BY <4>2, <5>1 DEF ProjectsIn
        <5>3. z \in MineIn(R, M, e)
          BY <5>1, <5>2 DEF MineIn
        <5>4. QED
          BY <1>1, <2>1, <5>3 DEF CountedIn
      <4>3. QED
        BY <4>1, <4>2
    <3>2. CountedIn(R \cup {x}, M, e, metric) = {z.project : z \in MineIn(R \cup {x}, M, e)}
      BY <2>1 DEF CountedIn
    <3>3. QED
      BY <3>1, <3>2
  <2>2. CASE metric # "maxProjects"
    <3>1. ProjectsIn(R \cup {x}) = ProjectsIn(R)
      BY <2>2 DEF ProjectsIn
    <3>2. MineIn(R \cup {x}, M, e) \subseteq MineIn(R, M, e) \cup {x}
      BY <3>1 DEF MineIn
    <3>3. QED
      BY <1>1, <1>2, <2>2, <3>2 DEF CountedIn, Metrics
  <2>3. QED
    BY <2>1, <2>2
<1>4. IsFiniteSet(S) /\ (metric = "maxDbStorageMb" => Sized(S))
  BY <1>1, CountedFinite
<1>5. metric = "maxDbStorageMb" => y = x /\ x.mb \in Nat
  BY <1>2 DEF Row
<1>6. /\ IsFiniteSet(S \cup {y}) /\ (metric = "maxDbStorageMb" => Sized(S \cup {y}))
      /\ Amount(S \cup {y}, metric)
            <= Amount(S, metric) + (IF metric = "maxDbStorageMb" THEN y.mb ELSE 1)
  BY <1>4, <1>5, AmountAdds
<1>7. Amount(S, metric) \in Nat /\ Amount(S \cup {y}, metric) \in Nat
      /\ Amount(CountedIn(R \cup {x}, M, e, metric), metric) <= Amount(S \cup {y}, metric)
  BY <1>3, <1>4, <1>6, AmountGrows
<1>8. R \cup {x} \in SUBSET Row /\ IsFiniteSet(R \cup {x})
  BY FS_AddElement
<1>9. Amount(CountedIn(R \cup {x}, M, e, metric), metric) \in Nat
  BY <1>8, CountedFinite, AmountGrows
<1>10. PICK n : n = IF metric = "maxDbStorageMb" THEN x.mb ELSE 1
  OBVIOUS
<1>11. n \in Nat /\ Amount(S \cup {y}, metric) <= Amount(S, metric) + n
  BY <1>5, <1>6, <1>10
<1>12. Amount(CountedIn(R \cup {x}, M, e, metric), metric) <= Amount(S, metric) + n
  BY <1>7, <1>9, <1>11
<1>13. QED
  BY <1>1, <1>10, <1>12 DEF UsageIn

--------------------------------------------------------------------------------
(***************************************************************************)
(* The quota                                                               *)
(***************************************************************************)

\* A request about to write, that nothing slipped in front of, still fits.
QuotaInv(r) ==
    \A e \in Emails, metric \in Metrics :
        /\ req[r].pc = "write" /\ ~req[r].raced /\ req[r].limit > 0
        /\ e = req[r].token.user /\ metric = MetricOf(r)
        => UsageIn(rows, members, e, metric) + Increment(r) <= req[r].limit

QInv == IsFiniteSet(rows) /\ \A r \in Requests : QuotaInv(r)

\* A request that waits to write as before.
Held(q) ==
    /\ req[q].pc = "write" /\ req'[q].pc = "write"
    /\ req'[q].op = req[q].op /\ req'[q].preview = req[q].preview /\ req'[q].token = req[q].token
    /\ req'[q].size = req[q].size /\ req'[q].limit = req[q].limit /\ req'[q].raced = req[q].raced

\* No request gets to its write, or over it.
Unwritten(q) ==
    /\ req'[q].pc = "write" => Held(q) \/ req'[q].raced
    /\ req[q].pc = "write" => req'[q].pc # "done"

\* A creating request is of a metric, adds a number, and has an account.
LEMMA RequestFacts ==
    ASSUME TypeInv, NEW r \in Requests, req[r].pc \in Creating
    PROVE  /\ req[r].op \in CreatingOps /\ MetricOf(r) \in Metrics /\ Increment(r) \in Nat
           /\ req[r].token.user \in Emails /\ req[r].limit \in Nat /\ req[r] \in Request
<1>1. Shape(r) /\ req[r] \in Request
  BY DEF TypeInv, TypeOK
<1>2. req[r].op \in CreatingOps /\ req[r].token \in Token
  BY <1>1 DEF Shape
<1>3. MetricOf(r) \in Metrics
  BY <1>2 DEF MetricOf, Metrics, CreatingOps
<1>4. req[r].op = "resource" => req[r].size \in Sizes
  BY <1>1, <1>2 DEF Shape
<1>5. Increment(r) \in Nat
  BY <1>4 DEF Increment
<1>6. QED
  BY <1>1, <1>2, <1>3, <1>5 DEF Token, Request

\* Fewer rows and no further membership of the account leave its quota held.
LEMMA QuotaKept ==
    ASSUME TypeInv, QInv, rows' \in SUBSET rows, NEW q \in Requests,
           Unwritten(q),
           req[q].pc = "write" /\ ~req'[q].raced =>
               \A s : <<s, req[q].token.user>> \in members' => <<s, req[q].token.user>> \in members
    PROVE  QuotaInv(q)'
<1> SUFFICES ASSUME NEW e \in Emails, NEW metric \in Metrics,
                    req'[q].pc = "write", ~req'[q].raced, req'[q].limit > 0,
                    e = req'[q].token.user, metric = MetricOf(q)'
             PROVE  UsageIn(rows', members', e, metric) + Increment(q)' <= req'[q].limit
  BY DEF QuotaInv
<1>1. Held(q)
  BY DEF Unwritten
<1>2. e = req[q].token.user /\ Increment(q)' = Increment(q)
  BY <1>1 DEF Held, Increment
<1>3. metric = MetricOf(q)
  BY <1>1 DEF Held, MetricOf
<1>4. UsageIn(rows, members, e, metric) + Increment(q) <= req[q].limit
  BY <1>1, <1>2, <1>3 DEF QInv, QuotaInv, Held
<1>5. /\ UsageIn(rows, members, e, metric) \in Nat /\ UsageIn(rows', members', e, metric) \in Nat
      /\ UsageIn(rows', members', e, metric) <= UsageIn(rows, members, e, metric)
  <2>1. rows \in SUBSET Row /\ IsFiniteSet(rows)
    BY DEF TypeInv, TypeOK, QInv
  <2>2. \A s : <<s, e>> \in members' => <<s, e>> \in members
    BY <1>1, <1>2 DEF Held
  <2>3. QED
    BY <2>1, <2>2, UsageShrinks
<1>6. Increment(q) \in Nat /\ req[q].limit \in Nat /\ req'[q].limit = req[q].limit
  BY <1>1, RequestFacts DEF Held, Creating
<1>7. PICK a, b, c, l : /\ a = UsageIn(rows, members, e, metric) /\ b = UsageIn(rows', members', e, metric)
                        /\ c = Increment(q) /\ l = req[q].limit
  OBVIOUS
<1>8. a \in Nat /\ b \in Nat /\ c \in Nat /\ l \in Nat /\ a + c <= l /\ b <= a
  BY <1>4, <1>5, <1>6, <1>7
<1>9. b + c <= l
  BY <1>8
<1>10. QED
  BY <1>2, <1>6, <1>7, <1>9

--------------------------------------------------------------------------------
(***************************************************************************)
(* Steps that check and write nothing                                      *)
(***************************************************************************)

\* One request moves, from and to another step.
LEMMA OneMoves ==
    ASSUME TypeInv, NEW r \in Requests, NEW x, req' = [req EXCEPT ![r] = x],
           x.pc # "write", req[r].pc = "write" => x.pc # "done"
    PROVE  \A q \in Requests : Unwritten(q)
<1>1. req \in [Requests -> Request]
  BY DEF TypeInv, TypeOK
<1>2. req'[r] = x /\ \A q \in Requests \ {r} : req'[q] = req[q]
  BY <1>1
<1>3. ASSUME NEW q \in Requests \ {r} PROVE Unwritten(q)
  BY <1>2 DEF Unwritten, Held
<1>4. Unwritten(r)
  BY <1>2 DEF Unwritten
<1>5. QED
  BY <1>3, <1>4

\* A request that others remember, that may create again, or that was overtaken.
LEMMA Touched ==
    ASSUME TypeInv, NEW q \in Requests, NEW v,
           \/ req'[q] = req[q]
           \/ req'[q] = [req[q] EXCEPT !.with = v]
           \/ req'[q] = [req[q] EXCEPT !.stopped = v]
           \/ req'[q] = [req[q] EXCEPT !.raced = TRUE]
    PROVE  Unwritten(q)
<1>1. req[q] \in Request
  BY DEF TypeInv, TypeOK
<1>2. PICK y : y = req'[q]
  OBVIOUS
<1>3. /\ y.pc = req[q].pc /\ y.op = req[q].op /\ y.preview = req[q].preview /\ y.token = req[q].token
      /\ y.size = req[q].size /\ y.limit = req[q].limit
      /\ y.raced = req[q].raced \/ y.raced = TRUE
  BY <1>1, <1>2 DEF Request
<1>4. QED
  BY <1>2, <1>3 DEF Unwritten, Held

\* The tables that usage is counted from.
UsageTables == <<rows, members>>

\* Signups, but for the membership.
LEMMA SignupUnwritten ==
    ASSUME IInv, NEW r \in Requests,
           \/ \E e \in Emails, s \in Slugs, invite \in BOOLEAN : signup(r, e, s, invite)
           \/ findOrganizationBySlug(r) \/ createOrganization(r) \/ countUsers(r) \/ createUser(r)
    PROVE  UNCHANGED UsageTables /\ \A q \in Requests : Unwritten(q)
<1>1. TypeInv /\ req \in [Requests -> Request] /\ req[r] \in Request
  BY DEF IInv, TypeInv, TypeOK
<1>2. CASE \E e \in Emails, s \in Slugs, invite \in BOOLEAN : signup(r, e, s, invite)
  <2>1. PICK e \in Emails, s \in Slugs, invite \in BOOLEAN : signup(r, e, s, invite)
    BY <1>2
  <2>2. PICK Q : Q = {q \in Requests : req[q].op = "signup" /\ req[q].pc \in Signup}
    OBVIOUS
  <2>3. PICK c \in {"refused", "slug"} : c = IF e \in DOMAIN users THEN "refused" ELSE "slug"
    OBVIOUS
  <2>4. PICK x : x = [NoRequest EXCEPT !.op = "signup", !.email = e, !.slug = s,
                                 !.invite = invite, !.with = Q, !.pc = c]
    OBVIOUS
  <2>5. req' = [q \in Requests |-> IF q = r THEN x
                     ELSE IF q \in Q THEN [req[q] EXCEPT !.with = @ \cup {r}] ELSE req[q]]
    BY <2>1, <2>2, <2>3, <2>4 DEF signup
  <2>6. Unwritten(r)
    <3>1. req'[r] = x
      BY <2>5
    <3>2. x.pc # "write" /\ x.pc # "done"
      BY <2>3, <2>4 DEF NoRequest
    <3>3. QED
      BY <3>1, <3>2 DEF Unwritten
  <2>7. ASSUME NEW q \in Requests \ {r} PROVE Unwritten(q)
    <3>1. PICK v : v = req[q].with \cup {r}
      OBVIOUS
    <3>2. req'[q] = req[q] \/ req'[q] = [req[q] EXCEPT !.with = v]
      BY <2>5, <3>1
    <3>3. QED
      BY <1>1, <3>2, Touched
  <2>8. \A q \in Requests : Unwritten(q)
    BY <2>6, <2>7
  <2>9. QED
    BY <2>1, <2>8 DEF signup, UsageTables
<1>3. CASE findOrganizationBySlug(r)
  <2>1. PICK c \in {"refused", "org"} : Goto(r, c)
    BY <1>3 DEF findOrganizationBySlug
  <2>2. PICK x : x = [req[r] EXCEPT !.pc = c]
    OBVIOUS
  <2>3. req' = [req EXCEPT ![r] = x] /\ x.pc = c
    BY <1>1, <2>1, <2>2 DEF Goto, Request
  <2>4. \A q \in Requests : Unwritten(q)
    BY <1>1, <2>1, <2>3, OneMoves
  <2>5. QED
    BY <1>3, <2>4 DEF findOrganizationBySlug, UsageTables
<1>4. CASE createOrganization(r)
  <2>1. Goto(r, "users")
    BY <1>4 DEF createOrganization
  <2>2. PICK x : x = [req[r] EXCEPT !.pc = "users"]
    OBVIOUS
  <2>3. req' = [req EXCEPT ![r] = x] /\ x.pc = "users"
    BY <1>1, <2>1, <2>2 DEF Goto, Request
  <2>4. \A q \in Requests : Unwritten(q)
    BY <1>1, <2>3, OneMoves
  <2>5. QED
    BY <1>4, <2>4 DEF createOrganization, UsageTables
<1>5. CASE countUsers(r)
  <2>1. PICK b \in BOOLEAN : b = (DOMAIN users = {})
    OBVIOUS
  <2>2. PICK x : x = [req[r] EXCEPT !.pc = "create", !.first = b]
    OBVIOUS
  <2>3. req' = [req EXCEPT ![r] = x] /\ x.pc = "create"
    BY <1>1, <1>5, <2>1, <2>2 DEF countUsers, Request
  <2>4. \A q \in Requests : Unwritten(q)
    BY <1>1, <2>3, OneMoves
  <2>5. QED
    BY <1>5, <2>4 DEF countUsers, UsageTables
<1>6. CASE createUser(r)
  <2>1. PICK Q : Q = {q \in Requests : req[q].token # None /\ req[q].token.user = req[r].email}
    OBVIOUS
  <2>2. PICK x : x = [req[r] EXCEPT !.pc = "member"]
    OBVIOUS
  <2>3. req' = [q \in Requests |-> IF q = r THEN x
                     ELSE IF q \in Q THEN [req[q] EXCEPT !.stopped = FALSE] ELSE req[q]]
    BY <1>6, <2>1, <2>2 DEF createUser
  <2>4. Unwritten(r)
    <3>1. req'[r] = x /\ x.pc = "member"
      BY <1>1, <2>2, <2>3 DEF Request
    <3>2. QED
      BY <1>6, <3>1 DEF Unwritten
  <2>5. ASSUME NEW q \in Requests \ {r} PROVE Unwritten(q)
    <3>1. req'[q] = req[q] \/ req'[q] = [req[q] EXCEPT !.stopped = FALSE]
      BY <2>3
    <3>2. QED
      BY <1>1, <3>1, Touched
  <2>6. \A q \in Requests : Unwritten(q)
    BY <2>4, <2>5
  <2>7. QED
    BY <1>6, <2>6 DEF createUser, UsageTables
<1>7. QED
  BY <1>2, <1>3, <1>4, <1>5, <1>6

\* Logins, and creating requests on their way to the check.
LEMMA ArrivalUnwritten ==
    ASSUME IInv, NEW r \in Requests,
           \/ \E e \in Emails : login(r, e)
           \/ promoteFirstLogin(r) \/ answerLogin(r)
           \/ \E t \in tokens, s \in Slugs, n \in Names : createProject(r, t, s, n)
           \/ \E t \in tokens, p \in ProjectsNow, preview \in BOOLEAN : createDeployment(r, t, p, preview)
           \/ \E t \in tokens, p \in ProjectsNow, size \in Sizes : addResource(r, t, p, size)
           \/ assertProjectAccess(r) \/ fail(r)
    PROVE  UNCHANGED UsageTables /\ \A q \in Requests : Unwritten(q)
<1>1. TypeInv /\ req \in [Requests -> Request] /\ req[r] \in Request
  BY DEF IInv, TypeInv, TypeOK
<1>2. ASSUME NEW op, NEW t, NEW s, NEW n, NEW size, NEW preview, Start(r, op, t, s, n, size, preview)
      PROVE  UNCHANGED UsageTables /\ \A q \in Requests : Unwritten(q)
  <2>1. PICK x : x = [NoRequest EXCEPT !.op = op, !.token = t, !.slug = s,
                                     !.name = n, !.size = size, !.preview = preview,
                                     !.pc = "access", !.stopped = Stopped(t.user)]
    OBVIOUS
  <2>2. req' = [req EXCEPT ![r] = x] /\ UNCHANGED UsageTables
    BY <1>2, <2>1 DEF Start, UsageTables
  <2>3. x.pc = "access"
    BY <2>1 DEF NoRequest
  <2>4. \A q \in Requests : Unwritten(q)
    BY <1>1, <2>2, <2>3, OneMoves
  <2>5. QED
    BY <2>2, <2>4
<1>3. ASSUME NEW c, Goto(r, c), c # "write", req[r].pc = "write" => c # "done"
      PROVE  \A q \in Requests : Unwritten(q)
  <2>1. PICK x : x = [req[r] EXCEPT !.pc = c]
    OBVIOUS
  <2>2. req' = [req EXCEPT ![r] = x] /\ x.pc = c
    BY <1>1, <1>3, <2>1 DEF Goto, Request
  <2>3. QED
    BY <1>1, <1>3, <2>2, OneMoves
<1>4. CASE \E e \in Emails : login(r, e)
  <2>1. PICK e \in Emails : login(r, e)
    BY <1>4
  <2>2. PICK x : /\ req' = [req EXCEPT ![r] = x]
                 /\ \/ x = [NoRequest EXCEPT !.op = "login", !.email = e,
                                             !.user = users[e], !.pc = "promote"]
                    \/ x = [NoRequest EXCEPT !.op = "login", !.email = e, !.pc = "refused"]
    BY <2>1 DEF login
  <2>3. x.pc # "write" /\ x.pc # "done"
    BY <2>2 DEF NoRequest
  <2>4. \A q \in Requests : Unwritten(q)
    BY <1>1, <2>2, <2>3, OneMoves
  <2>5. QED
    BY <2>1, <2>4 DEF login, UsageTables
<1>5. CASE promoteFirstLogin(r)
  <2>1. CASE Goto(r, "answer")
    BY <1>3, <1>5, <2>1 DEF promoteFirstLogin, UsageTables
  <2>2. CASE \E u : req' = [req EXCEPT ![r].pc = "answer", ![r].user = u]
    <3>1. PICK u : req' = [req EXCEPT ![r].pc = "answer", ![r].user = u]
      BY <2>2
    <3>2. PICK x : x = [req[r] EXCEPT !.pc = "answer", !.user = u]
      OBVIOUS
    <3>3. req' = [req EXCEPT ![r] = x] /\ x.pc = "answer"
      BY <1>1, <3>1, <3>2 DEF Request
    <3>4. \A q \in Requests : Unwritten(q)
      BY <1>1, <3>3, OneMoves
    <3>5. QED
      BY <1>5, <3>4 DEF promoteFirstLogin, UsageTables
  <2>3. QED
    BY <1>5, <2>1, <2>2 DEF promoteFirstLogin
<1>6. CASE answerLogin(r)
  <2>1. Goto(r, "done") /\ req[r].pc = "answer" /\ UNCHANGED UsageTables
    BY <1>6 DEF answerLogin, At, UsageTables
  <2>2. QED
    BY <1>3, <2>1
<1>7. CASE \/ \E t \in tokens, s \in Slugs, n \in Names : createProject(r, t, s, n)
           \/ \E t \in tokens, p \in ProjectsNow, preview \in BOOLEAN : createDeployment(r, t, p, preview)
           \/ \E t \in tokens, p \in ProjectsNow, size \in Sizes : addResource(r, t, p, size)
  <2>1. PICK op, t, s, n, size, preview : Start(r, op, t, s, n, size, preview)
    <3>1. CASE \E t \in tokens, s \in Slugs, n \in Names : createProject(r, t, s, n)
      BY <3>1 DEF createProject
    <3>2. CASE \E t \in tokens, p \in ProjectsNow, preview \in BOOLEAN : createDeployment(r, t, p, preview)
      BY <3>2 DEF createDeployment
    <3>3. CASE \E t \in tokens, p \in ProjectsNow, size \in Sizes : addResource(r, t, p, size)
      BY <3>3 DEF addResource
    <3>4. QED
      BY <1>7, <3>1, <3>2, <3>3
  <2>2. QED
    BY <1>2, <2>1
<1>8. CASE assertProjectAccess(r)
  <2>1. PICK c \in {"check", "refused"} : Goto(r, c)
    BY <1>8 DEF assertProjectAccess
  <2>2. UNCHANGED UsageTables
    BY <1>8 DEF assertProjectAccess, UsageTables
  <2>3. QED
    BY <1>3, <2>1, <2>2
<1>9. CASE fail(r)
  <2>1. Goto(r, "failed") /\ UNCHANGED UsageTables
    BY <1>9 DEF fail, UsageTables
  <2>2. QED
    BY <1>3, <2>1
<1>10. QED
  BY <1>4, <1>5, <1>6, <1>7, <1>8, <1>9

\* Administrators, and a project deleted with its rows.
LEMMA AdminUnwritten ==
    ASSUME IInv,
           \/ \E p \in Projects : deleteProject(p)
           \/ \E e \in Emails :
                 \/ \E a \in {"NON_CLUB", "CLUB_MEMBER"}, role \in {"USER", "ADMIN"} : approveUser(e, a, role)
                 \/ rejectUser(e)
                 \/ \E l \in Limits : setQuota(e, l)
           \/ UNCHANGED vars
    PROVE  rows' \in SUBSET rows /\ UNCHANGED members /\ \A q \in Requests : Unwritten(q)
<1>1. TypeInv /\ req \in [Requests -> Request]
  BY DEF IInv, TypeInv, TypeOK
<1>2. ASSUME UNCHANGED req PROVE \A q \in Requests : Unwritten(q)
  BY <1>2 DEF Unwritten, Held
<1>3. CASE \E p \in Projects : deleteProject(p)
  BY <1>2, <1>3 DEF deleteProject
<1>4. ASSUME NEW e \in Emails, NEW a, NEW role, approveUser(e, a, role)
      PROVE  UNCHANGED UsageTables /\ \A q \in Requests : Unwritten(q)
  <2>1. PICK Q : Q = {q \in Requests : req[q].token # None /\ req[q].token.user = e}
    OBVIOUS
  <2>2. req' = [q \in Requests |-> IF q \in Q THEN [req[q] EXCEPT !.stopped = FALSE] ELSE req[q]]
    BY <1>4, <2>1 DEF approveUser
  <2>3. ASSUME NEW q \in Requests PROVE Unwritten(q)
    <3>1. req'[q] = req[q] \/ req'[q] = [req[q] EXCEPT !.stopped = FALSE]
      BY <2>2
    <3>2. QED
      BY <1>1, <3>1, Touched
  <2>4. QED
    BY <1>4, <2>3 DEF approveUser, UsageTables
<1>5. CASE \E e \in Emails : rejectUser(e) \/ \E l \in Limits : setQuota(e, l)
  BY <1>2, <1>5 DEF rejectUser, setQuota
<1>6. CASE UNCHANGED vars
  BY <1>2, <1>6 DEF vars
<1>7. CASE \E e \in Emails : \E a \in {"NON_CLUB", "CLUB_MEMBER"}, role \in {"USER", "ADMIN"} : approveUser(e, a, role)
  BY <1>4, <1>7 DEF UsageTables
<1>8. QED
  BY <1>3, <1>5, <1>6, <1>7

\* A membership overtakes the requests of its account; the others' accounts have none more.
LEMMA MembershipKeeps ==
    ASSUME IInv, QInv, NEW r \in Requests, addMember(r)
    PROVE  QInv' /\ \A q \in Requests : Unwritten(q)
<1>1. TypeInv /\ req \in [Requests -> Request] /\ req[r] \in Request /\ req[r].pc = "member"
  BY DEF IInv, TypeInv, TypeOK, addMember, At
<1>2. PICK Q : Q = {q \in Requests : req[q].token # None /\ req[q].token.user = req[r].email}
  OBVIOUS
<1>3. PICK x : x = [req[r] EXCEPT !.pc = "done"]
  OBVIOUS
<1>5. req' = [q \in Requests |-> IF q = r THEN x
                       ELSE IF q \in Q THEN [req[q] EXCEPT !.raced = TRUE] ELSE req[q]]
  BY <1>2, <1>3 DEF addMember
<1>6. \A q \in Requests : Unwritten(q)
  <2>1. Unwritten(r)
    <3>1. req'[r] = x /\ x.pc = "done"
      BY <1>1, <1>3, <1>5 DEF Request
    <3>2. QED
      BY <1>1, <3>1 DEF Unwritten
  <2>2. ASSUME NEW q \in Requests \ {r} PROVE Unwritten(q)
    <3>1. req'[q] = req[q] \/ req'[q] = [req[q] EXCEPT !.raced = TRUE]
      BY <1>5
    <3>2. QED
      BY <1>1, <3>1, Touched
  <2>3. QED
    BY <2>1, <2>2
<1>7. rows' = rows /\ members' = members \cup {<<req[r].slug, req[r].email>>}
  BY DEF addMember
<1>8. ASSUME NEW q \in Requests, req[q].pc = "write", ~req'[q].raced
      PROVE  \A s : <<s, req[q].token.user>> \in members' => <<s, req[q].token.user>> \in members
  <2>1. q # r
    BY <1>1, <1>8
  <2>2. q \notin Q
    <3>1. ASSUME q \in Q PROVE FALSE
      <4>1. req'[q] = [req[q] EXCEPT !.raced = TRUE]
        BY <1>5, <2>1, <3>1
      <4>2. req[q] \in Request
        BY <1>1
      <4>3. req'[q].raced = TRUE
        BY <4>1, <4>2 DEF Request
      <4>4. QED
        BY <1>8, <4>3
    <3>2. QED
      BY <3>1
  <2>3. req[q].token # None
    <3>1. Shape(q)
      BY <1>1 DEF TypeInv
    <3>2. req[q].token \in Token
      BY <1>8, <3>1 DEF Shape, Creating, CreatingOps
    <3>3. QED
      BY <3>2
  <2>4. req[q].token.user # req[r].email
    BY <1>2, <2>2, <2>3
  <2>5. QED
    BY <1>7, <2>4
<1>9. \A q \in Requests : QuotaInv(q)'
  BY <1>1, <1>6, <1>7, <1>8, QuotaKept
<1>10. QED
  BY <1>6, <1>7, <1>9 DEF QInv

\* A check that passes has seen that the request fits.
LEMMA CheckKeeps ==
    ASSUME IInv, QInv, NEW r \in Requests, enforceUserCan(r)
    PROVE  /\ QInv' /\ req[r].pc # "write"
           /\ \A q \in Requests \ {r} : Unwritten(q)
<1>1. /\ TypeInv /\ req \in [Requests -> Request] /\ req[r] \in Request
      /\ req[r].pc \in {"check", "check2"} /\ rows' = rows /\ members' = members
  BY DEF IInv, TypeInv, TypeOK, enforceUserCan
<1>2. req[r].pc \in Creating
  BY <1>1 DEF Creating
<1>3. PICK e : e = req[r].token.user
  OBVIOUS
<1>4. PICK c : c = AfterCheck(r)
  OBVIOUS
<1>5. PICK l : l = LimitOf(e, MetricOf(r))
  OBVIOUS
<1>6. \/ req' = [req EXCEPT ![r].pc = c, ![r].limit = 0]
      \/ Goto(r, "refused")
      \/ req' = [req EXCEPT ![r].pc = "refused", ![r].limit = l, ![r].raced = FALSE]
      \/ WithinQuota(r, e) /\ req' = [req EXCEPT ![r].pc = c, ![r].limit = l, ![r].raced = FALSE]
  BY <1>3, <1>4, <1>5 DEF enforceUserCan
<1>7. PICK x : /\ req' = [req EXCEPT ![r] = x]
               /\ \/ x = [req[r] EXCEPT !.pc = c, !.limit = 0]
                  \/ x = [req[r] EXCEPT !.pc = "refused"]
                  \/ x = [req[r] EXCEPT !.pc = "refused", !.limit = l, !.raced = FALSE]
                  \/ WithinQuota(r, e) /\ x = [req[r] EXCEPT !.pc = c, !.limit = l, !.raced = FALSE]
  <2>1. PICK x1 : x1 = [req[r] EXCEPT !.pc = c, !.limit = 0]
    OBVIOUS
  <2>2. PICK x2 : x2 = [req[r] EXCEPT !.pc = "refused"]
    OBVIOUS
  <2>3. PICK x3 : x3 = [req[r] EXCEPT !.pc = "refused", !.limit = l, !.raced = FALSE]
    OBVIOUS
  <2>4. PICK x4 : x4 = [req[r] EXCEPT !.pc = c, !.limit = l, !.raced = FALSE]
    OBVIOUS
  <2>5. \/ req' = [req EXCEPT ![r] = x1] \/ req' = [req EXCEPT ![r] = x2]
        \/ req' = [req EXCEPT ![r] = x3] \/ (WithinQuota(r, e) /\ req' = [req EXCEPT ![r] = x4])
    BY <1>1, <1>6, <2>1, <2>2, <2>3, <2>4 DEF Goto
  <2>6. QED
    BY <2>1, <2>2, <2>3, <2>4, <2>5
<1>8. req'[r] = x /\ \A q \in Requests \ {r} : req'[q] = req[q]
  BY <1>1, <1>7
<1>9. ASSUME NEW q \in Requests \ {r} PROVE Unwritten(q)
  BY <1>8 DEF Unwritten, Held
<1>10. ASSUME NEW q \in Requests \ {r} PROVE QuotaInv(q)'
  BY <1>1, <1>9, QuotaKept
<1>11. QuotaInv(r)'
  <2> SUFFICES ASSUME NEW u \in Emails, NEW metric \in Metrics,
                      req'[r].pc = "write", req'[r].limit > 0,
                      u = req'[r].token.user, metric = MetricOf(r)'
               PROVE  UsageIn(rows', members', u, metric) + Increment(r)' <= req'[r].limit
    BY DEF QuotaInv
  <2>1. ~(x = [req[r] EXCEPT !.pc = c, !.limit = 0])
    <3>1. ASSUME x = [req[r] EXCEPT !.pc = c, !.limit = 0] PROVE x.limit = 0
      BY <1>1, <3>1 DEF Request
    <3>2. QED
      BY <1>8, <3>1
  <2>2. ~(x = [req[r] EXCEPT !.pc = "refused"])
    <3>1. ASSUME x = [req[r] EXCEPT !.pc = "refused"] PROVE x.pc = "refused"
      BY <1>1, <3>1 DEF Request
    <3>2. QED
      BY <1>8, <3>1
  <2>3. ~(x = [req[r] EXCEPT !.pc = "refused", !.limit = l, !.raced = FALSE])
    <3>1. ASSUME x = [req[r] EXCEPT !.pc = "refused", !.limit = l, !.raced = FALSE]
          PROVE  x.pc = "refused"
      BY <1>1, <3>1 DEF Request
    <3>2. QED
      BY <1>8, <3>1
  <2>4. WithinQuota(r, e) /\ x = [req[r] EXCEPT !.pc = c, !.limit = l, !.raced = FALSE]
    BY <1>7, <2>1, <2>2, <2>3
  <2>5. /\ x.pc = c /\ x.limit = l /\ x.op = req[r].op /\ x.preview = req[r].preview
        /\ x.size = req[r].size /\ x.token = req[r].token
    BY <1>1, <2>4 DEF Request
  <2>6. u = e /\ Increment(r)' = Increment(r)
    BY <1>3, <1>8, <2>5 DEF Increment
  <2>7. metric = MetricOf(r)
    <3>1. req[r].op \in CreatingOps
      BY <1>1, <1>2, RequestFacts
    <3>2. c = "write"
      BY <1>8, <2>5
    <3>3. ~(req[r].op = "deploy" /\ req[r].preview /\ req[r].pc = "check")
      BY <1>4, <3>2 DEF AfterCheck
    <3>4. CASE req[r].op = "project"
      BY <1>8, <2>5, <3>4 DEF MetricOf
    <3>5. CASE req[r].op = "resource"
      BY <1>8, <2>5, <3>5 DEF MetricOf
    <3>6. CASE req[r].op = "deploy"
      <4>1. MetricOf(r) = IF req[r].preview /\ req[r].pc # "check"
                          THEN "maxPreviewDeployments" ELSE "maxDeploymentsPerDay"
        BY <3>6 DEF MetricOf
      <4>2. MetricOf(r)' = IF req[r].preview /\ c # "check"
                           THEN "maxPreviewDeployments" ELSE "maxDeploymentsPerDay"
        BY <1>8, <2>5, <3>6 DEF MetricOf
      <4>3. QED
        BY <3>2, <3>3, <3>6, <4>1, <4>2
    <3>7. QED
      BY <3>1, <3>4, <3>5, <3>6 DEF CreatingOps
  <2>8. Usage(e, metric) + Increment(r) <= l
    BY <1>5, <2>4, <2>7 DEF WithinQuota
  <2>9. Usage(e, metric) = UsageIn(rows, members, e, metric)
    BY UsageIs
  <2>10. QED
    BY <1>1, <1>8, <2>5, <2>6, <2>8, <2>9
<1>12. QED
  BY <1>1, <1>9, <1>10, <1>11 DEF QInv

\* A write overtakes the others that are creating; where nothing is created, usage stays.
LEMMA WriteKeeps ==
    ASSUME IInv, QInv, NEW r \in Requests, write(r)
    PROVE  /\ QInv' /\ members' = members /\ req[r].pc = "write"
           /\ \A q \in Requests \ {r} : Unwritten(q)
           /\ req'[r].op = req[r].op /\ req'[r].preview = req[r].preview
           /\ req'[r].token = req[r].token
           /\ rows' = rows \/ (Creates(r) /\ rows' = rows \cup {NewRow(r)})
<1>1. /\ TypeInv /\ req \in [Requests -> Request] /\ req[r] \in Request /\ req[r].pc = "write"
      /\ IsFiniteSet(rows) /\ members' = members
  BY DEF IInv, TypeInv, TypeOK, QInv, write
<1>2. CASE Creates(r)
  <2>1. /\ rows' = rows \cup {NewRow(r)}
        /\ req' = [q \in Requests |->
              IF q = r THEN [req[r] EXCEPT !.pc = "done"]
              ELSE IF req[q].pc \in Creating THEN [req[q] EXCEPT !.raced = TRUE] ELSE req[q]]
    BY <1>2 DEF write
  <2>2. PICK x : x = [req[r] EXCEPT !.pc = "done"]
    OBVIOUS
  <2>3. /\ x.pc = "done" /\ x.op = req[r].op /\ x.preview = req[r].preview /\ x.token = req[r].token
    BY <1>1, <2>2 DEF Request
  <2>4. req'[r] = x
    BY <2>1, <2>2
  <2>5. ASSUME NEW q \in Requests \ {r} PROVE Unwritten(q) /\ QuotaInv(q)'
    <3>1. req'[q] = req[q] \/ req'[q] = [req[q] EXCEPT !.raced = TRUE]
      BY <2>1
    <3>2. Unwritten(q)
      BY <1>1, <3>1, Touched
    <3>3. req'[q].pc = "write" => req'[q].raced
      <4>1. CASE req[q].pc \in Creating
        <5>1. req'[q] = [req[q] EXCEPT !.raced = TRUE] /\ req[q] \in Request
          BY <1>1, <2>1, <4>1
        <5>2. PICK y : y = req'[q]
          OBVIOUS
        <5>3. y.raced = TRUE
          BY <5>1, <5>2 DEF Request
        <5>4. QED
          BY <5>2, <5>3
      <4>2. CASE req[q].pc \notin Creating
        <5>1. req'[q] = req[q] /\ req[q].pc # "write"
          BY <2>1, <4>2 DEF Creating
        <5>2. QED
          BY <5>1
      <4>3. QED
        BY <4>1, <4>2
    <3>4. QED
      BY <3>2, <3>3 DEF QuotaInv
  <2>6. QuotaInv(r)'
    BY <2>3, <2>4 DEF QuotaInv
  <2>7. IsFiniteSet(rows')
    BY <1>1, <2>1, FS_AddElement
  <2>8. QED
    BY <1>1, <1>2, <2>1, <2>3, <2>4, <2>5, <2>6, <2>7 DEF QInv
<1>3. CASE ~Creates(r)
  <2>1. PICK c \in {"done", "failed"} : Goto(r, c)
    BY <1>3 DEF write
  <2>2. PICK x : x = [req[r] EXCEPT !.pc = c]
    OBVIOUS
  <2>3. req' = [req EXCEPT ![r] = x] /\ rows' = rows
    BY <1>1, <1>3, <2>1, <2>2 DEF Goto, write
  <2>4. x.pc = c /\ x.op = req[r].op /\ x.preview = req[r].preview /\ x.token = req[r].token
    BY <1>1, <2>2 DEF Request
  <2>5. req'[r] = x /\ \A q \in Requests \ {r} : req'[q] = req[q]
    BY <1>1, <2>3
  <2>6. ASSUME NEW q \in Requests \ {r} PROVE Unwritten(q) /\ QuotaInv(q)'
    <3>1. Unwritten(q)
      BY <1>1, <2>5, Touched
    <3>2. rows' \in SUBSET rows
      BY <2>3
    <3>3. QED
      BY <1>1, <3>1, <3>2, QuotaKept
  <2>7. QuotaInv(r)'
    BY <2>4, <2>5 DEF QuotaInv
  <2>8. QED
    BY <1>1, <2>3, <2>4, <2>5, <2>6, <2>7 DEF QInv
<1>4. QED
  BY <1>2, <1>3

\* What the write of a request leaves its account with.
LEMMA WriteFits ==
    ASSUME IInv, QInv, NEW r \in Requests, write(r), req'[r].pc = "done", ~req[r].raced, req[r].limit > 0,
           req[r].op = "resource" => req[r].size.unit = "Mb"
    PROVE  Usage(req[r].token.user, MetricOf(r))' <= req[r].limit
<1>1. /\ TypeInv /\ req[r].pc = "write" /\ rows \in SUBSET Row /\ IsFiniteSet(rows) /\ Shape(r)
      /\ req[r].pc \in Creating
  BY DEF IInv, TypeInv, TypeOK, QInv, write, Creating
<1>2. /\ req[r].op \in CreatingOps /\ MetricOf(r) \in Metrics /\ Increment(r) \in Nat
      /\ req[r].token.user \in Emails /\ req[r].limit \in Nat /\ req[r] \in Request
  BY <1>1, RequestFacts
<1>3. PICK e \in Emails : e = req[r].token.user
  BY <1>2
<1>4. PICK metric \in Metrics : metric = MetricOf(r)
  BY <1>2
<1>5. UsageIn(rows, members, e, metric) + Increment(r) <= req[r].limit
  BY <1>1, <1>3, <1>4 DEF QInv, QuotaInv
<1>6. /\ members' = members /\ req'[r].op = req[r].op /\ req'[r].preview = req[r].preview
      /\ req'[r].token = req[r].token
      /\ rows' = rows \/ rows' = rows \cup {NewRow(r)}
  BY WriteKeeps
<1>7. MetricOf(r)' = metric
  BY <1>1, <1>4, <1>6 DEF MetricOf
<1>8. Usage(req[r].token.user, MetricOf(r))' = UsageIn(rows', members', e, metric)
  <2>1. Usage(req[r].token.user, MetricOf(r))' = Usage(e, metric)'
    BY <1>3, <1>6, <1>7 DEF Usage
  <2>2. QED
    BY <2>1, UsageIs
<1>9. UsageIn(rows, members, e, metric) \in Nat
  BY <1>1, UsageShrinks
<1>10. CASE rows' = rows
  BY <1>2, <1>5, <1>6, <1>8, <1>9, <1>10
<1>11. CASE rows' = rows \cup {NewRow(r)}
  <2>1. PICK x : x = NewRow(r)
    OBVIOUS
  <2>2. x \in Row
    <3>1. rows' \subseteq Row
      BY NextIInv DEF IInv, TypeInv, TypeOK, Next
    <3>2. QED
      BY <1>11, <2>1, <3>1
  <2>3. x.kind = "project" => metric = "maxProjects"
    BY <1>2, <1>4, <2>1 DEF NewRow, MetricOf, CreatingOps
  <2>4. PICK n : n = IF metric = "maxDbStorageMb" THEN x.mb ELSE 1
    OBVIOUS
  <2>5. n = Increment(r)
    <3>1. CASE req[r].op = "resource"
      BY <1>4, <2>1, <2>4, <3>1 DEF MetricOf, NewRow, Increment, Mb
    <3>2. CASE req[r].op # "resource"
      BY <1>4, <2>4, <3>2 DEF MetricOf, Increment
    <3>3. QED
      BY <3>1, <3>2
  <2>6. UsageIn(rows \cup {x}, members, e, metric) <= UsageIn(rows, members, e, metric) + n
    BY <1>1, <2>2, <2>3, <2>4, UsageAdds
  <2>7. UsageIn(rows \cup {x}, members, e, metric) \in Nat
    <3>1. rows \cup {x} \in SUBSET Row /\ IsFiniteSet(rows \cup {x})
      BY <1>1, <2>2, FS_AddElement
    <3>2. QED
      BY <3>1, UsageShrinks
  <2>8. PICK a, b, l : /\ a = UsageIn(rows, members, e, metric)
                       /\ b = UsageIn(rows \cup {x}, members, e, metric) /\ l = req[r].limit
    OBVIOUS
  <2>9. a \in Nat /\ b \in Nat /\ l \in Nat /\ n \in Nat /\ b <= a + n /\ a + n <= l
    BY <1>2, <1>5, <1>9, <2>5, <2>6, <2>7, <2>8
  <2>10. b <= l
    BY <2>9
  <2>11. QED
    BY <1>6, <1>8, <1>11, <2>1, <2>8, <2>10
<1>12. QED
  BY <1>6, <1>10, <1>11

\* What QuotaHeldUnlessRaced says of a request in a step.
Fits(r) ==
    req[r].pc = "write" /\ req'[r].pc = "done" /\ ~req[r].raced /\ req[r].limit > 0
       /\ (req[r].op = "resource" => req[r].size.unit = "Mb") =>
    Usage(req[r].token.user, MetricOf(r))' <= req[r].limit

\* Every step keeps the quotas, and leaves those it writes for within their limits.
LEMMA NextQInv == IInv /\ QInv /\ [Next]_vars => QInv' /\ \A r \in Requests : Fits(r)
<1> SUFFICES ASSUME IInv, QInv, [Next]_vars PROVE QInv' /\ \A r \in Requests : Fits(r)
  OBVIOUS
<1>1. TypeInv
  BY DEF IInv
<1>2. ASSUME rows' \in SUBSET rows, UNCHANGED members, \A q \in Requests : Unwritten(q)
      PROVE  QInv' /\ \A r \in Requests : Fits(r)
  <2>1. \A q \in Requests : QuotaInv(q)'
    BY <1>1, <1>2, QuotaKept
  <2>2. IsFiniteSet(rows')
    BY <1>2, FS_Subset DEF QInv
  <2>3. \A r \in Requests : Fits(r)
    BY <1>2 DEF Unwritten, Fits
  <2>4. QED
    BY <2>1, <2>2, <2>3 DEF QInv
<1>3. ASSUME NEW r \in Requests,
             \/ \E e \in Emails, s \in Slugs, invite \in BOOLEAN : signup(r, e, s, invite)
             \/ findOrganizationBySlug(r) \/ createOrganization(r) \/ countUsers(r)
             \/ createUser(r) \/ addMember(r)
             \/ \E e \in Emails : login(r, e)
             \/ promoteFirstLogin(r) \/ answerLogin(r)
             \/ \E t \in tokens, s \in Slugs, n \in Names : createProject(r, t, s, n)
             \/ \E t \in tokens, p \in ProjectsNow, preview \in BOOLEAN : createDeployment(r, t, p, preview)
             \/ \E t \in tokens, p \in ProjectsNow, size \in Sizes : addResource(r, t, p, size)
             \/ assertProjectAccess(r) \/ enforceUserCan(r) \/ write(r) \/ fail(r)
      PROVE  QInv' /\ \A q \in Requests : Fits(q)
  <2>1. CASE \/ \E e \in Emails, s \in Slugs, invite \in BOOLEAN : signup(r, e, s, invite)
             \/ findOrganizationBySlug(r) \/ createOrganization(r) \/ countUsers(r) \/ createUser(r)
    <3>1. UNCHANGED UsageTables /\ \A q \in Requests : Unwritten(q)
      BY <2>1, SignupUnwritten
    <3>2. rows' \in SUBSET rows /\ UNCHANGED members
      BY <3>1 DEF UsageTables
    <3>3. QED
      BY <1>2, <3>1, <3>2
  <2>2. CASE addMember(r)
    <3>1. QInv' /\ \A q \in Requests : Unwritten(q)
      BY <2>2, MembershipKeeps
    <3>2. QED
      BY <3>1 DEF Unwritten, Fits
  <2>3. CASE \/ \E e \in Emails : login(r, e)
             \/ promoteFirstLogin(r) \/ answerLogin(r)
             \/ \E t \in tokens, s \in Slugs, n \in Names : createProject(r, t, s, n)
             \/ \E t \in tokens, p \in ProjectsNow, preview \in BOOLEAN : createDeployment(r, t, p, preview)
             \/ \E t \in tokens, p \in ProjectsNow, size \in Sizes : addResource(r, t, p, size)
             \/ assertProjectAccess(r) \/ fail(r)
    <3>1. UNCHANGED UsageTables /\ \A q \in Requests : Unwritten(q)
      BY <2>3, ArrivalUnwritten
    <3>2. rows' \in SUBSET rows /\ UNCHANGED members
      BY <3>1 DEF UsageTables
    <3>3. QED
      BY <1>2, <3>1, <3>2
  <2>4. CASE enforceUserCan(r)
    <3>1. QInv' /\ req[r].pc # "write" /\ \A q \in Requests \ {r} : Unwritten(q)
      BY <2>4, CheckKeeps
    <3>2. QED
      BY <3>1 DEF Unwritten, Fits
  <2>5. CASE write(r)
    <3>1. QInv' /\ \A q \in Requests \ {r} : Unwritten(q)
      BY <2>5, WriteKeeps
    <3>2. ASSUME NEW q \in Requests \ {r} PROVE Fits(q)
      BY <3>1 DEF Unwritten, Fits
    <3>3. Fits(r)
      BY <2>5, WriteFits DEF Fits
    <3>4. QED
      BY <3>1, <3>2, <3>3
  <2>6. QED
    BY <1>3, <2>1, <2>2, <2>3, <2>4, <2>5
<1>4. CASE \/ \E p \in Projects : deleteProject(p)
           \/ \E e \in Emails :
                 \/ \E a \in {"NON_CLUB", "CLUB_MEMBER"}, role \in {"USER", "ADMIN"} : approveUser(e, a, role)
                 \/ rejectUser(e)
                 \/ \E l \in Limits : setQuota(e, l)
           \/ UNCHANGED vars
  BY <1>2, <1>4, AdminUnwritten
<1>5. QED
  BY <1>3, <1>4 DEF Next

\* Initially no request has been checked.
LEMMA InitQInv == Init => QInv
<1> SUFFICES ASSUME Init PROVE QInv
  OBVIOUS
<1>1. PICK s \in Scenarios : rows = s.rows /\ req = [r \in Requests |-> NoRequest]
  BY DEF Init
<1>2. IsFiniteSet(rows)
  BY <1>1, ScenariosAssumption
<1>3. \A r \in Requests : req[r].pc = "new"
  BY <1>1 DEF NoRequest
<1>4. QED
  BY <1>2, <1>3 DEF QInv, QuotaInv

\* enforceUserCan and the write after it are apart: the usage that a write leaves is within the
\* limit the check saw, unless another write or a membership of the account came between them.
THEOREM QuotasHold == Spec => QuotaHeldUnlessRaced
<1>1. (\A r \in Requests : Fits(r)) =>
      [\A r \in Requests :
          req[r].pc = "write" /\ req'[r].pc = "done" /\ ~req[r].raced /\ req[r].limit > 0
             /\ (req[r].op = "resource" => req[r].size.unit = "Mb") =>
          Usage(req[r].token.user, MetricOf(r))' <= req[r].limit]_vars
  BY DEF Fits
<1>2. QED
  BY <1>1, Invariance, InitQInv, NextQInv, PTL DEF Spec, QuotaHeldUnlessRaced
================================================================================
