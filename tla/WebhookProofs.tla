----------------------------- MODULE WebhookProofs -----------------------------
(***************************************************************************)
(* Proofs about Webhook, for any number of requests, deliveries, services  *)
(* and faults, every payload and both repositories.                        *)
(***************************************************************************)
EXTENDS Webhook, TLAPS

USE NonemptyAssumption

--------------------------------------------------------------------------------
(***************************************************************************)
(* The inductive invariant                                                 *)
(***************************************************************************)
InLoop == {"loop", "enqueue", "listing", "marking", "accepted"}
Past   == {"services"} \cup InLoop

\* What marks a request as the one that stored its delivery.  A failed request
\* is one when it left a job or a deployment.
Claims(r) ==
    \/ req[r].pc \in Past
    \/ \E j \in jobs : j.by = r
    \/ \E i \in Rows : dep[i].by = r

\* The id that request r gives to its deployment of service s.
RowOf(r, s) == IF backend = "prisma" THEN <<r, s>> ELSE <<Of(r).commit, s>>

OwnInv ==
    /\ \A r \in Requests : Claims(r) => /\ req[r].delivery \in events
                                        /\ req[r].pc \in Past \cup {"failed"}
    /\ \A q, r \in Requests :
          Claims(q) /\ Claims(r) /\ req[q].delivery = req[r].delivery => q = r
    /\ \A j \in jobs : j.type = Kind(j.by)
    /\ \A i \in Rows : i = RowOf(dep[i].by, i[2])
    /\ backend = "memory" => \A r \in Requests : req[r].pc \notin Pending \cup {"failed"}

\* The queued deployment i is known to a job or about to be.
Known(i) ==
    \/ \E j \in jobs : j.by = dep[i].by /\ j.service = i[2]
    \/ req[dep[i].by].pc = "enqueue" /\ req[dep[i].by].current = i[2]

OrphanInv == \A i \in Rows : dep[i].status = "QUEUED" /\ faults = 0 => Known(i)

HasJob(r, s) == [type |-> Kind(r), service |-> s, by |-> r] \in jobs
HasRow(r, s) ==
    \/ service[s] = "gone"
    \/ RowOf(r, s) \in Rows /\ (dep[RowOf(r, s)].by = r \/ backend = "memory")

\* What the loop has been through is done; the service at hand is half done.
ServedInv(r) ==
    /\ req[r].pc \in InLoop /\ Kind(r) # "ignored" =>
          \A s \in req[r].matched \ req[r].todo :
              HasJob(r, s) /\ (Kind(r) = "preview-cleanup" \/ HasRow(r, s))
    /\ req[r].pc = "enqueue" =>
          Kind(r) \in {"production-deploy", "preview-deploy"} /\ HasRow(r, req[r].current)
    /\ req[r].pc \in {"listing", "marking"} =>
          Kind(r) = "preview-cleanup" /\ HasJob(r, req[r].current)
    /\ req[r].pc \in {"new", "accepted"} => req[r].todo = {}

\* Deployment i has to be marked for request r, and is not.
Unmarked(r, i) ==
    /\ <<i, dep[i].by>> \in req[r].before /\ dep[i].preview /\ dep[i].pr = Of(r).pr
    /\ r \notin dep[i].marked

CleanInv(r) ==
    Kind(r) = "preview-cleanup" => \A i \in Rows : Unmarked(r, i) =>
        /\ req[r].pc \in InLoop => i[2] \notin req[r].matched \ req[r].todo
        /\ req[r].pc = "marking" /\ i[2] = req[r].current => i \in req[r].batch

\* Some request has met a deployment i that q created.
Seen(i, q) ==
    \/ i \in Rows /\ dep[i].by = q
    \/ \E r \in Requests : <<i, q>> \in req[r].before

\* A deployment is created once: what is still to do has not been seen.
FreshInv(q) ==
    \A i \in Ids : Seen(i, q) =>
        /\ req[q].pc \notin {"new", "lookup", "create", "services"}
        /\ req[q].pc = "loop" => i[2] \notin req[q].todo
        /\ req[q].pc \in {"enqueue", "listing", "marking"} => i[2] \notin req[q].todo \ {req[q].current}

\* A row that somebody may still write is stirred; one that was marked and not
\* stirred has kept the mark or what was made of it.
Sound(row) ==
    /\ row.busy => row.stirred
    /\ row.marked # {} => row.stirred \/ row.status \in {"PREVIEW_CLEANUP_REQUESTED", "ENDED"}

RowsInv == \A i \in Ids : Sound(dep[i])

IInv ==
    /\ TypeOK
    /\ OwnInv
    /\ OrphanInv
    /\ \A r \in Requests : ServedInv(r) /\ CleanInv(r) /\ FreshInv(r)

--------------------------------------------------------------------------------
(***************************************************************************)
(* Types and the initial state                                             *)
(***************************************************************************)

\* What a payload is made of, and what githubWebhookActionPlan makes of it.
LEMMA PayloadFacts ==
    ASSUME NEW p \in Payloads
    PROVE  /\ p.commit \in Commits /\ p.pr \in Nat
           /\ githubWebhookActionPlan(p) \in Kinds
<1>1. p.commit \in Commits /\ p.pr \in Nat
  BY PayloadsAssumption DEF Commits
<1>2. CASE p.event = "push"
  BY <1>1, <1>2 DEF githubWebhookActionPlan, Kinds
<1>3. CASE p.event # "push"
  BY <1>1, <1>3 DEF githubWebhookActionPlan, Kinds
<1>4. QED
  BY <1>2, <1>3

\* The payload of a request and what it asks for.
LEMMA KindFacts ==
    ASSUME TypeOK, NEW r \in Requests
    PROVE  /\ req[r] \in Request /\ req[r].delivery \in Deliveries
           /\ Of(r) \in Payloads /\ Of(r).commit \in Commits /\ Of(r).pr \in Nat
           /\ Kind(r) \in Kinds
<1>1. req[r] \in Request /\ req[r].delivery \in Deliveries
  BY DEF TypeOK, Request
<1>2. Of(r) \in Payloads
  BY <1>1 DEF Of, TypeOK
<1>3. QED
  BY <1>1, <1>2, PayloadFacts DEF Kind

\* An absent row.
LEMMA NoRowFacts == NoRow \in Row /\ NoRow.status = "none" /\ ~NoRow.busy /\ NoRow.marked = {}
BY DEF NoRow, Row

\* A row that request r creates.
LEMMA NewRowFacts ==
    ASSUME NEW r \in Requests, NEW p, p.pr \in Nat
    PROVE  /\ NewRow(r, p) \in Row /\ NewRow(r, p).status = "QUEUED" /\ NewRow(r, p).by = r
           /\ NewRow(r, p).stirred /\ NewRow(r, p).marked = {}
BY DEF NewRow, Row

\* A row that request r marks.
LEMMA MarkedFacts ==
    ASSUME NEW row \in Row, NEW r \in Requests
    PROVE  /\ Marked(row, r) \in Row /\ Marked(row, r).status = "PREVIEW_CLEANUP_REQUESTED"
           /\ Marked(row, r).by = row.by /\ Marked(row, r).preview = row.preview
           /\ Marked(row, r).pr = row.pr /\ Marked(row, r).marked = row.marked \cup {r}
           /\ Marked(row, r).busy = row.busy /\ Marked(row, r).stirred = row.busy
BY DEF Marked, Row

\* The initial state satisfies the inductive invariant.
LEMMA InitIInv == Init => IInv
<1> SUFFICES ASSUME Init PROVE IInv
  OBVIOUS
<1>1. /\ (CHOOSE r \in Requests : TRUE) \in Requests
      /\ (CHOOSE d \in Deliveries : TRUE) \in Deliveries
      /\ (CHOOSE s \in Services : TRUE) \in Services
  OBVIOUS
<1>2. TypeOK
  <2>1. dep \in [Ids -> Row]
    <3>1. NoRow \in Row
      BY NoRowFacts
    <3>2. dep = [i \in Ids |-> NoRow]
      BY DEF Init
    <3>3. QED
      BY <3>1, <3>2
  <2>2. req \in [Requests -> Request]
    BY <1>1 DEF Init, Request
  <2>3. payload \in [Deliveries -> Payloads]
    BY ScenariosAssumption DEF Init
  <2>4. service \in [Services -> {"unborn", "", "ours", "gone"}]
    BY DEF Init
  <2>5. events \subseteq Deliveries /\ faults \in 0..MaxFaults
    <3>1. events = {} /\ faults = 0
      BY DEF Init
    <3>2. QED
      BY <3>1, FaultsAssumption
  <2>6. jobs \subseteq [type : Kinds, service : Services, by : Requests]
    BY DEF Init
  <2>7. backend \in {"prisma", "memory"}
    BY DEF Init
  <2>8. QED
    BY <2>1, <2>2, <2>3, <2>4, <2>5, <2>6, <2>7 DEF TypeOK
<1>3. /\ Rows = {} /\ jobs = {}
      /\ \A r \in Requests : req[r].pc = "new" /\ req[r].todo = {} /\ req[r].before = {}
  BY NoRowFacts DEF Init, Rows
<1>4. OwnInv
  BY <1>3 DEF OwnInv, Claims, Past, InLoop, Pending
<1>5. OrphanInv
  BY <1>3 DEF OrphanInv
<1>6. ASSUME NEW r \in Requests PROVE ServedInv(r) /\ CleanInv(r) /\ FreshInv(r)
  BY <1>3 DEF ServedInv, CleanInv, FreshInv, Seen, InLoop
<1>7. QED
  BY <1>2, <1>4, <1>5, <1>6 DEF IInv

--------------------------------------------------------------------------------
(***************************************************************************)
(* What a step that creates no deployment preserves                        *)
(***************************************************************************)

\* Nobody but r does anything.
Only(r) == \A q \in Requests \ {r} : req'[q] = req[q]

\* r keeps its identity: what it carries and what it met.
Keeps(r) == req'[r].delivery = req[r].delivery /\ req'[r].before = req[r].before

\* Deployments only fade: they are marked, written by others or deleted with
\* their service, but never queued again or unmarked.  Jobs and deliveries stay.
Fades ==
    /\ \A i \in Ids : dep'[i].status # "none" =>
          /\ dep[i].status # "none" /\ dep'[i].by = dep[i].by
          /\ dep'[i].preview = dep[i].preview /\ dep'[i].pr = dep[i].pr
          /\ dep'[i].status = "QUEUED" => dep[i].status = "QUEUED"
          /\ dep[i].marked \subseteq dep'[i].marked
    /\ \A i \in Ids : dep[i].status # "none" => dep'[i].status # "none" \/ service'[i[2]] = "gone"
    /\ \A s \in Services : service[s] = "gone" => service'[s] = "gone"
    /\ backend' = backend /\ payload' = payload
    /\ jobs \subseteq jobs' /\ events \subseteq events'

\* A step that touches neither deployments nor services.
LEMMA NothingFades ==
    ASSUME UNCHANGED <<backend, payload, service, dep>>, jobs \subseteq jobs', events \subseteq events'
    PROVE  Fades
BY DEF Fades

\* Who keeps delivery and payload keeps its kind and its ids.
LEMMA SameKind ==
    ASSUME Fades, NEW r \in Requests, req'[r].delivery = req[r].delivery
    PROVE  Of(r)' = Of(r) /\ Kind(r)' = Kind(r) /\ \A s : RowOf(r, s)' = RowOf(r, s)
BY DEF Fades, Of, Kind, RowOf

\* The deployments of a service that is not deleted stay, so what was served stays served.
LEMMA HasKept ==
    ASSUME TypeOK, Fades, NEW r \in Requests, req'[r].delivery = req[r].delivery, NEW s \in Services
    PROVE  /\ HasJob(r, s) => HasJob(r, s)'
           /\ HasRow(r, s) => HasRow(r, s)'
<1>1. Of(r)' = Of(r) /\ Kind(r)' = Kind(r) /\ RowOf(r, s)' = RowOf(r, s)
  BY SameKind
<1>2. RowOf(r, s) \in Ids /\ RowOf(r, s)[2] = s
  BY KindFacts DEF RowOf, Ids
<1>3. QED
  BY <1>1, <1>2 DEF Fades, HasJob, HasRow, Rows

\* A request that does nothing stays sound.
LEMMA OthersKept ==
    ASSUME IInv, Fades, NEW q \in Requests, req'[q] = req[q],
           \A i \in Ids : Seen(i, q)' => Seen(i, q)
    PROVE  ServedInv(q)' /\ CleanInv(q)' /\ FreshInv(q)'
<1>1. TypeOK /\ ServedInv(q) /\ CleanInv(q) /\ FreshInv(q) /\ req[q] \in Request
  BY KindFacts DEF IInv
<1>2. Of(q)' = Of(q) /\ Kind(q)' = Kind(q)
  BY SameKind
<1>3. \A s \in Services : (HasJob(q, s) => HasJob(q, s)') /\ (HasRow(q, s) => HasRow(q, s)')
  BY <1>1, HasKept
<1>4. req[q].matched \subseteq Services /\ req[q].current \in Services
  BY <1>1 DEF Request
<1>5. ServedInv(q)'
  BY <1>1, <1>2, <1>3, <1>4 DEF ServedInv
<1>6. CleanInv(q)'
  <2>1. \A i \in Ids : i \in Rows' /\ Unmarked(q, i)' => i \in Rows /\ Unmarked(q, i)
    BY <1>2 DEF Fades, Unmarked, Rows
  <2>2. \A i \in Rows' : i \in Ids
    BY DEF Rows, Ids
  <2>3. QED
    BY <1>1, <1>2, <2>1, <2>2 DEF CleanInv
<1>7. FreshInv(q)'
  BY <1>1 DEF FreshInv, Ids
<1>8. QED
  BY <1>5, <1>6, <1>7

\* Nothing new is seen.
LEMMA SeenKept ==
    ASSUME Fades, NEW r \in Requests, Only(r), req'[r].before = req[r].before,
           NEW q \in Requests, NEW i \in Ids, Seen(i, q)'
    PROVE  Seen(i, q)
<1>1. \A p \in Requests : req'[p].before = req[p].before
  BY DEF Only
<1>2. QED
  BY <1>1 DEF Fades, Seen, Rows

\* A step of request r in the Prisma repository that neither stores a delivery
\* nor creates a deployment: what is left to show is about r itself.
LEMMA MoveStep ==
    ASSUME IInv, TypeOK', Fades, backend = "prisma", NEW r \in Requests, Only(r), Keeps(r),
           req[r].pc \in Pending,
           req'[r].pc \in Past => req[r].pc \in Past,
           req[r].pc \in Past => req'[r].pc \in Past \cup {"failed"},
           \A j \in jobs' : j \in jobs \/ (j.by = r /\ j.type = Kind(r) /\ req[r].pc \in Past),
           \/ faults' # 0
           \/ /\ faults' = faults
              /\ req[r].pc = "enqueue" => \E j \in jobs' : j.by = r /\ j.service = req[r].current,
           ServedInv(r)', CleanInv(r)', FreshInv(r)'
    PROVE  IInv'
<1>1. TypeOK /\ OwnInv /\ OrphanInv
  BY DEF IInv
<1>2. \A q \in Requests : req'[q].delivery = req[q].delivery
  BY DEF Only, Keeps
<1>3. \A q \in Requests : Of(q)' = Of(q) /\ Kind(q)' = Kind(q) /\ \A s : RowOf(q, s)' = RowOf(q, s)
  BY <1>2, SameKind
<1>4. \A i \in Rows' : i \in Ids /\ i \in Rows /\ dep'[i].by = dep[i].by /\ dep[i].by \in Requests
  BY <1>1 DEF Rows, Fades, TypeOK, Row
<1>5. \A q \in Requests : Claims(q)' => Claims(q)
  <2> SUFFICES ASSUME NEW q \in Requests, Claims(q)' PROVE Claims(q)
    OBVIOUS
  <2>1. CASE req'[q].pc \in Past
    BY <2>1 DEF Claims, Only
  <2>2. CASE \E j \in jobs' : j.by = q
    BY <2>2 DEF Claims
  <2>3. CASE \E i \in Rows' : dep'[i].by = q
    BY <1>4, <2>3 DEF Claims
  <2>4. QED
    BY <2>1, <2>2, <2>3 DEF Claims
<1>6. \A j \in jobs' : j.by \in Requests
  BY DEF TypeOK
<1>7. OwnInv'
  <2>1. ASSUME NEW q \in Requests, Claims(q)'
        PROVE  req'[q].delivery \in events' /\ req'[q].pc \in Past \cup {"failed"}
    <3>1. req[q].delivery \in events /\ req[q].pc \in Past \cup {"failed"}
      BY <1>1, <1>5, <2>1 DEF OwnInv
    <3>2. req[r].pc # "failed"
      BY DEF Pending
    <3>3. QED
      BY <1>2, <3>1, <3>2 DEF Fades, Only
  <2>2. \A p, q \in Requests :
          Claims(p)' /\ Claims(q)' /\ req'[p].delivery = req'[q].delivery => p = q
    BY <1>1, <1>2, <1>5 DEF OwnInv
  <2>3. \A j \in jobs' : j.type = Kind(j.by)'
    BY <1>1, <1>2, <1>6 DEF OwnInv, Kind, Of, Fades
  <2>4. \A i \in Rows' : i = RowOf(dep[i].by, i[2])'
    BY <1>1, <1>2, <1>4 DEF OwnInv, RowOf, Of, Fades
  <2>5. backend' = "prisma"
    BY DEF Fades
  <2>6. QED
    BY <2>1, <2>2, <2>3, <2>4, <2>5 DEF OwnInv
<1>8. OrphanInv'
  <2> SUFFICES ASSUME NEW i \in Rows', dep'[i].status = "QUEUED", faults' = 0 PROVE Known(i)'
    BY DEF OrphanInv
  <2>1. i \in Rows /\ dep[i].status = "QUEUED" /\ dep'[i].by = dep[i].by /\ dep[i].by \in Requests
    BY <1>4 DEF Fades
  <2>2. Known(i)
    BY <1>1, <2>1 DEF OrphanInv
  <2>3. CASE \E j \in jobs : j.by = dep[i].by /\ j.service = i[2]
    BY <2>1, <2>3 DEF Known, Fades
  <2>4. CASE req[dep[i].by].pc = "enqueue" /\ req[dep[i].by].current = i[2]
    <3>1. CASE dep[i].by = r
      BY <2>1, <2>4, <3>1 DEF Known
    <3>2. CASE dep[i].by # r
      BY <2>1, <2>4, <3>2 DEF Known, Only
    <3>3. QED
      BY <3>1, <3>2
  <2>5. QED
    BY <2>2, <2>3, <2>4 DEF Known
<1>9. ASSUME NEW q \in Requests PROVE ServedInv(q)' /\ CleanInv(q)' /\ FreshInv(q)'
  <2>1. CASE q = r
    BY <2>1
  <2>2. CASE q # r
    <3>1. \A i \in Ids : Seen(i, q)' => Seen(i, q)
      BY SeenKept DEF Keeps
    <3>2. req'[q] = req[q]
      BY <2>2 DEF Only
    <3>3. QED
      BY <3>1, <3>2, OthersKept
  <2>3. QED
    BY <2>1, <2>2
<1>10. QED
  BY <1>7, <1>8, <1>9 DEF IInv

\* The frame of a step outside of the handlers.
LEMMA OutsideStep ==
    ASSUME IInv, TypeOK', Fades, UNCHANGED <<events, jobs, req, faults>>
    PROVE  IInv'
<1>1. TypeOK /\ OwnInv /\ OrphanInv
  BY DEF IInv
<1>2. \A q \in Requests : Of(q)' = Of(q) /\ Kind(q)' = Kind(q) /\ \A s : RowOf(q, s)' = RowOf(q, s)
  BY SameKind
<1>3. \A i \in Rows' : i \in Ids /\ i \in Rows /\ dep'[i].by = dep[i].by /\ dep[i].by \in Requests
  BY <1>1 DEF Rows, Fades, TypeOK, Row
<1>4. \A q \in Requests : Claims(q)' => Claims(q)
  BY <1>3 DEF Claims
<1>5. \A j \in jobs : j.by \in Requests
  BY <1>1 DEF TypeOK
<1>6. OwnInv'
  <2>1. \A j \in jobs' : j.type = Kind(j.by)'
    BY <1>1, <1>5 DEF OwnInv, Kind, Of, Fades
  <2>2. \A i \in Rows' : i = RowOf(dep[i].by, i[2])'
    BY <1>1, <1>3 DEF OwnInv, RowOf, Of, Fades
  <2>3. \A p, q \in Requests :
          Claims(p)' /\ Claims(q)' /\ req'[p].delivery = req'[q].delivery => p = q
    BY <1>1, <1>4 DEF OwnInv
  <2>4. \A q \in Requests : Claims(q)' =>
           req'[q].delivery \in events' /\ req'[q].pc \in Past \cup {"failed"}
    BY <1>1, <1>4 DEF OwnInv
  <2>5. backend' = "memory" => \A r \in Requests : req'[r].pc \notin Pending \cup {"failed"}
    BY <1>1 DEF OwnInv, Fades
  <2>6. QED
    BY <2>1, <2>2, <2>3, <2>4, <2>5 DEF OwnInv
<1>7. OrphanInv'
  BY <1>1, <1>3 DEF OrphanInv, Known, Fades
<1>8. ASSUME NEW q \in Requests PROVE ServedInv(q)' /\ CleanInv(q)' /\ FreshInv(q)'
  <2>1. \A i \in Ids : Seen(i, q)' => Seen(i, q)
    BY <1>3 DEF Seen, Rows
  <2>2. QED
    BY <2>1, OthersKept
<1>9. QED
  BY <1>6, <1>7, <1>8 DEF IInv

\* What an update of a request does.
LEMMA RequestUpdate ==
    ASSUME TypeOK, NEW r \in Requests, NEW x \in Request, req' = [req EXCEPT ![r] = x]
    PROVE  req' \in [Requests -> Request] /\ Only(r) /\ req'[r] = x
BY DEF TypeOK, Only

PCs == {"new"} \cup Pending \cup Answers

\* What Goto does to the request.
LEMMA GotoFacts ==
    ASSUME TypeOK, NEW r \in Requests, NEW pc \in PCs, Goto(r, pc)
    PROVE  /\ req' \in [Requests -> Request] /\ Only(r) /\ Keeps(r) /\ req'[r].pc = pc
           /\ req'[r].matched = req[r].matched /\ req'[r].todo = req[r].todo
           /\ req'[r].current = req[r].current /\ req'[r].batch = req[r].batch
<1>1. req \in [Requests -> Request] /\ req[r] \in Request
  BY DEF TypeOK
<1>2. PICK x : x = [req[r] EXCEPT !.pc = pc]
  OBVIOUS
<1>3. /\ x \in Request /\ x.pc = pc /\ x.delivery = req[r].delivery /\ x.before = req[r].before
      /\ x.matched = req[r].matched /\ x.todo = req[r].todo
      /\ x.current = req[r].current /\ x.batch = req[r].batch
  BY <1>1, <1>2 DEF Request, PCs
<1>4. req' = [req EXCEPT ![r] = x]
  BY <1>1, <1>2 DEF Goto
<1>5. QED
  BY <1>3, <1>4, RequestUpdate DEF Keeps

\* A pending request belongs to the Prisma repository.
LEMMA PendingIsPrisma ==
    ASSUME IInv, NEW r \in Requests, req[r].pc \in Pending
    PROVE  backend = "prisma"
BY DEF IInv, OwnInv, TypeOK

\* A request that ends outside of the loop, whatever it has done: failed, a
\* duplicate, a conflict, or about to store its delivery.
LEMMA LeaveStep ==
    ASSUME IInv, NEW r \in Requests, req[r].pc \in Pending,
           NEW pc \in {"create", "duplicate", "conflict", "failed"}, Goto(r, pc),
           pc = "failed" \/ req[r].pc \in {"lookup", "create"},
           pc = "create" => req[r].pc = "lookup",
           UNCHANGED <<backend, payload, service, dep, jobs>>,
           events \subseteq events', events' \subseteq Deliveries, faults' \in 0..MaxFaults,
           faults' # 0 \/ (faults' = faults /\ req[r].pc # "enqueue")
    PROVE  IInv'
<1>1. pc \in PCs
  BY DEF PCs, Pending, Answers
<1>2. TypeOK
  BY DEF IInv
<1>3. /\ req' \in [Requests -> Request] /\ Only(r) /\ Keeps(r) /\ req'[r].pc = pc
  BY <1>1, <1>2, GotoFacts
<1>4. TypeOK'
  BY <1>2, <1>3 DEF TypeOK
<1>5. Fades
  BY NothingFades
<1>6. backend = "prisma"
  BY PendingIsPrisma
<1>7. ServedInv(r)' /\ CleanInv(r)'
  BY <1>3 DEF ServedInv, CleanInv, InLoop
<1>8. FreshInv(r)'
  <2>1. \A i \in Ids : Seen(i, r)' => Seen(i, r)
    BY <1>3, <1>5, SeenKept DEF Keeps
  <2>2. QED
    BY <1>3, <2>1 DEF FreshInv, IInv
<1>9. req'[r].pc \in Past => req[r].pc \in Past
  BY <1>3 DEF Past, InLoop
<1>10. req[r].pc \in Past => req'[r].pc \in Past \cup {"failed"}
  BY <1>3 DEF Past, InLoop
<1>11. QED
  BY <1>3, <1>4, <1>5, <1>6, <1>7, <1>8, <1>9, <1>10, MoveStep

\* The lookup of the delivery and its error, and the error of any call.
LEMMA LookupStep ==
    ASSUME IInv, NEW r \in Requests, findDelivery(r) \/ findDeliveryFails(r) \/ fail(r)
    PROVE  IInv'
<1>1. UNCHANGED <<backend, payload, service, events, dep, jobs>> /\ req[r].pc \in Pending
  BY DEF findDelivery, findDeliveryFails, fail, Pending
<1>2. events \subseteq Deliveries /\ faults \in 0..MaxFaults
  BY DEF IInv, TypeOK
<1>3. CASE findDelivery(r)
  <2>1. PICK pc \in {"duplicate", "create"} : Goto(r, pc)
    BY <1>3 DEF findDelivery
  <2>2. req[r].pc = "lookup" /\ faults' = faults
    BY <1>3 DEF findDelivery
  <2>3. QED
    BY <1>1, <1>2, <2>1, <2>2, LeaveStep
<1>4. CASE findDeliveryFails(r) \/ fail(r)
  <2>1. faults < MaxFaults /\ faults' = faults + 1
    BY <1>4 DEF findDeliveryFails, fail, Fault
  <2>2. faults' \in 0..MaxFaults /\ faults' # 0
    BY <1>2, <2>1, FaultsAssumption
  <2>3. PICK pc \in {"create", "failed"} : /\ Goto(r, pc)
                                           /\ pc = "create" => req[r].pc = "lookup"
    BY <1>4 DEF findDeliveryFails, fail
  <2>4. QED
    BY <1>1, <1>2, <2>2, <2>3, LeaveStep
<1>5. QED
  BY <1>3, <1>4

\* The unique index lets one request per delivery pass.
LEMMA CreateEventStep == ASSUME IInv, NEW r \in Requests, createEvent(r) PROVE IInv'
<1>1. /\ req[r].pc = "create" /\ events' = events \cup {req[r].delivery}
      /\ UNCHANGED <<backend, payload, service, dep, jobs, faults>>
  BY DEF createEvent
<1>2. TypeOK /\ OwnInv /\ OrphanInv /\ faults \in 0..MaxFaults /\ events' \subseteq Deliveries
  BY <1>1 DEF IInv, TypeOK, Request
<1>3. CASE req[r].delivery \in events
  <2>1. Goto(r, "conflict")
    BY <1>3 DEF createEvent
  <2>2. req[r].pc \in Pending
    BY <1>1 DEF Pending
  <2>3. QED
    BY <1>1, <1>2, <2>1, <2>2, LeaveStep
<1>4. CASE req[r].delivery \notin events
  <2>1. Goto(r, "services") /\ "services" \in PCs
    BY <1>4 DEF createEvent, PCs, Pending
  <2>2. /\ req' \in [Requests -> Request] /\ Only(r) /\ Keeps(r) /\ req'[r].pc = "services"
    BY <1>2, <2>1, GotoFacts
  <2>3. TypeOK'
    BY <1>1, <1>2, <2>2 DEF TypeOK
  <2>4. Fades
    BY <1>1, NothingFades
  <2>5. \A q \in Requests : req'[q].delivery = req[q].delivery
    BY <2>2 DEF Only, Keeps
  <2>6. \A q \in Requests \ {r} : Claims(q)' => Claims(q)
    BY <1>1, <2>2 DEF Claims, Only, Rows
  <2>7. \A q \in Requests : Claims(q) => req[q].delivery # req[r].delivery
    BY <1>2, <1>4 DEF OwnInv
  <2>8. OwnInv'
    <3>1. \A q \in Requests : Claims(q)' =>
            req'[q].delivery \in events' /\ req'[q].pc \in Past \cup {"failed"}
      BY <1>1, <1>2, <2>2, <2>5, <2>6 DEF OwnInv, Only, Past
    <3>2. \A p, q \in Requests :
            Claims(p)' /\ Claims(q)' /\ req'[p].delivery = req'[q].delivery => p = q
      BY <1>2, <2>5, <2>6, <2>7 DEF OwnInv
    <3>3. \A j \in jobs : j.by \in Requests /\ j.type = Kind(j.by)
      BY <1>2 DEF OwnInv, TypeOK
    <3>4. \A i \in Rows : dep[i].by \in Requests /\ i = RowOf(dep[i].by, i[2])
      BY <1>2 DEF OwnInv, TypeOK, Rows, Row
    <3>5. \A j \in jobs' : j.type = Kind(j.by)'
      BY <1>1, <2>5, <3>3 DEF Kind, Of
    <3>6. \A i \in Rows' : i = RowOf(dep[i].by, i[2])'
      BY <1>1, <2>5, <3>4 DEF RowOf, Of, Rows
    <3>7. backend' = "prisma"
      BY <1>1, PendingIsPrisma DEF Pending
    <3>8. QED
      BY <3>1, <3>2, <3>5, <3>6, <3>7 DEF OwnInv
  <2>9. OrphanInv'
    <3>1. \A i \in Rows : dep[i].by \in Requests
      BY <1>2 DEF TypeOK, Rows, Row
    <3>2. \A q \in Requests : req[q].pc = "enqueue" => req'[q] = req[q]
      BY <1>1, <2>2 DEF Only
    <3>3. QED
      BY <1>1, <1>2, <3>1, <3>2 DEF OrphanInv, Known, Rows
  <2>10. ASSUME NEW q \in Requests PROVE ServedInv(q)' /\ CleanInv(q)' /\ FreshInv(q)'
    <3>1. \A i \in Ids : Seen(i, q)' => Seen(i, q)
      BY <2>2, <2>4, SeenKept DEF Keeps
    <3>2. CASE q = r
      <4>1. ServedInv(r)' /\ CleanInv(r)'
        BY <2>2 DEF ServedInv, CleanInv, InLoop
      <4>2. FreshInv(r)'
        BY <1>1, <2>2, <3>1, <3>2 DEF FreshInv, IInv
      <4>3. QED
        BY <3>2, <4>1, <4>2
    <3>3. CASE q # r
      <4>1. req'[q] = req[q]
        BY <2>2, <3>3 DEF Only
      <4>2. QED
        BY <2>4, <3>1, <4>1, OthersKept
    <3>4. QED
      BY <3>2, <3>3
  <2>11. QED
    BY <2>3, <2>8, <2>9, <2>10 DEF IInv
<1>5. QED
  BY <1>3, <1>4

--------------------------------------------------------------------------------
(***************************************************************************)
(* The loop over the services                                              *)
(***************************************************************************)

\* The services of the repository are read.
LEMMA FindServicesStep == ASSUME IInv, NEW r \in Requests, findServices(r) PROVE IInv'
<1>1. /\ req[r].pc = "services"
      /\ UNCHANGED <<backend, payload, service, events, dep, jobs, faults>>
  BY DEF findServices
<1>2. PICK found : found = servicesForPrismaGitHubRepository(Of(r))
  OBVIOUS
<1>3. PICK todo : todo = IF Kind(r) = "ignored" THEN {} ELSE found
  OBVIOUS
<1>4. found \subseteq Services /\ todo \subseteq Services
  BY <1>2, <1>3 DEF servicesForPrismaGitHubRepository, servicesForGitHubRepository
<1>5. TypeOK /\ req[r] \in Request /\ req \in [Requests -> Request]
  BY DEF IInv, TypeOK
<1>6. PICK x : x = [req[r] EXCEPT !.pc = "loop", !.matched = found, !.todo = todo]
  OBVIOUS
<1>7. /\ x \in Request /\ x.pc = "loop" /\ x.matched = found /\ x.todo = todo
      /\ x.delivery = req[r].delivery /\ x.before = req[r].before
  BY <1>4, <1>5, <1>6 DEF Request, Pending
<1>8. req' = [req EXCEPT ![r] = x]
  BY <1>2, <1>3, <1>5, <1>6 DEF findServices
<1>9. req' \in [Requests -> Request] /\ Only(r) /\ req'[r] = x /\ Keeps(r)
  BY <1>5, <1>7, <1>8, RequestUpdate DEF Keeps
<1>10. TypeOK'
  BY <1>1, <1>5, <1>9 DEF TypeOK
<1>11. Fades
  BY <1>1, NothingFades
<1>12. Kind(r)' = Kind(r)
  BY <1>9, <1>11, SameKind DEF Keeps
<1>13. ServedInv(r)' /\ CleanInv(r)'
  <2>1. Kind(r) # "ignored" => todo = found
    BY <1>3
  <2>2. Kind(r) = "preview-cleanup" => todo = found
    BY <1>3
  <2>3. QED
    BY <1>7, <1>9, <1>12, <2>1, <2>2 DEF ServedInv, CleanInv
<1>14. FreshInv(r)'
  <2>1. \A i \in Ids : ~Seen(i, r)'
    BY <1>1, <1>9, <1>11, SeenKept DEF IInv, FreshInv, Keeps
  <2>2. QED
    BY <2>1 DEF FreshInv
<1>15. backend = "prisma" /\ req[r].pc \in Pending /\ req[r].pc \in Past /\ req'[r].pc \in Past
  BY <1>1, <1>7, <1>9, PendingIsPrisma DEF Pending, Past, InLoop
<1>16. QED
  BY <1>1, <1>9, <1>10, <1>11, <1>13, <1>14, <1>15, MoveStep

\* The answer: nothing is left to do.
LEMMA AnswerStep == ASSUME IInv, NEW r \in Requests, answer(r) PROVE IInv'
<1>1. /\ req[r].pc = "loop" /\ req[r].todo = {} /\ Goto(r, "accepted") /\ "accepted" \in PCs
      /\ UNCHANGED <<backend, payload, service, events, dep, jobs, faults>>
  BY DEF answer, PCs, Answers
<1>2. TypeOK /\ ServedInv(r) /\ CleanInv(r) /\ req[r] \in Request
  BY DEF IInv, TypeOK
<1>3. /\ req' \in [Requests -> Request] /\ Only(r) /\ Keeps(r) /\ req'[r].pc = "accepted"
      /\ req'[r].matched = req[r].matched /\ req'[r].todo = req[r].todo
  BY <1>1, <1>2, GotoFacts
<1>4. TypeOK'
  BY <1>1, <1>2, <1>3 DEF TypeOK
<1>5. Fades
  BY <1>1, NothingFades
<1>6. Of(r)' = Of(r) /\ Kind(r)' = Kind(r)
  BY <1>3, <1>5, SameKind DEF Keeps
<1>7. ServedInv(r)'
  <2>1. \A s \in Services : (HasJob(r, s) => HasJob(r, s)') /\ (HasRow(r, s) => HasRow(r, s)')
    BY <1>2, <1>3, <1>5, HasKept DEF Keeps
  <2>2. req[r].matched \subseteq Services
    BY <1>2 DEF Request
  <2>3. QED
    BY <1>1, <1>2, <1>3, <1>6, <2>1, <2>2 DEF ServedInv, InLoop
<1>8. CleanInv(r)'
  <2>1. \A i \in Ids : Unmarked(r, i)' => Unmarked(r, i)
    BY <1>1, <1>3, <1>6 DEF Unmarked, Keeps
  <2>2. \A i \in Rows' : i \in Ids /\ i \in Rows
    BY <1>1 DEF Rows
  <2>3. QED
    BY <1>1, <1>2, <1>3, <1>6, <2>1, <2>2 DEF CleanInv, InLoop
<1>9. FreshInv(r)'
  <2>1. \A i \in Ids : Seen(i, r)' => Seen(i, r)
    BY <1>3, <1>5, SeenKept DEF Keeps
  <2>2. QED
    BY <1>3, <2>1 DEF FreshInv
<1>10. backend = "prisma" /\ req[r].pc \in Pending /\ req[r].pc \in Past /\ req'[r].pc \in Past
  BY <1>1, <1>3, PendingIsPrisma DEF Pending, Past, InLoop
<1>11. QED
  BY <1>1, <1>3, <1>4, <1>5, <1>7, <1>8, <1>9, <1>10, MoveStep

\* The job of the deployment just created; with it the service is done.
LEMMA EnqueueDeployStep == ASSUME IInv, NEW r \in Requests, enqueueDeployJob(r) PROVE IInv'
<1>1. /\ req[r].pc = "enqueue"
      /\ UNCHANGED <<backend, payload, service, events, dep, faults>>
  BY DEF enqueueDeployJob
<1>2. TypeOK /\ ServedInv(r) /\ FreshInv(r) /\ req[r] \in Request /\ req \in [Requests -> Request]
  BY DEF IInv, TypeOK
<1>3. PICK job : job = [type |-> Kind(r), service |-> req[r].current, by |-> r]
  OBVIOUS
<1>4. /\ job \in [type : Kinds, service : Services, by : Requests]
      /\ job.by = r /\ job.type = Kind(r) /\ job.service = req[r].current
  BY <1>2, <1>3, KindFacts DEF Request
<1>5. jobs' = jobs \cup {job}
  BY <1>3 DEF enqueueDeployJob
<1>6. PICK x : x = [req[r] EXCEPT !.pc = "loop", !.todo = req[r].todo \ {req[r].current}]
  OBVIOUS
<1>7. /\ x \in Request /\ x.pc = "loop" /\ x.todo = req[r].todo \ {req[r].current}
      /\ x.delivery = req[r].delivery /\ x.before = req[r].before /\ x.matched = req[r].matched
  BY <1>2, <1>6 DEF Request, Pending
<1>8. req' = [req EXCEPT ![r] = x]
  BY <1>2, <1>6 DEF enqueueDeployJob, Request
<1>9. req' \in [Requests -> Request] /\ Only(r) /\ req'[r] = x /\ Keeps(r)
  BY <1>2, <1>7, <1>8, RequestUpdate DEF Keeps
<1>10. TypeOK'
  BY <1>1, <1>2, <1>4, <1>5, <1>9 DEF TypeOK
<1>11. Fades
  BY <1>1, <1>5, NothingFades
<1>12. Of(r)' = Of(r) /\ Kind(r)' = Kind(r)
  BY <1>9, <1>11, SameKind DEF Keeps
<1>13. ServedInv(r)'
  <2>1. \A s \in Services : (HasJob(r, s) => HasJob(r, s)') /\ (HasRow(r, s) => HasRow(r, s)')
    BY <1>2, <1>9, <1>11, HasKept DEF Keeps
  <2>2. req[r].matched \subseteq Services /\ req[r].current \in Services
    BY <1>2 DEF Request
  <2>3. HasJob(r, req[r].current)' /\ HasRow(r, req[r].current)'
    <3>1. HasRow(r, req[r].current)
      BY <1>1, <1>2 DEF ServedInv
    <3>2. PICK s \in Services : s = req[r].current
      BY <2>2
    <3>3. HasRow(r, s)' /\ HasJob(r, s)'
      BY <1>3, <1>5, <1>12, <2>1, <3>1, <3>2 DEF HasJob
    <3>4. req'[r].current = req[r].current
      BY <1>2, <1>6, <1>9 DEF Request
    <3>5. QED
      BY <3>2, <3>3, <3>4
  <2>4. \A s \in req'[r].matched \ req'[r].todo :
           s \in req[r].matched \ req[r].todo \/ s = req[r].current
    BY <1>7, <1>9
  <2>5. req'[r].current = req[r].current
    BY <1>2, <1>6, <1>9 DEF Request
  <2>6. \A s \in req'[r].matched \ req'[r].todo :
           Kind(r) # "ignored" => HasJob(r, s)' /\ (Kind(r) = "preview-cleanup" \/ HasRow(r, s)')
    BY <1>1, <1>2, <2>1, <2>2, <2>3, <2>4, <2>5 DEF ServedInv, InLoop
  <2>7. QED
    BY <1>7, <1>9, <1>12, <2>6 DEF ServedInv
<1>14. CleanInv(r)'
  BY <1>1, <1>2, <1>12 DEF CleanInv, ServedInv
<1>15. FreshInv(r)'
  <2>1. \A i \in Ids : Seen(i, r)' => Seen(i, r)
    BY <1>9, <1>11, SeenKept DEF Keeps
  <2>2. QED
    BY <1>1, <1>2, <1>7, <1>9, <2>1 DEF FreshInv
<1>16. backend = "prisma" /\ req[r].pc \in Pending /\ req[r].pc \in Past /\ req'[r].pc \in Past
  BY <1>1, <1>7, <1>9, PendingIsPrisma DEF Pending, Past, InLoop
<1>17. QED
  BY <1>1, <1>4, <1>5, <1>9, <1>10, <1>11, <1>13, <1>14, <1>15, <1>16, MoveStep

\* The cleanup job of a service.
LEMMA EnqueueCleanupStep ==
    ASSUME IInv, NEW r \in Requests, NEW s \in Services, enqueueCleanupJob(r, s) PROVE IInv'
<1>1. /\ req[r].pc = "loop" /\ s \in req[r].todo /\ Kind(r) = "preview-cleanup"
      /\ UNCHANGED <<backend, payload, service, events, dep, faults>>
  BY DEF enqueueCleanupJob
<1>2. /\ TypeOK /\ ServedInv(r) /\ FreshInv(r) /\ CleanInv(r)
      /\ req[r] \in Request /\ req \in [Requests -> Request]
  BY DEF IInv, TypeOK
<1>3. PICK job : job = [type |-> Kind(r), service |-> s, by |-> r]
  OBVIOUS
<1>4. /\ job \in [type : Kinds, service : Services, by : Requests]
      /\ job.by = r /\ job.type = Kind(r)
  BY <1>2, <1>3, KindFacts
<1>5. jobs' = jobs \cup {job}
  BY <1>3 DEF enqueueCleanupJob
<1>6. PICK x : x = [req[r] EXCEPT !.pc = "listing", !.current = s]
  OBVIOUS
<1>7. /\ x \in Request /\ x.pc = "listing" /\ x.todo = req[r].todo /\ x.current = s
      /\ x.delivery = req[r].delivery /\ x.before = req[r].before /\ x.matched = req[r].matched
  BY <1>2, <1>6 DEF Request, Pending
<1>8. req' = [req EXCEPT ![r] = x]
  BY <1>2, <1>6 DEF enqueueCleanupJob
<1>9. req' \in [Requests -> Request] /\ Only(r) /\ req'[r] = x /\ Keeps(r)
  BY <1>2, <1>7, <1>8, RequestUpdate DEF Keeps
<1>10. TypeOK'
  BY <1>1, <1>2, <1>4, <1>5, <1>9 DEF TypeOK
<1>11. Fades
  BY <1>1, <1>5, NothingFades
<1>12. Of(r)' = Of(r) /\ Kind(r)' = Kind(r)
  BY <1>9, <1>11, SameKind DEF Keeps
<1>13. ServedInv(r)'
  <2>1. \A t \in Services : (HasJob(r, t) => HasJob(r, t)') /\ (HasRow(r, t) => HasRow(r, t)')
    BY <1>2, <1>9, <1>11, HasKept DEF Keeps
  <2>2. req[r].matched \subseteq Services
    BY <1>2 DEF Request
  <2>3. HasJob(r, s)'
    BY <1>3, <1>5, <1>12 DEF HasJob
  <2>4. QED
    BY <1>1, <1>2, <1>7, <1>9, <1>12, <2>1, <2>2, <2>3 DEF ServedInv, InLoop
<1>14. CleanInv(r)'
  <2>1. \A i \in Ids : Unmarked(r, i)' => Unmarked(r, i)
    BY <1>1, <1>9, <1>12 DEF Unmarked, Keeps
  <2>2. \A i \in Rows' : i \in Ids /\ i \in Rows
    BY <1>1 DEF Rows
  <2>3. QED
    BY <1>1, <1>2, <1>7, <1>9, <1>12, <2>1, <2>2 DEF CleanInv, InLoop
<1>15. FreshInv(r)'
  <2>1. \A i \in Ids : Seen(i, r)' => Seen(i, r)
    BY <1>9, <1>11, SeenKept DEF Keeps
  <2>2. QED
    BY <1>1, <1>2, <1>7, <1>9, <2>1 DEF FreshInv
<1>16. backend = "prisma" /\ req[r].pc \in Pending /\ req[r].pc \in Past /\ req'[r].pc \in Past
       /\ req[r].pc # "enqueue"
  BY <1>1, <1>7, <1>9, PendingIsPrisma DEF Pending, Past, InLoop
<1>17. QED
  BY <1>1, <1>4, <1>5, <1>9, <1>10, <1>11, <1>13, <1>14, <1>15, <1>16, MoveStep

\* A step of the marking of one service: r lists the previews, marks one of
\* them, or is through with the list.
LEMMA MarkingStep ==
    ASSUME IInv, NEW r \in Requests, NEW x \in Request, req' = [req EXCEPT ![r] = x],
           req[r].pc \in {"listing", "marking"},
           x.pc \in {"marking", "loop"}, x.delivery = req[r].delivery, x.before = req[r].before,
           x.matched = req[r].matched, x.current = req[r].current,
           x.todo = IF x.pc = "loop" THEN req[r].todo \ {req[r].current} ELSE req[r].todo,
           UNCHANGED <<backend, payload, service, events, jobs, faults>>, dep' \in [Ids -> Row],
           Fades,
           \A i \in Rows' : Unmarked(r, i)' /\ i[2] = req[r].current => x.pc = "marking" /\ i \in x.batch
    PROVE  IInv'
<1>1. /\ TypeOK /\ ServedInv(r) /\ FreshInv(r) /\ CleanInv(r)
      /\ req[r] \in Request /\ req \in [Requests -> Request]
  BY DEF IInv, TypeOK
<1>2. req' \in [Requests -> Request] /\ Only(r) /\ req'[r] = x /\ Keeps(r)
  BY <1>1, RequestUpdate DEF Keeps
<1>3. TypeOK'
  BY <1>1, <1>2 DEF TypeOK
<1>4. Of(r)' = Of(r) /\ Kind(r)' = Kind(r)
  BY <1>2, SameKind DEF Keeps
<1>5. Kind(r) = "preview-cleanup" /\ HasJob(r, req[r].current)
  BY <1>1 DEF ServedInv
<1>6. ServedInv(r)'
  <2>1. \A t \in Services : HasJob(r, t) => HasJob(r, t)'
    BY <1>1, <1>2, HasKept DEF Keeps
  <2>2. req[r].matched \subseteq Services /\ req[r].current \in Services
    BY <1>1 DEF Request
  <2>3. PICK c \in Services : c = req[r].current
    BY <2>2
  <2>4. HasJob(r, c)'
    BY <1>5, <2>1, <2>3
  <2>5. \A t \in x.matched \ x.todo : HasJob(r, t)'
    BY <1>1, <1>5, <2>1, <2>2, <2>3, <2>4 DEF ServedInv, InLoop
  <2>6. QED
    BY <1>2, <1>4, <1>5, <2>3, <2>4, <2>5 DEF ServedInv
<1>7. CleanInv(r)'
  <2>1. \A i \in Ids : i \in Rows' /\ Unmarked(r, i)' => i \in Rows /\ Unmarked(r, i)
    BY <1>2, <1>4 DEF Fades, Unmarked, Rows, Keeps
  <2>2. \A i \in Rows' : i \in Ids
    BY DEF Rows
  <2>3. \A i \in Rows' : Unmarked(r, i)' => i[2] \notin req[r].matched \ req[r].todo
    BY <1>1, <1>5, <2>1, <2>2 DEF CleanInv, InLoop
  <2>4. \A i \in Rows' : Unmarked(r, i)' =>
           /\ i[2] \notin x.matched \ x.todo
           /\ x.pc = "marking" /\ i[2] = x.current => i \in x.batch
    BY <2>3
  <2>5. QED
    BY <1>2, <2>4 DEF CleanInv
<1>8. FreshInv(r)'
  <2>1. \A i \in Ids : Seen(i, r)' => Seen(i, r)
    BY <1>2, SeenKept DEF Keeps
  <2>2. QED
    BY <1>1, <1>2, <2>1 DEF FreshInv
<1>9. backend = "prisma" /\ req[r].pc \in Pending /\ req[r].pc \in Past /\ req'[r].pc \in Past
      /\ req[r].pc # "enqueue"
  BY <1>2, PendingIsPrisma DEF Pending, Past, InLoop
<1>10. QED
  BY <1>2, <1>3, <1>6, <1>7, <1>8, <1>9, MoveStep

\* The previews of the pull request are listed.
LEMMA FindPreviewsStep == ASSUME IInv, NEW r \in Requests, findPreviews(r) PROVE IInv'
<1>1. /\ req[r].pc = "listing"
      /\ UNCHANGED <<backend, payload, service, events, dep, jobs, faults>>
  BY DEF findPreviews
<1>2. TypeOK /\ req[r] \in Request /\ req \in [Requests -> Request] /\ dep' \in [Ids -> Row]
  BY <1>1 DEF IInv, TypeOK
<1>3. PICK batch : batch = PreviewsOf(req[r].current, Of(r).pr)
  OBVIOUS
<1>4. batch \subseteq Ids
  BY <1>3 DEF PreviewsOf, Rows
<1>5. PICK x : x = [req[r] EXCEPT !.pc = "marking", !.batch = batch]
  OBVIOUS
<1>6. /\ x \in Request /\ x.pc = "marking" /\ x.batch = batch /\ x.delivery = req[r].delivery
      /\ x.before = req[r].before /\ x.matched = req[r].matched /\ x.current = req[r].current
      /\ x.todo = req[r].todo
  BY <1>2, <1>4, <1>5 DEF Request, Pending
<1>7. req' = [req EXCEPT ![r] = x]
  BY <1>2, <1>3, <1>5 DEF findPreviews
<1>8. Fades
  BY <1>1, NothingFades
<1>9. Of(r)' = Of(r)
  BY <1>2, <1>6, <1>7, <1>8, RequestUpdate, SameKind
<1>10. \A i \in Rows' : Unmarked(r, i)' /\ i[2] = req[r].current => i \in batch
  BY <1>1, <1>3, <1>9 DEF Unmarked, PreviewsOf, Rows
<1>11. QED
  BY <1>1, <1>2, <1>6, <1>7, <1>8, <1>10, MarkingStep

\* One preview is marked, or none is left; a preview that vanished is an error.
LEMMA RequestCleanupStep == ASSUME IInv, NEW r \in Requests, requestCleanup(r) PROVE IInv'
<1>1. /\ req[r].pc = "marking"
      /\ UNCHANGED <<backend, payload, service, events, jobs, faults>>
  BY DEF requestCleanup
<1>2. /\ TypeOK /\ req[r] \in Request /\ req \in [Requests -> Request] /\ dep \in [Ids -> Row]
      /\ CleanInv(r) /\ ServedInv(r)
  BY DEF IInv, TypeOK
<1>3. Kind(r) = "preview-cleanup" /\ req[r].batch \subseteq Ids
  BY <1>1, <1>2 DEF ServedInv, Request
<1>4. CASE /\ req[r].batch = {} /\ dep' = dep
           /\ req' = [req EXCEPT ![r].pc = "loop", ![r].todo = @ \ {req[r].current}]
  <2>1. PICK x : x = [req[r] EXCEPT !.pc = "loop", !.todo = req[r].todo \ {req[r].current}]
    OBVIOUS
  <2>2. /\ x \in Request /\ x.pc = "loop" /\ x.delivery = req[r].delivery
        /\ x.before = req[r].before /\ x.matched = req[r].matched /\ x.current = req[r].current
        /\ x.todo = req[r].todo \ {req[r].current}
    BY <1>2, <2>1 DEF Request, Pending
  <2>3. req' = [req EXCEPT ![r] = x]
    BY <1>2, <1>4, <2>1 DEF Request
  <2>4. Fades
    BY <1>1, <1>4, NothingFades
  <2>5. Of(r)' = Of(r) /\ req'[r] = x
    BY <1>2, <2>2, <2>3, <2>4, RequestUpdate, SameKind
  <2>6. \A i \in Rows' : Unmarked(r, i)' => i \in Rows /\ Unmarked(r, i)
    BY <1>4, <2>2, <2>5 DEF Unmarked, Rows
  <2>7. \A i \in Rows' : Unmarked(r, i)' /\ i[2] = req[r].current => FALSE
    BY <1>1, <1>2, <1>3, <1>4, <2>6 DEF CleanInv
  <2>8. dep' \in [Ids -> Row]
    BY <1>2, <1>4
  <2>9. QED
    BY <1>1, <2>2, <2>3, <2>4, <2>7, <2>8, MarkingStep
<1>5. ASSUME NEW i \in req[r].batch, i \in Rows,
             dep' = [dep EXCEPT ![i] = Marked(@, r)],
             req' = [req EXCEPT ![r].batch = @ \ {i}]
      PROVE  IInv'
  <2>1. PICK x : x = [req[r] EXCEPT !.batch = req[r].batch \ {i}]
    OBVIOUS
  <2>2. /\ x \in Request /\ x.pc = "marking" /\ x.delivery = req[r].delivery
        /\ x.before = req[r].before /\ x.matched = req[r].matched /\ x.current = req[r].current
        /\ x.todo = req[r].todo /\ x.batch = req[r].batch \ {i}
    BY <1>1, <1>2, <2>1 DEF Request
  <2>3. req' = [req EXCEPT ![r] = x]
    BY <1>2, <1>5, <2>1 DEF Request
  <2>4. PICK row : row = Marked(dep[i], r)
    OBVIOUS
  <2>5. /\ i \in Ids /\ dep[i] \in Row /\ row \in Row /\ row.status = "PREVIEW_CLEANUP_REQUESTED"
        /\ row.by = dep[i].by /\ row.preview = dep[i].preview /\ row.pr = dep[i].pr
        /\ row.marked = dep[i].marked \cup {r}
    BY <1>2, <1>5, <2>4, MarkedFacts DEF Rows
  <2>6. /\ dep' \in [Ids -> Row] /\ dep'[i] = row
        /\ \A k \in Ids \ {i} : dep'[k] = dep[k]
    BY <1>2, <1>5, <2>4, <2>5
  <2>7. Fades
    BY <1>1, <1>5, <2>5, <2>6 DEF Fades, Rows
  <2>8. Of(r)' = Of(r) /\ req'[r] = x
    BY <1>2, <2>2, <2>3, <2>7, RequestUpdate, SameKind
  <2>9. \A k \in Rows' : k \in Ids
    BY DEF Rows
  <2>10. \A k \in Rows' : Unmarked(r, k)' => k \in Rows /\ Unmarked(r, k) /\ k # i
    BY <2>2, <2>5, <2>6, <2>8, <2>9 DEF Unmarked, Rows
  <2>11. \A k \in Rows' : Unmarked(r, k)' /\ k[2] = req[r].current => k \in x.batch
    BY <1>1, <1>2, <1>3, <2>2, <2>10 DEF CleanInv
  <2>12. QED
    BY <1>1, <2>2, <2>3, <2>6, <2>7, <2>11, MarkingStep
<1>6. CASE Goto(r, "failed") /\ dep' = dep
  <2>1. req[r].pc \in Pending /\ faults \in 0..MaxFaults /\ events \subseteq Deliveries
    BY <1>1, <1>2 DEF Pending, TypeOK
  <2>2. QED
    BY <1>1, <1>6, <2>1, LeaveStep
<1>7. QED
  BY <1>4, <1>5, <1>6 DEF requestCleanup

\* A deployment is created for the first time.
LEMMA CreateDeploymentStep ==
    ASSUME IInv, NEW r \in Requests, NEW s \in Services, createDeployment(r, s) PROVE IInv'
<1>1. /\ req[r].pc = "loop" /\ s \in req[r].todo
      /\ Kind(r) \in {"production-deploy", "preview-deploy"}
      /\ UNCHANGED <<backend, payload, service, events, jobs, faults>>
  BY DEF createDeployment
<1>2. /\ TypeOK /\ OwnInv /\ OrphanInv /\ req[r] \in Request /\ req \in [Requests -> Request]
      /\ dep \in [Ids -> Row] /\ \A q \in Requests : ServedInv(q) /\ CleanInv(q) /\ FreshInv(q)
  BY DEF IInv, TypeOK
<1>3. backend = "prisma" /\ req[r].pc \in Pending
  BY <1>1, PendingIsPrisma DEF Pending
<1>4. CASE service[s] = "gone"
  <2>1. Goto(r, "failed") /\ dep' = dep
    BY <1>4 DEF createDeployment
  <2>2. faults \in 0..MaxFaults /\ events \subseteq Deliveries
    BY <1>2 DEF TypeOK
  <2>3. QED
    BY <1>1, <1>3, <2>1, <2>2, LeaveStep
<1>5. CASE service[s] # "gone"
  <2>1. PICK i0 : i0 = <<r, s>>
    OBVIOUS
  <2>2. PICK row : row = NewRow(r, Of(r))
    OBVIOUS
  <2>3. /\ dep' = [dep EXCEPT ![i0] = row]
        /\ req' = [req EXCEPT ![r].pc = "enqueue", ![r].current = s]
    BY <1>5, <2>1, <2>2 DEF createDeployment
  <2>4. i0 \in Ids /\ i0[2] = s
    BY <2>1 DEF Ids
  <2>5. row \in Row /\ row.status = "QUEUED" /\ row.by = r
    <3>1. Of(r).pr \in Nat
      BY <1>2, KindFacts
    <3>2. QED
      BY <2>2, <3>1, NewRowFacts
  <2>6. PICK x : x = [req[r] EXCEPT !.pc = "enqueue", !.current = s]
    OBVIOUS
  <2>7. /\ x \in Request /\ x.pc = "enqueue" /\ x.current = s /\ x.delivery = req[r].delivery
        /\ x.before = req[r].before /\ x.matched = req[r].matched /\ x.todo = req[r].todo
    BY <1>2, <2>6 DEF Request, Pending
  <2>8. req' = [req EXCEPT ![r] = x]
    BY <1>2, <2>3, <2>6
  <2>9. req' \in [Requests -> Request] /\ Only(r) /\ req'[r] = x /\ Keeps(r)
    BY <1>2, <2>7, <2>8, RequestUpdate DEF Keeps
  <2>10. dep' \in [Ids -> Row] /\ dep'[i0] = row /\ \A i \in Ids \ {i0} : dep'[i] = dep[i]
    BY <1>2, <2>3, <2>4, <2>5
  <2>11. ~Seen(i0, r)
    BY <1>1, <1>2, <2>4 DEF FreshInv
  <2>12. i0 \notin Rows
    <3>1. SUFFICES ASSUME i0 \in Rows PROVE FALSE
      OBVIOUS
    <3>2. i0 = RowOf(dep[i0].by, i0[2])
      BY <1>2, <3>1 DEF OwnInv
    <3>3. i0 = <<dep[i0].by, s>>
      BY <1>3, <2>4, <3>2 DEF RowOf
    <3>4. dep[i0].by = r
      BY <2>1, <3>3
    <3>5. QED
      BY <2>11, <3>1, <3>4 DEF Seen
  <2>13. \A i \in Rows' : i \in Ids /\ (i = i0 \/ (i \in Rows /\ dep'[i] = dep[i]))
    BY <2>10 DEF Rows
  <2>14. \A i \in Rows : i \in Rows' /\ dep'[i] = dep[i] /\ dep[i].by \in Requests
    BY <1>2, <2>10, <2>12 DEF Rows, Row
  <2>15. TypeOK'
    BY <1>1, <1>2, <2>9, <2>10 DEF TypeOK
  <2>16. \A q \in Requests : req'[q].delivery = req[q].delivery /\ req'[q].before = req[q].before
    BY <2>9 DEF Only, Keeps
  <2>17. \A q \in Requests : Of(q)' = Of(q) /\ Kind(q)' = Kind(q) /\ \A t : RowOf(q, t)' = RowOf(q, t)
    BY <1>1, <2>16 DEF Of, Kind, RowOf
  <2>18. OwnInv'
    <3>1. \A q \in Requests : Claims(q)' => Claims(q)
      <4>1. Claims(r)
        BY <1>1 DEF Claims, Past, InLoop
      <4>2. \A q \in Requests \ {r} : Claims(q)' => Claims(q)
        BY <1>1, <2>5, <2>9, <2>10, <2>13 DEF Claims, Only
      <4>3. QED
        BY <4>1, <4>2
    <3>2. \A q \in Requests : Claims(q)' =>
            req'[q].delivery \in events' /\ req'[q].pc \in Past \cup {"failed"}
      BY <1>1, <1>2, <2>7, <2>9, <2>16, <3>1 DEF OwnInv, Only, Past, InLoop
    <3>3. \A p, q \in Requests :
            Claims(p)' /\ Claims(q)' /\ req'[p].delivery = req'[q].delivery => p = q
      BY <1>2, <2>16, <3>1 DEF OwnInv
    <3>4. \A j \in jobs : j.by \in Requests /\ j.type = Kind(j.by)
      BY <1>2 DEF OwnInv, TypeOK
    <3>5. \A j \in jobs' : j.type = Kind(j.by)'
      BY <1>1, <2>16, <3>4 DEF Kind, Of
    <3>6. \A i \in Rows' : i = RowOf(dep[i].by, i[2])'
      BY <1>1, <1>2, <1>3, <2>1, <2>5, <2>10, <2>13 DEF OwnInv, RowOf
    <3>7. QED
      BY <1>1, <1>3, <3>2, <3>3, <3>5, <3>6 DEF OwnInv
  <2>19. OrphanInv'
    <3> SUFFICES ASSUME NEW i \in Rows', dep'[i].status = "QUEUED", faults' = 0 PROVE Known(i)'
      BY DEF OrphanInv
    <3>1. CASE i = i0
      BY <2>4, <2>5, <2>7, <2>9, <2>10, <3>1 DEF Known
    <3>2. CASE i # i0
      <4>1. i \in Rows /\ dep'[i] = dep[i] /\ dep[i].by \in Requests /\ Known(i)
        BY <1>1, <1>2, <2>13, <2>14, <3>2 DEF OrphanInv
      <4>2. QED
        BY <1>1, <2>9, <4>1 DEF Known, Only
    <3>3. QED
      BY <3>1, <3>2
  <2>20. ASSUME NEW q \in Requests PROVE ServedInv(q)' /\ CleanInv(q)' /\ FreshInv(q)'
    <3>1. \A t \in Services : (HasJob(q, t) => HasJob(q, t)') /\ (HasRow(q, t) => HasRow(q, t)')
      BY <1>1, <2>14, <2>17 DEF HasJob, HasRow
    <3>2. req[q] \in Request /\ req[q].matched \subseteq Services /\ req[q].current \in Services
      BY <1>2 DEF Request
    <3>3. ServedInv(q)'
      <4>1. CASE q = r
        <5>1. RowOf(r, s)' \in Rows' /\ dep'[i0].by = r /\ RowOf(r, s)' = i0
          BY <1>3, <2>1, <2>4, <2>5, <2>10, <2>17 DEF RowOf, Rows
        <5>2. HasRow(r, s)'
          BY <5>1 DEF HasRow
        <5>3. ServedInv(r)
          BY <1>2
        <5>4. QED
          BY <1>1, <2>7, <2>9, <2>17, <3>1, <3>2, <4>1, <5>2, <5>3 DEF ServedInv, InLoop
      <4>2. CASE q # r
        <5>1. req'[q] = req[q] /\ ServedInv(q)
          BY <1>2, <2>9, <4>2 DEF Only
        <5>2. QED
          BY <2>17, <3>1, <3>2, <5>1 DEF ServedInv
      <4>3. QED
        BY <4>1, <4>2
    <3>4. CleanInv(q)'
      <4>1. <<i0, r>> \notin req[q].before
        BY <2>11 DEF Seen
      <4>2. \A i \in Rows' : Unmarked(q, i)' => i \in Rows /\ Unmarked(q, i)
        BY <2>5, <2>10, <2>13, <2>16, <2>17, <4>1 DEF Unmarked
      <4>3. CASE q = r
        BY <1>1, <2>17, <4>3 DEF CleanInv
      <4>4. CASE q # r
        <5>1. req'[q] = req[q] /\ CleanInv(q)
          BY <1>2, <2>9, <4>4 DEF Only
        <5>2. QED
          BY <2>17, <4>2, <5>1 DEF CleanInv
      <4>5. QED
        BY <4>3, <4>4
    <3>5. FreshInv(q)'
      <4>1. \A i \in Ids : Seen(i, q)' => Seen(i, q) \/ (i = i0 /\ q = r)
        BY <2>5, <2>10, <2>13, <2>16 DEF Seen
      <4>2. CASE q = r
        <5>1. FreshInv(r)
          BY <1>2
        <5>2. QED
          BY <1>1, <2>4, <2>7, <2>9, <4>1, <4>2, <5>1 DEF FreshInv
      <4>3. CASE q # r
        <5>1. req'[q] = req[q] /\ FreshInv(q)
          BY <1>2, <2>9, <4>3 DEF Only
        <5>2. QED
          BY <4>1, <4>3, <5>1 DEF FreshInv
      <4>4. QED
        BY <4>2, <4>3
    <3>6. QED
      BY <3>3, <3>4, <3>5
  <2>21. QED
    BY <2>15, <2>18, <2>19, <2>20 DEF IInv
<1>6. QED
  BY <1>4, <1>5

--------------------------------------------------------------------------------
(***************************************************************************)
(* Arrival, and the in-memory store                                        *)
(***************************************************************************)

\* Nobody has met a request that is new.
LEMMA NewFacts ==
    ASSUME IInv, NEW r \in Requests, req[r].pc = "new"
    PROVE  /\ ~Claims(r) /\ (\A i \in Ids : ~Seen(i, r)) /\ req[r].todo = {}
           /\ \A j \in jobs : j.by # r
           /\ \A i \in Rows : dep[i].by # r
<1>1. ~Claims(r)
  BY DEF IInv, OwnInv, Past, InLoop
<1>2. QED
  BY <1>1 DEF Claims, IInv, FreshInv, ServedInv

\* A request arrives and is looked up or sent away; what it has met are the
\* deployments of the moment.
LEMMA ArriveStep ==
    ASSUME IInv, NEW r \in Requests, req[r].pc = "new", NEW x \in Request,
           req' = [req EXCEPT ![r] = x], x.pc \in {"lookup", "rejected", "duplicate"},
           x.pc = "lookup" => backend = "prisma",
           x.before = req[r].before \/ x.before = {<<i, dep[i].by>> : i \in Rows},
           UNCHANGED <<backend, payload, service, events, dep, jobs, faults>>
    PROVE  IInv'
<1>1. TypeOK /\ OwnInv /\ OrphanInv
  BY DEF IInv
<1>2. /\ ~Claims(r) /\ (\A i \in Ids : ~Seen(i, r))
      /\ \A j \in jobs : j.by # r
      /\ \A i \in Rows : dep[i].by # r
  BY NewFacts
<1>3. req' \in [Requests -> Request] /\ Only(r) /\ req'[r] = x
  BY <1>1, RequestUpdate
<1>4. TypeOK'
  BY <1>1, <1>3 DEF TypeOK
<1>5. Fades
  BY NothingFades
<1>6. Rows' = Rows
  BY DEF Rows
<1>7. ~Claims(r)' /\ \A q \in Requests \ {r} : Claims(q)' => Claims(q) /\ req'[q] = req[q]
  BY <1>2, <1>3, <1>6 DEF Claims, Only, Past, InLoop
<1>8. OwnInv'
  <2>1. \A q \in Requests : Claims(q)' =>
          req'[q].delivery \in events' /\ req'[q].pc \in Past \cup {"failed"}
    BY <1>1, <1>7 DEF OwnInv
  <2>2. \A p, q \in Requests :
          Claims(p)' /\ Claims(q)' /\ req'[p].delivery = req'[q].delivery => p = q
    BY <1>1, <1>7 DEF OwnInv
  <2>3. \A j \in jobs : j.by \in Requests /\ j.type = Kind(j.by) /\ req'[j.by] = req[j.by]
    BY <1>1, <1>2, <1>3 DEF OwnInv, TypeOK, Only
  <2>4. \A j \in jobs' : j.type = Kind(j.by)'
    BY <2>3 DEF Kind, Of
  <2>5. \A i \in Rows : /\ dep[i].by \in Requests /\ i = RowOf(dep[i].by, i[2])
                        /\ req'[dep[i].by] = req[dep[i].by]
    BY <1>1, <1>2, <1>3 DEF OwnInv, TypeOK, Only, Rows, Row
  <2>6. \A i \in Rows' : i = RowOf(dep[i].by, i[2])'
    BY <1>6, <2>5 DEF RowOf, Of
  <2>7. backend' = "memory" => \A q \in Requests : req'[q].pc \notin Pending \cup {"failed"}
    BY <1>1, <1>3 DEF OwnInv, Only, Pending
  <2>8. QED
    BY <2>1, <2>2, <2>4, <2>6, <2>7 DEF OwnInv
<1>9. OrphanInv'
  <2>1. \A i \in Rows : dep[i].by \in Requests /\ req'[dep[i].by] = req[dep[i].by]
    BY <1>1, <1>2, <1>3 DEF TypeOK, Only, Rows, Row
  <2>2. QED
    BY <1>1, <1>6, <2>1 DEF OrphanInv, Known
<1>10. \A q \in Requests : \A i \in Ids : Seen(i, q)' => Seen(i, q)
  BY <1>3, <1>6 DEF Seen, Only
<1>11. ASSUME NEW q \in Requests PROVE ServedInv(q)' /\ CleanInv(q)' /\ FreshInv(q)'
  <2>1. CASE q = r
    <3>1. ServedInv(r)' /\ CleanInv(r)'
      BY <1>3 DEF ServedInv, CleanInv, InLoop
    <3>2. FreshInv(r)'
      BY <1>2, <1>10 DEF FreshInv
    <3>3. QED
      BY <2>1, <3>1, <3>2
  <2>2. CASE q # r
    <3>1. req'[q] = req[q]
      BY <1>3, <2>2 DEF Only
    <3>2. QED
      BY <1>5, <1>10, <3>1, OthersKept
  <2>3. QED
    BY <2>1, <2>2
<1>12. QED
  BY <1>4, <1>8, <1>9, <1>11 DEF IInv

\* The deployments of the moment, with who created them.
LEMMA MomentType == ASSUME TypeOK PROVE {<<i, dep[i].by>> : i \in Rows} \subseteq Ids \X Requests
<1>1. \A i \in Rows : i \in Ids /\ dep[i].by \in Requests
  BY DEF TypeOK, Rows, Row
<1>2. \A i \in Rows : <<i, dep[i].by>> \in Ids \X Requests
  BY <1>1
<1>3. QED
  BY <1>2

\* A request of the Prisma repository arrives.
LEMMA ReceiveStep ==
    ASSUME IInv, NEW r \in Requests, NEW d \in Deliveries, receive(r, d) PROVE IInv'
<1>1. /\ backend = "prisma" /\ req[r].pc = "new"
      /\ UNCHANGED <<backend, payload, service, events, dep, jobs, faults>>
  BY DEF receive, Arrives
<1>2. PICK B : B = {<<i, dep[i].by>> : i \in Rows}
  OBVIOUS
<1>3. PICK pc \in {"lookup", "rejected"} :
         req' = [req EXCEPT ![r].pc = pc, ![r].delivery = d, ![r].before = B]
  BY <1>2 DEF receive
<1>4. TypeOK /\ req \in [Requests -> Request] /\ req[r] \in Request
  BY DEF IInv, TypeOK
<1>5. B \subseteq Ids \X Requests
  BY <1>2, <1>4, MomentType
<1>6. PICK x : x = [req[r] EXCEPT !.pc = pc, !.delivery = d, !.before = B]
  OBVIOUS
<1>7. x \in Request /\ x.pc = pc /\ x.before = B
  BY <1>4, <1>5, <1>6 DEF Request, Pending, Answers
<1>8. req' = [req EXCEPT ![r] = x]
  BY <1>3, <1>4, <1>6
<1>9. QED
  BY <1>1, <1>2, <1>7, <1>8, ArriveStep

\* The accepting case of handleInMemory, with the names of its LET as parameters.
AcceptInMemory(r, d, p, kind, found, acting) ==
    /\ p = payload[d]
    /\ kind = githubWebhookActionPlan(p)
    /\ found = servicesForGitHubRepository(p)
    /\ acting = IF kind = "ignored" THEN {} ELSE found
    /\ backend = "memory" /\ req[r].pc = "new" /\ d \notin events /\ events' = events \cup {d}
    /\ dep' = [i \in Ids |->
          IF kind \in {"production-deploy", "preview-deploy"} /\ i \in {<<p.commit, s>> : s \in acting}
          THEN NewRow(r, p)
          ELSE IF kind = "preview-cleanup" /\ i \in UNION {PreviewsOf(s, p.pr) : s \in acting}
          THEN Marked(dep[i], r)
          ELSE dep[i]]
    /\ jobs' = jobs \cup {[type |-> kind, service |-> s, by |-> r] : s \in acting}
    /\ req' = [req EXCEPT ![r].pc = "accepted", ![r].delivery = d, ![r].matched = found,
                          ![r].before = {<<i, dep[i].by>> : i \in Rows}]
    /\ UNCHANGED <<backend, payload, service, faults>>

\* The in-memory store handles a delivery it has not seen, from beginning to end.
LEMMA AcceptInMemoryStep ==
    ASSUME IInv, NEW r \in Requests, NEW d \in Deliveries, NEW p, NEW kind, NEW found, NEW acting,
           AcceptInMemory(r, d, p, kind, found, acting)
    PROVE  IInv'
<1> USE DEF AcceptInMemory
<1> DEFINE Deploys == kind \in {"production-deploy", "preview-deploy"}
           Created(i) == Deploys /\ i[1] = p.commit /\ i[2] \in acting
           Closed(i) == /\ kind = "preview-cleanup" /\ i \in Rows /\ i[2] \in acting
                        /\ dep[i].preview /\ dep[i].pr = p.pr
<1>1. /\ TypeOK /\ OwnInv /\ OrphanInv /\ req \in [Requests -> Request] /\ req[r] \in Request
      /\ dep \in [Ids -> Row] /\ jobs \subseteq [type : Kinds, service : Services, by : Requests]
      /\ \A q \in Requests : ServedInv(q) /\ CleanInv(q) /\ FreshInv(q)
  BY DEF IInv, TypeOK
<1>2. p \in Payloads /\ p.commit \in Commits /\ p.pr \in Nat /\ kind \in Kinds
  BY <1>1, PayloadFacts DEF TypeOK
<1>3. found \subseteq Services /\ acting \subseteq Services
  BY DEF servicesForGitHubRepository
<1>4. /\ ~Claims(r) /\ (\A i \in Ids : ~Seen(i, r)) /\ req[r].todo = {}
      /\ \A j \in jobs : j.by # r
      /\ \A i \in Rows : dep[i].by # r
  BY NewFacts
<1>5. PICK B : B = {<<i, dep[i].by>> : i \in Rows}
  OBVIOUS
<1>6. B \subseteq Ids \X Requests
  BY <1>1, <1>5, MomentType
<1>7. PICK x : x = [req[r] EXCEPT !.pc = "accepted", !.delivery = d, !.matched = found, !.before = B]
  OBVIOUS
<1>8. /\ x \in Request /\ x.pc = "accepted" /\ x.delivery = d /\ x.matched = found
      /\ x.before = B /\ x.todo = {}
  BY <1>1, <1>3, <1>4, <1>6, <1>7 DEF Request, Answers
<1>9. req' = [req EXCEPT ![r] = x]
  BY <1>1, <1>5, <1>7
<1>10. req' \in [Requests -> Request] /\ Only(r) /\ req'[r] = x
  BY <1>1, <1>8, <1>9, RequestUpdate
<1>11. PICK new : new = NewRow(r, p)
  OBVIOUS
<1>12. new \in Row /\ new.status = "QUEUED" /\ new.by = r
  BY <1>2, <1>11, NewRowFacts
<1>13. \A i \in Ids : i = <<i[1], i[2]>>
  BY DEF Ids
<1>14. ASSUME NEW i \in Ids
       PROVE  /\ i \in {<<p.commit, s>> : s \in acting} <=> i[1] = p.commit /\ i[2] \in acting
              /\ i \in UNION {PreviewsOf(s, p.pr) : s \in acting} <=>
                    i \in Rows /\ i[2] \in acting /\ dep[i].preview /\ dep[i].pr = p.pr
  <2>1. i \in {<<p.commit, s>> : s \in acting} <=> i[1] = p.commit /\ i[2] \in acting
    BY <1>13
  <2>2. i \in UNION {PreviewsOf(s, p.pr) : s \in acting} <=>
           \E s \in acting : i \in PreviewsOf(s, p.pr)
    OBVIOUS
  <2>3. QED
    BY <2>1, <2>2 DEF PreviewsOf
<1>15. ASSUME NEW i \in Ids
       PROVE  /\ dep'[i] \in Row
              /\ Created(i) => dep'[i] = new
              /\ ~Created(i) =>
                    /\ dep'[i].by = dep[i].by /\ dep'[i].preview = dep[i].preview
                    /\ dep'[i].pr = dep[i].pr
                    /\ Closed(i) => /\ dep'[i].status = "PREVIEW_CLEANUP_REQUESTED"
                                    /\ r \in dep'[i].marked
                                    /\ dep[i].marked \subseteq dep'[i].marked
                    /\ ~Closed(i) => dep'[i] = dep[i]
  <2>1. CASE Created(i)
    BY <1>11, <1>12, <1>14, <2>1
  <2>2. CASE ~Created(i) /\ Closed(i)
    <3>1. PICK row : row = Marked(dep[i], r)
      OBVIOUS
    <3>2. dep'[i] = row
      BY <1>14, <2>2, <3>1
    <3>3. dep[i] \in Row
      BY <1>1
    <3>4. /\ row \in Row /\ row.status = "PREVIEW_CLEANUP_REQUESTED" /\ row.by = dep[i].by
          /\ row.preview = dep[i].preview /\ row.pr = dep[i].pr
          /\ r \in row.marked /\ dep[i].marked \subseteq row.marked
      BY <3>1, <3>3, MarkedFacts
    <3>5. QED
      BY <2>2, <3>2, <3>4
  <2>3. CASE ~Created(i) /\ ~Closed(i)
    <3>1. dep'[i] = dep[i]
      BY <1>14, <2>3
    <3>2. QED
      BY <1>1, <2>3, <3>1
  <2>4. QED
    BY <2>1, <2>2, <2>3
<1> HIDE DEF Created, Closed
<1>16. \A i \in Rows' : i \in Ids /\ (Created(i) \/ i \in Rows)
  <2> SUFFICES ASSUME NEW i \in Rows' PROVE i \in Ids /\ (Created(i) \/ i \in Rows)
    OBVIOUS
  <2>1. i \in Ids /\ dep'[i].status # "none"
    BY DEF Rows
  <2>2. CASE Closed(i)
    BY <2>1, <2>2 DEF Closed
  <2>3. CASE ~Created(i) /\ ~Closed(i)
    BY <1>15, <2>1, <2>3 DEF Rows
  <2>4. QED
    BY <2>1, <2>2, <2>3
<1>17. \A i \in Rows : i \in Rows' /\ i \in Ids /\ dep[i].by \in Requests
  <2> SUFFICES ASSUME NEW i \in Rows PROVE i \in Rows' /\ i \in Ids /\ dep[i].by \in Requests
    OBVIOUS
  <2>1. i \in Ids /\ dep[i] \in Row /\ dep[i].status # "none"
    BY <1>1 DEF Rows
  <2>2. dep'[i].status # "none"
    <3>1. CASE Created(i)
      BY <1>12, <1>15, <2>1, <3>1
    <3>2. CASE ~Created(i) /\ Closed(i)
      BY <1>15, <2>1, <3>2
    <3>3. CASE ~Created(i) /\ ~Closed(i)
      BY <1>15, <2>1, <3>3
    <3>4. QED
      BY <3>1, <3>2, <3>3
  <2>3. QED
    BY <2>1, <2>2 DEF Rows, Row
<1>18. TypeOK'
  <2>1. dep' \in [Ids -> Row]
    BY <1>15
  <2>2. jobs' \subseteq [type : Kinds, service : Services, by : Requests]
    BY <1>1, <1>2, <1>3
  <2>3. QED
    BY <1>1, <1>10, <2>1, <2>2 DEF TypeOK
<1>19. \A q \in Requests \ {r} : req'[q] = req[q]
  BY <1>10 DEF Only
<1>20. \A q \in Requests \ {r} : Of(q)' = Of(q) /\ Kind(q)' = Kind(q)
                               /\ \A t : RowOf(q, t)' = RowOf(q, t)
  <2> SUFFICES ASSUME NEW q \in Requests \ {r}
               PROVE  Of(q)' = Of(q) /\ Kind(q)' = Kind(q) /\ \A t : RowOf(q, t)' = RowOf(q, t)
    OBVIOUS
  <2>1. Of(q)' = Of(q)
    BY <1>19 DEF Of
  <2>2. Kind(q)' = Kind(q)
    BY <2>1 DEF Kind
  <2>3. \A t : RowOf(q, t)' = RowOf(q, t)
    BY <2>1 DEF RowOf
  <2>4. QED
    BY <2>1, <2>2, <2>3
<1>21. Of(r)' = p /\ Kind(r)' = kind /\ \A t : RowOf(r, t)' = <<p.commit, t>>
  <2>1. Of(r)' = p
    BY <1>8, <1>10 DEF Of
  <2>2. Kind(r)' = kind
    BY <2>1 DEF Kind
  <2>3. \A t : RowOf(r, t)' = <<p.commit, t>>
    BY <2>1 DEF RowOf
  <2>4. QED
    BY <2>1, <2>2, <2>3
<1>22. \A i \in Rows' : \/ Created(i) /\ dep'[i] = new
                        \/ i \in Rows /\ ~Created(i) /\ dep'[i].by = dep[i].by /\ dep[i].by # r
  BY <1>4, <1>15, <1>16
<1>23. OwnInv'
  <2>1. \A q \in Requests \ {r} : Claims(q)' => Claims(q)
    <3> SUFFICES ASSUME NEW q \in Requests \ {r}, Claims(q)' PROVE Claims(q)
      OBVIOUS
    <3>1. CASE req'[q].pc \in Past
      BY <1>19, <3>1 DEF Claims
    <3>2. CASE \E j \in jobs' : j.by = q
      BY <3>2 DEF Claims
    <3>3. CASE \E i \in Rows' : dep'[i].by = q
      BY <1>12, <1>22, <3>3 DEF Claims
    <3>4. QED
      BY <3>1, <3>2, <3>3 DEF Claims
  <2>2. \A q \in Requests : Claims(q) => req[q].delivery # d
    BY <1>1 DEF OwnInv
  <2>3. \A q \in Requests : Claims(q)' =>
          req'[q].delivery \in events' /\ req'[q].pc \in Past \cup {"failed"}
    <3>0. d \in events' /\ events \subseteq events'
      OBVIOUS
    <3>1. req'[r].delivery \in events' /\ req'[r].pc \in Past
      <4>1. req'[r].delivery = d /\ req'[r].pc = "accepted"
        BY <1>8, <1>10
      <4>2. "accepted" \in Past
        BY DEF Past, InLoop
      <4>3. QED
        BY <3>0, <4>1, <4>2
    <3>2. ASSUME NEW q \in Requests \ {r}, Claims(q)
          PROVE  req'[q].delivery \in events' /\ req'[q].pc \in Past \cup {"failed"}
      <4>1. req[q].delivery \in events /\ req[q].pc \in Past \cup {"failed"}
        BY <1>1, <3>2 DEF OwnInv
      <4>2. req'[q] = req[q]
        BY <1>19
      <4>3. QED
        BY <3>0, <4>1, <4>2
    <3>3. QED
      BY <2>1, <3>1, <3>2
  <2>4. \A q, s \in Requests :
          Claims(q)' /\ Claims(s)' /\ req'[q].delivery = req'[s].delivery => q = s
    <3>1. \A q, s \in Requests : Claims(q) /\ Claims(s) /\ req[q].delivery = req[s].delivery => q = s
      BY <1>1 DEF OwnInv
    <3>2. req'[r].delivery = d /\ \A q \in Requests \ {r} : req'[q].delivery = req[q].delivery
      BY <1>8, <1>10, <1>19
    <3>3. QED
      <4> SUFFICES ASSUME NEW q \in Requests, NEW s \in Requests, Claims(q)', Claims(s)',
                          req'[q].delivery = req'[s].delivery
                   PROVE  q = s
        OBVIOUS
      <4>1. CASE q # r /\ s # r
        <5>1. Claims(q) /\ Claims(s)
          BY <2>1, <4>1
        <5>2. req[q].delivery = req[s].delivery
          BY <3>2, <4>1
        <5>3. QED
          BY <3>1, <5>1, <5>2
      <4>2. CASE q = r /\ s # r
        <5>1. Claims(s) /\ req[s].delivery = d
          BY <2>1, <3>2, <4>2
        <5>2. QED
          BY <2>2, <5>1
      <4>3. CASE q # r /\ s = r
        <5>1. Claims(q) /\ req[q].delivery = d
          BY <2>1, <3>2, <4>3
        <5>2. QED
          BY <2>2, <5>1
      <4>4. QED
        BY <4>1, <4>2, <4>3
  <2>5. ASSUME NEW j \in jobs' PROVE j.type = Kind(j.by)'
    <3>1. CASE j \in jobs
      <4>1. PICK q \in Requests \ {r} : q = j.by
        BY <1>1, <1>4, <3>1
      <4>2. j.type = Kind(q)
        BY <1>1, <3>1, <4>1 DEF OwnInv
      <4>3. j.type = Kind(q)'
        BY <1>20, <4>2
      <4>4. QED
        BY <4>1, <4>3
    <3>2. CASE j \notin jobs
      <4>1. j.type = kind /\ j.by = r
        BY <3>2
      <4>2. QED
        BY <1>21, <4>1
    <3>3. QED
      BY <3>1, <3>2
  <2>6. ASSUME NEW i \in Rows' PROVE i = RowOf(dep[i].by, i[2])'
    <3>1. PICK b : b = dep'[i].by
      OBVIOUS
    <3>2. i = RowOf(b, i[2])'
      <4>1. CASE Created(i) /\ dep'[i] = new
        <5>1. b = r
          BY <1>12, <3>1, <4>1
        <5>2. i \in Ids /\ i[1] = p.commit
          BY <1>16, <4>1 DEF Created
        <5>3. i = <<p.commit, i[2]>>
          BY <1>13, <5>2
        <5>4. RowOf(r, i[2])' = i
          BY <1>21, <5>3
        <5>5. QED
          BY <5>1, <5>4
      <4>2. CASE i \in Rows /\ dep'[i].by = dep[i].by /\ dep[i].by # r
        <5>1. b \in Requests \ {r} /\ b = dep[i].by
          BY <1>17, <3>1, <4>2
        <5>2. i = RowOf(dep[i].by, i[2])
          BY <1>1, <4>2 DEF OwnInv
        <5>3. i = RowOf(b, i[2])
          BY <5>1, <5>2
        <5>4. QED
          BY <1>20, <5>1, <5>3
      <4>3. QED
        BY <1>22, <4>1, <4>2
    <3>3. QED
      BY <3>1, <3>2
  <2>7. \A q \in Requests : req'[q].pc \notin Pending \cup {"failed"}
    BY <1>1, <1>8, <1>10, <1>19 DEF OwnInv, Pending
  <2>8. QED
    BY <2>3, <2>4, <2>5, <2>6, <2>7 DEF OwnInv
<1>24. OrphanInv'
  <2> SUFFICES ASSUME NEW i \in Rows', dep'[i].status = "QUEUED", faults' = 0 PROVE Known(i)'
    BY DEF OrphanInv
  <2>1. CASE Created(i) /\ dep'[i] = new
    <3>1. PICK j : j = [type |-> kind, service |-> i[2], by |-> r]
      OBVIOUS
    <3>2. j \in jobs' /\ j.by = r /\ j.service = i[2]
      BY <2>1, <3>1 DEF Created
    <3>3. QED
      BY <1>12, <2>1, <3>2 DEF Known
  <2>2. CASE i \in Rows /\ ~Created(i) /\ dep'[i].by = dep[i].by /\ dep[i].by # r
    <3>1. dep[i].status = "QUEUED" /\ dep[i].by \in Requests /\ i \in Ids
      BY <1>15, <1>17, <2>2
    <3>2. Known(i)
      BY <1>1, <2>2, <3>1 DEF OrphanInv
    <3>3. QED
      BY <1>19, <2>2, <3>1, <3>2 DEF Known
  <2>3. QED
    BY <1>22, <2>1, <2>2
<1>25. ASSUME NEW q \in Requests, q # r PROVE ServedInv(q)' /\ CleanInv(q)' /\ FreshInv(q)'
  <2>1. req'[q] = req[q] /\ req[q] \in Request /\ Kind(q)' = Kind(q) /\ Of(q)' = Of(q)
        /\ ServedInv(q) /\ CleanInv(q) /\ FreshInv(q)
    BY <1>1, <1>19, <1>20, <1>25
  <2>2. req[q].matched \subseteq Services /\ req[q].current \in Services
    BY <2>1 DEF Request
  <2>3. ASSUME NEW s \in Services
        PROVE  (HasJob(q, s) => HasJob(q, s)') /\ (HasRow(q, s) => HasRow(q, s)')
    <3>1. RowOf(q, s)' = RowOf(q, s)
      BY <1>20, <1>25
    <3>2. QED
      BY <1>17, <2>1, <3>1 DEF HasJob, HasRow
  <2>4. ServedInv(q)'
    BY <2>1, <2>2, <2>3 DEF ServedInv
  <2>5. CleanInv(q)'
    <3>1. ASSUME NEW i \in Rows', Unmarked(q, i)' PROVE i \in Rows /\ Unmarked(q, i)
      <4>1. i \in Ids /\ <<i, r>> \notin req[q].before
        BY <1>4, <1>16 DEF Seen
      <4>2. ~Created(i)
        BY <1>12, <1>15, <2>1, <3>1, <4>1 DEF Unmarked
      <4>3. q \notin dep[i].marked
        BY <1>15, <3>1, <4>1, <4>2 DEF Unmarked
      <4>4. QED
        BY <1>15, <1>16, <2>1, <3>1, <4>1, <4>2, <4>3 DEF Unmarked
    <3>2. QED
      BY <2>1, <3>1 DEF CleanInv
  <2>6. FreshInv(q)'
    <3>1. ASSUME NEW i \in Ids, Seen(i, q)' PROVE Seen(i, q)
      <4>1. CASE i \in Rows' /\ dep'[i].by = q
        BY <1>12, <1>22, <1>25, <4>1 DEF Seen
      <4>2. CASE \E s \in Requests : <<i, q>> \in req'[s].before
        <5>1. PICK s \in Requests : <<i, q>> \in req'[s].before
          BY <4>2
        <5>2. CASE s = r
          <6>1. <<i, q>> \in {<<k, dep[k].by>> : k \in Rows}
            BY <1>5, <1>8, <1>10, <5>1, <5>2
          <6>2. i \in Rows /\ dep[i].by = q
            BY <6>1
          <6>3. QED
            BY <6>2 DEF Seen
        <5>3. CASE s # r
          BY <1>19, <5>1, <5>3 DEF Seen
        <5>4. QED
          BY <5>2, <5>3
      <4>3. QED
        BY <3>1, <4>1, <4>2 DEF Seen
    <3>2. QED
      BY <2>1, <3>1 DEF FreshInv
  <2>7. QED
    BY <2>4, <2>5, <2>6
<1>26. ServedInv(r)' /\ CleanInv(r)' /\ FreshInv(r)'
  <2>1. ServedInv(r)'
    <3>1. kind # "ignored" => acting = found
      OBVIOUS
    <3>2. ASSUME NEW s \in acting PROVE HasJob(r, s)'
      BY <1>21, <3>2 DEF HasJob
    <3>3. ASSUME NEW s \in acting, Deploys PROVE HasRow(r, s)'
      <4>1. PICK i : i = <<p.commit, s>>
        OBVIOUS
      <4>2. i \in Ids /\ i[1] = p.commit /\ i[2] = s
        BY <1>2, <1>3, <3>3, <4>1 DEF Ids
      <4>3. Created(i)
        BY <3>3, <4>2 DEF Created
      <4>4. i \in Rows'
        BY <1>12, <1>15, <4>2, <4>3 DEF Rows
      <4>5. RowOf(r, s)' = i
        BY <1>21, <4>1
      <4>6. QED
        BY <4>4, <4>5 DEF HasRow
    <3>4. kind \notin {"ignored", "preview-cleanup"} => Deploys
      BY <1>2 DEF Kinds
    <3>5. QED
      BY <1>8, <1>10, <1>21, <3>1, <3>2, <3>3, <3>4 DEF ServedInv
  <2>2. CleanInv(r)'
    <3> SUFFICES ASSUME kind = "preview-cleanup", NEW i \in Rows', Unmarked(r, i)', i[2] \in found
                 PROVE  FALSE
      BY <1>8, <1>10, <1>21 DEF CleanInv
    <3>1. ~Created(i)
      BY DEF Created
    <3>2. i \in Ids /\ i \in Rows
      BY <1>16, <3>1
    <3>3. Closed(i)
      BY <1>15, <1>21, <3>1, <3>2 DEF Unmarked, Closed
    <3>4. QED
      BY <1>15, <3>1, <3>2, <3>3 DEF Unmarked
  <2>3. FreshInv(r)'
    BY <1>8, <1>10 DEF FreshInv
  <2>4. QED
    BY <2>1, <2>2, <2>3
<1>27. QED
  BY <1>18, <1>23, <1>24, <1>25, <1>26 DEF IInv

\* handleGitHubWebhook of the in-memory store.
LEMMA HandleInMemoryStep ==
    ASSUME IInv, NEW r \in Requests, NEW d \in Deliveries, handleInMemory(r, d) PROVE IInv'
<1>1. /\ backend = "memory" /\ req[r].pc = "new"
      /\ UNCHANGED <<backend, payload, service, faults>>
  BY DEF handleInMemory, Arrives
<1>2. TypeOK /\ req \in [Requests -> Request] /\ req[r] \in Request
  BY DEF IInv, TypeOK
<1>3. CASE Goto(r, "rejected") /\ UNCHANGED <<events, dep, jobs>>
  <2>1. PICK x : x = [req[r] EXCEPT !.pc = "rejected"]
    OBVIOUS
  <2>2. x \in Request /\ x.pc = "rejected" /\ x.before = req[r].before
    BY <1>2, <2>1 DEF Request, Answers
  <2>3. req' = [req EXCEPT ![r] = x]
    BY <1>2, <1>3, <2>1 DEF Goto
  <2>4. QED
    BY <1>1, <1>3, <2>2, <2>3, ArriveStep
<1>4. CASE /\ req' = [req EXCEPT ![r].pc = "duplicate", ![r].delivery = d]
           /\ UNCHANGED <<events, dep, jobs>>
  <2>1. PICK x : x = [req[r] EXCEPT !.pc = "duplicate", !.delivery = d]
    OBVIOUS
  <2>2. x \in Request /\ x.pc = "duplicate" /\ x.before = req[r].before
    BY <1>2, <2>1 DEF Request, Answers
  <2>3. req' = [req EXCEPT ![r] = x]
    BY <1>2, <1>4, <2>1
  <2>4. QED
    BY <1>1, <1>4, <2>2, <2>3, ArriveStep
<1>5. CASE ~(Goto(r, "rejected") /\ UNCHANGED <<events, dep, jobs>>)
           /\ ~(/\ req' = [req EXCEPT ![r].pc = "duplicate", ![r].delivery = d]
                /\ UNCHANGED <<events, dep, jobs>>)
  <2> DEFINE p == payload[d]
             kind == githubWebhookActionPlan(p)
             found == servicesForGitHubRepository(p)
             acting == IF kind = "ignored" THEN {} ELSE found
  <2>1. AcceptInMemory(r, d, p, kind, found, acting)
    BY <1>1, <1>5, Zenon DEF handleInMemory, AcceptInMemory
  <2> HIDE DEF p, kind, found, acting
  <2>2. QED
    BY <2>1, AcceptInMemoryStep
<1>6. QED
  BY <1>3, <1>4, <1>5

--------------------------------------------------------------------------------
(***************************************************************************)
(* What happens meanwhile, and the theorems                                *)
(***************************************************************************)

\* Others write a row that keeps its marks and does not get queued again.
LEMMA WriteStep ==
    ASSUME IInv, NEW i \in Ids, NEW row \in Row, Writes(i, row), row.by = dep[i].by,
           row.preview = dep[i].preview, row.pr = dep[i].pr, row.marked = dep[i].marked,
           row.status \in {dep[i].status, "ACTIVE", "ENDED"}
    PROVE  IInv'
<1>1. TypeOK /\ dep \in [Ids -> Row]
  BY DEF IInv, TypeOK
<1>2. /\ i \in Rows /\ dep' = [dep EXCEPT ![i] = row]
      /\ UNCHANGED <<backend, payload, service, events, jobs, req, faults>>
  BY DEF Writes
<1>3. dep' \in [Ids -> Row] /\ dep'[i] = row /\ \A k \in Ids \ {i} : dep'[k] = dep[k]
  BY <1>1, <1>2
<1>4. TypeOK'
  BY <1>1, <1>2, <1>3 DEF TypeOK
<1>5. Fades
  BY <1>2, <1>3 DEF Fades, Rows
<1>6. QED
  BY <1>2, <1>4, <1>5, OutsideStep

\* What others do to one deployment.
Written(i) == \/ rollout(i) \/ settle(i) \/ transitionDeployment(i)
              \/ cancelDeployment(i) \/ cleanupPreview(i)

\* The row that one of the others writes.
LEMMA WrittenFacts ==
    ASSUME TypeOK, NEW i \in Ids, Written(i)
    PROVE  \E row \in Row :
              /\ Writes(i, row) /\ row.by = dep[i].by /\ row.preview = dep[i].preview
              /\ row.pr = dep[i].pr /\ row.marked = dep[i].marked
              /\ row.status \in {dep[i].status, "ACTIVE", "ENDED"}
              /\ Sound(dep[i]) => Sound(row)
<1>1. dep[i] \in Row
  BY DEF TypeOK
<1>2. CASE rollout(i)
  <2>1. PICK row : row = [dep[i] EXCEPT !.status = "ACTIVE"]
    OBVIOUS
  <2>2. Writes(i, row) /\ dep[i].busy
    BY <1>2, <2>1 DEF rollout
  <2>3. /\ row \in Row /\ row.by = dep[i].by /\ row.preview = dep[i].preview
        /\ row.pr = dep[i].pr /\ row.marked = dep[i].marked
        /\ row.status = "ACTIVE" /\ row.busy = dep[i].busy /\ row.stirred = dep[i].stirred
    BY <1>1, <2>1 DEF Row
  <2>4. Sound(dep[i]) => Sound(row)
    BY <2>2, <2>3, Zenon DEF Sound
  <2>5. QED
    BY <2>2, <2>3, <2>4
<1>3. CASE settle(i)
  <2>1. PICK row : row = [dep[i] EXCEPT !.busy = FALSE]
    OBVIOUS
  <2>2. Writes(i, row)
    BY <1>3, <2>1 DEF settle
  <2>3. /\ row \in Row /\ row.by = dep[i].by /\ row.preview = dep[i].preview
        /\ row.pr = dep[i].pr /\ row.marked = dep[i].marked
        /\ row.status = dep[i].status /\ row.busy = FALSE /\ row.stirred = dep[i].stirred
    BY <1>1, <2>1 DEF Row
  <2>4. Sound(dep[i]) => Sound(row)
    BY <2>2, <2>3, Zenon DEF Sound
  <2>5. QED
    BY <2>2, <2>3, <2>4
<1>4. CASE transitionDeployment(i)
  <2>1. PICK row : row = [dep[i] EXCEPT !.busy = TRUE, !.stirred = TRUE]
    OBVIOUS
  <2>2. Writes(i, row)
    BY <1>4, <2>1 DEF transitionDeployment
  <2>3. /\ row \in Row /\ row.by = dep[i].by /\ row.preview = dep[i].preview
        /\ row.pr = dep[i].pr /\ row.marked = dep[i].marked
        /\ row.status = dep[i].status /\ row.busy = TRUE /\ row.stirred = TRUE
    BY <1>1, <2>1 DEF Row
  <2>4. Sound(dep[i]) => Sound(row)
    BY <2>2, <2>3, Zenon DEF Sound
  <2>5. QED
    BY <2>2, <2>3, <2>4
<1>5. CASE cancelDeployment(i)
  <2>1. PICK row : row = [dep[i] EXCEPT !.status = "ENDED", !.busy = TRUE, !.stirred = TRUE]
    OBVIOUS
  <2>2. Writes(i, row)
    BY <1>5, <2>1 DEF cancelDeployment
  <2>3. /\ row \in Row /\ row.by = dep[i].by /\ row.preview = dep[i].preview
        /\ row.pr = dep[i].pr /\ row.marked = dep[i].marked
        /\ row.status = "ENDED" /\ row.busy = TRUE /\ row.stirred = TRUE
    BY <1>1, <2>1 DEF Row
  <2>4. Sound(dep[i]) => Sound(row)
    BY <2>2, <2>3, Zenon DEF Sound
  <2>5. QED
    BY <2>2, <2>3, <2>4
<1>6. CASE cleanupPreview(i)
  <2>1. PICK row : row = [dep[i] EXCEPT !.status = "ENDED"]
    OBVIOUS
  <2>2. Writes(i, row)
    BY <1>6, <2>1 DEF cleanupPreview
  <2>3. QED
    BY <1>1, <2>1, <2>2 DEF Row, Sound
<1>7. QED
  BY <1>2, <1>3, <1>4, <1>5, <1>6 DEF Written

\* Services are attached, imported and deleted; others write deployments.
LEMMA MeanwhileStep ==
    ASSUME IInv,
           \/ \E s \in Services : \/ attachGitHubRepositoryToService(s) \/ importGitHubRepository(s)
                                  \/ deleteService(s)
           \/ \E i \in Ids : Written(i)
    PROVE  IInv'
<1>1. /\ TypeOK /\ dep \in [Ids -> Row]
      /\ service \in [Services -> {"unborn", "", "ours", "gone"}]
  BY DEF IInv, TypeOK
<1>2. ASSUME NEW s \in Services, attachGitHubRepositoryToService(s) \/ importGitHubRepository(s)
      PROVE  IInv'
  <2>1. /\ service[s] # "gone" /\ service' = [service EXCEPT ![s] = "ours"]
        /\ UNCHANGED <<backend, payload, events, dep, jobs, req, faults>>
    BY <1>2 DEF attachGitHubRepositoryToService, importGitHubRepository
  <2>2. TypeOK'
    BY <1>1, <2>1 DEF TypeOK
  <2>3. Fades
    BY <1>1, <2>1 DEF Fades
  <2>4. QED
    BY <2>1, <2>2, <2>3, OutsideStep
<1>3. ASSUME NEW s \in Services, deleteService(s) PROVE IInv'
  <2>1. /\ service' = [service EXCEPT ![s] = "gone"]
        /\ dep' = [i \in Ids |-> IF i[2] = s THEN NoRow ELSE dep[i]]
        /\ UNCHANGED <<backend, payload, events, jobs, req, faults>>
    BY <1>3 DEF deleteService
  <2>2. ASSUME NEW i \in Ids
        PROVE  /\ dep'[i] \in Row
               /\ i[2] = s => dep'[i].status = "none"
               /\ i[2] # s => dep'[i] = dep[i]
    <3>1. dep[i] \in Row
      BY <1>1
    <3>2. QED
      BY <2>1, <3>1, NoRowFacts
  <2>3. TypeOK'
    <3>1. dep' \in [Ids -> Row]
      BY <2>1, <2>2
    <3>2. service' \in [Services -> {"unborn", "", "ours", "gone"}]
      BY <1>1, <2>1
    <3>3. QED
      BY <1>1, <2>1, <3>1, <3>2 DEF TypeOK
  <2>4. Fades
    <3>1. \A t \in Services : service[t] = "gone" => service'[t] = "gone"
      BY <1>1, <2>1
    <3>2. service'[s] = "gone"
      BY <1>1, <2>1
    <3>3. QED
      BY <2>1, <2>2, <3>1, <3>2 DEF Fades
  <2>5. QED
    BY <2>1, <2>3, <2>4, OutsideStep
<1>4. ASSUME NEW i \in Ids, Written(i) PROVE IInv'
  BY <1>1, <1>4, WrittenFacts, WriteStep
<1>5. QED
  BY <1>2, <1>3, <1>4

\* A stuttering step.
LEMMA StutterStep == ASSUME IInv, UNCHANGED vars PROVE IInv'
<1>1. UNCHANGED <<backend, payload, service, events, dep, jobs, req, faults>>
  BY DEF vars
<1>2. TypeOK'
  BY <1>1 DEF IInv, TypeOK
<1>3. Fades
  BY <1>1, NothingFades
<1>4. QED
  BY <1>1, <1>2, <1>3, OutsideStep

\* Every step preserves the inductive invariant.
LEMMA NextIInv == ASSUME IInv, [Next]_vars PROVE IInv'
<1>1. ASSUME NEW r \in Requests, NEW d \in Deliveries, receive(r, d) \/ handleInMemory(r, d)
      PROVE  IInv'
  BY <1>1, ReceiveStep, HandleInMemoryStep
<1>2. ASSUME NEW r \in Requests, HandlerStep(r) \/ findDeliveryFails(r) \/ fail(r) PROVE IInv'
  BY <1>2, LookupStep, CreateEventStep, FindServicesStep, CreateDeploymentStep,
     EnqueueCleanupStep, EnqueueDeployStep, FindPreviewsStep, RequestCleanupStep, AnswerStep
     DEF HandlerStep
<1>3. QED
  BY <1>1, <1>2, MeanwhileStep, StutterStep DEF Next, Written

\* The inductive invariant holds throughout.
THEOREM Invariance == Spec => []IInv
BY InitIInv, NextIInv, PTL DEF Spec

\* However often GitHub repeats a delivery and however the repetitions overlap,
\* fail and retry, it gives a service at most one job and one deployment: a
\* request that left anything behind is the only one of its delivery.
THEOREM DeliveriesCountOnce == Spec => []OncePerDelivery
<1>1. IInv => OncePerDelivery
  <2> SUFFICES ASSUME IInv PROVE OncePerDelivery
    OBVIOUS
  <2>1. TypeOK /\ OwnInv
    BY DEF IInv
  <2>2. ASSUME NEW j \in jobs, NEW k \in jobs, j.service = k.service,
               req[j.by].delivery = req[k.by].delivery
        PROVE  j = k
    <3>1. /\ j \in [type : Kinds, service : Services, by : Requests]
          /\ k \in [type : Kinds, service : Services, by : Requests]
      BY <2>1 DEF TypeOK
    <3>2. Claims(j.by) /\ Claims(k.by)
      BY DEF Claims
    <3>3. j.by = k.by
      BY <2>1, <2>2, <3>1, <3>2 DEF OwnInv
    <3>4. j.type = k.type
      BY <2>1, <3>3 DEF OwnInv
    <3>5. QED
      BY <2>2, <3>1, <3>3, <3>4
  <2>3. ASSUME NEW i \in Rows, NEW j \in Rows, i[2] = j[2],
               req[dep[i].by].delivery = req[dep[j].by].delivery
        PROVE  i = j
    <3>1. dep[i].by \in Requests /\ dep[j].by \in Requests
      BY <2>1 DEF TypeOK, Rows, Row
    <3>2. Claims(dep[i].by) /\ Claims(dep[j].by)
      BY DEF Claims
    <3>3. dep[i].by = dep[j].by
      BY <2>1, <2>3, <3>1, <3>2 DEF OwnInv
    <3>4. QED
      BY <2>1, <2>3, <3>3 DEF OwnInv
  <2>4. QED
    BY <2>2, <2>3 DEF OncePerDelivery
<1>2. QED
  BY <1>1, Invariance, PTL

\* Without faults no deployment waits for a build that nobody was asked for.
THEOREM NobodyIsOrphaned == Spec => []NoOrphanDeployment
<1>1. IInv => NoOrphanDeployment
  BY DEF IInv, OrphanInv, Known, NoOrphanDeployment
<1>2. QED
  BY <1>1, Invariance, PTL

\* What was accepted was done for every service that was found.
THEOREM AcceptedMeansDone == Spec => []AcceptedIsComplete
<1>1. IInv => AcceptedIsComplete
  <2> SUFFICES ASSUME IInv, NEW r \in Requests, req[r].pc = "accepted", Kind(r) # "ignored",
                      NEW s \in req[r].matched
               PROVE  /\ [type |-> Kind(r), service |-> s, by |-> r] \in jobs
                      /\ \/ Kind(r) = "preview-cleanup" \/ service[s] = "gone"
                         \/ \E i \in Rows : i[2] = s /\ (dep[i].by = r \/ backend = "memory")
    BY DEF AcceptedIsComplete
  <2>1. HasJob(r, s) /\ (Kind(r) = "preview-cleanup" \/ HasRow(r, s))
    BY DEF IInv, ServedInv, InLoop
  <2>2. RowOf(r, s)[2] = s
    BY DEF RowOf
  <2>3. QED
    BY <2>1, <2>2 DEF HasJob, HasRow
<1>2. QED
  BY <1>1, Invariance, PTL

\* Every row stays sound.
LEMMA RowsStep == ASSUME TypeOK, RowsInv, [Next]_vars PROVE RowsInv'
<1>1. \A i \in Ids : dep[i] \in Row /\ Sound(dep[i])
  BY DEF TypeOK, RowsInv
<1>2. CASE UNCHANGED dep
  BY <1>2 DEF RowsInv, Ids
<1>3. ASSUME NEW r \in Requests, NEW s \in Services, createDeployment(r, s), ~UNCHANGED dep
      PROVE  RowsInv'
  <2>1. dep' = [dep EXCEPT ![<<r, s>>] = NewRow(r, Of(r))]
    BY <1>3 DEF createDeployment
  <2>2. Sound(NewRow(r, Of(r)))
    BY KindFacts, NewRowFacts DEF Sound
  <2>3. QED
    BY <1>1, <2>1, <2>2 DEF RowsInv, TypeOK
<1>4. ASSUME NEW r \in Requests, requestCleanup(r), ~UNCHANGED dep PROVE RowsInv'
  <2>1. PICK i \in req[r].batch : i \in Rows /\ dep' = [dep EXCEPT ![i] = Marked(@, r)]
    BY <1>4 DEF requestCleanup
  <2>2. i \in Ids /\ Sound(Marked(dep[i], r))
    BY <1>1, <2>1, MarkedFacts DEF Sound, Rows
  <2>3. QED
    BY <1>1, <2>1, <2>2 DEF RowsInv, TypeOK
<1>5. ASSUME NEW r \in Requests, NEW d \in Deliveries, handleInMemory(r, d), ~UNCHANGED dep
      PROVE  RowsInv'
  <2> SUFFICES ASSUME NEW i \in Ids PROVE Sound(dep'[i])
    BY DEF RowsInv
  <2>1. payload[d] \in Payloads
    BY DEF TypeOK
  <2>2. Sound(NewRow(r, payload[d])) /\ Sound(Marked(dep[i], r))
    BY <1>1, <2>1, PayloadFacts, NewRowFacts, MarkedFacts DEF Sound
  <2>3. dep'[i] \in {NewRow(r, payload[d]), Marked(dep[i], r), dep[i]}
    BY <1>5 DEF handleInMemory
  <2>4. QED
    BY <1>1, <2>2, <2>3
<1>6. ASSUME NEW s \in Services, deleteService(s) PROVE RowsInv'
  BY <1>1, <1>6, NoRowFacts DEF deleteService, RowsInv, Sound
<1>7. ASSUME NEW i \in Ids, Written(i) PROVE RowsInv'
  <2>1. PICK row \in Row : Writes(i, row) /\ (Sound(dep[i]) => Sound(row))
    BY <1>7, WrittenFacts
  <2>2. QED
    BY <1>1, <2>1 DEF Writes, RowsInv, TypeOK
<1>8. ASSUME NEW r \in Requests, NEW d \in Deliveries, receive(r, d) PROVE UNCHANGED dep
  BY <1>8 DEF receive
<1>9. ASSUME NEW r \in Requests, findDeliveryFails(r) \/ fail(r) PROVE UNCHANGED dep
  BY <1>9 DEF findDeliveryFails, fail
<1>10. ASSUME NEW r \in Requests, HandlerStep(r), ~UNCHANGED dep
       PROVE  requestCleanup(r) \/ \E s \in Services : createDeployment(r, s)
  BY <1>10 DEF HandlerStep, findDelivery, createEvent, findServices, enqueueCleanupJob,
               enqueueDeployJob, findPreviews, answer
<1>11. ASSUME NEW s \in Services, attachGitHubRepositoryToService(s) \/ importGitHubRepository(s)
       PROVE  UNCHANGED dep
  BY <1>11 DEF attachGitHubRepositoryToService, importGitHubRepository
<1>12. UNCHANGED vars => UNCHANGED dep
  BY DEF vars
<1>13. QED
  BY <1>2, <1>3, <1>4, <1>5, <1>6, <1>7, <1>8, <1>9, <1>10, <1>11, <1>12 DEF Next, Written

\* After the closing of a pull request was accepted, every preview of it that
\* existed when the request came in was marked by it, whatever happened in
\* between; and where nobody had the preview in hand any more, or took it up
\* again, the mark lasts until a cleanup or a cancellation.
THEOREM ClosedMeansCleaned == Spec => []ClosedIsCleaned
<1>1. Init => RowsInv
  BY NoRowFacts DEF Init, RowsInv, Sound
<1>2. IInv => TypeOK
  BY DEF IInv
<1>3. IInv /\ RowsInv => ClosedIsCleaned
  <2> SUFFICES ASSUME IInv, RowsInv,
                      NEW r \in Requests, req[r].pc = "accepted", Kind(r) = "preview-cleanup",
                      NEW i \in Rows, <<i, dep[i].by>> \in req[r].before, i[2] \in req[r].matched,
                      dep[i].preview, dep[i].pr = Of(r).pr
               PROVE  /\ r \in dep[i].marked
                      /\ dep[i].stirred
                           \/ dep[i].status \in {"PREVIEW_CLEANUP_REQUESTED", "ENDED"}
    BY DEF ClosedIsCleaned
  <2>1. r \in dep[i].marked
    <3>1. SUFFICES ASSUME r \notin dep[i].marked PROVE FALSE
      OBVIOUS
    <3>2. req[r].todo = {} /\ i[2] \notin req[r].matched \ req[r].todo
      BY <3>1 DEF IInv, ServedInv, CleanInv, Unmarked, InLoop
    <3>3. QED
      BY <3>2
  <2>2. QED
    BY <2>1 DEF RowsInv, Sound, Rows
<1>4. QED
  BY <1>1, <1>2, <1>3, Invariance, RowsStep, PTL DEF Spec
================================================================================
