-------------------------------- MODULE Webhook --------------------------------
(***************************************************************************)
(* GitHub webhooks: handleGitHubWebhook of the two repositories behind the *)
(* API.  The Prisma repository (packages/core/src/persistence.ts) awaits   *)
(* the database between its steps, so requests overlap and can stop half   *)
(* way; the in-memory store (packages/core/src/store.ts) runs to the end   *)
(* in one go.  GitHub may send one delivery several times, also at once.   *)
(*                                                                         *)
(* Of a payload only what githubWebhookActionPlan looks at is kept.  URLs, *)
(* events, audit records and the outbound plan are left out.               *)
(***************************************************************************)
EXTENDS Naturals, FiniteSets

CONSTANTS
    Requests,    \* HTTP requests, numbered as they arrive
    Deliveries,  \* values of x-github-delivery
    Services,    \* service ids, never reused
    Payloads,    \* what GitHub may send: event, action, repository, commit, pr
    Scenarios,   \* which payload each delivery carries
    Built,       \* bound: services whose deployments others write
    MaxFaults    \* bound on failing database calls and crashes

Commits == {p.commit : p \in Payloads}

ASSUME RequestsAssumption == Requests \subseteq Nat
ASSUME FaultsAssumption   == MaxFaults \in Nat
ASSUME PayloadsAssumption ==
    Payloads \subseteq [event : {"push", "pull_request", "ping"},
                        action : {"", "push", "opened", "synchronize", "reopened", "closed", "labeled"},
                        repository : {"", "ours"}, commit : Commits, pr : Nat]
ASSUME ScenariosAssumption == Scenarios \subseteq [Deliveries -> Payloads]
ASSUME BuiltAssumption == Built \subseteq Services
ASSUME NonemptyAssumption == Requests # {} /\ Deliveries # {} /\ Services # {}

VARIABLES
    backend,   \* the repository createControlPlaneRepository chose at start
    payload,   \* what each delivery carries
    service,   \* the Service table: the repository a service is attached to
    events,    \* the WebhookEvent table: unique deliveryId
    dep,       \* the Deployment table
    jobs,      \* workflow jobs enqueued by webhooks
    req,       \* requests in progress
    faults

vars == <<backend, payload, service, events, dep, jobs, req, faults>>

\* A deployment's id: fresh in Prisma, derived from the commit in memory.
Ids == (Requests \cup Commits) \X Services

Kinds    == {"production-deploy", "preview-deploy", "preview-cleanup", "ignored"}
Pending  == {"lookup", "create", "services", "loop", "enqueue", "listing", "marking"}
Answers  == {"rejected", "duplicate", "conflict", "failed", "accepted"}

\* ACTIVE is any status a builder, an orchestrator or a status report writes on
\* the way from BUILDING to READY or a failure; ENDED is CLEANED_UP, CANCELLED or
\* that of a failed cleanup; "none" is an absent row.  `by` is the request
\* that created the row.  A row is `busy` as long as its job may still be handed
\* out, or a builder, an orchestrator or a report has it in hand; `marked` are
\* the requests that have marked it, `stirred` whether it was busy when it was
\* last marked, or has been since (history).
Row == [status : {"none", "QUEUED", "ACTIVE", "PREVIEW_CLEANUP_REQUESTED", "ENDED"},
        preview : BOOLEAN, pr : Nat, by : Requests,
        busy : BOOLEAN, stirred : BOOLEAN, marked : SUBSET Requests]

NoRow == [status |-> "none", preview |-> FALSE, pr |-> 0, by |-> CHOOSE r \in Requests : TRUE,
          busy |-> FALSE, stirred |-> FALSE, marked |-> {}]

Request == [pc : {"new"} \cup Pending \cup Answers, delivery : Deliveries,
            matched : SUBSET Services, todo : SUBSET Services, current : Services,
            batch : SUBSET Ids, before : SUBSET (Ids \X Requests)]

TypeOK ==
    /\ backend \in {"prisma", "memory"}
    /\ payload \in [Deliveries -> Payloads]
    /\ service \in [Services -> {"unborn", "", "ours", "gone"}]
    /\ events \subseteq Deliveries
    /\ dep \in [Ids -> Row]
    /\ jobs \subseteq [type : Kinds, service : Services, by : Requests]
    /\ req \in [Requests -> Request]
    /\ faults \in 0..MaxFaults

Init ==
    /\ backend \in {"prisma", "memory"}
    /\ payload \in Scenarios
    /\ service \in [Services -> {"unborn", "", "ours"}]
    /\ events = {} /\ jobs = {} /\ faults = 0
    /\ dep = [i \in Ids |-> NoRow]
    /\ req = [r \in Requests |->
                [pc |-> "new", delivery |-> CHOOSE d \in Deliveries : TRUE, matched |-> {},
                 todo |-> {}, current |-> CHOOSE s \in Services : TRUE, batch |-> {},
                 before |-> {}]]

--------------------------------------------------------------------------------
Of(r) == payload[req[r].delivery]

githubWebhookActionPlan(p) ==
    CASE p.event = "push" -> "production-deploy"
      [] p.event = "pull_request" /\ p.action \in {"opened", "synchronize", "reopened"}
            -> "preview-deploy"
      [] p.event = "pull_request" /\ p.action = "closed" -> "preview-cleanup"
      [] OTHER -> "ignored"

Kind(r) == githubWebhookActionPlan(Of(r))

\* Services attached to the payload's repository.  An empty repository matches
\* nothing in Prisma, and the unattached services in memory.
servicesForGitHubRepository(p) == {s \in Services : service[s] = p.repository}
servicesForPrismaGitHubRepository(p) ==
    IF p.repository = "" THEN {} ELSE servicesForGitHubRepository(p)

Rows == {i \in Ids : dep[i].status # "none"}

NewRow(r, p) == [status |-> "QUEUED", preview |-> githubWebhookActionPlan(p) = "preview-deploy",
                 pr |-> p.pr, by |-> r, busy |-> TRUE, stirred |-> TRUE, marked |-> {}]

\* The row of a preview whose cleanup request r asks for.
Marked(row, r) == [row EXCEPT !.status = "PREVIEW_CLEANUP_REQUESTED", !.stirred = row.busy,
                              !.marked = @ \cup {r}]

PreviewsOf(s, pr) == {i \in Rows : i[2] = s /\ dep[i].preview /\ dep[i].pr = pr}

Goto(r, pc) == req' = [req EXCEPT ![r].pc = pc]

Arrives(r) == req[r].pc = "new" /\ \A q \in Requests : q < r => req[q].pc # "new"

Fault == faults < MaxFaults /\ faults' = faults + 1

--------------------------------------------------------------------------------
(***************************************************************************)
(* The Prisma repository                                                   *)
(***************************************************************************)

\* A request arrives.  Without a webhook secret or with a wrong signature it is
\* turned away.
receive(r, d) ==
    /\ backend = "prisma" /\ Arrives(r)
    /\ \E pc \in {"lookup", "rejected"} :
          req' = [req EXCEPT ![r].pc = pc, ![r].delivery = d,
                             ![r].before = {<<i, dep[i].by>> : i \in Rows}]
    /\ UNCHANGED <<backend, payload, service, events, dep, jobs, faults>>

\* Variant: a delivery some other request carries counts as a duplicate.
findDeliveryInFlight(r) ==
    /\ req[r].pc = "lookup"
    /\ Goto(r, IF \E q \in Requests \ {r} : req[q].delivery = req[r].delivery /\ req[q].pc # "new"
               THEN "duplicate" ELSE "create")
    /\ UNCHANGED <<backend, payload, service, events, dep, jobs, faults>>

\* The lookup of the delivery.
findDelivery(r) ==
    /\ req[r].pc = "lookup"
    /\ Goto(r, IF req[r].delivery \in events THEN "duplicate" ELSE "create")
    /\ UNCHANGED <<backend, payload, service, events, dep, jobs, faults>>

\* An error of the lookup is taken for "not there".
findDeliveryFails(r) ==
    /\ req[r].pc = "lookup"
    /\ Fault
    /\ Goto(r, "create")
    /\ UNCHANGED <<backend, payload, service, events, dep, jobs>>

\* Variant: deliveryId without its unique index.
createEventUnchecked(r) ==
    /\ req[r].pc = "create"
    /\ events' = events \cup {req[r].delivery}
    /\ Goto(r, "services")
    /\ UNCHANGED <<backend, payload, service, dep, jobs, faults>>

\* The delivery's row; the unique index on deliveryId refuses a second one.
createEvent(r) ==
    /\ req[r].pc = "create"
    /\ events' = events \cup {req[r].delivery}
    /\ Goto(r, IF req[r].delivery \in events THEN "conflict" ELSE "services")
    /\ UNCHANGED <<backend, payload, service, dep, jobs, faults>>

\* All services of the repository are read at once, before the loop.
findServices(r) ==
    /\ req[r].pc = "services"
    /\ LET found == servicesForPrismaGitHubRepository(Of(r)) IN
       req' = [req EXCEPT ![r].pc = "loop", ![r].matched = found,
                          ![r].todo = IF Kind(r) = "ignored" THEN {} ELSE found]
    /\ UNCHANGED <<backend, payload, service, events, dep, jobs, faults>>

\* One service of a push or of an opened pull request: the deployment row ...
\* (its foreign key fails when the service was deleted since).
createDeployment(r, s) ==
    /\ req[r].pc = "loop" /\ s \in req[r].todo
    /\ Kind(r) \in {"production-deploy", "preview-deploy"}
    /\ IF service[s] = "gone"
       THEN Goto(r, "failed") /\ UNCHANGED dep
       ELSE /\ dep' = [dep EXCEPT ![<<r, s>>] = NewRow(r, Of(r))]
            /\ req' = [req EXCEPT ![r].pc = "enqueue", ![r].current = s]
    /\ UNCHANGED <<backend, payload, service, events, jobs, faults>>

\* Variant: the job of a preview is forgotten.
enqueueDeployJobProduction(r) ==
    /\ req[r].pc = "enqueue"
    /\ jobs' = jobs \cup {j \in {[type |-> Kind(r), service |-> req[r].current, by |-> r]} :
                                j.type = "production-deploy"}
    /\ req' = [req EXCEPT ![r].pc = "loop", ![r].todo = @ \ {req[r].current}]
    /\ UNCHANGED <<backend, payload, service, events, dep, faults>>

\* ... and then its job.
enqueueDeployJob(r) ==
    /\ req[r].pc = "enqueue"
    /\ jobs' = jobs \cup {[type |-> Kind(r), service |-> req[r].current, by |-> r]}
    /\ req' = [req EXCEPT ![r].pc = "loop", ![r].todo = @ \ {req[r].current}]
    /\ UNCHANGED <<backend, payload, service, events, dep, faults>>

\* One service of a closed pull request: the cleanup job ...
enqueueCleanupJob(r, s) ==
    /\ req[r].pc = "loop" /\ s \in req[r].todo
    /\ Kind(r) = "preview-cleanup"
    /\ jobs' = jobs \cup {[type |-> Kind(r), service |-> s, by |-> r]}
    /\ req' = [req EXCEPT ![r].pc = "listing", ![r].current = s]
    /\ UNCHANGED <<backend, payload, service, events, dep, faults>>

\* Variant: only deployments that are still queued are listed.
findPreviewsQueued(r) ==
    /\ req[r].pc = "listing"
    /\ req' = [req EXCEPT ![r].pc = "marking",
                          ![r].batch = {i \in PreviewsOf(req[r].current, Of(r).pr) :
                                            dep[i].status = "QUEUED"}]
    /\ UNCHANGED <<backend, payload, service, events, dep, jobs, faults>>

\* ... the list of the preview deployments of the pull request ...
findPreviews(r) ==
    /\ req[r].pc = "listing"
    /\ req' = [req EXCEPT ![r].pc = "marking",
                          ![r].batch = PreviewsOf(req[r].current, Of(r).pr)]
    /\ UNCHANGED <<backend, payload, service, events, dep, jobs, faults>>

\* ... and one update for each; updating a vanished row is an error.
requestCleanup(r) ==
    /\ req[r].pc = "marking"
    /\ \/ /\ req[r].batch = {}
          /\ req' = [req EXCEPT ![r].pc = "loop", ![r].todo = @ \ {req[r].current}]
          /\ UNCHANGED dep
       \/ \E i \in req[r].batch :
             IF i \in Rows
             THEN /\ dep' = [dep EXCEPT ![i] = Marked(@, r)]
                  /\ req' = [req EXCEPT ![r].batch = @ \ {i}]
             ELSE Goto(r, "failed") /\ UNCHANGED dep
    /\ UNCHANGED <<backend, payload, service, events, jobs, faults>>

\* Variant: the loop may be left early.
answerEarly(r) ==
    /\ req[r].pc = "loop"
    /\ Goto(r, "accepted")
    /\ UNCHANGED <<backend, payload, service, events, dep, jobs, faults>>

\* The audit record and the answer { accepted: true, duplicate: false }.
answer(r) ==
    /\ req[r].pc = "loop" /\ req[r].todo = {}
    /\ Goto(r, "accepted")
    /\ UNCHANGED <<backend, payload, service, events, dep, jobs, faults>>

\* A database call fails or the process dies: the request ends where it is.
fail(r) ==
    /\ req[r].pc \in Pending
    /\ Fault
    /\ Goto(r, "failed")
    /\ UNCHANGED <<backend, payload, service, events, dep, jobs>>

--------------------------------------------------------------------------------
(***************************************************************************)
(* The in-memory store: the whole request is one step.  A deployment's id  *)
(* is made of the service and the commit, so a second delivery for the     *)
(* same commit overwrites the row of the first.                            *)
(***************************************************************************)
handleInMemory(r, d) ==
    LET p       == payload[d]
        kind    == githubWebhookActionPlan(p)
        found   == servicesForGitHubRepository(p)
        acting  == IF kind = "ignored" THEN {} ELSE found
        created == {<<p.commit, s>> : s \in acting}
        closing == UNION {PreviewsOf(s, p.pr) : s \in acting}
    IN  /\ backend = "memory" /\ Arrives(r)
        /\ \/ Goto(r, "rejected") /\ UNCHANGED <<events, dep, jobs>>
           \/ /\ d \in events
              /\ req' = [req EXCEPT ![r].pc = "duplicate", ![r].delivery = d]
              /\ UNCHANGED <<events, dep, jobs>>
           \/ /\ d \notin events
              /\ events' = events \cup {d}
              /\ dep' = [i \in Ids |->
                    IF kind \in {"production-deploy", "preview-deploy"} /\ i \in created
                    THEN NewRow(r, p)
                    ELSE IF kind = "preview-cleanup" /\ i \in closing
                    THEN Marked(dep[i], r)
                    ELSE dep[i]]
              /\ jobs' = jobs \cup {[type |-> kind, service |-> s, by |-> r] : s \in acting}
              /\ req' = [req EXCEPT ![r].pc = "accepted", ![r].delivery = d,
                                    ![r].matched = found,
                                    ![r].before = {<<i, dep[i].by>> : i \in Rows}]
        /\ UNCHANGED <<backend, payload, service, faults>>

--------------------------------------------------------------------------------
(***************************************************************************)
(* What happens meanwhile                                                  *)
(***************************************************************************)

attachGitHubRepositoryToService(s) ==
    /\ service[s] = ""
    /\ service' = [service EXCEPT ![s] = "ours"]
    /\ UNCHANGED <<backend, payload, events, dep, jobs, req, faults>>

importGitHubRepository(s) ==
    /\ service[s] = "unborn"
    /\ service' = [service EXCEPT ![s] = "ours"]
    /\ UNCHANGED <<backend, payload, events, dep, jobs, req, faults>>

\* The deployments go with the service (onDelete: Cascade in Prisma).
deleteService(s) ==
    /\ service[s] \in {"", "ours"}
    /\ service' = [service EXCEPT ![s] = "gone"]
    /\ dep' = [i \in Ids |-> IF i[2] = s THEN NoRow ELSE dep[i]]
    /\ UNCHANGED <<backend, payload, events, jobs, req, faults>>

\* Others write deployments.
Writes(i, row) ==
    /\ i \in Rows /\ i[2] \in Built
    /\ dep' = [dep EXCEPT ![i] = row]
    /\ UNCHANGED <<backend, payload, service, events, jobs, req, faults>>

\* Whoever has a deployment in hand, the builder its job or the orchestrator a
\* copy of its row, writes the next status without looking at the present one.
rollout(i) ==
    /\ dep[i].busy
    /\ Writes(i, [dep[i] EXCEPT !.status = "ACTIVE"])

\* Build and rollout are over for good: the job is closed, the row listed no more.
settle(i) ==
    /\ dep[i].busy
    /\ ~ \E r \in Requests : req[r].pc = "enqueue" /\ i = <<r, req[r].current>>
    /\ Writes(i, [dep[i] EXCEPT !.busy = FALSE])

\* A status report of the API read a row that the table of transitions lets go on;
\* it will write later.  Reports that ask for the cleanup themselves are left out.
transitionDeployment(i) ==
    /\ dep[i].status \in {"QUEUED", "ACTIVE", "ENDED"}
    /\ Writes(i, [dep[i] EXCEPT !.busy = TRUE, !.stirred = TRUE])

\* A user cancels the deployment, having read it whenever.  The job of the
\* cancellation names the deployment, and a builder takes it like any other.
cancelDeployment(i) ==
    Writes(i, [dep[i] EXCEPT !.status = "ENDED", !.busy = TRUE, !.stirred = TRUE])

\* An orchestrator that listed the marked row has deleted its objects, or failed to.
cleanupPreview(i) ==
    /\ dep[i].marked # {}
    /\ Writes(i, [dep[i] EXCEPT !.status = "ENDED"])

HandlerStep(r) ==
    \/ findDelivery(r) \/ createEvent(r) \/ findServices(r)
    \/ \E s \in Services : createDeployment(r, s) \/ enqueueCleanupJob(r, s)
    \/ enqueueDeployJob(r) \/ findPreviews(r) \/ requestCleanup(r) \/ answer(r)

Next ==
    \/ \E r \in Requests :
          \/ \E d \in Deliveries : receive(r, d) \/ handleInMemory(r, d)
          \/ HandlerStep(r) \/ findDeliveryFails(r) \/ fail(r)
    \/ \E s \in Services :
          attachGitHubRepositoryToService(s) \/ importGitHubRepository(s) \/ deleteService(s)
    \/ \E i \in Ids : \/ rollout(i) \/ settle(i) \/ transitionDeployment(i)
                      \/ cancelDeployment(i) \/ cleanupPreview(i)

\* A request that was let in is worked off: every await of it settles.
Fairness == \A r \in Requests : WF_vars(HandlerStep(r))

Spec == Init /\ [][Next]_vars /\ Fairness

--------------------------------------------------------------------------------
(***************************************************************************)
(* Properties                                                              *)
(***************************************************************************)

\* Whatever GitHub repeats, and however the repetitions overlap, a delivery
\* gives a service at most one job and at most one deployment
\* (docs/github-app.md: a delivery id seen before creates no further workflow).
OncePerDelivery ==
    /\ \A j, k \in jobs :
          j.service = k.service /\ req[j.by].delivery = req[k.by].delivery => j = k
    /\ \A i, j \in Rows :
          i[2] = j[2] /\ req[dep[i].by].delivery = req[dep[j].by].delivery => i = j

\* A queued deployment that nobody was told to build exists only while its
\* request is about to enqueue the job, or after a fault.
NoOrphanDeployment ==
    TypeOK /\ \A i \in Rows : dep[i].status = "QUEUED" /\ faults = 0 =>
        \/ \E j \in jobs : j.by = dep[i].by /\ j.service = i[2]
        \/ req[dep[i].by].pc = "enqueue" /\ req[dep[i].by].current = i[2]

\* An answer "accepted" means that every service found has its job, and its
\* deployment unless the service was deleted or a later push of the same commit
\* took the row over.
AcceptedIsComplete ==
    \A r \in Requests : req[r].pc = "accepted" /\ Kind(r) # "ignored" =>
        \A s \in req[r].matched :
            /\ [type |-> Kind(r), service |-> s, by |-> r] \in jobs
            /\ Kind(r) = "preview-cleanup" \/ service[s] = "gone"
                 \/ \E i \in Rows : i[2] = s /\ (dep[i].by = r \/ backend = "memory")

\* When the closing of a pull request was accepted, it has marked every preview of
\* the pull request that existed when it came in, whatever was written, deleted or
\* delivered in between.  The mark, or what an orchestrator made of it, lasts where
\* build and rollout were over when it was set and nobody took them up again.
\* Otherwise it may be lost: builder and orchestrator write over it
\* (builder.go:154 and :197, reconciler.go:127 and :146).
ClosedIsCleaned ==
    \A r \in Requests : req[r].pc = "accepted" /\ Kind(r) = "preview-cleanup" =>
        \A i \in Rows :
            /\ <<i, dep[i].by>> \in req[r].before
            /\ i[2] \in req[r].matched /\ dep[i].preview /\ dep[i].pr = Of(r).pr
            => /\ r \in dep[i].marked
               /\ dep[i].stirred
                    \/ dep[i].status \in {"PREVIEW_CLEANUP_REQUESTED", "ENDED"}

\* Of the requests that carry one delivery not all are sent away as duplicates
\* of each other: one of them is accepted, or failed.
DeliveryIsHandled ==
    \A d \in Deliveries :
        (\E r \in Requests : req[r].delivery = d /\ req[r].pc \in Pending)
            ~> (\E r \in Requests : req[r].delivery = d /\ req[r].pc \in {"accepted", "failed"})
================================================================================
