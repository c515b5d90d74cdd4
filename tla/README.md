# RAIBITSERVER: a TLA+ model

RAIBITSERVER is a small platform-as-a-service: users sign up, create projects,
services and managed resources; a push or a request creates a *deployment*, a
builder turns it into a container image, and an orchestrator (or an operator
with the command line tool) brings it to Kubernetes. The processes share nothing
but the control-plane store (PostgreSQL, one JSON file, or the memory of one
process) and write the same rows. This directory models that system, checks the
models with TLC and proves every safety property it checks with TLAPS.

## 1. Inventory

### Parts, state, operations

| part | state | operations | source | module |
|---|---|---|---|---|
| workflow queue | table `WorkflowJob`: status, attempts, maxAttempts, runAfter, lockedBy, lockedAt | enqueue, claim, complete, fail | `services/builder/internal/controlplane` | WorkflowQueue |
| Go builder | the `buildContext` of the job at hand, image registry | `RunOnce`: claim, resolve, mark BUILDING, clone/build/push, record IMAGE_READY, update service, complete; else fail | `services/builder/internal/worker/builder.go` | BuildPipeline |
| deployments (API side) | table `Deployment`: status, commit, imageUrl, imageDigest | create (with job), transition, cancel, rollback | `persistence.ts`, `deployments.ts` | BuildPipeline |
| orchestrator | the deployment at hand, the cluster | `RunOnce`: list, apply, watch rollout, clean up a preview, mark READY / FAILED / CLEANED_UP | `services/orchestrator` | Reconciler |
| TypeScript worker | claimed copy of the job, clone directory, local images, registry | claim, build handler, rollout handler, report | `workflows.ts`, `deployment-workflow.ts`, `build-executor.ts`, `source-control.ts`, `command-runner.ts`, `registry.ts` | LocalWorker |
| GitHub webhook | table `WebhookEvent`, deployments, jobs | push: deployment and job per service; pull request: preview or cleanup request; attach, import | `persistence.ts`, `store.ts`, `github-integration.ts` | Webhook |
| accounts and quotas | users, organizations, members, limits, session claims | signup, login, approve, reject, set limits, check, create | `apps/api/src/raibitserver.service.ts`, `identity.ts`, `quota.ts`, `persistence.ts`, `store.ts` | Tenancy |
| HTTP servers | requests in progress over projects, services, resources, deployments | every route: authorise, look up, check scope, read body, act | `api.ts`, `apps/api/src`, `auth.ts`, `rbac.ts` | ApiServer |
| managed resources, environment | resource row, connection secrets, attachments, variables, vault | create, update, provision, attach, set variable, delete | `persistence.ts`, `store.ts`, `resource-providers.ts`, `env-injection.ts` | Resources |
| desired state | project files, kubectl runs, cluster objects | compile, `k8s-apply`, `provision` | `manifest-compiler.ts`, `kubernetes.ts`, `provisioner.ts`, `domain-router.ts` | DesiredState |
| database console | connection read, statement at the server, audit log | query, command, browse, table, view | `db-console.ts`, `security.ts`, `persistence.ts` | Console |

(TypeScript files without a directory are in `packages/core/src`.)

### How they interact

API, webhook, builders and orchestrators never talk to each other. The API and
the webhook insert deployments and jobs; builders claim jobs of *every* type,
read the deployment the job names and write its status; orchestrators list
deployments by status and write theirs. There is no claim on a deployment and
no compare-and-set on its status; `assertDeploymentTransition` is applied by
the API only, to a status read one await earlier. Apart from
`createDeploymentWorkflow` and `writeDesiredProject` no database transaction spans
two queries of the repository: wherever it awaits, another request may step in,
and where a request fails half-way its earlier writes stay.

### What is hard, and what makes it correct

* Claims are two SQL statements; leases lapse while builds run (30 min timeout,
  300 s lease, no renewal); reports do not check ownership. Correct: no attempt
  handed out twice, leases exclude, jobs settle.
* An attempt may have been carried out although its answer was lost; a retry
  finds its own earlier effects, in the registry, in the rows and in the clone
  directory. Correct: a recorded digest or image belongs to the deployment's
  commit, what is announced was pushed, a succeeded job left an image.
* Cancellation, rollback and status reports interleave with builds and
  rollouts. Correct: nobody is left BUILDING or DEPLOYING without a process
  that will write the outcome.
* GitHub repeats deliveries, also while the first is being handled. Correct: a
  delivery acts once, an accepted one acted completely.
* Accounts, slugs and quotas are checked in one await and written in a later
  one. Correct: without an overlapping request the check holds at the write,
  and what goes wrong with one is confined to that overlap.
* Rows vanish or move between the scope check and the effect. Correct: nothing
  is done out of scope, nothing is left without its parent.
* Provisioning, attaching and deleting a resource write many rows. Correct:
  what a deletion leaves behind, and whose secret a variable points to.
* `kubectl apply` stops half-way, nothing is pruned, names are joined from
  slugs. Correct: an apply reported as done leaves a project that can start.
* A console statement may outlive its timer and its audit record. Correct: only
  confirmed writes by those who may write, and answers that are true.
* Cleanup of a preview shares rows and a namespace with production. Correct:
  CLEANED_UP is true, production is untouched.

`PROJECT.json` lists the hazards one by one, with their lines and the
properties that cover them. Known and without a property of their own: a
retry of the Go builder clones into the directory of the attempt before
(builder.go:242; the same directory is modelled for the TypeScript worker); a
cancellation or rollback that fails before its job is enqueued (persistence.ts:349;
modelled as `abortRequest`, and no builder looks at a job's type).

## 2. Modules

    RetryLedger            JobBoard <-------- BuildPipeline
         ^ implements         ^ implements     (EXTENDS JobBoard)
         +---- WorkflowQueue -+

    WorkflowQueue, Webhook, LocalWorker, Tenancy, ApiServer, Resources, Console
         ^ one MC module and one module of proofs each (MCWebhook, WebhookProofs, ...)

    BuildPipeline, Reconciler, DesiredState
         ^ one MC module each, and DeploymentProofs, the proofs about the three ways
           to a running workload; the models have no name in common, so that one
           module can extend all three (ReconcilerSpec, DesiredInit, kube, ...)

**RetryLedger** (abstract). Attempts per job: submitted once, an attempt started
only while the job is open and the budget lasts, nothing refunded. A closed job
may be opened again while budget remains, because a late failure report does
that.

**JobBoard** (abstract). What the queue offers its workers: atomic claims, no
locks, no time; a running job may be handed out again where the store's policy
allows (`ReclaimRunning`), and a report overwrites the job whoever claimed it
last.

**WorkflowQueue.** The `WorkflowJob` table as the Go `PostgresStore` uses it.
`SelectForUpdate` and `CommitClaim` are the two halves of `ClaimNextWorkflowJob`
(between them the row lock is held, and `SKIP LOCKED` hides the row from other
claims); `CompleteWorkflowJob` and `FailWorkflowJob` go through
`updateWorkflowJob`, which waits for the row lock and rewrites the row without
looking at its owner; `CompleteErrors` is the report whose answer is an error,
carried out or not; `Abandon` is a crash, a rolled-back claim or the dropped
error of `FailWorkflowJob`. `Tick` advances the clock, only while some
comparison with it can still change. History variables: `disowned`, the
jobs reported on by a worker that no longer owned them, and `reclaimed`, the
jobs handed out while running. The Go `FileStore`
within one process is covered by `ReclaimRunning = FALSE`, and by the jobs
outside `reclaimed`. `RefinesLedger` and
`RefinesBoard` state the two refinements.

**BuildPipeline.** Deployments of one git-sourced service, on top of JobBoard.
API operations of the Prisma repository are split at their awaits:
`transitionDeployment` (read and check) and `updateDeployment` (write),
`rollbackDeployment` / `createRollback` / `enqueueRollback`, with `abortRequest`
for a process that dies in between. A builder goes through `resolve`, `mark`,
`build`, `record`, `service`, `complete`, one step per store call; the snapshot
read by `resolveState` (image name, earlier digest) is what later steps use.
`storeErrors` lets any store call fail after or without effect, `crash` ends the
process. A commit stands both for the image content built from it and for the
tag derived from it; `registry` maps tags to contents.

**Reconciler.** Orchestrator processes over the deployments of one project.
`RunOnce` copies the first listed row; `reconcileDeployment` decides on that copy;
`kubectlApply`, `rolloutStatus`, `kubectlDelete` and their failures act on
`cluster`; every status write is unconditional, as in the code, and where the
code drops its error (`_, _ =`, `_ = r.markFailed`) the model lets it fail. The
builder, the API and the webhook appear with the status writes they make
(`imageReady`, `imageReadyUnnamed`, `cancelDeployment`, `cleanupRequested`). The history
variable `overlapped` says that two orchestrators were busy at the same time.

**Webhook.** `handleGitHubWebhook`. In the Prisma repository one action per query:
`findDelivery` (whose error is taken for "not seen"), `createEvent` (the unique
delivery id), `findServices`, then per service `createDeployment` and
`enqueueDeployJob`, or `enqueueCleanupJob`, `findPreviews` and `requestCleanup`,
and `answer`; `fail` ends a request at any query. The in-memory store does it in
one step (`handleInMemory`); there a deployment's id is made of service and commit,
so a second push of a commit takes the row over, while in Prisma ids are fresh.
Meanwhile services are imported, attached and deleted, and others write the rows:
`rollout` is any status a builder or an orchestrator writes without looking at the
present one, `transitionDeployment` a status report between its check and its
write, `cancelDeployment` a cancellation, whose job a builder takes like any other,
and `cleanupPreview` the end of a cleanup. What is in their hands is not modelled a
second time here; a row is `busy` as long as somebody may still write it, `settle`
ends that, and the history fields `marked` and `stirred` remember which closings
marked the row, and whether it was busy at that mark or later.

**LocalWorker.** `processNextWorkflowJob` with the handlers of
`deployment-workflow.ts`. The claim is `findFirst` and `updateMany` (Prisma) or
`claimFromList` (memory). The worker keeps the claimed copy of the row and writes
it back whole (`Report`). A build is clone, checkout, build, digest, push, one
command at a time; `commandKilled` is the timeout, whose exit code `null` counts
as success; `workspace` is the shared clone directory, `local` and `registry` the
images by tag. Rollouts, cancellations and a cleaned workspace come from outside.

**Tenancy.** Signup, login and the creating requests, one action per awaited call,
over users, organizations and members in the two repositories (upserts in
Prisma, overwriting maps in memory). A token carries the claims of its login.
`req[r].with` records which requests overlapped, `raced` whether another write,
or a membership of the account, came between a request's check and its own write. `enforceUserCan` reads user, limit
and usage and adds the increment as the code computes it.

**ApiServer.** Every route of both servers as a record: the action it requires,
the kind of row it is about, its effect, and the order of its steps. `NodeRoutes`
is the table in `api.ts`; for NestJS the decorators (`RequirePermission`) and the
methods of `RaibitserverService` (`*Steps`) are separate tables, joined by
`NestRoutes`. One interpreter runs them: in the node server a request gives way
only where it reads its body, in NestJS at every repository call.

**Resources.** One resource name of one project: create (upsert), update, provision,
attach, set a variable, delete, delete a service; in Prisma one action per query
inside the loops over keys and attachments, in memory one action per call, with
the provider awaited. A secret is the call that wrote it and whether it came
from a live provider. `loose` records the injected variables no attachment lists.

**DesiredState.** `compileProject` and `compileProjectProvisioning` as pure
operators over records, giving the list of objects in the order they are
applied, with the references between them; `Start`, `applyObject`, `kubectlExits`,
`kubectlKilled` are the run of `kubectl apply`, object by object. A slug is a
sequence of words, so that joining with "-" is concatenation and loses the
boundary, while the "--" of `joinLabel` keeps it. `Reword` lists the words that begin
with "env", and what is left of each when `secretName.replace('-env', '-config')`
hits it (`FirstEnvReplaced`). A custom domain is a host like any other and is taken
as the file gives it.

**Console.** A request passes permission, lookup, reading of the sealed
connection, the guard of its engine and the run; then `audit` and the answer. A
statement is one of a few classes (`Statements`), for each of which the guards,
SQLite and PostgreSQL say what they do; a PRAGMA that reads, one that assigns with
"=" and one that changes the file by being called are three of them. A text of
several statements may stop part-way in SQLite (`runSqlite`), and `$disconnect` may
fail after the commit (`settles`). `atServer` is the statement at the
PostgreSQL server, which `databaseEnds` commits or fails at any time, also after
`withTimeout` has answered.

Definitions whose comment begins with "Variant:" are altered forms of the
definition that follows them. They model plausible mistakes and are used only to
confirm that each property can fail (`mutants` in `PROJECT.json`).

## 3. Runs

| run | checks | instance | states |
|---|---|---|---|
| queue | `UniqueAttempt`, `LeaseExclusion`, `SoleWorker`, `RefinesLedger`, `RefinesBoard`, `EventuallySettles` | 1 job, 3 builders, 3 attempts, lease 3, 2 faults, fair | 187 thousand |
| build | `DigestOfCommit`, `AnnouncedIsPushed`, `SucceededHasImage`, `NoDanglingBuild` | 2 deployments, 2 jobs, 2 builders, 2 commits, 1 request, 1 fault | 993 thousand |
| reconcile | `NoDanglingRollout`, `CleanedUpIsGone`, `EveryRolloutEnds` | 1 preview and 1 production deployment, 2 orchestrators, 1 fault, fair | 391 thousand |
| webhook | `OncePerDelivery`, `NoOrphanDeployment`, `AcceptedIsComplete`, `ClosedIsCleaned`, `DeliveryIsHandled` | 2 requests, 2 deliveries, 2 services, others writing the deployments of one, both repositories, 1 fault, fair | 380 thousand |
| local_worker | `HandoutsCounted`, `RowsAgree`, `ImageOfCommit`, `EveryJobSettles` | 2 workers, 2 deployments, 3 jobs, 2 attempts, 4 configurations, 1 mishap, fair | 231 thousand |
| tenancy | `SignupsDoNotCollide`, `AdminsAccounted`, `OrganizationsAreOwned`, `RejectedIsStopped`, `QuotaHeldUnlessRaced` | 2 requests, 2 emails, 2 slugs, 4 initial databases, 2 administrator calls, 1 fault | 1.95 million |
| api | `NoOrphans`, `UpdatesReachRows`, `InScope`, `ServersAgree` | any route next to a deletion or move, 6 sorts of callers, both servers | 325 thousand |
| resources | `DeletedIsGone`, `ReferencesResolve`, `ConnectionIsWhole`, `UserVariablesSurvive`, `ReadyIsKept` | 3 calls, 2 at a time, 2 engines, 2 prefixes, both repositories, 1 fault | 1.71 million |
| desired_state | `AppliedCanStart`, `HostsAreApart` | 2 projects with colliding slugs, 2 services, 1 resource, 2 operators, 2 edits, 2 runs, 1 fault | 1.32 million |
| console | `ChangesWereAllowed`, `AnswersAreTrue` | 2 requests, 2 databases, every engine and statement class, 1 change, 1 fault | 2.17 million |

Type correctness is a conjunct of one invariant of each run
(`NoDanglingBuild`, `NoOrphanDeployment`, `RowsAgree`, `OrganizationsAreOwned`,
`NoOrphans`, `ReferencesResolve`, `AppliedCanStart`, `ChangesWereAllowed`), and of a
theorem in every module of proofs.

Runs that end in a counterexample, each for a sentence of the repository's docs,
tests or code (quoted under `findings`):

| run | property | what happens |
|---|---|---|
| build_cancel | `CancelIsFinal` | a builder takes a cancelled deployment back to BUILDING |
| reconcile_namespace | `CleanupSparesProduction` | cleaning up a preview deletes the project's namespace |

### What the properties except, and why

Many properties name the cases in which the code gives no guarantee. Each
exception comes from a counterexample and is kept as narrow as the model
allows, so that the rest is known to hold:

* **Queue.** A late failure report reopens a job that succeeded (RetryLedger
  allows a closed job to be opened again, against "terminal `succeeded`, `failed`,
  `cancelled` state" in docs/workflows.md:26) or requeues it under its new owner,
  so that the next claim falls into a running lease (`LeaseExclusion`). A builder
  that crashes on the last attempt leaves the row running for ever
  (`EventuallySettles`; docs/workflows.md:23 lists "lock timeout/lease recovery").
  The stores that select queued jobs only have no lease recovery at all.
* **Builds.** The image name recorded for a service is reused
  (builder.go:418), so a later build replaces the image a rollback would bring
  back; the digest, which is what `DigestOfCommit` states, stays right.
* **Rollouts.** A cleanup request is lost when another status write overwrites
  it, so the preview of a closed pull request may stay. Two overlapping
  orchestrators may apply after a cleanup (`overlapped`).
* **Webhook.** The mark of a closed preview is a status like any other, and
  builder (builder.go:154, :197, :207) and orchestrator (reconciler.go:127, :146,
  :188) write theirs without looking: a preview whose build or rollout is under way,
  or still to be started, when its pull request is closed may go on to READY and
  stay deployed. `ClosedIsCleaned` says that an accepted closing has marked every
  preview it had to, and that the mark, or its cleanup, lasts where build and
  rollout were over and nobody took them up again; a cancellation counts as taking
  up, since its job is built. A request that fails after `createEvent` has taken the delivery id:
  GitHub's redelivery is answered as a duplicate, and the services not yet
  reached get nothing (`DeliveryIsHandled` counts the failed request).
* **Local worker.** A killed command counts as success (`ImageOfCommit` excepts
  runs with one); a report that fails after the image was recorded queues the
  finished job again; a crash leaves the job running (`EveryJobSettles`);
  cancellation jobs have no handler and fail.
* **Tenancy.** Overlapping signups for one email overwrite each other's password,
  for one slug share the organization; two overlapping first signups are both
  administrators outside production. A failure after `createOrganization` keeps
  the slug taken. `addResource` adds the bare number of gigabytes to a usage in
  megabytes (raibitserver.service.ts:177), and `createProject` with services and
  resources checks `maxProjects` only. Approving a user resets custom limits in
  memory and keeps them in Prisma.
* **HTTP.** The node route POST /services/:id/deployments may create a deployment
  of a service deleted meanwhile; its PATCH of services and resources answers
  success for a row that is gone; two of its log routes check no scope. On the
  NestJS side, `RbacGuard` passes the path parameters to `requireScope`, which
  turns organization-scoped tokens away from routes with `:projectId` (auth.ts:109),
  although rbac.guard.ts:14 leaves that check to the service layer; the model
  follows the code.
* **Resources.** With the database, calls that overlap a deletion may leave
  secrets or variables; attaching again with another prefix, and a swallowed
  query error, leave variables nobody lists; an update that overlaps
  provisioning, or another update that had read before it, writes back the old
  status. After a change of engine the earlier
  secrets stay, still marked ready.
* **Desired state.** Nothing is pruned, so objects of removed services stay. A
  service with "-env" in its name, alone or at the beginning of a longer word, as
  in "my-env" or "my-environment", refers to a ConfigMap that does not exist
  ("my-configironment-env", manifest-compiler.ts:131); `AppliedCanStart` excepts that
  ConfigMap and nothing else of such a service. Namespaces are organization and project
  slugs joined by "-" and may coincide, although README.md:318 of the repository
  separates workloads by them; generated host names do not. A custom domain is not
  compared with anything (domain-router.ts:23): a service may claim the host that is
  generated for another project's service, and `HostsAreApart` excepts its ingress.
  `provision` before the first `k8s-apply` fails for want of a namespace. Of two overlapping applies the older
  may win.
* **Console.** A PRAGMA without "=" or ";" is taken for reading (security.ts:402), but
  may change a SQLite file by being called, as `PRAGMA user_version(5)` and `PRAGMA
  optimize` do: it runs without confirmation for whoever may read data.
  `ChangesWereAllowed` names this case, which PostgreSQL does not have. A text of several
  statements that fails part-way leaves what came before, and a failing
  `$disconnect` turns a committed write into an error. A write may commit after the caller was told it timed out, and be
  missing from the audit log when that fails (`AnswersAreTrue` then allows only an
  error as the answer). Changes to a SQLite database in memory vanish with the
  connection.

### Bounds

Three builders on one job are what a takeover, a late report and the claim that
follows it need; the third attempt lets a takeover be taken over. A lease of 3
exceeds the first retry delays (1, 2), so that a requeued row is due again inside
a lease. Jobs do not interact in the queue except through the order of claims;
the theorems are for any set of jobs, and BuildPipeline runs with two.
In BuildPipeline two deployments share the service's image name, two jobs may be a
build and a cancellation or rollback, or a build and an unrelated job; one
request is served at a time next to two builders. In Reconciler `MaxBuilds`
bounds how often the builder reports an image. In Webhook the two requests are a
delivery and its repetition, two pushes of one commit, a pull request opened and
closed, or a push and an event without an action; others write the deployments of
the services in `Built`, here one of the two, since what they write to one service's
rows no other service's loop reads. In DesiredState the second service has "-env" in
its name, and may claim the host generated for the first one. LocalWorker's configurations are
the ways an image comes about (built and pushed by buildx, pushed afterwards, dry
run, prebuilt); three jobs are two builds and a cancellation. Tenancy, ApiServer,
Resources and Console serve two requests at a time: their properties are about
what one request does to another between two of its awaits; in Resources a third
call shows what an earlier overlap left behind. In DesiredState two edits and two
runs allow an older object to meet a newer file, from the same or from the other
project of the namespace. Faults are bounded by `MaxFaults` (`MaxMishaps`,
`MaxOrchFaults`, `MaxKubectlFaults`): one or two suffice to stop on either side of every call. No run checks for deadlock: once
everything is served the systems are idle.

### Fairness

`WF(WorkerStep(w))` of the queue and of LocalWorker, `WF(OrchestratorStep(o))`: the
mains call `RunOnce` or `processNextWorkflowJob` in a loop or from a scheduler, and
every command runs under a timeout, so a process that can step does.
`WF(HandlerStep(r))` of Webhook: a request in progress goes on, as an await that is
answered resumes. `WF(Tick)`: clocks advance. No fairness on enqueueing, requests,
faults or other writers. Liveness of rollouts and local jobs is stated up to the
first fault, because a crash can leave a row DEPLOYING or running for good (the
queue's own liveness, `EventuallySettles`, includes crashes).

## 4. Proofs

`WorkflowQueueProofs` proves, for all sets of jobs and builders, budgets, leases,
policies and fault bounds: `TypeOK`, `AttemptBudget`, `UniqueAttempt`,
`LeaseExclusion`, `SoleWorker`, and that the queue implements RetryLedger and
JobBoard. The assumptions are those stated with the constants.

The inductive invariant `IInv` adds to the properties: `RowLockInv` (the row lock
belongs to the open claim), `LockTimeInv` (exactly running rows carry a lock
time), `ClaimInv` (what the SELECT saw still holds at the COMMIT, since reports
wait for the lock), `AttemptInv` (an active builder's attempt number has been
counted), `LeaseInv` and `ClaimLeaseInv` (an active builder owns the row, or its
lease lapsed before the present owner's claim, or the job is closed, unless a
non-owner reported), and `SoleInv` (a row that was never reclaimed is not back in
the queue while someone works on it). `UniqueAttempt` needs `ClaimInv`: the number a
claim will hand out is larger than every number in use. `AttemptBudget` is
inductive only because requeueing and reclaiming check the budget and claims
are serialised by the lock. For the ledger one more fact is needed: a row never
enqueued has no attempts (`BlankInv`).

`DeploymentProofs` proves, for Reconciler, type correctness, `NoDanglingRollout` and
`CleanedUpIsGone` for all sets of deployments, workloads and orchestrators. The
strengthening is
`CleanupInv`: as long as no two orchestrators overlapped, the row at hand is never
CLEANED_UP (only its own last step writes that), and nothing runs between the
deletion and its report.

For BuildPipeline it proves `TypeOK`, `DigestOfCommit`, `AnnouncedIsPushed`,
`SucceededHasImage`, `NoDanglingBuild`, and `KeepsToBoard`: the pipeline is a
JobBoard with something to do for its workers. Together with `ImplementsBoard` of
the queue this says that builders may be put on the row locks and leases of
WorkflowQueue without seeing more than the board. The four properties are about
the tables, and the code writes the tables from copies: job payloads, build
contexts, requests between their check and their write. `Sound` says of each kind
of copy what it still has in common with the tables (`JobSound`, `WorkerSound`,
`RequestSound`, and `DeploymentSound` of the rows themselves). Copies stay sound
because the tables only grow (`Grows`): no step takes back a commit, a pushed tag,
an image of a deployment, or a payload. That argument is made once per action, not
per action and copy.

For DesiredState it proves type correctness, `HostsAreApart` and `AppliedCanStart`, for
all slugs, services, resources and specifications. Three layers lead there. First what
the compilers emit: their lists are joined with `FlattenSeq`, whose value for lists of
every length is found by induction over the naturals (`LeastElement`,
`UpwardInduction`); then the range of `compileProject` and `compileProjectProvisioning`
is a union, object by object (`ServiceObject`, `Provisioned`). Second the names: slugs
are joined by "-", so ids of two objects may coincide, and the point is which ones
cannot: `SameObject` (no two needed objects of one compilation) and `Unharmed`
(provisioning anybody's resources never touches what a project needs). In a name without "-env" the replacement of
`FirstEnvReplaced` hits the last word, whatever else `Reword` holds. Third the
invariant `DesiredInv`: files and commands are typed, the cluster holds only what the
compilers made (`ClusterMade`), commands are told apart (`Numbered`), and during an
undisturbed `k8s-apply` every object it must leave behind is in place, or still to
come, or the command has failed (`ApplyHolds`). The property, which speaks of answers
only, is not inductive without the last one.

`LocalWorkerProofs` proves `HandoutsCounted`, `RowsAgree` and `ImageOfCommit`. In
`HandInv` a worker's copy of the row is as good as the row (`CopyInv`), which is why
writing the whole copy back in `Report` loses nothing, and two active workers hold
different jobs. `ImageInv`, for runs in which no command was killed, follows a tree
from the clone directory to the tag: whoever is between `git clone` and the digest
has the directory to itself, since `git clone` fails on one that exists, and a tag
other than `latest` never names another tree.

`WebhookProofs` proves `OncePerDelivery`, `NoOrphanDeployment`,
`AcceptedIsComplete` and `ClosedIsCleaned`. `OwnInv`: a request that got past
`createEvent`, or left a job or a deployment, is the only one of its delivery.
`ServedInv`: what the loop has been through has its job and its row. `CleanInv` and
`FreshInv`: a preview that was there when the services were looked up and is still
unmarked belongs to a service the loop has not reached, or to the batch being
marked; and no deployment that is still to be created has been seen by anyone.
`RowsInv` is about single rows (`Sound`): a busy row has been stirred, and a marked
one is stirred, still marked or ended. What others write to a row keeps it sound
(`WrittenFacts`) and takes back neither its owner nor its marks, so that the
other parts of the invariant do not depend on it (`WriteStep`).

`TenancyProofs` proves `SignupsDoNotCollide`, `AdminsAccounted`,
`OrganizationsAreOwned`, `RejectedIsStopped` and the action property
`QuotaHeldUnlessRaced`. The first four are about what two
awaits of a request leave open, so the invariant says who overlapped whom:
`WithInv` (signups in progress at the same time know of each other, on both sides),
`CollideInv` (past its lookup a signup has slug and email for itself, or a mate that
overlapped it; an answered one too, `PairInv`), `AccountInv` (the password of a row
tells which signup wrote it; an administrator nobody appointed is one by that
signup's policy; whoever counted no accounts overlapped every signup that wrote one
since), `OrgInv` (an organization without a member has a signup on its way to
`addMember`) and `StopInv` (a request that arrived stopped gets past no check).
For the quota, `QuotaInv` says that a request about to write, which nothing slipped in
front of, still fits: usage plus increment is within the limit it was checked against.
Usage is monotone in rows and memberships (`UsageShrinks`), and one row adds its
megabytes or one (`UsageAdds`); for the sum over resources this rests on `StorageAdds`
and `StorageGrows`, which show by induction on the size of the set that the recursion
of `MapThenSumSet` is well defined and does not depend on the order of its choices. The
attempt to prove it corrected the property twice: a concurrent signup for the same
email can give an account an organization that already has projects between check and
write, so that a membership counts as a race too (five requests, more than the run
has); and a production deployment was compared with the limit for previews.

`ResourcesProofs` proves `ReferencesResolve`, `DeletedIsGone`, `ConnectionIsWhole`
and the action properties `UserVariablesSurvive` and `ReadyIsKept`, for both
repositories. Calls that run at the same time know of each other (`WithInv`), and
each part of the invariant says what a call in the middle can rely on, or whom it
overlapped otherwise: the status an update holds (`StaleInv`), the variable a
deletion looked at before it removes it (`UserInv`), the secret id a write holds
(`HandInv`, `RefInv`). For deletions, `GoneInv` says that whoever found the row
before it went overlapped its deletion, `SecretInv` that the secrets went before
the row, and `EnvInv` and `SweepInv` that every injected variable is on the list of
its attachment, and on the list of the deletion that read it, or is in `loose` or
from an overlap. `WholeInv` is about the quiet case (`Calm`): a writer then works on the
row as it found it (`Wrote`) and leaves a connection of its own, whose mark can no
longer change (`ByInv`). The argument for a step is made in two stages: every
operation's step is a `Step(c)`, which leaves all other calls alone and keeps the
caller's identity, and one lemma per part says which `Step`s keep it; starting a
call, which writes `with` of others, is treated apart (`Started`). The attempt to
prove `ReadyIsKept` showed that an earlier form of it, which allowed only
overlaps with provisioning, fails with four calls: an update can hand a stale
status on to another one.

`ApiServerProofs` proves type correctness, `NoOrphans`, `UpdatesReachRows`, `InScope` and
`ServersAgree`, for all tables, callers and numbers of requests. The route tables are
examined once, row by row: each has the kind of row its path names, checks before its
effect, and looks a row up before it checks its scope (`NodeTable` for api.ts,
`PermissionTable` and `StepTable` for the decorators and methods of the NestJS side). A
request is then a walk through the steps of some route, and `Past(x, step)` says which
checks are behind it. The invariant adds to `NoOrphans`: `Cleared` (what the passed
checks say of the caller), `Settled` (what an answer implies), and what a check still
guarantees when others went on in between: in NestJS the project stays in the
organization that was checked for as long as it exists (`StillScoped`), which needs that
the database gives no id out twice (`RowsUsed`); in the node server, which gives way only
where it reads a body, the parent is still there (`ParentThere`).

`ConsoleProofs` proves `ChangesWereAllowed` and `AnswersAreTrue`. A request has done
nothing before it runs (`Untouched`); a statement that changes something has passed the
guard as a write (`GuardedWrite`) or is a PRAGMA call on a SQLite file, for which the
guard has asked the right to read only (`Slips`, `GuardedRead`); a statement at the server passed the guard of
its engine for the connection the request read (`ServerInv`), and a request turned
away never comes to run (`AnswerInv`): that is what the late commits of
`databaseEnds` need, which happen when the request is already answered.

The assumptions are those stated with the constants, which TLC evaluates in every
run: numbers are numbers, `None` and names such as `latest` or the console's file are
no ids, some sets are not empty; requests of the console carry an operation and a
statement the routes know; a scenario of Tenancy is an installation at rest,
in which organizations have members, tokens and rows belong to members, and rows are
finitely many; ids of different tables of ApiServer differ; `Reword` makes "config" of "env" itself; and slugs, service names
and resource names of DesiredState are sequences of words, the names not empty. The
inductive invariants were checked with TLC, on the instances of section 3 or
somewhat larger ones, before they were proved.

Only model-checked, and why: `EventuallySettles`, `EveryRolloutEnds`,
`DeliveryIsHandled` and `EveryJobSettles`. Liveness rests on fairness and ENABLED, which
are outside the prover's reach. Every other property of a passing run is stated by a
theorem. The library's induction theorems take an operator as a parameter and cannot be
used here; where data needs induction (`FlattenSeq`, `MapThenSumSet`) it is done with a
set of naturals in the place of the predicate.

## 5. Abstractions

* Payloads, results, logs, events, timestamps other than runAfter/lockedAt, and
  error texts. An event or log append that fails has the effect of its store
  call failing, which is modelled.
* WorkflowQueue: `cancelled` jobs (no code writes that status); clock skew.
* BuildPipeline: pushes are enabled (`Config.Push`), digests are those of the
  build's content; services with prebuilt images or a local path; deployments
  created with a caller-supplied image; deployments without a commit (their tag
  derives from the job id). `rollbackDeployment` may pick any deployment with an
  image, which covers the explicit choice and the READY lookup. `Reports` are
  the statuses reported through the status endpoint, here READY.
* Reconciler: `DryRun` is off. Store calls are atomic, which holds within one
  process of the file store. ROLLBACK_REQUESTED rows are initial: the stores'
  `createDeployment` takes any status, and no code updates a row to that one.
  Status reports other than an unnamed image are left out.
* Webhook: signatures are valid; one repository.
* LocalWorker: one service; build arguments and caches are left out.
* Tenancy: plans, audit records and the rate limiter are left out; usage per day
  is usage, within one day.
* ApiServer: quota and security policy are a free choice (`policy`), contents of
  rows and answers are left out. The database never gives an id out twice (`used`);
  the in-memory store of the node server, whose ids are names, may.
* Resources: one resource name; values of secrets are left out.
* DesiredState: lengths, ports, probes, storage sizes, security contexts.
* Console: row limits and masking are left out; statements are known by class.

### Not modelled

* Text algorithms without state: framework detection, compose import, parsing of
  .env files, masking and redaction, `validateServiceSecurity`, the error
  catalogue. They are regular expressions over strings; a model would
  transliterate them.
* Cryptography: password hashes, token and webhook signatures, the vault's
  sealing.
* What external providers do (CREATE DATABASE, buckets, DNS) beyond succeeding or
  failing.
* The file store's lost updates between processes: its mutex is local and the
  code promises nothing across processes.
* User interfaces (dashboard, most of the CLI, API client, SDK), development and
  performance scripts, the stub services, infrastructure files.
* Log, event and audit listings; domains other than service host names.

## 6. Plan

Done: every module of section 2, and the proofs of section 4. What could follow:

1. LocalWorker against JobBoard, as WorkflowQueue is: its Prisma claim is two
   statements without a row lock, so that the board would need a claim that may be
   refused late.
2. A module FileStore: what whole-file writes of several processes preserve.
3. The storage quota for sizes in gigabytes, once the code adds them as it counts them.
