----------------------------- MODULE LocalWorker -----------------------------
(***************************************************************************)
(* The TypeScript worker: processNextWorkflowJob (workflows.ts) over the   *)
(* Prisma table or the in-memory list, with the build and rollout handlers *)
(* of deployment-workflow.ts, build-executor.ts, source-control.ts,        *)
(* registry.ts and command-runner.ts.  All workers run on one host and     *)
(* build deployments of one service.                                       *)
(*                                                                         *)
(* A commit stands for the source tree, the image built from it and the    *)
(* image tag.  Logs, events, build arguments and caches are left out.      *)
(***************************************************************************)
EXTENDS Naturals, FiniteSets

CONSTANTS
    Workers, Jobs, Deployments,
    Head,        \* the tree at the head of the branch
    CommitOf,    \* the commit of each deployment, None for the branch head
    TypeOf,      \* the type of its job
    None,
    Options,     \* backend, source type, dryRun, how to push, metadata file or not,
                 \* and which deployments there are
    MaxAttempts, \* maxAttempts of the job rows
    RetryBase, RetryMax,   \* retryDelayMs and maxRetryDelayMs
    MaxOutside,  \* bound on rollouts and cancellations
    MaxMishaps   \* bound on failing repository calls, crashes and killed commands

Types == {"build-and-deploy", "preview-deploy", "deployment-cancel"}
Trees == ({Head} \cup {CommitOf[d] : d \in Deployments}) \ {None}
Tags  == Trees \cup {"latest"}

ASSUME NumbersAssumption ==
    /\ Jobs \subseteq Nat /\ Deployments \subseteq Jobs
    /\ {MaxAttempts, RetryBase, RetryMax, MaxOutside, MaxMishaps} \subseteq Nat
    /\ MaxAttempts > 0 /\ RetryBase > 0
ASSUME OptionsAssumption ==
    Options \subseteq [backend : {"prisma", "memory"}, source : {"github", "image"},
                       dryRun : BOOLEAN, push : {"no", "buildx", "after"}, metadata : BOOLEAN,
                       created : SUBSET Deployments]
ASSUME DeploymentsAssumption == Deployments # {} /\ TypeOf \in [Deployments -> Types]
\* A commit hash is a value of its own.
ASSUME TreesAssumption == Head # None /\ None # "latest" /\ "latest" \notin Trees

VARIABLES
    opt,       \* options of the worker process
    now,       \* the clock
    rows,      \* WorkflowJob table
    dep,       \* Deployment table
    workspace, \* the tree in the service's clone destination, or None
    local,     \* the content of each tag in the host's image store
    registry,  \* the content of each tag in the registry
    metadata,  \* the buildx metadata file of the service
    worker,    \* what each worker is doing
    rollout,   \* reconcileDeploymentRollout calls in progress
    handed,    \* how often each job was handed out
    outside, faults, kills

vars == <<opt, now, rows, dep, workspace, local, registry, metadata, worker, rollout,
          handed, outside, faults, kills>>
store == <<workspace, local, registry, metadata>>

Statuses == {"queued", "BUILDING", "IMAGE_READY", "DEPLOYING", "READY", "BUILD_FAILED",
             "FAILED", "CANCELLED"}
Commands == {"clone", "checkout", "build", "push"}
InTry    == Commands \cup {"digest", "record", "service"}
Phases   == {"idle", "found", "claimed", "resolved", "complete", "failing", "failed"} \cup InTry

Row == [status : {"absent", "queued", "running", "succeeded", "failed"}, type : Types,
        dep : Deployments, attempts : Nat, runAfter : Nat, locked : BOOLEAN]

TypeOK ==
    /\ opt \in Options
    /\ now \in Nat
    /\ rows \in [Jobs -> Row]
    /\ dep \in [Deployments -> [status : Statuses, image : Tags \cup {None},
                                digest : Tags \cup {None}]]
    /\ workspace \in Trees \cup {None}
    /\ local \in [Tags -> Trees \cup {None}] /\ registry \in [Tags -> Trees \cup {None}]
    /\ metadata \in Trees \cup {None}
    /\ worker \in [Workers -> [pc : Phases, job : Jobs, claim : Row,
                               digest : Tags \cup {None}]]
    /\ rollout \in [Deployments -> {"idle", "read", "started"}]
    /\ handed \in [Jobs -> 0..MaxAttempts]
    /\ outside \in 0..MaxOutside /\ faults \in 0..MaxMishaps /\ kills \in 0..MaxMishaps
    \* a waiting row carries no lock, so the lease test of isWorkflowJobReady never decides
    /\ \A j \in Jobs : rows[j].locked <=> rows[j].status = "running"

\* createWorkflowJobRecord, workflowJobData
NewJob(type, d) == [status |-> "queued", type |-> type, dep |-> d, attempts |-> 0,
                    runAfter |-> now, locked |-> FALSE]

Idle == [pc |-> "idle", job |-> CHOOSE j \in Jobs : TRUE,
         claim |-> [status |-> "absent", type |-> "build-and-deploy",
                    dep |-> CHOOSE d \in Deployments : TRUE, attempts |-> 0, runAfter |-> 0,
                    locked |-> FALSE],
         digest |-> None]

\* Each deployment has been created together with its job.
Init ==
    /\ opt \in Options /\ now = 0
    /\ rows = [j \in Jobs |-> IF j \in opt.created THEN NewJob(TypeOf[j], j) ELSE Idle.claim]
    /\ dep = [d \in Deployments |-> [status |-> "queued", image |-> None, digest |-> None]]
    /\ workspace = None /\ metadata = None
    /\ local = [t \in Tags |-> None] /\ registry = [t \in Tags |-> None]
    /\ worker = [w \in Workers |-> Idle]
    /\ rollout = [d \in Deployments |-> "idle"]
    /\ handed = [j \in Jobs |-> 0] /\ outside = 0 /\ faults = 0 /\ kills = 0

--------------------------------------------------------------------------------
(***************************************************************************)
(* The job records                                                         *)
(***************************************************************************)
Least(S)    == CHOOSE x \in S : \A y \in S : x <= y
Greatest(S) == CHOOSE x \in S : \A y \in S : x >= y

retryDelay(attempts) ==
    Least({RetryMax, RetryBase * Greatest({1, 2^Greatest({0, attempts - 1})})})

isWorkflowJobReady(j) == rows[j].status = "queued" /\ rows[j].runAfter <= now

\* Ordered by runAfter, then by creation.
First(j) == \A i \in Jobs : isWorkflowJobReady(i) =>
               \/ rows[j].runAfter < rows[i].runAfter
               \/ rows[j].runAfter = rows[i].runAfter /\ j <= i

claimWorkflowJobRecord(row) ==
    [row EXCEPT !.status = "running", !.attempts = @ + 1, !.locked = TRUE]

completeWorkflowJobRecord(row) == [row EXCEPT !.status = "succeeded", !.locked = FALSE]

failWorkflowJobRecord(row, retryable) ==
    IF retryable /\ row.attempts < MaxAttempts
    THEN [row EXCEPT !.status = "queued", !.runAfter = now + retryDelay(row.attempts),
                     !.locked = FALSE]
    ELSE [row EXCEPT !.status = "failed", !.runAfter = now, !.locked = FALSE]

HasHandler(row) == row.type \in {"build-and-deploy", "preview-deploy"}

At(w, pc)   == worker[w].pc = pc
Goto(w, pc) == worker' = [worker EXCEPT ![w].pc = pc]
MyDep(w)    == worker[w].claim.dep
MyRow(w)    == rows[worker[w].job]

HandOut(w, j) ==
    /\ rows' = [rows EXCEPT ![j] = claimWorkflowJobRecord(rows[j])]
    /\ worker' = [worker EXCEPT ![w] = [Idle EXCEPT !.pc = "claimed", !.job = j,
                                                    !.claim = claimWorkflowJobRecord(rows[j])]]
    /\ handed' = [handed EXCEPT ![j] = @ + 1]

\* In memory: claimNextWorkflowJobFromList in one go.
claimFromList(w) ==
    /\ opt.backend = "memory" /\ At(w, "idle")
    /\ \E j \in Jobs : isWorkflowJobReady(j) /\ First(j) /\ HandOut(w, j)
    /\ UNCHANGED <<opt, now, dep, store, rollout, outside, faults, kills>>

\* In the database: a select ...
findFirst(w) ==
    /\ opt.backend = "prisma" /\ At(w, "idle")
    /\ \E j \in Jobs :
          /\ isWorkflowJobReady(j) /\ First(j)
          /\ worker' = [worker EXCEPT ![w].pc = "found", ![w].job = j]
    /\ UNCHANGED <<opt, now, rows, dep, store, rollout, handed, outside, faults, kills>>

\* Variant: the update does not look at the row again.
updateManyUnconditional(w) ==
    /\ At(w, "found")
    /\ HandOut(w, worker[w].job)
    /\ UNCHANGED <<opt, now, dep, store, rollout, outside, faults, kills>>

\* ... and an update under the same condition.  A lost race leads back to the select, in the
\* same call or, after three rounds, in the next.
updateMany(w) ==
    /\ At(w, "found")
    /\ IF isWorkflowJobReady(worker[w].job)
       THEN HandOut(w, worker[w].job)
       ELSE worker' = [worker EXCEPT ![w] = Idle] /\ UNCHANGED <<rows, handed>>
    /\ UNCHANGED <<opt, now, dep, store, rollout, outside, faults, kills>>

Report(w, row) ==
    /\ rows' = [rows EXCEPT ![worker[w].job] = row]
    /\ worker' = [worker EXCEPT ![w] = Idle]
    /\ UNCHANGED <<opt, now, dep, store, rollout, handed, outside, faults, kills>>

noHandler(w) ==
    /\ At(w, "claimed") /\ ~HasHandler(worker[w].claim)
    /\ Report(w, failWorkflowJobRecord(worker[w].claim, FALSE))

completeInQueue(w) == At(w, "complete") /\ Report(w, completeWorkflowJobRecord(worker[w].claim))

\* Variant: the error of a handler is not reported.
failNotReported(w) == At(w, "failed") /\ Report(w, MyRow(w))

failInQueue(w) == At(w, "failed") /\ Report(w, failWorkflowJobRecord(worker[w].claim, TRUE))

--------------------------------------------------------------------------------
(***************************************************************************)
(* processBuilderWorkflowJob                                               *)
(***************************************************************************)
resolveDeploymentWorkflowState(w) ==
    /\ At(w, "claimed") /\ HasHandler(worker[w].claim)
    /\ worker' = [worker EXCEPT ![w].pc = "resolved", ![w].digest = dep[MyDep(w)].digest]
    /\ UNCHANGED <<opt, now, rows, dep, store, rollout, handed, outside, faults, kills>>

\* What executeBuildWorkflow does after each of its steps; a dry run executes no command.
AfterBuild == IF opt.push = "after" /\ ~opt.dryRun THEN "push" ELSE "record"

NextCommand(d, pc) ==
    CASE pc = "resolved" /\ opt.dryRun -> "digest"
      [] pc = "resolved" /\ opt.source = "image" ->
            IF opt.push = "buildx" /\ ~opt.dryRun THEN "push" ELSE "digest"
      [] pc = "resolved" -> "clone"
      [] pc = "clone"    -> IF CommitOf[d] = None THEN "build" ELSE "checkout"
      [] pc = "checkout" -> "build"
      [] pc = "build"    -> "digest"
      [] pc = "push"     -> IF opt.source = "image" THEN "digest" ELSE "record"

Advance(w) == Goto(w, NextCommand(MyDep(w), worker[w].pc))

markBuilding(w) ==
    /\ At(w, "resolved")
    /\ dep' = [dep EXCEPT ![MyDep(w)].status = "BUILDING"]
    /\ Advance(w)
    /\ UNCHANGED <<opt, now, rows, store, rollout, handed, outside, faults, kills>>

\* imageFor: the tag is the revision; a prebuilt image keeps its name.
imageFor(d) == IF opt.source = "image" \/ CommitOf[d] = None THEN "latest" ELSE CommitOf[d]

\* Variant: an existing checkout is used again.
cloneRepositoryAnyway(w) ==
    /\ At(w, "clone")
    /\ IF workspace = None THEN workspace' = Head ELSE UNCHANGED workspace
    /\ Advance(w)
    /\ UNCHANGED <<opt, now, rows, dep, local, registry, metadata, rollout, handed, outside, faults, kills>>

\* git clone: it refuses a destination that exists.
cloneRepository(w) ==
    /\ At(w, "clone")
    /\ IF workspace = None
       THEN workspace' = Head /\ Advance(w)
       ELSE Goto(w, "failing") /\ UNCHANGED workspace
    /\ UNCHANGED <<opt, now, rows, dep, local, registry, metadata, rollout, handed, outside, faults, kills>>

checkout(w) ==
    /\ At(w, "checkout")
    /\ IF workspace # None
       THEN workspace' = CommitOf[MyDep(w)] /\ Advance(w)
       ELSE Goto(w, "failing") /\ UNCHANGED workspace
    /\ UNCHANGED <<opt, now, rows, dep, local, registry, metadata, rollout, handed, outside, faults, kills>>

\* docker buildx build --push or --load, --metadata-file.
buildImage(w) ==
    LET tag == imageFor(MyDep(w)) IN
    /\ At(w, "build")
    /\ IF workspace = None
       THEN Goto(w, "failing") /\ UNCHANGED <<local, registry, metadata>>
       ELSE /\ IF opt.push = "buildx"
               THEN registry' = [registry EXCEPT ![tag] = workspace] /\ UNCHANGED local
               ELSE local' = [local EXCEPT ![tag] = workspace] /\ UNCHANGED registry
            /\ metadata' = IF opt.metadata THEN workspace ELSE metadata
            /\ Advance(w)
    /\ UNCHANGED <<opt, now, rows, dep, workspace, rollout, handed, outside, faults, kills>>

\* The digest in the metadata file; else, in a dry run, one made from the image name;
\* else the deployment's earlier one.
resolveBuildDigest(w) ==
    /\ At(w, "digest")
    /\ worker' = [worker EXCEPT
          ![w].digest = IF opt.source # "image" /\ metadata # None THEN metadata
                        ELSE IF opt.dryRun THEN imageFor(MyDep(w)) ELSE @,
          ![w].pc = IF opt.source = "image" THEN "record" ELSE AfterBuild]
    /\ UNCHANGED <<opt, now, rows, dep, store, rollout, handed, outside, faults, kills>>

pushImage(w) ==
    LET tag == imageFor(MyDep(w)) IN
    /\ At(w, "push")
    /\ registry' = [registry EXCEPT ![tag] = IF opt.source = "image" THEN Head ELSE local[tag]]
    /\ Advance(w)
    /\ UNCHANGED <<opt, now, rows, dep, workspace, local, metadata, rollout, handed, outside, faults, kills>>

\* A command exits with an error.
commandFails(w) ==
    /\ worker[w].pc \in Commands
    /\ Goto(w, "failing")
    /\ UNCHANGED <<opt, now, rows, dep, store, rollout, handed, outside, faults, kills>>

\* A command is killed by its timeout: the exit code is null, `exitCodeRaw ?? 0` makes it
\* 0, and the workflow goes on.
commandKilled(w) ==
    /\ worker[w].pc \in Commands
    /\ faults + kills < MaxMishaps /\ kills' = kills + 1
    /\ Advance(w)
    /\ UNCHANGED <<opt, now, rows, dep, store, rollout, handed, outside, faults>>

recordImage(w) ==
    /\ At(w, "record")
    /\ dep' = [dep EXCEPT ![MyDep(w)] = [status |-> "IMAGE_READY", image |-> imageFor(MyDep(w)),
                                         digest |-> worker[w].digest]]
    /\ Goto(w, "service")
    /\ UNCHANGED <<opt, now, rows, store, rollout, handed, outside, faults, kills>>

\* The service row and the event; nothing in this module reads them.
updateService(w) ==
    /\ At(w, "service")
    /\ Goto(w, "complete")
    /\ UNCHANGED <<opt, now, rows, dep, store, rollout, handed, outside, faults, kills>>

\* Variant: the catch block only rethrows.
buildFailedSilently(w) ==
    /\ At(w, "failing")
    /\ Goto(w, "failed")
    /\ UNCHANGED <<opt, now, rows, dep, store, rollout, handed, outside, faults, kills>>

\* The catch block, which rethrows.
buildFailed(w) ==
    /\ At(w, "failing")
    /\ dep' = [dep EXCEPT ![MyDep(w)].status = "BUILD_FAILED"]
    /\ Goto(w, "failed")
    /\ UNCHANGED <<opt, now, rows, store, rollout, handed, outside, faults, kills>>

\* A repository call throws: in the try block its catch runs, elsewhere the worker's.  The
\* report of a failure has no handler of its own.
repositoryFails(w) ==
    /\ opt.backend = "prisma" /\ faults + kills < MaxMishaps /\ faults' = faults + 1
    /\ \/ worker[w].pc \in InTry /\ Goto(w, "failing") /\ UNCHANGED rows
       \/ worker[w].pc \in {"claimed", "resolved", "failing"} /\ Goto(w, "failed") /\ UNCHANGED rows
       \/ /\ At(w, "complete") /\ Goto(w, "failed")
          /\ rows' \in {rows, [rows EXCEPT ![worker[w].job] =
                                  completeWorkflowJobRecord(worker[w].claim)]}
       \/ worker[w].pc \in {"found", "failed"} /\ worker' = [worker EXCEPT ![w] = Idle]
          /\ UNCHANGED rows
    /\ UNCHANGED <<opt, now, dep, store, rollout, handed, outside, kills>>

crash(w) ==
    /\ opt.backend = "prisma" /\ faults + kills < MaxMishaps /\ faults' = faults + 1
    /\ ~At(w, "idle")
    /\ worker' = [worker EXCEPT ![w] = Idle]
    /\ UNCHANGED <<opt, now, rows, dep, store, rollout, handed, outside, kills>>

--------------------------------------------------------------------------------
(***************************************************************************)
(* reconcileDeploymentRollout, cancellation, the host                      *)
(***************************************************************************)
Outside == outside < MaxOutside /\ outside' = outside + 1

rolloutReads(d) ==
    /\ rollout[d] = "idle" /\ dep[d].status \in {"IMAGE_READY", "DEPLOYING"}
    /\ Outside
    /\ rollout' = [rollout EXCEPT ![d] = IF dep[d].status = "DEPLOYING" THEN "started" ELSE "read"]
    /\ UNCHANGED <<opt, now, rows, dep, store, worker, handed, faults, kills>>

rolloutStarts(d) ==
    /\ rollout[d] = "read"
    /\ dep' = [dep EXCEPT ![d].status = "DEPLOYING"]
    /\ rollout' = [rollout EXCEPT ![d] = "started"]
    /\ UNCHANGED <<opt, now, rows, store, worker, handed, outside, faults, kills>>

rolloutEnds(d) ==
    /\ rollout[d] = "started"
    /\ \E status \in {"READY", "FAILED"} : dep' = [dep EXCEPT ![d].status = status]
    /\ rollout' = [rollout EXCEPT ![d] = "idle"]
    /\ UNCHANGED <<opt, now, rows, store, worker, handed, outside, faults, kills>>

\* A cancellation: its job, for which no handler is registered, follows the status.
cancelDeployment(d) ==
    /\ d \in opt.created /\ dep[d].status # "CANCELLED"
    /\ Outside
    /\ \E j \in Jobs :
          /\ rows[j].status = "absent"
          /\ rows' = [rows EXCEPT ![j] = NewJob("deployment-cancel", d)]
    /\ dep' = [dep EXCEPT ![d].status = "CANCELLED"]
    /\ UNCHANGED <<opt, now, store, worker, rollout, handed, faults, kills>>

\* Somebody empties the work directory while nothing is being built.
cleanWorkspace ==
    /\ workspace # None /\ \A w \in Workers : At(w, "idle")
    /\ workspace' = None
    /\ UNCHANGED <<opt, now, rows, dep, local, registry, metadata, worker, rollout, handed,
                   outside, faults, kills>>

\* Time matters to waiting jobs only.
Tick ==
    /\ \E j \in Jobs : rows[j].status = "queued" /\ rows[j].runAfter > now
    /\ now' = now + 1
    /\ UNCHANGED <<opt, rows, dep, store, worker, rollout, handed, outside, faults, kills>>

WorkerStep(w) ==
    \/ claimFromList(w) \/ findFirst(w) \/ updateMany(w) \/ noHandler(w)
    \/ resolveDeploymentWorkflowState(w) \/ markBuilding(w) \/ cloneRepository(w) \/ checkout(w)
    \/ buildImage(w) \/ resolveBuildDigest(w) \/ pushImage(w) \/ recordImage(w)
    \/ updateService(w) \/ completeInQueue(w) \/ buildFailed(w) \/ failInQueue(w)

Next ==
    \/ \E w \in Workers : WorkerStep(w) \/ commandFails(w) \/ commandKilled(w)
                          \/ repositoryFails(w) \/ crash(w)
    \/ \E d \in Deployments : rolloutReads(d) \/ rolloutStarts(d) \/ rolloutEnds(d)
                              \/ cancelDeployment(d)
    \/ cleanWorkspace \/ Tick

\* Worker processes keep going and time passes.
Spec == Init /\ [][Next]_vars /\ WF_vars(Tick) /\ \A w \in Workers : WF_vars(WorkerStep(w))

--------------------------------------------------------------------------------
(***************************************************************************)
(* Properties                                                              *)
(***************************************************************************)

\* The attempt counter a worker carries in its copy of the row and writes back with the whole
\* record is the number of times the job was handed out, which never exceeds maxAttempts;
\* no two workers hold one job (claimNextWorkflowJob selects and updates in two statements).
HandoutsCounted ==
    /\ \A j \in Jobs : handed[j] = rows[j].attempts
    /\ \A j \in Jobs : handed[j] <= MaxAttempts
    /\ \A v, w \in Workers : v # w /\ ~At(v, "idle") /\ ~At(v, "found") /\ ~At(w, "idle")
                             /\ ~At(w, "found") => worker[v].job # worker[w].job

\* A job and its deployment tell the same story: as long as no repository call failed, BUILDING
\* is somebody's work in progress; a succeeded build left its image in the row
\* (processBuilderWorkflowJob writes it before the job is reported), and nothing is rolled out
\* that was not built.
RowsAgree ==
    /\ TypeOK
    /\ \A d \in Deployments : faults = 0 /\ dep[d].status = "BUILDING" =>
          \E w \in Workers : ~At(w, "idle") /\ ~At(w, "found") /\ MyDep(w) = d
    /\ \A j \in Jobs : rows[j].status = "succeeded" =>
          dep[rows[j].dep].image # None
    /\ \A d \in Deployments : dep[d].status \in {"DEPLOYING", "READY"} => dep[d].image # None

\* What is announced exists: unless a command was killed by its timeout, an image that a
\* deployment of a git service names holds the tree of that deployment's commit, whatever was
\* retried, cloned or built in between (the clone destination is shared by all builds of the
\* service), it is in the registry when pushing was asked for, and a recorded digest is its own.
ImageOfCommit ==
    \A d \in Deployments :
        opt.source = "github" /\ ~opt.dryRun /\ kills = 0
            /\ dep[d].image # None /\ CommitOf[d] # None =>
        /\ (IF opt.push = "no" THEN local ELSE registry)[dep[d].image] = CommitOf[d]
        /\ dep[d].digest \in {None, CommitOf[d]}

\* Without repository failures and crashes every build job ends succeeded or failed, however often its
\* commands fail or are killed: retries come due and the attempts run out.
EveryJobSettles ==
    \A j \in Deployments : rows[j].status = "queued" ~>
                       (rows[j].status \in {"succeeded", "failed"} \/ faults > 0)
================================================================================
