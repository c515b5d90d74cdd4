----------------------------- MODULE WorkflowQueue -----------------------------
(***************************************************************************)
(* The WorkflowJob table and the builder processes that poll it.           *)
(*                                                                         *)
(* Rows are enqueued by the API (packages/core) and claimed, completed and *)
(* failed by the Go builder (services/builder), whose PostgresStore runs   *)
(* every operation as one READ COMMITTED transaction.  A claim holds the   *)
(* row lock from SELECT ... FOR UPDATE SKIP LOCKED to its COMMIT; the two  *)
(* reports (CompleteWorkflowJob, FailWorkflowJob) wait for that lock and   *)
(* then overwrite the row, whoever owns it by then.                        *)
(*                                                                         *)
(* The Go FileStore has the same operations, each atomic, and never hands  *)
(* a running job out again; its behaviours within one process are among    *)
(* those of the instance ReclaimRunning = FALSE.  The claims of the two    *)
(* TypeScript stores have that WHERE clause too; their reports rewrite the *)
(* row from the claimed copy and are not modelled here.                    *)
(*                                                                         *)
(* Time is counted in the seconds of retryDelay.  Payloads, results and    *)
(* error texts are left out: no control decision of the queue reads them.  *)
(***************************************************************************)
EXTENDS Integers, FiniteSets

CONSTANTS
    Jobs,            \* ids of the rows that may be enqueued; ORDER BY ... id
    Workers,         \* builder processes, each running RunOnce in a loop
    None,            \* SQL NULL in "lockedBy"; no holder of a row lock
    MaxAttempts,     \* the column "maxAttempts"
    Lease,           \* ClaimOptions.LeaseSeconds
    ReclaimRunning,  \* does the claim select running rows with a lapsed lease?
    MaxFaults        \* bound on crashes and failed store calls

ASSUME JobsAssumption      == Jobs \subseteq Nat
ASSUME WorkersAssumption   == None \notin Workers
ASSUME AttemptsAssumption  == MaxAttempts \in Nat \ {0}
ASSUME LeaseAssumption     == Lease \in Nat \ {0}
ASSUME ReclaimAssumption   == ReclaimRunning \in BOOLEAN
ASSUME FaultsAssumption    == MaxFaults \in Nat

VARIABLES
    jobs,      \* the table: one row per job id
    rowLock,   \* the worker whose open claim transaction locks the row
    workers,   \* what each builder process is doing
    now,       \* the clock all processes read
    faults,    \* crashes and failed store calls so far
    disowned,  \* jobs some worker has reported on without owning them (history)
    reclaimed  \* jobs that were handed out while they were running (history)

tableVars == <<jobs, rowLock>>
queueVars == <<jobs, rowLock, workers, now, faults, disowned, reclaimed>>

NoTime == -1   \* SQL NULL in "lockedAt"

Terminal == {"succeeded", "failed"}
Statuses == {"absent", "queued", "running"} \cup Terminal

Row == [status    : Statuses,
        attempts  : Nat,
        runAfter  : Nat,
        createdAt : Nat,
        lockedBy  : Workers \cup {None},
        lockedAt  : Nat \cup {NoTime}]

\* A builder is idle, inside the claim transaction, running the handler of the
\* job it claimed, or about to report the handler's error.
Worker == [pc      : {"idle", "claiming", "working", "failing"},
           job     : Jobs \cup {None},
           attempt : Nat,
           at      : Nat]

NoRow == [status |-> "absent", attempts |-> 0, runAfter |-> 0, createdAt |-> 0,
          lockedBy |-> None, lockedAt |-> NoTime]
Idle  == [pc |-> "idle", job |-> None, attempt |-> 0, at |-> 0]

TypeOK ==
    /\ jobs \in [Jobs -> Row]
    /\ rowLock \in [Jobs -> Workers \cup {None}]
    /\ workers \in [Workers -> Worker]
    /\ \A w \in Workers : workers[w].pc # "idle" => workers[w].job \in Jobs
    /\ now \in Nat
    /\ faults \in 0..MaxFaults
    /\ disowned \subseteq Jobs
    /\ reclaimed \subseteq Jobs

Init ==
    /\ jobs = [j \in Jobs |-> NoRow]
    /\ rowLock = [j \in Jobs |-> None]
    /\ workers = [w \in Workers |-> Idle]
    /\ now = 0
    /\ faults = 0
    /\ disowned = {}
    /\ reclaimed = {}

--------------------------------------------------------------------------------
(***************************************************************************)
(* Helpers                                                                 *)
(***************************************************************************)

\* retryDelay: 1 << (attempts - 1) seconds, the exponent capped at 5.
RetryDelay(attempts) ==
    CASE attempts <= 1 -> 1
      [] attempts = 2  -> 2
      [] attempts = 3  -> 4
      [] attempts = 4  -> 8
      [] attempts = 5  -> 16
      [] OTHER         -> 32

\* Variant: the lock time is compared with the clock, not with the cutoff.
LockLapsedAtOnce(row, t) == row.lockedAt # NoTime /\ row.lockedAt <= t

LockLapsed(row, t) == row.lockedAt # NoTime /\ row.lockedAt + Lease <= t

\* Variant: a claim without the branch for running rows.
DueQueuedOnly(row, t) ==
    /\ row.status = "queued"
    /\ row.runAfter <= t
    /\ row.lockedAt = NoTime \/ LockLapsed(row, t)

\* The WHERE clause of claimWorkflowJobSQL at time t.
Due(row, t) ==
    \/ /\ row.status = "queued"
       /\ row.runAfter <= t
       /\ row.lockedAt = NoTime \/ LockLapsed(row, t)
    \/ /\ ReclaimRunning
       /\ row.status = "running"
       /\ LockLapsed(row, t)
       /\ row.attempts < MaxAttempts

\* ORDER BY "runAfter", "createdAt", id
Before(i, j) ==
    LET a == jobs[i]  b == jobs[j] IN
    \/ a.runAfter < b.runAfter
    \/ a.runAfter = b.runAfter /\ a.createdAt < b.createdAt
    \/ a.runAfter = b.runAfter /\ a.createdAt = b.createdAt /\ i < j

\* Variant: a plain SELECT, without FOR UPDATE SKIP LOCKED.
CandidatesUnlocked == {j \in Jobs : Due(jobs[j], now)}

\* SKIP LOCKED: rows locked by another transaction are not candidates.
Candidates == {j \in Jobs : Due(jobs[j], now) /\ rowLock[j] = None}

\* Variant: success also resets the attempt counter.
CompletedAndReset(row) ==
    [row EXCEPT !.status = "succeeded", !.lockedBy = None, !.lockedAt = NoTime,
                !.attempts = 0]

\* The row as CompleteWorkflowJob leaves it ("runAfter" keeps its value).
Completed(row) ==
    [row EXCEPT !.status = "succeeded", !.lockedBy = None, !.lockedAt = NoTime]

\* The row as FailWorkflowJob leaves it: requeued with a delay while attempts
\* remain, failed for good otherwise.
Failed(row) ==
    IF row.attempts < MaxAttempts
    THEN [row EXCEPT !.status = "queued", !.runAfter = now + RetryDelay(row.attempts),
                     !.lockedBy = None, !.lockedAt = NoTime]
    ELSE [row EXCEPT !.status = "failed", !.lockedBy = None, !.lockedAt = NoTime]

\* Does worker w hold the claim recorded in the row of the job it works on?
Owns(w) ==
    LET row == jobs[workers[w].job] IN
    /\ row.status = "running"
    /\ row.lockedBy = w
    /\ row.attempts = workers[w].attempt

\* The job of a worker that is running its handler or reporting its error.
Active(w) == workers[w].pc \in {"working", "failing"}
WorksOn(w, j) == Active(w) /\ workers[w].job = j

Fault == faults < MaxFaults /\ faults' = faults + 1

--------------------------------------------------------------------------------
(***************************************************************************)
(* Actions                                                                 *)
(***************************************************************************)

\* enqueueWorkflowJob: insert a queued row that is due at once.
Enqueue(j) ==
    /\ jobs[j].status = "absent"
    /\ jobs' = [jobs EXCEPT ![j] = [NoRow EXCEPT !.status = "queued",
                                                 !.runAfter = now,
                                                 !.createdAt = now]]
    /\ UNCHANGED <<rowLock, workers, now, faults, disowned, reclaimed>>

\* ClaimNextWorkflowJob up to the SELECT: reads the clock and locks the first
\* due row.  With no due row the call returns nil and changes nothing.
SelectForUpdate(w, j) ==
    /\ workers[w].pc = "idle"
    /\ j \in Candidates
    /\ \A i \in Candidates \ {j} : Before(j, i)
    /\ rowLock' = [rowLock EXCEPT ![j] = w]
    /\ workers' = [workers EXCEPT ![w] = [pc |-> "claiming", job |-> j,
                                          attempt |-> jobs[j].attempts,
                                          at |-> now]]
    /\ UNCHANGED <<jobs, now, faults, disowned, reclaimed>>

\* ClaimNextWorkflowJob from the UPDATE to the COMMIT.
CommitClaim(w) ==
    /\ workers[w].pc = "claiming"
    /\ LET j == workers[w].job IN
       /\ jobs' = [jobs EXCEPT ![j].status = "running",
                               ![j].attempts = @ + 1,
                               ![j].lockedBy = w,
                               ![j].lockedAt = workers[w].at]
       /\ rowLock' = [rowLock EXCEPT ![j] = None]
       /\ reclaimed' = IF jobs[j].status = "running" THEN reclaimed \cup {j} ELSE reclaimed
       /\ workers' = [workers EXCEPT ![w].pc = "working",
                                     ![w].attempt = @ + 1]
    /\ UNCHANGED <<now, faults, disowned>>

\* Variant: the handler requeues the job itself before it returns its error.
HandlerFailsReported(w) ==
    /\ workers[w].pc = "working"
    /\ rowLock[workers[w].job] = None
    /\ jobs' = [jobs EXCEPT ![workers[w].job] = Failed(@)]
    /\ workers' = [workers EXCEPT ![w].pc = "failing"]
    /\ UNCHANGED <<rowLock, now, faults, disowned, reclaimed>>

\* The handler returns an error: RunOnce goes on to FailWorkflowJob.
HandlerFails(w) ==
    /\ workers[w].pc = "working"
    /\ workers' = [workers EXCEPT ![w].pc = "failing"]
    /\ UNCHANGED <<jobs, rowLock, now, faults, disowned, reclaimed>>

\* updateWorkflowJob: lock the row, rewrite it.  Nothing compares the row's
\* lockedBy, status or attempts with the caller's claim.
updateWorkflowJob(w, row) ==
    LET j == workers[w].job IN
    /\ rowLock[j] = None
    /\ jobs' = [jobs EXCEPT ![j] = row]
    /\ disowned' = IF Owns(w) THEN disowned ELSE disowned \cup {j}
    /\ UNCHANGED reclaimed

\* The handler succeeded: CompleteWorkflowJob, and RunOnce returns.
CompleteWorkflowJob(w) ==
    /\ workers[w].pc = "working"
    /\ updateWorkflowJob(w, Completed(jobs[workers[w].job]))
    /\ workers' = [workers EXCEPT ![w] = Idle]
    /\ UNCHANGED <<rowLock, now, faults>>

\* FailWorkflowJob, and RunOnce returns.
FailWorkflowJob(w) ==
    /\ workers[w].pc = "failing"
    /\ updateWorkflowJob(w, Failed(jobs[workers[w].job]))
    /\ workers' = [workers EXCEPT ![w] = Idle]
    /\ UNCHANGED <<rowLock, now, faults>>

\* CompleteWorkflowJob returns an error, so RunOnce goes on to FailWorkflowJob:
\* the transaction was rolled back, or it was committed and only the answer
\* was lost.
CompleteErrors(w) ==
    /\ workers[w].pc = "working"
    /\ Fault
    /\ \/ UNCHANGED <<jobs, disowned, reclaimed>>
       \/ updateWorkflowJob(w, Completed(jobs[workers[w].job]))
    /\ workers' = [workers EXCEPT ![w].pc = "failing"]
    /\ UNCHANGED <<rowLock, now>>

\* The process dies, its claim transaction is rolled back, or the error of
\* FailWorkflowJob is dropped (`_ = b.Store.FailWorkflowJob`).  The row keeps
\* what was committed; an open transaction's lock is released.
Abandon(w) ==
    /\ workers[w].pc # "idle"
    /\ Fault
    /\ rowLock' = [j \in Jobs |-> IF rowLock[j] = w THEN None ELSE rowLock[j]]
    /\ workers' = [workers EXCEPT ![w] = Idle]
    /\ UNCHANGED <<jobs, now, disowned, reclaimed>>

\* A comparison with the clock that is still to become true.  Time passes only
\* while there is one: without it no step depends on the clock.
TimerPending ==
    \/ \E j \in Jobs : jobs[j].status = "queued" /\ jobs[j].runAfter > now
    \/ \E j \in Jobs : jobs[j].lockedAt # NoTime /\ jobs[j].lockedAt + Lease > now
    \/ \E w \in Workers : workers[w].pc = "claiming" /\ workers[w].at + Lease > now

Tick ==
    /\ TimerPending
    /\ now' = now + 1
    /\ UNCHANGED <<jobs, rowLock, workers, faults, disowned, reclaimed>>

\* One RunOnce of worker w.
WorkerStep(w) ==
    \/ \E j \in Jobs : SelectForUpdate(w, j)
    \/ CommitClaim(w)
    \/ HandlerFails(w)
    \/ CompleteWorkflowJob(w)
    \/ FailWorkflowJob(w)

Next ==
    \/ \E j \in Jobs : Enqueue(j)
    \/ \E w \in Workers : WorkerStep(w)
    \/ \E w \in Workers : CompleteErrors(w)
    \/ \E w \in Workers : Abandon(w)
    \/ Tick

Spec == Init /\ [][Next]_queueVars

\* What the queue promises about attempts, see module RetryLedger.
Ledger == INSTANCE RetryLedger WITH
    Budget <- MaxAttempts,
    phase  <- [j \in Jobs |-> IF jobs[j].status = "absent" THEN "absent"
                              ELSE IF jobs[j].status \in Terminal THEN "closed"
                              ELSE "open"],
    spent  <- [j \in Jobs |-> jobs[j].attempts]

\* What the queue offers to its workers, see module JobBoard: an open claim
\* transaction does not show.
Board == INSTANCE JobBoard WITH
    board <- [j \in Jobs |-> [status |-> jobs[j].status, attempts |-> jobs[j].attempts]],
    hands <- [w \in Workers |-> IF Active(w)
                                THEN [pc |-> workers[w].pc, job |-> workers[w].job,
                                      attempt |-> workers[w].attempt]
                                ELSE [pc |-> "idle", job |-> None, attempt |-> 0]]

\* RunOnce is invoked again and again, its commands run under a timeout and
\* the clock advances; nothing obliges a job to be enqueued or a fault to occur.
Fairness == WF_queueVars(Tick) /\ \A w \in Workers : WF_queueVars(WorkerStep(w))

FairSpec == Spec /\ Fairness
--------------------------------------------------------------------------------
(***************************************************************************)
(* Properties                                                              *)
(***************************************************************************)

\* A job is handed out at most maxAttempts times, whatever crashes, lease
\* takeovers and late reports happen in between, and a row that waits in the
\* queue always has an attempt left (the budget check is made by
\* FailWorkflowJob and by the reclaim branch of claimWorkflowJobSQL, never by
\* the queued branch of the claim itself).
AttemptBudget ==
    \A j \in Jobs : /\ jobs[j].attempts <= MaxAttempts
                    /\ jobs[j].status = "queued" => jobs[j].attempts < MaxAttempts

\* No attempt of a job is handed to two builders: concurrent claims, which
\* read and write the row in two statements, are kept apart by the row lock.
UniqueAttempt ==
    \A v, w \in Workers : \A j \in Jobs :
        /\ WorksOn(v, j) /\ WorksOn(w, j)
        /\ workers[v].attempt = workers[w].attempt
        => v = w

\* The queue implements the ledger: attempts are spent one by one, only on open
\* jobs, never beyond the budget and never refunded.
RefinesLedger == Ledger!Spec

\* The queue implements the job board: a claim, two statements under a row
\* lock, takes effect at once when it commits, and no interleaving of open
\* claims, reports and crashes shows anything the board does not allow.
RefinesBoard == Board!BoardSpec

\* While only owners have reported on a job, two builders are busy with it at
\* the same time only because the earlier one let its whole lease go by before
\* the later one's claim.  (A report by a builder that lost the job requeues the
\* row under its new owner, and the next claim falls into a running lease.)
LeaseExclusion ==
    \A j \in Jobs \ disowned : \A v, w \in Workers :
        /\ WorksOn(v, j) /\ WorksOn(w, j)
        /\ workers[v].attempt < workers[w].attempt
        => workers[v].at + Lease <= workers[w].at

\* A job that was never handed out while running has at most one builder on
\* it, with no proviso: neither crashes nor late, repeated or lost reports put
\* two there.  (A store that never hands out a running job, ReclaimRunning =
\* FALSE, has no other jobs.)
SoleWorker ==
    \A v, w \in Workers : \A j \in Jobs \ reclaimed :
        WorksOn(v, j) /\ WorksOn(w, j) => v = w

\* In the end no job waits or is left half-done with attempts to spare: it is
\* terminal, or running on its last attempt.
EventuallySettles ==
    <>[](\A j \in Jobs :
            \/ jobs[j].status \in Terminal \cup {"absent"}
            \/ jobs[j].status = "running" /\ jobs[j].attempts = MaxAttempts)

--------------------------------------------------------------------------------
(***************************************************************************)
(* The inductive invariant behind AttemptBudget, UniqueAttempt,            *)
(* LeaseExclusion and SoleWorker (see WorkflowQueueProofs)                 *)
(***************************************************************************)

\* The row lock belongs to the worker whose claim transaction is open.
RowLockInv ==
    \A j \in Jobs : \A w \in Workers :
        rowLock[j] = w <=> workers[w].pc = "claiming" /\ workers[w].job = j

\* Exactly the running rows carry a lock time.
LockTimeInv ==
    \A j \in Jobs : jobs[j].status = "running" <=> jobs[j].lockedAt # NoTime

\* A row that was never enqueued has no attempts (used for the ledger only).
BlankInv ==
    \A j \in Jobs : jobs[j].status = "absent" => jobs[j].attempts = 0

\* What the SELECT saw still holds when the transaction commits.
ClaimInv ==
    \A w \in Workers : workers[w].pc = "claiming" =>
        LET row == jobs[workers[w].job] IN
        /\ row.status = "queued" \/ (ReclaimRunning /\ row.status = "running")
        /\ row.attempts < MaxAttempts
        /\ workers[w].attempt = row.attempts
        /\ workers[w].at <= now

\* An active worker's attempt number is one the row has counted.
AttemptInv ==
    \A w \in Workers : Active(w) =>
        LET row == jobs[workers[w].job] IN
        /\ workers[w].attempt \in 1..row.attempts
        /\ row.status # "absent"
        /\ workers[w].at <= now

\* Unless a non-owner has reported on the job, an active worker owns it, or
\* its lease has lapsed, or the job is closed.
LeaseInv ==
    \A w \in Workers : Active(w) /\ workers[w].job \notin disowned =>
        LET row == jobs[workers[w].job] IN
        \/ Owns(w) /\ row.lockedAt = workers[w].at
        \/ /\ workers[w].at + Lease <= now
           /\ row.status = "running" => workers[w].at + Lease <= row.lockedAt
        \/ row.status \in Terminal

\* A claim in progress comes after the leases of everyone still on the job.
ClaimLeaseInv ==
    \A v, w \in Workers :
        /\ workers[w].pc = "claiming" /\ Active(v)
        /\ workers[v].job = workers[w].job
        /\ workers[v].job \notin disowned
        => workers[v].at + Lease <= workers[w].at

\* A row that was never reclaimed is not back in the queue while someone works
\* on it.
SoleInv ==
    \A w \in Workers : Active(w) /\ workers[w].job \notin reclaimed =>
        jobs[workers[w].job].status \in {"running", "succeeded"}

IInv ==
    /\ TypeOK
    /\ RowLockInv
    /\ LockTimeInv
    /\ ClaimInv
    /\ AttemptBudget
    /\ AttemptInv
    /\ UniqueAttempt
    /\ LeaseInv
    /\ ClaimLeaseInv
    /\ LeaseExclusion
    /\ SoleInv
    /\ SoleWorker
================================================================================
