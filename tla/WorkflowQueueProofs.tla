-------------------------- MODULE WorkflowQueueProofs --------------------------
(***************************************************************************)
(* Proofs about WorkflowQueue, for every set of jobs and workers, every    *)
(* lease, every attempt budget and both claim policies.                    *)
(***************************************************************************)
EXTENDS WorkflowQueue, TLAPS

\* A row is locked by at most one open claim.
LEMMA LockHolder ==
  ASSUME RowLockInv, NEW w \in Workers, NEW j \in Jobs,
         workers[w].pc = "claiming", workers[w].job = j
  PROVE  \A v \in Workers : v # w => ~(workers[v].pc = "claiming" /\ workers[v].job = j)
<1>1. rowLock[j] = w
  BY DEF RowLockInv
<1>2. QED
  BY <1>1 DEF RowLockInv

USE JobsAssumption, WorkersAssumption, AttemptsAssumption, LeaseAssumption,
    ReclaimAssumption, FaultsAssumption

\* The delay before a retry is a natural number of seconds.
LEMMA RetryDelayType ==
  ASSUME NEW n \in Nat PROVE RetryDelay(n) \in Nat
BY DEF RetryDelay

\* Completing or failing a row of the table yields a row of the table, unlocked
\* and with the same number of attempts; a failed row is queued only with an
\* attempt left.
LEMMA ReportedRow ==
  ASSUME NEW row \in Row, now \in Nat
  PROVE  /\ Completed(row) \in Row
         /\ Completed(row).status = "succeeded"
         /\ Completed(row).attempts = row.attempts
         /\ Completed(row).lockedAt = NoTime
         /\ Failed(row) \in Row
         /\ Failed(row).status \in {"queued", "failed"}
         /\ Failed(row).status = "queued" => row.attempts < MaxAttempts
         /\ Failed(row).attempts = row.attempts
         /\ Failed(row).lockedAt = NoTime
<1>1. now + RetryDelay(row.attempts) \in Nat
  BY RetryDelayType DEF Row
<1>2. QED
  BY <1>1 DEF Completed, Failed, Row, Statuses, Terminal, NoTime

\* The initial state satisfies the inductive invariant.
LEMMA InitIInv == Init => IInv
<1> SUFFICES ASSUME Init PROVE IInv
  OBVIOUS
<1>1. TypeOK
  BY DEF Init, TypeOK, Row, Worker, Statuses, Terminal, NoRow, Idle, NoTime
<1>2. QED
  BY <1>1 DEF Init, IInv, RowLockInv, LockTimeInv, ClaimInv, AttemptBudget,
              AttemptInv, UniqueAttempt, LeaseInv, ClaimLeaseInv, LeaseExclusion,
              SoleInv, SoleWorker, Active, WorksOn, NoRow, Idle

\* Enqueueing a row keeps the invariant: nobody works on an absent row.
LEMMA EnqueueIInv ==
  ASSUME IInv, NEW j \in Jobs, Enqueue(j)
  PROVE  IInv'
<1> USE DEF IInv, Enqueue
<1>1. TypeOK'
  BY DEF TypeOK, Row, Statuses, NoRow, NoTime
<1>2. /\ \A i \in Jobs \ {j} : jobs'[i] = jobs[i]
      /\ jobs[j].status = "absent"
      /\ jobs'[j].status = "queued"
      /\ jobs'[j].attempts = 0
      /\ jobs'[j].lockedAt = NoTime
  BY DEF TypeOK, NoRow
<1>3. \A w \in Workers : workers[w].pc # "idle" =>
            workers[w].job \in Jobs /\ workers[w].job # j
  BY <1>2 DEF TypeOK, ClaimInv, AttemptInv, Active, Worker
<1>4. RowLockInv' /\ LockTimeInv' /\ AttemptBudget'
  BY <1>2 DEF RowLockInv, LockTimeInv, AttemptBudget
<1>5. ClaimInv' /\ AttemptInv' /\ UniqueAttempt' /\ SoleInv' /\ SoleWorker'
  BY <1>2, <1>3 DEF ClaimInv, AttemptInv, UniqueAttempt, SoleInv, SoleWorker,
                    Active, WorksOn
<1>6. LeaseInv' /\ ClaimLeaseInv' /\ LeaseExclusion'
  BY <1>2, <1>3 DEF LeaseInv, ClaimLeaseInv, LeaseExclusion, Active, WorksOn, Owns
<1>7. QED
  BY <1>1, <1>4, <1>5, <1>6

\* Selecting a due row keeps the invariant; ClaimLeaseInv is where the lease
\* test of the WHERE clause is used.
LEMMA SelectIInv ==
  ASSUME IInv, NEW w \in Workers, NEW j \in Jobs, SelectForUpdate(w, j)
  PROVE  IInv'
<1> USE DEF IInv, SelectForUpdate
<1>1. TypeOK'
  BY DEF TypeOK, Row, Worker
<1>2. /\ \A v \in Workers \ {w} : workers'[v] = workers[v]
      /\ workers'[w] = [pc |-> "claiming", job |-> j,
                        attempt |-> jobs[j].attempts, at |-> now]
      /\ workers[w].pc = "idle"
      /\ rowLock[j] = None
      /\ rowLock'[j] = w
      /\ \A i \in Jobs \ {j} : rowLock'[i] = rowLock[i]
      /\ jobs' = jobs /\ now' = now /\ disowned' = disowned /\ reclaimed' = reclaimed
  BY DEF TypeOK, Candidates
<1>3. /\ jobs[j].status = "queued" \/ (ReclaimRunning /\ jobs[j].status = "running")
      /\ jobs[j].attempts < MaxAttempts
      /\ jobs[j].status = "running" => jobs[j].lockedAt + Lease <= now
  BY DEF Candidates, Due, LockLapsed, AttemptBudget
<1>4. RowLockInv'
  BY <1>2 DEF RowLockInv
<1>5. LockTimeInv' /\ AttemptBudget'
  BY <1>2 DEF LockTimeInv, AttemptBudget
<1>6. now \in Nat /\ jobs[j].attempts \in Nat
  BY DEF TypeOK, Row
<1>7. ClaimInv'
  BY <1>2, <1>3, <1>6 DEF ClaimInv
<1>8. \A v \in Workers : Active(v)' <=> Active(v) /\ v # w
  BY <1>2 DEF Active
<1>9. AttemptInv' /\ UniqueAttempt' /\ LeaseExclusion' /\ SoleInv' /\ SoleWorker'
  BY <1>2, <1>8 DEF AttemptInv, UniqueAttempt, LeaseExclusion, SoleInv, SoleWorker,
                    WorksOn
<1>10. LeaseInv'
  BY <1>2, <1>8 DEF LeaseInv, Owns
<1>11. ClaimLeaseInv'
  <2> SUFFICES ASSUME NEW u \in Workers, NEW v \in Workers,
                      (workers[v].pc = "claiming")', Active(u)',
                      (workers[u].job = workers[v].job)',
                      (workers[u].job \notin disowned)'
               PROVE  (workers[u].at + Lease <= workers[v].at)'
    BY DEF ClaimLeaseInv
  <2>1. u # w /\ Active(u) /\ workers'[u] = workers[u]
    BY <1>2, <1>8
  <2>2. CASE v # w
    BY <1>2, <2>1, <2>2 DEF ClaimLeaseInv
  <2>3. CASE v = w
    <3>1. workers[u].job = j /\ j \notin disowned /\ workers'[v].at = now
      BY <1>2, <2>1, <2>3
    <3>2. workers[u].at + Lease <= now
      BY <1>3, <2>1, <3>1 DEF LeaseInv, Owns, Terminal
    <3>3. QED
      BY <2>1, <3>1, <3>2
  <2>4. QED
    BY <2>2, <2>3
<1>12. QED
  BY <1>1, <1>4, <1>5, <1>7, <1>9, <1>10, <1>11

\* What committing a claim writes into the tables.
LEMMA CommitWrites ==
  ASSUME TypeOK, NEW w \in Workers, CommitClaim(w), NEW j \in Jobs, j = workers[w].job
  PROVE  /\ jobs' \in [Jobs -> Row] /\ workers' \in [Workers -> Worker]
         /\ jobs'[j].status = "running" /\ jobs'[j].attempts = jobs[j].attempts + 1
         /\ workers'[w].pc = "working" /\ workers'[w].job = j
         /\ \A i \in Jobs \ {j} : jobs'[i] = jobs[i]
         /\ \A v \in Workers \ {w} : workers'[v] = workers[v]
<1>1. jobs \in [Jobs -> Row] /\ jobs[j] \in Row /\ workers \in [Workers -> Worker] /\ workers[w] \in Worker
  BY DEF TypeOK
<1>2. PICK row : row = [jobs[j] EXCEPT !.status = "running", !.attempts = jobs[j].attempts + 1,
                                       !.lockedBy = w, !.lockedAt = workers[w].at]
  OBVIOUS
<1>3. row = [status |-> "running", attempts |-> jobs[j].attempts + 1, runAfter |-> jobs[j].runAfter,
             createdAt |-> jobs[j].createdAt, lockedBy |-> w, lockedAt |-> workers[w].at]
  BY <1>1, <1>2 DEF Row
<1>4. row \in Row
  <2>1. /\ jobs[j].attempts \in Nat /\ jobs[j].runAfter \in Nat /\ jobs[j].createdAt \in Nat
        /\ workers[w].at \in Nat
    BY <1>1 DEF Row, Worker
  <2>2. QED
    BY <1>3, <2>1 DEF Row, Statuses
<1>5. jobs' = [jobs EXCEPT ![j] = row]
  BY <1>1, <1>2 DEF CommitClaim
<1>6. PICK mine : mine = [workers[w] EXCEPT !.pc = "working", !.attempt = workers[w].attempt + 1]
  OBVIOUS
<1>7. mine \in Worker /\ mine.pc = "working" /\ mine.job = j
  <2>1. workers[w].attempt \in Nat /\ workers[w].at \in Nat
    BY <1>1 DEF Worker
  <2>2. mine = [pc |-> "working", job |-> j, attempt |-> workers[w].attempt + 1, at |-> workers[w].at]
    BY <1>1, <1>6 DEF Worker
  <2>3. QED
    BY <2>1, <2>2 DEF Worker
<1>8. workers' = [workers EXCEPT ![w] = mine]
  BY <1>1, <1>6 DEF CommitClaim
<1>9. row.status = "running" /\ row.attempts = jobs[j].attempts + 1
  BY <1>3
<1>10. jobs' \in [Jobs -> Row] /\ jobs'[j] = row /\ \A i \in Jobs \ {j} : jobs'[i] = jobs[i]
  BY <1>1, <1>4, <1>5
<1>11. /\ workers' \in [Workers -> Worker] /\ workers'[w] = mine
       /\ \A v \in Workers \ {w} : workers'[v] = workers[v]
  BY <1>1, <1>7, <1>8
<1>12. QED
  BY <1>7, <1>9, <1>10, <1>11

\* Committing a claim keeps the invariant: the new attempt number is above
\* every number handed out before, and the budget was checked under the lock.
LEMMA CommitIInv ==
  ASSUME IInv, NEW w \in Workers, CommitClaim(w)
  PROVE  IInv'
<1> USE DEF IInv
<1> DEFINE j == workers[w].job
<1>1. j \in Jobs /\ workers[w].pc = "claiming"
  BY DEF TypeOK, CommitClaim
<1>2. TypeOK'
  <2>1. /\ jobs' \in [Jobs -> Row] /\ workers' \in [Workers -> Worker]
        /\ workers'[w].job = j /\ \A v \in Workers \ {w} : workers'[v] = workers[v]
    BY <1>1, CommitWrites
  <2>2. \A v \in Workers : workers'[v].pc # "idle" => workers'[v].job \in Jobs
    BY <1>1, <2>1 DEF TypeOK
  <2>3. /\ rowLock' \in [Jobs -> Workers \cup {None}] /\ reclaimed' \subseteq Jobs
        /\ UNCHANGED <<now, faults, disowned>>
    BY <1>1 DEF CommitClaim, TypeOK
  <2>4. QED
    BY <2>1, <2>2, <2>3 DEF TypeOK
<1>3. /\ \A i \in Jobs \ {j} : jobs'[i] = jobs[i] /\ rowLock'[i] = rowLock[i]
      /\ jobs'[j].status = "running"
      /\ jobs'[j].attempts = jobs[j].attempts + 1
      /\ jobs'[j].lockedBy = w
      /\ jobs'[j].lockedAt = workers[w].at
      /\ rowLock'[j] = None
  BY <1>1 DEF CommitClaim, TypeOK, Row
<1>4. /\ \A v \in Workers \ {w} : workers'[v] = workers[v]
      /\ workers'[w].pc = "working"
      /\ workers'[w].job = j
      /\ workers'[w].attempt = jobs[j].attempts + 1
      /\ workers'[w].at = workers[w].at
      /\ now' = now /\ disowned' = disowned
      /\ reclaimed \subseteq reclaimed'
      /\ j \notin reclaimed' => jobs[j].status # "running"
  BY <1>1 DEF CommitClaim, TypeOK, Worker, ClaimInv
<1>5. /\ jobs[j].status = "queued" \/ (ReclaimRunning /\ jobs[j].status = "running")
      /\ jobs[j].attempts \in Nat /\ jobs[j].attempts < MaxAttempts
      /\ workers[w].at \in Nat /\ workers[w].at <= now /\ now \in Nat
  BY <1>1 DEF ClaimInv, TypeOK, Row, Worker
<1>6. \A v \in Workers : v # w => ~(workers[v].pc = "claiming" /\ workers[v].job = j)
  BY <1>1, LockHolder
<1>7. \A v \in Workers : Active(v)' <=> Active(v) \/ v = w
  BY <1>1, <1>4 DEF Active
<1>8. \A v \in Workers : Active(v) => /\ v # w /\ workers[v].job \in Jobs
                                      /\ workers[v].attempt \in Nat
                                      /\ workers[v].at \in Nat
  BY <1>1 DEF Active, TypeOK, Worker
<1>9. RowLockInv'
  BY <1>3, <1>4, <1>6 DEF RowLockInv
<1>10. LockTimeInv' /\ AttemptBudget'
  <2>1. LockTimeInv'
    BY <1>3, <1>5 DEF LockTimeInv, NoTime
  <2>2. AttemptBudget'
    BY <1>3, <1>5 DEF AttemptBudget
  <2>3. QED
    BY <2>1, <2>2
<1>11. ClaimInv'
  <2> SUFFICES ASSUME NEW v \in Workers, workers'[v].pc = "claiming"
               PROVE  LET row == jobs'[workers'[v].job] IN
                      /\ row.status = "queued" \/ (ReclaimRunning /\ row.status = "running")
                      /\ row.attempts < MaxAttempts
                      /\ workers'[v].attempt = row.attempts
                      /\ workers'[v].at <= now'
    BY DEF ClaimInv
  <2>1. /\ v # w /\ workers'[v] = workers[v]
        /\ workers[v].job \in Jobs /\ workers[v].job # j
    BY <1>4, <1>6 DEF TypeOK
  <2>2. jobs'[workers[v].job] = jobs[workers[v].job] /\ now' = now
    BY <1>3, <1>4, <2>1
  <2>3. QED
    BY <2>1, <2>2 DEF ClaimInv
<1>12. AttemptInv'
  <2> SUFFICES ASSUME NEW v \in Workers, Active(v)'
               PROVE  LET row == jobs'[workers'[v].job] IN
                      /\ workers'[v].attempt \in 1..row.attempts
                      /\ row.status # "absent"
                      /\ workers'[v].at <= now'
    BY DEF AttemptInv
  <2>1. CASE v = w
    BY <1>3, <1>4, <1>5, <2>1
  <2>2. CASE v # w
    <3>1. /\ Active(v) /\ workers'[v] = workers[v] /\ now' = now
          /\ workers[v].job \in Jobs /\ workers[v].attempt \in Nat
      BY <1>4, <1>7, <1>8, <2>2
    <3>2. /\ workers[v].attempt \in 1..jobs[workers[v].job].attempts
          /\ jobs[workers[v].job].status # "absent"
          /\ workers[v].at <= now
      BY <3>1 DEF AttemptInv
    <3>3. CASE workers[v].job = j
      BY <1>3, <1>5, <3>1, <3>2, <3>3
    <3>4. CASE workers[v].job # j
      BY <1>3, <3>1, <3>2, <3>4
    <3>5. QED
      BY <3>3, <3>4
  <2>3. QED
    BY <2>1, <2>2
<1>13. \A v \in Workers : Active(v) /\ workers[v].job = j =>
          workers[v].attempt <= jobs[j].attempts
  BY <1>5, <1>8 DEF AttemptInv
<1>14. UniqueAttempt'
  BY <1>4, <1>5, <1>7, <1>8, <1>13 DEF UniqueAttempt, WorksOn
<1>15. \A v \in Workers : Active(v) /\ workers[v].job = j /\ j \notin disowned =>
          workers[v].at + Lease <= workers[w].at
  BY <1>1 DEF ClaimLeaseInv
<1>16. LeaseInv'
  <2> SUFFICES ASSUME NEW v \in Workers, Active(v)', (workers[v].job \notin disowned)'
               PROVE  LET row == jobs'[workers'[v].job] IN
                      \/ Owns(v)' /\ row.lockedAt = workers'[v].at
                      \/ /\ workers'[v].at + Lease <= now'
                         /\ row.status = "running" => workers'[v].at + Lease <= row.lockedAt
                      \/ row.status \in Terminal
    BY DEF LeaseInv
  <2>1. CASE v = w
    BY <1>3, <1>4, <2>1 DEF Owns
  <2>2. CASE v # w /\ workers[v].job = j
    <3>1. workers[v].at + Lease <= workers[w].at
      BY <1>4, <1>7, <1>15, <2>2
    <3>2. workers[v].at \in Nat
      BY <1>7, <1>8, <2>2
    <3>3. QED
      BY <1>3, <1>4, <1>5, <2>2, <3>1, <3>2
  <2>3. CASE v # w /\ workers[v].job # j
    <3>1. /\ Active(v) /\ workers'[v] = workers[v]
          /\ jobs'[workers[v].job] = jobs[workers[v].job]
          /\ now' = now /\ disowned' = disowned
      BY <1>3, <1>4, <1>7, <1>8, <2>3
    <3>2. Owns(v)' <=> Owns(v)
      BY <3>1 DEF Owns
    <3>3. QED
      BY <3>1, <3>2 DEF LeaseInv
  <2>4. QED
    BY <2>1, <2>2, <2>3
<1>17. ClaimLeaseInv'
  BY <1>4, <1>6, <1>7 DEF ClaimLeaseInv
<1>18. LeaseExclusion'
  BY <1>4, <1>5, <1>7, <1>8, <1>13, <1>15 DEF LeaseExclusion, WorksOn
<1>19. j \notin reclaimed' => \A v \in Workers : Active(v) => workers[v].job # j
  BY <1>4, <1>5 DEF SoleInv
<1>20. SoleInv' /\ SoleWorker'
  <2>1. SoleInv'
    <3> SUFFICES ASSUME NEW v \in Workers, Active(v)', (workers[v].job \notin reclaimed)'
                 PROVE  jobs'[workers'[v].job].status \in {"running", "succeeded"}
      BY DEF SoleInv
    <3>1. CASE workers'[v].job = j
      BY <1>3, <3>1
    <3>2. CASE workers'[v].job # j
      <4>1. /\ v # w /\ Active(v) /\ workers'[v] = workers[v]
            /\ workers[v].job \in Jobs \ {j} /\ workers[v].job \notin reclaimed
        BY <1>4, <1>7, <1>8, <3>2
      <4>2. jobs'[workers[v].job] = jobs[workers[v].job]
        BY <1>3, <4>1
      <4>3. QED
        BY <4>1, <4>2 DEF SoleInv
    <3>3. QED
      BY <3>1, <3>2
  <2>2. SoleWorker'
    <3> SUFFICES ASSUME NEW u \in Workers, NEW v \in Workers, NEW i \in Jobs,
                        i \notin reclaimed', WorksOn(u, i)', WorksOn(v, i)'
                 PROVE  u = v
      BY DEF SoleWorker
    <3>1. CASE i = j
      <4>1. \A x \in Workers : WorksOn(x, i)' => x = w
        BY <1>4, <1>7, <1>19, <3>1 DEF WorksOn
      <4>2. QED
        BY <4>1
    <3>2. CASE i # j
      <4>1. WorksOn(u, i) /\ WorksOn(v, i) /\ i \notin reclaimed
        BY <1>4, <1>7, <3>2 DEF WorksOn
      <4>2. QED
        BY <4>1 DEF SoleWorker
    <3>3. QED
      BY <3>1, <3>2
  <2>3. QED
    BY <2>1, <2>2
<1>21. QED
  BY <1>2, <1>9, <1>10, <1>11, <1>12, <1>14, <1>16, <1>17, <1>18, <1>20

\* A handler's error changes nothing the invariant speaks about.
LEMMA HandlerFailsIInv ==
  ASSUME IInv, NEW w \in Workers, HandlerFails(w)
  PROVE  IInv'
<1> USE DEF IInv, HandlerFails
<1>1. TypeOK'
  BY DEF TypeOK, Worker
<1>2. /\ \A v \in Workers \ {w} : workers'[v] = workers[v]
      /\ workers[w].pc = "working"
      /\ workers'[w].pc = "failing"
      /\ workers'[w].job = workers[w].job
      /\ workers'[w].attempt = workers[w].attempt
      /\ workers'[w].at = workers[w].at
      /\ jobs' = jobs /\ rowLock' = rowLock /\ now' = now /\ disowned' = disowned /\ reclaimed' = reclaimed
  BY DEF TypeOK, Worker
<1>3. \A v \in Workers : /\ workers'[v].pc = "claiming" <=> workers[v].pc = "claiming"
                         /\ workers'[v].job = workers[v].job
                         /\ workers'[v].attempt = workers[v].attempt
                         /\ workers'[v].at = workers[v].at
                         /\ Active(v)' <=> Active(v)
                         /\ Owns(v)' <=> Owns(v)
  BY <1>2 DEF Active, Owns
<1>4. RowLockInv' /\ LockTimeInv' /\ AttemptBudget'
  BY <1>2, <1>3 DEF RowLockInv, LockTimeInv, AttemptBudget
<1>5. ClaimInv' /\ AttemptInv'
  BY <1>2, <1>3 DEF ClaimInv, AttemptInv
<1>6. UniqueAttempt' /\ SoleInv' /\ SoleWorker'
  BY <1>2, <1>3 DEF UniqueAttempt, SoleInv, SoleWorker, WorksOn
<1>7. LeaseInv' /\ ClaimLeaseInv' /\ LeaseExclusion'
  BY <1>2, <1>3 DEF LeaseInv, ClaimLeaseInv, LeaseExclusion, WorksOn
<1>8. QED
  BY <1>1, <1>4, <1>5, <1>6, <1>7

\* The effect of a report on the invariant, for a worker that becomes idle or,
\* if it may report again, moves to the failing state with its claim intact;
\* the latter only after a success was recorded.
LEMMA ReportIInv ==
  ASSUME IInv, NEW w \in Workers, Active(w), NEW row \in Row,
         updateWorkflowJob(w, row),
         row.attempts = jobs[workers[w].job].attempts,
         row.lockedAt = NoTime,
         row.status \in {"succeeded", "queued", "failed"},
         row.status = "queued" => row.attempts < MaxAttempts,
         \/ workers' = [workers EXCEPT ![w] = Idle]
         \/ /\ workers' = [workers EXCEPT ![w].pc = "failing"]
            /\ row.status = "succeeded",
         faults' \in 0..MaxFaults,
         UNCHANGED <<rowLock, now>>
  PROVE  IInv'
<1> USE DEF IInv
<1> DEFINE j == workers[w].job
<1>1. j \in Jobs /\ rowLock[j] = None /\ workers[w].pc \in {"working", "failing"}
  BY DEF TypeOK, Active, updateWorkflowJob
<1>2. /\ jobs'[j] = row
      /\ \A i \in Jobs \ {j} : jobs'[i] = jobs[i]
      /\ rowLock' = rowLock /\ now' = now /\ reclaimed' = reclaimed
      /\ disowned \subseteq disowned'
      /\ disowned' \subseteq disowned \cup {j}
      /\ j \notin disowned' => Owns(w)
  BY <1>1 DEF updateWorkflowJob, TypeOK
<1>3. TypeOK'
  BY <1>1, <1>2 DEF TypeOK, Worker, Idle, updateWorkflowJob
<1>4. /\ \A v \in Workers \ {w} : workers'[v] = workers[v]
      /\ Active(w)' => /\ workers'[w].job = j
                       /\ workers'[w].attempt = workers[w].attempt
                       /\ workers'[w].at = workers[w].at
                       /\ row.status = "succeeded"
      /\ workers'[w].pc # "claiming"
  BY DEF TypeOK, Active, Idle, Worker
<1>5. \A v \in Workers : /\ Active(v)' => Active(v)
                         /\ workers'[v].pc = "claiming" <=> workers[v].pc = "claiming"
                         /\ Active(v)' \/ workers'[v].pc = "claiming" =>
                               /\ workers'[v].job = workers[v].job
                               /\ workers'[v].attempt = workers[v].attempt
                               /\ workers'[v].at = workers[v].at
  BY <1>1, <1>4 DEF Active
<1>6. \A v \in Workers : workers[v].pc = "claiming" =>
                          workers[v].job \in Jobs /\ workers[v].job # j
  BY <1>1 DEF RowLockInv, TypeOK
<1>7. RowLockInv'
  BY <1>2, <1>5 DEF RowLockInv
<1>8. LockTimeInv' /\ AttemptBudget'
  BY <1>2 DEF LockTimeInv, AttemptBudget
<1>9. ClaimInv'
  BY <1>2, <1>5, <1>6 DEF ClaimInv
<1>10. \A v \in Workers : Active(v) => workers[v].job \in Jobs
  BY DEF Active, TypeOK
<1>11. AttemptInv'
  BY <1>2, <1>5, <1>10 DEF AttemptInv
<1>12. UniqueAttempt' /\ LeaseExclusion'
  BY <1>2, <1>5 DEF UniqueAttempt, LeaseExclusion, WorksOn
<1>13. ClaimLeaseInv'
  BY <1>2, <1>5 DEF ClaimLeaseInv
<1>14. LeaseInv'
  <2> SUFFICES ASSUME NEW v \in Workers, Active(v)', (workers[v].job \notin disowned)'
               PROVE  LET r == jobs'[workers'[v].job] IN
                      \/ Owns(v)' /\ r.lockedAt = workers'[v].at
                      \/ /\ workers'[v].at + Lease <= now'
                         /\ r.status = "running" => workers'[v].at + Lease <= r.lockedAt
                      \/ r.status \in Terminal
    BY DEF LeaseInv
  <2>1. /\ Active(v) /\ workers'[v].job = workers[v].job
        /\ workers'[v].attempt = workers[v].attempt /\ workers'[v].at = workers[v].at
        /\ workers[v].job \notin disowned /\ workers[v].job \in Jobs
    BY <1>2, <1>5, <1>10
  <2>2. CASE workers[v].job # j
    <3>1. jobs'[workers[v].job] = jobs[workers[v].job]
      BY <1>2, <2>1, <2>2
    <3>2. Owns(v)' <=> Owns(v)
      BY <2>1, <3>1 DEF Owns
    <3>3. QED
      BY <1>2, <2>1, <3>1, <3>2 DEF LeaseInv
  <2>3. CASE workers[v].job = j /\ v = w
    BY <1>2, <1>4, <2>1, <2>3 DEF Terminal
  <2>4. CASE workers[v].job = j /\ v # w
    <3>1. Owns(w) /\ ~Owns(v) /\ jobs[j].status = "running"
      BY <1>2, <2>1, <2>4 DEF Owns
    <3>2. workers[v].at + Lease <= now
      BY <2>1, <2>4, <3>1 DEF LeaseInv, Terminal
    <3>3. QED
      BY <1>2, <2>1, <2>4, <3>2
  <2>5. QED
    BY <2>2, <2>3, <2>4
<1>15. SoleWorker'
  BY <1>2, <1>5 DEF SoleWorker, WorksOn
<1>16. SoleInv'
  <2> SUFFICES ASSUME NEW v \in Workers, Active(v)', (workers[v].job \notin reclaimed)'
               PROVE  jobs'[workers'[v].job].status \in {"running", "succeeded"}
    BY DEF SoleInv
  <2>1. CASE v = w
    BY <1>2, <1>4, <2>1
  <2>2. CASE v # w
    <3>1. workers[v].job # j
      BY <1>1, <1>2, <1>5, <2>2 DEF SoleWorker, WorksOn
    <3>2. QED
      BY <1>2, <1>5, <1>10, <3>1 DEF SoleInv
  <2>3. QED
    BY <2>1, <2>2
<1>17. QED
  BY <1>3, <1>7, <1>8, <1>9, <1>11, <1>12, <1>13, <1>14, <1>15, <1>16

\* CompleteWorkflowJob keeps the invariant, whoever owns the row.
LEMMA CompleteIInv ==
  ASSUME IInv, NEW w \in Workers, CompleteWorkflowJob(w)
  PROVE  IInv'
<1> DEFINE row == jobs[workers[w].job]
<1>1. Active(w) /\ row \in Row /\ now \in Nat /\ faults \in 0..MaxFaults
  BY DEF IInv, TypeOK, CompleteWorkflowJob, Active
<1>2. /\ Completed(row) \in Row
      /\ Completed(row).status = "succeeded"
      /\ Completed(row).attempts = row.attempts
      /\ Completed(row).lockedAt = NoTime
  BY <1>1, ReportedRow
<1>3. QED
  BY <1>1, <1>2, ReportIInv DEF CompleteWorkflowJob

\* FailWorkflowJob keeps the invariant, whoever owns the row.
LEMMA FailIInv ==
  ASSUME IInv, NEW w \in Workers, FailWorkflowJob(w)
  PROVE  IInv'
<1> DEFINE row == jobs[workers[w].job]
<1>1. Active(w) /\ row \in Row /\ now \in Nat /\ faults \in 0..MaxFaults
  BY DEF IInv, TypeOK, FailWorkflowJob, Active
<1>2. /\ Failed(row) \in Row
      /\ Failed(row).status \in {"queued", "failed"}
      /\ Failed(row).status = "queued" => row.attempts < MaxAttempts
      /\ Failed(row).attempts = row.attempts
      /\ Failed(row).lockedAt = NoTime
  BY <1>1, ReportedRow
<1>3. QED
  BY <1>1, <1>2, ReportIInv DEF FailWorkflowJob

\* A CompleteWorkflowJob that returns an error keeps the invariant, whether or
\* not its transaction was committed.
LEMMA CompleteErrorsIInv ==
  ASSUME IInv, NEW w \in Workers, CompleteErrors(w)
  PROVE  IInv'
<1> DEFINE row == jobs[workers[w].job]
<1>1. /\ Active(w) /\ row \in Row /\ now \in Nat
      /\ faults' \in 0..MaxFaults /\ workers[w].pc = "working"
  BY DEF IInv, TypeOK, CompleteErrors, Active, Fault
<1>2. CASE UNCHANGED <<jobs, disowned, reclaimed>>
  <2>1. /\ TypeOK'
        /\ \A v \in Workers \ {w} : workers'[v] = workers[v]
        /\ workers'[w].pc = "failing"
        /\ workers'[w].job = workers[w].job
        /\ workers'[w].attempt = workers[w].attempt
        /\ workers'[w].at = workers[w].at
        /\ jobs' = jobs /\ rowLock' = rowLock /\ now' = now /\ disowned' = disowned /\ reclaimed' = reclaimed
    BY <1>1, <1>2 DEF IInv, TypeOK, Worker, CompleteErrors
  <2>2. \A v \in Workers : /\ workers'[v].pc = "claiming" <=> workers[v].pc = "claiming"
                           /\ workers'[v].job = workers[v].job
                           /\ workers'[v].attempt = workers[v].attempt
                           /\ workers'[v].at = workers[v].at
                           /\ Active(v)' <=> Active(v)
                           /\ Owns(v)' <=> Owns(v)
    BY <1>1, <2>1 DEF Active, Owns
  <2>3. LockTimeInv' /\ AttemptBudget'
    BY <2>1 DEF IInv, LockTimeInv, AttemptBudget
  <2>8. RowLockInv'
    <3> SUFFICES ASSUME NEW j \in Jobs, NEW v \in Workers
                 PROVE  rowLock'[j] = v
                        <=> workers'[v].pc = "claiming" /\ workers'[v].job = j
      BY DEF RowLockInv
    <3>1. rowLock[j] = v <=> workers[v].pc = "claiming" /\ workers[v].job = j
      BY DEF IInv, RowLockInv
    <3>2. CASE v = w
      BY <1>1, <2>1, <3>1, <3>2
    <3>3. CASE v # w
      BY <2>1, <3>1, <3>3
    <3>4. QED
      BY <3>2, <3>3
  <2>4. ClaimInv' /\ AttemptInv'
    BY <2>1, <2>2 DEF IInv, ClaimInv, AttemptInv
  <2>5. UniqueAttempt' /\ SoleInv' /\ SoleWorker'
    BY <2>1, <2>2 DEF IInv, UniqueAttempt, SoleInv, SoleWorker, WorksOn
  <2>6. LeaseInv' /\ ClaimLeaseInv' /\ LeaseExclusion'
    BY <2>1, <2>2 DEF IInv, LeaseInv, ClaimLeaseInv, LeaseExclusion, WorksOn
  <2>7. QED
    BY <2>1, <2>3, <2>8, <2>4, <2>5, <2>6 DEF IInv
<1>3. CASE updateWorkflowJob(w, Completed(row))
  <2>1. /\ Completed(row) \in Row
        /\ Completed(row).status = "succeeded"
        /\ Completed(row).attempts = row.attempts
        /\ Completed(row).lockedAt = NoTime
    BY <1>1, ReportedRow
  <2>2. QED
    BY <1>1, <1>3, <2>1, ReportIInv DEF CompleteErrors
<1>4. QED
  BY <1>2, <1>3 DEF CompleteErrors

\* A worker that disappears releases its row lock and leaves the rest alone.
LEMMA AbandonIInv ==
  ASSUME IInv, NEW w \in Workers, Abandon(w)
  PROVE  IInv'
<1> USE DEF IInv
<1>1. TypeOK'
  BY DEF TypeOK, Abandon, Fault, Worker, Idle
<1>2. /\ \A v \in Workers \ {w} : workers'[v] = workers[v]
      /\ workers'[w].pc = "idle"
      /\ \A j \in Jobs : rowLock'[j] = IF rowLock[j] = w THEN None ELSE rowLock[j]
      /\ jobs' = jobs /\ now' = now /\ disowned' = disowned /\ reclaimed' = reclaimed
  BY DEF TypeOK, Abandon, Idle
<1>3. \A v \in Workers : /\ Active(v)' <=> Active(v) /\ v # w
                         /\ v # w => (Owns(v)' <=> Owns(v))
  BY <1>2 DEF Active, Owns
<1>4. RowLockInv'
  <2> SUFFICES ASSUME NEW j \in Jobs, NEW v \in Workers
               PROVE  rowLock'[j] = v
                      <=> workers'[v].pc = "claiming" /\ workers'[v].job = j
    BY DEF RowLockInv
  <2>1. rowLock[j] = v <=> workers[v].pc = "claiming" /\ workers[v].job = j
    BY DEF RowLockInv
  <2>2. CASE v = w
    BY <1>2, <2>1, <2>2, WorkersAssumption
  <2>3. CASE v # w
    <3>1. workers'[v] = workers[v]
      BY <1>2, <2>3
    <3>2. rowLock'[j] = v <=> rowLock[j] = v
      BY <1>2, <2>3, WorkersAssumption
    <3>3. QED
      BY <2>1, <3>1, <3>2
  <2>4. QED
    BY <2>2, <2>3
<1>5. LockTimeInv' /\ AttemptBudget' /\ ClaimInv'
  BY <1>2 DEF LockTimeInv, AttemptBudget, ClaimInv
<1>6. AttemptInv' /\ UniqueAttempt' /\ SoleInv' /\ SoleWorker'
  BY <1>2, <1>3 DEF AttemptInv, UniqueAttempt, SoleInv, SoleWorker, WorksOn
<1>7. LeaseInv' /\ ClaimLeaseInv' /\ LeaseExclusion'
  BY <1>2, <1>3 DEF LeaseInv, ClaimLeaseInv, LeaseExclusion, WorksOn
<1>8. QED
  BY <1>1, <1>4, <1>5, <1>6, <1>7

\* Time only lets leases lapse.
LEMMA TickIInv ==
  ASSUME IInv, Tick
  PROVE  IInv'
<1> USE DEF IInv
<1>1. TypeOK' /\ now \in Nat /\ now' = now + 1
  BY DEF TypeOK, Tick
<1>2. UNCHANGED <<jobs, rowLock, workers, disowned, reclaimed>>
  BY DEF Tick
<1>3. \A w \in Workers : /\ workers[w].at \in Nat
                         /\ Active(w)' <=> Active(w)
                         /\ Owns(w)' <=> Owns(w)
  BY <1>2 DEF TypeOK, Worker, Active, Owns
<1>4. RowLockInv' /\ LockTimeInv' /\ AttemptBudget'
  <2>1. RowLockInv'
    BY <1>2 DEF RowLockInv
  <2>2. QED
    BY <1>2, <2>1 DEF LockTimeInv, AttemptBudget
<1>5. ClaimInv' /\ AttemptInv'
  BY <1>1, <1>2, <1>3 DEF ClaimInv, AttemptInv
<1>6. UniqueAttempt' /\ ClaimLeaseInv' /\ LeaseExclusion' /\ SoleInv' /\ SoleWorker'
  BY <1>2, <1>3 DEF UniqueAttempt, ClaimLeaseInv, LeaseExclusion, SoleInv, SoleWorker,
                    WorksOn
<1>7. LeaseInv'
  BY <1>1, <1>2, <1>3 DEF LeaseInv
<1>8. QED
  BY <1>1, <1>4, <1>5, <1>6, <1>7

\* Every step keeps the inductive invariant.
LEMMA NextIInv == IInv /\ [Next]_queueVars => IInv'
<1> SUFFICES ASSUME IInv, [Next]_queueVars PROVE IInv'
  OBVIOUS
<1>1. CASE \E j \in Jobs : Enqueue(j)
  BY <1>1, EnqueueIInv
<1>2. ASSUME NEW w \in Workers, WorkerStep(w) PROVE IInv'
  BY <1>2, SelectIInv, CommitIInv, HandlerFailsIInv, CompleteIInv, FailIInv DEF WorkerStep
<1>3. CASE \E w \in Workers : CompleteErrors(w)
  BY <1>3, CompleteErrorsIInv
<1>4. CASE \E w \in Workers : Abandon(w)
  BY <1>4, AbandonIInv
<1>5. CASE Tick
  BY <1>5, TickIInv
<1>6. CASE UNCHANGED queueVars
  BY <1>6 DEF queueVars, IInv, TypeOK, RowLockInv, LockTimeInv, ClaimInv, AttemptBudget,
              AttemptInv, UniqueAttempt, LeaseInv, ClaimLeaseInv, LeaseExclusion,
              SoleInv, SoleWorker, Active, WorksOn, Owns
<1>7. QED
  BY <1>1, <1>2, <1>3, <1>4, <1>5, <1>6 DEF Next

\* The inductive invariant holds in every reachable state of the queue.
THEOREM Invariance == Spec => []IInv
<1>1. QED
  BY InitIInv, NextIInv, PTL DEF Spec

\* The queue's variables keep their types (schema of WorkflowJob).
THEOREM TypeCorrect == Spec => []TypeOK
<1>1. IInv => TypeOK
  BY DEF IInv
<1>2. QED
  BY <1>1, Invariance, PTL

\* A job is never handed out more than maxAttempts times, and never waits in
\* the queue with its attempts used up, for every number of builders, any
\* crashes and any late reports.
THEOREM AttemptsBounded == Spec => []AttemptBudget
<1>1. IInv => AttemptBudget
  BY DEF IInv
<1>2. QED
  BY <1>1, Invariance, PTL

\* No attempt is handed to two builders (FOR UPDATE SKIP LOCKED is enough).
THEOREM AttemptsUnique == Spec => []UniqueAttempt
<1>1. IInv => UniqueAttempt
  BY DEF IInv
<1>2. QED
  BY <1>1, Invariance, PTL

\* As long as only owners report on a job, two builders meet on it only after
\* a whole lease has gone by between their claims.
THEOREM LeasesExclude == Spec => []LeaseExclusion
<1>1. IInv => LeaseExclusion
  BY DEF IInv
<1>2. QED
  BY <1>1, Invariance, PTL

\* A store that never reclaims running rows never has two builders on a job.
THEOREM SoleWorkerHolds == Spec => []SoleWorker
<1>1. IInv => SoleWorker
  BY DEF IInv
<1>2. QED
  BY <1>1, Invariance, PTL

--------------------------------------------------------------------------------
(***************************************************************************)
(* The queue implements RetryLedger                                        *)
(***************************************************************************)

\* The phase of a row in the ledger.
Phase(row) == IF row.status = "absent" THEN "absent"
              ELSE IF row.status \in Terminal THEN "closed"
              ELSE "open"

\* No step gives attempts to a row that was never enqueued.
LEMMA NextBlankInv == IInv /\ BlankInv /\ [Next]_queueVars => BlankInv'
<1> SUFFICES ASSUME IInv, BlankInv, [Next]_queueVars PROVE BlankInv'
  OBVIOUS
<1>1. jobs \in [Jobs -> Row]
  BY DEF IInv, TypeOK
<1>2. CASE UNCHANGED jobs
  BY <1>2 DEF BlankInv
<1>3. ASSUME NEW j \in Jobs, Enqueue(j) PROVE BlankInv'
  BY <1>1, <1>3 DEF Enqueue, BlankInv
<1>4. ASSUME NEW w \in Workers, CommitClaim(w) PROVE BlankInv'
  <2>1. workers[w].job \in Jobs
    BY <1>4 DEF IInv, TypeOK, CommitClaim
  <2>2. /\ jobs'[workers[w].job].status = "running"
        /\ \A i \in Jobs \ {workers[w].job} : jobs'[i] = jobs[i]
    BY <1>1, <1>4, <2>1 DEF CommitClaim, Row
  <2>3. QED
    BY <2>2 DEF BlankInv
<1>5. ASSUME NEW w \in Workers, NEW row \in Row, Active(w), updateWorkflowJob(w, row),
             row.status # "absent"
      PROVE  BlankInv'
  <2>1. workers[w].job \in Jobs
    BY <1>5 DEF IInv, TypeOK, Active
  <2>2. QED
    BY <1>1, <1>5, <2>1 DEF updateWorkflowJob, BlankInv
<1>6. ASSUME NEW w \in Workers, Active(w)
      PROVE  /\ Completed(jobs[workers[w].job]) \in Row
             /\ Failed(jobs[workers[w].job]) \in Row
             /\ Completed(jobs[workers[w].job]).status # "absent"
             /\ Failed(jobs[workers[w].job]).status # "absent"
  <2>1. jobs[workers[w].job] \in Row /\ now \in Nat
    BY <1>6 DEF IInv, TypeOK, Active
  <2>2. QED
    BY <2>1, ReportedRow
<1>7. ASSUME NEW w \in Workers, CompleteWorkflowJob(w) \/ FailWorkflowJob(w)
      PROVE  BlankInv'
  BY <1>5, <1>6, <1>7 DEF CompleteWorkflowJob, FailWorkflowJob, Active
<1>8. ASSUME NEW w \in Workers, CompleteErrors(w) PROVE BlankInv'
  BY <1>2, <1>5, <1>6, <1>8 DEF CompleteErrors, Active
<1>9. ASSUME NEW w \in Workers, WorkerStep(w) PROVE BlankInv'
  BY <1>2, <1>4, <1>7, <1>9 DEF WorkerStep, SelectForUpdate, HandlerFails
<1>10. QED
  BY <1>2, <1>3, <1>8, <1>9 DEF Next, Abandon, Tick, queueVars

\* A row that was never enqueued never has attempts.
LEMMA BlankRows == Spec => []BlankInv
<1>1. Init => BlankInv
  BY DEF Init, BlankInv, NoRow
<1>2. QED
  BY <1>1, NextBlankInv, Invariance, PTL DEF Spec

\* A step that leaves the table alone is a stuttering step of the ledger.
LEMMA LedgerStutters ==
  ASSUME UNCHANGED jobs
  PROVE  [Ledger!Next]_(Ledger!ledgerVars)
BY DEF Ledger!ledgerVars

\* Rewriting one submitted row with the same attempts closes the job, reopens
\* it (only while the budget lasts) or leaves its phase alone.
LEMMA LedgerRewrites ==
  ASSUME TypeOK, NEW j \in Jobs, NEW row \in Row,
         jobs' = [jobs EXCEPT ![j] = row],
         jobs[j].status # "absent", row.status # "absent",
         row.attempts = jobs[j].attempts,
         row.status \notin Terminal => row.attempts < MaxAttempts
  PROVE  [Ledger!Next]_(Ledger!ledgerVars)
<1> DEFINE phase == [i \in Jobs |-> Phase(jobs[i])]
           spent == [i \in Jobs |-> jobs[i].attempts]
<1>1. phase' = [phase EXCEPT ![j] = Phase(row)]
  BY DEF TypeOK, Phase
<1>2. spent' = spent
  BY DEF TypeOK
<1>3. /\ Phase(row) \in {"open", "closed"} /\ phase[j] \in {"open", "closed"}
      /\ Phase(row) = "open" => spent[j] < MaxAttempts
  BY DEF Phase
<1>4. CASE Phase(row) = phase[j]
  BY <1>1, <1>2, <1>4 DEF Ledger!ledgerVars, Phase
<1>5. CASE Phase(row) = "closed" /\ phase[j] = "open"
  <2>1. Ledger!Close(j)
    BY <1>1, <1>2, <1>5 DEF Ledger!Close, Phase
  <2>2. QED
    BY <2>1 DEF Ledger!Next
<1>6. CASE Phase(row) = "open" /\ phase[j] = "closed"
  <2>1. Ledger!Reopen(j)
    BY <1>1, <1>2, <1>3, <1>6 DEF Ledger!Reopen, Phase
  <2>2. QED
    BY <2>1 DEF Ledger!Next
<1>7. QED
  BY <1>3, <1>4, <1>5, <1>6

\* A report of worker w, wherever it comes from, is a step of the ledger.
LEMMA LedgerReports ==
  ASSUME IInv, NEW w \in Workers, Active(w), NEW row \in Row,
         updateWorkflowJob(w, row),
         row.status # "absent",
         row.attempts = jobs[workers[w].job].attempts,
         row.status \notin Terminal => row.attempts < MaxAttempts
  PROVE  [Ledger!Next]_(Ledger!ledgerVars)
<1>1. TypeOK /\ workers[w].job \in Jobs /\ jobs[workers[w].job].status # "absent"
  BY DEF IInv, TypeOK, AttemptInv, Active
<1>2. QED
  BY <1>1, LedgerRewrites DEF updateWorkflowJob

\* Every step of the queue is a step of the ledger or leaves it unchanged.
LEMMA LedgerSteps ==
  ASSUME IInv, BlankInv, [Next]_queueVars
  PROVE  [Ledger!Next]_(Ledger!ledgerVars)
<1>1. ASSUME NEW j \in Jobs, Enqueue(j) PROVE Ledger!Submit(j)
  <2>1. /\ jobs'[j].status = "queued" /\ jobs'[j].attempts = NoRow.attempts
        /\ jobs[j].status = "absent" /\ jobs \in [Jobs -> Row]
        /\ \A i \in Jobs \ {j} : jobs'[i] = jobs[i]
    BY <1>1 DEF IInv, TypeOK, Enqueue, NoRow
  <2>2. jobs[j].attempts = NoRow.attempts
    BY <2>1 DEF BlankInv, NoRow
  <2>3. QED
    BY <2>1, <2>2 DEF Ledger!Submit, Terminal
<1>2. ASSUME NEW w \in Workers, CommitClaim(w), NEW j \in Jobs, j = workers[w].job
      PROVE  Ledger!Start(j)
  <2>1. /\ jobs \in [Jobs -> Row]
        /\ jobs[j].status \in {"queued", "running"}
        /\ jobs[j].attempts < MaxAttempts
    BY <1>2 DEF IInv, TypeOK, ClaimInv, CommitClaim
  <2>2. /\ jobs'[j].status = "running" /\ jobs'[j].attempts = jobs[j].attempts + 1
        /\ \A i \in Jobs \ {j} : jobs'[i] = jobs[i]
    BY <1>2, CommitWrites DEF IInv
  <2>3. QED
    BY <2>1, <2>2 DEF Ledger!Start, Terminal
<1>3. ASSUME NEW w \in Workers, Active(w)
      PROVE  /\ jobs[workers[w].job] \in Row /\ now \in Nat
             /\ Completed(jobs[workers[w].job]) \in Row
             /\ Failed(jobs[workers[w].job]) \in Row
  <2>1. jobs[workers[w].job] \in Row /\ now \in Nat
    BY <1>3 DEF IInv, TypeOK, Active
  <2>2. QED
    BY <2>1, ReportedRow
<1>4. ASSUME NEW w \in Workers, Active(w),
             updateWorkflowJob(w, Completed(jobs[workers[w].job]))
      PROVE  [Ledger!Next]_(Ledger!ledgerVars)
  BY <1>3, <1>4, ReportedRow, LedgerReports DEF Terminal
<1>5. ASSUME NEW w \in Workers, Active(w),
             updateWorkflowJob(w, Failed(jobs[workers[w].job]))
      PROVE  [Ledger!Next]_(Ledger!ledgerVars)
  BY <1>3, <1>5, ReportedRow, LedgerReports DEF Terminal
<1>6. ASSUME NEW w \in Workers, WorkerStep(w)
      PROVE  [Ledger!Next]_(Ledger!ledgerVars)
  <2>1. CASE \E j \in Jobs : SelectForUpdate(w, j)
    BY <2>1, LedgerStutters DEF SelectForUpdate
  <2>2. CASE CommitClaim(w)
    <3>1. PICK j \in Jobs : j = workers[w].job
      BY <2>2 DEF IInv, TypeOK, CommitClaim
    <3>2. QED
      BY <1>2, <2>2, <3>1 DEF Ledger!Next
  <2>3. CASE HandlerFails(w)
    BY <2>3, LedgerStutters DEF HandlerFails
  <2>4. CASE CompleteWorkflowJob(w)
    BY <1>4, <2>4 DEF CompleteWorkflowJob, Active
  <2>5. CASE FailWorkflowJob(w)
    BY <1>5, <2>5 DEF FailWorkflowJob, Active
  <2>6. QED
    BY <1>6, <2>1, <2>2, <2>3, <2>4, <2>5 DEF WorkerStep
<1>7. ASSUME NEW w \in Workers, CompleteErrors(w)
      PROVE  [Ledger!Next]_(Ledger!ledgerVars)
  <2>1. CASE UNCHANGED jobs
    BY <2>1, LedgerStutters
  <2>2. CASE updateWorkflowJob(w, Completed(jobs[workers[w].job]))
    BY <1>4, <1>7, <2>2 DEF CompleteErrors, Active
  <2>3. QED
    BY <1>7, <2>1, <2>2 DEF CompleteErrors
<1>8. CASE (\E w \in Workers : Abandon(w)) \/ Tick \/ UNCHANGED queueVars
  BY <1>8, LedgerStutters DEF Abandon, Tick, queueVars
<1>9. QED
  BY <1>1, <1>6, <1>7, <1>8 DEF Next, Ledger!Next

\* The job table with its builders implements the retry ledger: attempts are
\* spent one by one, on open jobs only, never beyond maxAttempts, and neither
\* a late report nor a takeover refunds one.
THEOREM ImplementsLedger == Spec => RefinesLedger
<1>1. Init => Ledger!Init
  BY DEF Init, NoRow, Ledger!Init
<1>2. QED
  BY <1>1, Invariance, BlankRows, LedgerSteps, PTL DEF Spec, Ledger!Spec, RefinesLedger

--------------------------------------------------------------------------------
(***************************************************************************)
(* The queue implements JobBoard                                           *)
(***************************************************************************)

\* What a row and a worker look like on the board.
Posted(row) == [status |-> row.status, attempts |-> row.attempts]
Hand(x) == IF x.pc \in {"working", "failing"}
           THEN [pc |-> x.pc, job |-> x.job, attempt |-> x.attempt]
           ELSE [pc |-> "idle", job |-> None, attempt |-> 0]

\* A step that changes no job and no busy worker leaves the board alone.
LEMMA BoardStutters ==
  ASSUME UNCHANGED jobs, \A w \in Workers : Hand(workers'[w]) = Hand(workers[w])
  PROVE  [Board!BoardNext]_(Board!boardVars)
BY DEF Board!boardVars, Hand, Active

\* Every step of the queue is a step of the board or leaves it unchanged.
LEMMA BoardSteps ==
  ASSUME IInv, BlankInv, [Next]_queueVars
  PROVE  [Board!BoardNext]_(Board!boardVars)
<1> DEFINE bd == [i \in Jobs |-> Posted(jobs[i])]
           hd == [v \in Workers |-> Hand(workers[v])]
<1> USE DEF Active
<1>1. /\ jobs \in [Jobs -> Row] /\ workers \in [Workers -> Worker] /\ now \in Nat
      /\ \A w \in Workers : workers[w].pc # "idle" => workers[w].job \in Jobs
  BY DEF IInv, TypeOK
<1>2. ASSUME NEW j \in Jobs, Enqueue(j) PROVE Board!Post(j)
  <2>1. /\ Posted(jobs'[j]) = [Posted(jobs[j]) EXCEPT !.status = "queued"]
        /\ jobs[j].status = "absent"
        /\ \A i \in Jobs \ {j} : jobs'[i] = jobs[i]
        /\ workers' = workers
    BY <1>1, <1>2 DEF Enqueue, Posted, NoRow, BlankInv
  <2>2. QED
    BY <2>1 DEF Board!Post, Posted
<1>3. ASSUME NEW w \in Workers, NEW j \in Jobs, j = workers[w].job, CommitClaim(w)
      PROVE  Board!Claim(w, j)
  <2>1. /\ jobs[j].status = "queued" \/ (ReclaimRunning /\ jobs[j].status = "running")
        /\ jobs[j].attempts < MaxAttempts
        /\ workers[w].attempt = jobs[j].attempts
        /\ workers[w].pc = "claiming"
    BY <1>3 DEF IInv, ClaimInv, CommitClaim
  <2>2. /\ Posted(jobs'[j]) = [status |-> "running", attempts |-> jobs[j].attempts + 1]
        /\ \A i \in Jobs \ {j} : jobs'[i] = jobs[i]
    BY <1>1, <1>3 DEF CommitClaim, Posted, Row
  <2>3. /\ Hand(workers'[w]) = [pc |-> "working", job |-> j,
                                attempt |-> jobs[j].attempts + 1]
        /\ \A v \in Workers \ {w} : workers'[v] = workers[v]
    BY <1>1, <1>3, <2>1 DEF CommitClaim, Hand, Worker
  <2>4. Board!Available(j)
    BY <2>1 DEF Board!Available
  <2>5. bd' = [bd EXCEPT ![j] = [status |-> "running", attempts |-> jobs[j].attempts + 1]]
    BY <2>2
  <2>6. hd' = [hd EXCEPT ![w] = [pc |-> "working", job |-> j,
                                 attempt |-> jobs[j].attempts + 1]]
    BY <2>3
  <2>7. hd[w].pc = "idle" /\ bd[j].attempts = jobs[j].attempts
    BY <2>1 DEF Hand, Posted
  <2>8. QED
    BY <2>4, <2>5, <2>6, <2>7 DEF Board!Claim, Posted, Hand
<1>falter. ASSUME NEW w \in Workers, workers[w].pc = "working",
             Hand(workers'[w]) = [Hand(workers[w]) EXCEPT !.pc = "failing"],
             \A v \in Workers \ {w} : workers'[v] = workers[v]
      PROVE  hd[w].pc = "working" /\ hd' = [hd EXCEPT ![w].pc = "failing"]
  <2>1. hd[w].pc = "working"
    BY <1>falter DEF Hand
  <2>2. hd' = [hd EXCEPT ![w].pc = "failing"]
    BY <1>falter
  <2>3. QED
    BY <2>1, <2>2
<1>4. ASSUME NEW w \in Workers, HandlerFails(w) PROVE Board!Falter(w)
  <2>1. /\ Hand(workers'[w]) = [Hand(workers[w]) EXCEPT !.pc = "failing"]
        /\ workers[w].pc = "working"
        /\ \A v \in Workers \ {w} : workers'[v] = workers[v]
        /\ jobs' = jobs
    BY <1>1, <1>4 DEF HandlerFails, Hand, Worker
  <2>2. hd[w].pc = "working" /\ hd' = [hd EXCEPT ![w].pc = "failing"]
    BY <1>falter, <2>1
  <2>3. QED
    BY <2>1, <2>2 DEF Board!Falter, Hand
<1>5. ASSUME NEW w \in Workers, Active(w), NEW j \in Jobs, j = workers[w].job
      PROVE  /\ Posted(Completed(jobs[j])) = [Posted(jobs[j]) EXCEPT !.status = "succeeded"]
             /\ Posted(Failed(jobs[j]))
                  = [Posted(jobs[j]) EXCEPT !.status = IF jobs[j].attempts < MaxAttempts
                                                       THEN "queued" ELSE "failed"]
  BY <1>1, <1>5 DEF Posted, Completed, Failed, Row
<1>6. ASSUME NEW w \in Workers, NEW row, updateWorkflowJob(w, row), Active(w)
      PROVE  /\ jobs'[workers[w].job] = row
             /\ \A i \in Jobs \ {workers[w].job} : jobs'[i] = jobs[i]
  BY <1>1, <1>6 DEF updateWorkflowJob
<1>7. ASSUME NEW w \in Workers, workers' = [workers EXCEPT ![w] = Idle]
      PROVE  /\ Hand(workers'[w]) = [pc |-> "idle", job |-> None, attempt |-> 0]
             /\ \A v \in Workers \ {w} : workers'[v] = workers[v]
  BY <1>1, <1>7 DEF Hand, Idle
<1>8. ASSUME NEW w \in Workers, CompleteWorkflowJob(w) PROVE Board!Complete(w)
  <2>1. PICK j \in Jobs : j = workers[w].job
    BY <1>1, <1>8 DEF CompleteWorkflowJob
  <2>2. /\ Posted(jobs'[j]) = [Posted(jobs[j]) EXCEPT !.status = "succeeded"]
        /\ \A i \in Jobs \ {j} : jobs'[i] = jobs[i]
        /\ workers[w].pc = "working"
    BY <1>5, <1>6, <1>8, <2>1 DEF CompleteWorkflowJob
  <2>3. bd' = [bd EXCEPT ![j].status = "succeeded"]
    BY <2>2 DEF Posted
  <2>4. hd' = [hd EXCEPT ![w] = [pc |-> "idle", job |-> None, attempt |-> 0]]
    <3>1. /\ Hand(workers'[w]) = [pc |-> "idle", job |-> None, attempt |-> 0]
          /\ \A v \in Workers \ {w} : workers'[v] = workers[v]
      BY <1>7, <1>8 DEF CompleteWorkflowJob
    <3>2. QED
      BY <3>1
  <2>5. hd[w].pc = "working" /\ hd[w].job = j
    BY <2>1, <2>2 DEF Hand
  <2>6. QED
    BY <2>3, <2>4, <2>5 DEF Board!Complete, Board!Free, Posted, Hand
<1>9. ASSUME NEW w \in Workers, FailWorkflowJob(w) PROVE Board!Fail(w)
  <2>1. PICK j \in Jobs : j = workers[w].job
    BY <1>1, <1>9 DEF FailWorkflowJob
  <2>2. /\ Posted(jobs'[j]) = [Posted(jobs[j]) EXCEPT !.status =
                                  IF jobs[j].attempts < MaxAttempts THEN "queued" ELSE "failed"]
        /\ \A i \in Jobs \ {j} : jobs'[i] = jobs[i]
        /\ workers[w].pc = "failing"
    BY <1>5, <1>6, <1>9, <2>1 DEF FailWorkflowJob
  <2>3. bd' = [bd EXCEPT ![j].status = IF bd[j].attempts < MaxAttempts
                                               THEN "queued" ELSE "failed"]
    BY <2>2 DEF Posted
  <2>4. hd' = [hd EXCEPT ![w] = [pc |-> "idle", job |-> None, attempt |-> 0]]
    <3>1. /\ Hand(workers'[w]) = [pc |-> "idle", job |-> None, attempt |-> 0]
          /\ \A v \in Workers \ {w} : workers'[v] = workers[v]
      BY <1>7, <1>9 DEF FailWorkflowJob
    <3>2. QED
      BY <3>1
  <2>5. hd[w].pc = "failing" /\ hd[w].job = j
    BY <2>1, <2>2 DEF Hand
  <2>6. QED
    BY <2>3, <2>4, <2>5 DEF Board!Fail, Board!Free, Posted, Hand
<1>10. ASSUME NEW w \in Workers, CompleteErrors(w)
       PROVE  Board!Falter(w) \/ Board!CompleteUnseen(w)
  <2>1. PICK j \in Jobs : j = workers[w].job
    BY <1>1, <1>10 DEF CompleteErrors
  <2>2. /\ Hand(workers'[w]) = [Hand(workers[w]) EXCEPT !.pc = "failing"]
        /\ Hand(workers[w]).pc = "working" /\ workers[w].pc = "working"
        /\ \A v \in Workers \ {w} : workers'[v] = workers[v]
    BY <1>1, <1>10 DEF CompleteErrors, Hand, Worker
  <2>3. CASE UNCHANGED jobs
    <3>1. hd[w].pc = "working" /\ hd' = [hd EXCEPT ![w].pc = "failing"]
      BY <1>falter, <2>2
    <3>2. QED
      BY <2>3, <3>1 DEF Board!Falter, Hand
  <2>4. CASE updateWorkflowJob(w, Completed(jobs[j]))
    <3>1. /\ Posted(jobs'[j]) = [Posted(jobs[j]) EXCEPT !.status = "succeeded"]
          /\ \A i \in Jobs \ {j} : jobs'[i] = jobs[i]
      BY <1>5, <1>6, <2>1, <2>2, <2>4
    <3>2. bd' = [bd EXCEPT ![j].status = "succeeded"]
      BY <3>1 DEF Posted
    <3>3. hd' = [hd EXCEPT ![w].pc = "failing"]
      BY <1>falter, <2>2
    <3>4. hd[w].pc = "working" /\ hd[w].job = j
      BY <2>1, <2>2 DEF Hand
    <3>5. QED
      BY <3>2, <3>3, <3>4 DEF Board!CompleteUnseen, Posted, Hand
  <2>5. QED
    BY <1>10, <2>1, <2>3, <2>4 DEF CompleteErrors
<1>11. ASSUME NEW w \in Workers, Abandon(w)
       PROVE  [Board!BoardNext]_(Board!boardVars)
  <2>1. CASE Active(w)
    <3>1. Board!Drop(w)
      BY <1>7, <1>11, <2>1 DEF Abandon, Board!Drop, Board!Free, Hand
    <3>2. QED
      BY <3>1 DEF Board!BoardNext
  <2>2. CASE ~Active(w)
    <3>1. \A v \in Workers : Hand(workers'[v]) = Hand(workers[v])
      BY <1>7, <1>11, <2>2 DEF Abandon, Hand
    <3>2. QED
      BY <1>11, <3>1, BoardStutters DEF Abandon
  <2>3. QED
    BY <2>1, <2>2
<1>12. ASSUME NEW w \in Workers, NEW j \in Jobs, SelectForUpdate(w, j)
       PROVE  [Board!BoardNext]_(Board!boardVars)
  <2>1. \A v \in Workers : Hand(workers'[v]) = Hand(workers[v])
    BY <1>1, <1>12 DEF SelectForUpdate, Hand
  <2>2. QED
    BY <1>12, <2>1, BoardStutters DEF SelectForUpdate
<1>13. CASE Tick \/ UNCHANGED queueVars
  BY <1>13, BoardStutters DEF Tick, queueVars
<1>14. ASSUME NEW w \in Workers, CommitClaim(w) PROVE \E j \in Jobs : Board!Claim(w, j)
  <2>1. PICK j \in Jobs : j = workers[w].job
    BY <1>1, <1>14 DEF CommitClaim
  <2>2. QED
    BY <1>3, <1>14, <2>1
<1>15. QED
  BY <1>2, <1>4, <1>8, <1>9, <1>10, <1>11, <1>12, <1>13, <1>14
     DEF Next, WorkerStep, Board!BoardNext

\* The job table implements the job board: claims are atomic although they are
\* two statements, for every number of builders, jobs and crashes.
THEOREM ImplementsBoard == Spec => RefinesBoard
<1>1. Init => Board!BoardInit
  BY DEF Init, NoRow, Idle, Active, Board!BoardInit, Board!NoJob, Board!Free
<1>2. QED
  BY <1>1, Invariance, BlankRows, BoardSteps, PTL DEF Spec, Board!BoardSpec, RefinesBoard
================================================================================
