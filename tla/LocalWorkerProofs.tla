--------------------------- MODULE LocalWorkerProofs ---------------------------
(***************************************************************************)
(* Proofs about LocalWorker, for any number of workers, jobs, deployments, *)
(* attempts and mishaps and every combination of the worker's options.     *)
(***************************************************************************)
EXTENDS LocalWorker, Integers, TLAPS

USE NumbersAssumption, OptionsAssumption, DeploymentsAssumption, TreesAssumption

--------------------------------------------------------------------------------
(***************************************************************************)
(* The inductive invariant                                                 *)
(***************************************************************************)

\* The worker holds a job: it carries a copy of the claimed row.
Active(w) == worker[w].pc \notin {"idle", "found"}

RowInv(j) ==
    /\ handed[j] = rows[j].attempts /\ rows[j].attempts <= MaxAttempts
    /\ rows[j].status = "queued" => rows[j].attempts < MaxAttempts
    /\ rows[j].status = "absent" => rows[j].attempts = 0

\* The copy is as good as the row, and the row is claimed: nobody else finds it
\* ready.  Only a success that was stored although its call threw is not running.
CopyInv(w) ==
    Active(w) =>
        /\ worker[w].claim.status = "running" /\ worker[w].claim.locked
        /\ worker[w].claim.attempts = rows[worker[w].job].attempts
        /\ worker[w].claim.attempts > 0
        /\ \/ rows[worker[w].job].status = "running"
           \/ worker[w].pc = "failed" /\ rows[worker[w].job].status = "succeeded"

HandInv ==
    /\ \A j \in Jobs : RowInv(j)
    /\ \A w \in Workers : CopyInv(w)
    /\ \A v, w \in Workers : Active(v) /\ Active(w) /\ worker[v].job = worker[w].job => v = w

\* From the first status written until the image or the failure is recorded.
Building == Commands \cup {"digest", "record", "failing"}

DepInv(d) ==
    /\ faults = 0 /\ dep[d].status = "BUILDING" =>
          \E w \in Workers : worker[w].pc \in Building /\ MyDep(w) = d
    /\ dep[d].status \in {"IMAGE_READY", "DEPLOYING", "READY"} => dep[d].image # None
    /\ rollout[d] # "idle" => dep[d].image # None

\* An image is recorded before a success is reported, and stays.
DoneInv ==
    /\ \A w \in Workers : worker[w].pc \in {"service", "complete"} => dep[MyDep(w)].image # None
    /\ \A j \in Jobs : rows[j].status = "succeeded" => dep[rows[j].dep].image # None

\* A build of a git service that runs its commands, none of which was killed.
Plain == opt.source = "github" /\ ~opt.dryRun /\ kills = 0

\* Where a tag is read from once its build is over.
Final == IF opt.push = "no" THEN local ELSE registry

\* The clone destination is theirs: nobody else gets past git clone meanwhile.
Holding == {"checkout", "build", "digest"}

BuildInv(w) ==
    LET pc == worker[w].pc
        c  == CommitOf[MyDep(w)]
    IN  /\ pc \in Holding => workspace # None
        /\ pc = "checkout" => c # None
        /\ pc = "push" => opt.push = "after"
        /\ c # None =>
              /\ pc = "build" => workspace = c
              /\ pc = "digest" => metadata \in {None, c}
              /\ pc \in {"digest", "push", "record"} =>
                    (IF opt.push = "buildx" THEN registry ELSE local)[c] = c
              /\ pc = "record" => Final[c] = c
              /\ worker[w].digest \in {None, c}

\* A tag other than latest never names another tree.
StoreInv ==
    /\ \A t \in Trees : local[t] \in {None, t} /\ registry[t] \in {None, t}
    /\ ~opt.metadata => metadata = None

AnnouncedInv(d) ==
    CommitOf[d] # None =>
        /\ dep[d].image # None => dep[d].image = CommitOf[d] /\ Final[CommitOf[d]] = CommitOf[d]
        /\ dep[d].digest \in {None, CommitOf[d]}

ImageInv ==
    Plain =>
        /\ StoreInv
        /\ \A w \in Workers : BuildInv(w)
        /\ \A v, w \in Workers : worker[v].pc \in Holding /\ worker[w].pc \in Holding => v = w
        /\ \A d \in Deployments : AnnouncedInv(d)

IInv ==
    /\ TypeOK
    /\ HandInv
    /\ \A d \in Deployments : DepInv(d)
    /\ DoneInv
    /\ ImageInv

--------------------------------------------------------------------------------
(***************************************************************************)
(* Types                                                                   *)
(***************************************************************************)
WorkerRec == [pc : Phases, job : Jobs, claim : Row, digest : Tags \cup {None}]

\* An idle worker is well typed and holds nothing.
LEMMA IdleType ==
    /\ Idle \in WorkerRec /\ Idle.claim \in Row
    /\ Idle.pc = "idle" /\ Idle.digest = None
    /\ Idle.claim.status = "absent" /\ Idle.claim.attempts = 0 /\ ~Idle.claim.locked
<1>1. PICK d : d \in Deployments
  OBVIOUS
<1>2. (CHOOSE e \in Deployments : TRUE) \in Deployments
  BY <1>1
<1>3. (CHOOSE j \in Jobs : TRUE) \in Jobs
  BY <1>1
<1>4. Idle.claim \in Row
  BY <1>2 DEF Idle, Row, Types
<1>5. QED
  BY <1>2, <1>3, <1>4 DEF Idle, WorkerRec, Phases

\* The delay before a retry is a number of milliseconds (retryDelayMs clamps
\* both the exponent and the factor from below).
LEMMA DelayType == ASSUME NEW a \in Nat PROVE retryDelay(a) \in Nat
<1>1. \A x, y \in Int : Greatest({x, y}) \in {x, y} /\ Greatest({x, y}) >= x
  BY DEF Greatest
<1>2. \A x, y \in Int : Least({x, y}) \in {x, y}
  BY DEF Least
<1>3. Greatest({0, a - 1}) \in Nat
  BY <1>1
<1>4. PICK e : e = 2^Greatest({0, a - 1})
  OBVIOUS
<1>5. e \in Int
  BY <1>3, <1>4
<1>6. Greatest({1, e}) \in Nat
  <2>1. Greatest({1, e}) \in {1, e} /\ Greatest({1, e}) >= 1
    BY <1>1, <1>5
  <2>2. QED
    BY <2>1, <1>5
<1>7. PICK f : f = Greatest({1, e})
  OBVIOUS
<1>8. f \in Nat
  BY <1>6, <1>7
<1>9. RetryBase * f \in Nat
  BY <1>8
<1>10. Least({RetryMax, RetryBase * f}) \in Nat
  BY <1>2, <1>9
<1>11. QED
  BY <1>4, <1>7, <1>10 DEF retryDelay

\* The transitions of a job record keep its type; a row that was given back to
\* the queue has attempts left.
LEMMA RecordTypes ==
    ASSUME NEW row \in Row, now \in Nat
    PROVE  /\ claimWorkflowJobRecord(row) \in Row
           /\ claimWorkflowJobRecord(row).status = "running"
           /\ claimWorkflowJobRecord(row).locked
           /\ claimWorkflowJobRecord(row).attempts = row.attempts + 1
           /\ claimWorkflowJobRecord(row).dep = row.dep
           /\ completeWorkflowJobRecord(row) \in Row
           /\ completeWorkflowJobRecord(row).status = "succeeded"
           /\ ~completeWorkflowJobRecord(row).locked
           /\ completeWorkflowJobRecord(row).attempts = row.attempts
           /\ completeWorkflowJobRecord(row).dep = row.dep
           /\ \A retryable \in BOOLEAN :
                 /\ failWorkflowJobRecord(row, retryable) \in Row
                 /\ ~failWorkflowJobRecord(row, retryable).locked
                 /\ failWorkflowJobRecord(row, retryable).attempts = row.attempts
                 /\ \/ failWorkflowJobRecord(row, retryable).status = "failed"
                    \/ /\ failWorkflowJobRecord(row, retryable).status = "queued"
                       /\ row.attempts < MaxAttempts
<1>1. /\ claimWorkflowJobRecord(row) \in Row
      /\ claimWorkflowJobRecord(row).status = "running"
      /\ claimWorkflowJobRecord(row).locked
      /\ claimWorkflowJobRecord(row).attempts = row.attempts + 1
      /\ claimWorkflowJobRecord(row).dep = row.dep
  <2>1. row.attempts + 1 \in Nat
    BY DEF Row
  <2>2. PICK n : n = row.attempts + 1
    OBVIOUS
  <2>3. claimWorkflowJobRecord(row) =
          [[[row EXCEPT !.status = "running"] EXCEPT !.attempts = n] EXCEPT !.locked = TRUE]
    BY <2>2 DEF claimWorkflowJobRecord, Row
  <2>4. QED
    BY <2>1, <2>2, <2>3 DEF Row
<1>2. /\ completeWorkflowJobRecord(row) \in Row
      /\ completeWorkflowJobRecord(row).status = "succeeded"
      /\ ~completeWorkflowJobRecord(row).locked
      /\ completeWorkflowJobRecord(row).attempts = row.attempts
      /\ completeWorkflowJobRecord(row).dep = row.dep
  BY DEF completeWorkflowJobRecord, Row
<1>3. ASSUME NEW retryable \in BOOLEAN
      PROVE  /\ failWorkflowJobRecord(row, retryable) \in Row
             /\ ~failWorkflowJobRecord(row, retryable).locked
             /\ failWorkflowJobRecord(row, retryable).attempts = row.attempts
             /\ \/ failWorkflowJobRecord(row, retryable).status = "failed"
                \/ /\ failWorkflowJobRecord(row, retryable).status = "queued"
                   /\ row.attempts < MaxAttempts
  <2>1. row.attempts \in Nat
    BY DEF Row
  <2>2. PICK t : t = now + retryDelay(row.attempts)
    OBVIOUS
  <2>3. t \in Nat
    BY <2>1, <2>2, DelayType
  <2>4. QED
    BY <2>2, <2>3 DEF failWorkflowJobRecord, Row
<1>4. QED
  BY <1>1, <1>2, <1>3

\* The initial state satisfies the inductive invariant.
LEMMA InitIInv == Init => IInv
<1> SUFFICES ASSUME Init PROVE IInv
  OBVIOUS
<1>1. \A j \in Jobs : /\ rows[j] \in Row /\ rows[j].status \in {"absent", "queued"}
                      /\ rows[j].attempts = 0 /\ ~rows[j].locked
  <2> SUFFICES ASSUME NEW j \in Jobs
               PROVE  /\ rows[j] \in Row /\ rows[j].status \in {"absent", "queued"}
                      /\ rows[j].attempts = 0 /\ ~rows[j].locked
    OBVIOUS
  <2>1. CASE j \in opt.created
    <3>1. j \in Deployments /\ TypeOf[j] \in Types
      BY <2>1 DEF Init
    <3>2. QED
      BY <2>1, <3>1 DEF Init, NewJob, Row
  <2>2. CASE j \notin opt.created
    BY <2>2, IdleType DEF Init
  <2>3. QED
    BY <2>1, <2>2
<1>2. \A w \in Workers : worker[w] = Idle
  BY DEF Init
<1>3. TypeOK
  <2>1. worker \in [Workers -> WorkerRec]
    BY IdleType DEF Init
  <2>2. rows \in [Jobs -> Row]
    BY <1>1 DEF Init
  <2>3. dep \in [Deployments -> [status : Statuses, image : Tags \cup {None}, digest : Tags \cup {None}]]
    BY DEF Init, Statuses
  <2>4. QED
    BY <1>1, <2>1, <2>2, <2>3 DEF Init, TypeOK, WorkerRec, Tags
<1>4. HandInv
  BY <1>1, <1>2, IdleType DEF Init, HandInv, RowInv, CopyInv, Active
<1>5. (\A d \in Deployments : DepInv(d)) /\ DoneInv
  BY <1>1, <1>2, IdleType DEF Init, DepInv, DoneInv
<1>6. ImageInv
  BY <1>2, IdleType DEF Init, ImageInv, StoreInv, BuildInv, AnnouncedInv, Holding, Tags
<1>7. QED
  BY <1>3, <1>4, <1>5, <1>6 DEF IInv

--------------------------------------------------------------------------------
(***************************************************************************)
(* What a step that touches little preserves                               *)
(***************************************************************************)

\* Nobody but w does anything.
Only(w) == \A v \in Workers \ {w} : worker'[v] = worker[v]

\* w goes on with the job it has.
GoesOn(w) == worker'[w].job = worker[w].job /\ worker'[w].claim = worker[w].claim

\* Worker w moves to another phase and the records of the jobs stay as they are.
LEMMA HandMove ==
    ASSUME HandInv, rows' = rows, handed' = handed, NEW w \in Workers, Only(w),
           \/ worker'[w].pc \in {"idle", "found"}
           \/ Active(w) /\ worker[w].pc # "failed" /\ GoesOn(w)
    PROVE  HandInv'
<1>1. \A v \in Workers : Active(v)' => Active(v) /\ worker'[v].job = worker[v].job
                                       /\ worker'[v].claim = worker[v].claim
                                       /\ (worker[v].pc = "failed" => worker'[v].pc = "failed")
  BY DEF Only, GoesOn, Active
<1>2. \A v \in Workers : CopyInv(v)'
  BY <1>1 DEF HandInv, CopyInv
<1>3. \A j \in Jobs : RowInv(j)'
  BY DEF HandInv, RowInv
<1>4. QED
  BY <1>1, <1>2, <1>3 DEF HandInv

\* The same for a step in which no worker takes part.
LEMMA HandKept ==
    ASSUME HandInv, rows' = rows, handed' = handed, worker' = worker
    PROVE  HandInv'
BY DEF HandInv, RowInv, CopyInv, Active

\* Worker w moves; it stays in the building phases if it was there.
LEMMA DepMove ==
    ASSUME \A d \in Deployments : DepInv(d), dep' = dep, rollout' = rollout,
           NEW w \in Workers, Only(w),
           \/ faults' # 0
           \/ /\ faults' = faults
              /\ worker[w].pc \in Building =>
                    worker'[w].pc \in Building /\ worker'[w].claim = worker[w].claim
    PROVE  (\A d \in Deployments : DepInv(d))'
BY DEF DepInv, Only, MyDep

\* Worker w moves, and if it comes to report its success then with the image recorded.
LEMMA DoneMove ==
    ASSUME DoneInv, dep' = dep, rows' = rows, NEW w \in Workers, Only(w),
           worker'[w].pc \in {"service", "complete"} => dep[MyDep(w)'].image # None
    PROVE  DoneInv'
BY DEF DoneInv, Only, MyDep

\* BuildInv depends on nothing but the worker, the options and the stores.
LEMMA BuildSame ==
    ASSUME NEW v \in Workers, worker'[v] = worker[v], BuildInv(v),
           opt' = opt, workspace' = workspace, local' = local, registry' = registry,
           metadata' = metadata
    PROVE  BuildInv(v)'
<1>1. MyDep(v)' = MyDep(v)
  BY DEF MyDep
<1>2. Final' = Final
  BY DEF Final
<1>3. QED
  BY <1>1, <1>2 DEF BuildInv

\* Worker w moves, the image stores and the deployments stay as they are.
LEMMA ImageMove ==
    ASSUME ImageInv, UNCHANGED <<opt, dep, store>>, NEW w \in Workers, Only(w),
           Plain' => Plain,
           Plain => BuildInv(w)',
           Plain /\ worker'[w].pc \in Holding => worker[w].pc \in Holding
    PROVE  ImageInv'
<1> SUFFICES ASSUME Plain' PROVE ImageInv'
  BY DEF ImageInv
<1>1. StoreInv'
  BY DEF ImageInv, StoreInv, store
<1>2. ASSUME NEW v \in Workers PROVE BuildInv(v)'
  <2>1. Plain /\ BuildInv(v)
    BY DEF ImageInv
  <2>2. CASE v = w
    BY <2>1, <2>2
  <2>3. CASE v # w
    <3>1. worker'[v] = worker[v]
      BY <2>3 DEF Only
    <3>2. QED
      BY <2>1, <3>1, BuildSame DEF store
  <2>4. QED
    BY <2>2, <2>3
<1>3. \A v \in Workers : worker'[v].pc \in Holding => worker[v].pc \in Holding
  BY DEF Only
<1>4. \A d \in Deployments : AnnouncedInv(d)'
  BY DEF ImageInv, AnnouncedInv, store, Final
<1>5. QED
  BY <1>1, <1>2, <1>3, <1>4 DEF ImageInv

\* A worker outside of the phases that BuildInv speaks about has to have a sound digest only.
LEMMA BuildQuiet ==
    ASSUME NEW w \in Workers, worker'[w].pc \notin Holding \cup {"push", "record"},
           worker'[w].digest \in {None, CommitOf[MyDep(w)']}
    PROVE  BuildInv(w)'
BY DEF BuildInv, Holding, MyDep

\* An idle worker satisfies everything said of workers.
LEMMA BuildIdle ==
    ASSUME NEW w \in Workers, worker'[w] = Idle
    PROVE  BuildInv(w)' /\ worker'[w].pc \notin Holding
BY IdleType DEF BuildInv, Holding, MyDep

\* A step in which no worker takes part and no image is touched.
LEMMA ImageKept ==
    ASSUME ImageInv, UNCHANGED <<opt, dep, store, worker, kills>>
    PROVE  ImageInv'
BY DEF ImageInv, Plain, StoreInv, BuildInv, AnnouncedInv, store, MyDep, Final, Holding

\* What Goto does to the worker.
LEMMA GotoFacts ==
    ASSUME TypeOK, NEW w \in Workers, NEW pc \in Phases, Goto(w, pc)
    PROVE  /\ worker' \in [Workers -> WorkerRec] /\ Only(w) /\ GoesOn(w)
           /\ worker'[w].pc = pc /\ worker'[w].digest = worker[w].digest
           /\ MyDep(w)' = MyDep(w) /\ MyDep(w) \in Deployments
<1>1. worker \in [Workers -> WorkerRec]
  BY DEF TypeOK, WorkerRec
<1>2. worker' = [worker EXCEPT ![w].pc = pc]
  BY DEF Goto
<1>3. worker' \in [Workers -> WorkerRec]
  BY <1>1, <1>2 DEF WorkerRec
<1>4. worker[w].claim.dep \in Deployments
  BY <1>1 DEF WorkerRec, Row
<1>5. QED
  BY <1>1, <1>2, <1>3, <1>4 DEF Only, GoesOn, MyDep, WorkerRec

\* What becoming idle does to the worker.
LEMMA IdleFacts ==
    ASSUME TypeOK, NEW w \in Workers, worker' = [worker EXCEPT ![w] = Idle]
    PROVE  worker' \in [Workers -> WorkerRec] /\ Only(w) /\ worker'[w] = Idle
           /\ worker'[w].pc = "idle"
<1>1. worker \in [Workers -> WorkerRec]
  BY DEF TypeOK, WorkerRec
<1>2. QED
  BY <1>1, IdleType DEF Only

\* TypeOK of a step that moves a worker and leaves the tables alone.
LEMMA TypeMove ==
    ASSUME TypeOK, worker' \in [Workers -> WorkerRec],
           UNCHANGED <<opt, now, rows, dep, store, rollout, handed, outside>>,
           faults' \in 0..MaxMishaps, kills' \in 0..MaxMishaps
    PROVE  TypeOK'
BY DEF TypeOK, WorkerRec, store

--------------------------------------------------------------------------------
(***************************************************************************)
(* Claiming and reporting                                                  *)
(***************************************************************************)

\* A job is handed out only when its row says queued, so nobody holds it.
LEMMA HandOutStep ==
    ASSUME IInv, NEW w \in Workers, NEW j \in Jobs, worker[w].pc \in {"idle", "found"},
           isWorkflowJobReady(j), HandOut(w, j),
           UNCHANGED <<opt, now, dep, store, rollout, outside, faults, kills>>
    PROVE  IInv'
<1>1. TypeOK /\ rows[j] \in Row /\ now \in Nat /\ worker \in [Workers -> WorkerRec]
      /\ rows \in [Jobs -> Row] /\ handed \in [Jobs -> 0..MaxAttempts] /\ HandInv
  BY DEF IInv, TypeOK, WorkerRec
<1>2. PICK row : row = claimWorkflowJobRecord(rows[j])
  OBVIOUS
<1>3. /\ row \in Row /\ row.status = "running" /\ row.locked = TRUE
      /\ row.attempts = rows[j].attempts + 1 /\ row.dep = rows[j].dep
  BY <1>1, <1>2, RecordTypes, Zenon
<1>4. PICK rec : rec = [Idle EXCEPT !.pc = "claimed", !.job = j, !.claim = row]
  OBVIOUS
<1>5. /\ rec \in WorkerRec /\ rec.pc = "claimed" /\ rec.job = j /\ rec.claim = row
      /\ rec.digest = None
  BY <1>3, <1>4, IdleType DEF WorkerRec, Phases
<1>6. /\ rows' = [rows EXCEPT ![j] = row] /\ worker' = [worker EXCEPT ![w] = rec]
      /\ handed' = [handed EXCEPT ![j] = @ + 1]
  BY <1>2, <1>4 DEF HandOut
<1>7. Only(w) /\ worker'[w] = rec /\ worker' \in [Workers -> WorkerRec]
  BY <1>1, <1>5, <1>6 DEF Only
<1>8. rows[j].status = "queued" /\ rows[j].attempts \in Nat /\ rows[j].attempts < MaxAttempts
      /\ handed[j] = rows[j].attempts
  BY <1>1 DEF isWorkflowJobReady, HandInv, RowInv, Row
<1>9. /\ rows' \in [Jobs -> Row] /\ rows'[j] = row
      /\ \A i \in Jobs \ {j} : rows'[i] = rows[i] /\ handed'[i] = handed[i]
      /\ handed' \in [Jobs -> 0..MaxAttempts] /\ handed'[j] = row.attempts
  BY <1>1, <1>3, <1>6, <1>8
<1>10. TypeOK'
  <2>1. \A i \in Jobs : rows'[i].locked <=> rows'[i].status = "running"
    BY <1>1, <1>3, <1>9 DEF TypeOK
  <2>2. QED
    BY <1>1, <1>7, <1>9, <2>1 DEF TypeOK, WorkerRec, store
<1>11. HandInv'
  <2>1. \A v \in Workers \ {w} : Active(v) => worker[v].job # j
    BY <1>1, <1>8 DEF HandInv, CopyInv
  <2>2. \A i \in Jobs : RowInv(i)'
    BY <1>1, <1>3, <1>8, <1>9 DEF HandInv, RowInv
  <2>3. \A v \in Workers \ {w} : CopyInv(v)' /\ (Active(v)' => worker'[v].job # j)
    <3>1. SUFFICES ASSUME NEW v \in Workers \ {w}
                   PROVE  CopyInv(v)' /\ (Active(v)' => worker'[v].job # j)
      OBVIOUS
    <3>2. worker'[v] = worker[v] /\ worker[v].job \in Jobs
      BY <1>1, <1>7 DEF Only, WorkerRec
    <3>3. Active(v) => rows'[worker[v].job] = rows[worker[v].job]
      BY <1>9, <2>1, <3>2
    <3>4. QED
      BY <1>1, <2>1, <3>2, <3>3 DEF HandInv, CopyInv, Active
  <2>4. CopyInv(w)' /\ worker'[w].job = j
    BY <1>3, <1>5, <1>7, <1>8, <1>9 DEF CopyInv
  <2>5. \A u, v \in Workers \ {w} :
           Active(u)' /\ Active(v)' /\ worker'[u].job = worker'[v].job => u = v
    BY <1>1, <1>7 DEF HandInv, Active, Only
  <2>6. QED
    BY <2>2, <2>3, <2>4, <2>5 DEF HandInv
<1>12. (\A d \in Deployments : DepInv(d))'
  BY <1>7, DepMove DEF IInv, Building, Commands
<1>13. DoneInv'
  <2>1. \A v \in Workers : worker'[v].pc \in {"service", "complete"} => worker'[v] = worker[v]
    BY <1>5, <1>7 DEF Only
  <2>2. \A i \in Jobs : rows'[i].status = "succeeded" => rows'[i] = rows[i]
    BY <1>3, <1>9
  <2>3. QED
    BY <2>1, <2>2 DEF IInv, DoneInv, MyDep
<1>14. ImageInv'
  <2>1. BuildInv(w)' /\ worker'[w].pc \notin Holding
    BY <1>5, <1>7, BuildQuiet DEF Holding
  <2>2. Plain' => Plain
    BY DEF Plain
  <2>3. QED
    BY <1>7, <2>1, <2>2, ImageMove DEF IInv
<1>15. QED
  BY <1>10, <1>11, <1>12, <1>13, <1>14 DEF IInv

\* claimNextWorkflowJobFromList.
LEMMA ClaimFromListStep == ASSUME IInv, NEW w \in Workers, claimFromList(w) PROVE IInv'
<1>1. PICK j \in Jobs : isWorkflowJobReady(j) /\ HandOut(w, j)
  BY DEF claimFromList
<1>2. worker[w].pc = "idle" /\ UNCHANGED <<opt, now, dep, store, rollout, outside, faults, kills>>
  BY DEF claimFromList, At
<1>3. QED
  BY <1>1, <1>2, HandOutStep

\* A worker goes back to the select, or crashes, with no table touched.
LEMMA BackToIdle ==
    ASSUME IInv, NEW w \in Workers, worker' = [worker EXCEPT ![w] = Idle],
           UNCHANGED <<opt, now, rows, dep, store, rollout, handed, outside, kills>>,
           \/ faults' = faults /\ worker[w].pc \notin Building
           \/ faults' \in 0..MaxMishaps /\ faults' # 0
    PROVE  IInv'
<1>1. worker' \in [Workers -> WorkerRec] /\ Only(w) /\ worker'[w] = Idle /\ worker'[w].pc = "idle"
  BY IdleFacts DEF IInv
<1>2. TypeOK'
  BY <1>1, TypeMove DEF IInv, TypeOK
<1>3. HandInv'
  BY <1>1, HandMove DEF IInv
<1>4. (\A d \in Deployments : DepInv(d))'
  BY <1>1, DepMove DEF IInv
<1>5. DoneInv'
  BY <1>1, DoneMove DEF IInv
<1>6. ImageInv'
  <2>1. Plain' => Plain
    BY DEF Plain
  <2>2. QED
    BY <1>1, <2>1, BuildIdle, ImageMove DEF IInv
<1>7. QED
  BY <1>2, <1>3, <1>4, <1>5, <1>6 DEF IInv

\* The select of claimNextWorkflowJob.
LEMMA FindFirstStep == ASSUME IInv, NEW w \in Workers, findFirst(w) PROVE IInv'
<1>1. PICK j \in Jobs : worker' = [worker EXCEPT ![w].pc = "found", ![w].job = j]
  BY DEF findFirst
<1>2. worker \in [Workers -> WorkerRec] /\ worker[w].pc = "idle"
  BY DEF IInv, TypeOK, WorkerRec, findFirst, At
<1>3. /\ worker' \in [Workers -> WorkerRec] /\ Only(w) /\ worker'[w].pc = "found"
      /\ worker'[w].claim = worker[w].claim /\ worker'[w].digest = worker[w].digest
  BY <1>1, <1>2 DEF WorkerRec, Phases, Only
<1>4. UNCHANGED <<opt, now, rows, dep, store, rollout, handed, outside, faults, kills>>
  BY DEF findFirst
<1>5. TypeOK'
  BY <1>3, <1>4, TypeMove DEF IInv, TypeOK
<1>6. HandInv'
  BY <1>3, <1>4, HandMove DEF IInv
<1>7. (\A d \in Deployments : DepInv(d))'
  BY <1>2, <1>3, <1>4, DepMove DEF IInv, Building, Commands
<1>8. DoneInv'
  BY <1>3, <1>4, DoneMove DEF IInv
<1>9. ImageInv'
  <2>1. Plain' => Plain
    BY <1>4 DEF Plain
  <2>2. ASSUME Plain PROVE BuildInv(w)'
    BY <1>3, <2>2 DEF IInv, ImageInv, BuildInv, MyDep, Holding
  <2>3. QED
    BY <1>3, <1>4, <2>1, <2>2, ImageMove DEF IInv, Holding
<1>10. QED
  BY <1>5, <1>6, <1>7, <1>8, <1>9 DEF IInv

\* The conditional update of claimNextWorkflowJob.
LEMMA UpdateManyStep == ASSUME IInv, NEW w \in Workers, updateMany(w) PROVE IInv'
<1>1. worker[w].pc = "found" /\ worker[w].job \in Jobs
      /\ UNCHANGED <<opt, now, dep, store, rollout, outside, faults, kills>>
  BY DEF IInv, TypeOK, updateMany, At
<1>2. CASE isWorkflowJobReady(worker[w].job)
  <2>1. HandOut(w, worker[w].job)
    BY <1>2 DEF updateMany
  <2>2. QED
    BY <1>1, <1>2, <2>1, HandOutStep
<1>3. CASE ~isWorkflowJobReady(worker[w].job)
  <2>1. worker' = [worker EXCEPT ![w] = Idle] /\ UNCHANGED <<rows, handed>>
    BY <1>3 DEF updateMany
  <2>2. worker[w].pc \notin Building
    BY <1>1 DEF Building, Commands
  <2>3. QED
    BY <1>1, <2>1, <2>2, BackToIdle
<1>4. QED
  BY <1>2, <1>3

\* A worker writes its copy back, changed, and lets go of the job: the row it
\* overwrites is the row it claimed.
LEMMA ReportStep ==
    ASSUME IInv, NEW w \in Workers, Active(w), worker[w].pc \notin Building,
           NEW row \in Row, Report(w, row), row.attempts = worker[w].claim.attempts,
           ~row.locked, row.status \in {"queued", "succeeded", "failed"},
           row.status = "queued" => row.attempts < MaxAttempts,
           row.status = "succeeded" => dep[row.dep].image # None
    PROVE  IInv'
<1>1. /\ worker \in [Workers -> WorkerRec] /\ rows \in [Jobs -> Row] /\ TypeOK /\ HandInv
      /\ worker[w].job \in Jobs
  BY DEF IInv, TypeOK, WorkerRec
<1>2. PICK j \in Jobs : j = worker[w].job
  BY <1>1
<1>3. /\ rows' = [rows EXCEPT ![j] = row] /\ worker' = [worker EXCEPT ![w] = Idle]
      /\ UNCHANGED <<opt, now, dep, store, rollout, handed, outside, faults, kills>>
  BY <1>2 DEF Report
<1>4. worker' \in [Workers -> WorkerRec] /\ Only(w) /\ worker'[w] = Idle /\ worker'[w].pc = "idle"
  BY <1>1, <1>3, IdleFacts
<1>5. /\ rows' \in [Jobs -> Row] /\ rows'[j] = row
      /\ \A i \in Jobs \ {j} : rows'[i] = rows[i]
  BY <1>1, <1>3
<1>6. TypeOK'
  <2>1. \A i \in Jobs : rows'[i].locked <=> rows'[i].status = "running"
    BY <1>1, <1>5 DEF TypeOK
  <2>2. QED
    BY <1>1, <1>3, <1>4, <1>5, <2>1 DEF TypeOK, WorkerRec, store
<1>7. HandInv'
  <2>1. row.attempts = rows[j].attempts
    BY <1>1, <1>2 DEF HandInv, CopyInv
  <2>2. \A i \in Jobs : RowInv(i)'
    BY <1>1, <1>3, <1>5, <2>1 DEF HandInv, RowInv
  <2>3. ASSUME NEW v \in Workers PROVE CopyInv(v)'
    <3>1. CASE v = w
      BY <1>4, <3>1 DEF CopyInv, Active
    <3>2. CASE v # w
      <4>1. worker'[v] = worker[v] /\ worker[v].job \in Jobs
        BY <1>1, <1>4, <3>2 DEF Only, WorkerRec
      <4>2. Active(v) => worker[v].job # j
        BY <1>1, <1>2, <3>2 DEF HandInv
      <4>3. Active(v) => rows'[worker[v].job] = rows[worker[v].job]
        BY <1>5, <4>1, <4>2
      <4>4. QED
        BY <1>1, <4>1, <4>3 DEF HandInv, CopyInv, Active
    <3>3. QED
      BY <3>1, <3>2
  <2>4. \A u, v \in Workers : Active(u)' /\ Active(v)' /\ worker'[u].job = worker'[v].job => u = v
    BY <1>1, <1>4 DEF HandInv, Active, Only
  <2>5. QED
    BY <2>2, <2>3, <2>4 DEF HandInv
<1>8. (\A d \in Deployments : DepInv(d))'
  BY <1>3, <1>4, DepMove DEF IInv
<1>9. DoneInv'
  <2>1. \A v \in Workers : worker'[v].pc \in {"service", "complete"} => worker'[v] = worker[v]
    BY <1>4 DEF Only
  <2>2. QED
    BY <1>3, <1>5, <2>1 DEF IInv, DoneInv, MyDep
<1>10. ImageInv'
  <2>1. Plain' => Plain
    BY <1>3 DEF Plain
  <2>2. QED
    BY <1>3, <1>4, <2>1, BuildIdle, ImageMove DEF IInv
<1>11. QED
  BY <1>6, <1>7, <1>8, <1>9, <1>10 DEF IInv

\* A worker that holds a job has a well typed copy of its row.
LEMMA ClaimFacts ==
    ASSUME IInv, NEW w \in Workers
    PROVE  worker[w].claim \in Row /\ worker[w].claim.dep \in Deployments /\ now \in Nat
<1>1. worker[w].claim \in Row /\ now \in Nat
  BY DEF IInv, TypeOK
<1>2. QED
  BY <1>1 DEF Row

\* The three reports of processWorkflowJob.
LEMMA ReportSteps ==
    ASSUME IInv, NEW w \in Workers, noHandler(w) \/ completeInQueue(w) \/ failInQueue(w)
    PROVE  IInv'
<1> DEFINE claim == worker[w].claim
<1>1. claim \in Row /\ now \in Nat
  BY ClaimFacts
<1>2. ASSUME NEW retryable \in BOOLEAN, worker[w].pc \in {"claimed", "failed"},
             Report(w, failWorkflowJobRecord(claim, retryable))
      PROVE  IInv'
  <2>1. PICK row : row = failWorkflowJobRecord(claim, retryable)
    OBVIOUS
  <2>2. /\ row \in Row /\ ~row.locked /\ row.attempts = claim.attempts
        /\ row.status = "failed" \/ (row.status = "queued" /\ claim.attempts < MaxAttempts)
    BY <1>1, <2>1, RecordTypes, Zenon
  <2>3. Active(w) /\ worker[w].pc \notin Building
    BY <1>2 DEF Active, Building, Commands
  <2>4. Report(w, row)
    BY <1>2, <2>1
  <2>5. QED
    BY <2>2, <2>3, <2>4, ReportStep
<1>3. CASE noHandler(w)
  BY <1>2, <1>3 DEF noHandler, At
<1>4. CASE failInQueue(w)
  BY <1>2, <1>4 DEF failInQueue, At
<1>5. CASE completeInQueue(w)
  <2>1. PICK row : row = completeWorkflowJobRecord(claim)
    OBVIOUS
  <2>2. /\ row \in Row /\ ~row.locked /\ row.attempts = claim.attempts
        /\ row.status = "succeeded" /\ row.dep = claim.dep
    BY <1>1, <2>1, RecordTypes, Zenon
  <2>3. worker[w].pc = "complete" /\ Report(w, row)
    BY <1>5, <2>1 DEF completeInQueue, At
  <2>4. Active(w) /\ worker[w].pc \notin Building
    BY <2>3 DEF Active, Building, Commands
  <2>5. dep[row.dep].image # None
    BY <2>2, <2>3 DEF IInv, DoneInv, MyDep
  <2>6. QED
    BY <2>2, <2>3, <2>4, <2>5, ReportStep
<1>6. QED
  BY <1>3, <1>4, <1>5

--------------------------------------------------------------------------------
(***************************************************************************)
(* The steps of a build                                                    *)
(***************************************************************************)

\* The order of the commands.
LEMMA NextFacts ==
    ASSUME NEW d, NEW pc \in Commands \cup {"resolved"}
    PROVE  /\ NextCommand(d, pc) \in Building \cap Phases
           /\ opt.source = "github" /\ ~opt.dryRun =>
                 /\ pc = "resolved" => NextCommand(d, pc) = "clone"
                 /\ pc = "clone" => NextCommand(d, pc) = IF CommitOf[d] = None THEN "build" ELSE "checkout"
                 /\ pc = "checkout" => NextCommand(d, pc) = "build"
                 /\ pc = "build" => NextCommand(d, pc) = "digest"
                 /\ pc = "push" => NextCommand(d, pc) = "record"
<1> USE DEF Building, Phases, InTry, Commands
<1>1. CASE pc = "resolved"
  BY <1>1 DEF NextCommand
<1>2. CASE pc = "clone"
  BY <1>2 DEF NextCommand
<1>3. CASE pc = "checkout"
  BY <1>3 DEF NextCommand
<1>4. CASE pc = "build"
  BY <1>4 DEF NextCommand
<1>5. CASE pc = "push"
  BY <1>5 DEF NextCommand
<1>6. QED
  BY <1>1, <1>2, <1>3, <1>4, <1>5

\* A step that only moves the worker to its next phase.
LEMMA PhaseStep ==
    ASSUME IInv, NEW w \in Workers, NEW pc \in Phases, Goto(w, pc), Active(w),
           worker[w].pc # "failed",
           UNCHANGED <<opt, now, rows, dep, store, rollout, handed, outside>>,
           faults' \in 0..MaxMishaps, kills' \in 0..MaxMishaps,
           faults' # 0 \/ (faults' = faults /\ (worker[w].pc \in Building => pc \in Building)),
           pc \in {"service", "complete"} => dep[MyDep(w)].image # None,
           Plain' => Plain /\ pc \notin Holding \cup {"push", "record"}
    PROVE  IInv'
<1>1. /\ worker' \in [Workers -> WorkerRec] /\ Only(w) /\ GoesOn(w)
      /\ worker'[w].pc = pc /\ worker'[w].digest = worker[w].digest
      /\ MyDep(w)' = MyDep(w) /\ MyDep(w) \in Deployments
  BY GotoFacts DEF IInv
<1>2. TypeOK'
  BY <1>1, TypeMove DEF IInv
<1>3. HandInv'
  BY <1>1, HandMove DEF IInv
<1>4. (\A d \in Deployments : DepInv(d))'
  BY <1>1, DepMove DEF IInv, GoesOn
<1>5. DoneInv'
  BY <1>1, DoneMove DEF IInv
<1>6. ImageInv'
  <2>1. CASE ~Plain'
    BY <2>1 DEF ImageInv
  <2>2. CASE Plain'
    <3>1. worker[w].digest \in {None, CommitOf[MyDep(w)]} \/ CommitOf[MyDep(w)] = None
      BY <2>2 DEF IInv, ImageInv, BuildInv
    <3>2. BuildInv(w)'
      BY <1>1, <2>2, <3>1 DEF BuildInv, Holding
    <3>3. worker'[w].pc \notin Holding
      BY <1>1, <2>2
    <3>4. QED
      BY <1>1, <2>2, <3>2, <3>3, ImageMove DEF IInv
  <2>3. QED
    BY <2>1, <2>2
<1>7. QED
  BY <1>2, <1>3, <1>4, <1>5, <1>6 DEF IInv

\* The end of processBuilderWorkflowJob.
LEMMA UpdateServiceStep == ASSUME IInv, NEW w \in Workers, updateService(w) PROVE IInv'
<1>1. /\ worker[w].pc = "service" /\ Goto(w, "complete") /\ "complete" \in Phases
      /\ UNCHANGED <<opt, now, rows, dep, store, rollout, handed, outside, faults, kills>>
  BY DEF updateService, At, Phases
<1>2. Active(w) /\ worker[w].pc # "failed" /\ worker[w].pc \notin Building
  BY <1>1 DEF Active, Building, Commands
<1>3. dep[MyDep(w)].image # None
  BY <1>1 DEF IInv, DoneInv
<1>4. faults' \in 0..MaxMishaps /\ kills' \in 0..MaxMishaps
  BY <1>1 DEF IInv, TypeOK
<1>5. Plain' => Plain /\ "complete" \notin Holding \cup {"push", "record"}
  BY <1>1 DEF Plain, Holding
<1>6. QED
  BY <1>1, <1>2, <1>3, <1>4, <1>5, PhaseStep

\* A command that exits with an error.
LEMMA CommandFailsStep == ASSUME IInv, NEW w \in Workers, commandFails(w) PROVE IInv'
<1>1. /\ worker[w].pc \in Commands /\ Goto(w, "failing") /\ "failing" \in Phases
      /\ UNCHANGED <<opt, now, rows, dep, store, rollout, handed, outside, faults, kills>>
  BY DEF commandFails, Phases
<1>2. Active(w) /\ worker[w].pc # "failed" /\ "failing" \in Building
  BY <1>1 DEF Active, Building, Commands
<1>3. faults' \in 0..MaxMishaps /\ kills' \in 0..MaxMishaps
  BY <1>1 DEF IInv, TypeOK
<1>4. Plain' => Plain /\ "failing" \notin Holding \cup {"push", "record"}
  BY <1>1 DEF Plain, Holding
<1>5. QED
  BY <1>1, <1>2, <1>3, <1>4, PhaseStep

\* A command killed by its timeout counts as a success.
LEMMA CommandKilledStep == ASSUME IInv, NEW w \in Workers, commandKilled(w) PROVE IInv'
<1>1. PICK pc : pc = NextCommand(MyDep(w), worker[w].pc)
  OBVIOUS
<1>2. /\ worker[w].pc \in Commands /\ Goto(w, pc) /\ kills' = kills + 1
      /\ faults + kills < MaxMishaps
      /\ UNCHANGED <<opt, now, rows, dep, store, rollout, handed, outside, faults>>
  BY <1>1 DEF commandKilled, Advance
<1>3. pc \in Building /\ pc \in Phases
  BY <1>1, <1>2, NextFacts
<1>4. Active(w) /\ worker[w].pc # "failed" /\ pc \notin {"service", "complete"}
  BY <1>2, <1>3 DEF Active, Building, Commands
<1>5. faults \in 0..MaxMishaps /\ kills \in 0..MaxMishaps
  BY DEF IInv, TypeOK
<1>6. faults' \in 0..MaxMishaps /\ kills' \in 0..MaxMishaps /\ kills' # 0
  BY <1>2, <1>5
<1>7. ~Plain'
  BY <1>6 DEF Plain
<1>8. QED
  BY <1>2, <1>3, <1>4, <1>6, <1>7, PhaseStep

\* A worker moves on and takes a digest with it.
LEMMA DigestFacts ==
    ASSUME TypeOK, NEW w \in Workers, NEW pc \in Phases, NEW g \in Tags \cup {None},
           worker' = [worker EXCEPT ![w].pc = pc, ![w].digest = g]
    PROVE  /\ worker' \in [Workers -> WorkerRec] /\ Only(w) /\ GoesOn(w)
           /\ worker'[w].pc = pc /\ worker'[w].digest = g
           /\ MyDep(w)' = MyDep(w) /\ MyDep(w) \in Deployments
<1>1. worker \in [Workers -> WorkerRec]
  BY DEF TypeOK, WorkerRec
<1>2. worker' \in [Workers -> WorkerRec]
  BY <1>1 DEF WorkerRec
<1>3. worker[w].claim.dep \in Deployments
  BY <1>1 DEF WorkerRec, Row
<1>4. QED
  BY <1>1, <1>2, <1>3 DEF Only, GoesOn, MyDep, WorkerRec

\* The handler reads the deployment, its earlier digest included.
LEMMA ResolveStep ==
    ASSUME IInv, NEW w \in Workers, resolveDeploymentWorkflowState(w) PROVE IInv'
<1>1. MyDep(w) \in Deployments
  BY ClaimFacts DEF MyDep
<1>2. PICK g : g = dep[MyDep(w)].digest
  OBVIOUS
<1>3. g \in Tags \cup {None}
  BY <1>1, <1>2 DEF IInv, TypeOK
<1>4. /\ worker[w].pc = "claimed" /\ "resolved" \in Phases
      /\ worker' = [worker EXCEPT ![w].pc = "resolved", ![w].digest = g]
      /\ UNCHANGED <<opt, now, rows, dep, store, rollout, handed, outside, faults, kills>>
  BY <1>2 DEF resolveDeploymentWorkflowState, At, Phases
<1>5. /\ worker' \in [Workers -> WorkerRec] /\ Only(w) /\ GoesOn(w)
      /\ worker'[w].pc = "resolved" /\ worker'[w].digest = g /\ MyDep(w)' = MyDep(w)
  BY <1>3, <1>4, DigestFacts DEF IInv
<1>6. TypeOK'
  BY <1>4, <1>5, TypeMove DEF IInv, TypeOK
<1>7. HandInv'
  BY <1>4, <1>5, HandMove DEF IInv, Active
<1>8. (\A d \in Deployments : DepInv(d))'
  BY <1>4, <1>5, DepMove DEF IInv, Building, Commands
<1>9. DoneInv'
  BY <1>4, <1>5, DoneMove DEF IInv
<1>10. ImageInv'
  <2>1. Plain' => Plain
    BY <1>4 DEF Plain
  <2>2. ASSUME Plain PROVE BuildInv(w)'
    <3>1. CommitOf[MyDep(w)] # None => g \in {None, CommitOf[MyDep(w)]}
      BY <1>1, <1>2, <2>2 DEF IInv, ImageInv, AnnouncedInv
    <3>2. QED
      BY <1>5, <3>1 DEF BuildInv, Holding
  <2>3. QED
    BY <1>4, <1>5, <2>1, <2>2, ImageMove DEF IInv, Holding
<1>11. QED
  BY <1>6, <1>7, <1>8, <1>9, <1>10 DEF IInv

\* The name of a deployment's image.
LEMMA ImageForFacts ==
    ASSUME NEW d \in Deployments
    PROVE  /\ imageFor(d) \in Tags /\ imageFor(d) # None
           /\ opt.source = "github" =>
                 imageFor(d) = IF CommitOf[d] = None THEN "latest" ELSE CommitOf[d]
           /\ CommitOf[d] # None => CommitOf[d] \in Trees /\ CommitOf[d] # "latest"
BY DEF imageFor, Tags, Trees

\* The digest of what was just built: nobody else wrote the metadata file since.
LEMMA ResolveBuildDigestStep ==
    ASSUME IInv, NEW w \in Workers, resolveBuildDigest(w) PROVE IInv'
<1>1. MyDep(w) \in Deployments
  BY ClaimFacts DEF MyDep
<1>2. /\ metadata \in Tags \cup {None} /\ worker[w].digest \in Tags \cup {None}
      /\ worker \in [Workers -> WorkerRec] /\ opt \in Options
  BY DEF IInv, TypeOK, Tags, WorkerRec
<1>3. PICK g : g = IF opt.source # "image" /\ metadata # None THEN metadata
                   ELSE IF opt.dryRun THEN imageFor(MyDep(w)) ELSE worker[w].digest
  OBVIOUS
<1>4. PICK pc : pc = IF opt.source = "image" THEN "record" ELSE AfterBuild
  OBVIOUS
<1>5. g \in Tags \cup {None}
  BY <1>1, <1>2, <1>3, ImageForFacts
<1>6. pc \in {"record", "push"} /\ pc \in Phases
  BY <1>4 DEF AfterBuild, Phases, InTry, Commands
<1>7. /\ worker[w].pc = "digest"
      /\ UNCHANGED <<opt, now, rows, dep, store, rollout, handed, outside, faults, kills>>
  BY DEF resolveBuildDigest, At
<1>8. worker' = [worker EXCEPT ![w].pc = pc, ![w].digest = g]
  BY <1>2, <1>3, <1>4 DEF resolveBuildDigest, WorkerRec
<1>9. /\ worker' \in [Workers -> WorkerRec] /\ Only(w) /\ GoesOn(w)
      /\ worker'[w].pc = pc /\ worker'[w].digest = g /\ MyDep(w)' = MyDep(w)
  BY <1>5, <1>6, <1>8, DigestFacts DEF IInv
<1>10. TypeOK'
  BY <1>7, <1>9, TypeMove DEF IInv, TypeOK
<1>11. HandInv'
  BY <1>7, <1>9, HandMove DEF IInv, Active
<1>12. (\A d \in Deployments : DepInv(d))'
  BY <1>6, <1>7, <1>9, DepMove DEF IInv, Building, Commands, GoesOn
<1>13. DoneInv'
  BY <1>6, <1>7, <1>9, DoneMove DEF IInv
<1>14. ImageInv'
  <2>1. Plain' => Plain
    BY <1>7 DEF Plain
  <2>2. ASSUME Plain PROVE BuildInv(w)'
    <3>1. opt.push \in {"no", "buildx", "after"}
      BY <1>2
    <3>2. BuildInv(w)
      BY <2>2 DEF IInv, ImageInv
    <3>3. pc = IF opt.push = "after" THEN "push" ELSE "record"
      BY <1>4, <2>2 DEF AfterBuild, Plain
    <3>4. CommitOf[MyDep(w)] # None => g \in {None, CommitOf[MyDep(w)]}
      BY <1>3, <1>7, <2>2, <3>2 DEF BuildInv, Plain
    <3>5. UNCHANGED <<workspace, local, registry, metadata, opt>>
      BY <1>7 DEF store
    <3>6. QED
      BY <1>7, <1>9, <3>1, <3>2, <3>3, <3>4, <3>5 DEF BuildInv, Holding, Final
  <2>3. worker'[w].pc \notin Holding
    BY <1>6, <1>9 DEF Holding
  <2>4. QED
    BY <1>7, <1>9, <2>1, <2>2, <2>3, ImageMove DEF IInv
<1>15. QED
  BY <1>10, <1>11, <1>12, <1>13, <1>14 DEF IInv

\* No image and no digest is touched.
SameImages == \A d \in Deployments : dep'[d].image = dep[d].image /\ dep'[d].digest = dep[d].digest

\* What writing a deployment's status does.
LEMMA StatusFacts ==
    ASSUME TypeOK, NEW d \in Deployments, NEW s \in Statuses,
           dep' = [dep EXCEPT ![d].status = s]
    PROVE  /\ dep' \in [Deployments -> [status : Statuses, image : Tags \cup {None},
                                        digest : Tags \cup {None}]]
           /\ SameImages /\ dep'[d].status = s
           /\ \A e \in Deployments \ {d} : dep'[e] = dep[e]
<1> DEFINE Dep == [status : Statuses, image : Tags \cup {None}, digest : Tags \cup {None}]
<1>1. dep \in [Deployments -> Dep]
  BY DEF TypeOK
<1>2. PICK row : row = [dep[d] EXCEPT !.status = s]
  OBVIOUS
<1>3. row \in Dep /\ row.status = s /\ row.image = dep[d].image /\ row.digest = dep[d].digest
  BY <1>1, <1>2
<1>4. dep' = [dep EXCEPT ![d] = row]
  BY <1>1, <1>2
<1>5. dep' \in [Deployments -> Dep] /\ dep'[d] = row
  BY <1>1, <1>3, <1>4
<1>6. \A e \in Deployments \ {d} : dep'[e] = dep[e]
  BY <1>1, <1>4
<1>7. QED
  BY <1>3, <1>5, <1>6 DEF SameImages

\* DoneInv does not depend on statuses.
LEMMA DoneStatus ==
    ASSUME IInv, SameImages, rows' = rows, NEW w \in Workers, Only(w), GoesOn(w),
           worker'[w].pc \notin {"service", "complete"}
    PROVE  DoneInv'
<1>1. \A v \in Workers : worker[v].claim.dep \in Deployments
  BY ClaimFacts
<1>2. \A j \in Jobs : rows[j].dep \in Deployments
  BY DEF IInv, TypeOK, Row
<1>3. ASSUME NEW v \in Workers, worker'[v].pc \in {"service", "complete"}
      PROVE  dep'[worker'[v].claim.dep].image # None
  <2>1. worker'[v] = worker[v]
    BY <1>3 DEF Only
  <2>2. dep[worker[v].claim.dep].image # None
    BY <1>3, <2>1 DEF IInv, DoneInv, MyDep
  <2>3. dep'[worker[v].claim.dep].image = dep[worker[v].claim.dep].image
    BY <1>1 DEF SameImages
  <2>4. QED
    BY <2>1, <2>2, <2>3
<1>4. ASSUME NEW j \in Jobs, rows[j].status = "succeeded"
      PROVE  dep'[rows[j].dep].image # None
  <2>1. dep[rows[j].dep].image # None
    BY <1>4 DEF IInv, DoneInv
  <2>2. QED
    BY <1>2, <2>1 DEF SameImages
<1>5. QED
  BY <1>3, <1>4 DEF DoneInv, MyDep

\* Neither does ImageInv.
LEMMA ImageStatus ==
    ASSUME ImageInv, SameImages, UNCHANGED <<opt, store, kills>>, NEW w \in Workers, Only(w),
           Plain => BuildInv(w)',
           worker'[w].pc \notin Holding
    PROVE  ImageInv'
<1> SUFFICES ASSUME Plain' PROVE ImageInv'
  BY DEF ImageInv
<1>1. Plain
  BY DEF Plain
<1>2. StoreInv'
  BY <1>1 DEF ImageInv, StoreInv, store
<1>3. ASSUME NEW v \in Workers PROVE BuildInv(v)'
  BY <1>1 DEF ImageInv, BuildInv, Only, store, MyDep, Final
<1>4. \A v \in Workers : worker'[v].pc \in Holding => worker[v].pc \in Holding
  BY DEF Only
<1>5. \A d \in Deployments : AnnouncedInv(d)'
  BY <1>1 DEF ImageInv, AnnouncedInv, store, Final, SameImages
<1>6. QED
  BY <1>1, <1>2, <1>3, <1>4, <1>5 DEF ImageInv

\* The first thing a build writes is the status BUILDING.
LEMMA MarkBuildingStep == ASSUME IInv, NEW w \in Workers, markBuilding(w) PROVE IInv'
<1>1. PICK d : d = MyDep(w)
  OBVIOUS
<1>2. PICK pc : pc = NextCommand(MyDep(w), worker[w].pc)
  OBVIOUS
<1>3. d \in Deployments
  BY <1>1, ClaimFacts DEF MyDep
<1>4. /\ worker[w].pc = "resolved" /\ dep' = [dep EXCEPT ![d].status = "BUILDING"]
      /\ Goto(w, pc)
      /\ UNCHANGED <<opt, now, rows, store, rollout, handed, outside, faults, kills>>
  BY <1>1, <1>2 DEF markBuilding, Advance, At
<1>5. pc \in Building /\ pc \in Phases /\ (Plain => pc = "clone")
  BY <1>2, <1>4, NextFacts DEF Plain
<1>6. /\ worker' \in [Workers -> WorkerRec] /\ Only(w) /\ GoesOn(w)
      /\ worker'[w].pc = pc /\ worker'[w].digest = worker[w].digest
      /\ MyDep(w)' = MyDep(w)
  BY <1>4, <1>5, GotoFacts DEF IInv
<1>7. /\ dep' \in [Deployments -> [status : Statuses, image : Tags \cup {None},
                                   digest : Tags \cup {None}]]
      /\ SameImages /\ dep'[d].status = "BUILDING"
      /\ \A e \in Deployments \ {d} : dep'[e] = dep[e]
  BY <1>3, <1>4, StatusFacts DEF IInv, Statuses
<1>8. TypeOK'
  BY <1>4, <1>6, <1>7 DEF IInv, TypeOK, WorkerRec, store
<1>9. HandInv'
  BY <1>4, <1>6, HandMove DEF IInv, Active
<1>10. (\A e \in Deployments : DepInv(e))'
  <2>1. ASSUME NEW e \in Deployments PROVE DepInv(e)'
    <3>1. CASE e = d
      BY <1>1, <1>4, <1>5, <1>6, <1>7, <3>1 DEF IInv, DepInv, SameImages
    <3>2. CASE e # d
      <4>1. \A v \in Workers : worker[v].pc \in Building => worker'[v] = worker[v]
        BY <1>4, <1>6 DEF Only, Building, Commands
      <4>2. QED
        BY <1>4, <1>7, <3>2, <4>1 DEF IInv, DepInv, MyDep
    <3>3. QED
      BY <3>1, <3>2
  <2>2. QED
    BY <2>1
<1>11. DoneInv'
  BY <1>4, <1>5, <1>6, <1>7, DoneStatus DEF Building, Commands
<1>12. ImageInv'
  <2>1. CASE ~Plain
    BY <1>4, <2>1 DEF ImageInv, Plain
  <2>2. CASE Plain
    <3>1. BuildInv(w)
      BY <2>2 DEF IInv, ImageInv
    <3>2. BuildInv(w)' /\ worker'[w].pc \notin Holding
      BY <1>5, <1>6, <2>2, <3>1 DEF BuildInv, Holding
    <3>3. QED
      BY <1>4, <1>6, <1>7, <3>2, ImageStatus DEF IInv
  <2>3. QED
    BY <2>1, <2>2
<1>13. QED
  BY <1>8, <1>9, <1>10, <1>11, <1>12 DEF IInv

\* The catch block records the failure.
LEMMA BuildFailedStep == ASSUME IInv, NEW w \in Workers, buildFailed(w) PROVE IInv'
<1>1. PICK d : d = MyDep(w)
  OBVIOUS
<1>2. d \in Deployments /\ "failed" \in Phases
  BY <1>1, ClaimFacts DEF MyDep, Phases
<1>3. /\ worker[w].pc = "failing" /\ dep' = [dep EXCEPT ![d].status = "BUILD_FAILED"]
      /\ Goto(w, "failed")
      /\ UNCHANGED <<opt, now, rows, store, rollout, handed, outside, faults, kills>>
  BY <1>1 DEF buildFailed, At
<1>4. /\ worker' \in [Workers -> WorkerRec] /\ Only(w) /\ GoesOn(w)
      /\ worker'[w].pc = "failed" /\ worker'[w].digest = worker[w].digest
      /\ MyDep(w)' = MyDep(w)
  BY <1>2, <1>3, GotoFacts DEF IInv
<1>5. /\ dep' \in [Deployments -> [status : Statuses, image : Tags \cup {None},
                                   digest : Tags \cup {None}]]
      /\ SameImages /\ dep'[d].status = "BUILD_FAILED"
      /\ \A e \in Deployments \ {d} : dep'[e] = dep[e]
  BY <1>2, <1>3, StatusFacts DEF IInv, Statuses
<1>6. TypeOK'
  BY <1>3, <1>4, <1>5 DEF IInv, TypeOK, WorkerRec, store
<1>7. HandInv'
  BY <1>3, <1>4, HandMove DEF IInv, Active
<1>8. (\A e \in Deployments : DepInv(e))'
  <2>1. ASSUME NEW e \in Deployments PROVE DepInv(e)'
    <3>1. CASE e = d
      BY <1>2, <1>3, <1>5, <3>1 DEF IInv, DepInv, SameImages
    <3>2. CASE e # d
      <4>1. \A v \in Workers : MyDep(v) = e => worker'[v] = worker[v]
        BY <1>1, <1>4, <3>2 DEF Only
      <4>2. QED
        BY <1>3, <1>5, <3>2, <4>1 DEF IInv, DepInv, MyDep
    <3>3. QED
      BY <3>1, <3>2
  <2>2. QED
    BY <2>1
<1>9. DoneInv'
  BY <1>3, <1>4, <1>5, DoneStatus
<1>10. ImageInv'
  <2>1. CASE ~Plain
    BY <1>3, <2>1 DEF ImageInv, Plain
  <2>2. CASE Plain
    <3>1. BuildInv(w)
      BY <2>2 DEF IInv, ImageInv
    <3>2. BuildInv(w)' /\ worker'[w].pc \notin Holding
      BY <1>4, <3>1 DEF BuildInv, Holding
    <3>3. QED
      BY <1>3, <1>4, <1>5, <3>2, ImageStatus DEF IInv
  <2>3. QED
    BY <2>1, <2>2
<1>11. QED
  BY <1>6, <1>7, <1>8, <1>9, <1>10 DEF IInv

\* The image is recorded: it is in its store, and it is the one built from the commit.
LEMMA RecordImageStep == ASSUME IInv, NEW w \in Workers, recordImage(w) PROVE IInv'
<1>1. PICK d : d = MyDep(w)
  OBVIOUS
<1>2. d \in Deployments /\ "service" \in Phases
  BY <1>1, ClaimFacts DEF MyDep, Phases, InTry
<1>3. PICK row : row = [status |-> "IMAGE_READY", image |-> imageFor(d), digest |-> worker[w].digest]
  OBVIOUS
<1>4. /\ worker[w].pc = "record" /\ dep' = [dep EXCEPT ![d] = row]
      /\ Goto(w, "service")
      /\ UNCHANGED <<opt, now, rows, store, rollout, handed, outside, faults, kills>>
  BY <1>1, <1>3 DEF recordImage, At
<1>5. /\ worker' \in [Workers -> WorkerRec] /\ Only(w) /\ GoesOn(w)
      /\ worker'[w].pc = "service" /\ worker'[w].digest = worker[w].digest
      /\ MyDep(w)' = MyDep(w)
  BY <1>2, <1>4, GotoFacts DEF IInv
<1>6. /\ row \in [status : Statuses, image : Tags \cup {None}, digest : Tags \cup {None}]
      /\ row.image # None /\ row.status = "IMAGE_READY" /\ row.image = imageFor(d)
      /\ row.digest = worker[w].digest
  BY <1>2, <1>3, ImageForFacts DEF IInv, TypeOK, Statuses
<1>7. /\ dep' \in [Deployments -> [status : Statuses, image : Tags \cup {None},
                                   digest : Tags \cup {None}]]
      /\ dep'[d] = row /\ \A e \in Deployments \ {d} : dep'[e] = dep[e]
  BY <1>2, <1>4, <1>6 DEF IInv, TypeOK
<1>8. TypeOK'
  BY <1>4, <1>5, <1>7 DEF IInv, TypeOK, WorkerRec, store
<1>9. HandInv'
  BY <1>4, <1>5, HandMove DEF IInv, Active
<1>10. (\A e \in Deployments : DepInv(e))'
  <2>1. ASSUME NEW e \in Deployments PROVE DepInv(e)'
    <3>1. CASE e = d
      BY <1>6, <1>7, <3>1 DEF DepInv
    <3>2. CASE e # d
      <4>1. \A v \in Workers : MyDep(v) = e => worker'[v] = worker[v]
        BY <1>1, <1>5, <3>2 DEF Only
      <4>2. QED
        BY <1>4, <1>7, <3>2, <4>1 DEF IInv, DepInv, MyDep
    <3>3. QED
      BY <3>1, <3>2
  <2>2. QED
    BY <2>1
<1>11. DoneInv'
  <2>1. \A v \in Workers : worker[v].claim.dep \in Deployments /\ worker'[v].claim = worker[v].claim
    BY <1>5, ClaimFacts DEF Only, GoesOn
  <2>2. \A j \in Jobs : rows[j].dep \in Deployments
    BY DEF IInv, TypeOK, Row
  <2>3. \A e \in Deployments : dep[e].image # None => dep'[e].image # None
    BY <1>6, <1>7
  <2>4. \A v \in Workers : worker'[v].pc \in {"service", "complete"} => dep'[worker'[v].claim.dep].image # None
    BY <1>1, <1>5, <1>6, <1>7, <2>1, <2>3 DEF IInv, DoneInv, Only, MyDep
  <2>5. QED
    BY <1>4, <2>2, <2>3, <2>4 DEF IInv, DoneInv, MyDep
<1>12. ImageInv'
  <2>1. CASE ~Plain
    BY <1>4, <2>1 DEF ImageInv, Plain
  <2>2. CASE Plain
    <3>1. BuildInv(w) /\ StoreInv /\ (\A v \in Workers : BuildInv(v))
      BY <2>2 DEF IInv, ImageInv
    <3>2. UNCHANGED <<opt, workspace, local, registry, metadata, kills>>
      BY <1>4 DEF store
    <3>3. StoreInv'
      BY <3>1, <3>2 DEF StoreInv
    <3>4. ASSUME NEW v \in Workers PROVE BuildInv(v)'
      <4>1. CASE v = w
        BY <1>5, <3>1, <4>1 DEF BuildInv, Holding
      <4>2. CASE v # w
        <5>1. worker'[v] = worker[v]
          BY <1>5, <4>2 DEF Only
        <5>2. QED
          BY <3>1, <3>2, <5>1, BuildSame
      <4>3. QED
        BY <4>1, <4>2
    <3>5. \A v \in Workers : worker'[v].pc \in Holding => worker[v].pc \in Holding
      BY <1>5 DEF Only, Holding
    <3>6. ASSUME NEW e \in Deployments PROVE AnnouncedInv(e)'
      <4>1. CASE e = d
        BY <1>1, <1>2, <1>4, <1>6, <1>7, <2>2, <3>1, <3>2, <4>1, ImageForFacts
           DEF AnnouncedInv, BuildInv, Final, Plain
      <4>2. CASE e # d
        BY <1>7, <2>2, <3>2, <4>2 DEF IInv, ImageInv, AnnouncedInv, Final
      <4>3. QED
        BY <4>1, <4>2
    <3>7. QED
      BY <2>2, <3>3, <3>4, <3>5, <3>6 DEF IInv, ImageInv
  <2>3. QED
    BY <2>1, <2>2
<1>13. QED
  BY <1>8, <1>9, <1>10, <1>11, <1>12 DEF IInv

\* What a command of worker w leaves to show: the phases that the other parts of
\* the invariant speak about are not affected by it.
LEMMA CommandStep ==
    ASSUME IInv, NEW w \in Workers, worker[w].pc \in Commands, NEW pc \in Building, pc \in Phases,
           Goto(w, pc),
           UNCHANGED <<opt, now, rows, dep, rollout, handed, outside, faults, kills>>,
           workspace' \in Trees \cup {None}, metadata' \in Trees \cup {None},
           local' \in [Tags -> Trees \cup {None}], registry' \in [Tags -> Trees \cup {None}]
    PROVE  /\ TypeOK' /\ HandInv' /\ (\A d \in Deployments : DepInv(d))' /\ DoneInv'
           /\ Only(w) /\ GoesOn(w) /\ worker'[w].pc = pc /\ worker'[w].digest = worker[w].digest
           /\ MyDep(w)' = MyDep(w) /\ MyDep(w) \in Deployments
<1>1. /\ worker' \in [Workers -> WorkerRec] /\ Only(w) /\ GoesOn(w)
      /\ worker'[w].pc = pc /\ worker'[w].digest = worker[w].digest
      /\ MyDep(w)' = MyDep(w) /\ MyDep(w) \in Deployments
  BY GotoFacts DEF IInv
<1>2. TypeOK'
  BY <1>1 DEF IInv, TypeOK, WorkerRec
<1>3. HandInv'
  BY <1>1, HandMove DEF IInv, Active, Commands
<1>4. (\A d \in Deployments : DepInv(d))'
  BY <1>1, DepMove DEF IInv, GoesOn
<1>5. DoneInv'
  BY <1>1, DoneMove DEF IInv, Building, Commands
<1>6. QED
  BY <1>1, <1>2, <1>3, <1>4, <1>5

\* git clone.  It succeeds on an empty destination only, and then nobody is
\* between checkout and digest.
LEMMA CloneStep == ASSUME IInv, NEW w \in Workers, cloneRepository(w) PROVE IInv'
<1>1. worker[w].pc = "clone" /\ worker[w].pc \in Commands
  BY DEF cloneRepository, At, Commands
<1>2. UNCHANGED <<opt, now, rows, dep, local, registry, metadata, rollout, handed, outside, faults, kills>>
  BY DEF cloneRepository
<1>3. /\ workspace \in Trees \cup {None} /\ metadata' \in Trees \cup {None}
      /\ local' \in [Tags -> Trees \cup {None}] /\ registry' \in [Tags -> Trees \cup {None}]
      /\ Head \in Trees
  BY <1>2 DEF IInv, TypeOK, Trees
<1>4. CASE workspace # None
  <2>1. Goto(w, "failing") /\ workspace' = workspace
    BY <1>4 DEF cloneRepository
  <2>2. "failing" \in Phases /\ "failing" \in Building /\ Active(w)
    BY <1>1 DEF Phases, Building, Active
  <2>3. faults' \in 0..MaxMishaps /\ kills' \in 0..MaxMishaps
    BY <1>2 DEF IInv, TypeOK
  <2>4. Plain' => Plain /\ "failing" \notin Holding \cup {"push", "record"}
    BY <1>2 DEF Plain, Holding
  <2>5. UNCHANGED store
    BY <1>2, <2>1 DEF store
  <2>6. QED
    BY <1>1, <1>2, <2>1, <2>2, <2>3, <2>4, <2>5, PhaseStep
<1>5. CASE workspace = None
  <2>1. PICK pc : pc = NextCommand(MyDep(w), worker[w].pc)
    OBVIOUS
  <2>2. Goto(w, pc) /\ workspace' = Head
    BY <1>5, <2>1 DEF cloneRepository, Advance
  <2>3. pc \in Building /\ pc \in Phases
    BY <1>1, <2>1, NextFacts
  <2>4. Plain => pc = IF CommitOf[MyDep(w)] = None THEN "build" ELSE "checkout"
    BY <1>1, <2>1, NextFacts DEF Plain
  <2>5. /\ TypeOK' /\ HandInv' /\ (\A d \in Deployments : DepInv(d))' /\ DoneInv'
        /\ Only(w) /\ GoesOn(w) /\ worker'[w].pc = pc /\ worker'[w].digest = worker[w].digest
        /\ MyDep(w)' = MyDep(w) /\ MyDep(w) \in Deployments
    BY <1>1, <1>2, <1>3, <2>2, <2>3, CommandStep
  <2>6. ASSUME Plain PROVE ImageInv'
    <3>1. StoreInv /\ (\A v \in Workers : BuildInv(v)) /\ (\A d \in Deployments : AnnouncedInv(d))
      BY <2>6 DEF IInv, ImageInv
    <3>2. \A v \in Workers : worker[v].pc \notin Holding
      BY <1>5, <3>1 DEF BuildInv
    <3>3. StoreInv' /\ (\A d \in Deployments : AnnouncedInv(d)')
      BY <1>2, <3>1 DEF StoreInv, AnnouncedInv, Final
    <3>4. ASSUME NEW v \in Workers PROVE BuildInv(v)'
      <4>1. CASE v = w
        BY <2>2, <2>4, <2>5, <2>6, <3>1, <4>1 DEF BuildInv, Holding
      <4>2. CASE v # w
        BY <1>2, <2>5, <3>1, <3>2, <4>2 DEF BuildInv, Only, MyDep, Final, Holding
      <4>3. QED
        BY <4>1, <4>2
    <3>5. \A v \in Workers : worker'[v].pc \in Holding => v = w
      BY <2>5, <3>2 DEF Only
    <3>6. QED
      BY <3>3, <3>4, <3>5 DEF ImageInv
  <2>7. ImageInv'
    BY <1>2, <2>6 DEF ImageInv, Plain
  <2>8. QED
    BY <2>5, <2>7 DEF IInv
<1>6. QED
  BY <1>4, <1>5

\* A command that finds no checkout fails.
LEMMA CommandWithoutWorkspace ==
    ASSUME IInv, NEW w \in Workers, worker[w].pc \in Commands, Goto(w, "failing"),
           UNCHANGED <<opt, now, rows, dep, store, rollout, handed, outside, faults, kills>>
    PROVE  IInv'
BY CommandFailsStep DEF commandFails

\* Worker w is the only one in its clone; what it does to the workspace and the
\* stores is nobody else's concern.
LEMMA HolderStep ==
    ASSUME IInv, Plain, NEW w \in Workers, worker[w].pc \in Holding, Only(w),
           UNCHANGED <<opt, dep, kills>>,
           StoreInv', BuildInv(w)',
           \A t \in Trees : (local[t] = t => local'[t] = t) /\ (registry[t] = t => registry'[t] = t)
    PROVE  ImageInv'
<1>1. /\ \A v \in Workers : BuildInv(v)
      /\ \A v \in Workers \ {w} : worker[v].pc \notin Holding
      /\ \A d \in Deployments : AnnouncedInv(d)
  BY DEF IInv, ImageInv
<1>2. ASSUME NEW v \in Workers PROVE BuildInv(v)'
  <2>1. CASE v = w
    BY <2>1
  <2>2. CASE v # w
    <3>1. worker'[v] = worker[v] /\ worker[v].pc \notin Holding /\ BuildInv(v)
      BY <1>1, <2>2 DEF Only
    <3>2. CommitOf[MyDep(v)] # None => CommitOf[MyDep(v)] \in Trees
      BY ClaimFacts, ImageForFacts DEF MyDep
    <3>3. QED
      BY <3>1, <3>2 DEF BuildInv, MyDep, Final, Holding
  <2>3. QED
    BY <2>1, <2>2
<1>3. ASSUME NEW d \in Deployments PROVE AnnouncedInv(d)'
  <2>1. CommitOf[d] # None => CommitOf[d] \in Trees
    BY ImageForFacts
  <2>2. QED
    BY <1>1, <2>1 DEF AnnouncedInv, Final
<1>4. \A v \in Workers : worker'[v].pc \in Holding => v = w
  BY <1>1 DEF Only
<1>5. QED
  BY <1>2, <1>3, <1>4 DEF ImageInv

\* git checkout of the deployment's commit.
LEMMA CheckoutStep == ASSUME IInv, NEW w \in Workers, checkout(w) PROVE IInv'
<1>1. worker[w].pc = "checkout" /\ worker[w].pc \in Commands
  BY DEF checkout, At, Commands
<1>2. UNCHANGED <<opt, now, rows, dep, local, registry, metadata, rollout, handed, outside, faults, kills>>
  BY DEF checkout
<1>3. CASE workspace = None
  <2>1. Goto(w, "failing") /\ UNCHANGED store
    BY <1>2, <1>3 DEF checkout, store
  <2>2. QED
    BY <1>1, <1>2, <2>1, CommandWithoutWorkspace
<1>4. CASE workspace # None
  <2>1. PICK pc : pc = NextCommand(MyDep(w), worker[w].pc)
    OBVIOUS
  <2>2. Goto(w, pc) /\ workspace' = CommitOf[MyDep(w)]
    BY <1>4, <2>1 DEF checkout, Advance
  <2>3. pc \in Building /\ pc \in Phases /\ (Plain => pc = "build")
    BY <1>1, <2>1, NextFacts DEF Plain
  <2>4. MyDep(w) \in Deployments
    BY ClaimFacts DEF MyDep
  <2>5. workspace' \in Trees \cup {None}
    BY <2>2, <2>4, ImageForFacts
  <2>6. /\ metadata' \in Trees \cup {None}
        /\ local' \in [Tags -> Trees \cup {None}] /\ registry' \in [Tags -> Trees \cup {None}]
    BY <1>2 DEF IInv, TypeOK
  <2>7. /\ TypeOK' /\ HandInv' /\ (\A d \in Deployments : DepInv(d))' /\ DoneInv'
        /\ Only(w) /\ GoesOn(w) /\ worker'[w].pc = pc /\ worker'[w].digest = worker[w].digest
        /\ MyDep(w)' = MyDep(w)
    BY <1>1, <1>2, <2>2, <2>3, <2>5, <2>6, CommandStep
  <2>8. ASSUME Plain PROVE ImageInv'
    <3>1. BuildInv(w) /\ StoreInv
      BY <2>8 DEF IInv, ImageInv
    <3>2. StoreInv'
      BY <1>2, <3>1 DEF StoreInv
    <3>3. BuildInv(w)'
      BY <1>1, <2>2, <2>3, <2>7, <2>8, <3>1 DEF BuildInv
    <3>4. worker[w].pc \in Holding
      BY <1>1 DEF Holding
    <3>5. QED
      BY <1>2, <2>7, <2>8, <3>2, <3>3, <3>4, HolderStep
  <2>9. ImageInv'
    BY <1>2, <2>8 DEF ImageInv, Plain
  <2>10. QED
    BY <2>7, <2>9 DEF IInv
<1>5. QED
  BY <1>3, <1>4

\* docker buildx build: the tag of the commit gets the tree of the commit.
LEMMA BuildStep == ASSUME IInv, NEW w \in Workers, buildImage(w) PROVE IInv'
<1>1. worker[w].pc = "build" /\ worker[w].pc \in Commands
  BY DEF buildImage, At, Commands
<1>2. UNCHANGED <<opt, now, rows, dep, workspace, rollout, handed, outside, faults, kills>>
  BY DEF buildImage
<1>3. CASE workspace = None
  <2>1. Goto(w, "failing") /\ UNCHANGED store
    BY <1>2, <1>3 DEF buildImage, store
  <2>2. QED
    BY <1>1, <1>2, <2>1, CommandWithoutWorkspace
<1>4. CASE workspace # None
  <2>1. PICK pc : pc = NextCommand(MyDep(w), worker[w].pc)
    OBVIOUS
  <2>2. PICK tag : tag = imageFor(MyDep(w))
    OBVIOUS
  <2>3. /\ Goto(w, pc)
        /\ \/ /\ opt.push = "buildx" /\ registry' = [registry EXCEPT ![tag] = workspace]
              /\ local' = local
           \/ /\ opt.push # "buildx" /\ local' = [local EXCEPT ![tag] = workspace]
              /\ registry' = registry
        /\ metadata' = IF opt.metadata THEN workspace ELSE metadata
    BY <1>4, <2>1, <2>2 DEF buildImage, Advance
  <2>4. pc \in Building /\ pc \in Phases /\ (Plain => pc = "digest")
    BY <1>1, <2>1, NextFacts DEF Plain
  <2>5. MyDep(w) \in Deployments /\ tag \in Tags
    BY <2>2, ClaimFacts, ImageForFacts DEF MyDep
  <2>6. /\ workspace \in Trees /\ metadata \in Trees \cup {None}
        /\ local \in [Tags -> Trees \cup {None}] /\ registry \in [Tags -> Trees \cup {None}]
    BY <1>4 DEF IInv, TypeOK
  <2>7. /\ metadata' \in Trees \cup {None} /\ workspace' \in Trees \cup {None}
        /\ local' \in [Tags -> Trees \cup {None}] /\ registry' \in [Tags -> Trees \cup {None}]
    BY <1>2, <2>3, <2>5, <2>6
  <2>8. /\ TypeOK' /\ HandInv' /\ (\A d \in Deployments : DepInv(d))' /\ DoneInv'
        /\ Only(w) /\ GoesOn(w) /\ worker'[w].pc = pc /\ worker'[w].digest = worker[w].digest
        /\ MyDep(w)' = MyDep(w)
    BY <1>1, <1>2, <2>3, <2>4, <2>7, CommandStep
  <2>9. ASSUME Plain PROVE ImageInv'
    <3>1. BuildInv(w) /\ StoreInv
      BY <2>9 DEF IInv, ImageInv
    <3>2. tag = IF CommitOf[MyDep(w)] = None THEN "latest" ELSE CommitOf[MyDep(w)]
      BY <2>2, <2>5, <2>9, ImageForFacts DEF Plain
    <3>3. tag \in Trees => tag = CommitOf[MyDep(w)] /\ workspace = tag
      BY <1>1, <3>1, <3>2 DEF BuildInv
    <3>4. /\ StoreInv'
          /\ \A t \in Trees : (local[t] = t => local'[t] = t) /\ (registry[t] = t => registry'[t] = t)
      <4>1. \A t \in Trees : t \in Tags
        BY DEF Tags
      <4>2. QED
        BY <1>2, <2>3, <2>5, <2>6, <3>1, <3>3, <4>1 DEF StoreInv
    <3>5. BuildInv(w)'
      <4>1. CommitOf[MyDep(w)] # None =>
               /\ tag = CommitOf[MyDep(w)] /\ workspace = tag
               /\ (IF opt.push = "buildx" THEN registry' ELSE local')[tag] = tag
        BY <1>1, <2>3, <2>5, <2>6, <3>1, <3>2 DEF BuildInv
      <4>2. CommitOf[MyDep(w)] # None => metadata' \in {None, CommitOf[MyDep(w)]}
        BY <2>3, <3>1, <4>1 DEF StoreInv
      <4>3. QED
        BY <1>2, <1>4, <2>4, <2>8, <2>9, <3>1, <4>1, <4>2 DEF BuildInv, Holding
    <3>6. worker[w].pc \in Holding
      BY <1>1 DEF Holding
    <3>7. QED
      BY <1>2, <2>8, <2>9, <3>4, <3>5, <3>6, HolderStep
  <2>10. ImageInv'
    BY <1>2, <2>9 DEF ImageInv, Plain
  <2>11. QED
    BY <2>8, <2>10 DEF IInv
<1>5. QED
  BY <1>3, <1>4

\* docker push after the build: the tag is copied from the host's store.
LEMMA PushStep == ASSUME IInv, NEW w \in Workers, pushImage(w) PROVE IInv'
<1>1. worker[w].pc = "push" /\ worker[w].pc \in Commands
  BY DEF pushImage, At, Commands
<1>2. UNCHANGED <<opt, now, rows, dep, workspace, local, metadata, rollout, handed, outside, faults, kills>>
  BY DEF pushImage
<1>3. PICK pc : pc = NextCommand(MyDep(w), worker[w].pc)
  OBVIOUS
<1>4. PICK tag : tag = imageFor(MyDep(w))
  OBVIOUS
<1>5. /\ Goto(w, pc)
      /\ registry' = [registry EXCEPT ![tag] = IF opt.source = "image" THEN Head ELSE local[tag]]
  BY <1>3, <1>4 DEF pushImage, Advance
<1>6. pc \in Building /\ pc \in Phases /\ (Plain => pc = "record")
  BY <1>1, <1>3, NextFacts DEF Plain
<1>7. MyDep(w) \in Deployments /\ tag \in Tags
  BY <1>4, ClaimFacts, ImageForFacts DEF MyDep
<1>8. /\ workspace \in Trees \cup {None} /\ metadata \in Trees \cup {None} /\ Head \in Trees
      /\ local \in [Tags -> Trees \cup {None}] /\ registry \in [Tags -> Trees \cup {None}]
  BY DEF IInv, TypeOK, Trees
<1>9. /\ metadata' \in Trees \cup {None} /\ workspace' \in Trees \cup {None}
      /\ local' \in [Tags -> Trees \cup {None}] /\ registry' \in [Tags -> Trees \cup {None}]
  BY <1>2, <1>5, <1>7, <1>8
<1>10. /\ TypeOK' /\ HandInv' /\ (\A d \in Deployments : DepInv(d))' /\ DoneInv'
       /\ Only(w) /\ GoesOn(w) /\ worker'[w].pc = pc /\ worker'[w].digest = worker[w].digest
       /\ MyDep(w)' = MyDep(w)
  BY <1>1, <1>2, <1>5, <1>6, <1>9, CommandStep
<1>11. ASSUME Plain PROVE ImageInv'
  <2>1. /\ StoreInv /\ (\A v \in Workers : BuildInv(v)) /\ BuildInv(w)
        /\ \A d \in Deployments : AnnouncedInv(d)
    BY <1>11 DEF IInv, ImageInv
  <2>2. registry' = [registry EXCEPT ![tag] = local[tag]]
    BY <1>5, <1>11 DEF Plain
  <2>3. tag = IF CommitOf[MyDep(w)] = None THEN "latest" ELSE CommitOf[MyDep(w)]
    BY <1>4, <1>7, <1>11, ImageForFacts DEF Plain
  <2>4. opt.push = "after" /\ (tag \in Trees => tag = CommitOf[MyDep(w)] /\ local[tag] = tag)
    BY <1>1, <2>1, <2>3 DEF BuildInv
  <2>5. \A t \in Trees : t \in Tags
    BY DEF Tags
  <2>6. StoreInv' /\ (\A t \in Trees : registry[t] = t => registry'[t] = t)
    BY <1>2, <1>7, <1>8, <2>1, <2>2, <2>4, <2>5 DEF StoreInv
  <2>7. ASSUME NEW v \in Workers PROVE BuildInv(v)'
    <3>1. CASE v = w
      <4>1. CommitOf[MyDep(w)] # None => tag = CommitOf[MyDep(w)] /\ local[tag] = tag /\ registry'[tag] = tag
        BY <1>1, <1>7, <1>8, <2>1, <2>2, <2>3, <2>4 DEF BuildInv
      <4>2. QED
        BY <1>2, <1>6, <1>10, <1>11, <2>1, <2>4, <3>1, <4>1 DEF BuildInv, Holding, Final
    <3>2. CASE v # w
      <4>1. CommitOf[MyDep(v)] # None => CommitOf[MyDep(v)] \in Trees
        BY ClaimFacts, ImageForFacts DEF MyDep
      <4>2. worker'[v] = worker[v] /\ BuildInv(v)
        BY <1>10, <2>1, <3>2 DEF Only
      <4>3. QED
        BY <1>2, <2>6, <4>1, <4>2 DEF BuildInv, MyDep, Final, Holding
    <3>3. QED
      BY <3>1, <3>2
  <2>8. ASSUME NEW d \in Deployments PROVE AnnouncedInv(d)'
    <3>1. CommitOf[d] # None => CommitOf[d] \in Trees
      BY ImageForFacts
    <3>2. QED
      BY <1>2, <2>1, <2>6, <3>1 DEF AnnouncedInv, Final
  <2>9. \A v \in Workers : worker'[v].pc \in Holding => worker[v].pc \in Holding
    BY <1>6, <1>10, <1>11 DEF Only, Holding
  <2>10. QED
    BY <1>11, <2>6, <2>7, <2>8, <2>9 DEF IInv, ImageInv
<1>12. ImageInv'
  BY <1>2, <1>11 DEF ImageInv, Plain
<1>13. QED
  BY <1>10, <1>12 DEF IInv

--------------------------------------------------------------------------------
(***************************************************************************)
(* Faults                                                                  *)
(***************************************************************************)

\* A repository call that throws; the report of a success may have been stored.
LEMMA RepositoryFailsStep == ASSUME IInv, NEW w \in Workers, repositoryFails(w) PROVE IInv'
<1>1. /\ faults + kills < MaxMishaps /\ faults' = faults + 1
      /\ UNCHANGED <<opt, now, dep, store, rollout, handed, outside, kills>>
  BY DEF repositoryFails
<1>2. faults \in 0..MaxMishaps /\ kills \in 0..MaxMishaps
  BY DEF IInv, TypeOK
<1>3. faults' \in 0..MaxMishaps /\ faults' # 0 /\ kills' \in 0..MaxMishaps
  BY <1>1, <1>2
<1>4. \A pc \in {"failing", "failed"} :
         pc \in Phases /\ (Plain' => Plain /\ pc \notin Holding \cup {"push", "record"})
  BY <1>1 DEF Phases, Holding, Plain
<1>5. CASE worker[w].pc \in InTry /\ Goto(w, "failing") /\ UNCHANGED rows
  <2>1. Active(w) /\ worker[w].pc # "failed"
    BY <1>5 DEF Active, InTry, Commands
  <2>2. QED
    BY <1>1, <1>3, <1>4, <1>5, <2>1, PhaseStep
<1>6. CASE worker[w].pc \in {"claimed", "resolved", "failing"} /\ Goto(w, "failed") /\ UNCHANGED rows
  <2>1. Active(w) /\ worker[w].pc # "failed"
    BY <1>6 DEF Active
  <2>2. QED
    BY <1>1, <1>3, <1>4, <1>6, <2>1, PhaseStep
<1>7. CASE worker[w].pc \in {"found", "failed"} /\ worker' = [worker EXCEPT ![w] = Idle]
           /\ UNCHANGED rows
  BY <1>1, <1>3, <1>7, BackToIdle
<1>8. CASE /\ worker[w].pc = "complete" /\ Goto(w, "failed")
           /\ rows' \in {rows, [rows EXCEPT ![worker[w].job] =
                                  completeWorkflowJobRecord(worker[w].claim)]}
  <2>1. Active(w)
    BY <1>8 DEF Active
  <2>2. CASE rows' = rows
    BY <1>1, <1>3, <1>4, <1>8, <2>1, <2>2, PhaseStep
  <2>3. CASE rows' = [rows EXCEPT ![worker[w].job] = completeWorkflowJobRecord(worker[w].claim)]
    <3>1. /\ worker \in [Workers -> WorkerRec] /\ rows \in [Jobs -> Row] /\ TypeOK /\ HandInv
          /\ worker[w].job \in Jobs
      BY DEF IInv, TypeOK, WorkerRec
    <3>2. PICK j \in Jobs : j = worker[w].job
      BY <3>1
    <3>3. PICK row : row = completeWorkflowJobRecord(worker[w].claim)
      OBVIOUS
    <3>4. /\ row \in Row /\ ~row.locked /\ row.attempts = worker[w].claim.attempts
          /\ row.status = "succeeded" /\ row.dep = worker[w].claim.dep
      BY <3>3, ClaimFacts, RecordTypes, Zenon
    <3>5. /\ rows' \in [Jobs -> Row] /\ rows'[j] = row
          /\ \A i \in Jobs \ {j} : rows'[i] = rows[i]
      BY <2>3, <3>1, <3>2, <3>3, <3>4
    <3>6. /\ worker' \in [Workers -> WorkerRec] /\ Only(w) /\ GoesOn(w)
          /\ worker'[w].pc = "failed" /\ worker'[w].digest = worker[w].digest
          /\ MyDep(w)' = MyDep(w)
      BY <1>4, <1>8, <3>1, GotoFacts
    <3>7. TypeOK'
      <4>1. \A i \in Jobs : rows'[i].locked <=> rows'[i].status = "running"
        BY <3>1, <3>4, <3>5 DEF TypeOK
      <4>2. QED
        BY <1>1, <1>3, <3>1, <3>5, <3>6, <4>1 DEF TypeOK, WorkerRec, store
    <3>8. HandInv'
      <4>1. row.attempts = rows[j].attempts /\ row.attempts > 0
            /\ worker[w].claim.status = "running" /\ worker[w].claim.locked
        BY <2>1, <3>1, <3>2, <3>4 DEF HandInv, CopyInv
      <4>2. \A i \in Jobs : RowInv(i)'
        BY <1>1, <3>1, <3>4, <3>5, <4>1 DEF HandInv, RowInv
      <4>3. ASSUME NEW v \in Workers PROVE CopyInv(v)'
        <5>1. CASE v = w
          BY <3>2, <3>4, <3>5, <3>6, <4>1, <5>1 DEF CopyInv, GoesOn
        <5>2. CASE v # w
          <6>1. worker'[v] = worker[v] /\ worker[v].job \in Jobs
            BY <3>1, <3>6, <5>2 DEF Only, WorkerRec
          <6>2. Active(v) => worker[v].job # j
            BY <2>1, <3>1, <3>2, <5>2 DEF HandInv
          <6>3. Active(v) => rows'[worker[v].job] = rows[worker[v].job]
            BY <3>5, <6>1, <6>2
          <6>4. QED
            BY <3>1, <6>1, <6>3 DEF HandInv, CopyInv, Active
        <5>3. QED
          BY <5>1, <5>2
      <4>4. \A v \in Workers : Active(v)' => Active(v) /\ worker'[v].job = worker[v].job
        BY <2>1, <3>6 DEF Active, Only, GoesOn
      <4>5. QED
        BY <3>1, <4>2, <4>3, <4>4 DEF HandInv
    <3>9. (\A d \in Deployments : DepInv(d))'
      BY <1>1, <1>3, <3>6, DepMove DEF IInv
    <3>10. DoneInv'
      <4>1. dep[row.dep].image # None
        BY <1>8, <3>4 DEF IInv, DoneInv, MyDep
      <4>2. \A v \in Workers : worker'[v].pc \in {"service", "complete"} => worker'[v] = worker[v]
        BY <3>6 DEF Only
      <4>3. QED
        BY <1>1, <3>4, <3>5, <4>1, <4>2 DEF IInv, DoneInv, MyDep
    <3>11. ImageInv'
      <4>1. Plain' => Plain
        BY <1>1 DEF Plain
      <4>2. ASSUME Plain PROVE BuildInv(w)'
        BY <3>6, <4>2 DEF IInv, ImageInv, BuildInv, Holding
      <4>3. QED
        BY <1>1, <3>6, <4>1, <4>2, ImageMove DEF IInv, Holding
    <3>12. QED
      BY <3>7, <3>8, <3>9, <3>10, <3>11 DEF IInv
  <2>4. QED
    BY <1>8, <2>2, <2>3
<1>9. QED
  BY <1>5, <1>6, <1>7, <1>8 DEF repositoryFails, At

\* A worker dies with its job: the row stays as it is.
LEMMA CrashStep == ASSUME IInv, NEW w \in Workers, crash(w) PROVE IInv'
<1>1. /\ faults + kills < MaxMishaps /\ faults' = faults + 1
      /\ worker' = [worker EXCEPT ![w] = Idle]
      /\ UNCHANGED <<opt, now, rows, dep, store, rollout, handed, outside, kills>>
  BY DEF crash
<1>2. faults \in 0..MaxMishaps /\ kills \in 0..MaxMishaps
  BY DEF IInv, TypeOK
<1>3. faults' \in 0..MaxMishaps /\ faults' # 0
  BY <1>1, <1>2
<1>4. QED
  BY <1>1, <1>3, BackToIdle

--------------------------------------------------------------------------------
(***************************************************************************)
(* Rollouts, cancellations, the host                                       *)
(***************************************************************************)

\* A deployment changes its status without any worker.
LEMMA OutsideStep ==
    ASSUME IInv, NEW d \in Deployments, NEW s \in Statuses \ {"BUILDING"},
           dep' = [dep EXCEPT ![d].status = s],
           s \in {"IMAGE_READY", "DEPLOYING", "READY"} => dep[d].image # None,
           UNCHANGED <<opt, store, worker, faults, kills>>,
           \A e \in Deployments : rollout'[e] # "idle" => rollout[e] # "idle"
    PROVE  /\ dep' \in [Deployments -> [status : Statuses, image : Tags \cup {None},
                                        digest : Tags \cup {None}]]
           /\ (\A e \in Deployments : DepInv(e))' /\ ImageInv' /\ SameImages
<1>1. /\ dep' \in [Deployments -> [status : Statuses, image : Tags \cup {None},
                                   digest : Tags \cup {None}]]
      /\ SameImages /\ dep'[d].status = s
      /\ \A e \in Deployments \ {d} : dep'[e] = dep[e]
  BY StatusFacts DEF IInv
<1>2. ASSUME NEW e \in Deployments PROVE DepInv(e)'
  <2>1. CASE e = d
    BY <1>1, <2>1 DEF IInv, DepInv, SameImages
  <2>2. CASE e # d
    BY <1>1, <2>2 DEF IInv, DepInv, MyDep
  <2>3. QED
    BY <2>1, <2>2
<1>3. ImageInv'
  <2> SUFFICES ASSUME Plain' PROVE ImageInv'
    BY DEF ImageInv
  <2>1. Plain /\ UNCHANGED <<opt, workspace, local, registry, metadata, worker, Final>>
    BY DEF Plain, store, Final
  <2>2. StoreInv'
    BY <2>1 DEF IInv, ImageInv, StoreInv
  <2>3. ASSUME NEW v \in Workers PROVE BuildInv(v)'
    BY <2>1, BuildSame DEF IInv, ImageInv
  <2>4. ASSUME NEW e \in Deployments PROVE AnnouncedInv(e)'
    <3>1. AnnouncedInv(e)
      BY <2>1 DEF IInv, ImageInv
    <3>2. dep'[e].image = dep[e].image /\ dep'[e].digest = dep[e].digest
      BY <1>1 DEF SameImages
    <3>3. QED
      BY <2>1, <3>1, <3>2 DEF AnnouncedInv
  <2>5. \A v, w \in Workers : worker'[v].pc \in Holding /\ worker'[w].pc \in Holding => v = w
    BY <2>1 DEF IInv, ImageInv
  <2>6. QED
    BY <2>2, <2>3, <2>4, <2>5 DEF ImageInv
<1>4. QED
  BY <1>1, <1>2, <1>3

\* reconcileDeploymentRollout reads, starts and ends a rollout.
LEMMA RolloutStep ==
    ASSUME IInv, NEW d \in Deployments, rolloutReads(d) \/ rolloutStarts(d) \/ rolloutEnds(d)
    PROVE  IInv'
<1>1. /\ rollout \in [Deployments -> {"idle", "read", "started"}]
      /\ outside \in 0..MaxOutside /\ TypeOK
  BY DEF IInv, TypeOK
<1>2. CASE rolloutReads(d)
  <2>1. /\ dep[d].status \in {"IMAGE_READY", "DEPLOYING"} /\ outside < MaxOutside
        /\ outside' = outside + 1
        /\ UNCHANGED <<opt, now, rows, dep, store, worker, handed, faults, kills>>
    BY <1>2 DEF rolloutReads, Outside
  <2>2. PICK s : s = IF dep[d].status = "DEPLOYING" THEN "started" ELSE "read"
    OBVIOUS
  <2>3. rollout' = [rollout EXCEPT ![d] = s] /\ s \in {"idle", "read", "started"}
    BY <1>2, <2>2 DEF rolloutReads
  <2>4. TypeOK'
    BY <1>1, <2>1, <2>3 DEF TypeOK, store
  <2>5. HandInv' /\ ImageInv'
    BY <2>1, HandKept, ImageKept DEF IInv
  <2>6. DoneInv'
    BY <2>1 DEF IInv, DoneInv, MyDep
  <2>7. ASSUME NEW e \in Deployments PROVE DepInv(e)'
    BY <1>1, <2>1, <2>3 DEF IInv, DepInv, MyDep
  <2>8. QED
    BY <2>4, <2>5, <2>6, <2>7 DEF IInv
<1>3. CASE rolloutStarts(d) \/ rolloutEnds(d)
  <2>1. PICK s \in {"DEPLOYING", "READY", "FAILED"} : dep' = [dep EXCEPT ![d].status = s]
    BY <1>3 DEF rolloutStarts, rolloutEnds
  <2>2. rollout[d] # "idle" /\ dep[d].image # None
    BY <1>3 DEF rolloutStarts, rolloutEnds, IInv, DepInv
  <2>3. UNCHANGED <<opt, now, rows, store, worker, handed, outside, faults, kills>>
    BY <1>3 DEF rolloutStarts, rolloutEnds
  <2>4. PICK t \in {"idle", "started"} : rollout' = [rollout EXCEPT ![d] = t]
    BY <1>3 DEF rolloutStarts, rolloutEnds
  <2>5. \A e \in Deployments : rollout'[e] # "idle" => rollout[e] # "idle"
    BY <1>1, <2>2, <2>4
  <2>6. s \in Statuses \ {"BUILDING"}
    BY DEF Statuses
  <2>7. /\ dep' \in [Deployments -> [status : Statuses, image : Tags \cup {None},
                                     digest : Tags \cup {None}]]
        /\ (\A e \in Deployments : DepInv(e))' /\ ImageInv' /\ SameImages
    BY <2>1, <2>2, <2>3, <2>5, <2>6, OutsideStep
  <2>8. TypeOK'
    BY <1>1, <2>3, <2>4, <2>7 DEF TypeOK, store
  <2>9. HandInv'
    BY <2>3, HandKept DEF IInv
  <2>10. DoneInv'
    <3>1. \A v \in Workers : worker[v].claim.dep \in Deployments
      BY ClaimFacts
    <3>2. \A j \in Jobs : rows[j].dep \in Deployments
      BY <1>1 DEF TypeOK, Row
    <3>3. QED
      BY <2>3, <2>7, <3>1, <3>2 DEF IInv, DoneInv, SameImages, MyDep
  <2>11. QED
    BY <2>7, <2>8, <2>9, <2>10 DEF IInv
<1>4. QED
  BY <1>2, <1>3

\* A cancellation takes a row that no job uses yet.
LEMMA CancelStep == ASSUME IInv, NEW d \in Deployments, cancelDeployment(d) PROVE IInv'
<1>1. /\ rows \in [Jobs -> Row] /\ outside \in 0..MaxOutside /\ TypeOK /\ HandInv /\ now \in Nat
      /\ worker \in [Workers -> WorkerRec]
  BY DEF IInv, TypeOK, WorkerRec
<1>2. /\ outside < MaxOutside /\ outside' = outside + 1
      /\ dep' = [dep EXCEPT ![d].status = "CANCELLED"]
      /\ UNCHANGED <<opt, now, store, worker, rollout, handed, faults, kills>>
  BY DEF cancelDeployment, Outside
<1>3. PICK j \in Jobs : /\ rows[j].status = "absent"
                        /\ rows' = [rows EXCEPT ![j] = NewJob("deployment-cancel", d)]
  BY DEF cancelDeployment
<1>4. PICK row : row = NewJob("deployment-cancel", d)
  OBVIOUS
<1>5. row \in Row /\ row.status = "queued" /\ row.attempts = 0 /\ ~row.locked /\ row.dep = d
  BY <1>1, <1>4 DEF NewJob, Row, Types
<1>6. /\ rows' \in [Jobs -> Row] /\ rows'[j] = row
      /\ \A i \in Jobs \ {j} : rows'[i] = rows[i]
  BY <1>1, <1>3, <1>4, <1>5
<1>7. /\ dep' \in [Deployments -> [status : Statuses, image : Tags \cup {None},
                                   digest : Tags \cup {None}]]
      /\ (\A e \in Deployments : DepInv(e))' /\ ImageInv' /\ SameImages
  BY <1>2, OutsideStep DEF Statuses
<1>8. TypeOK'
  <2>1. \A i \in Jobs : rows'[i].locked <=> rows'[i].status = "running"
    BY <1>1, <1>5, <1>6 DEF TypeOK
  <2>2. QED
    BY <1>1, <1>2, <1>6, <1>7, <2>1 DEF TypeOK, store
<1>9. HandInv'
  <2>1. \A i \in Jobs : RowInv(i)'
    BY <1>1, <1>2, <1>3, <1>5, <1>6 DEF HandInv, RowInv
  <2>2. ASSUME NEW v \in Workers PROVE CopyInv(v)'
    <3>1. Active(v) => worker[v].job # j
      BY <1>1, <1>3 DEF HandInv, CopyInv
    <3>2. worker[v].job \in Jobs
      BY <1>1 DEF WorkerRec
    <3>3. QED
      BY <1>1, <1>2, <1>6, <3>1, <3>2 DEF HandInv, CopyInv, Active
  <2>3. QED
    BY <1>1, <1>2, <2>1, <2>2 DEF HandInv, Active
<1>10. DoneInv'
  <2>1. \A v \in Workers : worker[v].claim.dep \in Deployments
    BY ClaimFacts
  <2>2. \A i \in Jobs : rows[i].dep \in Deployments
    BY <1>1 DEF Row
  <2>3. QED
    BY <1>2, <1>5, <1>6, <1>7, <2>1, <2>2 DEF IInv, DoneInv, SameImages, MyDep
<1>11. QED
  BY <1>7, <1>8, <1>9, <1>10 DEF IInv

\* Emptying the work directory while everybody is idle, and the clock.
LEMMA HostStep == ASSUME IInv, cleanWorkspace \/ Tick PROVE IInv'
<1>1. UNCHANGED <<opt, rows, dep, local, registry, metadata, worker, rollout, handed, outside, faults, kills>>
  BY DEF cleanWorkspace, Tick, store
<1>2. \/ now' = now /\ workspace' = None /\ \A w \in Workers : worker[w].pc = "idle"
      \/ now' = now + 1 /\ workspace' = workspace
  BY DEF cleanWorkspace, Tick, store, At
<1>3. TypeOK'
  BY <1>1, <1>2 DEF IInv, TypeOK
<1>4. HandInv' /\ DoneInv' /\ (\A d \in Deployments : DepInv(d))'
  BY <1>1, HandKept DEF IInv, DoneInv, DepInv, MyDep
<1>5. ImageInv'
  BY <1>1, <1>2 DEF IInv, ImageInv, Plain, StoreInv, BuildInv, AnnouncedInv, MyDep, Final, Holding
<1>6. QED
  BY <1>3, <1>4, <1>5 DEF IInv

\* A stuttering step.
LEMMA StutterStep == ASSUME IInv, UNCHANGED vars PROVE IInv'
<1>1. UNCHANGED <<opt, now, rows, dep, store, worker, rollout, handed, outside, faults, kills>>
  BY DEF vars, store
<1>2. TypeOK'
  BY <1>1 DEF IInv, TypeOK, store
<1>3. HandInv' /\ ImageInv'
  BY <1>1, HandKept, ImageKept DEF IInv
<1>4. DoneInv' /\ (\A d \in Deployments : DepInv(d))'
  BY <1>1 DEF IInv, DoneInv, DepInv, MyDep
<1>5. QED
  BY <1>2, <1>3, <1>4 DEF IInv

\* Every step preserves the inductive invariant.
LEMMA NextIInv == ASSUME IInv, [Next]_vars PROVE IInv'
<1>1. ASSUME NEW w \in Workers, WorkerStep(w) PROVE IInv'
  BY <1>1, ClaimFromListStep, FindFirstStep, UpdateManyStep, ReportSteps, ResolveStep,
     MarkBuildingStep, CloneStep, CheckoutStep, BuildStep, ResolveBuildDigestStep, PushStep,
     RecordImageStep, UpdateServiceStep, BuildFailedStep DEF WorkerStep
<1>2. ASSUME NEW w \in Workers,
             commandFails(w) \/ commandKilled(w) \/ repositoryFails(w) \/ crash(w)
      PROVE  IInv'
  BY <1>2, CommandFailsStep, CommandKilledStep, RepositoryFailsStep, CrashStep
<1>3. ASSUME NEW d \in Deployments,
             rolloutReads(d) \/ rolloutStarts(d) \/ rolloutEnds(d) \/ cancelDeployment(d)
      PROVE  IInv'
  BY <1>3, RolloutStep, CancelStep
<1>4. QED
  BY <1>1, <1>2, <1>3, HostStep, StutterStep DEF Next

\* The inductive invariant holds throughout.
THEOREM Invariance == Spec => []IInv
BY InitIInv, NextIInv, PTL DEF Spec

\* However workers race for a job, crash with it or find their report stored
\* although the call threw: the attempt counter written back is the number of
\* times the job was handed out, never more than maxAttempts, and no two workers
\* hold one job.
THEOREM NoJobHandedOutTwice == Spec => []HandoutsCounted
<1>1. IInv => HandoutsCounted
  BY DEF IInv, HandInv, RowInv, Active, HandoutsCounted, At, TypeOK
<1>2. QED
  BY <1>1, Invariance, PTL

\* Job and deployment rows tell the same story, and are well typed.
THEOREM JobsAndDeploymentsAgree == Spec => []RowsAgree
<1>1. IInv => RowsAgree
  <2> SUFFICES ASSUME IInv PROVE RowsAgree
    OBVIOUS
  <2>1. \A d \in Deployments : faults = 0 /\ dep[d].status = "BUILDING" =>
          \E w \in Workers : ~At(w, "idle") /\ ~At(w, "found") /\ MyDep(w) = d
    BY DEF IInv, DepInv, Building, Commands, At
  <2>2. \A d \in Deployments : dep[d].status \in {"DEPLOYING", "READY"} => dep[d].image # None
    BY DEF IInv, DepInv
  <2>3. QED
    BY <2>1, <2>2 DEF IInv, DoneInv, RowsAgree
<1>2. QED
  BY <1>1, Invariance, PTL

\* Unless a command was killed, what a git build announces is the tree of its
\* commit: one clone destination for all builds of a service is enough, because
\* git clone refuses a destination that exists.
THEOREM ImagesAreOfTheirCommits == Spec => []ImageOfCommit
<1>1. IInv => ImageOfCommit
  <2> SUFFICES ASSUME IInv, NEW d \in Deployments, Plain, dep[d].image # None, CommitOf[d] # None
               PROVE  /\ (IF opt.push = "no" THEN local ELSE registry)[dep[d].image] = CommitOf[d]
                      /\ dep[d].digest \in {None, CommitOf[d]}
    BY DEF ImageOfCommit, Plain
  <2>1. AnnouncedInv(d)
    BY DEF IInv, ImageInv
  <2>2. QED
    BY <2>1 DEF AnnouncedInv, Final
<1>2. QED
  BY <1>1, Invariance, PTL
================================================================================
