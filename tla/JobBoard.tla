-------------------------------- MODULE JobBoard --------------------------------
(***************************************************************************)
(* What a workflow queue offers to its workers, without row locks, leases  *)
(* or time.  A claim is one atomic step; a running job can be handed out   *)
(* again at any moment the store's policy allows; a report overwrites the  *)
(* job whoever claimed it last.  WorkflowQueue implements this module, and *)
(* BuildPipeline is built on it.                                           *)
(***************************************************************************)
EXTENDS Integers

CONSTANTS
    Jobs, Workers,
    None,            \* not a job
    MaxAttempts,     \* the column "maxAttempts"
    ReclaimRunning   \* are running jobs handed out again?

VARIABLES
    board,   \* status and attempts of every job
    hands    \* the job each worker has taken

boardVars == <<board, hands>>

NoJob == [status |-> "absent", attempts |-> 0]
Free  == [pc |-> "idle", job |-> None, attempt |-> 0]

BoardInit ==
    /\ board = [j \in Jobs |-> NoJob]
    /\ hands = [w \in Workers |-> Free]

\* A job is enqueued.
Post(j) ==
    /\ board[j].status = "absent"
    /\ board' = [board EXCEPT ![j].status = "queued"]
    /\ UNCHANGED hands

\* A job that waits, or that runs and may be taken over.
Available(j) ==
    \/ board[j].status = "queued"
    \/ ReclaimRunning /\ board[j].status = "running" /\ board[j].attempts < MaxAttempts

Claim(w, j) ==
    /\ hands[w].pc = "idle"
    /\ Available(j)
    /\ board' = [board EXCEPT ![j] = [status |-> "running", attempts |-> @.attempts + 1]]
    /\ hands' = [hands EXCEPT ![w] = [pc |-> "working", job |-> j,
                                      attempt |-> board[j].attempts + 1]]

\* The handler of worker w returned an error.
Falter(w) ==
    /\ hands[w].pc = "working"
    /\ hands' = [hands EXCEPT ![w].pc = "failing"]
    /\ UNCHANGED board

\* The job is reported as done.
Complete(w) ==
    /\ hands[w].pc = "working"
    /\ board' = [board EXCEPT ![hands[w].job].status = "succeeded"]
    /\ hands' = [hands EXCEPT ![w] = Free]

\* The report was stored, but the worker was told it was not.
CompleteUnseen(w) ==
    /\ hands[w].pc = "working"
    /\ board' = [board EXCEPT ![hands[w].job].status = "succeeded"]
    /\ hands' = [hands EXCEPT ![w].pc = "failing"]

\* The job is reported as failed: it waits again while attempts remain.
Fail(w) ==
    LET j == hands[w].job IN
    /\ hands[w].pc = "failing"
    /\ board' = [board EXCEPT ![j].status = IF board[j].attempts < MaxAttempts
                                            THEN "queued" ELSE "failed"]
    /\ hands' = [hands EXCEPT ![w] = Free]

\* The worker is gone, and the job stays as it is.
Drop(w) ==
    /\ hands[w].pc # "idle"
    /\ hands' = [hands EXCEPT ![w] = Free]
    /\ UNCHANGED board

BoardNext ==
    \/ \E j \in Jobs : Post(j)
    \/ \E w \in Workers : \/ \E j \in Jobs : Claim(w, j)
                          \/ Falter(w) \/ Complete(w) \/ CompleteUnseen(w)
                          \/ Fail(w) \/ Drop(w)

BoardSpec == BoardInit /\ [][BoardNext]_boardVars
================================================================================
