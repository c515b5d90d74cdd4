------------------------------ MODULE RetryLedger ------------------------------
(***************************************************************************)
(* What a workflow queue promises about attempts, without workers, locks,  *)
(* leases or time: a job is submitted once, an attempt is started only     *)
(* while the job is open and its budget is not spent, and what has been    *)
(* spent is never refunded.  A closed job may be opened again (a late      *)
(* failure report does that), but only while the budget lasts.             *)
(***************************************************************************)
EXTENDS Integers

CONSTANTS Jobs, Budget

VARIABLES phase, spent

ledgerVars == <<phase, spent>>

Init ==
    /\ phase = [j \in Jobs |-> "absent"]
    /\ spent = [j \in Jobs |-> 0]

Submit(j) ==
    /\ phase[j] = "absent"
    /\ phase' = [phase EXCEPT ![j] = "open"]
    /\ UNCHANGED spent

Start(j) ==
    /\ phase[j] = "open"
    /\ spent[j] < Budget
    /\ spent' = [spent EXCEPT ![j] = @ + 1]
    /\ UNCHANGED phase

Close(j) ==
    /\ phase[j] = "open"
    /\ phase' = [phase EXCEPT ![j] = "closed"]
    /\ UNCHANGED spent

Reopen(j) ==
    /\ phase[j] = "closed"
    /\ spent[j] < Budget
    /\ phase' = [phase EXCEPT ![j] = "open"]
    /\ UNCHANGED spent

Next == \E j \in Jobs : Submit(j) \/ Start(j) \/ Close(j) \/ Reopen(j)

Spec == Init /\ [][Next]_ledgerVars
================================================================================
