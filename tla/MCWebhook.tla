------------------------------- MODULE MCWebhook -------------------------------
(***************************************************************************)
(* A small instance of Webhook for TLC: two pushes of one commit, a pull   *)
(* request that is opened and closed, and an event without an action.      *)
(***************************************************************************)
EXTENDS Webhook

CONSTANTS c1, d1, d2

Sent(event, action, repository, pr) ==
    [event |-> event, action |-> action, repository |-> repository, commit |-> c1, pr |-> pr]

Push   == Sent("push", "push", "ours", 0)
Opened == Sent("pull_request", "opened", "ours", 7)
Closed == Sent("pull_request", "closed", "ours", 7)
Ping   == Sent("ping", "", "", 0)

SentByGitHub == {Push, Opened, Closed, Ping}

Carry(first, second) == [d \in Deliveries |-> IF d = d1 THEN first ELSE second]

Twice == {Carry(Push, Push), Carry(Opened, Closed), Carry(Push, Ping)}
================================================================================
