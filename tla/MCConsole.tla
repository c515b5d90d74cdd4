------------------------------- MODULE MCConsole -------------------------------
(***************************************************************************)
(* A small instance of Console for TLC: every statement from a database    *)
(* administrator and a maintainer, and one request of every other kind.    *)
(***************************************************************************)
EXTENDS Console, TLC

Asks(op, role, statement, confirmed) ==
    [op |-> op, role |-> role, statement |-> statement, confirmed |-> confirmed]

SomeInputs ==
    {Asks("query", role, s, TRUE) : role \in {"dbAdmin", "maintainer"}, s \in Statements}
    \cup {Asks("query", "dbAdmin", "write", FALSE), Asks("command", "dbAdmin", "write", TRUE),
          Asks("query", "developer", "select", FALSE), Asks("command", "maintainer", "write", TRUE),
          Asks("table", "maintainer", "select", FALSE), Asks("browse", "maintainer", "select", FALSE),
          Asks("view", "developer", "select", FALSE)}

RequestSymmetry == Permutations(Requests)
================================================================================
