------------------------------- MODULE MCTenancy -------------------------------
(***************************************************************************)
(* Small instances of Tenancy for TLC: an empty database in and outside    *)
(* production, and one with an approved user and an administrator.         *)
(***************************************************************************)
EXTENDS Tenancy, TLC

TwoRequests == 1..2
Default == [m \in Metrics |-> IF m \in {"maxDbStorageMb", "maxProjects"} THEN 2 ELSE 1]
SomeLimits == {[m \in Metrics |-> 3]}
SomeSizes == {[unit |-> "Mb", n |-> 2], [unit |-> "Gb", n |-> 1]}

Empty(production, backend) ==
    [config |-> [production |-> production, backend |-> backend, default |-> Default,
                 ops |-> {"signup", "login"}],
     users |-> << >>, orgs |-> {}, members |-> {}, tokens |-> {}, rows |-> {}]

Account(role, n) == [role |-> role, accountType |-> "NON_CLUB", approval |-> "APPROVED",
                     password |-> None, born |-> n]

Running(backend) ==
    [config |-> [production |-> TRUE, backend |-> backend, default |-> Default,
                 ops |-> {"project", "deploy", "resource"}],
     users |-> ("e1" :> Account("USER", 1)) @@ ("e2" :> Account("ADMIN", 0)),
     rows |-> {[kind |-> "project", project |-> <<"s1", "p">>, mb |-> 0, by |-> "e1", request |-> None]},
     orgs |-> {"s1", "s2"}, members |-> {<<"s1", "e1">>, <<"s2", "e2">>},
     tokens |-> {[user |-> "e1", orgs |-> {"s1"}, userRole |-> "USER", approval |-> "APPROVED"],
                 [user |-> "e2", orgs |-> {"s2"}, userRole |-> "ADMIN", approval |-> "APPROVED"]}]

SomeScenarios == {Empty(TRUE, "prisma"), Empty(FALSE, "memory"), Running("prisma"), Running("memory")}
================================================================================
