------------------------------ MODULE MCApiServer ------------------------------
(***************************************************************************)
(* Small instances of ApiServer for TLC: an organization with a project, a *)
(* service, a resource and a deployment, another organization, and a       *)
(* caller of each sort.                                                    *)
(***************************************************************************)
EXTENDS ApiServer

CONSTANTS a, b, p1, p2, s1, s2, r1, r2, d1, d2

TwoRequests == 1..2

Caller(role, orgs, projects) ==
    [role |-> role, orgs |-> orgs, projects |-> projects, global |-> FALSE, admin |-> FALSE,
     system |-> FALSE]

Everyone ==
    [Caller("owner", {}, {}) EXCEPT !.global = TRUE, !.admin = TRUE, !.system = TRUE]

SomeSubjects ==
    {Caller("owner", {a}, {}), Caller("owner", {b}, {}), Caller("developer", {a}, {}),
     Caller("viewer", {a}, {}), Caller("maintainer", {}, {p1}),
     Everyone}

\* Any request, and one that deletes or moves what the other is about.
Two ==
    <<[ops |-> DOMAIN NodeRoutes, subjects |-> SomeSubjects],
      [ops |-> {"deleteProject", "deleteService", "deleteResource", "updateProject"},
       subjects |-> {Caller("owner", {a}, {}), Everyone}]>>
================================================================================
