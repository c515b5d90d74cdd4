----------------------------- MODULE MCLocalWorker -----------------------------
(***************************************************************************)
(* A small instance of LocalWorker for TLC: two workers, two deployments   *)
(* of two commits, room for one cancellation.                              *)
(***************************************************************************)
EXTENDS LocalWorker, TLC

CONSTANTS w1, w2

ThreeJobs == 1..3
TwoDeployments == 1..2
JobTypes == [d \in TwoDeployments |-> IF d = 1 THEN "build-and-deploy" ELSE "preview-deploy"]
Commits == [d \in TwoDeployments |-> IF d = 1 THEN "c1" ELSE "c2"]

\* Two git builds in memory, one that pushes afterwards, the faults of the database on a dry
\* run, and a prebuilt image.
Configurations ==
    {[backend |-> "memory", source |-> "github", dryRun |-> FALSE, push |-> "buildx",
      metadata |-> TRUE, created |-> {1, 2}],
     [backend |-> "memory", source |-> "github", dryRun |-> FALSE, push |-> "after",
      metadata |-> TRUE, created |-> {1}],
     [backend |-> "prisma", source |-> "github", dryRun |-> TRUE, push |-> "no",
      metadata |-> FALSE, created |-> {1, 2}],
     [backend |-> "memory", source |-> "image", dryRun |-> FALSE, push |-> "buildx",
      metadata |-> FALSE, created |-> {1}]}
================================================================================
