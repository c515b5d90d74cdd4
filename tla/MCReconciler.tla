------------------------------ MODULE MCReconciler ------------------------------
(***************************************************************************)
(* Small instances of Reconciler for TLC: production deployments and       *)
(* previews of one pull request.                                           *)
(***************************************************************************)
EXTENDS Reconciler

CONSTANTS o1, o2, web, pr42

TwoIds == {1, 2}

\* Deployment 1 is a preview, the others are production deployments.
MixedWorkloads == [d \in DeploymentIds |-> IF d = 1 THEN pr42 ELSE web]
================================================================================
