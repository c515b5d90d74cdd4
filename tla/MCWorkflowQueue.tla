---------------------------- MODULE MCWorkflowQueue ----------------------------
(***************************************************************************)
(* A small instance of WorkflowQueue for TLC: one job, every race for it.  *)
(***************************************************************************)
EXTENDS WorkflowQueue

OneJob == {1}
================================================================================
