---------------------------- MODULE MCBuildPipeline ----------------------------
(***************************************************************************)
(* Small instances of BuildPipeline for TLC.                               *)
(***************************************************************************)
EXTENDS BuildPipeline, TLC

CONSTANTS w1, w2, c1, c2, r1

TwoIds == {1, 2}

\* Builders and commits are compared only for equality.
Symmetry == Permutations({w1, w2}) \cup Permutations({c1, c2})
================================================================================
