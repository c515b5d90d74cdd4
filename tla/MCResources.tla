------------------------------ MODULE MCResources ------------------------------
(***************************************************************************)
(* Small instances of Resources for TLC: two engines that share a key, two *)
(* prefixes, one service, three calls.                                     *)
(***************************************************************************)
EXTENDS Resources

SomeKeys == [postgresql |-> {"DATABASE_URL", "POSTGRES_URL"}, sqlite |-> {"DATABASE_URL"}]
ThreeCalls == 1..3
SomeThree == <<Ops, Ops, {"deleteResource"}>>
TwoIds == 1..2
================================================================================
