--------------------------- MODULE MCDelegation ---------------------------
(* Instances of Delegation for TLC: one goal packet of one run.            *)
EXTENDS Delegation, TLC

CONSTANT r1

MCRunOf == Goal :> r1
===========================================================================
