-------------------------- MODULE MCValidationPlan --------------------------
(***************************************************************************)
(* Node 2 depends on node 1, and nodes 2 and 3 share an isolation key.     *)
(***************************************************************************)
EXTENDS ValidationPlan, TLC

MCDependsOn == [n \in Nodes |-> IF n = 2 THEN {1} ELSE {}]
MCClashes == {<<2, 3>>} \cap (Nodes \X Nodes)
MCSymmetry == Permutations(Sessions)
=============================================================================
