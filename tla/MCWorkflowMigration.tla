------------------------ MODULE MCWorkflowMigration ------------------------
(* Two operations on one workflow, each called by two invocations.           *)
EXTENDS WorkflowMigration, TLC

CONSTANTS o1, o2, i1, i2

ApplyAndRollback == [o \in Ops |-> IF o = o1 THEN "apply" ELSE "rollback"]
InvSymmetry == Permutations({i1, i2})
=============================================================================
