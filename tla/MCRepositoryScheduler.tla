----------------------- MODULE MCRepositoryScheduler -----------------------
(* Instance of RepositoryScheduler for TLC: a read and two mutations of one *)
(* source, of two sessions.  Requests of other sources never interact.      *)
EXTENDS RepositoryScheduler

CONSTANTS s1, s2, a

MCSourceOf == [r \in Requests |-> a]
MCSessionOf == [r \in Requests |-> IF r = 1 THEN s1 ELSE s2]
=============================================================================
