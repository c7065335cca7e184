------------------------- MODULE MCPacketExecution -------------------------
(* Instances of PacketExecution for TLC: two packets of one run, one or two     *)
(* paths and one or two concurrent worker cycles.                           *)
EXTENDS PacketExecution, TLC

CONSTANTS p1, p2, r1, x1, x2, w1, w2

\* Both packets are of one run; they touch different paths, or one.
OneRun == [p \in Packets |-> r1]
OwnPath == [p \in Packets |-> IF p = p1 THEN x1 ELSE x2]
SamePath == [p \in Packets |-> x1]

\* A packet and its repair are of one task; otherwise the tasks follow each other.
SameTask == [p \in Packets |-> 1]
NextTask == [p \in Packets |-> IF p = p1 THEN 1 ELSE 2]

WorkerSymmetry == Permutations({w1, w2})
=============================================================================
