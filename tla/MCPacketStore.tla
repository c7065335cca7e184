--------------------------- MODULE MCPacketStore ---------------------------
(* Instance of PacketStore for TLC: three packets of two runs, one of them  *)
(* handed to Codex, two workers, and room for two records.                  *)
EXTENDS PacketStore, TLC

CONSTANTS p1, p2, p3, r1, r2, w1, w2

MCRunOf == (p1 :> r1) @@ (p2 :> r1) @@ (p3 :> r2)

MCWorkerSymmetry == Permutations({w1, w2})
=============================================================================
