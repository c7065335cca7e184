---------------------------- MODULE MCAdmission ----------------------------
(* Instance of Admission for TLC: a write of one session, and reads of the  *)
(* same and of another source of a second one; one read runs at a time.     *)
EXTENDS Admission, TLC

CONSTANTS s1, s2, a, b, w1, w2

MCSourceOf == [r \in Requests |-> IF r = 3 THEN b ELSE a]
MCSessionOf == [r \in Requests |-> IF r = 1 THEN s1 ELSE s2]
MCOperationOf == [r \in Requests |-> IF r = 1 THEN "write" ELSE "read"]
MCClassLimit == [c \in Classes |-> IF c = "mutation" THEN 2 ELSE 1]
WorkerSymmetry == Permutations(Workers)
=============================================================================
