---------------------------- MODULE SourceLock ----------------------------
(***************************************************************************)
(* What the repository scheduler promises to whoever works on a source: at *)
(* any time one mutation, or any number of reads, of each source.  A       *)
(* request enters when nothing that conflicts with it is at work; requests *)
(* leave, alone or together, whenever they like.                           *)
(***************************************************************************)
CONSTANTS
    Requests,   \* request identities
    SourceOf,   \* the source of each request
    Mutations   \* the requests that need the source for themselves

VARIABLE working    \* the requests at work

Conflict(r, q) == SourceOf[r] = SourceOf[q] /\ (r \in Mutations \/ q \in Mutations)

LockInit == working = {}

Enter(r) ==
    /\ \A q \in working : ~Conflict(r, q)
    /\ working' = working \cup {r}

Leave == working' \in SUBSET working

LockNext == Leave \/ \E r \in Requests : Enter(r)

LockSpec == LockInit /\ [][LockNext]_working
=============================================================================
