---------------------------- MODULE PacketStore ----------------------------
(***************************************************************************)
(* The persisted packet store of the local agent                           *)
(* (packages/cli/src/agent/workbench-packet-store.ts): one record per      *)
(* packet with a status, a pending control request and an execution lease. *)
(* Every operation reads the whole store, changes it and writes it back    *)
(* under an exclusive lock file, so each is one atomic step.  An operation *)
(* that finds the lock file reports BUSY and changes nothing.              *)
(*                                                                         *)
(* Time is abstracted: a lease is live until the step LeaseExpires, which  *)
(* may come at any moment, and a fresh token is the next natural number.   *)
(***************************************************************************)
EXTENDS Naturals, FiniteSets

CONSTANTS
    Packets,            \* packet identities
    Runs,               \* run identities
    RunOf,              \* the run each packet belongs to
    Delegated,          \* packets handed to the external Codex executor
    Workers,            \* lease owners (workerId)
    NoWorker,           \* a record without leaseOwner
    NoPacket,           \* a worker without a packet
    MaxPacketRecords,   \* MAX_PACKET_RECORDS, 500 in the code
    MaxReservations,    \* bound on reservations, for model checking
    MaxClaims           \* bound on leases issued, for model checking

ASSUME StoreAssumption ==
    /\ RunOf \in [Packets -> Runs]
    /\ Delegated \subseteq Packets
    /\ NoWorker \notin Workers
    /\ NoPacket \notin Packets
    /\ MaxPacketRecords \in Nat \ {0}
    /\ MaxReservations \in Nat
    /\ MaxClaims \in Nat

VARIABLES
    records,    \* the persisted packets, one per identity
    clock,      \* the last reservedAt issued
    leaseSeq,   \* the last lease token issued
    lockLeft,   \* a lock file left behind by a process that died holding it
    holds,      \* the packet and token each worker remembers
    lapsed      \* history: tokens whose lease expired or was overruled

storeVars == <<records, clock, leaseSeq, lockLeft, holds, lapsed>>

-----------------------------------------------------------------------------
Terminal == {"completed", "failed", "cancelled"}
Statuses == Terminal \cup {"absent", "queued", "running", "paused"}
Controls == {"none", "pause", "cancel"}

\* token = 0 means there is no leaseToken; live is leaseExpiresAt > now.
PacketRecord == [status  : Statuses,
                 control : Controls,
                 owner   : Workers \cup {NoWorker},
                 token   : Nat,
                 live    : BOOLEAN,
                 at      : Nat]

NoRecord == [status |-> "absent", control |-> "none", owner |-> NoWorker,
             token |-> 0, live |-> FALSE, at |-> 0]

Lease   == [packet : Packets \cup {NoPacket}, token : Nat]
NoLease == [packet |-> NoPacket, token |-> 0]

\* The records are kept in the order of reservation and only the newest
\* MaxPacketRecords survive a write, whatever their status.
persistStore(rs) ==
    [p \in Packets |->
        IF Cardinality({q \in Packets : rs[q].at > rs[p].at}) < MaxPacketRecords
        THEN rs[p] ELSE NoRecord]

clearLease(r) == [r EXCEPT !.owner = NoWorker, !.token = 0, !.live = FALSE]

\* The check shared by renew, release and finalize: the store can be locked,
\* the packet is running and the caller presents the token it is leased under.
Leased(p, token) ==
    /\ ~lockLeft
    /\ token # 0
    /\ records[p].status = "running"
    /\ records[p].token = token

\* A lease that still excludes every other worker.
leaseActive(r) == r.token # 0 /\ r.live

\* Tokens that a write of the store takes out of force without the consent of
\* the worker that holds them (a record dropped by the retention limit).
EvictedBy(rs) ==
    {records[p].token : p \in {q \in Packets : rs[q].at # 0 /\ persistStore(rs)[q].at = 0}}

-----------------------------------------------------------------------------
StoreInit ==
    /\ records = [p \in Packets |-> NoRecord]
    /\ clock = 0
    /\ leaseSeq = 0
    /\ lockLeft = FALSE
    /\ holds = [w \in Workers |-> NoLease]
    /\ lapsed = {}

\* reserveWorkbenchPacket for an identity that is not in the store.  A retry
\* that finds the identity returns the record it finds and writes nothing.
reserveWorkbenchPacket(p) ==
    /\ ~lockLeft
    /\ records[p].status = "absent"
    /\ clock < MaxReservations
    /\ LET rs == [records EXCEPT ![p] = [NoRecord EXCEPT !.status = "queued", !.at = clock + 1]]
       IN  /\ records' = persistStore(rs)
           /\ lapsed' = lapsed \cup EvictedBy(rs)
    /\ clock' = clock + 1
    /\ UNCHANGED <<leaseSeq, lockLeft, holds>>

\* The record a fresh claim writes over r: controlRequested is carried over.
Claimed(r, w) ==
    [r EXCEPT !.status = "running", !.owner = w, !.token = leaseSeq + 1, !.live = TRUE]

Grant(w, p) ==
    /\ leaseSeq < MaxClaims
    /\ records' = [records EXCEPT ![p] = Claimed(records[p], w)]
    /\ leaseSeq' = leaseSeq + 1
    /\ holds' = [holds EXCEPT ![w] = [packet |-> p, token |-> leaseSeq + 1]]
    /\ UNCHANGED <<clock, lockLeft, lapsed>>

\* An owner that asks again while its lease is live gets the same lease back.
Remind(w, p) ==
    /\ holds' = [holds EXCEPT ![w] = [packet |-> p, token |-> records[p].token]]
    /\ UNCHANGED <<records, clock, leaseSeq, lockLeft, lapsed>>

OwnLiveLease(w, p) ==
    records[p].status = "running" /\ leaseActive(records[p]) /\ records[p].owner = w

\* claimNextWorkbenchPacket with a packetId: a queued packet, or a running one
\* whose lease is gone, is leased; the owner of a live lease is reminded of it.
claimPacket(w, p) ==
    /\ ~lockLeft
    /\ \/ OwnLiveLease(w, p) /\ Remind(w, p)
       \/ records[p].status = "running" /\ ~leaseActive(records[p]) /\ Grant(w, p)
       \/ records[p].status = "queued" /\ Grant(w, p)

\* The packets a claim without a packetId may ask for: all, or those of a run.
Scopes == {Packets} \cup {{p \in Packets : RunOf[p] = r} : r \in Runs}

\* claimNextWorkbenchPacket without a packetId: the caller's own live lease,
\* else the queued packet of the scope that was reserved first.
claimNextWorkbenchPacket(w, scope) ==
    /\ ~lockLeft
    /\ \/ \E p \in scope : OwnLiveLease(w, p) /\ Remind(w, p)
       \/ /\ \A p \in scope : ~OwnLiveLease(w, p)
          /\ \E p \in scope :
                /\ records[p].status = "queued"
                /\ \A q \in scope : records[q].status = "queued" => records[p].at <= records[q].at
                /\ Grant(w, p)

\* renewWorkbenchPacketLease: an expired lease that nobody took is revived.
renewWorkbenchPacketLease(w) ==
    /\ Leased(holds[w].packet, holds[w].token)
    /\ records' = [records EXCEPT ![holds[w].packet].live = TRUE]
    /\ UNCHANGED <<clock, leaseSeq, lockLeft, holds, lapsed>>

\* Mutant: a lease that has expired can no longer be released.
ReleasedIfLive(w, status) ==
    IF Leased(holds[w].packet, holds[w].token) /\ records[holds[w].packet].live
    THEN [records EXCEPT ![holds[w].packet] = clearLease([@ EXCEPT !.status = status])]
    ELSE records

\* What releaseWorkbenchPacketLease and finalizeWorkbenchPacketExecution leave
\* of the store when w presents its token; refused, they change nothing.
Released(w, status) ==
    IF Leased(holds[w].packet, holds[w].token)
    THEN [records EXCEPT ![holds[w].packet] = clearLease([@ EXCEPT !.status = status])]
    ELSE records

Finalized(w, status) ==
    IF Leased(holds[w].packet, holds[w].token)
    THEN [records EXCEPT ![holds[w].packet] =
             clearLease([@ EXCEPT !.status = status, !.control = "none"])]
    ELSE records

Forget(w) == holds' = [holds EXCEPT ![w] = NoLease]

\* releaseWorkbenchPacketLease keeps controlRequested.
releaseWorkbenchPacketLease(w, status) ==
    /\ holds[w] # NoLease
    /\ status \in {"queued", "cancelled"}
    /\ records' = Released(w, status)
    /\ Forget(w)
    /\ UNCHANGED <<clock, leaseSeq, lockLeft, lapsed>>

\* finalizeWorkbenchPacketExecution clears controlRequested.
finalizeWorkbenchPacketExecution(w, status) ==
    /\ holds[w] # NoLease
    /\ status \in {"completed", "failed", "paused", "cancelled"}
    /\ records' = Finalized(w, status)
    /\ Forget(w)
    /\ UNCHANGED <<clock, leaseSeq, lockLeft, lapsed>>

\* Mutants: recovery takes live leases too; it forgets that cancellation was requested.
RecoveredEvenLive(r) ==
    IF r.status = "running" THEN clearLease([r EXCEPT !.status = "queued"]) ELSE r
RecoveredUncancelled(r) ==
    IF r.status = "running" /\ r.token # 0 /\ ~r.live
    THEN clearLease([r EXCEPT !.status = "queued", !.control = "none"]) ELSE r

\* A record under an expired lease goes back to the queue, or is cancelled when
\* cancellation was requested; a pause request is dropped.
Recovered(r) ==
    IF r.status = "running" /\ r.token # 0 /\ ~r.live
    THEN clearLease([r EXCEPT !.status = IF r.control = "cancel" THEN "cancelled" ELSE "queued",
                              !.control = "none"])
    ELSE r

recoverStaleWorkbenchPacketLeases ==
    /\ ~lockLeft
    /\ records' = [p \in Packets |-> Recovered(records[p])]
    /\ UNCHANGED <<clock, leaseSeq, lockLeft, holds, lapsed>>

\* Mutant: the interrupted packet is failed whatever became of it.
InterruptedAlways(rs, p) ==
    IF ~lockLeft THEN [rs EXCEPT ![p] = clearLease([@ EXCEPT !.status = "failed"])] ELSE rs

\* recoverInterruptedWorkbenchPacket, called for a journal found at startup.
Interrupted(rs, p) ==
    IF ~lockLeft /\ rs[p].status = "running"
    THEN [rs EXCEPT ![p] = clearLease([@ EXCEPT !.status = "failed"])]
    ELSE rs

recoverInterruptedWorkbenchPacket(p) ==
    /\ records' = Interrupted(records, p)
    /\ lapsed' = IF records' = records THEN lapsed ELSE lapsed \cup {records[p].token}
    /\ UNCHANGED <<clock, leaseSeq, lockLeft, holds>>

\* controlWorkbenchPacketsForRun: a packet that is not running changes status
\* at once, a running one only carries the request until its executor looks.
ControlledRecord(r, action) ==
    CASE action = "pause" /\ r.status = "queued" ->
            clearLease([r EXCEPT !.status = "paused", !.control = "none"])
      [] action = "cancel" /\ r.status \in {"queued", "paused"} ->
            clearLease([r EXCEPT !.status = "cancelled", !.control = "none"])
      [] action \in {"pause", "cancel"} /\ r.status = "running" ->
            [r EXCEPT !.control = action]
      [] action = "resume" /\ r.status = "paused" ->
            clearLease([r EXCEPT !.status = "queued", !.control = "none"])
      [] OTHER -> r

Controlled(r, action) ==
    IF lockLeft THEN records
    ELSE [p \in Packets |-> IF RunOf[p] = r THEN ControlledRecord(records[p], action)
                                            ELSE records[p]]

controlWorkbenchPacketsForRun(r, action) ==
    /\ records' = Controlled(r, action)
    /\ UNCHANGED <<clock, leaseSeq, lockLeft, holds, lapsed>>

\* updateWorkbenchPacketStatus: the goal dispatcher and the Codex lifecycle
\* callback write a status whatever the record says, and leave the lease.
updateWorkbenchPacketStatus(p, status) ==
    /\ ~lockLeft
    /\ p \in Delegated
    /\ records[p].status # "absent"
    /\ status \in Terminal \cup {"running"}
    /\ records' = [records EXCEPT ![p].status = status]
    /\ lapsed' = lapsed \cup {records[p].token}
    /\ UNCHANGED <<clock, leaseSeq, lockLeft, holds>>

-----------------------------------------------------------------------------
\* The environment: time passes, workers die, an operator removes the lock file.
LeaseExpires(p) ==
    /\ records[p].token # 0
    /\ records[p].live
    /\ records' = [records EXCEPT ![p].live = FALSE]
    /\ lapsed' = lapsed \cup {records[p].token}
    /\ UNCHANGED <<clock, leaseSeq, lockLeft, holds>>

\* Workers die with the process they run in, which leaves the lock file behind
\* when it died inside a store operation.
WorkersDie(dead) ==
    /\ holds' = [w \in Workers |-> IF w \in dead THEN NoLease ELSE holds[w]]
    /\ lockLeft' \in {lockLeft, TRUE}
    /\ UNCHANGED <<records, clock, leaseSeq, lapsed>>

OperatorRemovesLock ==
    /\ lockLeft
    /\ lockLeft' = FALSE
    /\ UNCHANGED <<records, clock, leaseSeq, holds, lapsed>>

StoreNext ==
    \/ \E p \in Packets :
          \/ reserveWorkbenchPacket(p)
          \/ recoverInterruptedWorkbenchPacket(p)
          \/ LeaseExpires(p)
          \/ \E s \in Statuses : updateWorkbenchPacketStatus(p, s)
    \/ \E w \in Workers :
          \/ \E p \in Packets : claimPacket(w, p)
          \/ \E scope \in Scopes : claimNextWorkbenchPacket(w, scope)
          \/ renewWorkbenchPacketLease(w)
          \/ \E s \in Statuses : releaseWorkbenchPacketLease(w, s)
          \/ \E s \in Statuses : finalizeWorkbenchPacketExecution(w, s)
    \/ \E r \in Runs, a \in {"pause", "resume", "cancel"} : controlWorkbenchPacketsForRun(r, a)
    \/ recoverStaleWorkbenchPacketLeases
    \/ \E dead \in SUBSET Workers : WorkersDie(dead)
    \/ OperatorRemovesLock

StoreSpec == StoreInit /\ [][StoreNext]_storeVars

-----------------------------------------------------------------------------
\* The types of the persisted records and of what workers remember.
StoreTypeOK ==
    /\ records \in [Packets -> PacketRecord]
    /\ clock \in Nat
    /\ leaseSeq \in Nat
    /\ lockLeft \in BOOLEAN
    /\ holds \in [Workers -> Lease]
    /\ lapsed \subseteq Nat

\* A worker whose lease has neither expired nor been overruled is still the one
\* the store names: no claim, control request, recovery, finalization by another
\* worker or retention trim can have taken the packet from it.  Two workers can
\* therefore never both execute a packet under leases that have not lapsed.
NoLiveLeaseTaken ==
    \A w \in Workers :
        holds[w].token # 0 /\ holds[w].token \notin lapsed =>
            LET r == records[holds[w].packet]
            IN  r.status = "running" /\ r.owner = w /\ r.token = holds[w].token /\ r.live

\* A packet that is executed locally carries a lease exactly while it is running:
\* every way out of "running" clears the lease, every way in sets one, so stale
\* recovery finds each interrupted packet.
LeaseIffRunning ==
    \A p \in Packets \ Delegated : records[p].status = "running" <=> records[p].token # 0

\* A packet that reached a terminal status keeps it, whatever late renewals,
\* releases, finalizations, recoveries or control requests arrive, until the
\* retention limit drops the record.
TerminalFinal ==
    [][\A p \in Packets \ Delegated :
          records[p].status \in Terminal =>
              records'[p].status \in {records[p].status, "absent"}]_storeVars

=============================================================================
