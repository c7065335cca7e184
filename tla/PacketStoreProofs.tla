------------------------- MODULE PacketStoreProofs -------------------------
(* Theorems about PacketStore, for every set of packets, runs and workers   *)
(* and every retention limit.                                               *)
EXTENDS PacketStore, TLAPS

\* A record that is in the store carries the time of its reservation.
Stamped == \A p \in Packets : records[p].status # "absent" => records[p].at # 0

\* A worker that remembers a token remembers the packet it belongs to.
HoldsPacket == \A w \in Workers : holds[w].token # 0 => holds[w].packet \in Packets

\* The inductive invariant behind NoLiveLeaseTaken.
StoreInv == StoreTypeOK /\ Stamped /\ HoldsPacket /\ NoLiveLeaseTaken

-----------------------------------------------------------------------------
\* The record of an unknown packet is a record.
LEMMA NoRecordType == NoRecord \in PacketRecord
  BY DEF NoRecord, PacketRecord, Statuses, Controls

\* clearLease keeps the type of a record.
LEMMA ClearLeaseType ==
  ASSUME NEW r \in PacketRecord
  PROVE  clearLease(r) \in PacketRecord
  BY DEF clearLease, PacketRecord

\* Writing the store keeps a record or drops it.
LEMMA PersistKeepsOrDrops ==
  ASSUME NEW rs, NEW p \in Packets
  PROVE  persistStore(rs)[p] \in {rs[p], NoRecord}
  BY DEF persistStore

\* Writing the store keeps its type.
LEMMA PersistType ==
  ASSUME NEW rs \in [Packets -> PacketRecord]
  PROVE  persistStore(rs) \in [Packets -> PacketRecord]
  BY NoRecordType DEF persistStore

\* What release, finalize, recovery and control write are records.
LEMMA RewriteType ==
  ASSUME NEW r \in PacketRecord
  PROVE  /\ \A s \in Statuses, c \in Controls :
              clearLease([r EXCEPT !.status = s, !.control = c]) \in PacketRecord
         /\ \A s \in Statuses : clearLease([r EXCEPT !.status = s]) \in PacketRecord
         /\ \A c \in Controls : [r EXCEPT !.control = c] \in PacketRecord
         /\ Recovered(r) \in PacketRecord
         /\ \A a \in {"pause", "resume", "cancel"} : ControlledRecord(r, a) \in PacketRecord
<1>1. /\ \A s \in Statuses, c \in Controls : [r EXCEPT !.status = s, !.control = c] \in PacketRecord
      /\ \A s \in Statuses : [r EXCEPT !.status = s] \in PacketRecord
      /\ \A c \in Controls : [r EXCEPT !.control = c] \in PacketRecord
  BY DEF PacketRecord
<1>2. /\ \A s \in Statuses, c \in Controls :
            clearLease([r EXCEPT !.status = s, !.control = c]) \in PacketRecord
      /\ \A s \in Statuses : clearLease([r EXCEPT !.status = s]) \in PacketRecord
  BY <1>1, ClearLeaseType
<1>3. {"queued", "cancelled", "paused"} \subseteq Statuses /\ {"none", "pause", "cancel"} \subseteq Controls
  BY DEF Statuses, Terminal, Controls
<1>4. Recovered(r) \in PacketRecord
  BY <1>2, <1>3 DEF Recovered
<1>5. \A a \in {"pause", "resume", "cancel"} : ControlledRecord(r, a) \in PacketRecord
  BY <1>1, <1>2, <1>3 DEF ControlledRecord
<1>. QED  BY <1>1, <1>2, <1>4, <1>5
-----------------------------------------------------------------------------
\* The three ways in which an operation rewrites the record of one packet.
LEMMA ReleasedType ==
  ASSUME StoreTypeOK, NEW w \in Workers, NEW s \in Statuses
  PROVE  /\ Released(w, s) \in [Packets -> PacketRecord]
         /\ Finalized(w, s) \in [Packets -> PacketRecord]
<1>1. "none" \in Controls
  BY DEF Controls
<1>2. CASE holds[w].packet \in Packets
  <2>1. records[holds[w].packet] \in PacketRecord
    BY <1>2 DEF StoreTypeOK
  <2>2. /\ clearLease([records[holds[w].packet] EXCEPT !.status = s]) \in PacketRecord
        /\ clearLease([records[holds[w].packet] EXCEPT !.status = s, !.control = "none"]) \in PacketRecord
    BY <1>1, <2>1, RewriteType
  <2>. QED  BY <1>2, <2>2 DEF StoreTypeOK, Released, Finalized
<1>3. CASE holds[w].packet \notin Packets
  BY <1>3 DEF StoreTypeOK, Released, Finalized
<1>. QED  BY <1>2, <1>3

LEMMA GrantType ==
  ASSUME StoreTypeOK, NEW w \in Workers, NEW p \in Packets, Grant(w, p)
  PROVE  StoreTypeOK'
<1>1. Claimed(records[p], w) \in PacketRecord
  <2>1. records[p] \in PacketRecord /\ leaseSeq + 1 \in Nat /\ "running" \in Statuses
    BY DEF StoreTypeOK, Statuses
  <2>. QED  BY <2>1 DEF Claimed, PacketRecord
<1>2. [packet |-> p, token |-> leaseSeq + 1] \in Lease
  BY DEF StoreTypeOK, Lease
<1>. QED  BY <1>1, <1>2 DEF StoreTypeOK, Grant

LEMMA RemindType ==
  ASSUME StoreTypeOK, NEW w \in Workers, NEW p \in Packets, Remind(w, p)
  PROVE  StoreTypeOK'
<1>1. [packet |-> p, token |-> records[p].token] \in Lease
  BY DEF StoreTypeOK, Lease, PacketRecord
<1>. QED  BY <1>1 DEF StoreTypeOK, Remind

\* Every operation, and every step of the environment, keeps the types.
LEMMA TypeStep == StoreTypeOK /\ [StoreNext]_storeVars => StoreTypeOK'
<1>. SUFFICES ASSUME StoreTypeOK, [StoreNext]_storeVars
              PROVE  StoreTypeOK'
  OBVIOUS
<1>0. NoLease \in Lease /\ (\A p \in Packets : records[p] \in PacketRecord /\ records[p].token \in Nat)
  BY DEF NoLease, Lease, StoreTypeOK, PacketRecord
<1>1. CASE UNCHANGED storeVars
  BY <1>1 DEF StoreTypeOK, storeVars
<1>2. ASSUME NEW p \in Packets, reserveWorkbenchPacket(p)
      PROVE  StoreTypeOK'
  <2>. DEFINE rs == [records EXCEPT ![p] = [NoRecord EXCEPT !.status = "queued", !.at = clock + 1]]
  <2>1. [NoRecord EXCEPT !.status = "queued", !.at = clock + 1] \in PacketRecord
    <3>1. clock + 1 \in Nat /\ "queued" \in Statuses
      BY DEF StoreTypeOK, Statuses
    <3>. QED  BY <3>1, NoRecordType DEF PacketRecord
  <2>2. rs \in [Packets -> PacketRecord]
    BY <2>1 DEF StoreTypeOK
  <2>3. persistStore(rs) \in [Packets -> PacketRecord]
    BY <2>2, PersistType
  <2>4. EvictedBy(rs) \subseteq Nat
    BY <1>0 DEF EvictedBy
  <2>5. /\ records' = persistStore(rs) /\ lapsed' = lapsed \cup EvictedBy(rs)
        /\ clock' = clock + 1 /\ UNCHANGED <<leaseSeq, lockLeft, holds>>
    BY <1>2 DEF reserveWorkbenchPacket
  <2>. HIDE DEF rs
  <2>6. lapsed' \subseteq Nat
    BY <2>4, <2>5 DEF StoreTypeOK
  <2>7. clock' \in Nat
    BY <2>5 DEF StoreTypeOK
  <2>. QED  BY <2>3, <2>5, <2>6, <2>7 DEF StoreTypeOK
<1>3. ASSUME NEW p \in Packets, recoverInterruptedWorkbenchPacket(p)
      PROVE  StoreTypeOK'
  <2>1. clearLease([records[p] EXCEPT !.status = "failed"]) \in PacketRecord
    BY <1>0, RewriteType DEF Statuses, Terminal
  <2>. QED  BY <1>0, <1>3, <2>1 DEF StoreTypeOK, recoverInterruptedWorkbenchPacket, Interrupted
<1>4. ASSUME NEW p \in Packets, LeaseExpires(p)
      PROVE  StoreTypeOK'
  <2>1. [records[p] EXCEPT !.live = FALSE] \in PacketRecord
    BY <1>0 DEF PacketRecord
  <2>. QED  BY <1>0, <1>4, <2>1 DEF StoreTypeOK, LeaseExpires
<1>5. ASSUME NEW p \in Packets, NEW s \in Statuses, updateWorkbenchPacketStatus(p, s)
      PROVE  StoreTypeOK'
  <2>1. [records[p] EXCEPT !.status = s] \in PacketRecord
    BY <1>0 DEF PacketRecord
  <2>. QED  BY <1>0, <1>5, <2>1 DEF StoreTypeOK, updateWorkbenchPacketStatus
<1>6. ASSUME NEW w \in Workers, NEW p \in Packets, claimPacket(w, p)
      PROVE  StoreTypeOK'
  BY <1>6, GrantType, RemindType DEF claimPacket
<1>7. ASSUME NEW w \in Workers, NEW scope \in Scopes, claimNextWorkbenchPacket(w, scope)
      PROVE  StoreTypeOK'
  BY <1>7, GrantType, RemindType DEF Scopes, claimNextWorkbenchPacket
<1>8. ASSUME NEW w \in Workers, renewWorkbenchPacketLease(w)
      PROVE  StoreTypeOK'
  <2>1. CASE holds[w].packet \in Packets
    <3>1. [records[holds[w].packet] EXCEPT !.live = TRUE] \in PacketRecord
      BY <1>0, <2>1 DEF PacketRecord
    <3>. QED  BY <1>8, <2>1, <3>1 DEF StoreTypeOK, renewWorkbenchPacketLease
  <2>2. CASE holds[w].packet \notin Packets
    BY <1>8, <2>2 DEF StoreTypeOK, renewWorkbenchPacketLease
  <2>. QED  BY <2>1, <2>2
<1>9. ASSUME NEW w \in Workers, NEW s \in Statuses, releaseWorkbenchPacketLease(w, s)
      PROVE  StoreTypeOK'
  BY <1>0, <1>9, ReleasedType DEF StoreTypeOK, releaseWorkbenchPacketLease, Forget
<1>10. ASSUME NEW w \in Workers, NEW s \in Statuses, finalizeWorkbenchPacketExecution(w, s)
       PROVE  StoreTypeOK'
  BY <1>0, <1>10, ReleasedType DEF StoreTypeOK, finalizeWorkbenchPacketExecution, Forget
<1>11. ASSUME NEW r \in Runs, NEW a \in {"pause", "resume", "cancel"}, controlWorkbenchPacketsForRun(r, a)
       PROVE  StoreTypeOK'
  <2>1. \A p \in Packets : ControlledRecord(records[p], a) \in PacketRecord
    BY <1>0, RewriteType
  <2>. QED  BY <1>0, <1>11, <2>1 DEF StoreTypeOK, controlWorkbenchPacketsForRun, Controlled
<1>12. CASE recoverStaleWorkbenchPacketLeases
  <2>1. \A p \in Packets : Recovered(records[p]) \in PacketRecord
    BY <1>0, RewriteType
  <2>. QED  BY <1>12, <2>1 DEF StoreTypeOK, recoverStaleWorkbenchPacketLeases
<1>13. ASSUME NEW dead \in SUBSET Workers, WorkersDie(dead)
       PROVE  StoreTypeOK'
  BY <1>0, <1>13 DEF StoreTypeOK, WorkersDie
<1>14. CASE OperatorRemovesLock
  BY <1>14 DEF StoreTypeOK, OperatorRemovesLock
<1>. QED  BY <1>1, <1>2, <1>3, <1>4, <1>5, <1>6, <1>7, <1>8, <1>9, <1>10, <1>11, <1>12,
             <1>13, <1>14 DEF StoreNext

LEMMA TypeInit == StoreInit => StoreTypeOK
<1>1. NoLease \in Lease
  BY DEF NoLease, Lease
<1>. SUFFICES ASSUME StoreInit PROVE StoreTypeOK
  OBVIOUS
<1>2. records \in [Packets -> PacketRecord] /\ holds \in [Workers -> Lease]
  BY <1>1, NoRecordType DEF StoreInit
<1>3. clock \in Nat /\ leaseSeq \in Nat /\ lockLeft \in BOOLEAN /\ lapsed \subseteq Nat
  BY DEF StoreInit
<1>. QED  BY <1>2, <1>3 DEF StoreTypeOK

\* The store and what its workers remember always have their types.
THEOREM StoreTypeCorrect == StoreSpec => []StoreTypeOK
  BY TypeInit, TypeStep, PTL DEF StoreSpec
-----------------------------------------------------------------------------
\* What a claim leaves: the claimed packet's record and the claimer's memory
\* agree, and nothing else moved.
LEMMA GrantSafe ==
  ASSUME StoreInv, StoreTypeOK', NEW w \in Workers, NEW p \in Packets, Grant(w, p),
         records[p].status = "queued" \/ ~leaseActive(records[p]), records[p].status # "absent"
  PROVE  StoreInv'
<1>1. /\ records[p] \in PacketRecord
      /\ leaseSeq + 1 \in Nat /\ leaseSeq + 1 # 0
  BY DEF StoreInv, StoreTypeOK
<1>2. /\ records' = [records EXCEPT ![p] = Claimed(records[p], w)]
      /\ holds' = [holds EXCEPT ![w] = [packet |-> p, token |-> leaseSeq + 1]]
      /\ lapsed' = lapsed
  BY DEF Grant
<1>3. /\ records'[p].status = "running" /\ records'[p].owner = w /\ records'[p].live
      /\ records'[p].token = leaseSeq + 1 /\ records'[p].at = records[p].at
      /\ \A q \in Packets : q # p => records'[q] = records[q]
  BY <1>1, <1>2 DEF StoreInv, StoreTypeOK, Claimed, PacketRecord
<1>4. /\ holds'[w].packet = p /\ holds'[w].token = leaseSeq + 1
      /\ \A v \in Workers : v # w => holds'[v] = holds[v]
  BY <1>2 DEF StoreInv, StoreTypeOK
<1>5. Stamped'
  BY <1>3 DEF StoreInv, Stamped
<1>6. HoldsPacket'
  BY <1>4 DEF StoreInv, HoldsPacket
<1>7. ASSUME NEW v \in Workers, v # w, holds[v].token # 0, holds[v].token \notin lapsed
      PROVE  holds[v].packet \in Packets /\ holds[v].packet # p
  BY <1>7 DEF StoreInv, HoldsPacket, NoLiveLeaseTaken, leaseActive
<1>8. NoLiveLeaseTaken'
  BY <1>2, <1>3, <1>4, <1>7 DEF StoreInv, NoLiveLeaseTaken
<1>. QED  BY <1>5, <1>6, <1>8 DEF StoreInv

LEMMA RemindSafe ==
  ASSUME StoreInv, StoreTypeOK', NEW w \in Workers, NEW p \in Packets,
         OwnLiveLease(w, p), Remind(w, p)
  PROVE  StoreInv'
<1>1. /\ records' = records /\ lapsed' = lapsed
      /\ holds' = [holds EXCEPT ![w] = [packet |-> p, token |-> records[p].token]]
  BY DEF Remind
<1>2. /\ holds'[w].packet = p /\ holds'[w].token = records[p].token
      /\ \A v \in Workers : v # w => holds'[v] = holds[v]
  BY <1>1 DEF StoreInv, StoreTypeOK
<1>3. Stamped' /\ HoldsPacket'
  BY <1>1, <1>2 DEF StoreInv, Stamped, HoldsPacket
<1>4. NoLiveLeaseTaken'
  BY <1>1, <1>2 DEF StoreInv, NoLiveLeaseTaken, OwnLiveLease, leaseActive
<1>. QED  BY <1>3, <1>4 DEF StoreInv

\* A step that leaves memories alone is safe if it keeps the reservation time of
\* every known record and leaves alone each record under a lease that has not
\* lapsed, its pending control apart.
LEMMA RewriteSafe ==
  ASSUME StoreInv, StoreTypeOK', holds' = holds, lapsed \subseteq lapsed',
         \A p \in Packets : records'[p].status # "absent" =>
                                records[p].status # "absent" /\ records'[p].at = records[p].at,
         \A p \in Packets :
             \/ records[p].token \in lapsed'
             \/ ~(records[p].status = "running" /\ records[p].live)
             \/ /\ records'[p].status = records[p].status
                /\ records'[p].owner = records[p].owner
                /\ records'[p].token = records[p].token
                /\ records'[p].live = records[p].live
  PROVE  StoreInv'
<1>1. Stamped' /\ HoldsPacket'
  BY DEF StoreInv, Stamped, HoldsPacket
<1>2. NoLiveLeaseTaken'
  <2>. SUFFICES ASSUME NEW w \in Workers, holds[w].token # 0, holds[w].token \notin lapsed'
                PROVE  /\ records'[holds[w].packet].status = "running"
                       /\ records'[holds[w].packet].owner = w
                       /\ records'[holds[w].packet].token = holds[w].token
                       /\ records'[holds[w].packet].live
    BY DEF NoLiveLeaseTaken
  <2>. QED  BY DEF StoreInv, HoldsPacket, NoLiveLeaseTaken
<1>. QED  BY <1>1, <1>2 DEF StoreInv

\* A worker that gives up its lease, whether the store accepts its token or not,
\* takes nothing from another worker.
LEMMA GiveUpSafe ==
  ASSUME StoreInv, StoreTypeOK', NEW w \in Workers, Forget(w), lapsed' = lapsed,
         records' = records \/
         /\ Leased(holds[w].packet, holds[w].token)
         /\ \A p \in Packets : p # holds[w].packet => records'[p] = records[p]
         /\ records'[holds[w].packet].at = records[holds[w].packet].at
  PROVE  StoreInv'
<1>1. /\ holds'[w].token = 0
      /\ \A v \in Workers : v # w => holds'[v] = holds[v]
  BY DEF StoreInv, StoreTypeOK, Forget, NoLease
<1>2. HoldsPacket'
  BY <1>1 DEF StoreInv, HoldsPacket
<1>3. Stamped'
  BY DEF StoreInv, Stamped, Leased
<1>4. NoLiveLeaseTaken'
  <2>. SUFFICES ASSUME NEW v \in Workers, v # w, holds[v].token # 0, holds[v].token \notin lapsed
                PROVE  /\ records'[holds[v].packet].status = "running"
                       /\ records'[holds[v].packet].owner = v
                       /\ records'[holds[v].packet].token = holds[v].token
                       /\ records'[holds[v].packet].live
    BY <1>1 DEF NoLiveLeaseTaken
  <2>1. /\ holds[v].packet \in Packets
        /\ records[holds[v].packet].status = "running"
        /\ records[holds[v].packet].owner = v
        /\ records[holds[v].packet].token = holds[v].token
        /\ records[holds[v].packet].live
    BY DEF StoreInv, HoldsPacket, NoLiveLeaseTaken
  <2>2. CASE records' = records
    BY <2>1, <2>2
  <2>3. CASE Leased(holds[w].packet, holds[w].token) /\ holds[v].packet = holds[w].packet
    <3>1. holds[w].token = holds[v].token /\ holds[w].token # 0
      BY <2>1, <2>3 DEF Leased
    <3>2. records[holds[w].packet].owner = w
      BY <3>1 DEF StoreInv, NoLiveLeaseTaken
    <3>. QED  BY <2>1, <2>3, <3>2
  <2>. QED  BY <2>1, <2>2, <2>3
<1>. QED  BY <1>2, <1>3, <1>4 DEF StoreInv
\* A reservation that pushes the oldest records out of the store overrules the
\* leases it drops, and leaves every other lease alone.
LEMMA ReserveSafe ==
  ASSUME StoreInv, StoreTypeOK', NEW p \in Packets, reserveWorkbenchPacket(p)
  PROVE  StoreInv'
<1>. DEFINE rs == [records EXCEPT ![p] = [NoRecord EXCEPT !.status = "queued", !.at = clock + 1]]
<1>1. /\ records' = persistStore(rs) /\ lapsed' = lapsed \cup EvictedBy(rs)
      /\ holds' = holds /\ records[p].status = "absent"
  BY DEF reserveWorkbenchPacket
<1>2. /\ rs[p].at # 0
      /\ \A q \in Packets : q # p => rs[q] = records[q]
  BY DEF StoreInv, StoreTypeOK, NoRecord
<1>. HIDE DEF rs
<1>3. \A q \in Packets : records'[q] \in {rs[q], NoRecord}
  BY <1>1, PersistKeepsOrDrops
<1>4. NoRecord.status = "absent" /\ NoRecord.at = 0
  BY DEF NoRecord
<1>5. \A q \in Packets : rs[q].at # 0 /\ records'[q] = NoRecord => records[q].token \in lapsed'
  BY <1>1, <1>4 DEF EvictedBy
<1>6. Stamped'
  BY <1>2, <1>3, <1>4 DEF StoreInv, Stamped
<1>7. HoldsPacket'
  BY <1>1 DEF StoreInv, HoldsPacket
<1>8. NoLiveLeaseTaken'
  <2>. SUFFICES ASSUME NEW v \in Workers, holds[v].token # 0, holds[v].token \notin lapsed'
                PROVE  /\ records'[holds[v].packet].status = "running"
                       /\ records'[holds[v].packet].owner = v
                       /\ records'[holds[v].packet].token = holds[v].token
                       /\ records'[holds[v].packet].live
    BY <1>1 DEF NoLiveLeaseTaken
  <2>1. /\ holds[v].packet \in Packets
        /\ records[holds[v].packet].status = "running"
        /\ records[holds[v].packet].owner = v
        /\ records[holds[v].packet].token = holds[v].token
        /\ records[holds[v].packet].live
    BY <1>1 DEF StoreInv, HoldsPacket, NoLiveLeaseTaken
  <2>2. holds[v].packet # p /\ rs[holds[v].packet] = records[holds[v].packet]
    BY <1>1, <1>2, <2>1
  <2>3. rs[holds[v].packet].at # 0
    BY <2>1, <2>2 DEF StoreInv, Stamped
  <2>4. records'[holds[v].packet] = records[holds[v].packet]
    BY <1>3, <1>5, <2>1, <2>2, <2>3
  <2>. QED  BY <2>1, <2>4
<1>. QED  BY <1>6, <1>7, <1>8 DEF StoreInv

\* Every operation keeps the inductive invariant.
LEMMA InvStep == StoreInv /\ [StoreNext]_storeVars => StoreInv'
<1>. SUFFICES ASSUME StoreInv, [StoreNext]_storeVars
              PROVE  StoreInv'
  OBVIOUS
<1>0. /\ StoreTypeOK'
      /\ records \in [Packets -> PacketRecord] /\ holds \in [Workers -> Lease]
      /\ \A p \in Packets : records[p] \in PacketRecord
  BY TypeStep DEF StoreInv, StoreTypeOK
<1>1. CASE UNCHANGED storeVars
  BY <1>0, <1>1, RewriteSafe DEF storeVars
<1>2. ASSUME NEW p \in Packets, reserveWorkbenchPacket(p)
      PROVE  StoreInv'
  BY <1>0, <1>2, ReserveSafe
<1>3. ASSUME NEW p \in Packets, recoverInterruptedWorkbenchPacket(p)
      PROVE  StoreInv'
  <2>1. CASE records' = records
    BY <1>0, <1>3, <2>1, RewriteSafe DEF recoverInterruptedWorkbenchPacket
  <2>2. CASE records' # records
    <3>1. /\ records' = [records EXCEPT ![p] = clearLease([records[p] EXCEPT !.status = "failed"])]
          /\ records[p].status = "running" /\ holds' = holds
          /\ lapsed' = lapsed \cup {records[p].token}
      BY <1>3, <2>2 DEF recoverInterruptedWorkbenchPacket, Interrupted
    <3>2. /\ \A q \in Packets : q # p => records'[q] = records[q]
          /\ records'[p].at = records[p].at
      BY <1>0, <3>1 DEF clearLease, PacketRecord
    <3>. QED  BY <1>0, <3>1, <3>2, RewriteSafe
  <2>. QED  BY <2>1, <2>2
<1>4. ASSUME NEW p \in Packets, LeaseExpires(p)
      PROVE  StoreInv'
  <2>1. /\ \A q \in Packets : q # p => records'[q] = records[q]
        /\ records'[p].at = records[p].at /\ records'[p].status = records[p].status
        /\ holds' = holds /\ lapsed' = lapsed \cup {records[p].token}
    BY <1>0, <1>4 DEF LeaseExpires, PacketRecord
  <2>. QED  BY <1>0, <2>1, RewriteSafe
<1>5. ASSUME NEW p \in Packets, NEW s \in Statuses, updateWorkbenchPacketStatus(p, s)
      PROVE  StoreInv'
  <2>1. /\ \A q \in Packets : q # p => records'[q] = records[q]
        /\ records'[p].at = records[p].at /\ records[p].status # "absent"
        /\ holds' = holds /\ lapsed' = lapsed \cup {records[p].token}
    BY <1>0, <1>5 DEF updateWorkbenchPacketStatus, PacketRecord
  <2>. QED  BY <1>0, <2>1, RewriteSafe
<1>6. ASSUME NEW w \in Workers, NEW p \in Packets, claimPacket(w, p)
      PROVE  StoreInv'
  BY <1>0, <1>6, GrantSafe, RemindSafe DEF claimPacket
<1>7. ASSUME NEW w \in Workers, NEW scope \in Scopes, claimNextWorkbenchPacket(w, scope)
      PROVE  StoreInv'
  BY <1>0, <1>7, GrantSafe, RemindSafe DEF Scopes, claimNextWorkbenchPacket
<1>8. ASSUME NEW w \in Workers, renewWorkbenchPacketLease(w)
      PROVE  StoreInv'
  <2>. DEFINE p == holds[w].packet
  <2>1. /\ Leased(p, holds[w].token) /\ holds' = holds /\ lapsed' = lapsed
        /\ records' = [records EXCEPT ![p].live = TRUE]
    BY <1>8 DEF renewWorkbenchPacketLease
  <2>2. p \in Packets
    BY <2>1 DEF Leased, StoreInv, HoldsPacket
  <2>3. /\ \A q \in Packets : q # p => records'[q] = records[q]
        /\ records'[p].at = records[p].at /\ records'[p].status = records[p].status
        /\ records'[p].owner = records[p].owner /\ records'[p].token = records[p].token
        /\ records'[p].live
    BY <1>0, <2>1, <2>2 DEF PacketRecord
  <2>4. records[p].live => records'[p].live = records[p].live
    BY <1>0, <2>1, <2>2 DEF PacketRecord
  <2>. QED  BY <1>0, <2>1, <2>2, <2>3, <2>4, RewriteSafe
<1>9. ASSUME NEW w \in Workers, NEW s \in Statuses, releaseWorkbenchPacketLease(w, s)
      PROVE  StoreInv'
  <2>1. Forget(w) /\ lapsed' = lapsed /\ records' = Released(w, s)
    BY <1>9 DEF releaseWorkbenchPacketLease
  <2>2. CASE Leased(holds[w].packet, holds[w].token)
    <3>1. holds[w].packet \in Packets
      BY <2>2 DEF Leased, StoreInv, HoldsPacket
    <3>2. /\ \A q \in Packets : q # holds[w].packet => records'[q] = records[q]
          /\ records'[holds[w].packet].at = records[holds[w].packet].at
      BY <1>0, <2>1, <2>2, <3>1 DEF Released, clearLease, PacketRecord
    <3>. QED  BY <1>0, <2>1, <2>2, <3>2, GiveUpSafe
  <2>3. CASE ~Leased(holds[w].packet, holds[w].token)
    <3>1. records' = records
      BY <2>1, <2>3 DEF Released
    <3>. QED  BY <1>0, <2>1, <3>1, GiveUpSafe
  <2>. QED  BY <2>2, <2>3
<1>10. ASSUME NEW w \in Workers, NEW s \in Statuses, finalizeWorkbenchPacketExecution(w, s)
       PROVE  StoreInv'
  <2>1. Forget(w) /\ lapsed' = lapsed /\ records' = Finalized(w, s)
    BY <1>10 DEF finalizeWorkbenchPacketExecution
  <2>2. CASE Leased(holds[w].packet, holds[w].token)
    <3>1. holds[w].packet \in Packets
      BY <2>2 DEF Leased, StoreInv, HoldsPacket
    <3>2. /\ \A q \in Packets : q # holds[w].packet => records'[q] = records[q]
          /\ records'[holds[w].packet].at = records[holds[w].packet].at
      BY <1>0, <2>1, <2>2, <3>1 DEF Finalized, clearLease, PacketRecord
    <3>. QED  BY <1>0, <2>1, <2>2, <3>2, GiveUpSafe
  <2>3. CASE ~Leased(holds[w].packet, holds[w].token)
    <3>1. records' = records
      BY <2>1, <2>3 DEF Finalized
    <3>. QED  BY <1>0, <2>1, <3>1, GiveUpSafe
  <2>. QED  BY <2>2, <2>3
<1>11. ASSUME NEW r \in Runs, NEW a \in {"pause", "resume", "cancel"}, controlWorkbenchPacketsForRun(r, a)
       PROVE  StoreInv'
  <2>1. /\ holds' = holds /\ lapsed' = lapsed
        /\ \A p \in Packets : records'[p] \in {records[p], ControlledRecord(records[p], a)}
    BY <1>0, <1>11 DEF controlWorkbenchPacketsForRun, Controlled
  <2>2. ASSUME NEW p \in Packets
        PROVE  LET c == ControlledRecord(records[p], a)
               IN  /\ c.at = records[p].at
                   /\ c.status # "absent" => records[p].status # "absent"
                   /\ records[p].status = "running" =>
                         /\ c.status = "running" /\ c.owner = records[p].owner
                         /\ c.token = records[p].token /\ c.live = records[p].live
    BY <1>0 DEF ControlledRecord, clearLease, PacketRecord
  <2>. QED  BY <1>0, <2>1, <2>2, RewriteSafe
<1>12. CASE recoverStaleWorkbenchPacketLeases
  <2>1. /\ holds' = holds /\ lapsed' = lapsed
        /\ \A p \in Packets : records'[p] = Recovered(records[p])
    BY <1>12 DEF recoverStaleWorkbenchPacketLeases
  <2>2. ASSUME NEW p \in Packets
        PROVE  /\ Recovered(records[p]).at = records[p].at
               /\ Recovered(records[p]).status # "absent" => records[p].status # "absent"
               /\ records[p].live => Recovered(records[p]) = records[p]
    BY <1>0 DEF Recovered, clearLease, PacketRecord
  <2>. QED  BY <1>0, <2>1, <2>2, RewriteSafe
<1>13. ASSUME NEW dead \in SUBSET Workers, WorkersDie(dead)
       PROVE  StoreInv'
  <2>1. /\ records' = records /\ lapsed' = lapsed
        /\ \A w \in Workers : holds'[w] = holds[w] \/ holds'[w].token = 0
    BY <1>0, <1>13 DEF WorkersDie, NoLease
  <2>2. Stamped' /\ HoldsPacket'
    BY <2>1 DEF StoreInv, Stamped, HoldsPacket
  <2>3. NoLiveLeaseTaken'
    BY <2>1 DEF StoreInv, NoLiveLeaseTaken
  <2>. QED  BY <1>0, <2>2, <2>3 DEF StoreInv
<1>14. CASE OperatorRemovesLock
  BY <1>0, <1>14, RewriteSafe DEF OperatorRemovesLock
<1>. QED  BY <1>1, <1>2, <1>3, <1>4, <1>5, <1>6, <1>7, <1>8, <1>9, <1>10, <1>11, <1>12,
             <1>13, <1>14 DEF StoreNext

LEMMA InvInit == StoreInit => StoreInv
<1>. SUFFICES ASSUME StoreInit PROVE StoreInv
  OBVIOUS
<1>1. /\ \A p \in Packets : records[p].status = "absent"
      /\ \A w \in Workers : holds[w].token = 0
  BY DEF StoreInit, NoRecord, NoLease
<1>. QED  BY <1>1, TypeInit DEF StoreInv, Stamped, HoldsPacket, NoLiveLeaseTaken

\* No claim, control request, recovery, finalization by another worker or
\* retention trim takes a packet from a worker whose lease has not lapsed.
THEOREM LiveLeaseExclusive == StoreSpec => []NoLiveLeaseTaken
<1>1. StoreInv => NoLiveLeaseTaken
  BY DEF StoreInv
<1>. QED  BY InvInit, InvStep, <1>1, PTL DEF StoreSpec
-----------------------------------------------------------------------------
\* What one step may do to the record of a packet that is executed locally: it
\* keeps the lease and the status "running" together, and a terminal status
\* stays or the record is dropped.
Evolves(p) ==
    /\ (records[p].status = "running" <=> records[p].token # 0)
          => (records[p].status = "running" <=> records[p].token # 0)'
    /\ records[p].status \in Terminal => records'[p].status \in {records[p].status, "absent"}

LEMMA GrantEvolves ==
  ASSUME StoreTypeOK, NEW w \in Workers, NEW p \in Packets, Grant(w, p),
         records[p].status \in {"queued", "running"}
  PROVE  \A q \in Packets : Evolves(q)
<1>1. records[p] \in PacketRecord /\ leaseSeq + 1 # 0
  BY DEF StoreTypeOK
<1>2. /\ records'[p].status = "running" /\ records'[p].token = leaseSeq + 1
      /\ \A q \in Packets : q # p => records'[q] = records[q]
  BY <1>1 DEF StoreTypeOK, Grant, Claimed, PacketRecord
<1>. QED  BY <1>1, <1>2 DEF Evolves, Terminal

\* Every operation moves the record of a locally executed packet this way.
LEMMA RecordsEvolve ==
  StoreInv /\ [StoreNext]_storeVars => \A p \in Packets \ Delegated : Evolves(p)
<1>. SUFFICES ASSUME StoreInv, [StoreNext]_storeVars
              PROVE  \A q \in Packets \ Delegated : Evolves(q)
  OBVIOUS
<1>0. /\ StoreTypeOK
      /\ records \in [Packets -> PacketRecord]
      /\ \A p \in Packets : records[p] \in PacketRecord
  BY DEF StoreInv, StoreTypeOK
<1>1. ASSUME records' = records
      PROVE  \A q \in Packets \ Delegated : Evolves(q)
  BY <1>1 DEF Evolves
<1>2. ASSUME NEW p \in Packets, reserveWorkbenchPacket(p)
      PROVE  \A q \in Packets \ Delegated : Evolves(q)
  <2>. DEFINE rs == [records EXCEPT ![p] = [NoRecord EXCEPT !.status = "queued", !.at = clock + 1]]
  <2>1. records' = persistStore(rs) /\ records[p].status = "absent"
    BY <1>2 DEF reserveWorkbenchPacket
  <2>2. /\ rs[p].status = "queued" /\ rs[p].token = 0
        /\ \A q \in Packets : q # p => rs[q] = records[q]
    BY <1>0 DEF NoRecord
  <2>. HIDE DEF rs
  <2>3. \A q \in Packets : records'[q] \in {rs[q], NoRecord}
    BY <2>1, PersistKeepsOrDrops
  <2>4. NoRecord.status = "absent" /\ NoRecord.token = 0
    BY DEF NoRecord
  <2>. QED  BY <2>1, <2>2, <2>3, <2>4 DEF Evolves, Terminal
<1>3. ASSUME NEW p \in Packets, recoverInterruptedWorkbenchPacket(p), records' # records
      PROVE  \A q \in Packets \ Delegated : Evolves(q)
  <2>1. /\ records' = [records EXCEPT ![p] = clearLease([records[p] EXCEPT !.status = "failed"])]
        /\ records[p].status = "running"
    BY <1>3 DEF recoverInterruptedWorkbenchPacket, Interrupted
  <2>2. /\ \A q \in Packets : q # p => records'[q] = records[q]
        /\ records'[p].status = "failed" /\ records'[p].token = 0
    BY <1>0, <2>1 DEF clearLease, PacketRecord
  <2>. QED  BY <2>1, <2>2 DEF Evolves, Terminal
<1>4. ASSUME NEW p \in Packets, LeaseExpires(p)
      PROVE  \A q \in Packets \ Delegated : Evolves(q)
  <2>1. /\ \A q \in Packets : q # p => records'[q] = records[q]
        /\ records'[p].status = records[p].status /\ records'[p].token = records[p].token
    BY <1>0, <1>4 DEF LeaseExpires, PacketRecord
  <2>. QED  BY <2>1 DEF Evolves
<1>5. ASSUME NEW p \in Packets, NEW s \in Statuses, updateWorkbenchPacketStatus(p, s)
      PROVE  \A q \in Packets \ Delegated : Evolves(q)
  <2>1. p \in Delegated /\ \A q \in Packets : q # p => records'[q] = records[q]
    BY <1>0, <1>5 DEF updateWorkbenchPacketStatus, PacketRecord
  <2>. QED  BY <2>1 DEF Evolves
<1>6. ASSUME NEW w \in Workers, NEW p \in Packets, claimPacket(w, p)
      PROVE  \A q \in Packets \ Delegated : Evolves(q)
  BY <1>0, <1>1, <1>6, GrantEvolves DEF claimPacket, Remind
<1>7. ASSUME NEW w \in Workers, NEW scope \in Scopes, claimNextWorkbenchPacket(w, scope)
      PROVE  \A q \in Packets \ Delegated : Evolves(q)
  BY <1>0, <1>1, <1>7, GrantEvolves DEF Scopes, claimNextWorkbenchPacket, Remind
<1>8. ASSUME NEW w \in Workers, renewWorkbenchPacketLease(w)
      PROVE  \A q \in Packets \ Delegated : Evolves(q)
  <2>1. \A q \in Packets : /\ records'[q].status = records[q].status
                           /\ records'[q].token = records[q].token
    BY <1>0, <1>8 DEF renewWorkbenchPacketLease, PacketRecord
  <2>. QED  BY <2>1 DEF Evolves
<1>9. ASSUME NEW w \in Workers, NEW s \in Statuses, s # "running",
             records' = Released(w, s) \/ records' = Finalized(w, s)
      PROVE  \A q \in Packets \ Delegated : Evolves(q)
  <2>1. CASE Leased(holds[w].packet, holds[w].token)
    <3>1. holds[w].packet \in Packets /\ records[holds[w].packet].status = "running"
      BY <2>1 DEF Leased, StoreInv, HoldsPacket
    <3>2. /\ \A q \in Packets : q # holds[w].packet => records'[q] = records[q]
          /\ records'[holds[w].packet].status = s /\ records'[holds[w].packet].token = 0
      <4>1. CASE records' = Released(w, s)
        BY <1>0, <2>1, <3>1, <4>1 DEF Released, clearLease, PacketRecord
      <4>2. CASE records' = Finalized(w, s)
        BY <1>0, <2>1, <3>1, <4>2 DEF Finalized, clearLease, PacketRecord
      <4>. QED  BY <1>9, <4>1, <4>2
    <3>. QED  BY <1>9, <3>1, <3>2 DEF Evolves, Terminal
  <2>2. CASE ~Leased(holds[w].packet, holds[w].token)
    BY <1>1, <1>9, <2>2 DEF Released, Finalized
  <2>. QED  BY <2>1, <2>2
<1>10. ASSUME NEW r \in Runs, NEW a \in {"pause", "resume", "cancel"}, controlWorkbenchPacketsForRun(r, a)
       PROVE  \A q \in Packets \ Delegated : Evolves(q)
  <2>1. \A q \in Packets : records'[q] \in {records[q], ControlledRecord(records[q], a)}
    BY <1>0, <1>10 DEF controlWorkbenchPacketsForRun, Controlled
  <2>2. ASSUME NEW q \in Packets
        PROVE  LET c == ControlledRecord(records[q], a)
               IN  /\ records[q].status \in Terminal => c = records[q]
                   /\ \/ c.status = records[q].status /\ c.token = records[q].token
                      \/ c.status # "running" /\ c.token = 0
    BY <1>0 DEF ControlledRecord, clearLease, PacketRecord, Terminal
  <2>. QED  BY <2>1, <2>2 DEF Evolves
<1>11. CASE recoverStaleWorkbenchPacketLeases
  <2>1. \A q \in Packets : records'[q] = Recovered(records[q])
    BY <1>11 DEF recoverStaleWorkbenchPacketLeases
  <2>2. ASSUME NEW q \in Packets
        PROVE  LET c == Recovered(records[q])
               IN  \/ c = records[q]
                   \/ records[q].status = "running" /\ c.status # "running" /\ c.token = 0
    BY <1>0 DEF Recovered, clearLease, PacketRecord
  <2>. QED  BY <2>1, <2>2 DEF Evolves, Terminal
<1>12. ASSUME NEW w \in Workers, NEW s \in Statuses,
              releaseWorkbenchPacketLease(w, s) \/ finalizeWorkbenchPacketExecution(w, s)
       PROVE  \A q \in Packets \ Delegated : Evolves(q)
  BY <1>9, <1>12 DEF releaseWorkbenchPacketLease, finalizeWorkbenchPacketExecution
<1>13. CASE \/ UNCHANGED storeVars
            \/ \E dead \in SUBSET Workers : WorkersDie(dead)
            \/ OperatorRemovesLock
  BY <1>1, <1>13 DEF storeVars, WorkersDie, OperatorRemovesLock
<1>. QED  BY <1>1, <1>2, <1>3, <1>4, <1>5, <1>6, <1>7, <1>8, <1>10, <1>11, <1>12, <1>13
          DEF StoreNext, recoverInterruptedWorkbenchPacket

\* A locally executed packet carries a lease exactly while it is running, so
\* stale recovery finds each interrupted packet.
THEOREM LeaseWhileRunning == StoreSpec => []LeaseIffRunning
<1>1. StoreInit => LeaseIffRunning
  BY DEF StoreInit, LeaseIffRunning, NoRecord
<1>2. StoreInv /\ LeaseIffRunning /\ [StoreNext]_storeVars => LeaseIffRunning'
  BY RecordsEvolve DEF LeaseIffRunning, Evolves
<1>. QED  BY InvInit, InvStep, <1>1, <1>2, PTL DEF StoreSpec

\* Late renewals, releases, finalizations, recoveries and control requests never
\* change the terminal status of a locally executed packet.
THEOREM TerminalStatusFinal == StoreSpec => TerminalFinal
<1>1. StoreInv /\ [StoreNext]_storeVars =>
        [\A p \in Packets \ Delegated :
            records[p].status \in Terminal =>
                records'[p].status \in {records[p].status, "absent"}]_storeVars
  BY RecordsEvolve DEF Evolves
<1>. QED  BY InvInit, InvStep, <1>1, PTL DEF StoreSpec, TerminalFinal
=============================================================================
