--------------------------- MODULE AdmissionProofs ---------------------------
(* Theorems about RepositoryScheduler and about Admission, which uses it, for *)
(* any number of commands, requests, sources, sessions, leases and faults.    *)
(* The scheduler: mutations are exclusive and not overtaken, a holder can     *)
(* complete, and the holders implement the lock on sources.  Admission: the   *)
(* scheduler sees only its own operations, the commands implement the lock,   *)
(* the budget's limits hold, and no lease is left behind by a command that    *)
(* ended or a session that was completed.                                     *)
EXTENDS Admission, FiniteSetTheorems, TLAPS

(* The repository scheduler.                                                 *)

\* The store itself never shows a leased mutation beside another lease of its
\* source, live or expired.
LeaseExclusion ==
    \A r \in Mutations : \A q \in SameSource(r) :
        requests[r].status = "leased" /\ requests[q].status = "leased" => q = r

\* The inductive invariant: MutualExclusion speaks of the workers, which act on
\* proofs they remember; HolderCanComplete ties a proof in force to the store,
\* and LeaseExclusion is what the claims keep there.
SchedInv == SchedTypeOK /\ HolderCanComplete /\ LeaseExclusion

-----------------------------------------------------------------------------
\* The states a request may be in.
Status == Finished \cup {"absent", "queued", "leased"}

LEMMA AbsentType == Absent \in Request
  BY DEF Absent, Request

\* Every way out of a lease writes a request.
LEMMA UnleasedType ==
  ASSUME NEW x \in Request, NEW s \in Status
  PROVE  Unleased(x, s) \in Request /\ Unleased(x, s).status = s
  BY DEF Unleased, Request, Status

\* What recovery does to one request: a live lease is left alone, and nothing
\* becomes leased.
LEMMA RecoverOne ==
  ASSUME NEW x \in Request
  PROVE  LET y == TimedOut(Requeued(x))
         IN  /\ y \in Request
             /\ x.status = "leased" /\ x.live => y = x
             /\ y.status = "leased" => y = x
<1>1. Requeued(x) \in Request
  BY UnleasedType DEF Requeued, Status
<1>2. /\ x.status = "leased" /\ x.live => Requeued(x) = x
      /\ Requeued(x).status = "leased" => Requeued(x) = x
  BY UnleasedType DEF Requeued, Status
<1>3. \A z \in Request : /\ TimedOut(z) \in Request
                         /\ z.status = "leased" => TimedOut(z) = z
                         /\ TimedOut(z).status = "leased" => TimedOut(z) = z
  BY DEF TimedOut, Request, Finished
<1>. QED  BY <1>1, <1>2, <1>3

\* What an operation sees: recovery and retention leave a live lease alone, and
\* a request it sees leased is exactly as it was stored.
LEMMA StoreView ==
  ASSUME SchedTypeOK, NEW gone
  PROVE  /\ withStore(gone) \in [Requests -> Request]
         /\ \A r \in Requests :
              /\ requests[r].status = "leased" /\ requests[r].live => withStore(gone)[r] = requests[r]
              /\ withStore(gone)[r].status = "leased" => withStore(gone)[r] = requests[r]
<1>1. \A r \in Requests : requests[r] \in Request
  BY DEF SchedTypeOK
<1>2. \A r \in Requests :
        /\ recoverExpiredLeases[r] \in Request
        /\ requests[r].status = "leased" /\ requests[r].live => recoverExpiredLeases[r] = requests[r]
        /\ recoverExpiredLeases[r].status = "leased" => recoverExpiredLeases[r] = requests[r]
  BY <1>1, RecoverOne DEF recoverExpiredLeases
<1>3. Absent.status = "absent" /\ "leased" \notin Finished
  BY DEF Absent, Finished
<1>. QED  BY <1>2, <1>3, AbsentType DEF withStore

-----------------------------------------------------------------------------
\* A step that hands out no lease is safe if what is leased afterwards was so
\* before, and if every proof in force still names its lease.
LEMMA NoNewLeaseSafe ==
  ASSUME SchedInv, SchedTypeOK',
         \A r \in Requests : requests'[r].status = "leased" => requests[r].status = "leased",
         \A r \in Requests : proofs'[r] \subseteq proofs[r],
         ended \subseteq ended',
         \A r \in Requests : \A proof \in proofs'[r] :
            \/ proof \in ended'
            \/ requests'[r] = requests[r]
            \/ ~(requests[r].status = "leased" /\ requests[r].proof = proof /\ requests[r].live)
  PROVE  SchedInv'
<1>1. HolderCanComplete'
  <2>. SUFFICES ASSUME NEW r \in Requests, NEW proof \in proofs'[r], proof \notin ended'
                PROVE  /\ requests'[r].status = "leased" /\ requests'[r].proof = proof
                       /\ requests'[r].live
    BY DEF HolderCanComplete
  <2>1. /\ requests[r].status = "leased" /\ requests[r].proof = proof /\ requests[r].live
    BY DEF SchedInv, HolderCanComplete
  <2>. QED  BY <2>1
<1>2. LeaseExclusion'
  BY SchedulerAssumption DEF SchedInv, LeaseExclusion, SameSource
<1>. QED  BY <1>1, <1>2 DEF SchedInv

LEMMA EnqueueSafe ==
  ASSUME SchedInv, NEW r \in Requests, NEW gone, enqueueRepositoryWork(r, gone)
  PROVE  SchedInv'
<1>. DEFINE ws == withStore(gone)
            x  == [Absent EXCEPT !.status = "queued", !.at = now]
<1>1. /\ requests' = [ws EXCEPT ![r] = x] /\ ws[r].status = "absent"
      /\ UNCHANGED <<now, cutoff, lastProof, proofs, ended>>
  BY DEF enqueueRepositoryWork
<1>2. x \in Request /\ x.status = "queued"
  BY DEF Absent, Request, SchedInv, SchedTypeOK
<1>3. /\ ws \in [Requests -> Request]
      /\ \A q \in Requests :
           /\ requests[q].status = "leased" /\ requests[q].live => ws[q] = requests[q]
           /\ ws[q].status = "leased" => ws[q] = requests[q]
  BY StoreView DEF SchedInv
<1>. HIDE DEF ws, x
<1>4. SchedTypeOK'
  BY <1>1, <1>2, <1>3 DEF SchedInv, SchedTypeOK
<1>5. /\ requests'[r].status = "queued" /\ \A q \in Requests : q # r => requests'[q] = ws[q]
      /\ ~(requests[r].status = "leased" /\ requests[r].live)
  BY <1>1, <1>2, <1>3
<1>. QED  BY <1>1, <1>3, <1>4, <1>5, NoNewLeaseSafe

LEMMA ClaimSafe ==
  ASSUME SchedInv, NEW r \in Requests, NEW gone, claimRepositoryWork(r, gone)
  PROVE  SchedInv'
<1>. DEFINE ws == withStore(gone)
            x  == [ws[r] EXCEPT !.status = "leased", !.proof = lastProof + 1, !.live = TRUE]
<1>1. /\ requests' = [ws EXCEPT ![r] = x] /\ eligible(ws, r)
      /\ proofs' = [proofs EXCEPT ![r] = @ \cup {lastProof + 1}]
      /\ lastProof' = lastProof + 1
      /\ UNCHANGED <<now, cutoff, ended>>
  BY DEF claimRepositoryWork
<1>2. /\ ws \in [Requests -> Request]
      /\ \A q \in Requests :
           /\ requests[q].status = "leased" /\ requests[q].live => ws[q] = requests[q]
           /\ ws[q].status = "leased" => ws[q] = requests[q]
  BY StoreView DEF SchedInv
<1>3. lastProof + 1 \in Nat
  BY DEF SchedInv, SchedTypeOK
<1>4. x \in Request /\ x.status = "leased" /\ x.proof = lastProof + 1 /\ x.live
  <2>. HIDE DEF ws
  <2>1. ws[r] \in Request
    BY <1>2
  <2>. QED  BY <1>3, <2>1 DEF Request
<1>. HIDE DEF ws, x
<1>5. SchedTypeOK'
  <2>1. requests' \in [Requests -> Request]
    BY <1>1, <1>2, <1>4
  <2>2. proofs' \in [Requests -> SUBSET Nat]
    BY <1>1, <1>3 DEF SchedInv, SchedTypeOK
  <2>. QED  BY <1>1, <1>3, <2>1, <2>2 DEF SchedInv, SchedTypeOK
<1>6. requests'[r] = x /\ \A q \in Requests : q # r => requests'[q] = ws[q]
  BY <1>1, <1>2
<1>7. ws[r].status = "queued" /\ ~(requests[r].status = "leased" /\ requests[r].live)
  BY <1>1, <1>2 DEF eligible, Ahead
<1>8. HolderCanComplete'
  <2>. SUFFICES ASSUME NEW q \in Requests, NEW proof \in proofs'[q], proof \notin ended'
                PROVE  /\ requests'[q].status = "leased" /\ requests'[q].proof = proof
                       /\ requests'[q].live
    BY DEF HolderCanComplete
  <2>1. CASE q = r
    <3>1. proof \notin proofs[r]
      BY <1>1, <1>7, <2>1 DEF SchedInv, HolderCanComplete
    <3>2. proof = lastProof + 1
      BY <1>1, <2>1, <3>1 DEF SchedInv, SchedTypeOK
    <3>. QED  BY <1>4, <1>6, <2>1, <3>2
  <2>2. CASE q # r
    <3>1. proof \in proofs[q] \ ended
      BY <1>1, <2>2 DEF SchedInv, SchedTypeOK
    <3>2. requests[q].status = "leased" /\ requests[q].proof = proof /\ requests[q].live
      BY <3>1 DEF SchedInv, HolderCanComplete
    <3>. QED  BY <1>2, <1>6, <2>2, <3>2
  <2>. QED  BY <2>1, <2>2
<1>9. LeaseExclusion'
  <2>. SUFFICES ASSUME NEW m \in Mutations, NEW q \in SameSource(m), q # m,
                       requests'[m].status = "leased", requests'[q].status = "leased"
                PROVE  FALSE
    BY DEF LeaseExclusion
  <2>0. m \in Requests /\ q \in Requests /\ SourceOf[q] = SourceOf[m]
    BY SchedulerAssumption DEF SameSource
  <2>1. CASE m = r
    <3>1. ws[q].status = "leased" /\ q \in SameSource(r)
      BY <1>6, <2>0, <2>1
    <3>. QED  BY <1>1, <2>1, <3>1 DEF eligible, Ahead
  <2>2. CASE q = r
    <3>1. ws[m].status = "leased" /\ m \in SameSource(r)
      BY <1>6, <2>0, <2>2 DEF SameSource
    <3>. QED  BY <1>1, <3>1 DEF eligible, Ahead
  <2>3. CASE m # r /\ q # r
    <3>1. requests[m].status = "leased" /\ requests[q].status = "leased"
      BY <1>2, <1>6, <2>0, <2>3
    <3>. QED  BY <3>1 DEF SchedInv, LeaseExclusion
  <2>. QED  BY <2>1, <2>2, <2>3
<1>. QED  BY <1>5, <1>8, <1>9 DEF SchedInv

LEMMA CompleteSafe ==
  ASSUME SchedInv, NEW r \in Requests, NEW gone, NEW proof \in proofs[r],
         completeRepositoryWork(r, proof, gone)
  PROVE  SchedInv'
<1>. DEFINE ws == withStore(gone)
<1>1. /\ requests' = [ws EXCEPT ![r] = Unleased(ws[r], "completed")]
      /\ ws[r].status = "leased" /\ ws[r].proof = proof
      /\ proofs' = [proofs EXCEPT ![r] = @ \ {proof}]
      /\ UNCHANGED <<now, cutoff, lastProof, ended>>
  BY DEF completeRepositoryWork
<1>2. /\ ws \in [Requests -> Request]
      /\ \A q \in Requests :
           /\ requests[q].status = "leased" /\ requests[q].live => ws[q] = requests[q]
           /\ ws[q].status = "leased" => ws[q] = requests[q]
  BY StoreView DEF SchedInv
<1>. HIDE DEF ws
<1>3. Unleased(ws[r], "completed") \in Request /\ Unleased(ws[r], "completed").status = "completed"
  BY <1>2, UnleasedType DEF Status, Finished
<1>4. SchedTypeOK'
  <2>1. requests' \in [Requests -> Request]
    BY <1>1, <1>2, <1>3
  <2>2. proofs' \in [Requests -> SUBSET Nat]
    BY <1>1 DEF SchedInv, SchedTypeOK
  <2>. QED  BY <1>1, <2>1, <2>2 DEF SchedInv, SchedTypeOK
<1>5. /\ requests'[r].status = "completed" /\ \A q \in Requests : q # r => requests'[q] = ws[q]
      /\ proofs'[r] = proofs[r] \ {proof} /\ \A q \in Requests : q # r => proofs'[q] = proofs[q]
      /\ requests[r].proof = proof
  BY <1>1, <1>2, <1>3 DEF SchedInv, SchedTypeOK
<1>. QED  BY <1>1, <1>2, <1>4, <1>5, NoNewLeaseSafe

LEMMA CancelSafe ==
  ASSUME SchedInv, NEW which \in SUBSET Requests, NEW gone, cancelRepositoryWork(which, gone)
  PROVE  SchedInv'
<1>. DEFINE ws == withStore(gone)
<1>1. /\ requests' = Cancelled(ws, which)
      /\ ended' = ended \cup {requests[r].proof : r \in which}
      /\ UNCHANGED <<now, cutoff, lastProof, proofs>>
  BY DEF cancelRepositoryWork
<1>2. /\ ws \in [Requests -> Request]
      /\ \A q \in Requests :
           /\ requests[q].status = "leased" /\ requests[q].live => ws[q] = requests[q]
           /\ ws[q].status = "leased" => ws[q] = requests[q]
  BY StoreView DEF SchedInv
<1>. HIDE DEF ws
<1>3. \A q \in Requests : /\ Unleased(ws[q], "cancelled") \in Request
                          /\ Unleased(ws[q], "cancelled").status = "cancelled"
  BY <1>2, UnleasedType DEF Status, Finished
<1>4. \A q \in Requests : \/ requests'[q] = ws[q]
                          \/ q \in which /\ requests'[q] = Unleased(ws[q], "cancelled")
  BY <1>1 DEF Cancelled
<1>5. requests' \in [Requests -> Request]
  BY <1>1, <1>2, <1>3 DEF Cancelled
<1>6. ended' \subseteq Nat /\ ended \subseteq ended' /\ \A q \in which : requests[q].proof \in ended'
  BY <1>1 DEF SchedInv, SchedTypeOK, Request
<1>7. SchedTypeOK'
  BY <1>1, <1>5, <1>6 DEF SchedInv, SchedTypeOK
<1>. QED  BY <1>1, <1>2, <1>3, <1>4, <1>6, <1>7, NoNewLeaseSafe

LEMMA RecoverSafe ==
  ASSUME SchedInv, NEW gone, recoverRepositoryScheduler(gone)
  PROVE  SchedInv'
<1>1. requests' = withStore(gone) /\ UNCHANGED <<now, cutoff, lastProof, proofs, ended>>
  BY DEF recoverRepositoryScheduler
<1>2. /\ requests' \in [Requests -> Request]
      /\ \A q \in Requests :
           /\ requests[q].status = "leased" /\ requests[q].live => requests'[q] = requests[q]
           /\ requests'[q].status = "leased" => requests'[q] = requests[q]
  BY <1>1, StoreView DEF SchedInv
<1>3. SchedTypeOK'
  BY <1>1, <1>2 DEF SchedInv, SchedTypeOK
<1>. QED  BY <1>1, <1>2, <1>3, NoNewLeaseSafe

LEMMA RunsOutSafe ==
  ASSUME SchedInv, NEW r \in Requests, LeaseRunsOut(r)
  PROVE  SchedInv'
<1>1. /\ requests' = [requests EXCEPT ![r] = [requests[r] EXCEPT !.live = FALSE]]
      /\ ended' = ended \cup {requests[r].proof} /\ UNCHANGED <<now, cutoff, lastProof, proofs>>
  BY DEF LeaseRunsOut
<1>2. requests[r] \in Request /\ requests[r].proof \in Nat
  BY DEF SchedInv, SchedTypeOK, Request
<1>3. /\ [requests[r] EXCEPT !.live = FALSE] \in Request
      /\ [requests[r] EXCEPT !.live = FALSE].status = requests[r].status
  BY <1>2 DEF Request
<1>4. SchedTypeOK'
  BY <1>1, <1>2, <1>3 DEF SchedInv, SchedTypeOK
<1>5. /\ requests'[r].status = requests[r].status
      /\ \A q \in Requests : q # r => requests'[q] = requests[q]
  BY <1>1, <1>3 DEF SchedInv, SchedTypeOK
<1>. QED  BY <1>1, <1>4, <1>5, NoNewLeaseSafe

-----------------------------------------------------------------------------
\* Every operation keeps the inductive invariant.
LEMMA SchedStep == SchedInv /\ [SchedNext]_schedVars => SchedInv'
<1>. SUFFICES ASSUME SchedInv, [SchedNext]_schedVars
              PROVE  SchedInv'
  OBVIOUS
<1>1. CASE UNCHANGED schedVars
  BY <1>1 DEF schedVars, SchedInv, SchedTypeOK, HolderCanComplete, LeaseExclusion
<1>2. CASE Tick
  <2>1. UNCHANGED <<requests, lastProof, proofs, ended>> /\ now' \in Nat /\ cutoff' \in Nat
    BY <1>2 DEF Tick, SchedInv, SchedTypeOK
  <2>. QED  BY <2>1 DEF SchedInv, SchedTypeOK, HolderCanComplete, LeaseExclusion
<1>3. ASSUME NEW s \in Sessions, NEW gone \in SUBSET Requests, cancelSessionSchedulerRequests(s, gone)
      PROVE  SchedInv'
  BY <1>3, CancelSafe DEF cancelSessionSchedulerRequests
<1>4. ASSUME NEW r \in Requests, NEW gone \in SUBSET Requests, cancelRepositoryWork({r}, gone)
      PROVE  SchedInv'
  BY <1>4, CancelSafe
<1>. QED  BY <1>1, <1>2, <1>3, <1>4, EnqueueSafe, ClaimSafe, CompleteSafe, RecoverSafe, RunsOutSafe
          DEF SchedNext

LEMMA SchedStart == SchedInit => SchedInv
<1>. SUFFICES ASSUME SchedInit PROVE SchedInv
  OBVIOUS
<1>1. /\ requests \in [Requests -> Request] /\ proofs \in [Requests -> SUBSET Nat]
  BY AbsentType DEF SchedInit
<1>2. now \in Nat /\ cutoff \in Nat /\ lastProof \in Nat /\ ended \subseteq Nat
  BY DEF SchedInit
<1>3. HolderCanComplete
  BY DEF SchedInit, HolderCanComplete
<1>4. LeaseExclusion
  BY SchedulerAssumption DEF SchedInit, LeaseExclusion, Absent
<1>. QED  BY <1>1, <1>2, <1>3, <1>4 DEF SchedInv, SchedTypeOK

\* The store, its clock and its proofs always have their types.
THEOREM SchedTypeCorrect == SchedSpec => []SchedTypeOK
<1>1. SchedInv => SchedTypeOK
  BY DEF SchedInv
<1>. QED  BY SchedStart, SchedStep, <1>1, PTL DEF SchedSpec

\* A worker under a lease that neither expired nor was cancelled can complete it.
THEOREM HolderMayComplete == SchedSpec => []HolderCanComplete
<1>1. SchedInv => HolderCanComplete
  BY DEF SchedInv
<1>. QED  BY SchedStart, SchedStep, <1>1, PTL DEF SchedSpec

\* While a mutation of a source is at work nobody else is at work on the source.
THEOREM MutationsExclusive == SchedSpec => []MutualExclusion
<1>1. SchedInv => MutualExclusion
  <2>. SUFFICES ASSUME SchedInv, NEW r \in Mutations, NEW q \in SameSource(r), Holding(r), Holding(q)
                PROVE  q = r
    BY DEF MutualExclusion
  <2>1. r \in Requests /\ q \in Requests
    BY SchedulerAssumption DEF SameSource
  <2>2. requests[r].status = "leased" /\ requests[q].status = "leased"
    BY <2>1 DEF SchedInv, HolderCanComplete, Holding
  <2>. QED  BY <2>2 DEF SchedInv, LeaseExclusion
<1>. QED  BY SchedStart, SchedStep, <1>1, PTL DEF SchedSpec

\* A step that leases a request is a claim of it.
LEMMA LeasedByClaim ==
  ASSUME SchedInv, [SchedNext]_schedVars, NEW r \in Requests,
         requests[r].status # "leased", requests'[r].status = "leased"
  PROVE  \E gone : claimRepositoryWork(r, gone)
<1>. USE DEF SchedInv
<1>1. ASSUME NEW gone, NEW q \in Requests, enqueueRepositoryWork(q, gone)
      PROVE  FALSE
  BY <1>1, StoreView DEF enqueueRepositoryWork, Absent
<1>2. ASSUME NEW gone, NEW q \in Requests, claimRepositoryWork(q, gone)
      PROVE  q = r
  BY <1>2, StoreView DEF claimRepositoryWork
<1>3. ASSUME NEW gone, NEW q \in Requests, NEW proof, completeRepositoryWork(q, proof, gone)
      PROVE  FALSE
  <2>1. withStore(gone)[q] \in Request
    BY StoreView
  <2>2. Unleased(withStore(gone)[q], "completed").status # "leased"
    BY <2>1, UnleasedType DEF Status, Finished
  <2>. QED  BY <1>3, <2>2, StoreView DEF completeRepositoryWork
<1>4. ASSUME NEW gone, NEW which, cancelRepositoryWork(which, gone)
      PROVE  FALSE
  <2>1. withStore(gone)[r] \in Request
    BY StoreView
  <2>2. Unleased(withStore(gone)[r], "cancelled").status # "leased"
    BY <2>1, UnleasedType DEF Status, Finished
  <2>. QED  BY <1>4, <2>2, StoreView DEF cancelRepositoryWork, Cancelled
<1>5. ASSUME NEW gone, recoverRepositoryScheduler(gone)
      PROVE  FALSE
  BY <1>5, StoreView DEF recoverRepositoryScheduler
<1>6. ASSUME NEW q \in Requests, LeaseRunsOut(q)
      PROVE  FALSE
  BY <1>6 DEF LeaseRunsOut, SchedTypeOK, Request
<1>7. requests' # requests
  OBVIOUS
<1>. QED  BY <1>1, <1>2, <1>3, <1>4, <1>5, <1>6, <1>7
          DEF SchedNext, schedVars, Tick, cancelSessionSchedulerRequests

\* A mutation that keeps waiting is never overtaken by a later request of its
\* source: the only step that leases a request is a claim, and eligible refuses
\* one behind a queued mutation.
THEOREM MutationsNotOvertaken == SchedSpec => NoOvertaking
<1>1. ASSUME SchedInv, [SchedNext]_schedVars, NEW q \in Mutations, NEW r \in SameSource(q) \ {q},
             requests[q].status = "queued", requests'[q].status = "queued",
             requests[r].status # "leased", requests'[r].status = "leased"
      PROVE  Earlier(requests', r, q)
  <2>1. q \in Requests /\ r \in Requests /\ q \in Nat /\ r \in Nat /\ q # r /\ q \in SameSource(r)
    BY SchedulerAssumption DEF SameSource
  <2>2. PICK gone : claimRepositoryWork(r, gone)
    BY <1>1, <2>1, LeasedByClaim
  <2>. DEFINE ws == withStore(gone)
  <2>3. ws \in [Requests -> Request]
    BY <1>1, StoreView DEF SchedInv
  <2>4. /\ eligible(ws, r)
        /\ requests' = [ws EXCEPT ![r] = [ws[r] EXCEPT !.status = "leased", !.proof = lastProof + 1,
                                                       !.live = TRUE]]
    BY <2>2 DEF claimRepositoryWork
  <2>. HIDE DEF ws
  <2>5. requests'[q] = ws[q] /\ requests'[r].at = ws[r].at /\ ws[q].at \in Nat /\ ws[r].at \in Nat
    BY <2>1, <2>3, <2>4 DEF Request
  <2>6. ~Earlier(ws, q, r)
    BY <1>1, <2>1, <2>4, <2>5 DEF eligible, Ahead
  <2>. QED  BY <2>1, <2>5, <2>6 DEF Earlier
<1>2. SchedInv /\ [SchedNext]_schedVars =>
        [\A q \in Mutations : \A r \in SameSource(q) \ {q} :
          /\ requests[q].status = "queued" /\ requests'[q].status = "queued"
          /\ requests[r].status # "leased" /\ requests'[r].status = "leased"
          => Earlier(requests', r, q)]_schedVars
  BY <1>1
<1>. QED  BY SchedStart, SchedStep, <1>2, PTL DEF SchedSpec, NoOvertaking

\* The requests that hold a lease implement the lock on sources.
THEOREM HoldersImplementLock == SchedSpec => SchedImplementsLock
<1>. DEFINE Working == {r \in Requests : Holding(r)}
<1>1. SchedInit => HolderLock!LockInit
  BY DEF SchedInit, HolderLock!LockInit, Holding
<1>2. SchedInv /\ [SchedNext]_schedVars => [HolderLock!LockNext]_Working
  <2>. SUFFICES ASSUME SchedInv, [SchedNext]_schedVars
                PROVE  HolderLock!LockNext
    OBVIOUS
  <2>0. SchedTypeOK /\ proofs \in [Requests -> SUBSET Nat]
    BY DEF SchedInv, SchedTypeOK
  <2>1. ASSUME NEW gone, NEW r \in Requests, claimRepositoryWork(r, gone)
        PROVE  HolderLock!LockNext
    <3>1. /\ eligible(withStore(gone), r) /\ ended' = ended
          /\ \A q \in Requests : proofs'[q] = IF q = r THEN proofs[q] \cup {lastProof + 1} ELSE proofs[q]
      BY <2>0, <2>1 DEF claimRepositoryWork
    <3>2. \A q \in Requests : Holding(q) => Holding(q)' /\ withStore(gone)[q].status = "leased"
      BY <2>0, <3>1, StoreView DEF SchedInv, HolderCanComplete, Holding
    <3>3. \A q \in Requests : q # r => (Holding(q)' <=> Holding(q))
      BY <3>1 DEF Holding
    <3>4. CASE Holding(r)'
      <4>1. Working' = Working \cup {r}
        BY <3>3, <3>4
      <4>2. ASSUME NEW q \in Working
            PROVE  ~HolderLock!Conflict(r, q)
        BY <3>1, <3>2 DEF HolderLock!Conflict, eligible, Ahead, SameSource
      <4>. QED  BY <4>1, <4>2 DEF HolderLock!LockNext, HolderLock!Enter
    <3>5. CASE ~Holding(r)'
      <4>1. Working' \in SUBSET Working
        BY <3>3, <3>5
      <4>. QED  BY <4>1 DEF HolderLock!LockNext, HolderLock!Leave
    <3>. QED  BY <3>4, <3>5
  <2>2. ASSUME \A r \in Requests : proofs'[r] \subseteq proofs[r], ended \subseteq ended'
        PROVE  HolderLock!LockNext
    <3>1. Working' \in SUBSET Working
      BY <2>2 DEF Holding
    <3>. QED  BY <3>1 DEF HolderLock!LockNext, HolderLock!Leave
  <2>3. \/ \E gone : \E r \in Requests : claimRepositoryWork(r, gone)
        \/ (\A r \in Requests : proofs'[r] \subseteq proofs[r]) /\ ended \subseteq ended'
    BY <2>0 DEF SchedNext, schedVars, enqueueRepositoryWork, completeRepositoryWork, cancelRepositoryWork,
                cancelSessionSchedulerRequests, recoverRepositoryScheduler, LeaseRunsOut, Tick
  <2>. QED  BY <2>1, <2>2, <2>3
<1>. QED  BY SchedStart, SchedStep, <1>1, <1>2, PTL DEF SchedSpec, SchedImplementsLock, HolderLock!LockSpec

-----------------------------------------------------------------------------
(* Admission.                                                                 *)

\* The proofs that were issued, and the one a live lease carries.
ProofBook ==
    /\ \A r \in Requests : \A p \in proofs[r] : p # 0 /\ p <= lastProof
    /\ \A r, q \in Requests : \A p \in proofs[r] : p \in proofs[q] => q = r
    /\ \A r \in Requests : requests[r].live =>
          requests[r].status = "leased" /\ requests[r].proof \in proofs[r]

\* Only the worker whose synchronous section runs is between two stages.
LoopOwned == \A w \in Workers : workers[w].stage \in {"idle", "execute"} \/ loop = w

\* A budget lease belongs to the admission that took it.
BudgetOwned ==
    \A w \in Workers : \A r \in Requests :
        budget[r] = w => workers[w].stage # "idle" /\ RequestOf(w) = r

\* A worker's proof was issued for its request, to nobody else, and is not given up
\* before the worker releases it.
WorkerProofs ==
    /\ \A w \in Workers :
          /\ workers[w].proof <= lastProof
          /\ workers[w].proof # 0 \/ workers[w].stage \in {"enqueue", "claim"} => Scheduled(RequestOf(w))
          /\ workers[w].proof # 0 /\ workers[w].stage \in {"execute", "release"}
                => workers[w].proof \in proofs[RequestOf(w)]
    /\ \A v, w \in Workers : workers[v].proof = workers[w].proof /\ workers[w].proof # 0 => v = w

\* A live lease is that of a worker that executes or is about to release it.
LeasesInUse ==
    \A r \in Requests : requests[r].live /\ requests[r].proof \notin orphans =>
        \E w \in Workers : /\ workers[w].stage \in {"execute", "release"}
                           /\ workers[w].proof = requests[r].proof

\* A worker that has not claimed yet belongs to an active session; one that executes
\* under its lease belongs to a completed session only until the leases are taken.
SessionsObeyed ==
    \A w \in Workers :
        LET s == SessionOf[RequestOf(w)]
        IN  /\ workers[w].stage \in {"enqueue", "claim"} => sessions[s] = "active"
            /\ Covered(w) /\ sessions[s] = "completed" =>
                  workers[w].proof \in orphans \/ loop = <<s, "scheduler">>

\* The leases the budget counts.
Counted(which) == {r \in which : budget[r] # None}
SameClass(r) == {q \in Requests : ClassOf(q) = ClassOf(r)}

\* The budget never counts more leases than its limits allow.
WithinBudget ==
    /\ IsFiniteSet(Counted(Requests))
    /\ Cardinality(Counted(Requests)) <= GlobalLimit
    /\ \A r \in Requests : /\ Cardinality(Counted(SameSource(r))) <= SourceLimit
                           /\ Cardinality(Counted(SameClass(r))) <= ClassLimit[ClassOf(r)]

\* The inductive invariant.
AdmissionInv ==
    /\ AdmissionTypeOK /\ SchedInv
    /\ ProofBook /\ LoopOwned /\ BudgetOwned /\ WorkerProofs /\ LeasesInUse /\ SessionsObeyed

-----------------------------------------------------------------------------
(* What the operations of the scheduler do to leases and proofs.             *)

\* A step that hands out no lease: what is live afterwards was so before, and its
\* proof is still remembered.
NoLeaseIssued ==
    /\ lastProof' = lastProof /\ ended \subseteq ended'
    /\ \A q \in Requests : proofs'[q] \subseteq proofs[q]
    /\ \A q \in Requests : requests'[q].live =>
          requests[q].live /\ requests'[q] = requests[q] /\ requests[q].proof \in proofs'[q]

\* Such a step keeps the book of proofs.
LEMMA BookKept ==
  ASSUME ProofBook, NoLeaseIssued
  PROVE  ProofBook'
  BY DEF ProofBook, NoLeaseIssued

\* What an operation sees live is stored so.
LEMMA SeenLive ==
  ASSUME SchedTypeOK, ProofBook, NEW gone, NEW q \in Requests
  PROVE  /\ withStore(gone)[q] \in Request
         /\ withStore(gone)[q].live => requests[q].live
         /\ requests[q].live => withStore(gone)[q] = requests[q]
<1>1. requests[q] \in Request
  BY DEF SchedTypeOK
<1>2. Requeued(requests[q]) \in Request /\ (Requeued(requests[q]).live => requests[q].live)
  <2>1. CASE requests[q].status = "leased" /\ ~requests[q].live
    <3>1. Requeued(requests[q]) = Unleased(requests[q], "queued")
      BY <2>1 DEF Requeued
    <3>2. Unleased(requests[q], "queued") \in Request
      BY <1>1, UnleasedType DEF Status
    <3>3. Unleased(requests[q], "queued").live = FALSE
      BY <1>1 DEF Unleased, Request
    <3>. QED  BY <3>1, <3>2, <3>3
  <2>2. CASE ~(requests[q].status = "leased" /\ ~requests[q].live)
    BY <1>1, <2>2 DEF Requeued
  <2>. QED  BY <2>1, <2>2
<1>3. \A x \in Request : TimedOut(x).live = x.live
  BY DEF TimedOut, Request
<1>4. recoverExpiredLeases[q].live => requests[q].live
  BY <1>2, <1>3 DEF recoverExpiredLeases
<1>5. withStore(gone)[q].live => requests[q].live
  <2>1. Absent.live = FALSE
    BY DEF Absent
  <2>. QED  BY <1>4, <2>1 DEF withStore
<1>. QED  BY <1>5, StoreView DEF ProofBook

LEMMA EnqueueIssuesNone ==
  ASSUME SchedTypeOK, ProofBook, NEW r \in Requests, NEW gone, enqueueRepositoryWork(r, gone)
  PROVE  NoLeaseIssued /\ proofs' = proofs
<1>. DEFINE ws == withStore(gone)
            x  == [Absent EXCEPT !.status = "queued", !.at = now]
<1>1. requests' = [ws EXCEPT ![r] = x] /\ UNCHANGED <<now, cutoff, lastProof, proofs, ended>>
  BY DEF enqueueRepositoryWork
<1>2. x.live = FALSE
  BY DEF Absent
<1>3. ws \in [Requests -> Request] /\ \A q \in Requests : ws[q].live => requests[q].live /\ ws[q] = requests[q]
  BY StoreView, SeenLive
<1>. HIDE DEF ws, x
<1>4. \A q \in Requests : requests'[q].live => q # r /\ requests'[q] = ws[q]
  BY <1>1, <1>2, <1>3
<1>. QED  BY <1>1, <1>3, <1>4 DEF NoLeaseIssued, ProofBook

LEMMA CancelIssuesNone ==
  ASSUME SchedTypeOK, ProofBook, NEW which \in SUBSET Requests, NEW gone,
         cancelRepositoryWork(which, gone)
  PROVE  /\ NoLeaseIssued /\ proofs' = proofs
         /\ \A r \in which : ~requests'[r].live /\ requests[r].proof \in ended'
<1>. DEFINE ws == withStore(gone)
<1>1. /\ requests' = Cancelled(ws, which) /\ ended' = ended \cup {requests[r].proof : r \in which}
      /\ UNCHANGED <<now, cutoff, lastProof, proofs>>
  BY DEF cancelRepositoryWork
<1>2. \A q \in Requests : /\ ws[q] \in Request
                          /\ ws[q].live => requests[q].live /\ ws[q] = requests[q]
                          /\ ws[q].live => ws[q].status = "leased"
  BY SeenLive DEF ProofBook
<1>3. \A x \in Request : Unleased(x, "cancelled").live = FALSE
  BY DEF Unleased, Request
<1>. HIDE DEF ws
<1>4. \A q \in Requests : requests'[q].live => q \notin which /\ requests'[q] = ws[q]
  BY <1>1, <1>2, <1>3 DEF Cancelled
<1>. QED  BY <1>1, <1>2, <1>4 DEF NoLeaseIssued, ProofBook

LEMMA CompleteIssuesNone ==
  ASSUME SchedTypeOK, ProofBook, NEW r \in Requests, NEW p, NEW gone,
         completeRepositoryWork(r, p, gone)
  PROVE  /\ NoLeaseIssued /\ ~requests'[r].live
         /\ p \in proofs[r] /\ proofs' = [proofs EXCEPT ![r] = @ \ {p}]
<1>. DEFINE ws == withStore(gone)
            x  == Unleased(ws[r], "completed")
<1>1. /\ requests' = [ws EXCEPT ![r] = x] /\ p \in proofs[r]
      /\ proofs' = [proofs EXCEPT ![r] = @ \ {p}]
      /\ UNCHANGED <<now, cutoff, lastProof, ended>>
  BY DEF completeRepositoryWork
<1>2. ws \in [Requests -> Request] /\ \A q \in Requests : ws[q].live => requests[q].live /\ ws[q] = requests[q]
  BY StoreView, SeenLive
<1>3. x.live = FALSE
  BY <1>2 DEF Unleased, Request
<1>. HIDE DEF ws, x
<1>4. \A q \in Requests : requests'[q].live => q # r /\ requests'[q] = ws[q]
  BY <1>1, <1>2, <1>3
<1>5. ~requests'[r].live
  BY <1>4
<1>. QED  BY <1>1, <1>2, <1>4, <1>5 DEF NoLeaseIssued, ProofBook, SchedTypeOK

LEMMA RunsOutIssuesNone ==
  ASSUME SchedTypeOK, ProofBook, NEW r \in Requests, LeaseRunsOut(r)
  PROVE  NoLeaseIssued /\ proofs' = proofs
<1>1. \A q \in Requests : requests'[q].live => requests[q].live /\ requests'[q] = requests[q]
  BY DEF LeaseRunsOut, SchedTypeOK, Request
<1>. QED  BY <1>1 DEF LeaseRunsOut, NoLeaseIssued, ProofBook

\* A claim hands out one lease, under the next proof.
LEMMA ClaimIssuesOne ==
  ASSUME SchedTypeOK, ProofBook, NEW r \in Requests, NEW gone, claimRepositoryWork(r, gone)
  PROVE  /\ lastProof' = lastProof + 1 /\ ended' = ended
         /\ proofs' = [proofs EXCEPT ![r] = @ \cup {lastProof + 1}]
         /\ requests'[r].proof = lastProof + 1
         /\ \A q \in Requests : q # r /\ requests'[q].live => requests[q].live /\ requests'[q] = requests[q]
         /\ ProofBook'
<1>. DEFINE ws == withStore(gone)
            x  == [ws[r] EXCEPT !.status = "leased", !.proof = lastProof + 1, !.live = TRUE]
<1>1. /\ requests' = [ws EXCEPT ![r] = x]
      /\ proofs' = [proofs EXCEPT ![r] = @ \cup {lastProof + 1}]
      /\ lastProof' = lastProof + 1 /\ UNCHANGED <<now, cutoff, ended>>
  BY DEF claimRepositoryWork
<1>2. ws \in [Requests -> Request] /\ \A q \in Requests : ws[q].live => requests[q].live /\ ws[q] = requests[q]
  BY StoreView, SeenLive
<1>3. x.status = "leased" /\ x.proof = lastProof + 1
  BY <1>2 DEF Request
<1>. HIDE DEF ws, x
<1>4. \A q \in Requests : requests'[q] = IF q = r THEN x ELSE ws[q]
  BY <1>1, <1>2
<1>5. /\ lastProof \in Nat /\ \A q \in Requests : proofs[q] \subseteq Nat
      /\ \A q \in Requests : proofs'[q] = IF q = r THEN proofs[q] \cup {lastProof + 1} ELSE proofs[q]
  BY <1>1 DEF SchedTypeOK
<1>6. /\ \A q \in Requests : \A p \in proofs'[q] : p # 0 /\ p <= lastProof'
      /\ \A q, t \in Requests : \A p \in proofs'[q] : p \in proofs'[t] => t = q
  BY <1>1, <1>5 DEF ProofBook
<1>7. ASSUME NEW q \in Requests, requests'[q].live
      PROVE  requests'[q].status = "leased" /\ requests'[q].proof \in proofs'[q]
  <2>1. CASE q = r
    BY <1>3, <1>4, <1>5, <2>1
  <2>2. CASE q # r
    <3>1. requests'[q] = ws[q] /\ ws[q].live /\ proofs'[q] = proofs[q]
      BY <1>4, <1>5, <1>7, <2>2
    <3>2. requests[q].live /\ ws[q] = requests[q]
      BY <1>2, <3>1
    <3>. QED  BY <3>1, <3>2 DEF ProofBook
  <2>. QED  BY <2>1, <2>2
<1>. QED  BY <1>1, <1>2, <1>3, <1>4, <1>6, <1>7 DEF ProofBook

-----------------------------------------------------------------------------
(* Types, and the scheduler under admission.                                 *)

LEMMA IdleWorker ==
  Idle \in WorkerState /\ Idle.stage = "idle" /\ Idle.proof = 0
  BY AdmissionAssumption DEF Idle, WorkerState, Stages, Outcomes

\* The ways in which one worker is moved on.
LEMMA WorkerMoves ==
  ASSUME workers \in [Workers -> WorkerState], NEW w \in Workers
  PROVE  /\ workers[w] \in WorkerState /\ RequestOf(w) \in Requests /\ workers[w].proof \in Nat
         /\ \A st \in Stages : [workers[w] EXCEPT !.stage = st] \in WorkerState
         /\ \A st \in Stages, p \in Nat : [workers[w] EXCEPT !.stage = st, !.proof = p] \in WorkerState
         /\ \A st \in Stages, o \in Outcomes :
               [workers[w] EXCEPT !.outcome = o, !.stage = st] \in WorkerState
         /\ \A st \in Stages, r \in Requests : [Idle EXCEPT !.request = r, !.stage = st] \in WorkerState
  BY IdleWorker DEF WorkerState, RequestOf

\* Every step of admission is a step of the scheduler, or leaves it alone.
LEMMA StepSimulatesScheduler ==
  ASSUME AdmissionTypeOK, [AdmissionNext]_allVars
  PROVE  [SchedNext]_schedVars
<1>. DEFINE Allowed == [SchedNext]_schedVars
<1>0. UNCHANGED schedVars => Allowed
  OBVIOUS
<1>1. Retention \subseteq SUBSET Requests
  BY DEF Retention
<1>2. \A w \in Workers : RequestOf(w) \in Requests
  BY WorkerMoves DEF AdmissionTypeOK
<1>3. ASSUME NEW r \in Requests, NEW gone \in Retention
      PROVE  /\ enqueueRepositoryWork(r, gone) => Allowed
             /\ claimRepositoryWork(r, gone) => Allowed
             /\ \A p : completeRepositoryWork(r, p, gone) => Allowed
             /\ cancelRepositoryWork({r}, gone) => Allowed
             /\ cancelOrLeave(r, gone) => Allowed
  BY <1>1 DEF SchedNext, completeRepositoryWork, cancelOrLeave
<1>4. ASSUME NEW w \in Workers, NEW gone \in Retention,
             enqueue(w, gone) \/ claim(w, gone) \/ cancel(w, gone) \/ releaseRepository(w, gone)
      PROVE  Allowed
  BY <1>0, <1>2, <1>3, <1>4 DEF enqueue, claim, cancel, releaseRepository
<1>5. ASSUME NEW s \in Sessions, NEW gone \in Retention, cancelDependents(s, gone)
      PROVE  Allowed
  BY <1>0, <1>1, <1>5 DEF cancelDependents, SchedNext
<1>6. ASSUME NEW r \in Requests, schedulerRunsOut(r)
      PROVE  Allowed
  BY <1>6 DEF schedulerRunsOut, SchedNext
<1>7. clockMoves => Allowed
  BY DEF clockMoves, SchedNext
<1>. QED  BY <1>0, <1>4, <1>5, <1>6, <1>7
          DEF AdmissionNext, acquireWorkbenchBudget, executeEnds, releaseWorkbenchBudget, storeBusy,
              synchronizeWorkbenchRunSession, expireSessionBudgetLeases, pruneWorkbenchSessions,
              restart, budgetRunsOut, allVars

\* The stores, the workers and the event loop keep their types.
LEMMA AdmissionTypeStep ==
  ASSUME AdmissionTypeOK, SchedTypeOK', [AdmissionNext]_allVars
  PROVE  AdmissionTypeOK'
<1>. USE DEF AdmissionTypeOK
<1>0. \A w \in Workers : RequestOf(w) \in Requests
  BY WorkerMoves
<1>1. /\ workers \in [Workers -> WorkerState]
      /\ \A r \in Requests : requests[r].proof \in Nat
      /\ faults \in 0 .. MaxFaults /\ MaxFaults \in Nat /\ lastProof \in Nat
  BY AdmissionAssumption DEF SchedTypeOK, Request
<1>2. Busy => faults' \in 0 .. MaxFaults
  BY <1>1 DEF Busy
<1>3. ASSUME NEW w \in Workers, NEW st \in Stages, GoTo(w, st)
      PROVE  workers' \in [Workers -> WorkerState]
  BY <1>1, <1>3, WorkerMoves DEF GoTo
<1>4. ASSUME NEW w \in Workers, Leaves(w)
      PROVE  workers' \in [Workers -> WorkerState] /\ loop' = None
  BY <1>1, <1>4, IdleWorker DEF Leaves
<1>5. {"enqueue", "claim", "cancel", "execute", "release", "giveBack"} \subseteq Stages
  BY DEF Stages
<1>6. ASSUME NEW w \in Workers, NEW r \in Requests, acquireWorkbenchBudget(w, r)
      PROVE  AdmissionTypeOK'
  <2>1. workers' \in [Workers -> WorkerState]
    BY <1>1, <1>5, <1>6, WorkerMoves DEF acquireWorkbenchBudget
  <2>. QED  BY <1>6, <2>1 DEF acquireWorkbenchBudget
<1>7. ASSUME NEW w \in Workers, NEW gone, enqueue(w, gone) \/ cancel(w, gone) \/ releaseRepository(w, gone)
      PROVE  AdmissionTypeOK'
  <2>1. workers' \in [Workers -> WorkerState]
    BY <1>3, <1>5, <1>7 DEF enqueue, cancel, releaseRepository
  <2>. QED  BY <1>7, <2>1 DEF enqueue, cancel, releaseRepository
<1>8. ASSUME NEW w \in Workers, NEW gone, claim(w, gone)
      PROVE  AdmissionTypeOK'
  <2>1. CASE workers' = [workers EXCEPT ![w].stage = "execute", ![w].proof = lastProof + 1] /\ loop' = None
    <3>1. workers' = [workers EXCEPT ![w] = [workers[w] EXCEPT !.stage = "execute", !.proof = lastProof + 1]]
      BY <1>1, <2>1
    <3>2. lastProof + 1 \in Nat
      BY <1>1
    <3>3. workers' \in [Workers -> WorkerState]
      BY <1>1, <1>5, <3>1, <3>2, WorkerMoves
    <3>. QED  BY <1>8, <2>1, <3>3 DEF claim
  <2>2. CASE GoTo(w, "cancel") /\ UNCHANGED <<schedVars, loop>>
    BY <1>3, <1>5, <1>8, <2>2 DEF claim
  <2>. QED  BY <1>8, <2>1, <2>2 DEF claim
<1>9. ASSUME NEW w \in Workers, NEW outcome \in Outcomes, executeEnds(w, outcome)
      PROVE  AdmissionTypeOK'
  <2>1. workers' \in [Workers -> WorkerState]
    BY <1>1, <1>5, <1>9, WorkerMoves DEF executeEnds
  <2>. QED  BY <1>9, <2>1 DEF executeEnds
<1>10. ASSUME NEW w \in Workers, releaseWorkbenchBudget(w)
       PROVE  AdmissionTypeOK'
  BY <1>4, <1>10 DEF releaseWorkbenchBudget
<1>11. ASSUME NEW w \in Workers, storeBusy(w)
       PROVE  AdmissionTypeOK'
  <2>1. CASE GoTo(w, "giveBack") /\ orphans' = orphans \cup {requests[RequestOf(w)].proof} /\ UNCHANGED <<budget, loop>>
    BY <1>0, <1>1, <1>2, <1>3, <1>5, <1>11, <2>1 DEF storeBusy
  <2>2. CASE GoTo(w, "cancel") /\ UNCHANGED <<budget, loop, orphans>>
    BY <1>2, <1>3, <1>5, <1>11, <2>2 DEF storeBusy
  <2>3. CASE /\ budget' = [budget EXCEPT ![RequestOf(w)] = IF @ = w THEN Lost ELSE @]
             /\ Leaves(w) /\ UNCHANGED orphans
    BY <1>2, <1>4, <1>11, <2>3 DEF storeBusy
  <2>. QED  BY <1>11, <2>1, <2>2, <2>3 DEF storeBusy
<1>12. ASSUME NEW s \in Sessions, NEW status \in RunStatuses, synchronizeWorkbenchRunSession(s, status)
       PROVE  AdmissionTypeOK'
  <2>1. desiredSessionStatus(status) \in SessionStatuses /\ "active" \in SessionStatuses
    BY AdmissionAssumption DEF desiredSessionStatus, SessionStatuses
  <2>2. <<s, "scheduler">> \in Sections
    BY DEF Sections
  <2>. QED  BY <1>12, <2>1, <2>2 DEF synchronizeWorkbenchRunSession
<1>13. ASSUME NEW s \in Sessions, NEW gone, cancelDependents(s, gone)
       PROVE  AdmissionTypeOK'
  <2>1. <<s, "budget">> \in Sections
    BY DEF Sections
  <2>. QED  BY <1>1, <1>2, <1>13, <2>1 DEF cancelDependents, OfSession
<1>14. ASSUME NEW s \in Sessions, expireSessionBudgetLeases(s)
       PROVE  AdmissionTypeOK'
  BY <1>2, <1>14 DEF expireSessionBudgetLeases
<1>15. ASSUME NEW s \in Sessions, pruneWorkbenchSessions(s)
       PROVE  AdmissionTypeOK'
  BY <1>15 DEF pruneWorkbenchSessions, SessionStatuses
<1>16. CASE restart
  BY <1>1, <1>2, <1>16, IdleWorker DEF restart
<1>17. ASSUME NEW r \in Requests, budgetRunsOut(r) \/ schedulerRunsOut(r)
       PROVE  AdmissionTypeOK'
  BY <1>17 DEF budgetRunsOut, schedulerRunsOut
<1>18. CASE clockMoves \/ UNCHANGED allVars
  BY <1>18 DEF clockMoves, allVars
<1>. QED  BY <1>6, <1>7, <1>8, <1>9, <1>10, <1>11, <1>12, <1>13, <1>14, <1>15, <1>16, <1>17, <1>18
          DEF AdmissionNext

\* Whose section runs is never in doubt.
LEMMA LoopValues ==
  /\ \A w \in Workers : w # None /\ w # Lost
  /\ \A s \in Sessions : /\ <<s, "scheduler">> # None /\ <<s, "scheduler">> \notin Workers
                         /\ <<s, "budget">> # None /\ <<s, "budget">> \notin Workers
<1>1. \A s \in Sessions : <<s, "scheduler">> \in Sections /\ <<s, "budget">> \in Sections
  BY DEF Sections
<1>. QED  BY <1>1, AdmissionAssumption

-----------------------------------------------------------------------------
(* The invariant, pattern by pattern.                                        *)

\* A step that only lets leases lapse: no worker, session or section moves.
LEMMA LapseKeepsInv ==
  ASSUME AdmissionInv, AdmissionTypeOK', SchedInv', NoLeaseIssued, proofs' = proofs,
         UNCHANGED <<workers, sessions, loop>>, orphans \subseteq orphans',
         \A r \in Requests : budget'[r] \in {budget[r], None, Lost}
  PROVE  AdmissionInv'
<1>1. ProofBook'
  BY BookKept DEF AdmissionInv
<1>2. LoopOwned'
  BY DEF AdmissionInv, LoopOwned
<1>3. BudgetOwned'
  BY LoopValues DEF AdmissionInv, BudgetOwned, RequestOf
<1>4. WorkerProofs'
  BY DEF AdmissionInv, WorkerProofs, NoLeaseIssued, RequestOf
<1>5. LeasesInUse'
  BY DEF AdmissionInv, LeasesInUse, NoLeaseIssued
<1>6. SessionsObeyed'
  BY DEF AdmissionInv, SessionsObeyed, NoLeaseIssued, Covered, Executing, RequestOf
<1>. QED  BY <1>1, <1>2, <1>3, <1>4, <1>5, <1>6 DEF AdmissionInv

\* A step inside the section of worker w, which keeps its request and its proof.  If it
\* was releasing its lease, the lease is gone, not its own or given up for lost.
LEMMA SectionKeepsInv ==
  ASSUME AdmissionInv, AdmissionTypeOK', SchedInv', NoLeaseIssued,
         NEW w \in Workers, loop = w, loop' = w, UNCHANGED <<sessions, budget>>,
         orphans \subseteq orphans',
         workers[w].stage # "idle",
         workers'[w].stage \in {"claim", "cancel", "giveBack"},
         workers'[w].stage = "claim" => workers[w].stage = "enqueue",
         workers'[w].request = workers[w].request, workers'[w].proof = workers[w].proof,
         \A v \in Workers : v # w => workers'[v] = workers[v],
         \A r \in Requests : \A p \in proofs[r] : p # workers[w].proof => p \in proofs'[r],
         \/ workers[w].stage \notin {"execute", "release"}
         \/ ~requests'[RequestOf(w)].live
         \/ requests[RequestOf(w)].proof \in orphans'
         \/ requests[RequestOf(w)].proof # workers[w].proof
  PROVE  AdmissionInv'
<1>0. /\ AdmissionTypeOK /\ ProofBook /\ LoopOwned /\ BudgetOwned /\ WorkerProofs /\ LeasesInUse
      /\ SessionsObeyed
  BY DEF AdmissionInv
<1>1. ProofBook'
  BY <1>0, BookKept
<1>2. LoopOwned'
  BY <1>0 DEF LoopOwned
<1>3. BudgetOwned'
  BY <1>0 DEF BudgetOwned, RequestOf
<1>4. WorkerProofs'
  <2>1. \A v \in Workers : workers'[v].proof = workers[v].proof /\ workers'[v].request = workers[v].request
    OBVIOUS
  <2>2. ASSUME NEW v \in Workers, workers'[v].proof # 0, workers'[v].stage \in {"execute", "release"}
        PROVE  workers'[v].proof \in proofs'[RequestOf(v)']
    <3>1. v # w /\ RequestOf(v) \in Requests
      BY <2>2, <1>0, WorkerMoves DEF AdmissionTypeOK
    <3>2. workers[v].proof \in proofs[RequestOf(v)] /\ workers[v].proof # workers[w].proof
      BY <1>0, <2>1, <2>2, <3>1 DEF WorkerProofs
    <3>. QED  BY <2>1, <3>1, <3>2 DEF RequestOf
  <2>. QED  BY <1>0, <2>1, <2>2 DEF WorkerProofs, NoLeaseIssued, RequestOf
<1>5. LeasesInUse'
  <2>. SUFFICES ASSUME NEW r \in Requests, requests'[r].live, requests'[r].proof \notin orphans'
                PROVE  \E v \in Workers : /\ workers'[v].stage \in {"execute", "release"}
                                          /\ workers'[v].proof = requests'[r].proof
    BY DEF LeasesInUse
  <2>1. requests[r].live /\ requests'[r] = requests[r] /\ requests[r].proof \notin orphans
    BY DEF NoLeaseIssued
  <2>2. PICK v \in Workers : workers[v].stage \in {"execute", "release"} /\ workers[v].proof = requests[r].proof
    BY <1>0, <2>1 DEF LeasesInUse
  <2>3. v # w
    <3>. SUFFICES ASSUME v = w PROVE FALSE
      OBVIOUS
    <3>1. RequestOf(w) \in Requests
      BY <1>0, WorkerMoves DEF AdmissionTypeOK
    <3>2. requests[r].proof \in proofs[r] /\ requests[r].proof # 0
      BY <1>0, <2>1 DEF ProofBook
    <3>3. requests[r].proof \in proofs[RequestOf(w)]
      BY <1>0, <2>2, <3>2 DEF WorkerProofs
    <3>4. RequestOf(w) = r
      BY <1>0, <3>1, <3>2, <3>3 DEF ProofBook
    <3>. QED  BY <2>1, <2>2, <3>4
  <2>. QED  BY <2>1, <2>2, <2>3
<1>6. SessionsObeyed'
  <2>1. ASSUME NEW v \in Workers, v # w
        PROVE  /\ workers[v].stage \in {"idle", "execute"}
               /\ Covered(v)' => Covered(v)
    BY <1>0, <2>1 DEF LoopOwned, Covered, Executing, NoLeaseIssued
  <2>2. ~Covered(w)'
    BY DEF Covered, Executing
  <2>3. \A s \in Sessions : loop # <<s, "scheduler">>
    BY LoopValues
  <2>4. \A v \in Workers : SessionOf[RequestOf(v)] \in Sessions
    BY <1>0, WorkerMoves, SchedulerAssumption DEF AdmissionTypeOK
  <2>5. \A v \in Workers : RequestOf(v)' = RequestOf(v) /\ workers'[v].proof = workers[v].proof
    BY DEF RequestOf
  <2>6. ASSUME NEW v \in Workers, workers'[v].stage \in {"enqueue", "claim"}
        PROVE  sessions'[SessionOf[RequestOf(v)']] = "active"
    BY <1>0, <2>1, <2>5, <2>6 DEF SessionsObeyed
  <2>7. ASSUME NEW v \in Workers, Covered(v)', sessions'[SessionOf[RequestOf(v)']] = "completed"
        PROVE  workers'[v].proof \in orphans'
    BY <1>0, <2>1, <2>2, <2>3, <2>4, <2>5, <2>7 DEF SessionsObeyed
  <2>. QED  BY <2>6, <2>7 DEF SessionsObeyed
<1>. QED  BY <1>1, <1>2, <1>3, <1>4, <1>5, <1>6 DEF AdmissionInv

\* A step of a session, in its own section or between two sections: no worker moves.
LEMMA SessionKeepsInv ==
  ASSUME AdmissionInv, AdmissionTypeOK', SchedInv', NoLeaseIssued, proofs' = proofs,
         workers' = workers, loop \notin Workers, orphans \subseteq orphans',
         \A r \in Requests : budget'[r] \in {budget[r], None},
         \A w \in Workers : Covered(w)' /\ sessions'[SessionOf[RequestOf(w)]] = "completed" =>
            workers[w].proof \in orphans' \/ loop' = <<SessionOf[RequestOf(w)], "scheduler">>
  PROVE  AdmissionInv'
<1>0. /\ ProofBook /\ LoopOwned /\ BudgetOwned /\ WorkerProofs /\ LeasesInUse
  BY DEF AdmissionInv
<1>1. ProofBook'
  BY <1>0, BookKept
<1>2. \A w \in Workers : workers[w].stage \in {"idle", "execute"}
  BY <1>0 DEF LoopOwned
<1>3. LoopOwned'
  BY <1>2 DEF LoopOwned
<1>4. BudgetOwned'
  BY <1>0, LoopValues DEF BudgetOwned, RequestOf
<1>5. WorkerProofs'
  BY <1>0 DEF WorkerProofs, NoLeaseIssued, RequestOf
<1>6. LeasesInUse'
  BY <1>0 DEF LeasesInUse, NoLeaseIssued
<1>7. SessionsObeyed'
  BY <1>2 DEF SessionsObeyed, RequestOf
<1>. QED  BY <1>1, <1>3, <1>4, <1>5, <1>6, <1>7 DEF AdmissionInv

\* A worker under a lease that it did not lose: the lease is in the store, and live.
LEMMA CoveredHolds ==
  ASSUME AdmissionInv, NEW w \in Workers, Covered(w)
  PROVE  /\ RequestOf(w) \in Requests
         /\ workers[w].proof \in proofs[RequestOf(w)] \ ended
         /\ requests[RequestOf(w)].status = "leased" /\ requests[RequestOf(w)].live
         /\ requests[RequestOf(w)].proof = workers[w].proof
<1>1. RequestOf(w) \in Requests
  BY WorkerMoves DEF AdmissionInv, AdmissionTypeOK
<1>2. workers[w].proof \in proofs[RequestOf(w)] \ ended
  BY DEF Covered, Executing, AdmissionInv, WorkerProofs
<1>. QED  BY <1>1, <1>2 DEF AdmissionInv, SchedInv, HolderCanComplete

-----------------------------------------------------------------------------
(* The invariant, action by action.                                          *)

LEMMA NothingHappened ==
  ASSUME ProofBook, UNCHANGED schedVars
  PROVE  NoLeaseIssued /\ proofs' = proofs
  BY DEF ProofBook, NoLeaseIssued, schedVars

LEMMA AcquireKeepsInv ==
  ASSUME AdmissionInv, AdmissionTypeOK', SchedInv', NEW w \in Workers, NEW r \in Requests,
         acquireWorkbenchBudget(w, r)
  PROVE  AdmissionInv'
<1>0. /\ AdmissionTypeOK /\ ProofBook /\ LoopOwned /\ BudgetOwned /\ WorkerProofs /\ LeasesInUse
      /\ SessionsObeyed
  BY DEF AdmissionInv
<1>. DEFINE st == IF Scheduled(r) THEN "enqueue" ELSE "execute"
            x  == [Idle EXCEPT !.request = r, !.stage = st]
<1>1. /\ loop = None /\ workers[w].stage = "idle" /\ sessions[SessionOf[r]] = "active" /\ budget[r] = None
      /\ budget' = [budget EXCEPT ![r] = w] /\ workers' = [workers EXCEPT ![w] = x]
      /\ loop' = (IF Scheduled(r) THEN w ELSE None)
      /\ UNCHANGED <<schedVars, sessions, faults, orphans>>
  BY DEF acquireWorkbenchBudget, SessionAdmits
<1>2. x.request = r /\ x.stage = st /\ x.proof = 0
  BY DEF Idle
<1>3. workers \in [Workers -> WorkerState] /\ budget \in [Requests -> Workers \cup {None, Lost}]
  BY <1>0 DEF AdmissionTypeOK
<1>. HIDE DEF x
<1>4. workers'[w] = x /\ \A v \in Workers : v # w => workers'[v] = workers[v]
  BY <1>1, <1>3
<1>5. \A v \in Workers : workers[v].stage \in {"idle", "execute"}
  BY <1>0, <1>1, LoopValues DEF LoopOwned
<1>6. NoLeaseIssued /\ proofs' = proofs
  BY <1>0, <1>1, NothingHappened
<1>7. ProofBook'
  BY <1>0, <1>6, BookKept
<1>8. LoopOwned'
  BY <1>1, <1>2, <1>4, <1>5 DEF LoopOwned
<1>9. BudgetOwned'
  <2>. SUFFICES ASSUME NEW v \in Workers, NEW q \in Requests, budget'[q] = v
                PROVE  workers'[v].stage # "idle" /\ workers'[v].request = q
    BY DEF BudgetOwned, RequestOf
  <2>1. CASE q = r
    BY <1>1, <1>2, <1>3, <1>4, <2>1
  <2>2. CASE q # r
    <3>1. budget[q] = v
      BY <1>1, <1>3, <2>2
    <3>2. workers[v].stage # "idle" /\ workers[v].request = q
      BY <1>0, <3>1 DEF BudgetOwned, RequestOf
    <3>. QED  BY <1>1, <1>4, <3>2
  <2>. QED  BY <2>1, <2>2
<1>10. WorkerProofs'
  <2>1. lastProof' = lastProof /\ lastProof \in Nat
    BY <1>0, <1>6 DEF NoLeaseIssued, AdmissionTypeOK, SchedTypeOK
  <2>2. ASSUME NEW v \in Workers
        PROVE  /\ workers'[v].proof <= lastProof'
               /\ workers'[v].proof # 0 \/ workers'[v].stage \in {"enqueue", "claim"} => Scheduled(workers'[v].request)
               /\ workers'[v].proof # 0 /\ workers'[v].stage \in {"execute", "release"}
                     => workers'[v].proof \in proofs'[workers'[v].request]
    <3>1. CASE v = w
      BY <1>2, <1>4, <2>1, <3>1
    <3>2. CASE v # w
      BY <1>0, <1>4, <1>6, <2>1, <3>2 DEF WorkerProofs, RequestOf
    <3>. QED  BY <3>1, <3>2
  <2>3. \A v, u \in Workers : workers'[v].proof = workers'[u].proof /\ workers'[u].proof # 0 => v = u
    BY <1>0, <1>2, <1>4 DEF WorkerProofs
  <2>. QED  BY <2>2, <2>3 DEF WorkerProofs, RequestOf
<1>11. LeasesInUse'
  BY <1>0, <1>1, <1>4, <1>6 DEF LeasesInUse, NoLeaseIssued
<1>12. SessionsObeyed'
  <2>1. ~Covered(w)'
    BY <1>2, <1>4 DEF Covered
  <2>2. \A v \in Workers : Covered(v)' => Covered(v) /\ v # w
    BY <1>4, <1>6, <2>1 DEF Covered, Executing, NoLeaseIssued
  <2>3. \A s \in Sessions : loop # <<s, "scheduler">>
    BY <1>1, LoopValues
  <2>4. \A v \in Workers : SessionOf[RequestOf(v)] \in Sessions
    BY <1>0, WorkerMoves, SchedulerAssumption DEF AdmissionTypeOK
  <2>5. ASSUME NEW v \in Workers, Covered(v)', sessions'[SessionOf[RequestOf(v)']] = "completed"
        PROVE  workers'[v].proof \in orphans'
    BY <1>0, <1>1, <1>4, <2>2, <2>3, <2>4, <2>5 DEF SessionsObeyed, RequestOf
  <2>6. ASSUME NEW v \in Workers, workers'[v].stage \in {"enqueue", "claim"}
        PROVE  sessions'[SessionOf[RequestOf(v)']] = "active"
    BY <1>1, <1>2, <1>4, <1>5, <2>6 DEF RequestOf
  <2>. QED  BY <2>5, <2>6 DEF SessionsObeyed
<1>. QED  BY <1>7, <1>8, <1>9, <1>10, <1>11, <1>12 DEF AdmissionInv

\* A successful claim.
LEMMA ClaimKeepsInv ==
  ASSUME AdmissionInv, AdmissionTypeOK', SchedInv', NEW w \in Workers, NEW gone,
         At(w, "claim"), claimRepositoryWork(RequestOf(w), gone),
         workers'[w].stage = "execute", workers'[w].proof = lastProof + 1,
         workers'[w].request = workers[w].request,
         \A v \in Workers : v # w => workers'[v] = workers[v],
         loop' = None, UNCHANGED <<sessions, budget, faults, orphans>>
  PROVE  AdmissionInv'
<1>0. /\ AdmissionTypeOK /\ ProofBook /\ LoopOwned /\ BudgetOwned /\ WorkerProofs /\ LeasesInUse
      /\ SessionsObeyed /\ SchedTypeOK
  BY DEF AdmissionInv, AdmissionTypeOK
<1>. DEFINE r == RequestOf(w)
<1>1. /\ workers \in [Workers -> WorkerState] /\ workers[w] \in WorkerState /\ r \in Requests
      /\ lastProof \in Nat /\ proofs \in [Requests -> SUBSET Nat]
  BY <1>0, WorkerMoves DEF AdmissionTypeOK, SchedTypeOK
<1>3. workers'[w].request = r /\ workers'[w].stage = "execute" /\ workers'[w].proof = lastProof + 1
  BY DEF RequestOf
<1>4. /\ lastProof' = lastProof + 1 /\ ended' = ended
      /\ proofs' = [proofs EXCEPT ![r] = @ \cup {lastProof + 1}]
      /\ requests'[r].proof = lastProof + 1
      /\ \A q \in Requests : q # r /\ requests'[q].live => requests[q].live /\ requests'[q] = requests[q]
      /\ ProofBook'
  BY <1>0, <1>1, ClaimIssuesOne
<1>5. loop = w /\ workers[w].stage = "claim"
  BY DEF At
<1>6. \A v \in Workers : v # w => workers'[v] = workers[v]
  OBVIOUS
<1>7. \A v \in Workers : v # w => workers[v].stage \in {"idle", "execute"}
  BY <1>0, <1>5 DEF LoopOwned
<1>8. LoopOwned'
  BY <1>3, <1>6, <1>7 DEF LoopOwned
<1>9. BudgetOwned'
  BY <1>0, <1>3, <1>6 DEF BudgetOwned, RequestOf
<1>10. WorkerProofs'
  <2>1. ASSUME NEW v \in Workers
        PROVE  workers[v].proof \in Nat /\ workers[v].proof <= lastProof /\ RequestOf(v) \in Requests
    BY <1>0, <1>1, WorkerMoves DEF WorkerProofs
  <2>2. Scheduled(r)
    BY <1>0, <1>5 DEF WorkerProofs
  <2>3. lastProof + 1 \in proofs'[r] /\ \A q \in Requests : proofs[q] \subseteq proofs'[q]
    BY <1>1, <1>4
  <2>4. ASSUME NEW v \in Workers
        PROVE  /\ workers'[v].proof <= lastProof'
               /\ workers'[v].proof # 0 \/ workers'[v].stage \in {"enqueue", "claim"} => Scheduled(workers'[v].request)
               /\ workers'[v].proof # 0 /\ workers'[v].stage \in {"execute", "release"}
                     => workers'[v].proof \in proofs'[workers'[v].request]
    <3>1. CASE v = w
      BY <1>1, <1>3, <1>4, <1>6, <2>2, <2>3, <3>1
    <3>2. CASE v # w
      <4>1. workers'[v] = workers[v] /\ workers[v].proof <= lastProof + 1
        BY <1>1, <1>6, <2>1, <3>2
      <4>. QED  BY <1>0, <1>4, <2>1, <2>3, <4>1 DEF WorkerProofs, RequestOf
    <3>. QED  BY <3>1, <3>2
  <2>5. ASSUME NEW v \in Workers, NEW u \in Workers, workers'[v].proof = workers'[u].proof, workers'[u].proof # 0
        PROVE  v = u
    <3>1. \A t \in Workers : t # w => workers'[t].proof # lastProof + 1
      BY <1>1, <1>6, <2>1
    <3>. QED  BY <1>0, <1>3, <1>6, <2>5, <3>1 DEF WorkerProofs
  <2>. QED  BY <2>4, <2>5 DEF WorkerProofs, RequestOf
<1>11. LeasesInUse'
  <2>. SUFFICES ASSUME NEW q \in Requests, requests'[q].live, requests'[q].proof \notin orphans'
                PROVE  \E v \in Workers : /\ workers'[v].stage \in {"execute", "release"}
                                          /\ workers'[v].proof = requests'[q].proof
    BY DEF LeasesInUse
  <2>1. CASE q = r
    BY <1>3, <1>4, <1>6, <2>1
  <2>2. CASE q # r
    <3>1. requests[q].live /\ requests'[q] = requests[q] /\ requests[q].proof \notin orphans
      BY <1>4, <2>2
    <3>2. PICK v \in Workers : workers[v].stage \in {"execute", "release"} /\ workers[v].proof = requests[q].proof
      BY <1>0, <3>1 DEF LeasesInUse
    <3>. QED  BY <1>5, <1>6, <3>1, <3>2
  <2>. QED  BY <2>1, <2>2
<1>12. SessionsObeyed'
  <2>1. sessions[SessionOf[r]] = "active"
    BY <1>0, <1>5 DEF SessionsObeyed
  <2>2. RequestOf(w)' = r /\ \A v \in Workers : RequestOf(v)' = RequestOf(v)
    BY <1>3, <1>6 DEF RequestOf
  <2>3. \A s \in Sessions : loop # <<s, "scheduler">>
    BY <1>5, LoopValues
  <2>4. \A v \in Workers : SessionOf[RequestOf(v)] \in Sessions
    BY <1>0, WorkerMoves, SchedulerAssumption DEF AdmissionTypeOK
  <2>5. ASSUME NEW v \in Workers, Covered(v)', sessions'[SessionOf[RequestOf(v)']] = "completed"
        PROVE  workers'[v].proof \in orphans'
    <3>1. v # w
      BY <2>1, <2>2, <2>5
    <3>2. Covered(v)
      BY <1>4, <1>6, <2>5, <3>1 DEF Covered, Executing
    <3>. QED  BY <1>0, <1>6, <2>2, <2>3, <2>4, <2>5, <3>1, <3>2 DEF SessionsObeyed
  <2>6. \A v \in Workers : workers'[v].stage \notin {"enqueue", "claim"}
    BY <1>3, <1>6, <1>7
  <2>. QED  BY <2>5, <2>6 DEF SessionsObeyed
<1>. QED  BY <1>4, <1>8, <1>9, <1>10, <1>11, <1>12 DEF AdmissionInv

\* A step that only moves worker w, between sections or at the end of one, without a
\* new proof: its section begins or ends, and it does not walk away from a live lease.
LEMMA MoveKeepsInv ==
  ASSUME AdmissionInv, AdmissionTypeOK', SchedInv', NEW w \in Workers,
         UNCHANGED <<schedVars, sessions, orphans>>, loop \in {None, w},
         \A v \in Workers : v # w => workers'[v] = workers[v],
         \/ loop' = w
         \/ loop' = None /\ workers'[w].stage = "idle",
         workers'[w].stage \in {"idle", "release", "giveBack"},
         workers'[w].stage = "idle" => workers'[w].proof = 0,
         workers'[w].stage # "idle" => /\ workers'[w].proof = workers[w].proof
                                       /\ workers'[w].request = workers[w].request
                                       /\ workers[w].stage = "execute",
         workers[w].stage \in {"execute", "release"} /\ workers[w].proof # 0
             => workers'[w].stage = "release",
         \A r \in Requests : budget'[r] = budget[r] \/ budget'[r] \in {None, Lost},
         workers'[w].stage = "idle" => \A r \in Requests : budget'[r] # w
  PROVE  AdmissionInv'
<1>0. /\ AdmissionTypeOK /\ ProofBook /\ LoopOwned /\ BudgetOwned /\ WorkerProofs /\ LeasesInUse
      /\ SessionsObeyed
  BY DEF AdmissionInv
<1>1. NoLeaseIssued /\ proofs' = proofs
  BY <1>0, NothingHappened
<1>2. ProofBook'
  BY <1>0, <1>1, BookKept
<1>3. \A v \in Workers : v # w => workers[v].stage \in {"idle", "execute"}
  BY <1>0, LoopValues DEF LoopOwned
<1>4. LoopOwned'
  BY <1>3 DEF LoopOwned
<1>5. BudgetOwned'
  BY <1>0, LoopValues DEF BudgetOwned, RequestOf
<1>6. WorkerProofs'
  <2>1. lastProof' = lastProof /\ lastProof \in Nat
    BY <1>0, <1>1 DEF NoLeaseIssued, AdmissionTypeOK, SchedTypeOK
  <2>2. ASSUME NEW v \in Workers
        PROVE  /\ workers'[v].proof <= lastProof'
               /\ workers'[v].proof # 0 \/ workers'[v].stage \in {"enqueue", "claim"} => Scheduled(workers'[v].request)
               /\ workers'[v].proof # 0 /\ workers'[v].stage \in {"execute", "release"}
                     => workers'[v].proof \in proofs'[workers'[v].request]
    <3>1. CASE v = w /\ workers'[w].stage = "idle"
      BY <2>1, <3>1
    <3>2. CASE v # w \/ workers'[w].stage # "idle"
      BY <1>0, <1>1, <2>1, <3>2 DEF WorkerProofs, RequestOf
    <3>. QED  BY <3>1, <3>2
  <2>3. \A v, u \in Workers : workers'[v].proof = workers'[u].proof /\ workers'[u].proof # 0 => v = u
    BY <1>0 DEF WorkerProofs
  <2>. QED  BY <2>2, <2>3 DEF WorkerProofs, RequestOf
<1>7. LeasesInUse'
  <2>. SUFFICES ASSUME NEW r \in Requests, requests'[r].live, requests'[r].proof \notin orphans'
                PROVE  \E v \in Workers : /\ workers'[v].stage \in {"execute", "release"}
                                          /\ workers'[v].proof = requests'[r].proof
    BY DEF LeasesInUse
  <2>1. requests[r].live /\ requests'[r] = requests[r] /\ requests[r].proof \notin orphans
    BY <1>1 DEF NoLeaseIssued
  <2>2. PICK v \in Workers : workers[v].stage \in {"execute", "release"} /\ workers[v].proof = requests[r].proof
    BY <1>0, <2>1 DEF LeasesInUse
  <2>3. requests[r].proof # 0
    BY <1>0, <2>1 DEF ProofBook
  <2>. QED  BY <2>1, <2>2, <2>3
<1>8. SessionsObeyed'
  <2>1. \A v \in Workers : Covered(v)' => Covered(v) /\ v # w
    BY <1>1 DEF Covered, Executing, NoLeaseIssued
  <2>2. \A s \in Sessions : loop # <<s, "scheduler">>
    BY LoopValues
  <2>3. \A v \in Workers : SessionOf[RequestOf(v)] \in Sessions
    BY <1>0, WorkerMoves, SchedulerAssumption DEF AdmissionTypeOK
  <2>4. ASSUME NEW v \in Workers, Covered(v)', sessions'[SessionOf[RequestOf(v)']] = "completed"
        PROVE  workers'[v].proof \in orphans'
    BY <1>0, <2>1, <2>2, <2>3, <2>4 DEF SessionsObeyed, RequestOf
  <2>5. \A v \in Workers : workers'[v].stage \notin {"enqueue", "claim"}
    BY <1>3
  <2>. QED  BY <2>4, <2>5 DEF SessionsObeyed
<1>. QED  BY <1>2, <1>4, <1>5, <1>6, <1>7, <1>8 DEF AdmissionInv

\* A worker that is sent on to another stage keeps its request and its proof.
LEMMA GoesOn ==
  ASSUME workers \in [Workers -> WorkerState], NEW w \in Workers, NEW st, GoTo(w, st)
  PROVE  /\ workers'[w].stage = st
         /\ workers'[w].request = workers[w].request /\ workers'[w].proof = workers[w].proof
         /\ \A v \in Workers : v # w => workers'[v] = workers[v]
  BY DEF GoTo, WorkerState

\* The steps of a worker inside its section.
LEMMA SectionStep ==
  ASSUME AdmissionInv, AdmissionTypeOK', SchedInv', NEW w \in Workers, NEW gone,
         enqueue(w, gone) \/ cancel(w, gone) \/ releaseRepository(w, gone)
  PROVE  AdmissionInv'
<1>0. AdmissionTypeOK /\ SchedTypeOK /\ ProofBook /\ workers \in [Workers -> WorkerState]
  BY DEF AdmissionInv, AdmissionTypeOK
<1>. DEFINE r == RequestOf(w)
<1>1. r \in Requests /\ proofs \in [Requests -> SUBSET Nat]
  BY <1>0, WorkerMoves DEF SchedTypeOK
<1>2. loop = w /\ loop' = w /\ UNCHANGED <<sessions, budget, orphans>>
  BY DEF enqueue, cancel, releaseRepository, At
<1>3. UNCHANGED schedVars => NoLeaseIssued /\ proofs' = proofs
  BY <1>0, NothingHappened
<1>4. cancelOrLeave(r, gone) =>
        /\ NoLeaseIssued /\ proofs' = proofs
        /\ withStore(gone)[r].status \in {"queued", "leased"} => ~requests'[r].live
  <2>1. cancelRepositoryWork({r}, gone) => NoLeaseIssued /\ proofs' = proofs /\ ~requests'[r].live
    BY <1>0, <1>1, CancelIssuesNone
  <2>. QED  BY <1>3, <2>1 DEF cancelOrLeave
<1>5. withStore(gone)[r].status # "leased" => ~requests[r].live
  BY <1>0, <1>1, StoreView DEF ProofBook
<1>6. requests[r].live /\ NoLeaseIssued => ~requests'[r].live \/ requests'[r] = requests[r]
  BY <1>1 DEF NoLeaseIssued
<1>7. CASE enqueue(w, gone)
  <2>1. workers[w].stage = "enqueue" /\ GoTo(w, "claim")
    BY <1>7 DEF enqueue, At
  <2>2. NoLeaseIssued /\ proofs' = proofs
    BY <1>0, <1>1, <1>3, <1>7, EnqueueIssuesNone DEF enqueue
  <2>. QED  BY <1>0, <1>2, <2>1, <2>2, GoesOn, SectionKeepsInv
<1>8. CASE cancel(w, gone)
  <2>1. workers[w].stage = "cancel" /\ GoTo(w, "giveBack")
    BY <1>8 DEF cancel, At
  <2>2. NoLeaseIssued /\ proofs' = proofs
    BY <1>4, <1>8 DEF cancel
  <2>. QED  BY <1>0, <1>2, <2>1, <2>2, GoesOn, SectionKeepsInv
<1>9. CASE releaseRepository(w, gone)
  <2>1. workers[w].stage = "release" /\ GoTo(w, "giveBack")
    BY <1>9 DEF releaseRepository, At
  <2>2. \/ cancelOrLeave(r, gone)
        \/ completeRepositoryWork(r, workers[w].proof, gone)
        \/ /\ withStore(gone)[r].status = "leased" /\ withStore(gone)[r].proof # workers[w].proof
           /\ UNCHANGED schedVars
    BY <1>9 DEF releaseRepository
  <2>3. CASE cancelOrLeave(r, gone)
    <3>1. NoLeaseIssued /\ proofs' = proofs /\ ~requests'[r].live
      BY <1>1, <1>4, <1>5, <2>3 DEF NoLeaseIssued
    <3>. QED  BY <1>0, <1>2, <2>1, <3>1, GoesOn, SectionKeepsInv
  <2>4. CASE completeRepositoryWork(r, workers[w].proof, gone)
    <3>1. /\ NoLeaseIssued /\ ~requests'[r].live
          /\ proofs' = [proofs EXCEPT ![r] = @ \ {workers[w].proof}]
      BY <1>0, <1>1, <2>4, CompleteIssuesNone
    <3>2. \A q \in Requests : \A p \in proofs[q] : p # workers[w].proof => p \in proofs'[q]
      BY <1>1, <3>1
    <3>. QED  BY <1>0, <1>2, <2>1, <3>1, <3>2, GoesOn, SectionKeepsInv
  <2>5. CASE /\ withStore(gone)[r].status = "leased" /\ withStore(gone)[r].proof # workers[w].proof
             /\ UNCHANGED schedVars
    <3>1. requests[r].proof # workers[w].proof
      BY <1>0, <1>1, <2>5, StoreView
    <3>2. NoLeaseIssued /\ proofs' = proofs
      BY <1>3, <2>5
    <3>. QED  BY <1>0, <1>2, <2>1, <3>1, <3>2, GoesOn, SectionKeepsInv
  <2>. QED  BY <2>2, <2>3, <2>4, <2>5
<1>. QED  BY <1>7, <1>8, <1>9

LEMMA ClaimStep ==
  ASSUME AdmissionInv, AdmissionTypeOK', SchedInv', NEW w \in Workers, NEW gone, claim(w, gone)
  PROVE  AdmissionInv'
<1>0. AdmissionTypeOK /\ ProofBook /\ workers \in [Workers -> WorkerState]
  BY DEF AdmissionInv, AdmissionTypeOK
<1>1. loop = w /\ workers[w].stage = "claim" /\ UNCHANGED <<sessions, budget, faults, orphans>>
  BY DEF claim, At
<1>2. CASE GoTo(w, "cancel") /\ UNCHANGED <<schedVars, loop>>
  <2>1. NoLeaseIssued /\ proofs' = proofs
    BY <1>0, <1>2, NothingHappened
  <2>. QED  BY <1>0, <1>1, <1>2, <2>1, GoesOn, SectionKeepsInv
<1>3. CASE /\ claimRepositoryWork(RequestOf(w), gone)
           /\ workers' = [workers EXCEPT ![w].stage = "execute", ![w].proof = lastProof + 1]
           /\ loop' = None
  <2>1. /\ workers'[w].stage = "execute" /\ workers'[w].proof = lastProof + 1
        /\ workers'[w].request = workers[w].request
        /\ \A v \in Workers : v # w => workers'[v] = workers[v]
    BY <1>0, <1>3 DEF WorkerState
  <2>. QED  BY <1>1, <1>3, <2>1, ClaimKeepsInv DEF At
<1>. QED  BY <1>2, <1>3 DEF claim

\* A command ends, or its admission does.
LEMMA EndStep ==
  ASSUME AdmissionInv, AdmissionTypeOK', SchedInv', NEW w \in Workers,
         (\E outcome \in Outcomes : executeEnds(w, outcome)) \/ releaseWorkbenchBudget(w)
  PROVE  AdmissionInv'
<1>0. /\ AdmissionTypeOK /\ BudgetOwned /\ WorkerProofs
      /\ workers \in [Workers -> WorkerState] /\ budget \in [Requests -> Workers \cup {None, Lost}]
      /\ RequestOf(w) \in Requests
  BY WorkerMoves DEF AdmissionInv, AdmissionTypeOK
<1>1. ASSUME NEW outcome \in Outcomes, executeEnds(w, outcome)
      PROVE  AdmissionInv'
  <2>1. /\ loop = None /\ loop' = w /\ workers[w].stage = "execute"
        /\ UNCHANGED <<schedVars, sessions, budget, faults, orphans>>
    BY <1>1 DEF executeEnds
  <2>2. /\ workers'[w].stage = (IF Scheduled(RequestOf(w)) THEN "release" ELSE "giveBack")
        /\ workers'[w].request = workers[w].request /\ workers'[w].proof = workers[w].proof
        /\ \A v \in Workers : v # w => workers'[v] = workers[v]
    BY <1>0, <1>1 DEF executeEnds, WorkerState
  <2>3. workers[w].proof # 0 => workers'[w].stage = "release"
    BY <1>0, <2>2 DEF WorkerProofs
  <2>. QED  BY <2>1, <2>2, <2>3, MoveKeepsInv
<1>2. CASE releaseWorkbenchBudget(w)
  <2>1. /\ loop = w /\ workers[w].stage = "giveBack" /\ loop' = None
        /\ UNCHANGED <<schedVars, sessions, faults, orphans>>
    BY <1>2 DEF releaseWorkbenchBudget, At, Leaves
  <2>2. workers'[w] = Idle /\ \A v \in Workers : v # w => workers'[v] = workers[v]
    BY <1>0, <1>2 DEF releaseWorkbenchBudget, Leaves
  <2>3. \A q \in Requests : budget'[q] = IF q = RequestOf(w) /\ budget[q] = w THEN None ELSE budget[q]
    BY <1>0, <1>2 DEF releaseWorkbenchBudget
  <2>4. \A q \in Requests : budget'[q] # w /\ (budget'[q] = budget[q] \/ budget'[q] \in {None, Lost})
    BY <1>0, <2>3, LoopValues DEF BudgetOwned
  <2>. QED  BY <2>1, <2>2, <2>4, IdleWorker, MoveKeepsInv
<1>. QED  BY <1>1, <1>2

\* A store is busy: the lease of a release is given up for lost, that of the budget too.
LEMMA BusyStep ==
  ASSUME AdmissionInv, AdmissionTypeOK', SchedInv', NEW w \in Workers, storeBusy(w)
  PROVE  AdmissionInv'
<1>0. /\ AdmissionTypeOK /\ ProofBook /\ BudgetOwned
      /\ workers \in [Workers -> WorkerState] /\ budget \in [Requests -> Workers \cup {None, Lost}]
      /\ RequestOf(w) \in Requests
  BY WorkerMoves DEF AdmissionInv, AdmissionTypeOK
<1>1. loop = w /\ UNCHANGED <<schedVars, sessions>>
  BY DEF storeBusy
<1>2. NoLeaseIssued /\ proofs' = proofs
  BY <1>0, <1>1, NothingHappened
<1>3. CASE /\ workers[w].stage \in {"enqueue", "cancel", "release"} /\ GoTo(w, "giveBack")
           /\ orphans' = orphans \cup {requests[RequestOf(w)].proof} /\ UNCHANGED <<budget, loop>>
  <2>1. workers[w].stage # "idle" /\ orphans \subseteq orphans' /\ requests[RequestOf(w)].proof \in orphans'
    BY <1>3
  <2>. QED  BY <1>0, <1>1, <1>2, <1>3, <2>1, GoesOn, SectionKeepsInv
<1>4. CASE At(w, "claim") /\ GoTo(w, "cancel") /\ UNCHANGED <<budget, loop, orphans>>
  <2>1. workers[w].stage = "claim"
    BY <1>4 DEF At
  <2>. QED  BY <1>0, <1>1, <1>2, <1>4, <2>1, GoesOn, SectionKeepsInv
<1>5. CASE /\ At(w, "giveBack") /\ Leaves(w) /\ UNCHANGED orphans
           /\ budget' = [budget EXCEPT ![RequestOf(w)] = IF @ = w THEN Lost ELSE @]
  <2>1. workers[w].stage = "giveBack" /\ loop' = None
    BY <1>5 DEF At, Leaves
  <2>2. workers'[w] = Idle /\ \A v \in Workers : v # w => workers'[v] = workers[v]
    BY <1>0, <1>5 DEF Leaves
  <2>3. \A q \in Requests : budget'[q] = IF q = RequestOf(w) /\ budget[q] = w THEN Lost ELSE budget[q]
    BY <1>0, <1>5
  <2>4. \A q \in Requests : budget'[q] # w /\ (budget'[q] = budget[q] \/ budget'[q] \in {None, Lost})
    BY <1>0, <2>3, LoopValues DEF BudgetOwned
  <2>. QED  BY <1>1, <1>5, <2>1, <2>2, <2>4, IdleWorker, MoveKeepsInv
<1>. QED  BY <1>3, <1>4, <1>5 DEF storeBusy

\* The steps of a session.
LEMMA SessionStep ==
  ASSUME AdmissionInv, AdmissionTypeOK', SchedInv', NEW s \in Sessions, NEW gone,
         \/ \E status \in RunStatuses : synchronizeWorkbenchRunSession(s, status)
         \/ cancelDependents(s, gone)
         \/ expireSessionBudgetLeases(s)
         \/ pruneWorkbenchSessions(s)
  PROVE  AdmissionInv'
<1>0. /\ AdmissionTypeOK /\ SchedTypeOK /\ ProofBook /\ SessionsObeyed /\ WorkerProofs
      /\ sessions \in [Sessions -> SessionStatuses] /\ budget \in [Requests -> Workers \cup {None, Lost}]
  BY DEF AdmissionInv, AdmissionTypeOK
<1>1. loop \notin Workers /\ workers' = workers /\ (loop = None \/ loop = <<s, "scheduler">> \/ loop = <<s, "budget">>)
  BY LoopValues, AdmissionAssumption
     DEF synchronizeWorkbenchRunSession, cancelDependents, expireSessionBudgetLeases, pruneWorkbenchSessions
<1>2. ASSUME NEW w \in Workers
      PROVE  RequestOf(w) \in Requests /\ SessionOf[RequestOf(w)] \in Sessions
  BY <1>0, WorkerMoves, SchedulerAssumption DEF AdmissionTypeOK
<1>3. UNCHANGED schedVars => NoLeaseIssued /\ proofs' = proofs
  BY <1>0, NothingHappened
<1>4. ASSUME NoLeaseIssued, NEW w \in Workers, Covered(w)'
      PROVE  Covered(w)
  BY <1>1, <1>4 DEF Covered, Executing, NoLeaseIssued
<1>5. ASSUME NEW status \in RunStatuses, synchronizeWorkbenchRunSession(s, status)
      PROVE  AdmissionInv'
  <2>1. /\ loop = None /\ UNCHANGED <<schedVars, budget, workers, faults, orphans>>
        /\ loop' = (IF sessions'[s] = "completed" THEN <<s, "scheduler">> ELSE None)
    BY <1>5 DEF synchronizeWorkbenchRunSession
  <2>2. \A t \in Sessions : t # s => sessions'[t] = sessions[t]
    BY <1>0, <1>5 DEF synchronizeWorkbenchRunSession
  <2>3. NoLeaseIssued /\ proofs' = proofs
    BY <1>3, <2>1
  <2>4. ASSUME NEW w \in Workers, Covered(w)', sessions'[SessionOf[RequestOf(w)]] = "completed"
        PROVE  workers[w].proof \in orphans' \/ loop' = <<SessionOf[RequestOf(w)], "scheduler">>
    <3>1. CASE SessionOf[RequestOf(w)] = s
      BY <2>1, <2>4, <3>1
    <3>2. CASE SessionOf[RequestOf(w)] # s
      <4>1. Covered(w) /\ sessions[SessionOf[RequestOf(w)]] = "completed"
        BY <1>2, <1>4, <2>2, <2>3, <2>4, <3>2
      <4>2. workers[w].proof \in orphans
        BY <1>0, <1>2, <2>1, <4>1, LoopValues DEF SessionsObeyed
      <4>. QED  BY <2>1, <4>2
    <3>. QED  BY <3>1, <3>2
  <2>. QED  BY <1>1, <2>1, <2>3, <2>4, SessionKeepsInv
<1>6. CASE cancelDependents(s, gone)
  <2>1. loop = <<s, "scheduler">> /\ UNCHANGED <<sessions, budget, workers>>
    BY <1>6 DEF cancelDependents
  <2>2. \A t \in Sessions : t # s => loop # <<t, "scheduler">>
    BY <2>1
  <2>3. ASSUME NoLeaseIssued, proofs' = proofs, orphans \subseteq orphans',
               \A w \in Workers : Covered(w)' /\ SessionOf[RequestOf(w)] = s => workers[w].proof \in orphans'
        PROVE  AdmissionInv'
    <3>1. ASSUME NEW w \in Workers, Covered(w)', sessions'[SessionOf[RequestOf(w)]] = "completed"
          PROVE  workers[w].proof \in orphans'
      BY <1>0, <1>2, <1>4, <2>1, <2>2, <2>3, <3>1 DEF SessionsObeyed
    <3>. QED  BY <1>1, <2>1, <2>3, <3>1, SessionKeepsInv
  <2>4. CASE cancelSessionSchedulerRequests(s, gone) /\ UNCHANGED <<faults, orphans>>
    <3>. DEFINE mine == {r \in Requests : SessionOf[r] = s}
    <3>1. /\ NoLeaseIssued /\ proofs' = proofs
          /\ \A r \in mine : ~requests'[r].live /\ requests[r].proof \in ended'
      BY <1>0, <2>4, CancelIssuesNone DEF cancelSessionSchedulerRequests
    <3>2. ASSUME NEW w \in Workers, Covered(w)', SessionOf[RequestOf(w)] = s
          PROVE  FALSE
      <4>1. Covered(w) /\ RequestOf(w) \in mine
        BY <1>2, <1>4, <3>1, <3>2
      <4>2. requests[RequestOf(w)].proof = workers[w].proof
        BY <4>1, CoveredHolds
      <4>3. workers[w].proof \in ended'
        BY <3>1, <4>1, <4>2
      <4>. QED  BY <1>1, <3>2, <4>3 DEF Covered
    <3>. QED  BY <2>3, <2>4, <3>1, <3>2
  <2>5. CASE /\ \A r \in OfSession(s) : withStore(gone)[r].status \notin {"queued", "leased"}
             /\ UNCHANGED <<schedVars, faults, orphans>>
    <3>1. NoLeaseIssued /\ proofs' = proofs
      BY <1>3, <2>5
    <3>2. ASSUME NEW w \in Workers, Covered(w)', SessionOf[RequestOf(w)] = s
          PROVE  FALSE
      <4>1. Covered(w) /\ RequestOf(w) \in OfSession(s)
        BY <1>2, <1>4, <3>1, <3>2 DEF OfSession
      <4>2. withStore(gone)[RequestOf(w)].status = "leased"
        BY <1>0, <4>1, CoveredHolds, StoreView
      <4>. QED  BY <2>5, <4>1, <4>2
    <3>. QED  BY <2>3, <2>5, <3>1, <3>2
  <2>6. CASE Busy /\ orphans' = orphans \cup {requests[r].proof : r \in OfSession(s)} /\ UNCHANGED schedVars
    <3>1. NoLeaseIssued /\ proofs' = proofs
      BY <1>3, <2>6
    <3>2. ASSUME NEW w \in Workers, Covered(w)', SessionOf[RequestOf(w)] = s
          PROVE  workers[w].proof \in orphans'
      <4>1. Covered(w) /\ RequestOf(w) \in OfSession(s)
        BY <1>2, <1>4, <3>1, <3>2 DEF OfSession
      <4>2. requests[RequestOf(w)].proof = workers[w].proof
        BY <4>1, CoveredHolds
      <4>. QED  BY <2>6, <4>1, <4>2
    <3>. QED  BY <2>3, <2>6, <3>1, <3>2
  <2>. QED  BY <1>6, <2>4, <2>5, <2>6 DEF cancelDependents
<1>7. CASE expireSessionBudgetLeases(s)
  <2>1. loop = <<s, "budget">> /\ UNCHANGED <<schedVars, sessions, workers, orphans>>
    BY <1>7 DEF expireSessionBudgetLeases
  <2>2. \A t \in Sessions : loop # <<t, "scheduler">>
    BY <2>1
  <2>3. NoLeaseIssued /\ proofs' = proofs
    BY <1>3, <2>1
  <2>4. \A r \in Requests : budget'[r] \in {budget[r], None}
    BY <1>7 DEF expireSessionBudgetLeases
  <2>5. ASSUME NEW w \in Workers, Covered(w)', sessions'[SessionOf[RequestOf(w)]] = "completed"
        PROVE  workers[w].proof \in orphans'
    BY <1>0, <1>2, <1>4, <2>1, <2>2, <2>3, <2>5 DEF SessionsObeyed
  <2>. QED  BY <1>1, <2>1, <2>3, <2>4, <2>5, SessionKeepsInv
<1>8. CASE pruneWorkbenchSessions(s)
  <2>1. /\ loop = None /\ UNCHANGED <<schedVars, budget, workers, loop, faults, orphans>>
        /\ sessions' = [sessions EXCEPT ![s] = "absent"]
    BY <1>8 DEF pruneWorkbenchSessions
  <2>2. \A t \in Sessions : sessions'[t] = "completed" => sessions[t] = "completed"
    BY <1>0, <2>1
  <2>3. NoLeaseIssued /\ proofs' = proofs
    BY <1>3, <2>1
  <2>4. ASSUME NEW w \in Workers, Covered(w)', sessions'[SessionOf[RequestOf(w)]] = "completed"
        PROVE  workers[w].proof \in orphans'
    BY <1>0, <1>2, <1>4, <2>1, <2>2, <2>3, <2>4, LoopValues DEF SessionsObeyed
  <2>. QED  BY <1>1, <2>1, <2>3, <2>4, SessionKeepsInv
<1>. QED  BY <1>5, <1>6, <1>7, <1>8

\* After the process died every worker is gone and every lease is given up for lost.
LEMMA RestartStep ==
  ASSUME AdmissionInv, AdmissionTypeOK', SchedInv', restart
  PROVE  AdmissionInv'
<1>0. ProofBook /\ AdmissionTypeOK /\ SchedTypeOK
  BY DEF AdmissionInv, AdmissionTypeOK
<1>1. /\ \A w \in Workers : workers'[w] = Idle
      /\ \A r \in Requests : budget'[r] \in {None, Lost} /\ requests[r].proof \in orphans'
      /\ UNCHANGED <<schedVars, sessions>>
  BY DEF restart
<1>2. NoLeaseIssued /\ requests' = requests
  BY <1>0, <1>1, NothingHappened DEF schedVars
<1>3. ProofBook'
  BY <1>0, <1>2, BookKept
<1>4. LoopOwned'
  BY <1>1, IdleWorker DEF LoopOwned
<1>5. BudgetOwned'
  BY <1>1, LoopValues DEF BudgetOwned
<1>6. WorkerProofs'
  <2>1. lastProof' \in Nat
    BY <1>0, <1>2 DEF SchedTypeOK, NoLeaseIssued
  <2>. QED  BY <1>1, <2>1, IdleWorker DEF WorkerProofs
<1>7. LeasesInUse'
  BY <1>1, <1>2 DEF LeasesInUse
<1>8. SessionsObeyed'
  BY <1>1, IdleWorker DEF SessionsObeyed, Covered, Executing
<1>. QED  BY <1>3, <1>4, <1>5, <1>6, <1>7, <1>8 DEF AdmissionInv

\* Leases run out, the clock moves, nothing happens.
LEMMA LapseStep ==
  ASSUME AdmissionInv, AdmissionTypeOK', SchedInv',
         \/ \E r \in Requests : budgetRunsOut(r) \/ schedulerRunsOut(r)
         \/ clockMoves
         \/ UNCHANGED allVars
  PROVE  AdmissionInv'
<1>0. SchedTypeOK /\ ProofBook /\ budget \in [Requests -> Workers \cup {None, Lost}]
  BY DEF AdmissionInv, AdmissionTypeOK
<1>1. ASSUME NEW r \in Requests, budgetRunsOut(r)
      PROVE  AdmissionInv'
  <2>1. /\ UNCHANGED <<schedVars, sessions, workers, loop, orphans>>
        /\ \A q \in Requests : budget'[q] \in {budget[q], None}
    BY <1>0, <1>1 DEF budgetRunsOut
  <2>2. NoLeaseIssued /\ proofs' = proofs
    BY <1>0, <2>1, NothingHappened
  <2>. QED  BY <2>1, <2>2, LapseKeepsInv
<1>2. ASSUME NEW r \in Requests, schedulerRunsOut(r)
      PROVE  AdmissionInv'
  <2>1. UNCHANGED <<sessions, budget, workers, loop, orphans>> /\ LeaseRunsOut(r)
    BY <1>2 DEF schedulerRunsOut
  <2>2. NoLeaseIssued /\ proofs' = proofs
    BY <1>0, <2>1, RunsOutIssuesNone
  <2>. QED  BY <2>1, <2>2, LapseKeepsInv
<1>3. CASE clockMoves \/ UNCHANGED allVars
  <2>1. UNCHANGED <<sessions, budget, workers, loop, orphans, requests, lastProof, proofs, ended>>
    BY <1>3 DEF clockMoves, Tick, allVars, schedVars
  <2>2. NoLeaseIssued
    BY <1>0, <2>1 DEF NoLeaseIssued, ProofBook
  <2>. QED  BY <2>1, <2>2, LapseKeepsInv
<1>. QED  BY <1>1, <1>2, <1>3

LEMMA AdmissionStart == AdmissionInit => AdmissionInv
<1>. SUFFICES ASSUME AdmissionInit PROVE AdmissionInv
  OBVIOUS
<1>1. SchedInv /\ SchedTypeOK
  BY SchedStart DEF AdmissionInit, SchedInv
<1>2. /\ \A w \in Workers : workers[w] = Idle
      /\ \A r \in Requests : budget[r] = None
      /\ loop = None /\ faults = 0 /\ orphans = {} /\ lastProof = 0
  BY DEF AdmissionInit, SchedInit
<1>3. AdmissionTypeOK
  BY <1>1, IdleWorker, AdmissionAssumption DEF AdmissionInit, AdmissionTypeOK, SessionStatuses
<1>4. ProofBook
  BY DEF AdmissionInit, SchedInit, ProofBook, Absent
<1>5. LoopOwned /\ BudgetOwned /\ WorkerProofs
  BY <1>2, IdleWorker, LoopValues DEF LoopOwned, BudgetOwned, WorkerProofs
<1>6. LeasesInUse
  BY DEF LeasesInUse, AdmissionInit, SchedInit, Absent
<1>7. SessionsObeyed
  BY <1>2, IdleWorker DEF SessionsObeyed, Covered, Executing
<1>. QED  BY <1>1, <1>3, <1>4, <1>5, <1>6, <1>7 DEF AdmissionInv

LEMMA AdmissionStep == AdmissionInv /\ [AdmissionNext]_allVars => AdmissionInv'
<1>. SUFFICES ASSUME AdmissionInv, [AdmissionNext]_allVars PROVE AdmissionInv'
  OBVIOUS
<1>1. SchedInv' /\ SchedTypeOK'
  BY StepSimulatesScheduler, SchedStep DEF AdmissionInv, SchedInv
<1>2. AdmissionTypeOK'
  BY <1>1, AdmissionTypeStep DEF AdmissionInv
<1>. QED  BY <1>1, <1>2, AcquireKeepsInv, SectionStep, ClaimStep, EndStep, BusyStep, SessionStep, RestartStep, LapseStep
          DEF AdmissionNext

-----------------------------------------------------------------------------
(* What is proved of every behaviour.                                        *)

\* The stores, the workers and the event loop keep their types.
THEOREM AdmissionTypeCorrect == AdmissionSpec => []AdmissionTypeOK
<1>1. AdmissionInv => AdmissionTypeOK
  BY DEF AdmissionInv
<1>. QED  BY AdmissionStart, AdmissionStep, <1>1, PTL DEF AdmissionSpec

\* Admission drives the scheduler through its own operations only: retries under one
\* identity, cancellations without a proof, busy stores and restarts included, the
\* scheduler behaves as its specification says.
THEOREM AdmissionUsesScheduler == AdmissionSpec => SchedSpec
<1>1. AdmissionInit => SchedInit
  BY DEF AdmissionInit
<1>2. AdmissionInv /\ [AdmissionNext]_allVars => [SchedNext]_schedVars
  BY StepSimulatesScheduler DEF AdmissionInv
<1>. QED  BY AdmissionStart, AdmissionStep, <1>1, <1>2, PTL DEF AdmissionSpec, SchedSpec

\* What the scheduler guarantees it guarantees to the commands: a mutation at work is
\* alone on its source, a holder can complete, a waiting mutation is not overtaken.
COROLLARY AdmittedMutationsExclusive == AdmissionSpec => []MutualExclusion
  BY AdmissionUsesScheduler, MutationsExclusive

\* A command whose lease neither expired nor was cancelled can complete its request.
COROLLARY AdmittedHolderMayComplete == AdmissionSpec => []HolderCanComplete
  BY AdmissionUsesScheduler, HolderMayComplete

\* No command overtakes a mutation that waits for its source.
COROLLARY AdmittedMutationsNotOvertaken == AdmissionSpec => NoOvertaking
  BY AdmissionUsesScheduler, MutationsNotOvertaken

\* Between two sections every lease in force belongs to a command that runs, unless
\* the process died or a store was busy.
THEOREM LeasesGivenBack == AdmissionSpec => []NothingLeaked
<1>1. AdmissionInv => NothingLeaked
  <2>. SUFFICES ASSUME AdmissionInv, loop = None
                PROVE  /\ \A r \in Requests : budget[r] \notin {None, Lost} =>
                             Executing(budget[r]) /\ RequestOf(budget[r]) = r
                       /\ \A r \in Requests : requests[r].live /\ requests[r].proof \notin orphans =>
                             \E w \in Workers : Executing(w) /\ workers[w].proof = requests[r].proof
    BY DEF NothingLeaked
  <2>1. \A w \in Workers : workers[w].stage \in {"idle", "execute"}
    BY LoopValues DEF AdmissionInv, LoopOwned
  <2>2. ASSUME NEW r \in Requests, budget[r] \notin {None, Lost}
        PROVE  Executing(budget[r]) /\ RequestOf(budget[r]) = r
    <3>1. budget[r] \in Workers
      BY <2>2 DEF AdmissionInv, AdmissionTypeOK
    <3>. QED  BY <2>1, <3>1 DEF AdmissionInv, BudgetOwned, Executing
  <2>3. ASSUME NEW r \in Requests, requests[r].live, requests[r].proof \notin orphans
        PROVE  \E w \in Workers : Executing(w) /\ workers[w].proof = requests[r].proof
    BY <2>1, <2>3 DEF AdmissionInv, LeasesInUse, Executing
  <2>. QED  BY <2>2, <2>3
<1>. QED  BY AdmissionStart, AdmissionStep, <1>1, PTL DEF AdmissionSpec

\* No command runs under a repository lease of a completed session, unless the
\* scheduler was busy when the leases were to be taken away.
THEOREM CompletedSessionsQuiet == AdmissionSpec => []CompletedSessionQuiet
<1>1. AdmissionInv => CompletedSessionQuiet
  <2>. SUFFICES ASSUME AdmissionInv, loop = None, NEW w \in Workers, Covered(w),
                       sessions[SessionOf[RequestOf(w)]] = "completed"
                PROVE  workers[w].proof \in orphans
    BY DEF CompletedSessionQuiet
  <2>1. SessionOf[RequestOf(w)] \in Sessions
    BY WorkerMoves, SchedulerAssumption DEF AdmissionInv, AdmissionTypeOK
  <2>. QED  BY <2>1, LoopValues DEF AdmissionInv, SessionsObeyed
<1>. QED  BY AdmissionStart, AdmissionStep, <1>1, PTL DEF AdmissionSpec

-----------------------------------------------------------------------------
(* The limits of the budget.                                                 *)

\* Giving leases back cannot exceed a limit.
LEMMA FewerCounted ==
  ASSUME WithinBudget, AdmissionTypeOK,
         \A r \in Requests : budget[r] = None => budget'[r] = None
  PROVE  WithinBudget'
<1>1. ASSUME NEW which \in SUBSET Requests
      PROVE  /\ IsFiniteSet(Counted(which)) /\ Cardinality(Counted(which)) \in Nat
             /\ IsFiniteSet(Counted(which)') /\ Cardinality(Counted(which)') \in Nat
             /\ Cardinality(Counted(which)') <= Cardinality(Counted(which))
  <2>1. Counted(which) \in SUBSET Counted(Requests)
    BY DEF Counted
  <2>2. IsFiniteSet(Counted(which))
    BY <2>1, FS_Subset DEF WithinBudget
  <2>3. Counted(which)' \in SUBSET Counted(which)
    BY DEF Counted
  <2>4. IsFiniteSet(Counted(which)') /\ Cardinality(Counted(which)') <= Cardinality(Counted(which))
    BY <2>2, <2>3, FS_Subset
  <2>. QED  BY <2>2, <2>4, FS_CardinalityType
<1>2. GlobalLimit \in Nat /\ SourceLimit \in Nat /\ \A r \in Requests : ClassLimit[ClassOf(r)] \in Nat
  <2>1. \A r \in Requests : ClassOf(r) \in Classes
    BY AdmissionAssumption DEF ClassOf, workerClass, Classes, Operations
  <2>. QED  BY <2>1, AdmissionAssumption
<1>3. IsFiniteSet(Counted(Requests)') /\ Cardinality(Counted(Requests)') <= GlobalLimit
  BY <1>1, <1>2 DEF WithinBudget
<1>4. ASSUME NEW r \in Requests
      PROVE  /\ Cardinality(Counted(SameSource(r))') <= SourceLimit
             /\ Cardinality(Counted(SameClass(r))') <= ClassLimit[ClassOf(r)]
  <2>1. SameSource(r) \in SUBSET Requests /\ SameClass(r) \in SUBSET Requests
    BY DEF SameSource, SameClass
  <2>. QED  BY <1>1, <1>2, <2>1 DEF WithinBudget
<1>. QED  BY <1>3, <1>4 DEF WithinBudget

\* One lease is added only where the limits have room.
LEMMA OneMoreCounted ==
  ASSUME WithinBudget, AdmissionTypeOK, NEW w \in Workers, NEW r \in Requests, acquireWorkbenchBudget(w, r)
  PROVE  WithinBudget'
<1>1. withinLimits(r) /\ budget' = [budget EXCEPT ![r] = w] /\ budget \in [Requests -> Workers \cup {None, Lost}]
  BY DEF acquireWorkbenchBudget, AdmissionTypeOK
<1>2. GlobalLimit \in Nat /\ SourceLimit \in Nat /\ \A q \in Requests : ClassLimit[ClassOf(q)] \in Nat
  <2>1. \A q \in Requests : ClassOf(q) \in Classes
    BY AdmissionAssumption DEF ClassOf, workerClass, Classes, Operations
  <2>. QED  BY <2>1, AdmissionAssumption
<1>3. ASSUME NEW which \in SUBSET Requests
      PROVE  /\ IsFiniteSet(Counted(which)') /\ Cardinality(Counted(which)) \in Nat
             /\ Cardinality(Counted(which)') <= Cardinality(Counted(which)) + 1
             /\ r \notin which => Counted(which)' = Counted(which)
  <2>1. Counted(which) \in SUBSET Counted(Requests)
    BY DEF Counted
  <2>2. IsFiniteSet(Counted(which))
    BY <2>1, FS_Subset DEF WithinBudget
  <2>3. Counted(which)' \in SUBSET (Counted(which) \cup {r}) /\ (r \notin which => Counted(which)' = Counted(which))
    BY <1>1 DEF Counted
  <2>4. /\ IsFiniteSet(Counted(which) \cup {r}) /\ Cardinality(Counted(which)) \in Nat
        /\ Cardinality(Counted(which) \cup {r}) <= Cardinality(Counted(which)) + 1
        /\ Cardinality(Counted(which) \cup {r}) \in Nat
    <3>1. IsFiniteSet(Counted(which) \cup {r})
      BY <2>2, FS_AddElement
    <3>2. Cardinality(Counted(which)) \in Nat /\ Cardinality(Counted(which) \cup {r}) \in Nat
      BY <2>2, <3>1, FS_CardinalityType
    <3>3. Cardinality(Counted(which) \cup {r})
             = IF r \in Counted(which) THEN Cardinality(Counted(which)) ELSE Cardinality(Counted(which)) + 1
      BY <2>2, FS_AddElement
    <3>. QED  BY <3>1, <3>2, <3>3
  <2>5. /\ IsFiniteSet(Counted(which)') /\ Cardinality(Counted(which)') <= Cardinality(Counted(which) \cup {r})
    BY <2>3, <2>4, FS_Subset
  <2>6. Cardinality(Counted(which)') \in Nat
    BY <2>5, FS_CardinalityType
  <2>. QED  BY <2>3, <2>4, <2>5, <2>6
<1>4. \A which \in SUBSET Requests : Cardinality(Counted(which)') \in Nat
  BY <1>3, FS_CardinalityType
<1>5. /\ Cardinality(Counted(Requests)) < GlobalLimit
      /\ Cardinality(Counted(SameSource(r))) < SourceLimit
      /\ Cardinality(Counted(SameClass(r))) < ClassLimit[ClassOf(r)]
  BY <1>1 DEF withinLimits, activeCost, Counted, SameClass
<1>6. IsFiniteSet(Counted(Requests)') /\ Cardinality(Counted(Requests)') <= GlobalLimit
  BY <1>2, <1>3, <1>4, <1>5
<1>7. ASSUME NEW q \in Requests
      PROVE  Cardinality(Counted(SameSource(q))') <= SourceLimit
  <2>1. SameSource(q) \in SUBSET Requests /\ (r \in SameSource(q) => SameSource(q) = SameSource(r))
    BY DEF SameSource
  <2>2. CASE r \in SameSource(q)
    BY <1>2, <1>3, <1>4, <1>5, <2>1, <2>2
  <2>3. CASE r \notin SameSource(q)
    BY <1>3, <2>1, <2>3 DEF WithinBudget
  <2>. QED  BY <2>2, <2>3
<1>8. ASSUME NEW q \in Requests
      PROVE  Cardinality(Counted(SameClass(q))') <= ClassLimit[ClassOf(q)]
  <2>1. SameClass(q) \in SUBSET Requests /\ (r \in SameClass(q) => SameClass(q) = SameClass(r) /\ ClassOf(q) = ClassOf(r))
    BY DEF SameClass
  <2>2. CASE r \in SameClass(q)
    BY <1>2, <1>3, <1>4, <1>5, <2>1, <2>2
  <2>3. CASE r \notin SameClass(q)
    BY <1>3, <2>1, <2>3 DEF WithinBudget
  <2>. QED  BY <2>2, <2>3
<1>. QED  BY <1>6, <1>7, <1>8 DEF WithinBudget

LEMMA BudgetStep == WithinBudget /\ AdmissionTypeOK /\ [AdmissionNext]_allVars => WithinBudget'
<1>. SUFFICES ASSUME WithinBudget, AdmissionTypeOK, [AdmissionNext]_allVars PROVE WithinBudget'
  OBVIOUS
<1>0. budget \in [Requests -> Workers \cup {None, Lost}] /\ \A w \in Workers : RequestOf(w) \in Requests
  BY WorkerMoves DEF AdmissionTypeOK
<1>1. ASSUME NEW w \in Workers, NEW r \in Requests, acquireWorkbenchBudget(w, r)
      PROVE  WithinBudget'
  BY <1>1, OneMoreCounted
<1>. DEFINE Fewer == \A r \in Requests : budget[r] = None => budget'[r] = None
<1>2. UNCHANGED budget => Fewer
  OBVIOUS
<1>3. ASSUME NEW w \in Workers, releaseWorkbenchBudget(w) \/ storeBusy(w)
      PROVE  Fewer
  BY <1>0, <1>2, <1>3, LoopValues DEF releaseWorkbenchBudget, storeBusy
<1>4. ASSUME NEW s \in Sessions, expireSessionBudgetLeases(s)
      PROVE  Fewer
  BY <1>2, <1>4 DEF expireSessionBudgetLeases
<1>5. ASSUME NEW r \in Requests, budgetRunsOut(r)
      PROVE  Fewer
  BY <1>0, <1>5 DEF budgetRunsOut
<1>6. restart => Fewer
  BY DEF restart
<1>7. \/ Fewer
      \/ \E w \in Workers : \E r \in Requests : acquireWorkbenchBudget(w, r)
  BY <1>2, <1>3, <1>4, <1>5, <1>6
     DEF AdmissionNext, enqueue, claim, cancel, releaseRepository, executeEnds,
         synchronizeWorkbenchRunSession, cancelDependents, pruneWorkbenchSessions,
         schedulerRunsOut, clockMoves, allVars
<1>. QED  BY <1>1, <1>7, FewerCounted

\* Of the commands that run under a budget lease, no more run at once than the limits
\* allow in total, on a source and in a class.
THEOREM LimitsRespected == AdmissionSpec => []BudgetRespected
<1>1. AdmissionInit => WithinBudget
  <2>. SUFFICES ASSUME AdmissionInit PROVE WithinBudget
    OBVIOUS
  <2>1. \A which \in SUBSET Requests : Counted(which) = {}
    BY DEF AdmissionInit, Counted
  <2>2. \A r \in Requests : SameSource(r) \in SUBSET Requests /\ SameClass(r) \in SUBSET Requests
    BY DEF SameSource, SameClass
  <2>3. \A r \in Requests : ClassOf(r) \in Classes
    BY AdmissionAssumption DEF ClassOf, workerClass, Classes, Operations
  <2>4. 0 <= GlobalLimit /\ 0 <= SourceLimit /\ \A r \in Requests : 0 <= ClassLimit[ClassOf(r)]
    BY <2>3, AdmissionAssumption
  <2>5. /\ Counted(Requests) = {}
        /\ \A r \in Requests : Counted(SameSource(r)) = {} /\ Counted(SameClass(r)) = {}
    BY <2>1, <2>2
  <2>6. IsFiniteSet({}) /\ Cardinality({}) = 0
    BY FS_EmptySet
  <2>. QED  BY <2>4, <2>5, <2>6 DEF WithinBudget
<1>2. WithinBudget /\ AdmissionInv => BudgetRespected
  <2>. SUFFICES ASSUME WithinBudget, AdmissionInv PROVE BudgetRespected
    OBVIOUS
  <2>. DEFINE running == {RequestOf(w) : w \in {v \in Workers : Executing(v) /\ budget[RequestOf(v)] = v}}
  <2>1. running \in SUBSET Counted(Requests)
    <3>1. \A w \in Workers : RequestOf(w) \in Requests
      BY WorkerMoves DEF AdmissionInv, AdmissionTypeOK
    <3>. QED  BY <3>1, LoopValues DEF Counted
  <2>. HIDE DEF running
  <2>2. GlobalLimit \in Nat /\ SourceLimit \in Nat /\ \A r \in Requests : ClassLimit[ClassOf(r)] \in Nat
    <3>1. \A r \in Requests : ClassOf(r) \in Classes
      BY AdmissionAssumption DEF ClassOf, workerClass, Classes, Operations
    <3>. QED  BY <3>1, AdmissionAssumption
  <2>3. ASSUME NEW which \in SUBSET Counted(Requests), NEW some \in SUBSET which
        PROVE  Cardinality(some) \in Nat /\ Cardinality(which) \in Nat /\ Cardinality(some) <= Cardinality(which)
    <3>1. IsFiniteSet(which)
      BY FS_Subset DEF WithinBudget
    <3>2. IsFiniteSet(some) /\ Cardinality(some) <= Cardinality(which)
      BY <3>1, FS_Subset
    <3>. QED  BY <3>1, <3>2, FS_CardinalityType
  <2>4. Cardinality(running) <= GlobalLimit
    BY <2>1, <2>2, <2>3 DEF WithinBudget
  <2>5. ASSUME NEW r \in running
        PROVE  /\ Cardinality(running \cap SameSource(r)) <= SourceLimit
               /\ Cardinality({q \in running : ClassOf(q) = ClassOf(r)}) <= ClassLimit[ClassOf(r)]
    <3>. DEFINE classmates == {q \in running : ClassOf(q) = ClassOf(r)}
    <3>1. /\ r \in Requests
          /\ Counted(SameSource(r)) \in SUBSET Counted(Requests)
          /\ Counted(SameClass(r)) \in SUBSET Counted(Requests)
          /\ running \cap SameSource(r) \in SUBSET Counted(SameSource(r))
          /\ classmates \in SUBSET Counted(SameClass(r))
      BY <2>1 DEF Counted, SameSource, SameClass
    <3>. HIDE DEF classmates
    <3>2. Cardinality(running \cap SameSource(r)) <= SourceLimit /\ Cardinality(classmates) <= ClassLimit[ClassOf(r)]
      BY <2>2, <2>3, <3>1 DEF WithinBudget
    <3>. QED  BY <3>2 DEF classmates
  <2>. QED  BY <2>4, <2>5 DEF BudgetRespected, running
<1>3. AdmissionInv => AdmissionTypeOK
  BY DEF AdmissionInv
<1>. QED  BY AdmissionStart, AdmissionStep, BudgetStep, <1>1, <1>2, <1>3, PTL DEF AdmissionSpec

-----------------------------------------------------------------------------
(* Commands implement the lock on sources.                                   *)

\* A lease that ended stays ended.
LEMMA EndedStays ==
  ASSUME [SchedNext]_schedVars
  PROVE  ended \subseteq ended'
  BY DEF SchedNext, schedVars, enqueueRepositoryWork, claimRepositoryWork, completeRepositoryWork,
         cancelRepositoryWork, cancelSessionSchedulerRequests, recoverRepositoryScheduler, LeaseRunsOut, Tick

\* Who runs under its lease after a step did so before, or has just claimed it.
LEMMA CoveredByClaim ==
  ASSUME AdmissionInv, [AdmissionNext]_allVars, NEW w \in Workers, Covered(w)'
  PROVE  \/ Covered(w) /\ workers'[w].request = workers[w].request
         \/ \E gone : /\ At(w, "claim") /\ claimRepositoryWork(RequestOf(w), gone)
                      /\ workers' = [workers EXCEPT ![w].stage = "execute", ![w].proof = lastProof + 1]
<1>0. workers \in [Workers -> WorkerState] /\ lastProof \in Nat
  BY DEF AdmissionInv, AdmissionTypeOK, SchedTypeOK
<1>1. /\ ended \subseteq ended'
      /\ workers'[w].stage = "execute" /\ workers'[w].proof \in Nat \ {0} /\ workers'[w].proof \notin ended'
  BY StepSimulatesScheduler, EndedStays DEF AdmissionInv, Covered, Executing
<1>. DEFINE Same == workers'[w] = workers[w]
<1>2. Same => Covered(w) /\ workers'[w].request = workers[w].request
  BY <1>1 DEF Covered, Executing
<1>3. ASSUME NEW v \in Workers, NEW r \in Requests, acquireWorkbenchBudget(v, r)
      PROVE  Same
  <2>. DEFINE x == [Idle EXCEPT !.request = r, !.stage = IF Scheduled(r) THEN "enqueue" ELSE "execute"]
  <2>1. workers' = [workers EXCEPT ![v] = x] /\ x.proof = 0
    BY <1>3 DEF acquireWorkbenchBudget, Idle
  <2>. QED  BY <1>0, <1>1, <2>1
<1>4. ASSUME NEW v \in Workers, NEW st \in {"claim", "cancel", "giveBack"}, GoTo(v, st)
      PROVE  Same
  BY <1>0, <1>1, <1>4, GoesOn
<1>5. ASSUME NEW v \in Workers, NEW gone, enqueue(v, gone) \/ cancel(v, gone) \/ releaseRepository(v, gone)
      PROVE  Same
  BY <1>4, <1>5 DEF enqueue, cancel, releaseRepository
<1>6. ASSUME NEW v \in Workers, Leaves(v)
      PROVE  Same
  BY <1>0, <1>1, <1>6, IdleWorker DEF Leaves
<1>7. ASSUME NEW v \in Workers, releaseWorkbenchBudget(v) \/ storeBusy(v)
      PROVE  Same
  BY <1>4, <1>6, <1>7 DEF releaseWorkbenchBudget, storeBusy
<1>8. ASSUME NEW v \in Workers, NEW outcome \in Outcomes, executeEnds(v, outcome)
      PROVE  Same
  <2>1. workers'[v].stage \in {"release", "giveBack"} /\ \A u \in Workers : u # v => workers'[u] = workers[u]
    BY <1>0, <1>8 DEF executeEnds, WorkerState
  <2>. QED  BY <1>1, <2>1
<1>9. ASSUME NEW v \in Workers, NEW gone, claim(v, gone)
      PROVE  \/ Same
             \/ /\ At(w, "claim") /\ claimRepositoryWork(RequestOf(w), gone)
                /\ workers' = [workers EXCEPT ![w].stage = "execute", ![w].proof = lastProof + 1]
  <2>1. CASE GoTo(v, "cancel")
    BY <1>4, <2>1
  <2>2. CASE /\ claimRepositoryWork(RequestOf(v), gone)
             /\ workers' = [workers EXCEPT ![v].stage = "execute", ![v].proof = lastProof + 1]
    <3>1. v # w => Same
      BY <1>0, <2>2
    <3>. QED  BY <1>9, <2>2, <3>1 DEF claim
  <2>. QED  BY <1>9, <2>1, <2>2 DEF claim
<1>10. restart => Same
  BY <1>1, IdleWorker DEF restart
<1>11. \/ Same
       \/ \E gone : /\ At(w, "claim") /\ claimRepositoryWork(RequestOf(w), gone)
                    /\ workers' = [workers EXCEPT ![w].stage = "execute", ![w].proof = lastProof + 1]
  BY <1>3, <1>5, <1>7, <1>8, <1>9, <1>10
     DEF AdmissionNext, synchronizeWorkbenchRunSession, cancelDependents, expireSessionBudgetLeases,
         pruneWorkbenchSessions, budgetRunsOut, schedulerRunsOut, clockMoves, allVars
<1>. QED  BY <1>2, <1>11

\* Commands under a lease that was not lost implement the lock on sources.
THEOREM CommandsImplementLock == AdmissionSpec => ImplementsLock
<1>. DEFINE Working == {RequestOf(w) : w \in {v \in Workers : Covered(v)}}
<1>1. AdmissionInit => CommandLock!LockInit
  <2>. SUFFICES ASSUME AdmissionInit PROVE Working = {}
    BY DEF CommandLock!LockInit
  <2>1. \A w \in Workers : workers[w] = Idle
    BY DEF AdmissionInit
  <2>. QED  BY <2>1, IdleWorker DEF Covered, Executing
<1>2. AdmissionInv /\ [AdmissionNext]_allVars => [CommandLock!LockNext]_Working
  <2>. SUFFICES ASSUME AdmissionInv, [AdmissionNext]_allVars
                PROVE  CommandLock!LockNext
    OBVIOUS
  <2>0. workers \in [Workers -> WorkerState] /\ SchedTypeOK
    BY DEF AdmissionInv, AdmissionTypeOK
  <2>. DEFINE Claims(w, gone) ==
                /\ At(w, "claim") /\ claimRepositoryWork(RequestOf(w), gone)
                /\ workers' = [workers EXCEPT ![w].stage = "execute", ![w].proof = lastProof + 1]
  <2>1. CASE \A w \in Workers : Covered(w)' => Covered(w) /\ workers'[w].request = workers[w].request
    <3>1. Working' \in SUBSET Working
      BY <2>1 DEF RequestOf
    <3>. QED  BY <3>1 DEF CommandLock!LockNext, CommandLock!Leave
  <2>2. ASSUME NEW w \in Workers, NEW gone, Covered(w)', Claims(w, gone)
        PROVE  CommandLock!LockNext
    <3>. DEFINE r == RequestOf(w)
    <3>1. r \in Requests
      BY <2>0, WorkerMoves
    <3>2. \A v \in Workers : v # w => workers'[v] = workers[v]
      BY <2>0, <2>2
    <3>3. ended' = ended /\ eligible(withStore(gone), r) /\ workers[w].stage = "claim"
      BY <2>2 DEF claimRepositoryWork, At
    <3>4. workers'[w].request = workers[w].request
      BY <2>0, <2>2 DEF WorkerState
    <3>5. ~Covered(w) /\ \A v \in Workers : v # w => (Covered(v)' <=> Covered(v))
      BY <3>2, <3>3 DEF Covered, Executing
    <3>6. Working' = Working \cup {r}
      BY <2>2, <3>2, <3>4, <3>5 DEF RequestOf
    <3>7. ASSUME NEW q \in Working
          PROVE  ~CommandLock!Conflict(r, q)
      <4>1. PICK v \in Workers : Covered(v) /\ q = RequestOf(v)
        OBVIOUS
      <4>2. q \in Requests /\ withStore(gone)[q].status = "leased"
        BY <2>0, <4>1, CoveredHolds, StoreView
      <4>3. SourceOf[r] = SourceOf[q] => q \in SameSource(r)
        BY <4>2 DEF SameSource
      <4>. QED  BY <3>3, <4>2, <4>3 DEF CommandLock!Conflict, eligible, Ahead
    <3>. QED  BY <3>1, <3>6, <3>7 DEF CommandLock!LockNext, CommandLock!Enter
  <2>. QED  BY <2>1, <2>2, CoveredByClaim
<1>. QED  BY AdmissionStart, AdmissionStep, <1>1, <1>2, PTL DEF AdmissionSpec, ImplementsLock, CommandLock!LockSpec
=============================================================================
