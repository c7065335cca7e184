------------------------ MODULE IndexFreshnessProofs ------------------------
(* Theorems about MaintenanceScheduler and about IndexFreshness, which runs  *)
(* its builds on it, for any sources, limits, failures, edits and crashes:    *)
(* no more jobs than allowed, no idle slot, and no source that is shown as    *)
(* being indexed and is not.                                                  *)
EXTENDS IndexFreshness, FiniteSetTheorems, TLAPS

(* The maintenance scheduler.                                                *)

\* A source waits at most once.
QueuedOnce ==
    \A i, j \in 1 .. Len(queued) : queued[i] = queued[j] => i = j

\* The inductive invariant.  The limit counts the drains on the event loop with the jobs
\* that run; NoIdleSlot alone is not kept by a drain, which uses a slot and itself up.
MaintInv ==
    /\ MaintTypeOK
    /\ IsFiniteSet(active)
    /\ QueuedOnce
    /\ \A i \in 1 .. Len(queued) : queued[i] \notin active
    /\ Len(queued) <= MaxQueue
    /\ Cardinality(active) + scheduledDrains <= MaxConcurrent
    /\ NoIdleSlot

-----------------------------------------------------------------------------
\* The larger and the smaller of two numbers.
LEMMA MaxOfTwo ==
  ASSUME NEW a \in Int, NEW b \in Int
  PROVE  Max({a, b}) = IF a >= b THEN a ELSE b
<1>1. \E x \in {a, b} : \A y \in {a, b} : x >= y
  OBVIOUS
<1>. QED  BY <1>1 DEF Max

LEMMA MinOfTwo ==
  ASSUME NEW a \in Int, NEW b \in Int
  PROVE  Min({a, b}) = IF a <= b THEN a ELSE b
<1>1. \E x \in {a, b} : \A y \in {a, b} : x <= y
  OBVIOUS
<1>. QED  BY <1>1 DEF Min

\* What schedule leaves pending: no drain is taken back, the limit is kept, and there is a drain
\* for every free slot that has a job.
LEMMA ScheduleFills ==
  ASSUME NEW drains \in Nat, NEW waits, Len(waits) \in Nat, NEW running, Cardinality(running) \in Nat,
         Cardinality(running) + drains <= MaxConcurrent
  PROVE  LET after == schedule(drains, waits, running)
         IN  /\ after \in Nat
             /\ Cardinality(running) + after <= MaxConcurrent
             /\ after >= Min({MaxConcurrent - Cardinality(running), Len(waits)})
<1>. DEFINE m == Min({MaxConcurrent - Cardinality(running), Len(waits)})
<1>1. /\ m \in Nat
      /\ m <= MaxConcurrent - Cardinality(running)
  BY MaintenanceAssumption, MinOfTwo
<1>. HIDE DEF m
<1>2. Max({drains, m}) = IF drains >= m THEN drains ELSE m
  BY <1>1, MaxOfTwo
<1>3. schedule(drains, waits, running) = Max({drains, m})
  BY DEF schedule, m
<1>. QED  BY <1>1, <1>2, <1>3, MaintenanceAssumption DEF m

\* Two sequences, one after the other.
LEMMA ConcatEntries ==
  ASSUME NEW S, NEW a \in Seq(S), NEW b \in Seq(S)
  PROVE  /\ a \o b \in Seq(S) /\ Len(a \o b) = Len(a) + Len(b)
         /\ \A k \in 1 .. Len(a) + Len(b) : (a \o b)[k] = IF k <= Len(a) THEN a[k] ELSE b[k - Len(a)]
  OBVIOUS

\* A queue that loses one of its entries keeps the others, each where it was or one place
\* further to the front.
LEMMA RemoveAtEntries ==
  ASSUME NEW S, NEW q \in Seq(S), NEW i \in 1 .. Len(q)
  PROVE  /\ RemoveAt(q, i) \in Seq(S)
         /\ Len(RemoveAt(q, i)) = Len(q) - 1
         /\ \A k \in 1 .. Len(q) - 1 : RemoveAt(q, i)[k] = IF k < i THEN q[k] ELSE q[k + 1]
<1>. DEFINE a == SubSeq(q, 1, i - 1)
            b == SubSeq(q, i + 1, Len(q))
<1>1. a \in Seq(S) /\ Len(a) = i - 1 /\ \A k \in 1 .. i - 1 : a[k] = q[k]
  OBVIOUS
<1>2. b \in Seq(S) /\ Len(b) = Len(q) - i /\ \A k \in 1 .. Len(q) - i : b[k] = q[i + k]
  OBVIOUS
<1>3. RemoveAt(q, i) = a \o b
  BY DEF RemoveAt
<1>. HIDE DEF a, b
<1>4. /\ a \o b \in Seq(S) /\ Len(a \o b) = Len(q) - 1
      /\ \A k \in 1 .. Len(q) - 1 : (a \o b)[k] = IF k < i THEN a[k] ELSE b[k - (i - 1)]
  <2>1. /\ a \o b \in Seq(S) /\ Len(a \o b) = Len(a) + Len(b)
        /\ \A k \in 1 .. Len(a) + Len(b) : (a \o b)[k] = IF k <= Len(a) THEN a[k] ELSE b[k - Len(a)]
    BY <1>1, <1>2, ConcatEntries
  <2>2. Len(a) = i - 1 /\ Len(a) + Len(b) = Len(q) - 1 /\ \A k \in Int : k <= i - 1 <=> k < i
    BY <1>1, <1>2
  <2>. QED  BY <2>1, <2>2
<1>5. \A k \in 1 .. Len(q) - 1 : (a \o b)[k] = IF k < i THEN q[k] ELSE q[k + 1]
  <2>1. TAKE k \in 1 .. Len(q) - 1
  <2>2. CASE k < i
    BY <1>1, <1>4, <2>2
  <2>3. CASE ~(k < i)
    <3>1. k - (i - 1) \in 1 .. Len(q) - i /\ i + (k - (i - 1)) = k + 1
      BY <2>3
    <3>2. b[k - (i - 1)] = q[i + (k - (i - 1))]
      BY <1>2, <3>1
    <3>. QED  BY <1>4, <2>3, <3>1, <3>2
  <2>. QED  BY <2>2, <2>3
<1>. QED  BY <1>3, <1>4, <1>5

\* What NoIdleSlot says, without the smaller of two numbers.
LEMMA SlotCovered ==
  ASSUME NEW running \in Nat, NEW waits \in Nat, NEW drains \in Nat, running + drains <= MaxConcurrent
  PROVE  (running < MaxConcurrent => drains >= Min({MaxConcurrent - running, waits}))
            <=> drains >= MaxConcurrent - running \/ drains >= waits
<1>1. PICK free \in Int : free = MaxConcurrent - running
  BY MaintenanceAssumption
<1>2. Min({free, waits}) = IF free <= waits THEN free ELSE waits
  BY MinOfTwo
<1>. QED  BY <1>1, <1>2, MaintenanceAssumption

\* Each operation of the scheduler keeps the invariant.
LEMMA EnqueueKeeps ==
  ASSUME MaintInv, NEW s \in Sources, enqueue(s)
  PROVE  MaintInv'
<1>. USE DEF MaintInv, MaintTypeOK
<1>1. /\ queued' \in Seq(Sources) /\ Len(queued') = Len(queued) + 1
      /\ \A i \in 1 .. Len(queued) : queued'[i] = queued[i]
      /\ queued'[Len(queued) + 1] = s
      /\ active' = active
  BY DEF enqueue
<1>2. Cardinality(active) \in Nat
  BY FS_CardinalityType
<1>3. \A i \in 1 .. Len(queued) : queued[i] # s
  BY DEF enqueue, ToSet
<1>4. /\ scheduledDrains' \in Nat
      /\ Cardinality(active') + scheduledDrains' <= MaxConcurrent
      /\ NoIdleSlot'
  <2>1. scheduledDrains' = schedule(scheduledDrains, queued', active)
    BY DEF enqueue
  <2>2. Len(queued') \in Nat
    BY <1>1
  <2>. QED  BY <1>1, <1>2, <2>1, <2>2, ScheduleFills DEF NoIdleSlot
<1>5. QueuedOnce'
  BY <1>1, <1>3 DEF QueuedOnce
<1>6. /\ \A i \in 1 .. Len(queued') : queued'[i] \notin active'
      /\ Len(queued') <= MaxQueue
  BY <1>1, <1>3, MaintenanceAssumption DEF enqueue
<1>. QED  BY <1>1, <1>4, <1>5, <1>6

LEMMA CancelKeeps ==
  ASSUME MaintInv, NEW s \in Sources, cancelSource(s)
  PROVE  MaintInv'
<1>. USE DEF MaintInv, MaintTypeOK
<1>1. PICK i \in 1 .. Len(queued) : queued' = RemoveAt(queued, i)
  BY DEF cancelSource
<1>2. active' = active /\ scheduledDrains' = scheduledDrains
  BY DEF cancelSource
<1>3. /\ queued' \in Seq(Sources) /\ Len(queued') = Len(queued) - 1
      /\ \A k \in 1 .. Len(queued) - 1 : queued'[k] = IF k < i THEN queued[k] ELSE queued[k + 1]
  BY <1>1, RemoveAtEntries
<1>4. QueuedOnce'
  BY <1>3 DEF QueuedOnce
<1>5. \A k \in 1 .. Len(queued') : queued'[k] \notin active'
  BY <1>2, <1>3
<1>6. Cardinality(active) \in Nat
  BY FS_CardinalityType
<1>7. NoIdleSlot'
  <2>1. Len(queued) \in Nat /\ Len(queued') \in Nat
    BY <1>3
  <2>2. \/ scheduledDrains >= MaxConcurrent - Cardinality(active)
        \/ scheduledDrains >= Len(queued)
    BY <1>6, <2>1, SlotCovered DEF NoIdleSlot
  <2>3. \/ scheduledDrains' >= MaxConcurrent - Cardinality(active')
        \/ scheduledDrains' >= Len(queued')
    BY <1>2, <1>3, <2>1, <2>2
  <2>. QED  BY <1>2, <1>6, <2>1, <2>3, SlotCovered DEF NoIdleSlot
<1>. QED  BY <1>2, <1>3, <1>4, <1>5, <1>7, MaintenanceAssumption

\* What is left of the queue when its first entry is taken.
LEMMA TailEntries ==
  ASSUME NEW S, NEW q \in Seq(S), q # <<>>
  PROVE  /\ Tail(q) \in Seq(S) /\ Len(Tail(q)) = Len(q) - 1 /\ Len(q) > 0
         /\ \A k \in 1 .. Len(q) - 1 : Tail(q)[k] = q[k + 1]
         /\ Head(q) = q[1] /\ Head(q) \in S
  OBVIOUS

LEMMA DrainKeeps ==
  ASSUME MaintInv, drainOne
  PROVE  MaintInv'
<1>. USE DEF MaintInv, MaintTypeOK
<1>1. Cardinality(active) \in Nat /\ Len(queued) \in Nat
  BY FS_CardinalityType
<1>2. scheduledDrains' \in Nat /\ scheduledDrains' = scheduledDrains - 1
  BY DEF drainOne
<1>3. CASE active' = active \cup {Head(queued)} /\ queued' = Tail(queued) /\ queued # <<>>
  <2>1. /\ queued' \in Seq(Sources) /\ Len(queued') = Len(queued) - 1 /\ Len(queued) > 0
        /\ \A k \in 1 .. Len(queued) - 1 : queued'[k] = queued[k + 1]
        /\ Head(queued) = queued[1] /\ Head(queued) \in Sources
    BY <1>3, TailEntries
  <2>2. IsFiniteSet(active') /\ Cardinality(active') = Cardinality(active) + 1
    <3>1. Head(queued) \notin active
      BY <2>1
    <3>. QED  BY <1>3, <3>1, FS_AddElement
  <2>3. QueuedOnce'
    BY <2>1 DEF QueuedOnce
  <2>4. \A k \in 1 .. Len(queued') : queued'[k] \notin active'
    BY <1>3, <2>1 DEF QueuedOnce
  <2>5. NoIdleSlot'
    <3>1. /\ Len(queued') \in Nat /\ Cardinality(active') \in Nat
          /\ Cardinality(active') + scheduledDrains' <= MaxConcurrent
      BY <1>1, <1>2, <2>1, <2>2, MaintenanceAssumption
    <3>2. \/ scheduledDrains >= MaxConcurrent - Cardinality(active)
          \/ scheduledDrains >= Len(queued)
      BY <1>1, SlotCovered DEF NoIdleSlot
    <3>3. \/ scheduledDrains' >= MaxConcurrent - Cardinality(active')
          \/ scheduledDrains' >= Len(queued')
      BY <1>1, <1>2, <2>1, <2>2, <3>2, MaintenanceAssumption
    <3>. QED  BY <1>2, <3>1, <3>3, SlotCovered DEF NoIdleSlot
  <2>. QED  BY <1>1, <1>2, <1>3, <2>1, <2>2, <2>3, <2>4, <2>5, MaintenanceAssumption
<1>4. CASE /\ Cardinality(active) >= MaxConcurrent \/ queued = <<>>
           /\ queued' = queued /\ active' = active
  <2>1. NoIdleSlot'
    <3>1. MaxConcurrent - Cardinality(active) \in Int
      BY <1>1, MaintenanceAssumption
    <3>. QED  BY <1>1, <1>2, <1>4, <3>1, MinOfTwo, MaintenanceAssumption DEF NoIdleSlot
  <2>. QED  BY <1>1, <1>2, <1>4, <2>1, MaintenanceAssumption DEF QueuedOnce
<1>. QED  BY <1>3, <1>4 DEF drainOne

LEMMA JobEndKeeps ==
  ASSUME MaintInv, NEW s \in Sources, jobEnds(s)
  PROVE  MaintInv'
<1>. USE DEF MaintInv, MaintTypeOK
<1>1. Cardinality(active) \in Nat /\ Len(queued) \in Nat
  BY FS_CardinalityType
<1>2. queued' = queued /\ active' = active \ {s} /\ s \in active
  BY DEF jobEnds
<1>3. IsFiniteSet(active') /\ Cardinality(active') = Cardinality(active) - 1
  BY <1>2, FS_RemoveElement
<1>4. Cardinality(active') \in Nat
  BY <1>3, FS_CardinalityType
<1>5. scheduledDrains' = schedule(scheduledDrains, queued', active')
  BY <1>2 DEF jobEnds
<1>6. Cardinality(active') + scheduledDrains <= MaxConcurrent
  BY <1>1, <1>3, MaintenanceAssumption
<1>7. /\ scheduledDrains' \in Nat
      /\ Cardinality(active') + scheduledDrains' <= MaxConcurrent
      /\ NoIdleSlot'
  BY <1>1, <1>2, <1>4, <1>5, <1>6, ScheduleFills DEF NoIdleSlot
<1>. QED  BY <1>2, <1>3, <1>7 DEF QueuedOnce

LEMMA MaintStays ==
  ASSUME MaintInv, UNCHANGED maintVars
  PROVE  MaintInv'
  BY DEF MaintInv, MaintTypeOK, NoIdleSlot, QueuedOnce, maintVars

LEMMA MaintStarts ==
  ASSUME queued = <<>>, active = {}, scheduledDrains = 0
  PROVE  MaintInv
<1>1. IsFiniteSet(active) /\ Cardinality(active) = 0
  BY FS_EmptySet
<1>2. NoIdleSlot
  BY <1>1, MinOfTwo, MaintenanceAssumption DEF NoIdleSlot
<1>. QED  BY <1>1, <1>2, MaintenanceAssumption DEF MaintInv, MaintTypeOK, QueuedOnce

\* A drain whose job ends at once because its source is not enabled any more.
LEMMA SkipKeeps ==
  ASSUME MaintInv, drainSkips
  PROVE  MaintInv'
<1>. USE DEF MaintInv, MaintTypeOK
<1>1. /\ queued' = Tail(queued) /\ queued # <<>> /\ active' = active
      /\ scheduledDrains > 0
      /\ scheduledDrains' = schedule(scheduledDrains - 1, queued', active')
  BY DEF drainSkips
<1>2. /\ queued' \in Seq(Sources) /\ Len(queued') = Len(queued) - 1 /\ Len(queued) > 0
      /\ \A k \in 1 .. Len(queued) - 1 : queued'[k] = queued[k + 1]
  BY <1>1, TailEntries
<1>3. Cardinality(active') \in Nat /\ Len(queued') \in Nat
  BY <1>1, <1>2, FS_CardinalityType
<1>4. PICK left \in Nat : left = scheduledDrains - 1
  BY <1>1
<1>5. Cardinality(active') + left <= MaxConcurrent
  BY <1>1, <1>3, <1>4, MaintenanceAssumption
<1>6. /\ scheduledDrains' \in Nat
      /\ Cardinality(active') + scheduledDrains' <= MaxConcurrent
      /\ NoIdleSlot'
  BY <1>1, <1>3, <1>4, <1>5, ScheduleFills DEF NoIdleSlot
<1>7. QueuedOnce'
  BY <1>2 DEF QueuedOnce
<1>8. \A k \in 1 .. Len(queued') : queued'[k] \notin active'
  BY <1>1, <1>2
<1>. QED  BY <1>1, <1>2, <1>6, <1>7, <1>8, MaintenanceAssumption

\* The limits in the form the scheduler promises them: as many sources wait as the queue is long.
LEMMA MaintInvLimits ==
  ASSUME MaintInv
  PROVE  WithinLimits
<1>1. queued \in Seq(Sources) /\ Len(queued) \in Nat
  BY DEF MaintInv, MaintTypeOK
<1>2. ToSet(queued) = {queued[i] : i \in 1 .. Len(queued)}
  BY <1>1 DEF ToSet
<1>3. Cardinality(ToSet(queued)) = Len(queued)
  <2>. DEFINE f == [i \in 1 .. Len(queued) |-> queued[i]]
  <2>1. f \in Bijection(1 .. Len(queued), ToSet(queued))
    BY <1>2 DEF MaintInv, QueuedOnce, Bijection, Injection, Surjection, IsInjective
  <2>2. ExistsBijection(1 .. Len(queued), ToSet(queued))
    BY <2>1 DEF ExistsBijection
  <2>. QED  BY <1>1, <2>2, FS_CountingElements
<1>4. ToSet(queued) \cap active = {}
  BY <1>2 DEF MaintInv
<1>. QED  BY <1>3, <1>4 DEF MaintInv, WithinLimits

LEMMA MaintInvariant == MaintSpec => []MaintInv
<1>1. MaintInit => MaintInv
  BY MaintStarts DEF MaintInit
<1>2. MaintInv /\ [MaintNext]_maintVars => MaintInv'
  BY EnqueueKeeps, CancelKeeps, JobEndKeeps, DrainKeeps, MaintStays DEF MaintNext
<1>. QED  BY <1>1, <1>2, PTL DEF MaintSpec

\* The scheduler's queue, running jobs and pending drains keep their types.
THEOREM MaintTypeCorrect == MaintSpec => []MaintTypeOK
<1>1. MaintInv => MaintTypeOK
  BY DEF MaintInv
<1>. QED  BY <1>1, MaintInvariant, PTL

\* However enqueues, cancellations, drains and endings interleave, no more jobs run than
\* options.maxConcurrent, the queue stays within options.maxQueue, and a source has one job.
THEOREM LimitsKept == MaintSpec => []WithinLimits
  BY MaintInvariant, MaintInvLimits, PTL

\* schedule() and the end of drainOne leave no free slot without a pending drain while a
\* job waits.
THEOREM NoSlotIdle == MaintSpec => []NoIdleSlot
<1>1. MaintInv => NoIdleSlot
  BY DEF MaintInv
<1>. QED  BY <1>1, MaintInvariant, PTL

-----------------------------------------------------------------------------
(* The index.                                                                *)

Record == [status : Statuses, revision : Indexed]
Job == [pc : {"none", "scan", "read"}, base : [Sources -> Indexed], content : Indexed]

WorldTypes ==
    /\ config \in [Sources -> {"enabled", "disabled", "absent"}]
    /\ head \in [Sources -> Versions] /\ seen \in [Sources -> Versions]
IndexTypes ==
    records \in [Sources -> Record] /\ saved \in [Sources -> Record] /\ dirty \in BOOLEAN
AskedTypes ==
    /\ requests \subseteq Sources /\ timers \subseteq Sources /\ retries \subseteq Sources
    /\ waiting \subseteq Sources /\ immediates \subseteq Sources
    /\ attempts \in [Sources -> 0 .. RetryLimit]
StoredTypes ==
    docs \in [Sources -> Indexed] /\ file \in [Sources -> Indexed]
BoundTypes ==
    failures \in 0 .. MaxFailures /\ edits \in 0 .. MaxEdits /\ crashes \in 0 .. MaxCrashes

\* The jobs that run are the builds: no slot is held without a build, and no build goes on
\* without its slot.
JobsAreBuilds ==
    build \in [Sources -> Job] /\ \A s \in Sources : build[s].pc # "none" <=> s \in active

\* The inductive invariant: a progress report writes "indexing" again in the middle of a
\* build, so IndexingIsLive needs to know that a build runs as a job.
FreshInv ==
    /\ MaintInv
    /\ WorldTypes /\ IndexTypes /\ AskedTypes /\ StoredTypes /\ BoundTypes
    /\ JobsAreBuilds
    /\ IndexingIsLive

\* What is left alone keeps what is known of it.
LEMMA Unaffected ==
  ASSUME FreshInv
  PROVE  /\ UNCHANGED maintVars => MaintInv' /\ active' = active
         /\ UNCHANGED world => WorldTypes'
         /\ UNCHANGED <<records, saved, dirty>> => IndexTypes'
         /\ UNCHANGED <<records, dirty>> /\ active \subseteq active' => IndexingIsLive'
         /\ UNCHANGED asked => AskedTypes'
         /\ UNCHANGED stored => StoredTypes'
         /\ UNCHANGED bounds => BoundTypes'
         /\ UNCHANGED build /\ active' = active => JobsAreBuilds'
<1>1. UNCHANGED maintVars => MaintInv' /\ active' = active
  BY MaintStays DEF FreshInv, maintVars
<1>2. UNCHANGED world => WorldTypes'
  BY DEF FreshInv, WorldTypes, world
<1>3. UNCHANGED <<records, saved, dirty>> => IndexTypes'
  BY DEF FreshInv, IndexTypes
<1>4. UNCHANGED <<records, dirty>> /\ active \subseteq active' => IndexingIsLive'
  BY DEF FreshInv, IndexingIsLive, loadIndexState
<1>5. UNCHANGED asked => AskedTypes'
  BY DEF FreshInv, AskedTypes, asked
<1>6. UNCHANGED stored => StoredTypes'
  BY DEF FreshInv, StoredTypes, stored
<1>7. UNCHANGED bounds => BoundTypes'
  BY DEF FreshInv, BoundTypes, bounds
<1>8. UNCHANGED build /\ active' = active => JobsAreBuilds'
  BY DEF FreshInv, JobsAreBuilds
<1>. QED  BY <1>1, <1>2, <1>3, <1>4, <1>5, <1>6, <1>7, <1>8

\* A record that was settled is not indexing.
LEMMA SettledRecord ==
  ASSUME NEW r \in Record
  PROVE  settleInterrupted(r) \in Record /\ settleInterrupted(r).status # "indexing"
  BY DEF settleInterrupted, Record, Statuses

\* Records that name nothing as being indexed but what has a job.
Backed(recs, jobs) ==
    recs \in [Sources -> Record] /\ \A s \in Sources : recs[s].status = "indexing" => s \in jobs

\* What a reader of the index state is shown.
LEMMA LoadBacked ==
  ASSUME FreshInv
  PROVE  Backed(loadIndexState, active)
<1>1. loadIndexState \in [Sources -> Record]
  BY SettledRecord DEF FreshInv, IndexTypes, loadIndexState
<1>. QED  BY <1>1 DEF FreshInv, IndexingIsLive, Backed

\* Writing backed records keeps IndexingIsLive, whether or not the write is delayed.
LEMMA BackedWrite ==
  ASSUME Backed(records', active')
  PROVE  records' \in [Sources -> Record] /\ IndexingIsLive'
<1>1. \A s \in Sources : settleInterrupted(records'[s]).status # "indexing"
  BY SettledRecord DEF Backed
<1>2. ASSUME NEW s \in Sources, loadIndexState'[s].status = "indexing"
      PROVE  s \in active'
  <2>1. CASE dirty'
    BY <1>2, <2>1 DEF loadIndexState, Backed
  <2>2. CASE ~dirty'
    BY <1>1, <1>2, <2>2 DEF loadIndexState
  <2>. QED  BY <2>1, <2>2
<1>. QED  BY <1>2 DEF Backed, IndexingIsLive

\* What is on disk and settled on the next read is backed by nothing and needs nothing.
LEMMA CleanIsLive ==
  ASSUME records' \in [Sources -> Record], ~dirty'
  PROVE  IndexingIsLive'
<1>1. \A s \in Sources : settleInterrupted(records'[s]).status # "indexing"
  BY SettledRecord
<1>. QED  BY <1>1 DEF IndexingIsLive, loadIndexState

\* One status is rewritten.
LEMMA UpsertBacked ==
  ASSUME NEW recs, NEW jobs, Backed(recs, jobs), NEW s \in Sources, NEW status \in Statuses,
         status = "indexing" => s \in jobs
  PROVE  Backed(upsertIndexState(recs, s, status), jobs)
<1>1. \A t \in Sources : recs[t] \in Record
  BY DEF Backed
<1>2. upsertIndexState(recs, s, status) = [recs EXCEPT ![s] = [recs[s] EXCEPT !.status = status]]
  BY DEF upsertIndexState
<1>3. [recs[s] EXCEPT !.status = status] \in Record /\ [recs[s] EXCEPT !.status = status].status = status
  BY <1>1 DEF Record
<1>. QED  BY <1>2, <1>3 DEF Backed

\* Reconciling with the configuration writes no "indexing".
LEMMA ReconcileBacked ==
  ASSUME NEW recs, NEW jobs, Backed(recs, jobs),
         NEW sources \in [Sources -> {"enabled", "disabled", "absent"}]
  PROVE  Backed(reconcileIndexStateFromDocs(recs, sources), jobs)
<1>1. \A t \in Sources : recs[t] \in Record
  BY DEF Backed
<1>2. \A t \in Sources : \A st \in {"disabled", "pending"} :
          [recs[t] EXCEPT !.status = st] \in Record /\ [recs[t] EXCEPT !.status = st].status = st
  BY <1>1 DEF Record, Statuses
<1>3. \A t \in Sources :
          \/ reconcileIndexStateFromDocs(recs, sources)[t] = recs[t]
          \/ reconcileIndexStateFromDocs(recs, sources)[t] = [recs[t] EXCEPT !.status = "disabled"]
          \/ reconcileIndexStateFromDocs(recs, sources)[t] = [recs[t] EXCEPT !.status = "pending"]
  BY DEF reconcileIndexStateFromDocs
<1>4. reconcileIndexStateFromDocs(recs, sources)
          = [t \in Sources |-> reconcileIndexStateFromDocs(recs, sources)[t]]
  BY DEF reconcileIndexStateFromDocs
<1>5. PICK after : after = reconcileIndexStateFromDocs(recs, sources)
  OBVIOUS
<1>6. \A t \in Sources : after[t] \in Record /\ (after[t].status = "indexing" => recs[t].status = "indexing")
  BY <1>1, <1>2, <1>3, <1>5
<1>7. after \in [Sources -> Record]
  BY <1>4, <1>5, <1>6
<1>. QED  BY <1>5, <1>6, <1>7 DEF Backed

\* reindexSourceInBackground keeps the scheduler's invariant, starts nothing, and writes
\* backed records if its caller gave it some.
LEMMA ReindexKeeps ==
  ASSUME FreshInv, NEW s \in Sources, NEW requested \in BOOLEAN, NEW recs, Backed(recs, active),
         reindexSourceInBackground(s, requested, recs)
  PROVE  /\ MaintInv' /\ active' = active
         /\ requests' \subseteq Sources
         /\ records' \in [Sources -> Record] /\ dirty' \in BOOLEAN /\ IndexingIsLive'
<1>1. MaintInv
  BY DEF FreshInv
<1>2. UNCHANGED maintVars \/ enqueue(s)
  BY DEF reindexSourceInBackground
<1>3. MaintInv' /\ active' = active
  BY <1>1, <1>2, EnqueueKeeps, MaintStays DEF enqueue, maintVars
<1>4. requests' \subseteq Sources
  BY DEF reindexSourceInBackground, FreshInv, AskedTypes
<1>5. records' = recs \/ records' = upsertIndexState(recs, s, "pending")
  BY DEF reindexSourceInBackground
<1>6. Backed(records', active')
  BY <1>3, <1>5, UpsertBacked DEF Statuses
<1>7. dirty' \in BOOLEAN
  BY DEF reindexSourceInBackground
<1>. QED  BY <1>3, <1>4, <1>6, <1>7, BackedWrite

LEMMA RefreshKeeps ==
  ASSUME FreshInv, NEW s \in Sources, queueFreshnessRefresh(s)
  PROVE  /\ MaintInv' /\ active' = active
         /\ requests' \subseteq Sources /\ timers' \subseteq Sources
         /\ records' \in [Sources -> Record] /\ dirty' \in BOOLEAN /\ IndexingIsLive'
<1>1. MaintInv
  BY DEF FreshInv
<1>2. UNCHANGED maintVars \/ enqueue(s)
  BY DEF queueFreshnessRefresh
<1>3. MaintInv' /\ active' = active
  BY <1>1, <1>2, EnqueueKeeps, MaintStays DEF enqueue, maintVars
<1>4. requests' \subseteq Sources /\ timers' \subseteq Sources
  BY DEF queueFreshnessRefresh, FreshInv, AskedTypes
<1>5. Backed(records', active')
  BY <1>3, LoadBacked, UpsertBacked DEF queueFreshnessRefresh, Statuses
<1>6. dirty' \in BOOLEAN
  BY DEF queueFreshnessRefresh
<1>. QED  BY <1>3, <1>4, <1>5, <1>6, BackedWrite

LEMMA EmptyJob == NoBuild \in Job /\ NoBuild.pc = "none"
  BY DEF NoBuild, Job, Indexed

\* The end of a build gives its slot back.
LEMMA FinishKeeps ==
  ASSUME FreshInv, NEW s \in Sources, finish(s)
  PROVE  /\ MaintInv' /\ active' = active \ {s} /\ JobsAreBuilds'
         /\ requests' \subseteq Sources /\ immediates' \subseteq Sources
<1>1. MaintInv'
  BY JobEndKeeps DEF FreshInv, finish
<1>2. active' = active \ {s} /\ build' = [build EXCEPT ![s] = NoBuild]
  BY DEF finish, jobEnds
<1>3. JobsAreBuilds'
  BY <1>2, EmptyJob DEF FreshInv, JobsAreBuilds
<1>4. requests' \subseteq Sources /\ immediates' \subseteq Sources
  BY DEF finish, FreshInv, AskedTypes
<1>. QED  BY <1>1, <1>2, <1>3, <1>4

-----------------------------------------------------------------------------
\* Each action keeps the invariant.
LEMMA ReadKeeps == ASSUME FreshInv, readIndexState PROVE FreshInv'
<1>1. /\ MaintInv' /\ active' = active /\ WorldTypes' /\ AskedTypes' /\ StoredTypes'
      /\ BoundTypes' /\ JobsAreBuilds'
  BY Unaffected DEF readIndexState
<1>2. records' = loadIndexState /\ dirty' \in BOOLEAN /\ saved' = saved
  BY DEF readIndexState
<1>3. records' \in [Sources -> Record] /\ IndexingIsLive'
  BY <1>1, <1>2, LoadBacked, BackedWrite
<1>. QED  BY <1>1, <1>2, <1>3 DEF FreshInv, IndexTypes

LEMMA FlushKeeps == ASSUME FreshInv, flushIndexState PROVE FreshInv'
<1>1. /\ MaintInv' /\ active' = active /\ WorldTypes' /\ AskedTypes' /\ StoredTypes'
      /\ BoundTypes' /\ JobsAreBuilds'
  BY Unaffected DEF flushIndexState
<1>2. records' = records /\ saved' = records /\ dirty' \in BOOLEAN /\ ~dirty'
  BY DEF flushIndexState
<1>3. IndexTypes' /\ IndexingIsLive'
  BY <1>2, CleanIsLive DEF FreshInv, IndexTypes
<1>. QED  BY <1>1, <1>3 DEF FreshInv

LEMMA SweepKeeps == ASSUME FreshInv, runAutoIndexSweep PROVE FreshInv'
<1>. DEFINE due == {s \in Sources : Due(s)}
<1>1. /\ MaintInv' /\ active' = active /\ WorldTypes' /\ StoredTypes' /\ BoundTypes' /\ JobsAreBuilds'
  BY Unaffected DEF runAutoIndexSweep
<1>2. /\ requests' = requests \union due /\ timers' = timers \union due
      /\ UNCHANGED <<retries, waiting, immediates, attempts, saved>>
  BY DEF runAutoIndexSweep
<1>3. due \subseteq Sources
  OBVIOUS
<1>4. records' = [s \in Sources |-> IF s \in due
                                    THEN [loadIndexState[s] EXCEPT !.status = "pending"]
                                    ELSE loadIndexState[s]]
  BY DEF runAutoIndexSweep
<1>5. dirty' \in BOOLEAN
  BY DEF runAutoIndexSweep
<1>. HIDE DEF due
<1>6. AskedTypes'
  BY <1>2, <1>3 DEF FreshInv, AskedTypes
<1>7. PICK recs : recs = loadIndexState
  OBVIOUS
<1>8. Backed(recs, active)
  BY <1>7, LoadBacked
<1>9. \A s \in Sources : /\ [recs[s] EXCEPT !.status = "pending"] \in Record
                         /\ [recs[s] EXCEPT !.status = "pending"].status = "pending"
  BY <1>8 DEF Backed, Record, Statuses
<1>10. Backed(records', active')
  BY <1>1, <1>4, <1>7, <1>8, <1>9 DEF Backed
<1>. QED  BY <1>1, <1>2, <1>5, <1>6, <1>10, BackedWrite DEF FreshInv, IndexTypes

LEMMA DebounceKeeps == ASSUME FreshInv, NEW s \in Sources, debounceFires(s) PROVE FreshInv'
<1>1. /\ MaintInv' /\ active' = active /\ requests' \subseteq Sources
      /\ records' \in [Sources -> Record] /\ dirty' \in BOOLEAN /\ IndexingIsLive'
  BY LoadBacked, ReindexKeeps DEF debounceFires
<1>2. WorldTypes' /\ StoredTypes' /\ BoundTypes' /\ JobsAreBuilds'
  BY <1>1, Unaffected DEF debounceFires
<1>3. AskedTypes' /\ saved' = saved
  BY <1>1 DEF debounceFires, FreshInv, AskedTypes
<1>. QED  BY <1>1, <1>2, <1>3 DEF FreshInv, IndexTypes

LEMMA RecoveryKeeps == ASSUME FreshInv, NEW s \in Sources, requestSourceIndexRecovery(s) PROVE FreshInv'
<1>1. /\ MaintInv' /\ active' = active /\ requests' \subseteq Sources /\ timers' \subseteq Sources
      /\ records' \in [Sources -> Record] /\ dirty' \in BOOLEAN /\ IndexingIsLive'
  BY RefreshKeeps DEF requestSourceIndexRecovery
<1>2. WorldTypes' /\ StoredTypes' /\ BoundTypes' /\ JobsAreBuilds'
  BY <1>1, Unaffected DEF requestSourceIndexRecovery
<1>3. AskedTypes' /\ saved' = saved
  BY <1>1 DEF requestSourceIndexRecovery, FreshInv, AskedTypes
<1>. QED  BY <1>1, <1>2, <1>3 DEF FreshInv, IndexTypes

LEMMA RouteKeeps == ASSUME FreshInv, NEW s \in Sources, reindexRoute(s) PROVE FreshInv'
<1>1. /\ MaintInv' /\ active' = active /\ requests' \subseteq Sources
      /\ records' \in [Sources -> Record] /\ dirty' \in BOOLEAN /\ IndexingIsLive'
  BY LoadBacked, ReindexKeeps DEF reindexRoute
<1>2. WorldTypes' /\ StoredTypes' /\ BoundTypes' /\ JobsAreBuilds'
  BY <1>1, Unaffected DEF reindexRoute
<1>3. AskedTypes' /\ saved' = saved
  BY <1>1 DEF reindexRoute, FreshInv, AskedTypes
<1>. QED  BY <1>1, <1>2, <1>3 DEF FreshInv, IndexTypes

LEMMA RetryKeeps == ASSUME FreshInv, NEW s \in Sources, retryFires(s) PROVE FreshInv'
<1>1. queueFreshnessRefresh(s) \/ UNCHANGED <<maintVars, requests, timers, records, dirty>>
  BY DEF retryFires
<1>2. /\ MaintInv' /\ active' = active /\ requests' \subseteq Sources /\ timers' \subseteq Sources
      /\ records' \in [Sources -> Record] /\ dirty' \in BOOLEAN /\ IndexingIsLive'
  <2>1. CASE queueFreshnessRefresh(s)
    BY <2>1, RefreshKeeps
  <2>2. CASE UNCHANGED <<maintVars, requests, timers, records, dirty>>
    <3>1. MaintInv' /\ active' = active /\ IndexingIsLive'
      BY <2>2, Unaffected
    <3>. QED  BY <2>2, <3>1 DEF FreshInv, AskedTypes, IndexTypes
  <2>. QED  BY <1>1, <2>1, <2>2
<1>3. WorldTypes' /\ StoredTypes' /\ BoundTypes' /\ JobsAreBuilds'
  BY <1>2, Unaffected DEF retryFires
<1>4. AskedTypes' /\ saved' = saved
  BY <1>2 DEF retryFires, FreshInv, AskedTypes
<1>. QED  BY <1>2, <1>3, <1>4 DEF FreshInv, IndexTypes

LEMMA DelayKeeps == ASSUME FreshInv, NEW s \in Sources, retryDelayPasses(s) PROVE FreshInv'
<1>1. /\ MaintInv' /\ active' = active /\ WorldTypes' /\ IndexTypes' /\ IndexingIsLive' /\ StoredTypes'
      /\ BoundTypes' /\ JobsAreBuilds'
  BY Unaffected DEF retryDelayPasses, index
<1>2. AskedTypes'
  BY DEF retryDelayPasses, FreshInv, AskedTypes
<1>. QED  BY <1>1, <1>2 DEF FreshInv

LEMMA ImmediateKeeps == ASSUME FreshInv, NEW s \in Sources, immediateFires(s) PROVE FreshInv'
<1>1. /\ MaintInv' /\ active' = active /\ requests' \subseteq Sources
      /\ records' \in [Sources -> Record] /\ dirty' \in BOOLEAN /\ IndexingIsLive'
  BY LoadBacked, ReindexKeeps DEF immediateFires
<1>2. WorldTypes' /\ StoredTypes' /\ BoundTypes' /\ JobsAreBuilds'
  BY <1>1, Unaffected DEF immediateFires
<1>3. AskedTypes' /\ saved' = saved
  BY <1>1 DEF immediateFires, FreshInv, AskedTypes
<1>. QED  BY <1>1, <1>2, <1>3 DEF FreshInv, IndexTypes

LEMMA IdleKeeps == ASSUME FreshInv, drainIdle PROVE FreshInv'
<1>1. MaintInv' /\ active' = active
  BY DrainKeeps DEF FreshInv, drainIdle
<1>2. /\ WorldTypes' /\ IndexTypes' /\ IndexingIsLive' /\ AskedTypes' /\ StoredTypes' /\ BoundTypes'
      /\ JobsAreBuilds'
  BY <1>1, Unaffected DEF drainIdle, index
<1>. QED  BY <1>1, <1>2 DEF FreshInv

LEMMA SkippedKeeps == ASSUME FreshInv, drainSkips PROVE FreshInv'
<1>1. MaintInv' /\ active' = active
  BY SkipKeeps DEF FreshInv, drainSkips
<1>2. /\ WorldTypes' /\ IndexTypes' /\ IndexingIsLive' /\ AskedTypes' /\ StoredTypes' /\ BoundTypes'
      /\ JobsAreBuilds'
  BY <1>1, Unaffected DEF drainSkips, index
<1>. QED  BY <1>1, <1>2 DEF FreshInv

LEMMA OthersType ==
  ASSUME FreshInv, NEW s \in Sources
  PROVE  Others(s) \in [Sources -> Indexed]
  BY DEF FreshInv, StoredTypes, Others, Indexed

LEMMA StartKeeps == ASSUME FreshInv, NEW s \in Sources, buildStarts(s) PROVE FreshInv'
<1>1. MaintInv'
  BY DrainKeeps DEF FreshInv, buildStarts
<1>2. active' = active \cup {s}
  BY DEF buildStarts, drainOne
<1>3. /\ UNCHANGED <<world, saved, timers, retries, waiting, immediates, attempts, stored, bounds>>
      /\ requests' = requests \ {s} /\ dirty' \in BOOLEAN
      /\ records' = upsertIndexState(loadIndexState, s, "indexing")
      /\ build' = [build EXCEPT ![s] = [pc |-> "scan", base |-> Others(s), content |-> None]]
  BY DEF buildStarts
<1>4. WorldTypes' /\ StoredTypes' /\ BoundTypes'
  BY <1>3, Unaffected
<1>5. AskedTypes'
  BY <1>3 DEF FreshInv, AskedTypes
<1>6. Backed(loadIndexState, active')
  BY <1>2, LoadBacked DEF Backed
<1>7. Backed(records', active')
  BY <1>2, <1>3, <1>6, UpsertBacked DEF Statuses
<1>8. [pc |-> "scan", base |-> Others(s), content |-> None] \in Job
  BY OthersType DEF Job, Indexed
<1>9. JobsAreBuilds'
  BY <1>2, <1>3, <1>8 DEF FreshInv, JobsAreBuilds
<1>. QED  BY <1>1, <1>3, <1>4, <1>5, <1>7, <1>9, BackedWrite DEF FreshInv, IndexTypes

LEMMA ScanKeeps == ASSUME FreshInv, NEW s \in Sources, scanEnds(s) PROVE FreshInv'
<1>1. /\ MaintInv' /\ active' = active /\ WorldTypes' /\ AskedTypes' /\ StoredTypes' /\ BoundTypes'
  BY Unaffected DEF scanEnds
<1>2. s \in active
  BY DEF scanEnds, FreshInv, JobsAreBuilds
<1>3. /\ records' = upsertIndexState(loadIndexState, s, "indexing") /\ dirty' \in BOOLEAN
      /\ saved' = saved
  BY DEF scanEnds
<1>4. Backed(records', active')
  BY <1>1, <1>2, <1>3, LoadBacked, UpsertBacked DEF Statuses
<1>5. PICK base \in {build[s].base} \union {Others(t) : t \in {s} \cap PolicyBound} :
          build' = [build EXCEPT ![s] = [pc |-> "read", base |-> base, content |-> head[s]]]
  BY DEF scanEnds
<1>6. base \in [Sources -> Indexed]
  BY <1>5, OthersType DEF FreshInv, JobsAreBuilds, Job
<1>7. [pc |-> "read", base |-> base, content |-> head[s]] \in Job
  BY <1>6 DEF Job, Indexed, FreshInv, WorldTypes
<1>8. JobsAreBuilds'
  BY <1>1, <1>2, <1>5, <1>7 DEF FreshInv, JobsAreBuilds
<1>. QED  BY <1>1, <1>3, <1>4, <1>8, BackedWrite DEF FreshInv, IndexTypes

LEMMA EndKeeps == ASSUME FreshInv, NEW s \in Sources, buildEnds(s) PROVE FreshInv'
<1>1. /\ MaintInv' /\ active' = active \ {s} /\ JobsAreBuilds'
      /\ requests' \subseteq Sources /\ immediates' \subseteq Sources
  BY FinishKeeps DEF buildEnds
<1>2. WorldTypes' /\ BoundTypes'
  BY Unaffected DEF buildEnds
<1>3. AskedTypes'
  <2>1. attempts' = [attempts EXCEPT ![s] = 0] /\ waiting' = waiting \ {s}
        /\ UNCHANGED <<timers, retries>>
    BY DEF buildEnds
  <2>. QED  BY <1>1, <2>1, FreshnessAssumption DEF FreshInv, AskedTypes
<1>4. build[s].base \in [Sources -> Indexed] /\ build[s].content \in Indexed
  BY DEF FreshInv, JobsAreBuilds, Job
<1>5. StoredTypes'
  BY <1>4 DEF buildEnds, FreshInv, StoredTypes
<1>6. dirty' \in BOOLEAN /\ saved' = saved
  BY DEF buildEnds
<1>7. PICK reconciled : reconciled = reconcileIndexStateFromDocs(loadIndexState, config)
  OBVIOUS
<1>8. Backed(reconciled, active)
  BY <1>7, LoadBacked, ReconcileBacked DEF FreshInv, WorldTypes
<1>9. PICK revision \in IF config[s] = "absent" THEN {reconciled[s].revision}
                                                ELSE getSourceIndexBinding(s) :
          records' = [reconciled EXCEPT ![s] = [status |-> "ready", revision |-> revision]]
  BY <1>7 DEF buildEnds
<1>10. revision \in Indexed
  <2>1. reconciled[s].revision \in Indexed
    BY <1>8 DEF Backed, Record
  <2>2. getSourceIndexBinding(s) \subseteq Indexed
    BY DEF getSourceIndexBinding, FreshInv, WorldTypes, Indexed
  <2>. QED  BY <1>9, <2>1, <2>2
<1>11. [status |-> "ready", revision |-> revision] \in Record
  BY <1>10 DEF Record, Statuses
<1>12. Backed(records', active')
  BY <1>1, <1>8, <1>9, <1>11 DEF Backed
<1>. QED  BY <1>1, <1>2, <1>3, <1>5, <1>6, <1>12, BackedWrite DEF FreshInv, IndexTypes

LEMMA FailKeeps == ASSUME FreshInv, NEW s \in Sources, buildFails(s) PROVE FreshInv'
<1>1. /\ MaintInv' /\ active' = active \ {s} /\ JobsAreBuilds'
      /\ requests' \subseteq Sources /\ immediates' \subseteq Sources
  BY FinishKeeps DEF buildFails
<1>2. WorldTypes' /\ StoredTypes'
  BY Unaffected DEF buildFails
<1>3. BoundTypes'
  BY FreshnessAssumption DEF buildFails, FreshInv, BoundTypes
<1>4. /\ attempts' = [attempts EXCEPT ![s] = IF retryScheduled(s) THEN @ + 1 ELSE 0]
      /\ timers' = timers
      /\ retries' = retries \/ retries' = retries \union {s}
      /\ waiting' = waiting \union {s} \/ waiting' = waiting \ {s}
  BY DEF buildFails
<1>5. AskedTypes'
  BY <1>1, <1>4, FreshnessAssumption DEF FreshInv, AskedTypes, retryScheduled
<1>6. /\ records' = upsertIndexState(loadIndexState, s, "failed") /\ dirty' \in BOOLEAN
      /\ saved' = saved
  BY DEF buildFails
<1>7. Backed(upsertIndexState(loadIndexState, s, "failed"), active)
  BY LoadBacked, UpsertBacked DEF Statuses
<1>8. records'[s].status = "failed"
  <2>1. loadIndexState \in [Sources -> Record]
    BY LoadBacked DEF Backed
  <2>. QED  BY <1>6, <2>1 DEF upsertIndexState, Record
<1>9. Backed(records', active')
  BY <1>1, <1>6, <1>7, <1>8 DEF Backed
<1>. QED  BY <1>1, <1>2, <1>3, <1>5, <1>6, <1>9, BackedWrite DEF FreshInv, IndexTypes

LEMMA AddKeeps == ASSUME FreshInv, NEW s \in Sources, addSource(s) PROVE FreshInv'
<1>1. Backed(upsertIndexState(loadIndexState, s, "pending"), active)
  BY LoadBacked, UpsertBacked DEF Statuses
<1>2. /\ MaintInv' /\ active' = active /\ requests' \subseteq Sources
      /\ records' \in [Sources -> Record] /\ dirty' \in BOOLEAN /\ IndexingIsLive'
  BY <1>1, ReindexKeeps DEF addSource
<1>3. StoredTypes' /\ JobsAreBuilds'
  BY <1>2, Unaffected DEF addSource
<1>4. WorldTypes'
  BY DEF addSource, FreshInv, WorldTypes
<1>5. BoundTypes'
  BY FreshnessAssumption DEF addSource, Edit, FreshInv, BoundTypes
<1>6. AskedTypes' /\ saved' = saved
  BY <1>2 DEF addSource, FreshInv, AskedTypes
<1>. QED  BY <1>2, <1>3, <1>4, <1>5, <1>6 DEF FreshInv, IndexTypes

LEMMA RemoveKeeps == ASSUME FreshInv, NEW s \in Sources, removeSource(s) PROVE FreshInv'
<1>1. UNCHANGED maintVars \/ cancelSource(s)
  BY DEF removeSource
<1>2. MaintInv' /\ active' = active
  BY <1>1, CancelKeeps, MaintStays DEF FreshInv, cancelSource, maintVars
<1>3. AskedTypes' /\ JobsAreBuilds'
  BY <1>2, Unaffected DEF removeSource
<1>4. WorldTypes'
  BY DEF removeSource, FreshInv, WorldTypes
<1>5. StoredTypes'
  BY DEF removeSource, FreshInv, StoredTypes, Indexed
<1>6. BoundTypes'
  BY FreshnessAssumption DEF removeSource, Edit, FreshInv, BoundTypes
<1>7. /\ records' = reconcileIndexStateFromDocs(loadIndexState, config') /\ dirty' \in BOOLEAN
      /\ saved' = saved
  BY DEF removeSource
<1>8. Backed(records', active')
  BY <1>2, <1>4, <1>7, LoadBacked, ReconcileBacked DEF WorldTypes
<1>. QED  BY <1>2, <1>3, <1>4, <1>5, <1>6, <1>7, <1>8, BackedWrite DEF FreshInv, IndexTypes

LEMMA EnableKeeps ==
  ASSUME FreshInv, NEW s \in Sources, NEW enabled \in BOOLEAN, setSourceEnabled(s, enabled)
  PROVE  FreshInv'
<1>1. UNCHANGED maintVars \/ cancelSource(s)
  BY DEF setSourceEnabled
<1>2. MaintInv' /\ active' = active
  BY <1>1, CancelKeeps, MaintStays DEF FreshInv, cancelSource, maintVars
<1>3. AskedTypes' /\ StoredTypes' /\ JobsAreBuilds'
  BY <1>2, Unaffected DEF setSourceEnabled
<1>4. WorldTypes'
  BY DEF setSourceEnabled, FreshInv, WorldTypes
<1>5. BoundTypes'
  BY FreshnessAssumption DEF setSourceEnabled, Edit, FreshInv, BoundTypes
<1>6. /\ \E status \in {"pending", "disabled"} : records' = upsertIndexState(loadIndexState, s, status)
      /\ dirty' \in BOOLEAN /\ saved' = saved
  BY DEF setSourceEnabled
<1>7. Backed(records', active')
  BY <1>2, <1>6, LoadBacked, UpsertBacked DEF Statuses
<1>. QED  BY <1>2, <1>3, <1>4, <1>5, <1>6, <1>7, BackedWrite DEF FreshInv, IndexTypes

LEMMA RepositoryKeeps ==
  ASSUME FreshInv, NEW s \in Sources, sourceChanges(s) \/ revisionExpires(s)
  PROVE  FreshInv'
<1>1. /\ MaintInv' /\ active' = active /\ IndexTypes' /\ IndexingIsLive' /\ AskedTypes' /\ StoredTypes'
      /\ BoundTypes' /\ JobsAreBuilds'
  BY Unaffected DEF sourceChanges, revisionExpires, index
<1>2. WorldTypes'
  BY FreshnessAssumption DEF sourceChanges, revisionExpires, FreshInv, WorldTypes, Versions
<1>. QED  BY <1>1, <1>2 DEF FreshInv

LEMMA RestartKeeps == ASSUME FreshInv, restart PROVE FreshInv'
<1>1. queued' = <<>> /\ active' = {} /\ scheduledDrains' = 0
  BY DEF restart
<1>2. MaintInv'
  <2>1. IsFiniteSet({}) /\ Cardinality({}) = 0
    BY FS_EmptySet
  <2>2. NoIdleSlot'
    BY <1>1, <2>1, MinOfTwo, MaintenanceAssumption DEF NoIdleSlot
  <2>. QED  BY <1>1, <2>1, <2>2, MaintenanceAssumption DEF MaintInv, MaintTypeOK, QueuedOnce
<1>3. WorldTypes' /\ StoredTypes'
  BY DEF restart, FreshInv, WorldTypes, StoredTypes
<1>4. AskedTypes'
  BY FreshnessAssumption DEF restart, FreshInv, AskedTypes
<1>5. BoundTypes'
  BY FreshnessAssumption DEF restart, FreshInv, BoundTypes
<1>6. IndexTypes' /\ ~dirty'
  BY DEF restart, FreshInv, IndexTypes
<1>7. IndexingIsLive'
  BY <1>6, CleanIsLive DEF IndexTypes
<1>8. JobsAreBuilds'
  BY <1>1, EmptyJob DEF restart, JobsAreBuilds
<1>. QED  BY <1>2, <1>3, <1>4, <1>5, <1>6, <1>7, <1>8 DEF FreshInv

LEMMA FreshStarts == FreshInit => FreshInv
<1>. SUFFICES ASSUME FreshInit PROVE FreshInv
  OBVIOUS
<1>1. MaintInv
  BY MaintStarts DEF FreshInit, MaintInit
<1>2. 0 \in Versions
  BY FreshnessAssumption DEF Versions
<1>3. WorldTypes
  BY <1>2 DEF FreshInit, WorldTypes
<1>4. IndexTypes
  BY <1>2 DEF FreshInit, IndexTypes, Record, Statuses, Indexed
<1>5. AskedTypes
  BY FreshnessAssumption DEF FreshInit, AskedTypes
<1>6. StoredTypes
  BY <1>2 DEF FreshInit, StoredTypes, Indexed
<1>7. BoundTypes
  BY FreshnessAssumption DEF FreshInit, BoundTypes
<1>8. JobsAreBuilds
  BY EmptyJob DEF FreshInit, MaintInit, JobsAreBuilds
<1>9. IndexingIsLive
  <2>1. ~dirty
    BY DEF FreshInit
  <2>. QED  BY <1>4, <2>1, SettledRecord DEF IndexingIsLive, loadIndexState, IndexTypes
<1>. QED  BY <1>1, <1>3, <1>4, <1>5, <1>6, <1>7, <1>8, <1>9 DEF FreshInv

LEMMA FreshInvariant == FreshSpec => []FreshInv
<1>1. FreshInv /\ [FreshNext]_freshVars => FreshInv'
  <2>. SUFFICES ASSUME FreshInv, [FreshNext]_freshVars PROVE FreshInv'
    OBVIOUS
  <2>1. CASE readIndexState \/ flushIndexState \/ runAutoIndexSweep \/ restart
    BY <2>1, ReadKeeps, FlushKeeps, SweepKeeps, RestartKeeps
  <2>2. CASE Drain
    BY <2>2, IdleKeeps, SkippedKeeps, StartKeeps DEF Drain
  <2>3. ASSUME NEW s \in Sources, Build(s) PROVE FreshInv'
    BY <2>3, ScanKeeps, EndKeeps, FailKeeps DEF Build
  <2>4. ASSUME NEW s \in Sources, Timer(s) PROVE FreshInv'
    BY <2>4, DebounceKeeps, RetryKeeps, DelayKeeps, ImmediateKeeps DEF Timer
  <2>5. ASSUME NEW s \in Sources, Request(s) PROVE FreshInv'
    BY <2>5, RecoveryKeeps, RouteKeeps, AddKeeps, RemoveKeeps, EnableKeeps DEF Request
  <2>6. ASSUME NEW s \in Sources, sourceChanges(s) \/ revisionExpires(s) PROVE FreshInv'
    BY <2>6, RepositoryKeeps
  <2>7. CASE UNCHANGED freshVars
    <3>1. /\ MaintInv' /\ active' = active /\ WorldTypes' /\ IndexTypes' /\ IndexingIsLive'
          /\ AskedTypes' /\ StoredTypes' /\ BoundTypes' /\ JobsAreBuilds'
      BY <2>7, Unaffected DEF freshVars, index
    <3>. QED  BY <3>1 DEF FreshInv
  <2>. QED  BY <2>1, <2>2, <2>3, <2>4, <2>5, <2>6, <2>7 DEF FreshNext
<1>. QED  BY <1>1, FreshStarts, PTL DEF FreshSpec

\* The index state, the requests, the timers and the builds keep their types.
THEOREM FreshTypeCorrect == FreshSpec => []FreshTypeOK
<1>1. FreshInv => FreshTypeOK
  BY DEF FreshInv, FreshTypeOK, MaintInv, WorldTypes, IndexTypes, AskedTypes, StoredTypes, BoundTypes,
         JobsAreBuilds, Record, Job
<1>. QED  BY <1>1, FreshInvariant, PTL

\* No crash, cancellation, edit of the configuration or delayed write of the index state file
\* leaves a source that is shown as being indexed and that no job works on.
THEOREM ShownIndexingIsLive == FreshSpec => []IndexingIsLive
<1>1. FreshInv => IndexingIsLive
  BY DEF FreshInv
<1>. QED  BY <1>1, FreshInvariant, PTL

\* The builds, with their drains that skip and their restarts, stay within the scheduler's
\* limits and leave no free slot unused.
THEOREM BuildsWithinLimits == FreshSpec => [](WithinLimits /\ NoIdleSlot)
<1>1. FreshInv => WithinLimits /\ NoIdleSlot
  BY MaintInvLimits DEF FreshInv, MaintInv
<1>. QED  BY <1>1, FreshInvariant, PTL

\* reindexSourceInBackground's finally block runs for each way a build ends: the jobs that
\* run are exactly the builds under way.
THEOREM SlotsAreBuilds == FreshSpec => []JobsAreBuilds
<1>1. FreshInv => JobsAreBuilds
  BY DEF FreshInv
<1>. QED  BY <1>1, FreshInvariant, PTL
=============================================================================
