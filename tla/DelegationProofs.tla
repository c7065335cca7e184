-------------------------- MODULE DelegationProofs --------------------------
(* Theorems about Delegation: at most one Codex process per operation, a     *)
(* cancellation that was accepted is honoured, and the packet store sees     *)
(* only its own operations, so that what PacketStoreProofs proves of every   *)
(* use of the store holds while a goal is delegated.                         *)
EXTENDS Delegation, PacketStoreProofs

\* Nothing has been heard of the operation's end yet.
Unheard == result = "none" /\ notice = "none" /\ reported = "none" /\ ~committed

\* An operation that was not submitted has no process, and one whose process is about
\* to be started has none yet: `admitted` is left before the spawn.
NotSpawnedYet ==
    /\ op \in {"absent", "admitted"} => spawned = 0 /\ ~exec.active /\ ~cancelled
    /\ step \in {"admitted", "leased", "submitting", "resubmitting"} => op = "admitted"
    /\ step = "spawning" => op = "submitted" /\ spawned = 0

\* Until the execution is settled nothing has been heard of it; a commit is under way
\* only for a completed result.
HeardOnlyOnce ==
    /\ op \in {"absent", "admitted"} \/ exec.active => Unheard
    /\ step = "spawning" => exec.active
    /\ notice = "committing" => result = "completed"

\* What an accepted cancellation leaves possible.
CancelRemembered ==
    cancelled => /\ op \in {"cancellation_requested", "cancelled", "ambiguous"}
                 /\ exec.active => exec.cancel
                 /\ result # "completed" /\ reported # "completed" /\ ~committed

\* The inductive invariant behind SpawnOnce and CancelHonoured.
DelegInv == DelegTypeOK /\ SpawnOnce /\ NotSpawnedYet /\ HeardOnlyOnce /\ CancelRemembered

-----------------------------------------------------------------------------
\* What the adapter may write to the operation, lifecycle by lifecycle.
LEMMA TransitionsOf ==
  ASSUME NEW next, transition(next), op \in Lifecycles
  PROVE  /\ op' = next /\ next \in Lifecycles
         /\ op = "absent" => next = "admitted"
         /\ op = "admitted" => next = "submitted"
         /\ op = "submitted" => next \in {"running", "completed", "failed", "cancellation_requested", "ambiguous"}
         /\ op = "running" => next \in {"completed", "failed", "cancellation_requested", "ambiguous"}
         /\ op = "cancellation_requested" => next \in {"cancelled", "ambiguous"}
         /\ op \notin OpTerminal
  BY DEF transition, TRANSITIONS, Lifecycles, OpTerminal

\* Settling an execution leaves the operation terminal, or as it was when the write is
\* lost, and never turns a cancellation into a completion.
LEMMA FinalizeOutcome ==
  ASSUME DelegTypeOK, NEW l \in {"completed", "failed", "cancelled", "ambiguous"}, finalize(l)
  PROVE  /\ exec' = NoExecution /\ notice' = "due"
         /\ result' \in OpTerminal /\ (result' = "completed" => l = "completed")
         /\ op' \in Lifecycles /\ faults' \in 0 .. MaxFaults
         /\ op' \in OpTerminal \/ op' = op
         /\ op = "cancellation_requested" => op' \in {"cancellation_requested", "cancelled", "ambiguous"}
         /\ op = "ambiguous" => op' = "ambiguous"
         /\ op = "cancelled" => op' = "cancelled"
<1>1. PICK v \in Verified(l) :
         /\ result' = v
         /\ \/ transition(Recorded(v)) /\ UNCHANGED faults
            \/ Fault /\ (transition("ambiguous") \/ UNCHANGED op)
  BY DEF finalize
<1>2. v \in OpTerminal /\ (v = "completed" => l = "completed") /\ Recorded(v) \in OpTerminal
  BY DEF Verified, Recorded, OpTerminal
<1>3. faults' \in 0 .. MaxFaults
  BY <1>1, DelegationAssumption DEF Fault, DelegTypeOK
<1>4. op \in Lifecycles
  BY DEF DelegTypeOK
<1>5. CASE transition(Recorded(v))
  BY <1>1, <1>2, <1>3, <1>4, <1>5, TransitionsOf DEF finalize, OpTerminal, Lifecycles
<1>6. CASE transition("ambiguous")
  BY <1>1, <1>2, <1>3, <1>4, <1>6, TransitionsOf DEF finalize, OpTerminal, Lifecycles
<1>7. CASE UNCHANGED op
  BY <1>1, <1>2, <1>3, <1>4, <1>7 DEF finalize, OpTerminal, Lifecycles
<1>. QED  BY <1>1, <1>5, <1>6, <1>7

\* The three shapes an execution of the adapter is given.
LEMMA Executions ==
  /\ NoExecution \in [active : BOOLEAN, cancel : BOOLEAN, governed : BOOLEAN]
  /\ NoExecution.active = FALSE
  /\ \A g \in BOOLEAN : LET e == [active |-> TRUE, cancel |-> FALSE, governed |-> g]
                         IN  /\ e \in [active : BOOLEAN, cancel : BOOLEAN, governed : BOOLEAN]
                             /\ e.active /\ ~e.cancel
  /\ \A e \in [active : BOOLEAN, cancel : BOOLEAN, governed : BOOLEAN] :
        LET c == [e EXCEPT !.cancel = TRUE]
        IN  /\ c \in [active : BOOLEAN, cancel : BOOLEAN, governed : BOOLEAN]
            /\ c.active = e.active /\ c.cancel
  BY DEF NoExecution

\* The initial state satisfies the invariant.
LEMMA DelegInvInit == DelegInit => DelegInv
<1>1. DelegInit => /\ committed \in BOOLEAN /\ scheduled \in BOOLEAN /\ cancelled \in BOOLEAN
                   /\ ~committed /\ ~cancelled
  BY DEF DelegInit
<1>. QED
  BY <1>1, DelegationAssumption, Executions
  DEF DelegInit, DelegInv, DelegTypeOK, SpawnOnce, NotSpawnedYet, HeardOnlyOnce, CancelRemembered,
      Unheard, Lifecycles, RunTerminal, OpTerminal

\* The dispatch.
LEMMA DispatchKeepsInv == DelegInv /\ Dispatch => DelegInv'
<1>. SUFFICES ASSUME DelegInv, Dispatch PROVE DelegInv'
  OBVIOUS
<1>. USE DEF DelegInv, DelegTypeOK, SpawnOnce, NotSpawnedYet, HeardOnlyOnce, CancelRemembered, Unheard
<1>1. CASE dispatchWorkbenchGoal
  BY <1>1 DEF dispatchWorkbenchGoal, Idle, bounds
<1>2. CASE prepareDelegation
  <2>1. CASE transition("admitted")
    BY <1>2, <2>1, TransitionsOf, DelegationAssumption
    DEF prepareDelegation, OpTerminal, Lifecycles, Fault, refuse
  <2>2. CASE Fault /\ refuse /\ UNCHANGED op
    BY <1>2, <2>2, DelegationAssumption DEF prepareDelegation, Fault, refuse
  <2>. QED  BY <1>2, <2>1, <2>2 DEF prepareDelegation
<1>3. CASE leasePacket
  BY <1>3 DEF leasePacket, refuse, bounds
<1>4. CASE createWorktree
  BY <1>4, DelegationAssumption DEF createWorktree, refuse, Fault
<1>. QED  BY <1>1, <1>2, <1>3, <1>4 DEF Dispatch

\* The adapter.
LEMMA AdapterKeepsInv == DelegInv /\ Adapter => DelegInv'
<1>. SUFFICES ASSUME DelegInv, Adapter PROVE DelegInv'
  OBVIOUS
<1>. USE DEF DelegInv, DelegTypeOK, SpawnOnce, NotSpawnedYet, HeardOnlyOnce, CancelRemembered, Unheard
<1>1. CASE submitRoute
  BY <1>1 DEF submitRoute, durable, bounds
<1>2. CASE submit
  <2>1. PICK g \in BOOLEAN : exec' = [active |-> TRUE, cancel |-> FALSE, governed |-> g]
    BY <1>2, (Governed /\ step = "submitting") \in BOOLEAN DEF submit
  <2>. QED  BY <1>2, <2>1, TransitionsOf, Executions DEF submit, Submitting, OpTerminal, bounds
<1>3. CASE submitRefused
  BY <1>3 DEF submitRefused, refuse, Submitting, Lifecycles, OpTerminal, bounds
<1>4. CASE spawnEvent
  <2>1. CASE transition("running") /\ child' = "alive" /\ spawned' = spawned + 1
    BY <1>4, <2>1, TransitionsOf, Executions DEF spawnEvent, OpTerminal
  <2>2. CASE finalize("failed") /\ UNCHANGED <<child, spawned>>
    BY <1>4, <2>2, FinalizeOutcome, Executions DEF spawnEvent, OpTerminal
  <2>. QED  BY <1>4, <2>1, <2>2 DEF spawnEvent
<1>5. CASE childCloses
  <2>1. PICK l \in Closed : finalize(l)
    BY <1>5 DEF childCloses
  <2>. QED  BY <1>5, <2>1, FinalizeOutcome, Executions DEF childCloses, Closed, Idle, OpTerminal
<1>6. CASE childTimesOut
  BY <1>6, FinalizeOutcome, Executions DEF childTimesOut, Idle, OpTerminal
<1>7. CASE childEndsLate
  BY <1>7 DEF childEndsLate, memory, bounds
<1>8. CASE cancel
  BY <1>8, TransitionsOf, Executions DEF cancel, Idle, OpTerminal, bounds
<1>9. CASE reconcile
  BY <1>9, TransitionsOf DEF reconcile, Idle, memory, OpTerminal, bounds
<1>. QED  BY <1>1, <1>2, <1>3, <1>4, <1>5, <1>6, <1>7, <1>8, <1>9 DEF Adapter

\* The lifecycle callback.
LEMMA CallbackKeepsInv == DelegInv /\ Callback => DelegInv'
<1>. SUFFICES ASSUME DelegInv, Callback PROVE DelegInv'
  OBVIOUS
<1>. USE DEF DelegInv, DelegTypeOK, SpawnOnce, NotSpawnedYet, HeardOnlyOnce, CancelRemembered, Unheard
<1>1. CASE noticeDropped
  BY <1>1 DEF noticeDropped, durable, bounds
<1>2. CASE commitStarts
  BY <1>2 DEF commitStarts, durable, bounds
<1>3. CASE gitCommits
  BY <1>3 DEF gitCommits, memory, bounds
<1>4. CASE reportResult
  BY <1>4 DEF reportResult, report, Verdict, Terminal, OpTerminal, bounds
<1>5. CASE reportCommit
  BY <1>5 DEF reportCommit, report, Terminal, bounds
<1>6. CASE settleRun
  BY <1>6, DelegationAssumption DEF settleRun, Fault, Terminal, RunTerminal
<1>. QED  BY <1>1, <1>2, <1>3, <1>4, <1>5, <1>6 DEF Callback

\* Control requests, the background preflight and the local worker.
LEMMA OwnerKeepsInv == DelegInv /\ Owner => DelegInv'
<1>. SUFFICES ASSUME DelegInv, Owner PROVE DelegInv'
  OBVIOUS
<1>. USE DEF DelegInv, DelegTypeOK, SpawnOnce, NotSpawnedYet, HeardOnlyOnce, CancelRemembered, Unheard
<1>1. ASSUME NEW action \in {"pause", "resume", "cancel"}, control(action) PROVE DelegInv'
  BY <1>1, DelegationAssumption DEF control, RunAfter, RunTerminal
<1>2. CASE preflightStarts
  BY <1>2 DEF preflightStarts, bounds
<1>3. CASE preflightCommandEnds
  BY <1>3 DEF preflightCommandEnds, RunTerminal, bounds
<1>4. CASE drainQueuedWorkbenchPackets
  BY <1>4 DEF drainQueuedWorkbenchPackets, durable, bounds
<1>5. CASE localClaims
  <2>1. scheduled' \in BOOLEAN
    BY <1>5 DEF localClaims
  <2>. QED  BY <1>5, <2>1 DEF localClaims, durable, bounds
<1>6. CASE localEnds
  BY <1>6 DEF localEnds, memory, RunTerminal, bounds
<1>. QED  BY <1>1, <1>2, <1>3, <1>4, <1>5, <1>6 DEF Owner

\* Time, death, restart and the operator.
LEMMA WorldKeepsInv == DelegInv /\ World => DelegInv'
<1>. SUFFICES ASSUME DelegInv, World PROVE DelegInv'
  OBVIOUS
<1>. USE DEF DelegInv, DelegTypeOK, SpawnOnce, NotSpawnedYet, HeardOnlyOnce, CancelRemembered, Unheard
<1>1. CASE leaseRunsOut \/ recoverStale \/ operatorRemovesLock
  BY <1>1 DEF leaseRunsOut, recoverStale, operatorRemovesLock, memory, durable, bounds
<1>2. CASE die
  <2>1. scheduled' \in BOOLEAN
    BY <1>2 DEF die
  <2>. QED  BY <1>2, <2>1, DelegationAssumption, Executions DEF die, Fault, durable
<1>3. CASE recoverJournal
  BY <1>3 DEF recoverJournal, durable, bounds
<1>. QED  BY <1>1, <1>2, <1>3 DEF World

\* The invariant is inductive.
LEMMA DelegInvStep == DelegInv /\ [DelegNext]_delegVars => DelegInv'
<1>1. DelegInv /\ UNCHANGED delegVars => DelegInv'
  BY DEF delegVars, memory, durable, bounds, DelegInv, DelegTypeOK, SpawnOnce, NotSpawnedYet,
         HeardOnlyOnce, CancelRemembered, Unheard
<1>. QED  BY <1>1, DispatchKeepsInv, AdapterKeepsInv, CallbackKeepsInv, OwnerKeepsInv, WorldKeepsInv
          DEF DelegNext

\* The types of the delegation are kept.
THEOREM DelegTypeCorrect == DelegSpec => []DelegTypeOK
<1>1. DelegInv => DelegTypeOK
  BY DEF DelegInv
<1>. QED  BY DelegInvInit, DelegInvStep, <1>1, PTL DEF DelegSpec

\* However often the goal is dispatched again, the operation submitted by hand, the
\* process restarted or a write lost, at most one Codex process is started.
THEOREM OneProcessPerOperation == DelegSpec => []SpawnOnce
<1>1. DelegInv => SpawnOnce
  BY DEF DelegInv
<1>. QED  BY DelegInvInit, DelegInvStep, <1>1, PTL DEF DelegSpec

\* Once the adapter has accepted a cancellation nothing completes and nothing is
\* committed, whatever the child, the timer and the callback do.
THEOREM CancellationHonoured == DelegSpec => []CancelHonoured
<1>1. DelegInv => CancelHonoured
  BY DEF DelegInv, CancelRemembered, CancelHonoured
<1>. QED  BY DelegInvInit, DelegInvStep, <1>1, PTL DEF DelegSpec

\* A step never moves a settled operation or replaces a result.
Steady == /\ op \in OpTerminal => op' = op
          /\ result # "none" => result' \in {result, "none"}

\* Settling an execution keeps an operation that is settled already.
LEMMA FinalizeSteady ==
  ASSUME DelegTypeOK, NEW l \in {"completed", "failed", "cancelled", "ambiguous"}, finalize(l),
         result = "none"
  PROVE  Steady
<1>1. op \in Lifecycles
  BY DEF DelegTypeOK
<1>2. \A v : transition(v) => op \notin OpTerminal
  BY <1>1, TransitionsOf
<1>. QED  BY <1>2 DEF Steady, finalize

\* Every step is steady.
LEMMA StepsAreSteady == DelegInv /\ [DelegNext]_delegVars => Steady
<1>. SUFFICES ASSUME DelegInv, [DelegNext]_delegVars PROVE Steady
  OBVIOUS
<1>0. /\ DelegTypeOK /\ op \in Lifecycles
      /\ \A v : transition(v) => op \notin OpTerminal
      /\ step \in {"submitting", "resubmitting"} => op = "admitted"
      /\ op = "admitted" \/ exec.active \/ step = "spawning" => result = "none"
  BY TransitionsOf DEF DelegInv, DelegTypeOK, NotSpawnedYet, HeardOnlyOnce, Unheard
<1>1. ASSUME op' = op, result' \in {result, "none"} PROVE Steady
  BY <1>1 DEF Steady
<1>2. CASE Dispatch
  BY <1>0, <1>1, <1>2 DEF Dispatch, dispatchWorkbenchGoal, prepareDelegation, leasePacket, createWorktree, Steady
<1>3. CASE Adapter
  <2>1. CASE submitRoute \/ childEndsLate
    BY <1>1, <2>1 DEF submitRoute, childEndsLate, durable, memory
  <2>2. CASE submit \/ cancel \/ reconcile
    BY <1>0, <2>2 DEF submit, cancel, reconcile, memory, Steady
  <2>3. CASE submitRefused
    BY <1>0, <2>3 DEF submitRefused, Submitting, Steady, OpTerminal
  <2>4. CASE spawnEvent
    BY <1>0, <2>4, FinalizeSteady DEF spawnEvent, Steady
  <2>5. CASE childCloses
    BY <1>0, <2>5, FinalizeSteady DEF childCloses, Closed
  <2>6. CASE childTimesOut
    BY <1>0, <2>6, FinalizeSteady DEF childTimesOut
  <2>. QED  BY <1>3, <2>1, <2>2, <2>3, <2>4, <2>5, <2>6 DEF Adapter
<1>4. CASE Callback
  BY <1>1, <1>4 DEF Callback, noticeDropped, commitStarts, gitCommits, reportResult, reportCommit, report,
                    settleRun, durable, memory
<1>5. CASE Owner
  BY <1>1, <1>5 DEF Owner, control, preflightStarts, preflightCommandEnds,
                    drainQueuedWorkbenchPackets, localClaims, localEnds, durable, memory
<1>6. CASE World
  BY <1>1, <1>6 DEF World, leaseRunsOut, recoverStale, die, recoverJournal, operatorRemovesLock,
                    durable, memory
<1>7. CASE UNCHANGED delegVars
  BY <1>1, <1>7 DEF delegVars, durable, memory
<1>. QED  BY <1>2, <1>3, <1>4, <1>5, <1>6, <1>7 DEF DelegNext

\* An operation that was settled stays as it was settled, and a result is not replaced
\* as long as the process lives: a late close, a reconciliation or a second submission
\* change nothing.
THEOREM OperationSettledOnce == DelegSpec => SettledOnce
<1>1. DelegInv /\ [DelegNext]_delegVars =>
        [/\ op \in OpTerminal => op' = op
         /\ result # "none" => result' \in {result, "none"}]_delegVars
  BY StepsAreSteady DEF Steady
<1>. QED  BY DelegInvInit, DelegInvStep, <1>1, PTL DEF DelegSpec, SettledOnce

-----------------------------------------------------------------------------
\* The goal packet and the run of it, as the store knows them.
LEMMA GoalIsKnown ==
  Goal \in Packets /\ RunOf[Goal] \in Runs /\ Codex \in Workers /\ Local \in Workers
  BY StoreAssumption, DelegationAssumption

\* A status the dispatch or the callback writes reaches the store as its own operation,
\* or not at all.
LEMMA WriteStatusIsStoreStep ==
  ASSUME NEW s \in Statuses, writeStatus(s)
  PROVE  [StoreNext]_storeVars
  BY GoalIsKnown DEF writeStatus, StoreNext

\* Every step of the delegation is a step of the store, or leaves it alone.
LEMMA StepSimulatesStore == [DelegNext]_delegVars => [StoreNext]_storeVars
<1>. SUFFICES ASSUME [DelegNext]_delegVars PROVE [StoreNext]_storeVars
  OBVIOUS
<1>. DEFINE Allowed == [StoreNext]_storeVars
<1>0. UNCHANGED storeVars => Allowed
  OBVIOUS
<1>1. \A w \in Workers : claimPacket(w, Goal) => Allowed
  BY GoalIsKnown DEF StoreNext
<1>2. refuse => Allowed
  BY WriteStatusIsStoreStep DEF refuse, Statuses, Terminal
<1>3. ASSUME NEW s \in Statuses, writeStatus(s) PROVE Allowed
  BY <1>3, WriteStatusIsStoreStep
<1>4. CASE Dispatch
  <2>1. reserveWorkbenchPacket(Goal) => Allowed
    BY GoalIsKnown DEF StoreNext
  <2>2. "running" \in Statuses
    BY DEF Statuses
  <2>. QED  BY <1>0, <1>1, <1>2, <1>3, <1>4, <2>1, <2>2, GoalIsKnown
            DEF Dispatch, dispatchWorkbenchGoal, prepareDelegation, leasePacket, createWorktree
<1>5. CASE Adapter
  BY <1>0, <1>2, <1>5 DEF Adapter, submitRoute, submit, submitRefused, spawnEvent, childCloses,
                          childTimesOut, childEndsLate, cancel, reconcile
<1>6. CASE Callback
  <2>1. {"failed", "completed"} \subseteq Statuses /\ Verdict \in Statuses
    BY DEF Statuses, Terminal, Verdict
  <2>. QED  BY <1>0, <1>3, <1>6, <2>1 DEF Callback, noticeDropped, commitStarts, gitCommits, reportResult,
                                   reportCommit, report, settleRun
<1>7. CASE Owner
  <2>1. \A a \in {"pause", "resume", "cancel"} : controlWorkbenchPacketsForRun(RunOf[Goal], a) => Allowed
    BY GoalIsKnown DEF StoreNext
  <2>2. \A s \in Statuses : finalizeWorkbenchPacketExecution(Local, s) => Allowed
    BY GoalIsKnown DEF StoreNext
  <2>3. LocalOutcomes \subseteq Statuses
    BY DEF LocalOutcomes, Statuses, Terminal
  <2>. QED  BY <1>0, <1>1, <1>7, <2>1, <2>2, <2>3, GoalIsKnown
            DEF Owner, control, preflightStarts, preflightCommandEnds, drainQueuedWorkbenchPackets,
                localClaims, localEnds
<1>8. CASE World
  <2>1. \/ LeaseExpires(Goal) \/ recoverStaleWorkbenchPacketLeases \/ WorkersDie(Workers)
        \/ recoverInterruptedWorkbenchPacket(Goal) \/ OperatorRemovesLock
        => Allowed
    BY GoalIsKnown DEF StoreNext
  <2>. QED  BY <1>0, <1>8, <2>1
            DEF World, leaseRunsOut, recoverStale, die, recoverJournal, operatorRemovesLock
<1>9. CASE UNCHANGED delegVars
  BY <1>0, <1>9 DEF delegVars
<1>. QED  BY <1>4, <1>5, <1>6, <1>7, <1>8, <1>9 DEF DelegNext

\* The packet store sees nothing of a delegation but its own operations.
THEOREM DelegationUsesStore == DelegSpec => DelegImplementsStore
<1>1. DelegInit => StoreInit
  BY DEF DelegInit
<1>. QED  BY <1>1, StepSimulatesStore, PTL DEF DelegSpec, DelegImplementsStore, StoreSpec

\* So the dispatch, the local worker, stale recovery and restarts never take a packet
\* from a worker whose lease has neither expired nor been overruled.
COROLLARY DelegatedLeaseExclusive == DelegSpec => []NoLiveLeaseTaken
  BY DelegationUsesStore, LiveLeaseExclusive DEF DelegImplementsStore
=============================================================================
