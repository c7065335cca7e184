------------------------ MODULE PacketExecutionProofs ------------------------
(* Theorems about PacketExecution, for any number of packets, runs, worker   *)
(* cycles, control requests and process deaths: execution uses the packet    *)
(* store as the store means to be used, and no packet has two executors.     *)
(* What only holds of a process that does not die, of one cycle at a time or *)
(* of packets with paths of their own says so in its hypothesis.             *)
EXTENDS PacketExecution, PacketStoreProofs, FiniteSetTheorems

\* The places between which a cycle does not give the event loop back.
Sections == {"claimed", "journaled", "finalized", "advancing", "catching", "rolledBack", "settled"}

\* Only the cycle that holds the event loop is inside a section.
SectionsOwned == \A w \in Workers : pc[w] \in Sections => loop = w

\* A process that is down, or starting, has no cycles.
CyclesRun == \A w \in Workers : pc[w] # "idle" => proc \in {"up", "dying"}

\* A cycle has a packet, which is scheduled for it alone.
JobsScheduled ==
    \A w \in Workers : /\ pc[w] # "idle" => job[w] \in Packets /\ job[w] \in scheduled
                       /\ pc[w] = "idle" => job[w] = NoPacket

\* The lease a cycle remembers is that of its packet, and it is forgotten with the
\* finalization, before which there is no way to a new cycle.
LeaseOfJob ==
    \A w \in Workers :
        /\ holds[w] # NoLease => holds[w].packet = job[w] /\ holds[w].token # 0
        /\ pc[w] \in {"idle", "scheduled", "finalized", "advancing", "settled"} => holds[w] = NoLease

\* What orders the cycles of one process.
CyclesOrdered == SectionsOwned /\ CyclesRun /\ JobsScheduled /\ LeaseOfJob /\ SingleExecutor

\* The journals the startup recovery has still to look at are there.
RecoveryFound == proc = "recovering" => \A p \in toRecover : journal[p] # NoJournal

\* The part of the inductive invariant that every theorem needs.
ExecCore == ExecTypeOK /\ CyclesOrdered /\ RecoveryFound

-----------------------------------------------------------------------------
(* The packet store under execution.                                         *)

LEMMA StatusesKnown ==
  /\ {"queued", "running", "completed", "failed", "paused", "cancelled"} \subseteq Statuses
  /\ \A kind : OutcomeOf(kind) \in {"paused", "cancelled", "failed"}
  BY DEF Statuses, Terminal, OutcomeOf

\* Giving a lease back, refused or not, is an operation of the store; so is forgetting
\* a lease that is not there.
LEMMA GivesBack ==
  ASSUME NEW w \in Workers, Forget(w), UNCHANGED <<clock, leaseSeq, lockLeft, lapsed>>,
         ExecCore,
         \/ records' = Released(w, "queued")
         \/ \E s \in {"completed", "failed", "paused", "cancelled"} : records' = Finalized(w, s)
         \/ records' = records /\ holds[w] = NoLease
  PROVE  [StoreNext]_storeVars
<1>1. CASE holds[w] = NoLease
  <2>1. holds' = holds
    BY <1>1 DEF Forget, ExecCore, ExecTypeOK, StoreTypeOK
  <2>2. records' = records
    BY <1>1 DEF Released, Finalized, Leased, NoLease
  <2>. QED  BY <2>1, <2>2 DEF storeVars
<1>2. CASE holds[w] # NoLease
  <2>1. CASE records' = Released(w, "queued")
    BY <1>2, <2>1, StatusesKnown DEF StoreNext, releaseWorkbenchPacketLease
  <2>2. ASSUME NEW s \in {"completed", "failed", "paused", "cancelled"}, records' = Finalized(w, s)
        PROVE  [StoreNext]_storeVars
    <3>1. finalizeWorkbenchPacketExecution(w, s) /\ s \in Statuses
      BY <1>2, <2>2, StatusesKnown DEF finalizeWorkbenchPacketExecution
    <3>. QED  BY <3>1 DEF StoreNext
  <2>. QED  BY <1>2, <2>1, <2>2
<1>. QED  BY <1>1, <1>2

\* Every step of the process is a step of the store, or leaves it alone.
LEMMA StepSimulatesStore ==
  ASSUME ExecCore, [ExecNext]_vars
  PROVE  [StoreNext]_storeVars
<1>. DEFINE Allowed == [StoreNext]_storeVars
<1>0. UNCHANGED storeVars => Allowed
  OBVIOUS
<1>. USE DEF storeVars
<1>1. ASSUME NEW p \in Packets, reservePacket(p) \/ leaseTimePasses(p) \/ recoverExecutionJournal(p)
      PROVE  Allowed
  <2>1. reserveWorkbenchPacket(p) \/ LeaseExpires(p) \/ recoverInterruptedWorkbenchPacket(p) => Allowed
    BY DEF StoreNext
  <2>. QED  BY <1>0, <1>1, <2>1 DEF reservePacket, leaseTimePasses, recoverExecutionJournal
<1>2. ASSUME NEW w \in Workers, NEW p \in Packets, scheduleWorkbenchPacket(w, p)
      PROVE  Allowed
  BY <1>0, <1>2 DEF scheduleWorkbenchPacket
<1>3. ASSUME NEW w \in Workers, claimForExecution(w)
      PROVE  Allowed
  <2>1. job[w] \in Packets
    BY <1>3 DEF ExecCore, CyclesOrdered, JobsScheduled, claimForExecution
  <2>. QED  BY <1>3, <2>1 DEF claimForExecution, StoreNext
<1>4. ASSUME NEW w \in Workers, requeueBeforeMutation(w) \/ claimRefused(w) \/ dropJournal(w)
                                \/ advanceWorkbenchRunAfterPacket(w)
      PROVE  Allowed
  <2>1. CASE requeueBeforeMutation(w)
    BY <2>1, GivesBack DEF requeueBeforeMutation, EndCycle
  <2>2. CASE claimRefused(w) \/ dropJournal(w) \/ advanceWorkbenchRunAfterPacket(w)
    <3>1. holds[w] = NoLease /\ Forget(w) /\ UNCHANGED <<records, clock, leaseSeq, lockLeft, lapsed>>
      BY <2>2 DEF claimRefused, dropJournal, advanceWorkbenchRunAfterPacket, EndCycle, At, ExecCore, CyclesOrdered, LeaseOfJob
    <3>. QED  BY <3>1, GivesBack
  <2>. QED  BY <1>4, <2>1, <2>2
<1>5. ASSUME NEW w \in Workers, settle(w) \/ rollBackFails(w)
      PROVE  Allowed
  <2>1. Forget(w) /\ UNCHANGED <<clock, leaseSeq, lockLeft, lapsed>>
    BY <1>5 DEF settle, rollBackFails, EndCycle
  <2>2. \E s \in {"completed", "failed", "paused", "cancelled"} : records' = Finalized(w, s)
    BY <1>5, StatusesKnown DEF settle, rollBackFails
  <2>. QED  BY <2>1, <2>2, GivesBack
<1>6. ASSUME NEW w \in Workers, prepareJournal(w) \/ applySteps(w) \/ completeJournal(w)
                                \/ advanceThrows(w) \/ rollBack(w)
      PROVE  Allowed
  BY <1>0, <1>6 DEF prepareJournal, applySteps, completeJournal, advanceThrows, rollBack
<1>7. ASSUME NEW w \in Workers, UNCHANGED <<clock, leaseSeq, lockLeft, lapsed>>, FinalizeCompleted(w)
      PROVE  Allowed
  BY <1>0, <1>7, GivesBack DEF FinalizeCompleted, CommandFails
<1>8. ASSUME NEW w \in Workers, NEW next, UNCHANGED <<clock, leaseSeq, lockLeft, lapsed>>,
             CheckThen(w, next) \/ CommandFails(w)
      PROVE  Allowed
  BY <1>0, <1>7, <1>8 DEF CheckThen, CommandFails
<1>9. ASSUME NEW w \in Workers, goalCommandEnds(w) \/ gitAddRuns(w) \/ verifyStaged(w)
                                \/ gitCommitRuns(w) \/ gitFails(w)
      PROVE  Allowed
  BY <1>0, <1>8, <1>9 DEF goalCommandEnds, gitAddRuns, verifyStaged, gitCommitRuns, gitFails, ExecutionFrame
<1>10. ASSUME NEW w \in Workers, validationEnds(w) \/ scanEnds(w) \/ verifyCommitted(w)
       PROVE  Allowed
  BY <1>8, <1>10 DEF validationEnds, scanEnds, verifyCommitted, ExecutionFrame
<1>11. ASSUME NEW w \in Workers, Cycle(w)
       PROVE  Allowed
  BY <1>3, <1>4, <1>5, <1>6, <1>9, <1>10, <1>11 DEF Cycle
<1>12. ASSUME NEW w \in Workers, renewalTimer(w)
       PROVE  Allowed
  BY <1>12 DEF renewalTimer, StoreNext
<1>13. ASSUME NEW r \in Runs, NEW a \in ControlActions, control(r, a) \/ controlCutShort(r, a)
       PROVE  Allowed
  <2>1. ASSUME NEW c \in {"pause", "resume", "cancel"}, ControlPackets(r, c)
        PROVE  Allowed
    BY <2>1 DEF ControlPackets, StoreNext
  <2>2. a \in {"pause", "resume", "cancel", "close"}
    BY ExecutionAssumption
  <2>. QED  BY <1>0, <1>13, <2>1, <2>2 DEF control, controlCutShort
<1>14. CASE recoverStale \/ crash \/ operatorRemovesLock \/ restart \/ serve
  <2>1. recoverStaleWorkbenchPacketLeases \/ WorkersDie(Workers) \/ OperatorRemovesLock => Allowed
    BY DEF StoreNext
  <2>. QED  BY <1>0, <1>14, <2>1 DEF recoverStale, crash, operatorRemovesLock, restart, serve
<1>. QED  BY <1>0, <1>1, <1>2, <1>11, <1>12, <1>13, <1>14 DEF ExecNext, vars

-----------------------------------------------------------------------------
(* The order of the cycles.                                                  *)

\* A cycle goes to its next place, inside a section or out of it.
LEMMA MoveKeepsOrder ==
  ASSUME ExecCore, NEW w \in Workers, NEW place \in Places \ {"idle", "scheduled"},
         proc = "up", proc' = "up", loop \in {NoWorker, w}, pc[w] # "idle",
         pc' = [pc EXCEPT ![w] = place],
         loop' = w \/ (loop' = NoWorker /\ place \notin Sections),
         UNCHANGED <<job, scheduled>>,
         \/ holds' = holds /\ (place \in {"finalized", "advancing", "settled"} => holds[w] = NoLease)
         \/ Forget(w)
  PROVE  CyclesOrdered'
<1>. USE DEF ExecCore, ExecTypeOK, CyclesOrdered
<1>1. \A v \in Workers : pc'[v] = IF v = w THEN place ELSE pc[v]
  OBVIOUS
<1>2. \A v \in Workers : v # w => holds'[v] = holds[v]
  BY DEF Forget, StoreTypeOK
<1>3. holds'[w] = NoLease \/ (holds'[w] = holds[w] /\ place \notin {"finalized", "advancing", "settled"})
  BY DEF Forget, StoreTypeOK
<1>4. SectionsOwned'
  BY <1>1, StoreAssumption DEF SectionsOwned
<1>5. CyclesRun' /\ JobsScheduled' /\ SingleExecutor'
  BY <1>1 DEF CyclesRun, JobsScheduled, SingleExecutor
<1>6. LeaseOfJob'
  BY <1>1, <1>2, <1>3 DEF LeaseOfJob
<1>. QED  BY <1>4, <1>5, <1>6

\* A child process of Git takes effect: its cycle stays outside the sections.
LEMMA ChildKeepsOrder ==
  ASSUME ExecCore, NEW w \in Workers, NEW place \in {"staged", "committed"},
         proc = "up", proc' = "up", pc[w] \in {"staging", "committing"},
         pc' = [pc EXCEPT ![w] = place], UNCHANGED <<loop, job, scheduled, holds>>
  PROVE  CyclesOrdered'
<1>. USE DEF ExecCore, ExecTypeOK, CyclesOrdered
<1>1. \A v \in Workers : pc'[v] = IF v = w THEN place ELSE pc[v]
  OBVIOUS
<1>. QED  BY <1>1 DEF SectionsOwned, CyclesRun, JobsScheduled, SingleExecutor, LeaseOfJob, Sections

\* A cycle ends: its packet may be scheduled again, the others' packets stay scheduled.
LEMMA EndKeepsOrder ==
  ASSUME ExecCore, NEW w \in Workers, proc = "up", proc' = "up", loop \in {NoWorker, w},
         pc[w] # "idle", EndCycle(w)
  PROVE  CyclesOrdered'
<1>. USE DEF ExecCore, ExecTypeOK, CyclesOrdered
<1>1. \A v \in Workers : /\ pc'[v] = IF v = w THEN "idle" ELSE pc[v]
                         /\ job'[v] = IF v = w THEN NoPacket ELSE job[v]
                         /\ holds'[v] = IF v = w THEN NoLease ELSE holds[v]
  BY DEF EndCycle, Await, Forget, StoreTypeOK
<1>2. scheduled' = scheduled \ {job[w]} /\ loop' = NoWorker
  BY DEF EndCycle, Await
<1>3. \A v \in Workers : pc[v] # "idle" /\ v # w => job[v] # job[w]
  BY StoreAssumption DEF JobsScheduled, SingleExecutor
<1>4. SectionsOwned' /\ CyclesRun' /\ LeaseOfJob' /\ SingleExecutor'
  BY <1>1, <1>2, StoreAssumption DEF SectionsOwned, CyclesRun, LeaseOfJob, SingleExecutor, Sections
<1>5. JobsScheduled'
  BY <1>1, <1>2, <1>3 DEF JobsScheduled
<1>. QED  BY <1>4, <1>5

\* No cycle moves.
LEMMA StillKeepsOrder ==
  ASSUME ExecCore, UNCHANGED <<loop, pc, job, scheduled, holds>>,
         proc' = proc \/ proc' \in {"up", "dying"} \/ \A w \in Workers : pc[w] = "idle"
  PROVE  CyclesOrdered'
  BY DEF ExecCore, CyclesOrdered, SectionsOwned, CyclesRun, JobsScheduled, SingleExecutor, LeaseOfJob

LEMMA ScheduleKeepsOrder ==
  ASSUME ExecCore, NEW w \in Workers, NEW p \in Packets, scheduleWorkbenchPacket(w, p)
  PROVE  CyclesOrdered'
<1>. USE DEF ExecCore, ExecTypeOK, CyclesOrdered
<1>1. \A v \in Workers : /\ pc'[v] = IF v = w THEN "scheduled" ELSE pc[v]
                         /\ job'[v] = IF v = w THEN p ELSE job[v]
  BY DEF scheduleWorkbenchPacket, Await
<1>2. /\ scheduled' = scheduled \cup {p} /\ loop' = NoWorker /\ loop = NoWorker /\ p \notin scheduled
      /\ pc[w] = "idle" /\ proc = "up" /\ proc' = "up" /\ holds' = holds
  BY DEF scheduleWorkbenchPacket, Await, Idle, storeVars
<1>3. \A v \in Workers : job[v] # p
  BY <1>2, StoreAssumption DEF JobsScheduled
<1>4. SectionsOwned' /\ CyclesRun' /\ JobsScheduled' /\ SingleExecutor'
  BY <1>1, <1>2, <1>3, StoreAssumption DEF SectionsOwned, CyclesRun, JobsScheduled, SingleExecutor, Sections
<1>5. LeaseOfJob'
  BY <1>1, <1>2 DEF LeaseOfJob
<1>. QED  BY <1>4, <1>5

LEMMA ClaimKeepsOrder ==
  ASSUME ExecCore, NEW w \in Workers, claimForExecution(w), StoreTypeOK'
  PROVE  CyclesOrdered'
<1>. USE DEF ExecCore, ExecTypeOK, CyclesOrdered
<1>1. \A v \in Workers : pc'[v] = IF v = w THEN "claimed" ELSE pc[v]
  BY DEF claimForExecution, Go
<1>2. /\ loop' = w /\ loop = NoWorker /\ pc[w] = "scheduled" /\ proc = "up"
      /\ UNCHANGED <<proc, job, scheduled>>
  BY DEF claimForExecution, Go, Idle
<1>3. job[w] \in Packets
  BY <1>2 DEF JobsScheduled
<1>4. \A v \in Workers : v # w => holds'[v] = holds[v]
  BY DEF claimForExecution, claimPacket, Grant, Remind, StoreTypeOK
<1>5. holds'[w].packet = job[w] /\ holds'[w].token # 0
  BY <1>3 DEF claimForExecution, claimPacket, Grant, Remind, StoreTypeOK, OwnLiveLease, leaseActive
<1>6. SectionsOwned' /\ CyclesRun' /\ JobsScheduled' /\ SingleExecutor'
  BY <1>1, <1>2, <1>3, StoreAssumption DEF SectionsOwned, CyclesRun, JobsScheduled, SingleExecutor
<1>7. LeaseOfJob'
  BY <1>1, <1>2, <1>4, <1>5 DEF LeaseOfJob
<1>. QED  BY <1>6, <1>7

\* A check between two awaits: the cycle waits again, finalizes or throws.
LEMMA CheckKeepsOrder ==
  ASSUME ExecCore, NEW w \in Workers, NEW next \in {"scanning", "staging", "finalize"},
         Idle, pc[w] # "idle", UNCHANGED <<proc, job, scheduled>>,
         CheckThen(w, next) \/ CommandFails(w)
  PROVE  CyclesOrdered'
<1>. USE DEF Idle, Go, Await, Throw, CommandFails
<1>1. "catching" \in Places /\ "finalized" \in Places /\ "scanning" \in Places /\ "staging" \in Places
  BY DEF Places
<1>2. CASE Throw(w, "failed") /\ UNCHANGED <<records, holds>>
  BY <1>1, <1>2, MoveKeepsOrder
<1>3. CASE Throw(w, Thrown(w)) /\ UNCHANGED <<records, holds>>
  BY <1>1, <1>3, MoveKeepsOrder
<1>4. CASE next # "finalize" /\ Await(w, next) /\ UNCHANGED <<raised, records, holds>>
  BY <1>1, <1>4, MoveKeepsOrder DEF Sections
<1>5. CASE Forget(w) /\ Go(w, "finalized")
  BY <1>1, <1>5, MoveKeepsOrder
<1>. QED  BY <1>2, <1>3, <1>4, <1>5 DEF CheckThen, FinalizeCompleted

LEMMA CycleKeepsOrder ==
  ASSUME ExecCore, NEW w \in Workers, Cycle(w), StoreTypeOK'
  PROVE  CyclesOrdered'
<1>1. \A u \in Workers : pc[u] \in Sections => loop = u
  BY DEF ExecCore, CyclesOrdered, SectionsOwned
<1>2. \A u \in Workers : pc[u] \in {"finalized", "settled"} => holds[u] = NoLease
  BY DEF ExecCore, CyclesOrdered, LeaseOfJob
<1>. USE DEF At, Idle
<1>3. CASE claimForExecution(w)
  BY <1>3, ClaimKeepsOrder
<1>4. CASE claimRefused(w)
  BY <1>4, EndKeepsOrder DEF claimRefused
<1>5. CASE requeueBeforeMutation(w)
  BY <1>1, <1>5, EndKeepsOrder DEF requeueBeforeMutation, Sections
<1>6. CASE prepareJournal(w)
  BY <1>1, <1>6, MoveKeepsOrder DEF prepareJournal, Sections, Places, Go, Await, storeVars
<1>7. CASE goalCommandEnds(w)
  BY <1>7, MoveKeepsOrder DEF goalCommandEnds, CommandFails, Throw, Places, Go
<1>8. CASE applySteps(w)
  BY <1>1, <1>8, MoveKeepsOrder DEF applySteps, Throw, Sections, Places, Go, Await, storeVars
<1>9. CASE validationEnds(w)
  BY <1>9, CheckKeepsOrder DEF validationEnds, ExecutionFrame
<1>10. CASE scanEnds(w)
  BY <1>10, CheckKeepsOrder DEF scanEnds, ExecutionFrame
<1>11. CASE gitAddRuns(w)
  BY <1>11, ChildKeepsOrder DEF gitAddRuns, ExecutionFrame
<1>12. CASE verifyStaged(w)
  BY <1>12, MoveKeepsOrder DEF verifyStaged, CommandFails, Throw, Places, Sections, Go, Await, ExecutionFrame
<1>13. CASE gitCommitRuns(w)
  BY <1>13, ChildKeepsOrder DEF gitCommitRuns, ExecutionFrame
<1>14. CASE gitFails(w)
  BY <1>14, CheckKeepsOrder DEF gitFails, ExecutionFrame
<1>15. CASE verifyCommitted(w)
  BY <1>15, CheckKeepsOrder DEF verifyCommitted, ExecutionFrame
<1>16. CASE completeJournal(w)
  BY <1>1, <1>2, <1>16, MoveKeepsOrder DEF completeJournal, Sections, Places, Go, storeVars
<1>17. CASE advanceWorkbenchRunAfterPacket(w)
  BY <1>1, <1>17, EndKeepsOrder DEF advanceWorkbenchRunAfterPacket, Sections
<1>18. CASE advanceThrows(w)
  BY <1>1, <1>18, MoveKeepsOrder DEF advanceThrows, Throw, Sections, Places, Go, storeVars
<1>19. CASE rollBack(w)
  BY <1>1, <1>19, MoveKeepsOrder DEF rollBack, Sections, Places, Go, storeVars
<1>20. CASE rollBackFails(w)
  BY <1>1, <1>20, EndKeepsOrder DEF rollBackFails, Sections
<1>21. CASE settle(w)
  BY <1>1, <1>21, MoveKeepsOrder DEF settle, Sections, Places, Go
<1>22. CASE dropJournal(w)
  BY <1>1, <1>22, EndKeepsOrder DEF dropJournal, Sections
<1>. QED  BY <1>3, <1>4, <1>5, <1>6, <1>7, <1>8, <1>9, <1>10, <1>11, <1>12, <1>13, <1>14, <1>15, <1>16,
             <1>17, <1>18, <1>19, <1>20, <1>21, <1>22 DEF Cycle

\* The process dies, and with it every cycle.
LEMMA CrashKeepsOrder ==
  ASSUME ExecCore, crash
  PROVE  CyclesOrdered'
<1>1. \A w \in Workers : pc'[w] = "idle" /\ job'[w] = NoPacket /\ holds'[w] = NoLease
  BY DEF crash, WorkersDie
<1>. QED  BY <1>1 DEF CyclesOrdered, SectionsOwned, CyclesRun, JobsScheduled, SingleExecutor, LeaseOfJob, Sections

LEMMA OrderStep ==
  ASSUME ExecCore, [ExecNext]_vars, StoreTypeOK'
  PROVE  CyclesOrdered'
<1>. USE DEF processVars, storeVars
<1>1. ASSUME NEW p \in Packets, reservePacket(p) \/ leaseTimePasses(p) \/ recoverExecutionJournal(p)
      PROVE  CyclesOrdered'
  <2>1. UNCHANGED <<loop, pc, job, scheduled, holds, proc>>
    BY <1>1 DEF reservePacket, reserveWorkbenchPacket, leaseTimePasses, LeaseExpires,
                recoverExecutionJournal, recoverInterruptedWorkbenchPacket
  <2>. QED  BY <2>1, StillKeepsOrder
<1>2. ASSUME NEW w \in Workers, renewalTimer(w)
      PROVE  CyclesOrdered'
  BY <1>2, StillKeepsOrder DEF renewalTimer, renewWorkbenchPacketLease
<1>3. ASSUME NEW r \in Runs, NEW a \in ControlActions, control(r, a) \/ controlCutShort(r, a)
      PROVE  CyclesOrdered'
  <2>1. UNCHANGED <<loop, pc, job, scheduled, holds>> /\ (proc' = proc \/ proc' = "dying")
    BY <1>3 DEF control, controlCutShort, ControlPackets, controlWorkbenchPacketsForRun
  <2>. QED  BY <2>1, StillKeepsOrder
<1>4. CASE recoverStale \/ operatorRemovesLock \/ serve
  <2>1. UNCHANGED <<loop, pc, job, scheduled, holds>> /\ (proc' = proc \/ proc' = "up")
    BY <1>4 DEF recoverStale, recoverStaleWorkbenchPacketLeases, operatorRemovesLock, OperatorRemovesLock, serve
  <2>. QED  BY <2>1, StillKeepsOrder
<1>5. CASE restart
  <2>1. UNCHANGED <<loop, pc, job, scheduled, holds>> /\ \A w \in Workers : pc[w] = "idle"
    BY <1>5 DEF restart, ExecCore, CyclesOrdered, CyclesRun
  <2>. QED  BY <2>1, StillKeepsOrder
<1>6. CASE UNCHANGED vars
  BY <1>6, StillKeepsOrder DEF vars
<1>. QED  BY <1>1, <1>2, <1>3, <1>4, <1>5, <1>6, ScheduleKeepsOrder, CycleKeepsOrder, CrashKeepsOrder DEF ExecNext

-----------------------------------------------------------------------------
(* Types.                                                                    *)

\* Git shows two letters for a path, and a check throws one of three kinds.
LEMMA GitStatusType ==
  ASSUME NEW x PROVE GitStatus(x) \in BOOLEAN \X BOOLEAN
  BY DEF GitStatus

LEMMA ThrownType ==
  ASSUME ExecTypeOK, NEW w \in Workers, job[w] \in Packets
  PROVE  /\ ControlSignal(w) \in {"none", "failed", "pause", "cancel"}
         /\ Thrown(w) \in {"none", "failed", "pause", "cancel"}
<1>1. records[job[w]].control \in Controls
  BY DEF ExecTypeOK, StoreTypeOK, PacketRecord
<1>. QED  BY <1>1 DEF Thrown, ControlSignal, Controls

\* What the process remembers.
ProcessTypes ==
    /\ proc \in {"up", "dying", "down", "recovering"}
    /\ toRecover \subseteq Packets
    /\ loop \in Workers \cup {NoWorker}
    /\ pc \in [Workers -> Places]
    /\ job \in [Workers -> Packets \cup {NoPacket}]
    /\ raised \in [Workers -> {"none", "failed", "pause", "cancel"}]
    /\ baseline \in [Workers -> [Paths -> BOOLEAN \X BOOLEAN]]
    /\ snapshot \in [Workers -> Content]
    /\ scheduled \subseteq Packets

\* What is in the repository and in the runs.
LastingTypes ==
    /\ journal \in [Packets -> Content \cup {NoJournal}]
    /\ file \in [Paths -> Content]
    /\ index \in [Paths -> Content]
    /\ head \in [Paths -> Content]
    /\ commits \in Seq([packet : Packets, paths : SUBSET Paths])
    /\ expectedHead \in [Packets -> Nat]
    /\ runs \in [Runs -> RunTerminal \cup {"running", "paused"}]
    /\ completedIn \in [Runs -> SUBSET Packets]
    /\ results \in [Packets -> {"none", "requeued", "completed", "failed", "paused", "cancelled"}]
    /\ cancelAsked \subseteq Packets
    /\ crashes \in Nat
    /\ controls \in Nat

LEMMA TypesSplit == ExecTypeOK <=> StoreTypeOK /\ ProcessTypes /\ LastingTypes
  BY DEF ExecTypeOK, ProcessTypes, LastingTypes

\* A cycle has a packet, with a path and a run.
LEMMA JobsTyped ==
  ASSUME ExecCore, NEW w \in Workers, pc[w] # "idle"
  PROVE  /\ job[w] \in Packets /\ PathOf[job[w]] \in Paths /\ RunOf[job[w]] \in Runs
         /\ file[PathOf[job[w]]] \in Content /\ index[PathOf[job[w]]] \in Content
         /\ head[PathOf[job[w]]] \in Content /\ snapshot[w] \in Content /\ job[w] \in Content
<1>1. job[w] \in Packets
  BY DEF ExecCore, CyclesOrdered, JobsScheduled
<1>. QED  BY <1>1, ExecutionAssumption, StoreAssumption DEF ExecCore, ExecTypeOK, Content

LEMMA CheckKeepsProcess ==
  ASSUME ExecCore, NEW w \in Workers, pc[w] # "idle", NEW next \in {"scanning", "staging", "finalize"},
         CheckThen(w, next) \/ CommandFails(w),
         UNCHANGED <<proc, toRecover, job, baseline, snapshot, scheduled>>
  PROVE  ProcessTypes'
<1>. job[w] \in Packets
  BY JobsTyped
<1>1. Thrown(w) \in {"none", "failed", "pause", "cancel"}
  BY ThrownType DEF ExecCore
<1>2. ProcessTypes
  BY TypesSplit DEF ExecCore
<1>3. pc' \in [Workers -> Places] /\ loop' \in Workers \cup {NoWorker}
  BY <1>2 DEF ProcessTypes, CheckThen, CommandFails, FinalizeCompleted, Throw, Go, Await, Places
<1>4. raised' \in [Workers -> {"none", "failed", "pause", "cancel"}]
  BY <1>1, <1>2 DEF ProcessTypes, CheckThen, CommandFails, FinalizeCompleted, Throw
<1>. QED  BY <1>2, <1>3, <1>4 DEF ProcessTypes

LEMMA EndKeepsProcess ==
  ASSUME ExecCore, NEW w \in Workers, EndCycle(w), UNCHANGED <<proc, toRecover, raised, baseline, snapshot>>
  PROVE  ProcessTypes'
  BY TypesSplit DEF ExecCore, ProcessTypes, EndCycle, Await, Places

LEMMA CycleKeepsProcess ==
  ASSUME ExecCore, NEW w \in Workers, Cycle(w)
  PROVE  ProcessTypes'
<1>1. ProcessTypes
  BY TypesSplit DEF ExecCore
<1>. USE DEF At, Idle
<1>2. CASE claimForExecution(w)
  BY <1>1, <1>2 DEF claimForExecution, Go, ProcessTypes, Places
<1>3. CASE claimRefused(w) \/ requeueBeforeMutation(w) \/ advanceWorkbenchRunAfterPacket(w)
           \/ rollBackFails(w) \/ dropJournal(w)
  BY <1>3, EndKeepsProcess DEF claimRefused, requeueBeforeMutation, advanceWorkbenchRunAfterPacket,
                               rollBackFails, dropJournal
<1>4. CASE prepareJournal(w)
  <2>1. file[PathOf[job[w]]] \in Content
    BY <1>4, JobsTyped DEF prepareJournal
  <2>2. [x \in Paths |-> GitStatus(x)] \in [Paths -> BOOLEAN \X BOOLEAN]
    BY GitStatusType
  <2>3. baseline' \in [Workers -> [Paths -> BOOLEAN \X BOOLEAN]]
    BY <1>1, <1>4, <2>2 DEF prepareJournal, ProcessTypes
  <2>4. pc' \in [Workers -> Places] /\ loop' \in Workers \cup {NoWorker}
    BY <1>1, <1>4 DEF prepareJournal, ProcessTypes, Go, Await, Places
  <2>5. raised' \in [Workers -> {"none", "failed", "pause", "cancel"}] /\ snapshot' \in [Workers -> Content]
    BY <1>1, <1>4, <2>1 DEF prepareJournal, ProcessTypes
  <2>. QED  BY <1>1, <1>4, <2>3, <2>4, <2>5 DEF prepareJournal, ProcessTypes
<1>5. CASE goalCommandEnds(w)
  BY <1>1, <1>5 DEF goalCommandEnds, CommandFails, Throw, Go, ProcessTypes, Places
<1>6. CASE applySteps(w)
  <2>1. ControlSignal(w) \in {"none", "failed", "pause", "cancel"}
    BY <1>6, JobsTyped, ThrownType DEF applySteps, ExecCore
  <2>2. pc' \in [Workers -> Places] /\ loop' \in Workers \cup {NoWorker}
    BY <1>1, <1>6 DEF applySteps, ProcessTypes, Throw, Go, Await, Places
  <2>3. raised' \in [Workers -> {"none", "failed", "pause", "cancel"}]
    BY <1>1, <1>6, <2>1 DEF applySteps, ProcessTypes, Throw
  <2>. QED  BY <1>1, <1>6, <2>2, <2>3 DEF applySteps, ProcessTypes
<1>7. CASE validationEnds(w) \/ scanEnds(w) \/ verifyCommitted(w) \/ gitFails(w)
  BY <1>7, CheckKeepsProcess DEF validationEnds, scanEnds, verifyCommitted, gitFails, ExecutionFrame
<1>8. CASE gitAddRuns(w) \/ gitCommitRuns(w)
  BY <1>1, <1>8 DEF gitAddRuns, gitCommitRuns, ExecutionFrame, ProcessTypes, Places
<1>9. CASE verifyStaged(w)
  BY <1>1, <1>9 DEF verifyStaged, CommandFails, Throw, Go, Await, ExecutionFrame, ProcessTypes, Places
<1>10. CASE completeJournal(w) \/ advanceThrows(w) \/ rollBack(w) \/ settle(w)
  BY <1>1, <1>10 DEF completeJournal, advanceThrows, rollBack, settle, Throw, Go, ProcessTypes, Places
<1>. QED  BY <1>2, <1>3, <1>4, <1>5, <1>6, <1>7, <1>8, <1>9, <1>10 DEF Cycle

LEMMA ProcessStep ==
  ASSUME ExecCore, [ExecNext]_vars
  PROVE  ProcessTypes'
<1>1. ProcessTypes
  BY TypesSplit DEF ExecCore
<1>2. ASSUME UNCHANGED processVars PROVE ProcessTypes'
  BY <1>1, <1>2 DEF ProcessTypes, processVars
<1>3. ASSUME NEW p \in Packets, reservePacket(p) \/ leaseTimePasses(p) \/ recoverExecutionJournal(p)
      PROVE  ProcessTypes'
  BY <1>1, <1>2, <1>3 DEF reservePacket, leaseTimePasses, recoverExecutionJournal, ProcessTypes
<1>4. ASSUME NEW w \in Workers, NEW p \in Packets, scheduleWorkbenchPacket(w, p)
      PROVE  ProcessTypes'
  BY <1>1, <1>4 DEF scheduleWorkbenchPacket, Await, ProcessTypes, Places
<1>5. ASSUME NEW w \in Workers, renewalTimer(w)
      PROVE  ProcessTypes'
  BY <1>2, <1>5 DEF renewalTimer
<1>6. ASSUME NEW r \in Runs, NEW a \in ControlActions, control(r, a) \/ controlCutShort(r, a)
      PROVE  ProcessTypes'
  BY <1>1, <1>2, <1>6 DEF control, controlCutShort, ProcessTypes
<1>7. CASE recoverStale \/ operatorRemovesLock \/ restart \/ serve
  BY <1>1, <1>2, <1>7 DEF recoverStale, operatorRemovesLock, restart, serve, ProcessTypes
<1>8. CASE crash
  <2>1. Clean \in BOOLEAN \X BOOLEAN
    BY DEF Clean
  <2>2. baseline' \in [Workers -> [Paths -> BOOLEAN \X BOOLEAN]]
    BY <1>8, <2>1 DEF crash
  <2>. QED  BY <1>8, <2>2 DEF crash, ProcessTypes, Places, Content
<1>9. CASE UNCHANGED vars
  BY <1>2, <1>9 DEF vars
<1>. QED  BY <1>3, <1>4, <1>5, <1>6, <1>7, <1>8, <1>9, CycleKeepsProcess DEF ExecNext

LEMMA CycleKeepsLasting ==
  ASSUME ExecCore, NEW w \in Workers, Cycle(w)
  PROVE  LastingTypes'
<1>1. LastingTypes
  BY TypesSplit DEF ExecCore
<1>. USE DEF At, Idle, repoVars, runVars, bounds
<1>2. ASSUME UNCHANGED <<repoVars, runVars, bounds>> PROVE LastingTypes'
  BY <1>1, <1>2 DEF LastingTypes
<1>3. CASE claimForExecution(w) \/ claimRefused(w) \/ goalCommandEnds(w) \/ advanceThrows(w) \/ settle(w)
           \/ validationEnds(w) \/ scanEnds(w) \/ verifyStaged(w) \/ gitFails(w) \/ verifyCommitted(w)
  BY <1>2, <1>3 DEF claimForExecution, claimRefused, goalCommandEnds, advanceThrows, settle,
                    validationEnds, scanEnds, verifyStaged, gitFails, verifyCommitted, ExecutionFrame
<1>4. CASE pc[w] = "idle"
  BY <1>4 DEF Cycle, claimForExecution, claimRefused, requeueBeforeMutation, prepareJournal, goalCommandEnds,
              applySteps, validationEnds, scanEnds, gitAddRuns, verifyStaged, gitCommitRuns, gitFails,
              verifyCommitted, completeJournal, advanceWorkbenchRunAfterPacket, advanceThrows, rollBack,
              rollBackFails, settle, dropJournal
<1>5. CASE pc[w] # "idle" /\ (requeueBeforeMutation(w) \/ dropJournal(w) \/ rollBackFails(w))
  <2>1. /\ job[w] \in Packets /\ snapshot[w] \in Content
        /\ OutcomeOf(raised[w]) \in {"paused", "cancelled", "failed"}
    BY <1>5, JobsTyped, StatusesKnown
  <2>2. journal' \in [Packets -> Content \cup {NoJournal}]
    BY <1>1, <1>5, <2>1 DEF requeueBeforeMutation, dropJournal, rollBackFails, LastingTypes
  <2>3. results' \in [Packets -> {"none", "requeued", "completed", "failed", "paused", "cancelled"}]
    BY <1>1, <1>5, <2>1 DEF requeueBeforeMutation, dropJournal, rollBackFails, LastingTypes
  <2>. QED  BY <1>1, <1>5, <2>2, <2>3 DEF requeueBeforeMutation, dropJournal, rollBackFails, LastingTypes
<1>6. CASE pc[w] # "idle" /\ (prepareJournal(w) \/ completeJournal(w))
  <2>1. job[w] \in Packets /\ file[PathOf[job[w]]] \in Content
    BY <1>6, JobsTyped
  <2>. QED  BY <1>1, <1>6, <2>1 DEF prepareJournal, completeJournal, LastingTypes
<1>7. CASE pc[w] # "idle" /\ (applySteps(w) \/ rollBack(w) \/ gitAddRuns(w))
  <2>1. /\ job[w] \in Packets /\ file[PathOf[job[w]]] \in Content /\ snapshot[w] \in Content
        /\ job[w] \in Content /\ head[PathOf[job[w]]] \in Content
    BY <1>7, JobsTyped
  <2>2. file' \in [Paths -> Content] /\ index' \in [Paths -> Content]
    BY <1>1, <1>7, <2>1 DEF applySteps, rollBack, gitAddRuns, LastingTypes, ExecutionFrame
  <2>3. journal' \in [Packets -> Content \cup {NoJournal}]
    BY <1>1, <1>7, <2>1 DEF applySteps, rollBack, gitAddRuns, LastingTypes, ExecutionFrame
  <2>. QED  BY <1>1, <1>7, <2>2, <2>3 DEF applySteps, rollBack, gitAddRuns, LastingTypes, ExecutionFrame
<1>8. CASE pc[w] # "idle" /\ gitCommitRuns(w)
  <2>1. [packet |-> job[w], paths |-> Staged] \in [packet : Packets, paths : SUBSET Paths]
    BY <1>8, JobsTyped DEF Staged
  <2>2. commits' \in Seq([packet : Packets, paths : SUBSET Paths])
    BY <1>1, <1>8, <2>1 DEF gitCommitRuns, LastingTypes
  <2>. QED  BY <1>1, <1>8, <2>2 DEF gitCommitRuns, LastingTypes, ExecutionFrame
<1>9. CASE pc[w] # "idle" /\ advanceWorkbenchRunAfterPacket(w)
  <2>1. job[w] \in Packets /\ RunOf[job[w]] \in Runs
    BY <1>9, JobsTyped
  <2>2. completedIn' \in [Runs -> SUBSET Packets] /\ runs' \in [Runs -> RunTerminal \cup {"running", "paused"}]
    BY <1>1, <1>9, <2>1 DEF advanceWorkbenchRunAfterPacket, LastingTypes, RunTerminal
  <2>3. results' \in [Packets -> {"none", "requeued", "completed", "failed", "paused", "cancelled"}]
    BY <1>1, <1>9, <2>1 DEF advanceWorkbenchRunAfterPacket, LastingTypes
  <2>. QED  BY <1>1, <1>9, <2>2, <2>3 DEF advanceWorkbenchRunAfterPacket, LastingTypes
<1>. QED  BY <1>3, <1>4, <1>5, <1>6, <1>7, <1>8, <1>9 DEF Cycle

LEMMA LastingStep ==
  ASSUME ExecCore, [ExecNext]_vars
  PROVE  LastingTypes'
<1>1. LastingTypes
  BY TypesSplit DEF ExecCore
<1>. USE DEF repoVars, runVars, bounds
<1>2. ASSUME UNCHANGED <<repoVars, runVars, bounds>> PROVE LastingTypes'
  BY <1>1, <1>2 DEF LastingTypes
<1>3. ASSUME NEW p \in Packets, reservePacket(p) \/ leaseTimePasses(p) PROVE LastingTypes'
  <2>1. Len(commits) \in Nat
    BY <1>1 DEF LastingTypes
  <2>. QED  BY <1>1, <1>2, <1>3, <2>1 DEF reservePacket, leaseTimePasses, LastingTypes
<1>4. ASSUME NEW p \in Packets, recoverExecutionJournal(p) PROVE LastingTypes'
  <2>1. CASE UNCHANGED <<file, journal>>
    BY <1>2, <1>4, <2>1 DEF recoverExecutionJournal
  <2>2. CASE journal[p] \in Content
    <3>1. file' \in [Paths -> Content] /\ journal' \in [Packets -> Content \cup {NoJournal}]
      BY <1>1, <1>4, <2>2 DEF recoverExecutionJournal, LastingTypes
    <3>. QED  BY <1>1, <1>4, <3>1 DEF recoverExecutionJournal, LastingTypes
  <2>3. journal[p] \in Content
    BY <1>1, <1>4 DEF recoverExecutionJournal, LastingTypes, ExecCore, RecoveryFound
  <2>. QED  BY <1>4, <2>1, <2>2, <2>3 DEF recoverExecutionJournal
<1>5. ASSUME NEW r \in Runs, NEW a \in ControlActions, control(r, a) \/ controlCutShort(r, a)
      PROVE  LastingTypes'
  <2>1. RunAfter(a) \in RunTerminal \cup {"running", "paused"}
    BY DEF RunAfter, RunTerminal
  <2>2. runs' \in [Runs -> RunTerminal \cup {"running", "paused"}]
    BY <1>1, <1>5, <2>1 DEF control, controlCutShort, LastingTypes
  <2>3. cancelAsked' \subseteq Packets
    BY <1>1, <1>5 DEF control, controlCutShort, ControlPackets, LastingTypes
  <2>. QED  BY <1>1, <1>5, <2>2, <2>3 DEF control, controlCutShort, LastingTypes
<1>6. CASE crash
  BY <1>1, <1>6 DEF crash, LastingTypes
<1>7. ASSUME NEW w \in Workers, NEW p \in Packets, scheduleWorkbenchPacket(w, p) \/ renewalTimer(w)
      PROVE  LastingTypes'
  BY <1>2, <1>7 DEF scheduleWorkbenchPacket, renewalTimer
<1>8. CASE recoverStale \/ operatorRemovesLock \/ restart \/ serve
  BY <1>2, <1>8 DEF recoverStale, operatorRemovesLock, restart, serve
<1>9. ASSUME NEW w \in Workers, renewalTimer(w) PROVE LastingTypes'
  BY <1>2, <1>9 DEF renewalTimer
<1>. QED  BY <1>2, <1>3, <1>4, <1>5, <1>6, <1>7, <1>8, <1>9, CycleKeepsLasting DEF ExecNext, vars

-----------------------------------------------------------------------------
\* The startup recovery works on the journals it found: no cycle runs meanwhile.
LEMMA RecoveryStep ==
  ASSUME ExecCore, [ExecNext]_vars
  PROVE  RecoveryFound'
<1>. USE DEF ExecCore, RecoveryFound, processVars, repoVars
<1>1. ASSUME NEW w \in Workers, Cycle(w) PROVE RecoveryFound'
  <2>1. proc = "up" /\ proc' = proc
    BY <1>1 DEF Cycle, claimForExecution, claimRefused, requeueBeforeMutation, prepareJournal, goalCommandEnds,
                applySteps, validationEnds, scanEnds, gitAddRuns, verifyStaged, gitCommitRuns, gitFails,
                verifyCommitted, completeJournal, advanceWorkbenchRunAfterPacket, advanceThrows, rollBack,
                rollBackFails, settle, dropJournal, ExecutionFrame, At, Idle
  <2>. QED  BY <2>1
<1>2. ASSUME NEW p \in Packets, recoverExecutionJournal(p) PROVE RecoveryFound'
  BY <1>2 DEF recoverExecutionJournal, ExecTypeOK
<1>3. ASSUME NEW p \in Packets, reservePacket(p) \/ leaseTimePasses(p) PROVE RecoveryFound'
  BY <1>3 DEF reservePacket, leaseTimePasses
<1>4. ASSUME NEW w \in Workers, NEW p \in Packets, scheduleWorkbenchPacket(w, p) PROVE RecoveryFound'
  BY <1>4 DEF scheduleWorkbenchPacket
<1>5. ASSUME NEW w \in Workers, renewalTimer(w) PROVE RecoveryFound'
  BY <1>5 DEF renewalTimer
<1>6. ASSUME NEW r \in Runs, NEW a \in ControlActions, control(r, a) \/ controlCutShort(r, a)
      PROVE  RecoveryFound'
  BY <1>6 DEF control, controlCutShort
<1>7. CASE recoverStale \/ operatorRemovesLock \/ restart \/ serve \/ crash
  BY <1>7 DEF recoverStale, operatorRemovesLock, restart, serve, crash
<1>. QED  BY <1>1, <1>2, <1>3, <1>4, <1>5, <1>6, <1>7 DEF ExecNext, vars

\* The core of the invariant holds at first and is kept by every step.
LEMMA CoreInit == ExecInit => ExecCore
<1>. SUFFICES ASSUME ExecInit PROVE ExecCore
  OBVIOUS
<1>1. StoreTypeOK
  BY TypeInit DEF ExecInit
<1>2. [x \in Paths |-> Clean] \in [Paths -> BOOLEAN \X BOOLEAN]
  BY DEF Clean
<1>3. baseline \in [Workers -> [Paths -> BOOLEAN \X BOOLEAN]]
  BY <1>2 DEF ExecInit
<1>4. ProcessTypes
  BY <1>3 DEF ProcessTypes, ExecInit, Places, Content
<1>5. LastingTypes
  BY DEF LastingTypes, ExecInit, Content, RunTerminal
<1>6. \A w \in Workers : pc[w] = "idle" /\ job[w] = NoPacket /\ holds[w] = NoLease
  BY DEF ExecInit, StoreInit
<1>7. CyclesOrdered
  BY <1>6 DEF CyclesOrdered, SectionsOwned, CyclesRun, JobsScheduled, SingleExecutor, LeaseOfJob, Sections
<1>8. RecoveryFound
  BY DEF RecoveryFound, ExecInit
<1>. QED  BY <1>1, <1>4, <1>5, <1>7, <1>8, TypesSplit DEF ExecCore

LEMMA CoreStep == ExecCore /\ [ExecNext]_vars => ExecCore'
<1>. SUFFICES ASSUME ExecCore, [ExecNext]_vars PROVE ExecCore'
  OBVIOUS
<1>1. StoreTypeOK'
  BY StepSimulatesStore, TypeStep DEF ExecCore, ExecTypeOK
<1>2. ExecTypeOK'
  <2>1. (StoreTypeOK /\ ProcessTypes /\ LastingTypes)'
    BY <1>1, ProcessStep, LastingStep
  <2>. QED  BY <2>1 DEF ExecTypeOK, ProcessTypes, LastingTypes
<1>. QED  BY <1>1, <1>2, OrderStep, RecoveryStep DEF ExecCore

\* The types of the process, the repository and the runs hold in every state.
THEOREM ExecTypeCorrect == ExecSpec => []ExecTypeOK
<1>1. ExecCore => ExecTypeOK
  BY DEF ExecCore
<1>. QED  BY CoreInit, CoreStep, <1>1, PTL DEF ExecSpec

\* No packet ever has two executors, whatever leases expire, recoveries requeue and
\* processes die: the table of scheduled packets outlives the lease.
THEOREM OneExecutorPerPacket == ExecSpec => []SingleExecutor
<1>1. ExecCore => SingleExecutor
  BY DEF ExecCore, CyclesOrdered
<1>. QED  BY CoreInit, CoreStep, <1>1, PTL DEF ExecSpec

\* The executor, the coordinator, the startup recovery and the control handler use
\* the packet store by its operations alone.
THEOREM ExecutionUsesStore == ExecSpec => ImplementsStore
<1>1. ExecInit => StoreInit
  BY DEF ExecInit
<1>2. ExecCore /\ [ExecNext]_vars => [StoreNext]_storeVars
  BY StepSimulatesStore
<1>. QED  BY CoreInit, CoreStep, <1>1, <1>2, PTL DEF ExecSpec, ImplementsStore, StoreSpec

\* What is proved of every use of the store holds of the process: no live lease is
\* taken from a worker ...
THEOREM ExecutionLeaseExclusive == ExecSpec => []NoLiveLeaseTaken
  BY ExecutionUsesStore, LiveLeaseExclusive, PTL DEF ImplementsStore

\* ... and a packet that reached a terminal status keeps it, across process deaths,
\* recoveries and late finalizations.
THEOREM ExecutedStatusFinal == ExecSpec => TerminalFinal
  BY ExecutionUsesStore, TerminalStatusFinal, PTL DEF ImplementsStore

-----------------------------------------------------------------------------
(* A process that does not die: what ended stays ended, what was cancelled   *)
(* stays cancelled.                                                          *)

\* A run that advancing it again cannot revive: it has not ended, or it ended because
\* all its tasks are done.
MayAdvance(r) ==
    \/ runs[r] \notin RunTerminal
    \/ runs[r] = "completed" /\ Tasks(r) = DoneTasks(r, completedIn[r])

\* A packet that can still execute has been told when its run was ended by the owner.
OpenPacketsTold ==
    \A p \in Packets :
        records[p].status \in {"queued", "running"} =>
            records[p].control = "cancel" \/ MayAdvance(RunOf[p])

\* A cycle that is past its finalization may advance the run.
AdvanceJustified ==
    \A w \in Workers : pc[w] \in {"finalized", "advancing"} => MayAdvance(RunOf[job[w]])

\* A run lists only its own packets as completed.
OwnCompleted == \A r \in Runs : \A p \in completedIn[r] : RunOf[p] = r

\* A packet that a cancel request reached belongs to a run that ended, and carries
\* the request as long as it can execute.
CancelKept ==
    \A p \in cancelAsked :
        /\ runs[RunOf[p]] \in RunTerminal
        /\ records[p].status # "completed"
        /\ records[p].status \in {"queued", "running"} => records[p].control = "cancel"

\* The inductive invariant of a process that stays up.
UpInv ==
    /\ ExecCore
    /\ lockLeft = FALSE
    /\ OpenPacketsTold /\ AdvanceJustified /\ OwnCompleted /\ CancelKept

\* What a step that leaves the runs alone may do to a packet: close it, keep it open
\* with the request it carries, or open it for a run that is running.
Tame(p) ==
    \/ records'[p].status \notin {"queued", "running", "completed"}
    \/ /\ records'[p].status \in {"queued", "running"}
       /\ \/ runs[RunOf[p]] = "running"
          \/ /\ records[p].status \in {"queued", "running"}
             /\ records[p].control = "cancel" => records'[p].control = "cancel"
    \/ /\ records'[p].status = "completed"
       /\ \/ records[p].status = "completed"
          \/ records[p].status = "running" /\ records[p].control # "cancel"

\* A cycle reaches its finalization only from a packet that carries no cancellation.
Justified(w) ==
    pc'[w] \in {"finalized", "advancing"} =>
        /\ job'[w] = job[w] /\ job[w] \in Packets
        /\ \/ pc[w] \in {"finalized", "advancing"}
           \/ records[job[w]].status = "running" /\ records[job[w]].control # "cancel"

LEMMA TameKeepsUp ==
  ASSUME UpInv, ExecCore', lockLeft' = FALSE, UNCHANGED <<runs, completedIn, cancelAsked>>,
         \A p \in Packets : Tame(p), \A w \in Workers : Justified(w)
  PROVE  UpInv'
<1>. USE DEF UpInv
<1>1. \A r : MayAdvance(r)' <=> MayAdvance(r)
  BY DEF MayAdvance
<1>2. \A p \in Packets : runs[RunOf[p]] = "running" => MayAdvance(RunOf[p])
  BY DEF MayAdvance, RunTerminal
<1>3. OpenPacketsTold'
  BY <1>1, <1>2 DEF OpenPacketsTold, Tame
<1>4. AdvanceJustified'
  BY <1>1 DEF AdvanceJustified, Justified, OpenPacketsTold
<1>5. OwnCompleted'
  BY DEF OwnCompleted
<1>6. CancelKept'
  <2>1. cancelAsked \subseteq Packets
    BY DEF ExecCore, ExecTypeOK
  <2>. QED  BY <2>1 DEF CancelKept, Tame, RunTerminal
<1>. QED  BY <1>3, <1>4, <1>5, <1>6

\* Giving a lease back opens nothing that was closed.
LEMMA GiveBackTame ==
  ASSUME ExecCore, NEW w \in Workers,
         \/ records' = Released(w, "queued")
         \/ \E s \in {"failed", "paused", "cancelled"} : records' = Finalized(w, s)
         \/ records' = records
  PROVE  \A p \in Packets : Tame(p)
<1>1. records \in [Packets -> PacketRecord]
  BY DEF ExecCore, ExecTypeOK, StoreTypeOK
<1>2. \A p \in Packets : records[p].status \in Statuses
  BY <1>1 DEF PacketRecord
<1>3. CASE records' = records
  BY <1>2, <1>3 DEF Tame, Statuses, Terminal
<1>4. CASE Leased(holds[w].packet, holds[w].token)
  <2>. DEFINE q == holds[w].packet
  <2>1. CASE records' = Released(w, "queued")
    <3>1. \A p \in Packets : p # q => records'[p] = records[p]
      BY <1>1, <1>4, <2>1 DEF Released
    <3>2. q \in Packets => /\ records[q].status = "running"
                           /\ records'[q].status = "queued" /\ records'[q].control = records[q].control
      BY <1>1, <1>4, <2>1 DEF Released, Leased, clearLease, PacketRecord
    <3>. QED  BY <1>2, <3>1, <3>2 DEF Tame, Statuses, Terminal
  <2>2. ASSUME NEW s \in {"failed", "paused", "cancelled"}, records' = Finalized(w, s)
        PROVE  \A p \in Packets : Tame(p)
    <3>1. \A p \in Packets : p # q => records'[p] = records[p]
      BY <1>1, <1>4, <2>2 DEF Finalized
    <3>2. q \in Packets => records'[q].status = s
      BY <1>1, <1>4, <2>2 DEF Finalized, Leased, clearLease, PacketRecord
    <3>. QED  BY <1>2, <3>1, <3>2 DEF Tame, Statuses, Terminal
  <2>. QED  BY <1>3, <2>1, <2>2
<1>5. CASE ~Leased(holds[w].packet, holds[w].token)
  <2>1. records' = records
    BY <1>5 DEF Released, Finalized
  <2>. QED  BY <1>3, <2>1
<1>. QED  BY <1>4, <1>5

\* The checks of an execution: what they finalize was not cancelled.
LEMMA CheckTame ==
  ASSUME ExecCore, NEW w \in Workers, NEW next \in {"scanning", "staging", "finalize"},
         pc[w] # "idle", job' = job, CheckThen(w, next) \/ CommandFails(w)
  PROVE  (\A p \in Packets : Tame(p)) /\ (\A v \in Workers : Justified(v))
<1>. DEFINE q == job[w]
<1>1. q \in Packets /\ records \in [Packets -> PacketRecord] /\ pc \in [Workers -> Places]
  BY JobsTyped DEF ExecCore, ExecTypeOK, StoreTypeOK
<1>2. \A v \in Workers : pc[v] # "idle" => job[v] \in Packets
  BY JobsTyped
<1>3. CASE UNCHANGED records /\ pc' = [pc EXCEPT ![w] = "catching"]
  BY <1>1, <1>2, <1>3, GiveBackTame DEF Justified
<1>4. CASE UNCHANGED records /\ next # "finalize" /\ pc' = [pc EXCEPT ![w] = next]
  BY <1>1, <1>2, <1>4, GiveBackTame DEF Justified
<1>5. CASE /\ Thrown(w) = "none" /\ Leased(q, holds[w].token) /\ records' = Finalized(w, "completed")
           /\ pc' = [pc EXCEPT ![w] = "finalized"]
  <2>1. records[q].control = "none" /\ records[q].status = "running"
    BY <1>5 DEF Thrown, ControlSignal, Leased
  <2>2. holds[w].packet = q
    <3>1. holds[w] # NoLease
      BY <1>5 DEF Leased, NoLease
    <3>. QED  BY <3>1 DEF ExecCore, CyclesOrdered, LeaseOfJob
  <2>3. records'[q].status = "completed"
    BY <1>1, <1>5, <2>2 DEF Finalized, Leased, clearLease, PacketRecord
  <2>4. \A p \in Packets : p # q => records'[p] = records[p]
    BY <1>1, <1>5, <2>2 DEF Finalized, Leased
  <2>5. \A p \in Packets : records[p].status \in Statuses
    BY <1>1 DEF PacketRecord
  <2>6. \A p \in Packets : Tame(p)
    BY <2>1, <2>3, <2>4, <2>5 DEF Tame, Statuses, Terminal
  <2>7. \A v \in Workers : Justified(v)
    BY <1>1, <1>2, <1>5, <2>1 DEF Justified
  <2>. QED  BY <2>6, <2>7
<1>. QED  BY <1>3, <1>4, <1>5 DEF CheckThen, CommandFails, FinalizeCompleted, Throw, Go, Await

\* A cycle that does not come to its finalization.
LEMMA CycleTame ==
  ASSUME ExecCore, NEW w \in Workers, Cycle(w)
  PROVE  \/ advanceWorkbenchRunAfterPacket(w)
         \/ /\ (\A p \in Packets : Tame(p)) /\ (\A v \in Workers : Justified(v))
            /\ UNCHANGED <<runs, completedIn, cancelAsked, lockLeft>>
<1>1. records \in [Packets -> PacketRecord] /\ pc \in [Workers -> Places]
  BY DEF ExecCore, ExecTypeOK, StoreTypeOK
<1>2. \A v \in Workers : pc[v] # "idle" => job[v] \in Packets
  BY JobsTyped
<1>3. \A p \in Packets : records[p].status \in Statuses
  BY <1>1 DEF PacketRecord
<1>. USE DEF At, Idle, runVars, storeVars
<1>4. CASE claimForExecution(w)
  <2>. DEFINE q == job[w]
  <2>1. q \in Packets
    BY <1>2, <1>4 DEF claimForExecution
  <2>2. \A p \in Packets : \/ records'[p] = records[p]
                           \/ /\ records[p].status \in {"queued", "running"}
                              /\ records'[p].status = "running" /\ records'[p].control = records[p].control
    <3>1. CASE Remind(w, q)
      BY <3>1 DEF Remind
    <3>2. CASE Grant(w, q) /\ records[q].status \in {"queued", "running"}
      <4>1. \A p \in Packets : p # q => records'[p] = records[p]
        BY <1>1, <3>2 DEF Grant
      <4>2. records'[q].status = "running" /\ records'[q].control = records[q].control
        BY <1>1, <2>1, <3>2 DEF Grant, Claimed, PacketRecord
      <4>. QED  BY <3>2, <4>1, <4>2
    <3>. QED  BY <1>4, <3>1, <3>2 DEF claimForExecution, claimPacket
  <2>3. \A p \in Packets : Tame(p)
    BY <1>3, <2>2 DEF Tame, Statuses, Terminal
  <2>4. \A v \in Workers : Justified(v)
    BY <1>1, <1>2, <1>4 DEF claimForExecution, Go, Justified
  <2>5. lockLeft' = lockLeft
    BY <1>4 DEF claimForExecution, claimPacket, Grant, Remind
  <2>. QED  BY <1>4, <2>3, <2>4, <2>5 DEF claimForExecution
<1>5. CASE validationEnds(w) \/ scanEnds(w) \/ verifyCommitted(w) \/ gitFails(w)
  BY <1>5, CheckTame DEF validationEnds, scanEnds, verifyCommitted, gitFails, ExecutionFrame
<1>6. CASE claimRefused(w) \/ requeueBeforeMutation(w) \/ rollBackFails(w) \/ dropJournal(w)
  <2>1. \A v \in Workers : pc'[v] \in {"finalized", "advancing"} => pc'[v] = pc[v] /\ job'[v] = job[v]
    <3>1. EndCycle(w)
      BY <1>6 DEF claimRefused, requeueBeforeMutation, rollBackFails, dropJournal
    <3>. QED  BY <1>1, <3>1 DEF EndCycle, Await, ExecCore, ExecTypeOK
  <2>2. \A v \in Workers : Justified(v)
    BY <1>2, <2>1 DEF Justified
  <2>. QED  BY <1>6, <2>2, GiveBackTame DEF claimRefused, requeueBeforeMutation, rollBackFails, dropJournal
<1>7. CASE settle(w)
  <2>1. \A p \in Packets : Tame(p)
    BY <1>7, GiveBackTame, StatusesKnown DEF settle
  <2>2. \A v \in Workers : Justified(v)
    BY <1>1, <1>2, <1>7 DEF settle, Go, Justified
  <2>. QED  BY <1>7, <2>1, <2>2 DEF settle
<1>8. CASE prepareJournal(w) \/ applySteps(w) \/ completeJournal(w) \/ advanceThrows(w) \/ rollBack(w)
  <2>1. \A v \in Workers : Justified(v)
    BY <1>1, <1>2, <1>8 DEF prepareJournal, applySteps, completeJournal, advanceThrows, rollBack,
                            Throw, Go, Await, Justified
  <2>. QED  BY <1>8, <2>1, GiveBackTame DEF prepareJournal, applySteps, completeJournal, advanceThrows, rollBack
<1>9. CASE goalCommandEnds(w) \/ gitAddRuns(w) \/ verifyStaged(w) \/ gitCommitRuns(w)
  <2>1. \A v \in Workers : Justified(v)
    BY <1>1, <1>2, <1>9 DEF goalCommandEnds, gitAddRuns, verifyStaged, gitCommitRuns, CommandFails,
                            Throw, Go, Await, Justified, ExecutionFrame
  <2>. QED  BY <1>9, <2>1, GiveBackTame DEF goalCommandEnds, gitAddRuns, verifyStaged, gitCommitRuns,
                                            CommandFails, ExecutionFrame
<1>. QED  BY <1>4, <1>5, <1>6, <1>7, <1>8, <1>9 DEF Cycle

\* The run advances: it is not revived, for the cycle was justified.
LEMMA AdvanceKeepsUp ==
  ASSUME UpInv, ExecCore', NEW w \in Workers, advanceWorkbenchRunAfterPacket(w)
  PROVE  UpInv' /\ \A r \in Runs : runs[r] \in RunTerminal => runs'[r] = runs[r]
<1>. USE DEF UpInv
<1>0. job[w] \in Packets /\ RunOf[job[w]] \in Runs /\ pc[w] = "advancing" /\ loop = w
  BY JobsTyped DEF advanceWorkbenchRunAfterPacket, At, ExecCore, CyclesOrdered, SectionsOwned, Sections
<1>q. PICK q \in Packets, t \in Runs : q = job[w] /\ t = RunOf[q]
  BY <1>0
<1>1. pc[w] = "advancing" /\ loop = w /\ q = job[w] /\ t = RunOf[q]
  BY <1>0, <1>q
<1>2. MayAdvance(t)
  BY <1>1 DEF AdvanceJustified
<1>3. /\ runs' = [runs EXCEPT ![t] = IF Tasks(t) = DoneTasks(t, completedIn[t] \cup {q}) THEN "completed" ELSE "running"]
      /\ completedIn' = [completedIn EXCEPT ![t] = @ \cup {q}]
      /\ UNCHANGED <<records, lockLeft, cancelAsked>>
      /\ runs \in [Runs -> RunTerminal \cup {"running", "paused"}] /\ completedIn \in [Runs -> SUBSET Packets]
  BY <1>1 DEF advanceWorkbenchRunAfterPacket, ExecCore, ExecTypeOK
<1>4. completedIn'[t] = completedIn[t] \cup {q} /\ \A r \in Runs : r # t => completedIn'[r] = completedIn[r] /\ runs'[r] = runs[r]
  BY <1>1, <1>3
<1>5. OwnCompleted'
  BY <1>1, <1>4 DEF OwnCompleted
<1>6. runs[t] \in RunTerminal => runs[t] = "completed" /\ runs'[t] = "completed"
  <2>. SUFFICES ASSUME runs[t] \in RunTerminal PROVE runs[t] = "completed" /\ runs'[t] = "completed"
    OBVIOUS
  <2>1. runs[t] = "completed" /\ Tasks(t) = DoneTasks(t, completedIn[t])
    BY <1>2 DEF MayAdvance
  <2>2. TaskOf[q] \in Tasks(t)
    BY <1>1 DEF Tasks
  <2>3. DoneTasks(t, completedIn[t] \cup {q}) = DoneTasks(t, completedIn[t]) \cup {TaskOf[q]}
    BY DEF DoneTasks
  <2>4. Tasks(t) = DoneTasks(t, completedIn[t] \cup {q})
    BY <2>1, <2>2, <2>3
  <2>. QED  BY <1>1, <1>3, <2>1, <2>4
<1>7. MayAdvance(t)'
  <2>1. runs'[t] \in RunTerminal => runs'[t] = "completed" /\ Tasks(t) = DoneTasks(t, completedIn[t] \cup {q})
    BY <1>1, <1>3 DEF RunTerminal
  <2>2. Tasks(t)' = Tasks(t) /\ DoneTasks(t, completedIn[t])' = DoneTasks(t, completedIn[t] \cup {q})
    BY <1>4 DEF Tasks, DoneTasks
  <2>. QED  BY <2>1, <2>2 DEF MayAdvance
<1>8. \A r \in Runs : MayAdvance(r) => MayAdvance(r)'
  <2>1. \A r \in Runs : r # t => (MayAdvance(r) <=> MayAdvance(r)')
    BY <1>4 DEF MayAdvance, Tasks, DoneTasks
  <2>. QED  BY <1>7, <2>1
<1>9. OpenPacketsTold'
  BY <1>3, <1>8, StoreAssumption DEF OpenPacketsTold
<1>10. AdvanceJustified'
  <2>1. \A v \in Workers : v # w => pc[v] \notin Sections
    BY <1>1 DEF ExecCore, CyclesOrdered, SectionsOwned
  <2>2. \A v \in Workers : pc'[v] \notin {"finalized", "advancing"}
    BY <2>1 DEF advanceWorkbenchRunAfterPacket, EndCycle, Await, ExecCore, ExecTypeOK, Sections
  <2>. QED  BY <2>2 DEF AdvanceJustified
<1>11. \A r \in Runs : runs[r] \in RunTerminal => runs'[r] = runs[r]
  BY <1>4, <1>6
<1>12. CancelKept'
  <2>1. \A p \in cancelAsked : RunOf[p] \in Runs
    BY StoreAssumption DEF ExecCore, ExecTypeOK
  <2>. QED  BY <1>3, <1>11, <2>1 DEF CancelKept
<1>. QED  BY <1>3, <1>5, <1>9, <1>10, <1>11, <1>12

\* A control request of the owner: it reaches every packet of the run.
LEMMA ControlKeepsUp ==
  ASSUME UpInv, ExecCore', NEW r \in Runs, NEW a \in ControlActions, control(r, a)
  PROVE  UpInv' /\ \A s \in Runs : runs[s] \in RunTerminal => runs'[s] = runs[s]
<1>. USE DEF UpInv
<1>1. /\ runs \in [Runs -> RunTerminal \cup {"running", "paused"}] /\ cancelAsked \subseteq Packets
      /\ records \in [Packets -> PacketRecord]
  BY DEF ExecCore, ExecTypeOK, StoreTypeOK
<1>2. a \in {"pause", "resume", "cancel", "close"} /\ runs[r] \notin RunTerminal
  BY ExecutionAssumption DEF control, ControlAllowed, Accepts, RunTerminal
<1>3. runs'[r] = RunAfter(a) /\ \A s \in Runs : s # r => runs'[s] = runs[s]
  BY <1>1 DEF control
<1>4. \A s \in Runs : runs[s] \in RunTerminal => runs'[s] = runs[s]
  BY <1>2, <1>3
<1>5. \A p \in Packets : records'[p] = IF RunOf[p] = r
                                       THEN ControlledRecord(records[p], IF a = "close" THEN "cancel" ELSE a)
                                       ELSE records[p]
  BY DEF control, ControlPackets, controlWorkbenchPacketsForRun, Controlled
<1>6. \A s \in Runs : s # r => (MayAdvance(s)' <=> MayAdvance(s))
  BY <1>3 DEF MayAdvance, control, Tasks, DoneTasks
<1>7. \A p \in Packets : /\ records[p].status \in Statuses
                         /\ RunOf[p] \in Runs
                         /\ \A s : clearLease([records[p] EXCEPT !.status = s, !.control = "none"]).status = s
  BY <1>1, StoreAssumption DEF PacketRecord, clearLease
<1>8. a \in {"pause", "resume"} => runs'[r] \notin RunTerminal
  BY <1>3 DEF RunAfter, RunTerminal
<1>9. a \in {"cancel", "close"} =>
        /\ runs'[r] \in RunTerminal
        /\ \A p \in Packets : RunOf[p] = r =>
              /\ records'[p].status \in {"queued", "running"} => records'[p].control = "cancel"
              /\ records[p].status # "completed" => records'[p].status # "completed"
  <2>1. ASSUME a \in {"cancel", "close"}, NEW p \in Packets, RunOf[p] = r
        PROVE  /\ records'[p].status \in {"queued", "running"} => records'[p].control = "cancel"
               /\ records[p].status # "completed" => records'[p].status # "completed"
    <3>1. records'[p] = ControlledRecord(records[p], "cancel")
      BY <1>5, <2>1
    <3>2. CASE records[p].status \in {"queued", "paused"}
      <4>1. records'[p] = clearLease([records[p] EXCEPT !.status = "cancelled", !.control = "none"])
        BY <3>1, <3>2 DEF ControlledRecord
      <4>2. records'[p].status = "cancelled"
        BY <1>7, <4>1
      <4>. QED  BY <4>2
    <3>3. CASE records[p].status = "running"
      <4>1. records'[p] = [records[p] EXCEPT !.control = "cancel"]
        BY <3>1, <3>3 DEF ControlledRecord
      <4>2. records'[p].status = "running" /\ records'[p].control = "cancel"
        BY <1>1, <3>3, <4>1 DEF PacketRecord
      <4>. QED  BY <4>2
    <3>4. CASE records[p].status \notin {"queued", "paused", "running"}
      BY <1>7, <3>1, <3>4 DEF ControlledRecord
    <3>. QED  BY <3>2, <3>3, <3>4
  <2>2. a \in {"cancel", "close"} => runs'[r] \in RunTerminal
    BY <1>3 DEF RunAfter, RunTerminal
  <2>. QED  BY <2>1, <2>2
<1>10. OpenPacketsTold'
  <2>1. ASSUME NEW p \in Packets, records'[p].status \in {"queued", "running"}
        PROVE  records'[p].control = "cancel" \/ MayAdvance(RunOf[p])'
    <3>1. CASE RunOf[p] # r
      BY <1>5, <1>6, <1>7, <2>1, <3>1 DEF OpenPacketsTold
    <3>2. CASE RunOf[p] = r /\ a \in {"pause", "resume"}
      BY <1>8, <3>2 DEF MayAdvance
    <3>3. CASE RunOf[p] = r /\ a \in {"cancel", "close"}
      BY <1>9, <2>1, <3>3
    <3>. QED  BY <1>2, <3>1, <3>2, <3>3
  <2>. QED  BY <2>1 DEF OpenPacketsTold
<1>11. AdvanceJustified'
  <2>1. \A w \in Workers : pc'[w] \notin {"finalized", "advancing"}
    BY StoreAssumption DEF control, ControlAllowed, Idle, processVars, ExecCore, CyclesOrdered, SectionsOwned, Sections
  <2>. QED  BY <2>1 DEF AdvanceJustified
<1>12. OwnCompleted'
  BY DEF OwnCompleted, control
<1>13. lockLeft' = FALSE
  BY DEF control, ControlPackets, controlWorkbenchPacketsForRun
<1>14. CancelKept'
  <2>. SUFFICES ASSUME NEW p \in cancelAsked'
                PROVE  /\ runs'[RunOf[p]] \in RunTerminal
                       /\ records'[p].status # "completed"
                       /\ records'[p].status \in {"queued", "running"} => records'[p].control = "cancel"
    BY DEF CancelKept
  <2>1. CASE p \in cancelAsked
    <3>1. p \in Packets /\ runs[RunOf[p]] \in RunTerminal /\ RunOf[p] # r
      BY <1>1, <1>2, <2>1 DEF CancelKept
    <3>. QED  BY <1>4, <1>5, <1>7, <2>1, <3>1 DEF CancelKept
  <2>2. CASE p \notin cancelAsked
    <3>1. p \in Packets /\ RunOf[p] = r /\ records[p].status # "completed" /\ a \in {"cancel", "close"}
      BY <1>2, <2>2 DEF control, ControlPackets, Unsettled
    <3>. QED  BY <1>9, <3>1
  <2>. QED  BY <2>1, <2>2
<1>. QED  BY <1>4, <1>10, <1>11, <1>12, <1>13, <1>14

\* Every step of a process that stays up.
LEMMA UpStep ==
  ASSUME UpInv, [ExecNext]_vars, proc = "up", proc' = "up"
  PROVE  UpInv' /\ \A r \in Runs : runs[r] \in RunTerminal => runs'[r] = runs[r]
<1>. DEFINE Kept == UpInv' /\ \A r \in Runs : runs[r] \in RunTerminal => runs'[r] = runs[r]
<1>1. ExecCore' /\ ExecCore /\ lockLeft = FALSE
  BY CoreStep DEF UpInv
<1>2. records \in [Packets -> PacketRecord]
  BY <1>1 DEF ExecCore, ExecTypeOK, StoreTypeOK
<1>3. \A p \in Packets : records[p].status \in Statuses
  BY <1>2 DEF PacketRecord
<1>4. ASSUME UNCHANGED <<pc, job>> PROVE \A w \in Workers : Justified(w)
  <2>1. \A w \in Workers : pc[w] # "idle" => job[w] \in Packets
    BY <1>1, JobsTyped
  <2>. QED  BY <1>4, <2>1 DEF Justified
<1>5. ASSUME UNCHANGED <<pc, job, runs, completedIn, cancelAsked, lockLeft>>, \A p \in Packets : Tame(p)
      PROVE  Kept
  BY <1>1, <1>4, <1>5, TameKeepsUp
<1>6. ASSUME UNCHANGED <<pc, job, runs, completedIn, cancelAsked, lockLeft>>,
             \A p \in Packets : /\ records'[p].status = records[p].status
                                /\ records'[p].control = records[p].control
      PROVE  Kept
  BY <1>3, <1>5, <1>6 DEF Tame, Statuses, Terminal
<1>. USE DEF processVars, storeVars, runVars
<1>7. ASSUME NEW p \in Packets, reservePacket(p) PROVE Kept
  <2>. DEFINE rs == [records EXCEPT ![p] = [NoRecord EXCEPT !.status = "queued", !.at = clock + 1]]
  <2>1. records' = persistStore(rs)
    BY <1>7 DEF reservePacket, reserveWorkbenchPacket
  <2>2. \A q \in Packets : records'[q] = rs[q] \/ records'[q] = NoRecord
    BY <2>1, PersistKeepsOrDrops
  <2>3. \A q \in Packets : q # p => rs[q] = records[q]
    BY <1>2
  <2>4. rs[p].status = "queued" /\ NoRecord.status = "absent"
    BY <1>2 DEF NoRecord
  <2>5. runs[RunOf[p]] = "running"
    BY <1>7 DEF reservePacket
  <2>6. ASSUME NEW q \in Packets PROVE Tame(q)
    <3>1. CASE records'[q] = NoRecord
      BY <2>4, <3>1 DEF Tame
    <3>2. CASE q = p /\ records'[q] = rs[q]
      BY <2>4, <2>5, <3>2 DEF Tame
    <3>3. CASE q # p /\ records'[q] = rs[q]
      BY <1>3, <2>3, <3>3 DEF Tame, Statuses, Terminal
    <3>. QED  BY <2>2, <3>1, <3>2, <3>3
  <2>. QED  BY <1>5, <1>7, <2>6 DEF reservePacket, reserveWorkbenchPacket
<1>8. ASSUME NEW p \in Packets, leaseTimePasses(p) PROVE Kept
  <2>1. records' = [records EXCEPT ![p].live = FALSE]
    BY <1>8 DEF leaseTimePasses, LeaseExpires
  <2>2. \A q \in Packets : records'[q].status = records[q].status /\ records'[q].control = records[q].control
    BY <1>2, <2>1 DEF PacketRecord
  <2>. QED  BY <1>6, <1>8, <2>2 DEF leaseTimePasses, LeaseExpires
<1>9. ASSUME NEW w \in Workers, renewalTimer(w) PROVE Kept
  <2>1. records' = [records EXCEPT ![holds[w].packet].live = TRUE]
    BY <1>9 DEF renewalTimer, renewWorkbenchPacketLease
  <2>2. \A q \in Packets : records'[q].status = records[q].status /\ records'[q].control = records[q].control
    BY <1>2, <2>1 DEF PacketRecord
  <2>. QED  BY <1>6, <1>9, <2>2 DEF renewalTimer, renewWorkbenchPacketLease
<1>10. CASE recoverStale
  <2>1. \A q \in Packets : records'[q] = Recovered(records[q])
    BY <1>10 DEF recoverStale, recoverStaleWorkbenchPacketLeases
  <2>2. ASSUME NEW q \in Packets PROVE Tame(q)
    <3>1. CASE records'[q] = records[q]
      BY <1>3, <3>1 DEF Tame, Statuses, Terminal
    <3>2. CASE /\ records[q].status = "running"
               /\ records'[q] = clearLease([records[q] EXCEPT
                                   !.status = IF records[q].control = "cancel" THEN "cancelled" ELSE "queued",
                                   !.control = "none"])
      <4>1. records'[q].status = IF records[q].control = "cancel" THEN "cancelled" ELSE "queued"
        BY <1>2, <3>2 DEF clearLease, PacketRecord
      <4>. QED  BY <3>2, <4>1 DEF Tame
    <3>. QED  BY <2>1, <3>1, <3>2 DEF Recovered
  <2>. QED  BY <1>5, <1>10, <2>2 DEF recoverStale, recoverStaleWorkbenchPacketLeases
<1>11. ASSUME NEW w \in Workers, NEW p \in Packets, scheduleWorkbenchPacket(w, p) PROVE Kept
  <2>1. \A v \in Workers : pc'[v] \in {"finalized", "advancing"} => pc'[v] = pc[v] /\ job'[v] = job[v]
    BY <1>1, <1>11 DEF scheduleWorkbenchPacket, Await, ExecCore, ExecTypeOK
  <2>2. \A v \in Workers : Justified(v)
    BY <1>1, <2>1, JobsTyped DEF Justified
  <2>3. \A q \in Packets : Tame(q)
    BY <1>3, <1>11 DEF scheduleWorkbenchPacket, Tame, Statuses, Terminal
  <2>. QED  BY <1>1, <1>11, <2>2, <2>3, TameKeepsUp DEF scheduleWorkbenchPacket
<1>12. ASSUME NEW w \in Workers, Cycle(w) PROVE Kept
  BY <1>1, <1>12, CycleTame, AdvanceKeepsUp, TameKeepsUp
<1>13. ASSUME NEW r \in Runs, NEW a \in ControlActions, control(r, a) \/ controlCutShort(r, a) PROVE Kept
  BY <1>1, <1>13, ControlKeepsUp DEF controlCutShort
<1>14. ASSUME NEW p \in Packets, recoverExecutionJournal(p) PROVE Kept
  BY <1>14 DEF recoverExecutionJournal
<1>15. CASE crash \/ operatorRemovesLock \/ restart \/ serve
  BY <1>1, <1>15 DEF crash, operatorRemovesLock, OperatorRemovesLock, restart, serve
<1>16. CASE UNCHANGED vars
  BY <1>6, <1>16 DEF vars
<1>. QED  BY <1>7, <1>8, <1>9, <1>10, <1>11, <1>12, <1>13, <1>14, <1>15, <1>16 DEF ExecNext

LEMMA UpStart == ExecInit => UpInv
<1>. SUFFICES ASSUME ExecInit PROVE UpInv
  OBVIOUS
<1>1. ExecCore /\ lockLeft = FALSE
  BY CoreInit DEF ExecInit, StoreInit
<1>2. OpenPacketsTold /\ AdvanceJustified /\ OwnCompleted /\ CancelKept
  BY DEF ExecInit, StoreInit, NoRecord, OpenPacketsTold, AdvanceJustified, OwnCompleted, CancelKept
<1>. QED  BY <1>1, <1>2 DEF UpInv

\* While the process stays up, no packet that a cancel request reached is ever
\* reported completed, however leases expire, recoveries requeue and retries run.
THEOREM CancellationSticks == ExecSpec /\ [](proc = "up") => []CancelSticks
<1>1. UpInv => CancelSticks
  BY DEF UpInv, CancelKept, CancelSticks
<1>2. UpInv /\ [ExecNext]_vars /\ proc = "up" /\ (proc = "up")' => UpInv'
  BY UpStep
<1>. QED  BY UpStart, <1>1, <1>2, PTL DEF ExecSpec

\* While the process stays up, a run that ended stays ended: a packet of it that is
\* still executing learns of the end before it can advance the run.
THEOREM EndedRunsStayEnded == ExecSpec /\ [](proc = "up") => RunTerminalFinal
<1>1. UpInv /\ [ExecNext]_vars /\ proc = "up" /\ (proc = "up")' => UpInv'
  BY UpStep
<1>2. UpInv /\ [ExecNext]_vars /\ proc = "up" /\ (proc = "up")' =>
        [\A r \in Runs : runs[r] \in RunTerminal => runs'[r] = runs[r]]_vars
  BY UpStep
<1>. QED  BY UpStart, <1>1, <1>2, PTL DEF ExecSpec, RunTerminalFinal

-----------------------------------------------------------------------------
(* Packets with paths of their own: a completed packet is in the repository. *)

\* From the write to the end of the cycle the packet's file is what it wrote.
Written == {"validating", "scanning", "staging", "staged", "committing", "committed", "finalized", "advancing"}
WorkInPlace == \A w \in Workers : pc[w] \in Written => file[PathOf[job[w]]] = job[w]

\* After its commit a packet's path is neither staged nor part of a later commit.
CommitOnTop ==
    \A w \in Workers :
        pc[w] = "committed" =>
            /\ index[PathOf[job[w]]] = head[PathOf[job[w]]]
            /\ \E i \in CommitsOf(job[w]) :
                  \A k \in 1 .. Len(commits) : k > i => PathOf[job[w]] \notin commits[k].paths

\* Only the cycle that completed a packet still has it as its job.
CompletedIsLeft ==
    \A w \in Workers :
        job[w] # NoPacket /\ records[job[w]].status = "completed" => pc[w] \in {"finalized", "advancing"}

\* The work of one packet is in the repository.
Applied(p) ==
    IF p \in Committing THEN \E i \in CommitsOf(p) : commits[i].paths = {PathOf[p]}
                        ELSE file[PathOf[p]] = p

\* The inductive invariant behind CompletedApplied.
AppliedInv == ExecCore /\ WorkInPlace /\ CommitOnTop /\ CompletedIsLeft /\ CompletedApplied

\* What a step may do to the status of a packet: "completed" is left only for a dropped
\* record, and comes only from the cycle that finalizes the packet.
StatusStep(p) ==
    /\ records[p].status = "completed" => records'[p].status \in {"completed", "absent"}
    /\ records'[p].status = "completed" =>
          \/ records[p].status = "completed"
          \/ \E w \in Workers : job[w] = p /\ pc[w] # "finalized" /\ pc'[w] = "finalized"

\* A cycle that comes to "finalized" completes its packet.
FinalStep(w) ==
    pc'[w] = "finalized" =>
        pc[w] = "finalized" \/ (pc[w] # "idle" /\ records'[job[w]].status = "completed")

LEMMA SameStatus ==
  ASSUME \A p \in Packets : records'[p].status \in {records[p].status, "absent"}
  PROVE  \A p \in Packets : StatusStep(p)
  BY DEF StatusStep

LEMMA GiveBackStatus ==
  ASSUME ExecCore, NEW w \in Workers,
         \/ records' = Released(w, "queued")
         \/ \E s \in {"failed", "paused", "cancelled"} : records' = Finalized(w, s)
         \/ records' = records
  PROVE  \A p \in Packets : StatusStep(p)
<1>1. records \in [Packets -> PacketRecord]
  BY DEF ExecCore, ExecTypeOK, StoreTypeOK
<1>2. CASE records' = records
  BY <1>2, SameStatus
<1>3. CASE Leased(holds[w].packet, holds[w].token)
  <2>. DEFINE q == holds[w].packet
  <2>1. CASE records' = Released(w, "queued")
    <3>1. \A p \in Packets : p # q => records'[p] = records[p]
      BY <1>1, <1>3, <2>1 DEF Released
    <3>2. q \in Packets => records[q].status = "running" /\ records'[q].status = "queued"
      BY <1>1, <1>3, <2>1 DEF Released, Leased, clearLease, PacketRecord
    <3>. QED  BY <3>1, <3>2 DEF StatusStep
  <2>2. ASSUME NEW s \in {"failed", "paused", "cancelled"}, records' = Finalized(w, s)
        PROVE  \A p \in Packets : StatusStep(p)
    <3>1. \A p \in Packets : p # q => records'[p] = records[p]
      BY <1>1, <1>3, <2>2 DEF Finalized
    <3>2. q \in Packets => records[q].status = "running" /\ records'[q].status = s
      BY <1>1, <1>3, <2>2 DEF Finalized, Leased, clearLease, PacketRecord
    <3>. QED  BY <3>1, <3>2 DEF StatusStep
  <2>. QED  BY <1>2, <2>1, <2>2
<1>4. CASE ~Leased(holds[w].packet, holds[w].token)
  <2>1. records' = records
    BY <1>4 DEF Released, Finalized
  <2>. QED  BY <1>2, <2>1
<1>. QED  BY <1>3, <1>4

LEMMA CheckStatus ==
  ASSUME ExecCore, NEW w \in Workers, NEW next \in {"scanning", "staging", "finalize"},
         Idle, pc[w] # "idle", CheckThen(w, next) \/ CommandFails(w)
  PROVE  (\A p \in Packets : StatusStep(p)) /\ (\A v \in Workers : FinalStep(v))
<1>. DEFINE q == job[w]
<1>1. q \in Packets /\ records \in [Packets -> PacketRecord] /\ pc \in [Workers -> Places]
  BY JobsTyped DEF ExecCore, ExecTypeOK, StoreTypeOK
<1>2. \A v \in Workers : pc[v] # "finalized"
  BY StoreAssumption DEF Idle, ExecCore, CyclesOrdered, SectionsOwned, Sections
<1>3. CASE UNCHANGED records /\ pc' = [pc EXCEPT ![w] = "catching"]
  BY <1>1, <1>2, <1>3, SameStatus DEF FinalStep
<1>4. CASE UNCHANGED records /\ next # "finalize" /\ pc' = [pc EXCEPT ![w] = next]
  BY <1>1, <1>2, <1>4, SameStatus DEF FinalStep
<1>5. CASE /\ Leased(q, holds[w].token) /\ records' = Finalized(w, "completed")
           /\ pc' = [pc EXCEPT ![w] = "finalized"]
  <2>1. holds[w].packet = q
    <3>1. holds[w] # NoLease
      BY <1>5 DEF Leased, NoLease
    <3>. QED  BY <3>1 DEF ExecCore, CyclesOrdered, LeaseOfJob
  <2>2. records'[q].status = "completed"
    BY <1>1, <1>5, <2>1 DEF Finalized, Leased, clearLease, PacketRecord
  <2>3. \A p \in Packets : p # q => records'[p] = records[p]
    BY <1>1, <1>5, <2>1 DEF Finalized, Leased
  <2>4. \A p \in Packets : StatusStep(p)
    BY <1>1, <1>2, <1>5, <2>2, <2>3 DEF StatusStep
  <2>5. \A v \in Workers : FinalStep(v)
    BY <1>1, <1>2, <1>5, <2>2 DEF FinalStep
  <2>. QED  BY <2>4, <2>5
<1>. QED  BY <1>3, <1>4, <1>5 DEF CheckThen, CommandFails, FinalizeCompleted, Throw, Go, Await

\* The steps of the store that other actors make.
LEMMA OthersStatus ==
  ASSUME ExecCore, [ExecNext]_vars, ~\E w \in Workers : Cycle(w)
  PROVE  \A p \in Packets : StatusStep(p)
<1>1. records \in [Packets -> PacketRecord]
  BY DEF ExecCore, ExecTypeOK, StoreTypeOK
<1>. USE DEF storeVars
<1>2. ASSUME NEW p \in Packets, reservePacket(p) PROVE \A q \in Packets : StatusStep(q)
  <2>. DEFINE rs == [records EXCEPT ![p] = [NoRecord EXCEPT !.status = "queued", !.at = clock + 1]]
  <2>1. \A q \in Packets : records'[q] = rs[q] \/ records'[q] = NoRecord
    BY <1>2, PersistKeepsOrDrops DEF reservePacket, reserveWorkbenchPacket
  <2>2. records[p].status = "absent" /\ rs[p].status = "queued" /\ NoRecord.status = "absent"
    BY <1>1, <1>2 DEF NoRecord, reservePacket, reserveWorkbenchPacket
  <2>3. \A q \in Packets : q # p => rs[q] = records[q]
    BY <1>1
  <2>4. ASSUME NEW q \in Packets PROVE StatusStep(q)
    <3>1. CASE records'[q] = NoRecord
      BY <2>2, <3>1 DEF StatusStep
    <3>2. CASE records'[q] = rs[q]
      BY <2>2, <2>3, <3>2 DEF StatusStep
    <3>. QED  BY <2>1, <3>1, <3>2
  <2>. QED  BY <2>4
<1>3. ASSUME NEW p \in Packets, leaseTimePasses(p) PROVE \A q \in Packets : StatusStep(q)
  <2>1. \A q \in Packets : records'[q].status = records[q].status
    BY <1>1, <1>3 DEF leaseTimePasses, LeaseExpires, PacketRecord
  <2>. QED  BY <2>1, SameStatus
<1>4. ASSUME NEW w \in Workers, renewalTimer(w) PROVE \A q \in Packets : StatusStep(q)
  <2>1. \A q \in Packets : records'[q].status = records[q].status
    BY <1>1, <1>4 DEF renewalTimer, renewWorkbenchPacketLease, PacketRecord
  <2>. QED  BY <2>1, SameStatus
<1>5. ASSUME recoverStaleWorkbenchPacketLeases PROVE \A q \in Packets : StatusStep(q)
  <2>1. \A q \in Packets : records'[q] = Recovered(records[q])
    BY <1>5 DEF recoverStaleWorkbenchPacketLeases
  <2>2. ASSUME NEW q \in Packets PROVE StatusStep(q)
    <3>1. CASE records'[q] = records[q]
      BY <3>1 DEF StatusStep
    <3>2. CASE records[q].status = "running" /\ records'[q] = Recovered(records[q])
      <4>1. records'[q].status \in {"running", "cancelled", "queued"}
        BY <1>1, <3>2 DEF Recovered, clearLease, PacketRecord
      <4>. QED  BY <3>2, <4>1 DEF StatusStep
    <3>. QED  BY <2>1, <3>1, <3>2 DEF Recovered
  <2>. QED  BY <2>2
<1>6. ASSUME NEW p \in Packets, recoverExecutionJournal(p) PROVE \A q \in Packets : StatusStep(q)
  <2>1. CASE records' = records
    BY <2>1, SameStatus
  <2>2. CASE records' = Interrupted(records, p) /\ records[p].status = "running" /\ ~lockLeft
    <3>1. records'[p].status = "failed"
      BY <1>1, <2>2 DEF Interrupted, clearLease, PacketRecord
    <3>2. \A q \in Packets : q # p => records'[q] = records[q]
      BY <1>1, <2>2 DEF Interrupted
    <3>. QED  BY <2>2, <3>1, <3>2 DEF StatusStep
  <2>. QED  BY <1>6, <2>1, <2>2 DEF recoverExecutionJournal, recoverInterruptedWorkbenchPacket, Interrupted
<1>7. ASSUME NEW r \in Runs, NEW a, controlWorkbenchPacketsForRun(r, a)
      PROVE  \A q \in Packets : StatusStep(q)
  <2>1. ASSUME NEW q \in Packets PROVE StatusStep(q)
    <3>1. records'[q] \in {records[q], ControlledRecord(records[q], a)}
      BY <1>7 DEF controlWorkbenchPacketsForRun, Controlled
    <3>2. ControlledRecord(records[q], a) = records[q]
          \/ /\ records[q].status # "completed" /\ ControlledRecord(records[q], a).status # "completed"
      BY <1>1 DEF ControlledRecord, clearLease, PacketRecord
    <3>. QED  BY <3>1, <3>2 DEF StatusStep
  <2>. QED  BY <2>1
<1>8. ASSUME NEW r \in Runs, NEW a \in ControlActions, control(r, a) \/ controlCutShort(r, a)
      PROVE  \A q \in Packets : StatusStep(q)
  BY <1>7, <1>8, SameStatus DEF control, controlCutShort, ControlPackets
<1>9. CASE recoverStale \/ serve
  BY <1>5, <1>9, SameStatus DEF recoverStale, serve
<1>10. CASE crash \/ operatorRemovesLock \/ restart
  BY <1>10, SameStatus DEF crash, WorkersDie, operatorRemovesLock, OperatorRemovesLock, restart
<1>11. ASSUME NEW w \in Workers, NEW p \in Packets, scheduleWorkbenchPacket(w, p)
       PROVE  \A q \in Packets : StatusStep(q)
  BY <1>11, SameStatus DEF scheduleWorkbenchPacket
<1>12. CASE UNCHANGED vars
  BY <1>12, SameStatus DEF vars
<1>. QED  BY <1>2, <1>3, <1>4, <1>6, <1>8, <1>9, <1>10, <1>11, <1>12 DEF ExecNext

\* The steps of the store that a cycle makes.
LEMMA CycleStatus ==
  ASSUME ExecCore, NEW w \in Workers, Cycle(w)
  PROVE  (\A p \in Packets : StatusStep(p)) /\ (\A v \in Workers : FinalStep(v))
<1>1. records \in [Packets -> PacketRecord] /\ pc \in [Workers -> Places]
  BY DEF ExecCore, ExecTypeOK, StoreTypeOK
<1>. USE DEF At, Idle, storeVars
<1>2. ASSUME NEW place \in Places, pc' = [pc EXCEPT ![w] = place], place # "finalized"
      PROVE  \A v \in Workers : FinalStep(v)
  BY <1>1, <1>2 DEF FinalStep
<1>3. CASE claimForExecution(w)
  <2>1. job[w] \in Packets
    BY <1>3, JobsTyped DEF claimForExecution
  <2>2. CASE Remind(w, job[w])
    BY <1>2, <1>3, <2>2, SameStatus DEF Remind, claimForExecution, Go, Places
  <2>3. CASE Grant(w, job[w]) /\ records[job[w]].status \in {"queued", "running"}
    <3>1. \A p \in Packets : p # job[w] => records'[p] = records[p]
      BY <1>1, <2>3 DEF Grant
    <3>2. records'[job[w]].status = "running"
      BY <1>1, <2>1, <2>3 DEF Grant, Claimed, PacketRecord
    <3>3. \A p \in Packets : StatusStep(p)
      BY <2>3, <3>1, <3>2 DEF StatusStep
    <3>. QED  BY <1>2, <1>3, <3>3 DEF claimForExecution, Go, Places
  <2>. QED  BY <1>3, <2>2, <2>3 DEF claimForExecution, claimPacket
<1>4. CASE validationEnds(w) \/ scanEnds(w) \/ verifyCommitted(w) \/ gitFails(w)
  BY <1>4, CheckStatus DEF validationEnds, scanEnds, verifyCommitted, gitFails
<1>5. CASE claimRefused(w) \/ requeueBeforeMutation(w) \/ rollBackFails(w) \/ dropJournal(w)
           \/ advanceWorkbenchRunAfterPacket(w)
  <2>1. \A v \in Workers : FinalStep(v)
    BY <1>2, <1>5 DEF claimRefused, requeueBeforeMutation, rollBackFails, dropJournal,
                      advanceWorkbenchRunAfterPacket, EndCycle, Await, Places
  <2>. QED  BY <1>5, <2>1, GiveBackStatus DEF claimRefused, requeueBeforeMutation, rollBackFails, dropJournal,
                                              advanceWorkbenchRunAfterPacket
<1>6. CASE settle(w)
  <2>1. \A p \in Packets : StatusStep(p)
    BY <1>6, GiveBackStatus, StatusesKnown DEF settle
  <2>. QED  BY <1>2, <1>6, <2>1 DEF settle, Go, Places
<1>7. CASE prepareJournal(w) \/ applySteps(w) \/ completeJournal(w) \/ advanceThrows(w) \/ rollBack(w)
  <2>1. \A v \in Workers : FinalStep(v)
    BY <1>2, <1>7 DEF prepareJournal, applySteps, completeJournal, advanceThrows, rollBack,
                      Throw, Go, Await, Places
  <2>. QED  BY <1>7, <2>1, SameStatus DEF prepareJournal, applySteps, completeJournal, advanceThrows, rollBack
<1>8. CASE goalCommandEnds(w) \/ gitAddRuns(w) \/ verifyStaged(w) \/ gitCommitRuns(w)
  <2>1. \A v \in Workers : FinalStep(v)
    BY <1>2, <1>8 DEF goalCommandEnds, gitAddRuns, verifyStaged, gitCommitRuns, CommandFails,
                      Throw, Go, Await, Places
  <2>. QED  BY <1>8, <2>1, SameStatus DEF goalCommandEnds, gitAddRuns, verifyStaged, gitCommitRuns, CommandFails
<1>. QED  BY <1>3, <1>4, <1>5, <1>6, <1>7, <1>8 DEF Cycle

-----------------------------------------------------------------------------
\* A cycle that goes on, or starts, without touching the repository.
GoesOn(w) ==
    /\ pc'[w] \in Written => pc[w] \in Written /\ job'[w] = job[w]
    /\ pc'[w] = "committed" => pc[w] = "committed"
    /\ job'[w] # NoPacket =>
          \/ job'[w] = job[w] /\ (pc[w] \in {"finalized", "advancing"} => pc'[w] \in {"finalized", "advancing"})
          \/ records'[job'[w]].status = "queued"

LEMMA StillApplied ==
  ASSUME AppliedInv, ExecCore', UNCHANGED <<file, index, head, commits>>,
         \A p \in Packets : StatusStep(p), \A w \in Workers : GoesOn(w),
         \A w \in Workers : pc[w] # "finalized" /\ pc'[w] = "finalized" => Applied(job[w])
  PROVE  AppliedInv'
<1>. USE DEF AppliedInv
<1>1. WorkInPlace'
  BY DEF WorkInPlace, GoesOn
<1>2. CommitOnTop'
  <2>1. "committed" \in Written
    BY DEF Written
  <2>2. \A p : CommitsOf(p)' = CommitsOf(p)
    BY DEF CommitsOf
  <2>3. \A w \in Workers : pc'[w] = "committed" => pc[w] = "committed" /\ job'[w] = job[w]
    BY <2>1 DEF GoesOn
  <2>. QED  BY <2>2, <2>3 DEF CommitOnTop
<1>3. CompletedIsLeft'
  <2>. SUFFICES ASSUME NEW w \in Workers, job'[w] # NoPacket, records'[job'[w]].status = "completed"
                PROVE  pc'[w] \in {"finalized", "advancing"}
    BY DEF CompletedIsLeft
  <2>1. /\ job'[w] = job[w] /\ job[w] \in Packets
        /\ pc[w] \in {"finalized", "advancing"} => pc'[w] \in {"finalized", "advancing"}
    BY DEF GoesOn, ExecCore, ExecTypeOK
  <2>2. CASE records[job[w]].status = "completed"
    BY <2>1, <2>2 DEF CompletedIsLeft
  <2>3. CASE \E v \in Workers : job[v] = job[w] /\ pc'[v] = "finalized"
    BY <2>1, <2>3 DEF ExecCore, CyclesOrdered, SingleExecutor
  <2>. QED  BY <2>1, <2>2, <2>3 DEF StatusStep
<1>4. CompletedApplied'
  <2>1. \A p \in Packets : Applied(p)' <=> Applied(p)
    BY DEF Applied, CommitsOf
  <2>2. \A p \in Packets : records'[p].status = "completed" => Applied(p)
    BY DEF StatusStep, CompletedApplied, Applied
  <2>. QED  BY <2>1, <2>2 DEF CompletedApplied, Applied
<1>. QED  BY <1>1, <1>2, <1>3, <1>4

\* The facts about paths of one's own that the steps on the repository rest on.
OwnPaths == \A p, q \in Packets : PathOf[p] = PathOf[q] => p = q

LEMMA ApplyKeepsApplied ==
  ASSUME AppliedInv, ExecCore', OwnPaths, NEW w \in Workers, applySteps(w) \/ rollBack(w)
  PROVE  AppliedInv'
<1>. USE DEF AppliedInv
<1>1. /\ pc[w] \in {"journaled", "catching"} /\ job[w] \in Packets /\ PathOf[job[w]] \in Paths
      /\ UNCHANGED <<records, job, head, commits>>
      /\ pc \in [Workers -> Places] /\ file \in [Paths -> Content] /\ index \in [Paths -> Content]
  BY JobsTyped DEF applySteps, rollBack, At, storeVars, ExecCore, ExecTypeOK
<1>2. PICK p \in Packets, x \in Paths : p = job[w] /\ x = PathOf[p]
  BY <1>1
<1>3. records[p].status # "completed"
  BY <1>1, <1>2, StoreAssumption DEF CompletedIsLeft
<1>4. \A v \in Workers : v # w /\ pc[v] # "idle" => job[v] \in Packets /\ PathOf[job[v]] # x /\ PathOf[job[v]] \in Paths
  BY <1>2, StoreAssumption, ExecutionAssumption, JobsTyped DEF OwnPaths, ExecCore, CyclesOrdered, SingleExecutor
<1>5. \A y \in Paths : y # x => file'[y] = file[y] /\ index'[y] = index[y]
  BY <1>1, <1>2 DEF applySteps, rollBack
<1>6. /\ \A v \in Workers : v # w => pc'[v] = pc[v]
      /\ pc'[w] \in {"catching", "validating", "rolledBack"}
      /\ pc'[w] = "validating" => file'[x] = p
  BY <1>1, <1>2 DEF applySteps, rollBack, Throw, Go, Await
<1>7. WorkInPlace'
  <2>1. "idle" \notin Written
    BY DEF Written
  <2>2. \A v \in Workers : v # w /\ pc'[v] \in Written => file'[PathOf[job[v]]] = job[v]
    BY <1>4, <1>5, <1>6, <2>1 DEF WorkInPlace
  <2>3. pc'[w] \in Written => file'[PathOf[job[w]]] = job[w]
    BY <1>2, <1>6 DEF Written
  <2>. QED  BY <1>1, <2>2, <2>3 DEF WorkInPlace
<1>8. CommitOnTop'
  <2>1. \A q : CommitsOf(q)' = CommitsOf(q)
    BY <1>1 DEF CommitsOf
  <2>2. \A v \in Workers : pc'[v] = "committed" => pc[v] = "committed" /\ v # w
    BY <1>6
  <2>3. \A v \in Workers : pc'[v] = "committed" => index'[PathOf[job[v]]] = index[PathOf[job[v]]]
    BY <1>4, <1>5, <2>2
  <2>. QED  BY <1>1, <2>1, <2>2, <2>3 DEF CommitOnTop
<1>9. CompletedIsLeft'
  BY <1>1, <1>2, <1>3, <1>6 DEF CompletedIsLeft
<1>10. CompletedApplied'
  <2>. SUFFICES ASSUME NEW q \in Packets, records[q].status = "completed" PROVE Applied(q)'
    BY <1>1 DEF CompletedApplied, Applied
  <2>1. q # p /\ PathOf[q] # x /\ PathOf[q] \in Paths
    BY <1>2, <1>3, ExecutionAssumption DEF OwnPaths
  <2>2. file'[PathOf[q]] = file[PathOf[q]]
    BY <1>5, <2>1
  <2>3. Applied(q)
    BY DEF CompletedApplied, Applied
  <2>. QED  BY <1>1, <2>2, <2>3 DEF Applied, CommitsOf
<1>. QED  BY <1>7, <1>8, <1>9, <1>10

LEMMA AddKeepsApplied ==
  ASSUME AppliedInv, ExecCore', OwnPaths, NEW w \in Workers, gitAddRuns(w)
  PROVE  AppliedInv'
<1>. USE DEF AppliedInv
<1>1. /\ pc[w] = "staging" /\ job[w] \in Packets /\ PathOf[job[w]] \in Paths
      /\ UNCHANGED <<records, job, head, commits, file>>
      /\ index' = [index EXCEPT ![PathOf[job[w]]] = file[PathOf[job[w]]]] /\ index \in [Paths -> Content]
  BY JobsTyped DEF gitAddRuns, At, ExecutionFrame, ExecCore, ExecTypeOK
<1>2. \A v \in Workers : pc'[v] = IF v = w THEN "staged" ELSE pc[v]
  BY DEF gitAddRuns, ExecCore, ExecTypeOK
<1>3. WorkInPlace' /\ CompletedIsLeft'
  BY <1>1, <1>2 DEF WorkInPlace, CompletedIsLeft, Written
<1>4. CommitOnTop'
  <2>1. \A v \in Workers : pc[v] = "committed" => index'[PathOf[job[v]]] = index[PathOf[job[v]]]
    BY <1>1, StoreAssumption, ExecutionAssumption, JobsTyped DEF OwnPaths, ExecCore, CyclesOrdered, SingleExecutor
  <2>2. \A q : CommitsOf(q)' = CommitsOf(q)
    BY <1>1 DEF CommitsOf
  <2>. QED  BY <1>1, <1>2, <2>1, <2>2 DEF CommitOnTop
<1>5. CompletedApplied'
  BY <1>1 DEF CompletedApplied, CommitsOf
<1>. QED  BY <1>3, <1>4, <1>5

\* A commit is added on top, and the earlier ones stay what they are.
LEMMA CommitsGrow ==
  ASSUME ExecTypeOK, NEW c, commits' = Append(commits, c)
  PROVE  /\ Len(commits) \in Nat /\ Len(commits') = Len(commits) + 1 /\ commits'[Len(commits) + 1] = c
         /\ \A i \in 1 .. Len(commits) : commits'[i] = commits[i]
         /\ \A p : CommitsOf(p)' = CommitsOf(p) \cup (IF c.packet = p THEN {Len(commits) + 1} ELSE {})
<1>1. commits \in Seq([packet : Packets, paths : SUBSET Paths])
  BY DEF ExecTypeOK
<1>2. /\ Len(commits) \in Nat /\ Len(commits') = Len(commits) + 1 /\ commits'[Len(commits) + 1] = c
      /\ \A i \in 1 .. Len(commits) : commits'[i] = commits[i]
  BY <1>1
<1>. QED  BY <1>2 DEF CommitsOf

LEMMA CommitKeepsApplied ==
  ASSUME AppliedInv, ExecCore', NEW w \in Workers, gitCommitRuns(w)
  PROVE  AppliedInv'
<1>. USE DEF AppliedInv
<1>1. /\ pc[w] = "committing" /\ job[w] \in Packets /\ PathOf[job[w]] \in Paths
      /\ UNCHANGED <<records, job, index, file>> /\ head' = index
      /\ commits' = Append(commits, [packet |-> job[w], paths |-> Staged])
  BY JobsTyped DEF gitCommitRuns, At, ExecutionFrame
<1>2. \A v \in Workers : pc'[v] = IF v = w THEN "committed" ELSE pc[v]
  BY DEF gitCommitRuns, ExecCore, ExecTypeOK
<1>3. /\ Len(commits) \in Nat /\ Len(commits') = Len(commits) + 1
      /\ commits'[Len(commits) + 1].paths = Staged
      /\ \A i \in 1 .. Len(commits) : commits'[i] = commits[i]
      /\ \A p : CommitsOf(p)' = CommitsOf(p) \cup (IF job[w] = p THEN {Len(commits) + 1} ELSE {})
  BY <1>1, CommitsGrow DEF ExecCore
<1>4. WorkInPlace' /\ CompletedIsLeft'
  BY <1>1, <1>2 DEF WorkInPlace, CompletedIsLeft, Written
<1>5. ASSUME NEW v \in Workers, pc'[v] = "committed"
      PROVE  /\ index'[PathOf[job'[v]]] = head'[PathOf[job'[v]]]
             /\ \E i \in CommitsOf(job[v])' :
                   \A k \in 1 .. Len(commits') : k > i => PathOf[job'[v]] \notin commits'[k].paths
  <2>1. CASE v = w
    <3>1. Len(commits) + 1 \in CommitsOf(job[v])'
      BY <1>1, <1>3, <2>1
    <3>. QED  BY <1>1, <1>3, <3>1
  <2>2. CASE v # w
    <3>1. pc[v] = "committed" /\ index[PathOf[job[v]]] = head[PathOf[job[v]]]
      BY <1>2, <1>5, <2>2 DEF CommitOnTop
    <3>2. PathOf[job[v]] \notin Staged
      BY <3>1 DEF Staged
    <3>3. PICK i \in CommitsOf(job[v]) :
             \A k \in 1 .. Len(commits) : k > i => PathOf[job[v]] \notin commits[k].paths
      BY <3>1 DEF CommitOnTop
    <3>4. i \in CommitsOf(job[v])'
      BY <1>1, <1>3
    <3>5. \A k \in 1 .. Len(commits') : k > i => PathOf[job[v]] \notin commits'[k].paths
      BY <1>3, <3>2, <3>3
    <3>. QED  BY <1>1, <3>4, <3>5
  <2>. QED  BY <2>1, <2>2
<1>6. CommitOnTop'
  BY <1>1, <1>5 DEF CommitOnTop
<1>7. CompletedApplied'
  <2>. SUFFICES ASSUME NEW q \in Packets, records[q].status = "completed" PROVE Applied(q)'
    BY <1>1 DEF CompletedApplied, Applied
  <2>1. Applied(q)
    BY DEF CompletedApplied, Applied
  <2>2. \A i \in CommitsOf(q) : i \in CommitsOf(q)' /\ commits'[i] = commits[i]
    BY <1>3 DEF CommitsOf
  <2>. QED  BY <1>1, <2>1, <2>2 DEF Applied
<1>. QED  BY <1>4, <1>6, <1>7

\* The check after the commit sees the packet's own commit: its path is in no later one.
LEMMA CheckKeepsApplied ==
  ASSUME AppliedInv, ExecCore', NEW w \in Workers,
         validationEnds(w) \/ scanEnds(w) \/ verifyCommitted(w) \/ gitFails(w)
  PROVE  AppliedInv'
<1>. USE DEF AppliedInv
<1>1. /\ Idle /\ pc[w] \in {"validating", "scanning", "committed", "staging", "committing"}
      /\ UNCHANGED <<file, index, head, commits, job>> /\ job[w] \in Packets
      /\ pc \in [Workers -> Places]
      /\ \A p \in Packets : StatusStep(p)
  <2>1. Cycle(w)
    BY DEF Cycle
  <2>. QED  BY <2>1, CycleStatus, JobsTyped DEF validationEnds, scanEnds, verifyCommitted, gitFails, At, Idle,
                                               ExecutionFrame, ExecCore, ExecTypeOK
<1>2. ASSUME NEW next \in {"scanning", "staging", "finalize"}, CheckThen(w, next) \/ CommandFails(w)
      PROVE  /\ pc' = [pc EXCEPT ![w] = pc'[w]]
             /\ pc'[w] \in {"catching", "scanning", "staging", "finalized"}
             /\ pc'[w] = "finalized" => next = "finalize" /\ ~CommandFails(w)
  BY <1>1, <1>2 DEF CheckThen, CommandFails, FinalizeCompleted, Throw, Go, Await
<1>3. /\ \A v \in Workers : v # w => pc'[v] = pc[v]
      /\ pc'[w] \in {"catching", "scanning", "staging", "finalized"}
      /\ pc'[w] = "finalized" =>
            \/ pc[w] = "committed" /\ commits[Len(commits)].paths = {PathOf[job[w]]}
            \/ pc[w] = "validating" /\ job[w] \notin Committing
  <2>1. CASE validationEnds(w) /\ job[w] \in Committing
    BY <1>1, <1>2, <2>1 DEF validationEnds, At
  <2>2. CASE validationEnds(w) /\ job[w] \notin Committing
    BY <1>1, <1>2, <2>2 DEF validationEnds, At
  <2>3. CASE scanEnds(w)
    BY <1>1, <1>2, <2>3 DEF scanEnds, At
  <2>4. CASE verifyCommitted(w)
    BY <1>1, <1>2, <2>4 DEF verifyCommitted, At
  <2>5. CASE gitFails(w)
    BY <1>1, <1>2, <2>5 DEF gitFails
  <2>. QED  BY <2>1, <2>2, <2>3, <2>4, <2>5
<1>4. \A v \in Workers : GoesOn(v)
  BY <1>1, <1>3 DEF GoesOn, Written
<1>5. pc'[w] = "finalized" => Applied(job[w])
  <2>1. ASSUME pc'[w] = "finalized", pc[w] = "committed", commits[Len(commits)].paths = {PathOf[job[w]]}
        PROVE  \E i \in CommitsOf(job[w]) : commits[i].paths = {PathOf[job[w]]}
    <3>1. PICK i \in CommitsOf(job[w]) :
             \A k \in 1 .. Len(commits) : k > i => PathOf[job[w]] \notin commits[k].paths
      BY <2>1 DEF CommitOnTop
    <3>2. Len(commits) \in Nat /\ i \in 1 .. Len(commits)
      BY DEF ExecCore, ExecTypeOK, CommitsOf
    <3>3. ~(Len(commits) > i)
      BY <2>1, <3>1, <3>2
    <3>4. i = Len(commits)
      BY <3>2, <3>3
    <3>. QED  BY <2>1, <3>4
  <2>2. ASSUME pc[w] \in {"committed", "validating"} PROVE file[PathOf[job[w]]] = job[w]
    BY <2>2 DEF WorkInPlace, Written
  <2>. QED  BY <1>3, <2>1, <2>2 DEF Applied
<1>. QED  BY <1>1, <1>3, <1>4, <1>5, StillApplied

\* Every step of a process that stays up and can write its runs.
LEMMA AppliedStep ==
  ASSUME AppliedInv, [ExecNext]_vars, proc = "up", proc' = "up", OwnPaths, ~RunWriteFails
  PROVE  AppliedInv'
<1>1. ExecCore /\ ExecCore'
  BY CoreStep DEF AppliedInv
<1>. USE DEF processVars, storeVars, repoVars
<1>2. ASSUME NEW w \in Workers, Cycle(w) PROVE AppliedInv'
  <2>1. /\ \A p \in Packets : StatusStep(p)
        /\ pc \in [Workers -> Places] /\ job \in [Workers -> Packets \cup {NoPacket}]
    BY <1>1, <1>2, CycleStatus DEF ExecCore, ExecTypeOK
  <2>2. CASE applySteps(w) \/ rollBack(w) \/ gitAddRuns(w) \/ gitCommitRuns(w)
             \/ validationEnds(w) \/ scanEnds(w) \/ verifyCommitted(w) \/ gitFails(w)
    BY <1>1, <2>2, ApplyKeepsApplied, AddKeepsApplied, CommitKeepsApplied, CheckKeepsApplied
  <2>3. ASSUME UNCHANGED <<file, index, head, commits, job>>, NEW place, pc' = [pc EXCEPT ![w] = place],
               \/ place \notin Written /\ pc[w] \notin {"finalized", "advancing"}
               \/ pc[w] = "finalized" /\ place = "advancing"
               \/ pc[w] = "staged" /\ place = "committing"
        PROVE  AppliedInv'
    <3>1. \A v \in Workers : GoesOn(v)
      BY <2>1, <2>3 DEF GoesOn, Written
    <3>2. \A v \in Workers : pc'[v] = "finalized" => pc[v] = "finalized"
      BY <2>1, <2>3 DEF Written
    <3>. QED  BY <1>1, <2>1, <2>3, <3>1, <3>2, StillApplied
  <2>4. ASSUME EndCycle(w), UNCHANGED <<file, index, head, commits>>
        PROVE  AppliedInv'
    <3>1. \A v \in Workers : GoesOn(v)
      BY <2>1, <2>4 DEF EndCycle, Await, GoesOn, Written
    <3>2. \A v \in Workers : pc'[v] = "finalized" => pc[v] = "finalized"
      BY <2>1, <2>4 DEF EndCycle, Await
    <3>. QED  BY <1>1, <2>1, <2>4, <3>1, <3>2, StillApplied
  <2>5. CASE claimRefused(w) \/ requeueBeforeMutation(w) \/ advanceWorkbenchRunAfterPacket(w)
             \/ rollBackFails(w) \/ dropJournal(w)
    BY <2>4, <2>5 DEF claimRefused, requeueBeforeMutation, advanceWorkbenchRunAfterPacket, rollBackFails, dropJournal
  <2>6. CASE claimForExecution(w) \/ prepareJournal(w) \/ goalCommandEnds(w) \/ settle(w)
    BY <2>3, <2>6 DEF claimForExecution, prepareJournal, goalCommandEnds, settle, CommandFails, Throw, Go, Await,
                      At, Written
  <2>7. CASE verifyStaged(w)
    BY <2>3, <2>7 DEF verifyStaged, CommandFails, Throw, Go, Await, At, ExecutionFrame, Written
  <2>8. CASE completeJournal(w)
    BY <2>3, <2>8 DEF completeJournal, Go, At
  <2>9. CASE advanceThrows(w)
    BY <2>9 DEF advanceThrows
  <2>. QED  BY <1>2, <2>2, <2>5, <2>6, <2>7, <2>8, <2>9 DEF Cycle
<1>3. ASSUME ~\E w \in Workers : Cycle(w) PROVE AppliedInv'
  <2>1. \A p \in Packets : StatusStep(p)
    BY <1>1, <1>3, OthersStatus
  <2>2. ASSUME UNCHANGED <<file, index, head, commits, pc, job>> PROVE AppliedInv'
    BY <1>1, <2>1, <2>2, StillApplied DEF GoesOn
  <2>3. ASSUME NEW w \in Workers, NEW p \in Packets, scheduleWorkbenchPacket(w, p) PROVE AppliedInv'
    <3>1. /\ UNCHANGED <<file, index, head, commits>> /\ records' = records /\ records[p].status = "queued"
          /\ pc[w] = "idle" /\ pc' = [pc EXCEPT ![w] = "scheduled"] /\ job' = [job EXCEPT ![w] = p]
          /\ pc \in [Workers -> Places] /\ job \in [Workers -> Packets \cup {NoPacket}]
      BY <1>1, <2>3 DEF scheduleWorkbenchPacket, Await, ExecCore, ExecTypeOK
    <3>2. \A v \in Workers : GoesOn(v)
      BY <3>1 DEF GoesOn, Written
    <3>3. \A v \in Workers : pc'[v] = "finalized" => pc[v] = "finalized"
      BY <3>1
    <3>. QED  BY <1>1, <2>1, <3>1, <3>2, <3>3, StillApplied
  <2>4. ASSUME NEW p \in Packets, reservePacket(p) \/ leaseTimePasses(p) \/ recoverExecutionJournal(p)
        PROVE  AppliedInv'
    BY <2>2, <2>4 DEF reservePacket, leaseTimePasses, recoverExecutionJournal
  <2>5. ASSUME NEW w \in Workers, renewalTimer(w) PROVE AppliedInv'
    BY <2>2, <2>5 DEF renewalTimer
  <2>6. ASSUME NEW r \in Runs, NEW a \in ControlActions, control(r, a) \/ controlCutShort(r, a)
        PROVE  AppliedInv'
    BY <2>2, <2>6 DEF control, controlCutShort
  <2>7. CASE recoverStale \/ crash \/ operatorRemovesLock \/ restart \/ serve
    BY <2>2, <2>7 DEF recoverStale, crash, operatorRemovesLock, restart, serve
  <2>8. CASE UNCHANGED vars
    BY <2>2, <2>8 DEF vars
  <2>. QED  BY <1>3, <2>3, <2>4, <2>5, <2>6, <2>7, <2>8 DEF ExecNext
<1>. QED  BY <1>2, <1>3

\* Where packets have paths of their own, the process stays up and its runs can be
\* written, the work of every completed packet is in the repository, however many
\* packets execute at once and share the Git index.
THEOREM CompletedWorkApplied ==
  ASSUME OwnPaths, ~RunWriteFails
  PROVE  ExecSpec /\ [](proc = "up") => []CompletedApplied
<1>1. ExecInit => AppliedInv
  <2>. SUFFICES ASSUME ExecInit PROVE AppliedInv
    OBVIOUS
  <2>1. ExecCore
    BY CoreInit
  <2>2. WorkInPlace /\ CommitOnTop /\ CompletedIsLeft /\ CompletedApplied
    BY DEF ExecInit, StoreInit, NoRecord, WorkInPlace, CommitOnTop, CompletedIsLeft, CompletedApplied, Written
  <2>. QED  BY <2>1, <2>2 DEF AppliedInv
<1>2. AppliedInv /\ [ExecNext]_vars /\ proc = "up" /\ (proc = "up")' => AppliedInv'
  BY AppliedStep
<1>3. AppliedInv => CompletedApplied
  BY DEF AppliedInv
<1>. QED  BY <1>1, <1>2, <1>3, PTL DEF ExecSpec

-----------------------------------------------------------------------------
(* Packets that execute one at a time: no change is left without a journal,  *)
(* whenever the process dies, and each is committed on the HEAD it expects.  *)

\* One cycle is past its claim at a time, and the retention limit drops no record.
OneAtATime ==
    \A v, w \in Workers : pc[v] \notin {"idle", "scheduled"} /\ pc[w] \notin {"idle", "scheduled"} => v = w
NothingEvicted ==
    [][\A p \in Packets : records[p].status # "absent" => records'[p].status # "absent"]_vars

\* The places between the plan and the commit, and those a rollback may start from.
Prepared == {"commanding", "journaled", "validating", "scanning", "staging", "staged", "committing"}
Undoable == Prepared \cup {"committed", "catching"}

\* What an execution relies on at each place.
CyclePhase(w) ==
    LET p == job[w]
        x == PathOf[p]
    IN
    /\ pc[w] # "idle" => records[p].status # "absent"
    /\ pc[w] \in Undoable => journal[p] = snapshot[w] \/ records[p].status = "completed"
    /\ pc[w] \in {"rolledBack", "settled"} => file[x] = snapshot[w]
    /\ pc[w] \in {"finalized", "advancing"} => records[p].status = "completed"
    /\ pc[w] \in {"validating", "scanning", "staging"} => file[x] = p
    /\ pc[w] \in {"staged", "committing"} => index[x] = p
    /\ pc[w] \in {"scanning", "staging", "staged", "committing"} => p \in Committing
    /\ pc[w] \in Prepared => Len(commits) = expectedHead[p]
    /\ pc[w] \in Prepared /\ p \in Committing => \A y \in Paths \ {x} : index[y] = head[y]

\* What HEAD, the journals and the executions would put back was committed.
Landed(q) == q \in Packets => CommitsOf(q) # {}
UndoLanded ==
    /\ \A x \in Paths : Landed(head[x])
    /\ \A w \in Workers : Landed(snapshot[w])
    /\ \A p \in Packets : Landed(journal[p])

\* A packet with a commit is in the store.
CommittedKnown == \A p \in Packets : CommitsOf(p) # {} => records[p].status # "absent"

\* The inductive invariant behind WriteAhead and BuiltOnExpectedHead.
AloneInv ==
    /\ ExecCore
    /\ \A w \in Workers : CyclePhase(w)
    /\ UndoLanded /\ CommittedKnown /\ WriteAhead /\ BuiltOnExpectedHead

NoneDropped == \A p \in Packets : records[p].status # "absent" => records'[p].status # "absent"

\* A cycle that stays, ends, is scheduled, or moves without touching the repository.
PhaseMove(w) ==
    \/ pc'[w] = pc[w] /\ job'[w] = job[w]
    \/ pc'[w] = "idle"
    \/ pc'[w] = "scheduled" /\ records'[job'[w]].status # "absent"
    \/ /\ job'[w] = job[w] /\ pc[w] # "idle"
       /\ pc'[w] \in Undoable => pc[w] \in Undoable \cup {"finalized", "advancing"}
       /\ pc'[w] \in {"rolledBack", "settled"} => pc[w] \in {"rolledBack", "settled"}
       /\ pc'[w] \in {"finalized", "advancing"} => records'[job[w]].status = "completed"
       /\ pc'[w] \in {"validating", "scanning", "staging"} => pc[w] \in {"validating", "scanning", "staging"}
       /\ pc'[w] \in {"staged", "committing"} => pc[w] \in {"staged", "committing"}
       /\ pc'[w] \in {"scanning", "staging", "staged", "committing"} => job[w] \in Committing
       /\ pc'[w] \in Prepared => pc[w] \in Prepared

\* "completed" stays when no record is dropped.
LEMMA CompletedStays ==
  ASSUME NoneDropped, NEW p \in Packets, StatusStep(p), records[p].status = "completed"
  PROVE  records'[p].status = "completed"
  BY DEF NoneDropped, StatusStep

LEMMA QuietKeepsAlone ==
  ASSUME AloneInv, ExecCore', NoneDropped, \A p \in Packets : StatusStep(p),
         UNCHANGED <<journal, file, index, head, commits, expectedHead>>,
         snapshot' = snapshot \/ snapshot' = [w \in Workers |-> Base],
         \A w \in Workers : PhaseMove(w),
         snapshot' # snapshot => \A w \in Workers : pc'[w] = "idle"
  PROVE  AloneInv'
<1>. USE DEF AloneInv
<1>1. \A q : CommitsOf(q)' = CommitsOf(q)
  BY DEF CommitsOf
<1>2. \A q : Landed(q)' <=> Landed(q)
  BY <1>1 DEF Landed
<1>3. UndoLanded'
  <2>1. \A w \in Workers : snapshot'[w] = snapshot[w] \/ snapshot'[w] = Base
    OBVIOUS
  <2>2. Landed(Base)
    BY ExecutionAssumption DEF Landed
  <2>. QED  BY <1>2, <2>1, <2>2 DEF UndoLanded
<1>4. CommittedKnown' /\ BuiltOnExpectedHead'
  BY <1>1 DEF CommittedKnown, NoneDropped, BuiltOnExpectedHead
<1>5. WriteAhead'
  BY <1>1, CompletedStays DEF WriteAhead
<1>6. ASSUME NEW w \in Workers PROVE CyclePhase(w)'
  <2>1. CASE pc'[w] = "idle"
    BY <2>1 DEF CyclePhase, Undoable, Prepared
  <2>2. CASE pc'[w] = "scheduled" /\ records'[job'[w]].status # "absent"
    BY <2>2 DEF CyclePhase, Undoable, Prepared
  <2>3. CASE pc'[w] # "idle" /\ job'[w] = job[w] /\ pc[w] # "idle"
    <3>1. job[w] \in Packets /\ snapshot' = snapshot /\ CyclePhase(w)
      BY <2>3, JobsTyped
    <3>2. PICK p \in Packets, x \in Paths : p = job[w] /\ p = job'[w] /\ x = PathOf[p]
      BY <2>3, <3>1, ExecutionAssumption
    <3>3. records'[p].status # "absent" /\ (records[p].status = "completed" => records'[p].status = "completed")
      BY <2>3, <3>1, <3>2, CompletedStays DEF NoneDropped, CyclePhase
    <3>4. CASE pc'[w] = pc[w]
      BY <2>3, <3>1, <3>2, <3>3, <3>4 DEF CyclePhase
    <3>5. CASE pc'[w] # pc[w] /\ pc'[w] # "scheduled"
      BY <2>3, <3>1, <3>2, <3>3, <3>5 DEF CyclePhase, PhaseMove
    <3>6. CASE pc'[w] = "scheduled"
      BY <3>2, <3>3, <3>6 DEF CyclePhase, Undoable, Prepared
    <3>. QED  BY <3>4, <3>5, <3>6
  <2>. QED  BY <2>1, <2>2, <2>3 DEF PhaseMove
<1>. QED  BY <1>3, <1>4, <1>5, <1>6

\* While one cycle executes, the others are idle or wait for their claim.
LEMMA Bystanders ==
  ASSUME AloneInv, OneAtATime, NoneDropped, NEW w \in Workers, pc[w] \notin {"idle", "scheduled"},
         \A v \in Workers : v # w => pc'[v] = pc[v] /\ job'[v] = job[v]
  PROVE  \A v \in Workers : v # w => CyclePhase(v)'
<1>. SUFFICES ASSUME NEW v \in Workers, v # w PROVE CyclePhase(v)'
  OBVIOUS
<1>1. pc'[v] \in {"idle", "scheduled"} /\ pc'[v] = pc[v] /\ job'[v] = job[v]
  BY DEF OneAtATime
<1>2. pc[v] = "scheduled" => job[v] \in Packets /\ records[job[v]].status # "absent"
  BY JobsTyped DEF AloneInv, CyclePhase
<1>3. pc'[v] = "scheduled" => records'[job'[v]].status # "absent"
  BY <1>1, <1>2 DEF NoneDropped
<1>. QED  BY <1>1, <1>3 DEF CyclePhase, Undoable, Prepared

\* A path that git status shows clean has the content of HEAD in the work tree.
LEMMA CleanPath ==
  ASSUME NEW x, GitStatus(x) = Clean
  PROVE  file[x] = head[x]
<1>1. (index[x] # head[x]) = FALSE /\ (file[x] # index[x]) = FALSE
  BY DEF GitStatus, Clean
<1>. QED  BY <1>1

LEMMA PrepareKeepsAlone ==
  ASSUME AloneInv, ExecCore', OneAtATime, NoneDropped, NEW w \in Workers, prepareJournal(w)
  PROVE  AloneInv'
<1>. USE DEF AloneInv
<1>1. /\ pc[w] = "claimed" /\ job[w] \in Packets /\ PathOf[job[w]] \in Paths
      /\ UNCHANGED <<records, job, file, index, head, commits, expectedHead>>
      /\ pc \in [Workers -> Places] /\ snapshot \in [Workers -> Content]
      /\ journal \in [Packets -> Content \cup {NoJournal}]
  BY JobsTyped DEF prepareJournal, At, storeVars, ExecCore, ExecTypeOK
<1>2. PICK p \in Packets, x \in Paths : p = job[w] /\ x = PathOf[p]
  BY <1>1
<1>3. /\ file[x] = head[x] /\ Len(commits) = expectedHead[p]
      /\ p \in Committing => \A y \in Paths : index[y] = head[y]
  BY <1>2, CleanPath DEF prepareJournal, PlanReady, Staged
<1>4. \A v \in Workers : snapshot'[v] = IF v = w THEN file[x] ELSE snapshot[v]
  BY <1>1, <1>2 DEF prepareJournal
<1>5. \A v \in Workers : v # w => pc'[v] = pc[v] /\ job'[v] = job[v]
  BY <1>1 DEF prepareJournal, Go, Await
<1>6. \A q \in Packets : q # p => journal'[q] = journal[q]
  BY <1>1, <1>2 DEF prepareJournal
<1>7. \/ journal'[p] = file[x] /\ pc'[w] \in {"commanding", "journaled"}
      \/ journal'[p] = journal[p] /\ pc'[w] = "rolledBack"
  BY <1>1, <1>2 DEF prepareJournal, Go, Await
<1>8. \A q : CommitsOf(q)' = CommitsOf(q) /\ (Landed(q)' <=> Landed(q))
  BY <1>1 DEF CommitsOf, Landed
<1>9. UndoLanded'
  BY <1>1, <1>2, <1>3, <1>4, <1>6, <1>7, <1>8 DEF UndoLanded
<1>10. CommittedKnown' /\ BuiltOnExpectedHead'
  BY <1>1, <1>8 DEF CommittedKnown, BuiltOnExpectedHead
<1>11. WriteAhead'
  BY <1>1, <1>2, <1>3, <1>6, <1>7, <1>8 DEF WriteAhead
<1>12. CyclePhase(w)'
  <2>1. records'[p].status # "absent"
    BY <1>1, <1>2 DEF CyclePhase
  <2>. QED  BY <1>1, <1>2, <1>3, <1>4, <1>7, <2>1 DEF CyclePhase, Undoable, Prepared
<1>. QED  BY <1>1, <1>5, <1>9, <1>10, <1>11, <1>12, Bystanders

LEMMA StepsKeepAlone ==
  ASSUME AloneInv, ExecCore', OneAtATime, NoneDropped, NEW w \in Workers, applySteps(w)
  PROVE  AloneInv'
<1>. USE DEF AloneInv
<1>1. /\ pc[w] = "journaled" /\ job[w] \in Packets /\ PathOf[job[w]] \in Paths /\ snapshot[w] \in Content
      /\ UNCHANGED <<records, job, index, head, commits, expectedHead, journal, snapshot>>
      /\ pc \in [Workers -> Places] /\ file \in [Paths -> Content]
  BY JobsTyped DEF applySteps, At, storeVars, ExecCore, ExecTypeOK
<1>2. PICK p \in Packets, x \in Paths : p = job[w] /\ x = PathOf[p]
  BY <1>1
<1>3. \A y \in Paths : y # x => file'[y] = file[y]
  BY <1>1, <1>2 DEF applySteps
<1>4. file'[x] \in {file[x], p} /\ (pc'[w] = "validating" => file'[x] = p) /\ pc'[w] \in {"catching", "validating"}
  BY <1>1, <1>2 DEF applySteps, Throw, Go, Await
<1>5. \A v \in Workers : v # w => pc'[v] = pc[v] /\ job'[v] = job[v]
  BY <1>1 DEF applySteps, Throw, Go, Await
<1>6. \A q : CommitsOf(q)' = CommitsOf(q) /\ (Landed(q)' <=> Landed(q))
  BY <1>1 DEF CommitsOf, Landed
<1>7. UndoLanded' /\ CommittedKnown' /\ BuiltOnExpectedHead'
  BY <1>1, <1>6 DEF UndoLanded, CommittedKnown, BuiltOnExpectedHead
<1>8. CyclePhase(w)
  OBVIOUS
<1>9. WriteAhead'
  <2>1. CommitsOf(p) = {} /\ records[p].status # "completed" => journal[p] \notin {NoJournal, p}
    BY <1>1, <1>2, <1>8, ExecutionAssumption DEF CyclePhase, Undoable, Prepared, UndoLanded, Landed, Content
  <2>2. \A q \in Packets : q # p /\ file'[PathOf[q]] = q => file[PathOf[q]] = q
    BY <1>2, <1>3, <1>4, ExecutionAssumption
  <2>. QED  BY <1>1, <1>6, <2>1, <2>2 DEF WriteAhead
<1>10. CyclePhase(w)'
  BY <1>1, <1>2, <1>4, <1>8 DEF CyclePhase, Undoable, Prepared
<1>. QED  BY <1>1, <1>5, <1>7, <1>9, <1>10, Bystanders

LEMMA RollBackKeepsAlone ==
  ASSUME AloneInv, ExecCore', OneAtATime, NoneDropped, NEW w \in Workers, rollBack(w)
  PROVE  AloneInv'
<1>. USE DEF AloneInv
<1>1. /\ pc[w] = "catching" /\ job[w] \in Packets /\ PathOf[job[w]] \in Paths /\ snapshot[w] \in Content
      /\ UNCHANGED <<records, job, head, commits, expectedHead, snapshot>>
      /\ pc \in [Workers -> Places] /\ file \in [Paths -> Content]
      /\ journal \in [Packets -> Content \cup {NoJournal}]
  BY JobsTyped DEF rollBack, At, storeVars, ExecCore, ExecTypeOK
<1>2. PICK p \in Packets, x \in Paths : p = job[w] /\ x = PathOf[p]
  BY <1>1
<1>3. /\ \A y \in Paths : file'[y] = IF y = x THEN snapshot[w] ELSE file[y]
      /\ \A q \in Packets : journal'[q] = IF q = p THEN snapshot[w] ELSE journal[q]
  BY <1>1, <1>2 DEF rollBack
<1>4. \A v \in Workers : /\ v # w => pc'[v] = pc[v] /\ job'[v] = job[v]
                         /\ pc'[w] = "rolledBack"
  BY <1>1 DEF rollBack, Go
<1>5. \A q : CommitsOf(q)' = CommitsOf(q) /\ (Landed(q)' <=> Landed(q))
  BY <1>1 DEF CommitsOf, Landed
<1>6. UndoLanded' /\ CommittedKnown' /\ BuiltOnExpectedHead'
  BY <1>1, <1>3, <1>5 DEF UndoLanded, CommittedKnown, BuiltOnExpectedHead
<1>7. WriteAhead'
  <2>1. \A q \in Packets : snapshot[w] = q => CommitsOf(q) # {}
    BY DEF UndoLanded, Landed
  <2>2. \A q \in Packets : file'[PathOf[q]] = q /\ CommitsOf(q) = {} => file[PathOf[q]] = q /\ q # p
    BY <1>2, <1>3, <2>1, ExecutionAssumption
  <2>. QED  BY <1>1, <1>3, <1>5, <2>2 DEF WriteAhead
<1>8. CyclePhase(w)'
  BY <1>1, <1>2, <1>3, <1>4 DEF CyclePhase, Undoable, Prepared
<1>. QED  BY <1>1, <1>4, <1>6, <1>7, <1>8, Bystanders

\* The three steps that rewrite the journal of a packet at the end of its cycle.
LEMMA JournalKeepsAlone ==
  ASSUME AloneInv, ExecCore', OneAtATime, NoneDropped, \A q \in Packets : StatusStep(q), NEW w \in Workers,
         completeJournal(w) \/ rollBackFails(w) \/ dropJournal(w)
  PROVE  AloneInv'
<1>. USE DEF AloneInv
<1>1. /\ pc[w] \in {"finalized", "catching", "settled"} /\ job[w] \in Packets /\ PathOf[job[w]] \in Paths
      /\ snapshot[w] \in Content
      /\ UNCHANGED <<file, index, head, commits, expectedHead, snapshot>>
      /\ pc \in [Workers -> Places] /\ job \in [Workers -> Packets \cup {NoPacket}]
      /\ journal \in [Packets -> Content \cup {NoJournal}]
  BY JobsTyped DEF completeJournal, rollBackFails, dropJournal, At, ExecCore, ExecTypeOK
<1>2. PICK p \in Packets, x \in Paths : p = job[w] /\ x = PathOf[p]
  BY <1>1
<1>3. /\ \A q \in Packets : q # p => journal'[q] = journal[q]
      /\ \/ journal'[p] = snapshot[w]
         \/ journal'[p] = NoJournal /\ pc[w] \in {"finalized", "settled"}
  BY <1>1, <1>2 DEF completeJournal, rollBackFails, dropJournal, At
<1>4. \A v \in Workers : v # w => pc'[v] = pc[v] /\ job'[v] = job[v]
  BY <1>1 DEF completeJournal, rollBackFails, dropJournal, EndCycle, Go, Await
<1>5. \/ pc'[w] = "idle"
      \/ pc[w] = "finalized" /\ pc'[w] = "advancing" /\ job'[w] = job[w]
  BY <1>1 DEF completeJournal, rollBackFails, dropJournal, EndCycle, Go, Await, At
<1>6. \A q : CommitsOf(q)' = CommitsOf(q) /\ (Landed(q)' <=> Landed(q))
  BY <1>1 DEF CommitsOf, Landed
<1>7. UndoLanded'
  <2>1. Landed(NoJournal)
    BY ExecutionAssumption DEF Landed
  <2>. QED  BY <1>1, <1>3, <1>6, <2>1 DEF UndoLanded
<1>8. CommittedKnown' /\ BuiltOnExpectedHead'
  BY <1>1, <1>6 DEF CommittedKnown, NoneDropped, BuiltOnExpectedHead
<1>9. CyclePhase(w)
  OBVIOUS
<1>10. WriteAhead'
  <2>1. \A q \in Packets : snapshot[w] = q => CommitsOf(q) # {}
    BY DEF UndoLanded, Landed
  <2>2. \A q \in Packets : records[q].status = "completed" => records'[q].status = "completed"
    BY CompletedStays
  <2>3. CASE journal'[p] = snapshot[w]
    BY <1>1, <1>3, <1>6, <2>1, <2>2, <2>3, ExecutionAssumption DEF WriteAhead, Content
  <2>4. CASE pc[w] = "finalized"
    BY <1>1, <1>2, <1>3, <1>6, <1>9, <2>2, <2>4 DEF WriteAhead, CyclePhase
  <2>5. CASE pc[w] = "settled"
    BY <1>1, <1>2, <1>3, <1>6, <1>9, <2>1, <2>2, <2>5 DEF WriteAhead, CyclePhase
  <2>. QED  BY <1>3, <2>3, <2>4, <2>5
<1>11. CyclePhase(w)'
  <2>1. CASE pc'[w] = "idle"
    BY <2>1 DEF CyclePhase, Undoable, Prepared
  <2>2. CASE pc[w] = "finalized" /\ pc'[w] = "advancing" /\ job'[w] = job[w]
    <3>1. records'[p].status = "completed"
      BY <1>2, <1>9, <2>2, CompletedStays DEF CyclePhase
    <3>. QED  BY <1>2, <2>2, <3>1 DEF CyclePhase, Undoable, Prepared
  <2>. QED  BY <1>5, <2>1, <2>2
<1>. QED  BY <1>1, <1>4, <1>7, <1>8, <1>10, <1>11, Bystanders

LEMMA AddKeepsAlone ==
  ASSUME AloneInv, ExecCore', OneAtATime, NoneDropped, NEW w \in Workers, gitAddRuns(w)
  PROVE  AloneInv'
<1>. USE DEF AloneInv
<1>1. /\ pc[w] = "staging" /\ job[w] \in Packets /\ PathOf[job[w]] \in Paths
      /\ UNCHANGED <<records, job, file, head, commits, expectedHead, journal, snapshot>>
      /\ pc \in [Workers -> Places] /\ index \in [Paths -> Content]
      /\ index' = [index EXCEPT ![PathOf[job[w]]] = file[PathOf[job[w]]]]
  BY JobsTyped DEF gitAddRuns, At, ExecutionFrame, ExecCore, ExecTypeOK
<1>2. PICK p \in Packets, x \in Paths : p = job[w] /\ x = PathOf[p]
  BY <1>1
<1>3. \A v \in Workers : pc'[v] = IF v = w THEN "staged" ELSE pc[v]
  BY <1>1 DEF gitAddRuns
<1>4. CyclePhase(w) /\ \A y \in Paths : index'[y] = IF y = x THEN file[x] ELSE index[y]
  BY <1>1, <1>2
<1>5. \A q : CommitsOf(q)' = CommitsOf(q) /\ (Landed(q)' <=> Landed(q))
  BY <1>1 DEF CommitsOf, Landed
<1>6. UndoLanded' /\ CommittedKnown' /\ BuiltOnExpectedHead' /\ WriteAhead'
  BY <1>1, <1>5 DEF UndoLanded, CommittedKnown, BuiltOnExpectedHead, WriteAhead
<1>7. CyclePhase(w)'
  BY <1>1, <1>2, <1>3, <1>4 DEF CyclePhase, Undoable, Prepared
<1>. QED  BY <1>1, <1>3, <1>6, <1>7, Bystanders

LEMMA CommitKeepsAlone ==
  ASSUME AloneInv, ExecCore', OneAtATime, NoneDropped, NEW w \in Workers, gitCommitRuns(w)
  PROVE  AloneInv'
<1>. USE DEF AloneInv
<1>1. /\ pc[w] = "committing" /\ job[w] \in Packets /\ PathOf[job[w]] \in Paths
      /\ UNCHANGED <<records, job, file, index, expectedHead, journal, snapshot>>
      /\ pc \in [Workers -> Places] /\ head' = index
      /\ commits' = Append(commits, [packet |-> job[w], paths |-> Staged])
  BY JobsTyped DEF gitCommitRuns, At, ExecutionFrame, ExecCore, ExecTypeOK
<1>2. PICK p \in Packets, x \in Paths : p = job[w] /\ x = PathOf[p]
  BY <1>1
<1>3. \A v \in Workers : pc'[v] = IF v = w THEN "committed" ELSE pc[v]
  BY <1>1 DEF gitCommitRuns
<1>4. \A q : CommitsOf(q)' = CommitsOf(q) \cup (IF p = q THEN {Len(commits) + 1} ELSE {})
  BY <1>1, <1>2, CommitsGrow DEF ExecCore
<1>5. CyclePhase(w)
  OBVIOUS
<1>6. /\ index[x] = p /\ Len(commits) = expectedHead[p] /\ records[p].status # "absent"
      /\ \A y \in Paths : y # x => index[y] = head[y]
  BY <1>1, <1>2, <1>5 DEF CyclePhase, Prepared
<1>7. \A q : Landed(q) => Landed(q)'
  BY <1>4 DEF Landed
<1>8. UndoLanded'
  <2>1. Landed(p)'
    BY <1>4 DEF Landed
  <2>2. ASSUME NEW y \in Paths PROVE Landed(head[y])'
    <3>1. CASE y = x
      BY <1>1, <1>6, <2>1, <3>1
    <3>2. CASE y # x
      <4>1. head'[y] = head[y] /\ Landed(head[y])
        BY <1>1, <1>6, <3>2 DEF UndoLanded
      <4>. QED  BY <1>4, <4>1 DEF Landed
    <3>. QED  BY <3>1, <3>2
  <2>. QED  BY <1>1, <1>7, <2>2 DEF UndoLanded
<1>9. CommittedKnown' /\ BuiltOnExpectedHead'
  BY <1>1, <1>4, <1>6 DEF CommittedKnown, BuiltOnExpectedHead
<1>10. WriteAhead'
  <2>. SUFFICES ASSUME NEW q \in Packets, file[PathOf[q]] = q, CommitsOf(q)' = {}, records[q].status # "completed"
                PROVE  journal[q] \notin {NoJournal, q}
    BY <1>1 DEF WriteAhead
  <2>1. CommitsOf(q) = {}
    BY <1>4
  <2>2. head[PathOf[q]] # q
    BY <2>1, ExecutionAssumption DEF UndoLanded, Landed
  <2>. QED  BY <2>1, <2>2 DEF WriteAhead
<1>11. CyclePhase(w)'
  BY <1>1, <1>2, <1>3, <1>5, <1>6 DEF CyclePhase, Undoable, Prepared
<1>. QED  BY <1>1, <1>3, <1>8, <1>9, <1>10, <1>11, Bystanders

\* A reservation: the packet is not in the store, so it has no commit and no executor.
LEMMA ReserveKeepsAlone ==
  ASSUME AloneInv, ExecCore', NoneDropped, \A q \in Packets : StatusStep(q), NEW p \in Packets, reservePacket(p)
  PROVE  AloneInv'
<1>. USE DEF AloneInv
<1>1. /\ UNCHANGED <<pc, job, file, index, head, commits, journal, snapshot>>
      /\ records[p].status = "absent" /\ expectedHead \in [Packets -> Nat]
      /\ expectedHead' = [expectedHead EXCEPT ![p] = Len(commits)]
  BY DEF reservePacket, reserveWorkbenchPacket, processVars, ExecCore, ExecTypeOK
<1>2. \A q : CommitsOf(q)' = CommitsOf(q) /\ (Landed(q)' <=> Landed(q))
  BY <1>1 DEF CommitsOf, Landed
<1>3. \A q \in Packets : records[q].status = "completed" => records'[q].status = "completed"
  BY CompletedStays
<1>4. UndoLanded' /\ CommittedKnown' /\ WriteAhead'
  BY <1>1, <1>2, <1>3 DEF UndoLanded, CommittedKnown, NoneDropped, WriteAhead
<1>5. BuiltOnExpectedHead'
  BY <1>1, <1>2 DEF BuiltOnExpectedHead, CommittedKnown
<1>6. ASSUME NEW w \in Workers PROVE CyclePhase(w)'
  <2>1. CASE pc[w] = "idle"
    BY <1>1, <2>1 DEF CyclePhase, Undoable, Prepared
  <2>2. CASE pc[w] # "idle"
    <3>1. job[w] \in Packets /\ records[job[w]].status # "absent" /\ CyclePhase(w)
      BY <2>2, JobsTyped DEF CyclePhase
    <3>2. job[w] # p /\ expectedHead'[job[w]] = expectedHead[job[w]] /\ records'[job[w]].status # "absent"
      BY <1>1, <3>1 DEF NoneDropped
    <3>. QED  BY <1>1, <1>3, <3>1, <3>2 DEF CyclePhase
  <2>. QED  BY <2>1, <2>2
<1>. QED  BY <1>4, <1>5, <1>6

\* The startup recovery puts back what was committed; there are no cycles.
LEMMA RecoverKeepsAlone ==
  ASSUME AloneInv, ExecCore', NoneDropped, \A q \in Packets : StatusStep(q),
         NEW p \in Packets, recoverExecutionJournal(p)
  PROVE  AloneInv'
<1>. USE DEF AloneInv
<1>1. /\ UNCHANGED <<pc, job, index, head, commits, snapshot, expectedHead>> /\ \A w \in Workers : pc[w] = "idle"
      /\ file \in [Paths -> Content] /\ journal \in [Packets -> Content \cup {NoJournal}]
  BY DEF recoverExecutionJournal, ExecCore, ExecTypeOK, CyclesOrdered, CyclesRun
<1>2. \A q : CommitsOf(q)' = CommitsOf(q) /\ (Landed(q)' <=> Landed(q))
  BY <1>1 DEF CommitsOf, Landed
<1>3. \A q \in Packets : records[q].status = "completed" => records'[q].status = "completed"
  BY CompletedStays
<1>4. \A q \in Packets : journal'[q] = journal[q] \/ (q = p /\ journal'[q] = NoJournal)
  BY <1>1 DEF recoverExecutionJournal
<1>5. UndoLanded' /\ CommittedKnown' /\ BuiltOnExpectedHead'
  <2>1. Landed(NoJournal)
    BY ExecutionAssumption DEF Landed
  <2>. QED  BY <1>1, <1>2, <1>4, <2>1 DEF UndoLanded, CommittedKnown, NoneDropped, BuiltOnExpectedHead
<1>6. WriteAhead'
  <2>1. CASE UNCHANGED <<file, journal>>
    BY <1>1, <1>2, <1>3, <2>1 DEF WriteAhead
  <2>2. CASE file' = [file EXCEPT ![PathOf[p]] = journal[p]]
    <3>1. \A q \in Packets : file'[PathOf[q]] = q /\ CommitsOf(q) = {} => file[PathOf[q]] = q /\ PathOf[q] # PathOf[p]
      BY <1>1, <2>2, ExecutionAssumption DEF UndoLanded, Landed
    <3>. QED  BY <1>1, <1>2, <1>3, <1>4, <3>1 DEF WriteAhead
  <2>. QED  BY <2>1, <2>2 DEF recoverExecutionJournal
<1>7. \A w \in Workers : CyclePhase(w)'
  BY <1>1 DEF CyclePhase, Undoable, Prepared
<1>. QED  BY <1>5, <1>6, <1>7

\* Every step while packets execute one at a time and no record is dropped.
LEMMA AloneStep ==
  ASSUME AloneInv, [ExecNext]_vars, OneAtATime, NoneDropped
  PROVE  AloneInv'
<1>1. ExecCore /\ ExecCore' /\ pc \in [Workers -> Places] /\ job \in [Workers -> Packets \cup {NoPacket}]
  BY CoreStep DEF AloneInv, ExecCore, ExecTypeOK
<1>. USE DEF processVars, storeVars, repoVars
<1>2. ASSUME NEW w \in Workers, Cycle(w) PROVE AloneInv'
  <2>1. (\A p \in Packets : StatusStep(p)) /\ (\A v \in Workers : FinalStep(v))
    BY <1>1, <1>2, CycleStatus
  <2>2. CASE prepareJournal(w) \/ applySteps(w) \/ rollBack(w) \/ gitAddRuns(w) \/ gitCommitRuns(w)
             \/ completeJournal(w) \/ rollBackFails(w) \/ dropJournal(w)
    BY <1>1, <2>1, <2>2, PrepareKeepsAlone, StepsKeepAlone, RollBackKeepsAlone, AddKeepsAlone,
       CommitKeepsAlone, JournalKeepsAlone
  <2>3. ASSUME UNCHANGED <<journal, file, index, head, commits, expectedHead, snapshot>>,
               \A v \in Workers : v # w => pc'[v] = pc[v] /\ job'[v] = job[v], PhaseMove(w)
        PROVE  AloneInv'
    <3>1. \A v \in Workers : PhaseMove(v)
      BY <2>3 DEF PhaseMove
    <3>. QED  BY <1>1, <2>1, <2>3, <3>1, QuietKeepsAlone
  <2>4. ASSUME EndCycle(w), UNCHANGED <<journal, file, index, head, commits, expectedHead, snapshot>>
        PROVE  AloneInv'
    <3>1. pc'[w] = "idle" /\ \A v \in Workers : v # w => pc'[v] = pc[v] /\ job'[v] = job[v]
      BY <1>1, <2>4 DEF EndCycle, Await
    <3>. QED  BY <2>3, <2>4, <3>1 DEF PhaseMove
  <2>5. CASE claimRefused(w) \/ requeueBeforeMutation(w) \/ advanceWorkbenchRunAfterPacket(w)
    BY <2>4, <2>5 DEF claimRefused, requeueBeforeMutation, advanceWorkbenchRunAfterPacket
  <2>6. ASSUME UNCHANGED <<journal, file, index, head, commits, expectedHead, snapshot, job>>,
               NEW place, pc' = [pc EXCEPT ![w] = place],
               \/ pc[w] = "scheduled" /\ place = "claimed"
               \/ pc[w] = "commanding" /\ place = "journaled"
               \/ pc[w] \in Undoable /\ place = "catching"
               \/ pc[w] = "advancing" /\ place = "catching"
               \/ pc[w] = "rolledBack" /\ place = "settled"
               \/ pc[w] = "staged" /\ place = "committing"
               \/ pc[w] = "validating" /\ place = "scanning" /\ job[w] \in Committing
               \/ pc[w] = "scanning" /\ place = "staging"
               \/ pc[w] \in {"validating", "committed"} /\ place = "finalized"
        PROVE  AloneInv'
    <3>1. \A v \in Workers : pc'[v] = (IF v = w THEN place ELSE pc[v]) /\ job'[v] = job[v]
      BY <1>1, <2>6
    <3>2. place = "finalized" => records'[job[w]].status = "completed"
      BY <2>1, <2>6, <3>1 DEF FinalStep
    <3>3. CyclePhase(w)
      BY DEF AloneInv
    <3>4. pc[w] \in {"staged", "scanning"} => job[w] \in Committing
      BY <3>3 DEF CyclePhase
    <3>5. PhaseMove(w)
      BY <2>6, <3>1, <3>2, <3>4 DEF PhaseMove, Undoable, Prepared
    <3>. QED  BY <2>3, <2>6, <3>1, <3>5
  <2>7. CASE claimForExecution(w)
    BY <2>6, <2>7 DEF claimForExecution, Go
  <2>8. CASE goalCommandEnds(w) \/ advanceThrows(w) \/ settle(w)
    BY <2>6, <2>8 DEF goalCommandEnds, advanceThrows, settle, CommandFails, Throw, Go, At, Undoable, Prepared
  <2>9. CASE verifyStaged(w) \/ gitFails(w)
    BY <2>6, <2>9 DEF verifyStaged, gitFails, CommandFails, Throw, Go, Await, At, ExecutionFrame, Undoable, Prepared
  <2>10. CASE validationEnds(w) \/ scanEnds(w) \/ verifyCommitted(w)
    BY <2>6, <2>10 DEF validationEnds, scanEnds, verifyCommitted, CheckThen, FinalizeCompleted, CommandFails,
                       Throw, Go, Await, At, ExecutionFrame, Undoable, Prepared
  <2>. QED  BY <1>2, <2>2, <2>5, <2>7, <2>8, <2>9, <2>10 DEF Cycle
<1>3. ASSUME ~\E w \in Workers : Cycle(w) PROVE AloneInv'
  <2>1. \A p \in Packets : StatusStep(p)
    BY <1>1, <1>3, OthersStatus
  <2>2. ASSUME UNCHANGED <<journal, file, index, head, commits, expectedHead, snapshot, pc, job>> PROVE AloneInv'
    BY <1>1, <2>1, <2>2, QuietKeepsAlone DEF PhaseMove
  <2>3. ASSUME NEW w \in Workers, NEW p \in Packets, scheduleWorkbenchPacket(w, p) PROVE AloneInv'
    <3>1. /\ UNCHANGED <<journal, file, index, head, commits, expectedHead, snapshot>>
          /\ records' = records /\ records[p].status = "queued"
          /\ \A v \in Workers : v # w => pc'[v] = pc[v] /\ job'[v] = job[v]
          /\ pc'[w] = "scheduled" /\ job'[w] = p
      BY <1>1, <2>3 DEF scheduleWorkbenchPacket, Await
    <3>2. \A v \in Workers : PhaseMove(v)
      BY <3>1 DEF PhaseMove
    <3>. QED  BY <1>1, <2>1, <3>1, <3>2, QuietKeepsAlone
  <2>4. CASE crash
    <3>1. /\ \A v \in Workers : PhaseMove(v) /\ pc'[v] = "idle"
          /\ snapshot' = [w \in Workers |-> Base] /\ UNCHANGED <<journal, file, index, head, commits, expectedHead>>
      BY <2>4 DEF crash, PhaseMove
    <3>. QED  BY <1>1, <2>1, <3>1, QuietKeepsAlone
  <2>5. ASSUME NEW p \in Packets, reservePacket(p) \/ recoverExecutionJournal(p) PROVE AloneInv'
    BY <1>1, <2>1, <2>5, ReserveKeepsAlone, RecoverKeepsAlone
  <2>6. ASSUME NEW p \in Packets, leaseTimePasses(p) PROVE AloneInv'
    BY <2>2, <2>6 DEF leaseTimePasses
  <2>7. ASSUME NEW w \in Workers, renewalTimer(w) PROVE AloneInv'
    BY <2>2, <2>7 DEF renewalTimer
  <2>8. ASSUME NEW r \in Runs, NEW a \in ControlActions, control(r, a) \/ controlCutShort(r, a)
        PROVE  AloneInv'
    BY <2>2, <2>8 DEF control, controlCutShort
  <2>9. CASE recoverStale \/ operatorRemovesLock \/ restart \/ serve
    BY <2>2, <2>9 DEF recoverStale, operatorRemovesLock, restart, serve
  <2>10. CASE UNCHANGED vars
    BY <2>2, <2>10 DEF vars
  <2>. QED  BY <1>3, <2>3, <2>4, <2>5, <2>6, <2>7, <2>8, <2>9, <2>10 DEF ExecNext
<1>. QED  BY <1>2, <1>3

LEMMA AloneStart == ExecInit => AloneInv
<1>. SUFFICES ASSUME ExecInit PROVE AloneInv
  OBVIOUS
<1>1. ExecCore
  BY CoreInit
<1>2. \A q : CommitsOf(q) = {}
  BY DEF ExecInit, CommitsOf
<1>3. UndoLanded /\ CommittedKnown /\ WriteAhead /\ BuiltOnExpectedHead
  BY <1>2, ExecutionAssumption DEF ExecInit, UndoLanded, Landed, CommittedKnown, WriteAhead, BuiltOnExpectedHead
<1>4. \A w \in Workers : CyclePhase(w)
  BY DEF ExecInit, CyclePhase, Undoable, Prepared
<1>. QED  BY <1>1, <1>3, <1>4 DEF AloneInv

\* Where packets execute one at a time and the retention limit drops nothing, a change
\* that was neither committed nor completed is covered by a journal that undoes it,
\* whenever and however often the process dies.
THEOREM ChangesJournaled == ExecSpec /\ []OneAtATime /\ NothingEvicted => []WriteAhead
<1>1. AloneInv => WriteAhead
  BY DEF AloneInv
<1>2. [\A p \in Packets : records[p].status # "absent" => records'[p].status # "absent"]_vars => NoneDropped
  BY DEF NoneDropped, vars, storeVars
<1>3. AloneInv /\ [ExecNext]_vars /\ OneAtATime
         /\ [\A p \in Packets : records[p].status # "absent" => records'[p].status # "absent"]_vars => AloneInv'
  BY <1>2, AloneStep
<1>. QED  BY AloneStart, <1>1, <1>3, PTL DEF ExecSpec, NothingEvicted

\* Under the same conditions every packet is committed at most once, directly on top of
\* the HEAD it was admitted against, however often it is requeued, paused or restarted.
THEOREM CommittedOnExpectedHead == ExecSpec /\ []OneAtATime /\ NothingEvicted => []BuiltOnExpectedHead
<1>1. AloneInv => BuiltOnExpectedHead
  BY DEF AloneInv
<1>2. [\A p \in Packets : records[p].status # "absent" => records'[p].status # "absent"]_vars => NoneDropped
  BY DEF NoneDropped, vars, storeVars
<1>3. AloneInv /\ [ExecNext]_vars /\ OneAtATime
         /\ [\A p \in Packets : records[p].status # "absent" => records'[p].status # "absent"]_vars => AloneInv'
  BY <1>2, AloneStep
<1>. QED  BY AloneStart, <1>1, <1>3, PTL DEF ExecSpec, NothingEvicted
=============================================================================
