-------------------------- MODULE PacketExecution --------------------------
(***************************************************************************)
(* Packet execution in the local agent process: the coordinator schedules  *)
(* a queued packet, a worker cycle claims it, and the executor journals    *)
(* the files it is about to touch, writes them, validates, optionally      *)
(* stages and commits them, and finalizes the packet; an exception at any  *)
(* point rolls the files back (workbench-packet-coordinator.ts,            *)
(* -worker.ts, -plan.ts, -executor.ts, workbench-execution-journal.ts,     *)
(* and the startup recovery and control handler of server.ts).             *)
(*                                                                         *)
(* The process is one event loop.  Between two awaits a cycle runs without *)
(* interference: loop names the cycle that holds it.  The process may die  *)
(* at any moment, also between two writes of one such section; only the    *)
(* store, the journals, the repository and the runs survive.               *)
(*                                                                         *)
(* exactPaths of a packet is abstracted to one path, its steps to one      *)
(* write that puts the packet's own content there.                         *)
(***************************************************************************)
EXTENDS PacketStore, Sequences

CONSTANTS
    Paths,          \* repository paths
    PathOf,         \* exactPaths of each packet
    Committing,     \* packets with shouldCommit
    GoalCommands,   \* packets with goal-dispatch commands, which run before the steps
    TaskOf,         \* the roadmap task of each packet, numbered in roadmap order
    Base,           \* the content every path starts with
    NoJournal,      \* no journal file for a packet
    MayExpire,      \* leases may expire while the process lives (a suspended host)
    RunWriteFails,  \* writing the run store may fail
    ControlActions, \* control requests the owner makes
    MaxCrashes,     \* bound on process deaths, for model checking
    MaxControls     \* bound on control requests, for model checking

ASSUME ExecutionAssumption ==
    /\ PathOf \in [Packets -> Paths]
    /\ Committing \subseteq Packets
    /\ GoalCommands \subseteq Packets
    /\ TaskOf \in [Packets -> Nat]
    /\ Base \notin Packets
    /\ NoJournal \notin Packets \cup {Base}
    /\ MayExpire \in BOOLEAN
    /\ RunWriteFails \in BOOLEAN
    /\ ControlActions \subseteq {"pause", "resume", "cancel", "close"}
    /\ MaxCrashes \in Nat
    /\ MaxControls \in Nat

VARIABLES
    proc,       \* the process: "down", "recovering" (startup), "up" or "dying"
    toRecover,  \* journals the startup recovery has still to look at
    loop,       \* the worker cycle inside a synchronous section, or NoWorker
    pc,         \* where each worker cycle stands
    job,        \* the packet each worker cycle was scheduled for
    raised,     \* the exception a rolling-back cycle caught
    baseline,   \* git status each execution saw before its first write
    snapshot,   \* the file content each execution journaled
    scheduled,  \* scheduledPacketIds
    journal,    \* the journal file of each packet: the content it would restore
    file, index, head,  \* work tree, Git index and HEAD tree
    commits,    \* the commits made, oldest first
    expectedHead,       \* the number of commits each packet was reserved at
    runs,       \* status of each run
    completedIn,        \* completedPacketIds of each run
    results,    \* the compact result recorded for each packet
    cancelAsked,        \* history: packets a cancel request reached
    crashes, controls   \* counters behind MaxCrashes and MaxControls

processVars == <<proc, toRecover, loop, pc, job, raised, baseline, snapshot, scheduled>>
repoVars    == <<journal, file, index, head, commits, expectedHead>>
runVars     == <<runs, completedIn, results, cancelAsked>>
bounds      == <<crashes, controls>>
vars        == <<storeVars, processVars, repoVars, runVars, bounds>>

-----------------------------------------------------------------------------
Content == Packets \cup {Base}
RunTerminal == {"completed", "cancelled"}
Unsettled == {"queued", "running", "paused"}

\* The two letters git status shows for a path.
GitStatus(x) == <<index[x] # head[x], file[x] # index[x]>>
Clean == <<FALSE, FALSE>>
Staged == {x \in Paths : index[x] # head[x]}

\* assertChangedPathsWithinAuthorization: a path outside the packet's own
\* changed its git status since the execution began.
UnexpectedChange(w) ==
    \E x \in Paths \ {PathOf[job[w]]} : baseline[w][x] # GitStatus(x)

\* assertPacketControlAllowsExecution: what it throws, "none" if nothing.
ControlSignal(w) ==
    IF records[job[w]].status = "absent" THEN "failed" ELSE records[job[w]].control

\* Mutant: the checks after an await do not look at control requests.
ThrownUncontrolled(w) == IF UnexpectedChange(w) THEN "failed" ELSE "none"

\* What the two checks an execution makes after each await throw, in their order.
Thrown(w) == IF UnexpectedChange(w) THEN "failed" ELSE ControlSignal(w)

\* A step of the event loop that no cycle in a synchronous section blocks.
Idle == proc = "up" /\ loop = NoWorker
At(w, where) == proc = "up" /\ pc[w] = where

\* An await: the cycle gives the event loop back and continues at the place named.
Await(w, where) == pc' = [pc EXCEPT ![w] = where] /\ loop' = NoWorker
\* The next statement of the same synchronous section.
Go(w, where) == pc' = [pc EXCEPT ![w] = where] /\ loop' = w

\* An exception: the executor's catch block runs in the same section.
Throw(w, kind) ==
    /\ Go(w, "catching")
    /\ raised' = [raised EXCEPT ![w] = kind]

\* The cycle's finally block and the coordinator's: the packet may be scheduled again.
EndCycle(w) ==
    /\ Await(w, "idle")
    /\ job' = [job EXCEPT ![w] = NoPacket]
    /\ scheduled' = scheduled \ {job[w]}
    /\ Forget(w)

ExecInit ==
    /\ StoreInit
    /\ proc = "up"
    /\ toRecover = {}
    /\ loop = NoWorker
    /\ pc = [w \in Workers |-> "idle"]
    /\ job = [w \in Workers |-> NoPacket]
    /\ raised = [w \in Workers |-> "none"]
    /\ baseline = [w \in Workers |-> [x \in Paths |-> Clean]]
    /\ snapshot = [w \in Workers |-> Base]
    /\ scheduled = {}
    /\ journal = [p \in Packets |-> NoJournal]
    /\ file = [x \in Paths |-> Base]
    /\ index = [x \in Paths |-> Base]
    /\ head = [x \in Paths |-> Base]
    /\ commits = <<>>
    /\ expectedHead = [p \in Packets |-> 0]
    /\ runs = [r \in Runs |-> "running"]
    /\ completedIn = [r \in Runs |-> {}]
    /\ results = [p \in Packets |-> "none"]
    /\ cancelAsked = {}
    /\ crashes = 0
    /\ controls = 0

-----------------------------------------------------------------------------
\* The roadmap of a run, and the tasks that packets have completed.
Tasks(r) == {TaskOf[p] : p \in {q \in Packets : RunOf[q] = r}}
DoneTasks(r, completed) == {TaskOf[p] : p \in completed}

\* findActiveTaskId: the first task that is not done.
ActiveTask(r, t) ==
    /\ t \in Tasks(r) \ DoneTasks(r, completedIn[r])
    /\ \A u \in Tasks(r) \ DoneTasks(r, completedIn[r]) : t <= u

\* preflightWorkbenchPacket and reserveWorkbenchPacket: a packet of the active
\* task of a running run is admitted against the current HEAD.
reservePacket(p) ==
    /\ Idle
    /\ runs[RunOf[p]] = "running"
    /\ p \notin completedIn[RunOf[p]]
    /\ ActiveTask(RunOf[p], TaskOf[p])
    /\ reserveWorkbenchPacket(p)
    /\ expectedHead' = [expectedHead EXCEPT ![p] = Len(commits)]
    /\ UNCHANGED <<processVars, journal, file, index, head, commits, runVars, bounds>>

\* Mutant: a packet that is already scheduled is scheduled again.
scheduleAgain(w, p) ==
    /\ Idle
    /\ pc[w] = "idle"
    /\ records[p].status = "queued"
    /\ Await(w, "scheduled")
    /\ job' = [job EXCEPT ![w] = p]
    /\ scheduled' = scheduled \cup {p}
    /\ UNCHANGED <<storeVars, proc, toRecover, raised, baseline, snapshot, repoVars, runVars, bounds>>

\* scheduleWorkbenchPacket, called by the drain, a submission or a continuation.
scheduleWorkbenchPacket(w, p) ==
    /\ Idle
    /\ pc[w] = "idle"
    /\ records[p].status = "queued"
    /\ p \notin scheduled
    /\ Await(w, "scheduled")
    /\ job' = [job EXCEPT ![w] = p]
    /\ scheduled' = scheduled \cup {p}
    /\ UNCHANGED <<storeVars, proc, toRecover, raised, baseline, snapshot, repoVars, runVars, bounds>>

\* runNextWorkbenchPacket: the claim that opens a worker cycle ...
claimForExecution(w) ==
    /\ Idle
    /\ pc[w] = "scheduled"
    /\ claimPacket(w, job[w])
    /\ Go(w, "claimed")
    /\ UNCHANGED <<proc, toRecover, job, raised, baseline, snapshot, scheduled, repoVars, runVars, bounds>>

\* ... and the claim that is refused, which ends it.
claimRefused(w) ==
    /\ Idle
    /\ pc[w] = "scheduled"
    /\ lockLeft \/ ~ \/ records[job[w]].status = "queued"
                     \/ records[job[w]].status = "running" /\ ~leaseActive(records[job[w]])
    /\ EndCycle(w)
    /\ UNCHANGED <<records, clock, leaseSeq, lockLeft, lapsed, proc, toRecover, raised, baseline,
                   snapshot, repoVars, runVars, bounds>>

\* Mutant: the HEAD the packet was admitted against is not compared.
PlanAtAnyHead(w) ==
    LET p == job[w] IN
    /\ records[p].status = "running" /\ records[p].token = holds[w].token /\ records[p].live
    /\ GitStatus(PathOf[p]) = Clean
    /\ p \in Committing => Staged = {}

\* planWorkbenchPacketExecution and assertCleanPacketPaths: what admits a packet
\* to execution, and what gets it rejected before any write.
PlanReady(w) ==
    LET p == job[w] IN
    /\ records[p].status = "running"
    /\ records[p].token = holds[w].token
    /\ records[p].live
    /\ Len(commits) = expectedHead[p]
    /\ GitStatus(PathOf[p]) = Clean
    /\ p \in Committing => Staged = {}

\* The packet is requeued: the plan is not ready, the source has become
\* unavailable, or git cannot be run.
requeueBeforeMutation(w) ==
    /\ At(w, "claimed")
    /\ records' = Released(w, "queued")
    /\ results' = [results EXCEPT ![job[w]] = "requeued"]
    /\ EndCycle(w)
    /\ UNCHANGED <<clock, leaseSeq, lockLeft, lapsed, proc, toRecover, raised, baseline, snapshot,
                   repoVars, runs, completedIn, cancelAsked, bounds>>

\* prepareWorkbenchExecutionJournal, after the git status baseline is taken; the
\* goal-dispatch commands of a packet that has some follow.  When it throws, the
\* catch block has no journal and nothing to restore.
prepareJournal(w) ==
    /\ At(w, "claimed")
    /\ PlanReady(w)
    /\ baseline' = [baseline EXCEPT ![w] = [x \in Paths |-> GitStatus(x)]]
    /\ snapshot' = [snapshot EXCEPT ![w] = file[PathOf[job[w]]]]
    /\ \/ /\ journal' = [journal EXCEPT ![job[w]] = file[PathOf[job[w]]]]
          /\ IF job[w] \in GoalCommands /\ ControlSignal(w) = "none"
             THEN Await(w, "commanding") ELSE Go(w, "journaled")
          /\ UNCHANGED raised
       \/ /\ Go(w, "rolledBack")
          /\ raised' = [raised EXCEPT ![w] = "failed"]
          /\ UNCHANGED journal
    /\ UNCHANGED <<storeVars, proc, toRecover, job, scheduled, file, index, head, commits,
                   expectedHead, runVars, bounds>>

CommandFails(w) == Throw(w, "failed") /\ UNCHANGED <<records, holds>>

\* The goal-dispatch commands end, after an await of any length; the steps follow.
goalCommandEnds(w) ==
    /\ Idle
    /\ At(w, "commanding")
    /\ \/ Go(w, "journaled") /\ UNCHANGED <<raised, records, holds>>
       \/ CommandFails(w)
    /\ UNCHANGED <<clock, leaseSeq, lockLeft, lapsed, proc, toRecover, job, baseline, snapshot,
                   scheduled, repoVars, runVars, bounds>>

\* The packet's steps up to the first await, the start of its validation: the
\* control check, the write, its verification and the journal mark.
applySteps(w) ==
    /\ At(w, "journaled")
    /\ \/ /\ ControlSignal(w) # "none"
          /\ Throw(w, ControlSignal(w))
          /\ UNCHANGED file
       \/ /\ ControlSignal(w) = "none"
          /\ file' = [file EXCEPT ![PathOf[job[w]]] = job[w]]
          /\ \/ UnexpectedChange(w) /\ Throw(w, "failed")
             \/ ~UnexpectedChange(w) /\ Await(w, "validating") /\ UNCHANGED raised
       \/ /\ Throw(w, "failed")     \* a step does not apply
          /\ UNCHANGED file
    /\ UNCHANGED <<storeVars, proc, toRecover, job, baseline, snapshot, scheduled, journal, index,
                   head, commits, expectedHead, runVars, bounds>>

\* Mutant: the packet is completed without a look at its lease.
FinalizeUnleased(w) ==
    /\ records' = [records EXCEPT ![job[w]] = clearLease([@ EXCEPT !.status = "completed"])]
    /\ Forget(w)
    /\ Go(w, "finalized")
    /\ UNCHANGED raised

\* finalizeWorkbenchPacketExecution('completed') when every check has passed:
\* refused by the store it throws like any other failure.
FinalizeCompleted(w) ==
    \/ /\ Leased(job[w], holds[w].token)
       /\ records' = Finalized(w, "completed")
       /\ Forget(w)
       /\ Go(w, "finalized")
       /\ UNCHANGED raised
    \/ /\ ~Leased(job[w], holds[w].token)
       /\ CommandFails(w)

\* The checks between two awaits, then the next await or the finalization.
CheckThen(w, next) ==
    \/ Thrown(w) # "none" /\ Throw(w, Thrown(w)) /\ UNCHANGED <<records, holds>>
    \/ Thrown(w) = "none" /\ next # "finalize" /\ Await(w, next) /\ UNCHANGED <<raised, records, holds>>
    \/ Thrown(w) = "none" /\ next = "finalize" /\ FinalizeCompleted(w)

ExecutionFrame ==
    /\ UNCHANGED <<clock, leaseSeq, lockLeft, lapsed>>
    /\ UNCHANGED <<proc, toRecover, job, baseline, snapshot, scheduled, expectedHead, journal, file,
                   runVars, bounds>>

\* A validation command ends, after an await of any length.
validationEnds(w) ==
    /\ Idle
    /\ At(w, "validating")
    /\ \/ CheckThen(w, IF job[w] \in Committing THEN "scanning" ELSE "finalize")
       \/ CommandFails(w)
    /\ UNCHANGED <<index, head, commits>>
    /\ ExecutionFrame

\* The exact-path secret scan ends and git add is started.
scanEnds(w) ==
    /\ Idle
    /\ At(w, "scanning")
    /\ CheckThen(w, "staging") \/ CommandFails(w)
    /\ UNCHANGED <<index, head, commits>>
    /\ ExecutionFrame

\* git add and git commit are child processes: they take effect while the event
\* loop does something else.
gitAddRuns(w) ==
    /\ At(w, "staging")
    /\ index' = [index EXCEPT ![PathOf[job[w]]] = file[PathOf[job[w]]]]
    /\ pc' = [pc EXCEPT ![w] = "staged"]
    /\ UNCHANGED <<head, commits, records, holds, loop, raised>>
    /\ ExecutionFrame

gitCommitRuns(w) ==
    /\ At(w, "committing")
    /\ Staged # {}
    /\ head' = index
    /\ commits' = Append(commits, [packet |-> job[w], paths |-> Staged])
    /\ pc' = [pc EXCEPT ![w] = "committed"]
    /\ UNCHANGED <<index, records, holds, loop, raised>>
    /\ ExecutionFrame

gitFails(w) ==
    /\ Idle
    /\ pc[w] \in {"staging", "committing"}
    /\ CommandFails(w)
    /\ UNCHANGED <<index, head, commits>>
    /\ ExecutionFrame

\* verifyExactPathSet on the staged paths, then git commit is started.  There is
\* no control check here.
verifyStaged(w) ==
    /\ Idle
    /\ At(w, "staged")
    /\ \/ Staged = {PathOf[job[w]]} /\ Await(w, "committing") /\ UNCHANGED <<raised, records, holds>>
       \/ Staged # {PathOf[job[w]]} /\ CommandFails(w)
    /\ UNCHANGED <<index, head, commits>>
    /\ ExecutionFrame

\* Mutant: the paths of the commit are not verified.
verifyNothingCommitted(w) ==
    /\ Idle
    /\ At(w, "committed")
    /\ CheckThen(w, "finalize")
    /\ UNCHANGED <<index, head, commits>>
    /\ ExecutionFrame

\* verifyExactPathSet on the paths of HEAD, the changed-path check, the last
\* control check and the finalization, all after the commit was made.
verifyCommitted(w) ==
    /\ Idle
    /\ At(w, "committed")
    /\ \/ commits[Len(commits)].paths = {PathOf[job[w]]} /\ CheckThen(w, "finalize")
       \/ commits[Len(commits)].paths # {PathOf[job[w]]} /\ CommandFails(w)
    /\ UNCHANGED <<index, head, commits>>
    /\ ExecutionFrame

\* completeWorkbenchExecutionJournal after a successful finalization.
completeJournal(w) ==
    /\ At(w, "finalized")
    /\ journal' = [journal EXCEPT ![job[w]] = NoJournal]
    /\ Go(w, "advancing")
    /\ UNCHANGED <<storeVars, proc, toRecover, job, raised, baseline, snapshot, scheduled, file,
                   index, head, commits, expectedHead, runVars, bounds>>

\* advanceWorkbenchRunAfterPacket: the run's status is recomputed from its tasks
\* alone.  A run store that cannot be written throws inside the executor's try.
advanceWorkbenchRunAfterPacket(w) ==
    LET p == job[w]
        r == RunOf[p]
    IN
    /\ At(w, "advancing")
    /\ completedIn' = [completedIn EXCEPT ![r] = @ \cup {p}]
    /\ runs' = [runs EXCEPT ![r] =
                   IF Tasks(r) = DoneTasks(r, completedIn[r] \cup {p}) THEN "completed" ELSE "running"]
    /\ results' = [results EXCEPT ![p] = "completed"]
    /\ EndCycle(w)
    /\ UNCHANGED <<records, clock, leaseSeq, lockLeft, lapsed, proc, toRecover, raised, baseline,
                   snapshot, repoVars, cancelAsked, bounds>>

advanceThrows(w) ==
    /\ At(w, "advancing")
    /\ RunWriteFails
    /\ Throw(w, "failed")
    /\ UNCHANGED <<storeVars, proc, toRecover, job, baseline, snapshot, scheduled, repoVars, runVars, bounds>>

-----------------------------------------------------------------------------
\* Mutant: the rollback unstages the path and leaves the file.
rollBackIndexOnly(w) ==
    LET x == PathOf[job[w]] IN
    /\ At(w, "catching")
    /\ journal' = [journal EXCEPT ![job[w]] = snapshot[w]]
    /\ index' = IF job[w] \in Committing THEN [index EXCEPT ![x] = head[x]] ELSE index
    /\ Go(w, "rolledBack")
    /\ UNCHANGED <<storeVars, proc, toRecover, job, raised, baseline, snapshot, scheduled, file,
                   head, commits, expectedHead, runVars, bounds>>

\* The catch block: restoreWorkbenchExecutionJournal writes the journal again and
\* restores the file; git reset takes the path out of the index.
rollBack(w) ==
    LET x == PathOf[job[w]] IN
    /\ At(w, "catching")
    /\ journal' = [journal EXCEPT ![job[w]] = snapshot[w]]
    /\ file' = [file EXCEPT ![x] = snapshot[w]]
    /\ index' = IF job[w] \in Committing THEN [index EXCEPT ![x] = head[x]] ELSE index
    /\ Go(w, "rolledBack")
    /\ UNCHANGED <<storeVars, proc, toRecover, job, raised, baseline, snapshot, scheduled, head,
                   commits, expectedHead, runVars, bounds>>

\* The rollback throws: the packet fails and its journal stays for the next start.
rollBackFails(w) ==
    /\ At(w, "catching")
    /\ journal' = [journal EXCEPT ![job[w]] = snapshot[w]]
    /\ records' = Finalized(w, "failed")
    /\ results' = [results EXCEPT ![job[w]] = "failed"]
    /\ EndCycle(w)
    /\ UNCHANGED <<clock, leaseSeq, lockLeft, lapsed, proc, toRecover, raised, baseline, snapshot,
                   file, index, head, commits, expectedHead, runs, completedIn, cancelAsked, bounds>>

OutcomeOf(kind) ==
    CASE kind = "pause" -> "paused" [] kind = "cancel" -> "cancelled" [] OTHER -> "failed"

\* The finalization of the catch block: a refusal is not looked at.
settle(w) ==
    /\ At(w, "rolledBack")
    /\ records' = Finalized(w, OutcomeOf(raised[w]))
    /\ Forget(w)
    /\ Go(w, "settled")
    /\ UNCHANGED <<clock, leaseSeq, lockLeft, lapsed, proc, toRecover, job, raised, baseline,
                   snapshot, scheduled, repoVars, runVars, bounds>>

\* The journal is deleted, the result recorded and the cycle ends.
dropJournal(w) ==
    /\ At(w, "settled")
    /\ journal' = [journal EXCEPT ![job[w]] = NoJournal]
    /\ results' = [results EXCEPT ![job[w]] = OutcomeOf(raised[w])]
    /\ EndCycle(w)
    /\ UNCHANGED <<records, clock, leaseSeq, lockLeft, lapsed, proc, toRecover, raised, baseline,
                   snapshot, file, index, head, commits, expectedHead, runs, completedIn,
                   cancelAsked, bounds>>

Cycle(w) ==
    \/ claimForExecution(w) \/ claimRefused(w)
    \/ requeueBeforeMutation(w) \/ prepareJournal(w) \/ goalCommandEnds(w) \/ applySteps(w)
    \/ validationEnds(w) \/ scanEnds(w)
    \/ gitAddRuns(w) \/ verifyStaged(w) \/ gitCommitRuns(w) \/ gitFails(w) \/ verifyCommitted(w)
    \/ completeJournal(w) \/ advanceWorkbenchRunAfterPacket(w) \/ advanceThrows(w)
    \/ rollBack(w) \/ rollBackFails(w) \/ settle(w) \/ dropJournal(w)

-----------------------------------------------------------------------------
\* controlAgentJob: when a run accepts a request, and the status it then has.
Accepts(r, action) ==
    CASE action = "pause"  -> runs[r] = "running"
      [] action = "resume" -> runs[r] = "paused"
      [] OTHER             -> runs[r] \notin RunTerminal

RunAfter(action) ==
    CASE action = "pause"  -> "paused"
      [] action = "resume" -> "running"
      [] action = "cancel" -> "cancelled"
      [] OTHER             -> "completed"

ControlAllowed(r, action) ==
    /\ Idle
    /\ controls < MaxControls
    /\ action \in ControlActions
    /\ Accepts(r, action)

\* The request reaches the packets unless the store is busy, which goes unnoticed.
ControlPackets(r, action) ==
    /\ controlWorkbenchPacketsForRun(r, action)
    /\ cancelAsked' = IF action = "cancel" /\ ~lockLeft
                      THEN cancelAsked \cup {p \in Packets : /\ RunOf[p] = r
                                                             /\ records[p].status \in Unsettled}
                      ELSE cancelAsked

\* POST /api/agent-jobs/control: the run, then its packets; closeWorkbenchRun: the
\* packets, then the run.
control(r, action) ==
    /\ ControlAllowed(r, action)
    /\ ControlPackets(r, IF action = "close" THEN "cancel" ELSE action)
    /\ runs' = [runs EXCEPT ![r] = RunAfter(action)]
    /\ controls' = controls + 1
    /\ UNCHANGED <<processVars, repoVars, completedIn, results, crashes>>

\* The renewal timer of a running cycle, and POST /api/workbench-packets/recover-stale.
renewalTimer(w) ==
    /\ Idle
    /\ holds[w] # NoLease
    /\ ~records[holds[w].packet].live
    /\ renewWorkbenchPacketLease(w)
    /\ UNCHANGED <<processVars, repoVars, runVars, bounds>>

recoverStale ==
    /\ Idle
    /\ recoverStaleWorkbenchPacketLeases
    /\ UNCHANGED <<processVars, repoVars, runVars, bounds>>

leaseTimePasses(p) ==
    /\ MayExpire \/ \A w \in Workers : holds[w].token # records[p].token
    /\ LeaseExpires(p)
    /\ UNCHANGED <<processVars, repoVars, runVars, bounds>>

-----------------------------------------------------------------------------
\* The process dies, possibly inside a store operation: what was in memory is gone.
crash ==
    /\ proc # "down"
    /\ crashes < MaxCrashes
    /\ crashes' = crashes + 1
    /\ proc' = "down"
    /\ toRecover' = {}
    /\ loop' = NoWorker
    /\ pc' = [w \in Workers |-> "idle"]
    /\ job' = [w \in Workers |-> NoPacket]
    /\ raised' = [w \in Workers |-> "none"]
    /\ baseline' = [w \in Workers |-> [x \in Paths |-> Clean]]
    /\ snapshot' = [w \in Workers |-> Base]
    /\ scheduled' = {}
    /\ WorkersDie(Workers)
    /\ UNCHANGED <<repoVars, runVars, controls>>

\* The first of the two writes of a control request, when the process dies before
\* the second.
controlCutShort(r, action) ==
    /\ crashes < MaxCrashes
    /\ ControlAllowed(r, action)
    /\ \/ /\ action # "close"
          /\ runs' = [runs EXCEPT ![r] = RunAfter(action)]
          /\ UNCHANGED <<storeVars, cancelAsked>>
       \/ /\ action = "close"
          /\ ControlPackets(r, "cancel")
          /\ UNCHANGED runs
    /\ proc' = "dying"
    /\ controls' = controls + 1
    /\ UNCHANGED <<toRecover, loop, pc, job, raised, baseline, snapshot, scheduled, repoVars,
                   completedIn, results, crashes>>

operatorRemovesLock ==
    /\ OperatorRemovesLock
    /\ UNCHANGED <<processVars, repoVars, runVars, bounds>>

\* Startup: every journal found is restored, its packet failed and the journal
\* deleted; a journal that cannot be restored is left alone.
restart ==
    /\ proc = "down"
    /\ proc' = "recovering"
    /\ toRecover' = {p \in Packets : journal[p] # NoJournal}
    /\ UNCHANGED <<storeVars, loop, pc, job, raised, baseline, snapshot, scheduled, repoVars, runVars, bounds>>

recoverExecutionJournal(p) ==
    /\ proc = "recovering"
    /\ p \in toRecover
    /\ toRecover' = toRecover \ {p}
    /\ \/ /\ file' = [file EXCEPT ![PathOf[p]] = journal[p]]
          /\ journal' = [journal EXCEPT ![p] = NoJournal]
          /\ recoverInterruptedWorkbenchPacket(p)
       \/ UNCHANGED <<storeVars, file, journal>>    \* the source is unavailable
    /\ UNCHANGED <<proc, loop, pc, job, raised, baseline, snapshot, scheduled, index, head, commits,
                   expectedHead, runVars, bounds>>

\* The stale-lease recovery ends the startup; it does nothing while the store is busy.
serve ==
    /\ proc = "recovering"
    /\ toRecover = {}
    /\ proc' = "up"
    /\ recoverStaleWorkbenchPacketLeases \/ (lockLeft /\ UNCHANGED storeVars)
    /\ UNCHANGED <<toRecover, loop, pc, job, raised, baseline, snapshot, scheduled, repoVars, runVars, bounds>>

ExecNext ==
    \/ \E p \in Packets : reservePacket(p) \/ leaseTimePasses(p) \/ recoverExecutionJournal(p)
    \/ \E w \in Workers :
          \/ \E p \in Packets : scheduleWorkbenchPacket(w, p)
          \/ Cycle(w)
          \/ renewalTimer(w)
    \/ \E r \in Runs, a \in ControlActions : control(r, a) \/ controlCutShort(r, a)
    \/ recoverStale
    \/ crash \/ operatorRemovesLock \/ restart \/ serve

ExecSpec == ExecInit /\ [][ExecNext]_vars

\* Commands have timeouts, child processes end and the event loop serves every
\* cycle that is ready; a process that went down is started again, an operator
\* removes a lock file left behind, and a lease that nobody renews expires.
\* Nobody is obliged to call recover-stale, to schedule, or to control a run.
ExecFairness ==
    /\ \A w \in Workers : WF_vars(Cycle(w)) /\ WF_vars(renewalTimer(w))
    /\ \A p \in Packets : WF_vars(recoverExecutionJournal(p)) /\ WF_vars(leaseTimePasses(p))
    /\ WF_vars(restart) /\ WF_vars(serve) /\ WF_vars(operatorRemovesLock)

LiveExecSpec == ExecSpec /\ ExecFairness

-----------------------------------------------------------------------------
Places == {"idle", "scheduled", "claimed", "commanding", "journaled", "validating", "scanning",
           "staging", "staged", "committing", "committed", "finalized", "advancing", "catching",
           "rolledBack", "settled"}

\* The types of the process, the repository and the runs.
ExecTypeOK ==
    /\ StoreTypeOK
    /\ proc \in {"up", "dying", "down", "recovering"}
    /\ toRecover \subseteq Packets
    /\ loop \in Workers \cup {NoWorker}
    /\ pc \in [Workers -> Places]
    /\ job \in [Workers -> Packets \cup {NoPacket}]
    /\ raised \in [Workers -> {"none", "failed", "pause", "cancel"}]
    /\ baseline \in [Workers -> [Paths -> BOOLEAN \X BOOLEAN]]
    /\ snapshot \in [Workers -> Content]
    /\ scheduled \subseteq Packets
    /\ journal \in [Packets -> Content \cup {NoJournal}]
    /\ file \in [Paths -> Content]
    /\ index \in [Paths -> Content]
    /\ head \in [Paths -> Content]
    /\ commits \in Seq([packet : Packets, paths : SUBSET Paths])
    /\ expectedHead \in [Packets -> Nat]
    /\ runs \in [Runs -> RunTerminal \cup {"running", "paused"}]
    /\ completedIn \in [Runs -> SUBSET Packets]
    /\ results \in [Packets -> {"none", "requeued", "completed", "failed", "paused", "cancelled"}]
    /\ cancelAsked \subseteq Packets
    /\ crashes \in Nat
    /\ controls \in Nat

\* The executor, the startup recovery and the control handler change the packet
\* store only by its own operations: execution implements the store's specification,
\* so what holds of every use of the store holds of the whole process.
ImplementsStore == StoreSpec

\* Two cycles never execute one packet at the same time, even when its lease
\* expires under the first and recover-stale puts it back into the queue while
\* the first is still running.
SingleExecutor ==
    \A v, w \in Workers : job[v] = job[w] /\ job[v] # NoPacket => v = w

CommitsOf(p) == {i \in 1 .. Len(commits) : commits[i].packet = p}

\* A change that was never committed and whose packet is not completed is always
\* covered by a journal that would undo it, whenever the process dies.
WriteAhead ==
    \A p \in Packets :
        /\ file[PathOf[p]] = p
        /\ head[PathOf[p]] # p
        /\ CommitsOf(p) = {}
        /\ records[p].status # "completed"
        => journal[p] \notin {NoJournal, p}

\* Where packets execute one at a time, each is committed at most once and directly
\* on top of the HEAD it was admitted against, however often it is requeued after a
\* refused finalization, a pause, a crash or an expired lease.
BuiltOnExpectedHead == \A p \in Packets : CommitsOf(p) \subseteq {expectedHead[p] + 1}

\* A commit contains exactly the paths of its packet, although packets of one
\* repository execute concurrently and share the Git index.
NoForeignCommit ==
    \A i \in 1 .. Len(commits) : commits[i].paths = {PathOf[commits[i].packet]}

\* A packet that a cancel request reached is never reported completed, whatever
\* renewals, recoveries and retries follow.
CancelSticks == \A p \in cancelAsked : records[p].status # "completed"

\* The work of a completed packet is in the repository: in a commit of exactly its
\* paths if the packet commits, in the work tree otherwise.
CompletedApplied ==
    \A p \in Packets :
        records[p].status = "completed" =>
            IF p \in Committing THEN \E i \in CommitsOf(p) : commits[i].paths = {PathOf[p]}
                                ELSE file[PathOf[p]] = p

\* A run that ended stays ended: no packet still executing revives it.
RunTerminalFinal ==
    [][\A r \in Runs : runs[r] \in RunTerminal => runs'[r] = runs[r]]_vars

\* A packet that was rolled back has no commit.
RolledBackNotCommitted ==
    \A p \in Packets :
        records[p].status \in {"paused", "cancelled", "failed"} => CommitsOf(p) = {}

\* Only the owner's resume takes a run out of "paused" and back to work.
PausedUntilResumed ==
    [][\A r \in Runs : runs[r] = "paused" /\ runs'[r] = "running" =>
          controls' = controls + 1]_vars

\* A packet does not stay "running" for ever.
RunningSettles ==
    \A p \in Packets : records[p].status = "running" ~> records[p].status # "running"
=============================================================================
