----------------------------- MODULE Delegation -----------------------------
(***************************************************************************)
(* One goal packet handed to the Codex CLI: the synchronous dispatch that  *)
(* reserves the packet, persists the delegation operation, leases the      *)
(* packet, builds an isolated worktree and submits                         *)
(* (workbench-goal-dispatch.ts); the adapter that spawns the child and     *)
(* settles the operation from its end, its timeout or a cancellation       *)
(* (external-delegation-adapter.ts over external-delegation-store.ts); the *)
(* lifecycle callback that commits and writes the packet and the run       *)
(* (server.ts, governed-codex-commit.ts); the delegation and control       *)
(* routes; the background preflight a resume starts (agent-runtime.ts);    *)
(* and the local worker, which drains the same packet when its lease has   *)
(* been lost (its execution is the subject of PacketExecution).            *)
(*                                                                         *)
(* The agent is one event loop.  The dispatch and the callback run to      *)
(* their next await without interference, but the process can die between  *)
(* any two of their writes.  The packet store, the operation, the run, the *)
(* worktree and the child survive; the active execution, its result and    *)
(* the background loops do not.                                            *)
(***************************************************************************)
EXTENDS PacketStore

CONSTANTS
    Goal,           \* the packet
    Codex, Local,   \* the dispatch and the local worker, as lease owners
    Kinds,          \* what the dispatched goal may ask for
    MaxFaults,      \* bound on deaths and lost writes, for model checking
    MaxControls     \* bound on control requests, for model checking

ASSUME DelegationAssumption ==
    /\ Packets = {Goal} /\ Delegated = {Goal}
    /\ Workers = {Codex, Local} /\ Codex # Local
    /\ Kinds \subseteq {"read_only", "mutation", "commit"}
    /\ MaxFaults \in Nat /\ MaxControls \in Nat

VARIABLES
    kind,       \* goalDispatch: readOnly, a mutation, or a mutation with commit
    step,       \* where the dispatch, a submission or the startup stands
    run,        \* status of the goal's run
    op,         \* persisted lifecycle of the delegation operation
    exec,       \* the adapter's active execution
    child,      \* the Codex process
    result,     \* the adapter's in-memory result for the operation
    notice,     \* where the lifecycle callback stands
    worktree,   \* the isolated worktree
    committed,  \* the governed commit is in the worktree
    preflight,  \* the background preflight loop: "none", "due" or "running"
    scheduled,  \* the local coordinator has scheduled the packet
    cancelled,  \* history: the adapter accepted a cancellation
    spawned,    \* history: Codex processes started for the operation
    reported,   \* history: the status the callback last wrote to the packet
    faults, controls

memory  == <<step, exec, result, notice, preflight, scheduled>>
durable == <<kind, run, op, child, worktree, committed, cancelled, spawned, reported>>
bounds  == <<faults, controls>>
delegVars == <<storeVars, memory, durable, bounds>>

-----------------------------------------------------------------------------
OpTerminal == {"completed", "failed", "cancelled", "ambiguous"}
Lifecycles == OpTerminal \cup {"absent", "admitted", "submitted", "running", "cancellation_requested"}
RunTerminal == {"completed", "failed", "cancelled"}

\* TRANSITIONS of external-delegation.ts, for the lifecycles the adapter writes.
TRANSITIONS ==
    [absent                 |-> {"admitted"},
     admitted               |-> {"submitted"},
     submitted              |-> {"running", "completed", "failed", "cancellation_requested", "ambiguous"},
     running                |-> {"completed", "failed", "cancellation_requested", "ambiguous"},
     cancellation_requested |-> {"cancelled", "ambiguous"},
     completed |-> {}, failed |-> {}, cancelled |-> {}, ambiguous |-> {}]

\* persistDelegationTransition: one locked, revision-checked write.
transition(next) == next \in TRANSITIONS[op] /\ op' = next

Packet == records[Goal]
Settled == Packet.status \in Terminal \cup {"absent"}

NoExecution == [active |-> FALSE, cancel |-> FALSE, governed |-> FALSE]
Governed == kind # "read_only"

\* No synchronous section is under way, so the event loop takes the next task.
Idle == step = "idle" /\ notice \notin {"due", "reported", "unclear"}

Fault == faults < MaxFaults /\ faults' = faults + 1
Quiet == UNCHANGED bounds

\* Mutant: a refused packet goes back to the queue.
writeStatusOrRequeue(status) ==
    /\ records' = [records EXCEPT ![Goal].status = IF status = "failed" THEN "queued" ELSE status]
    /\ UNCHANGED <<clock, leaseSeq, lockLeft, holds, lapsed>>

\* updateWorkbenchPacketStatus; its answer is ignored, BUSY included.
writeStatus(status) ==
    IF lockLeft \/ Packet.status = "absent" THEN UNCHANGED storeVars
    ELSE updateWorkbenchPacketStatus(Goal, status)

DelegInit ==
    /\ StoreInit
    /\ kind \in Kinds
    /\ step = "idle" /\ run = "none" /\ op = "absent"
    /\ exec = NoExecution /\ child = "none" /\ result = "none" /\ notice = "none"
    /\ worktree = "none" /\ committed = FALSE
    /\ preflight = "none" /\ scheduled = FALSE
    /\ cancelled = FALSE /\ spawned = 0 /\ reported = "none"
    /\ faults = 0 /\ controls = 0

-----------------------------------------------------------------------------
(* dispatchWorkbenchGoal, one action per write                              *)

\* The run is created, or the live run of the same goal is found again, and the
\* packet reserved or found again.  A failed preflight or a busy store blocks the run;
\* an operation that exists is answered with already_queued.
dispatchWorkbenchGoal ==
    /\ Idle
    /\ run \in {"none", "running"}
    /\ op = "absent"
    /\ \/ /\ \/ reserveWorkbenchPacket(Goal)
             \/ Packet.status # "absent" /\ ~lockLeft /\ UNCHANGED storeVars
          /\ step' = "reserved" /\ run' = "running"
       \/ step' = step /\ run' = "blocked" /\ UNCHANGED storeVars
    /\ UNCHANGED <<kind, op, exec, child, result, notice, worktree, committed, preflight,
                   scheduled, spawned, cancelled, reported, bounds>>

\* Every refusal after the reservation: the run is blocked and the packet failed,
\* whatever it has become.
refuse ==
    /\ step' = "idle" /\ run' = "blocked"
    /\ writeStatus("failed")

\* preparePersistedDelegation; a store that cannot be written refuses.
prepareDelegation ==
    /\ step = "reserved"
    /\ \/ transition("admitted") /\ step' = "admitted" /\ UNCHANGED <<storeVars, run, faults>>
       \/ Fault /\ refuse /\ UNCHANGED op
    /\ UNCHANGED <<kind, exec, child, result, notice, worktree, committed, preflight, scheduled,
                   spawned, cancelled, reported, controls>>

Claimable ==
    /\ ~lockLeft
    /\ \/ Packet.status = "queued"
       \/ Packet.status = "running" /\ ~leaseActive(Packet)

\* A mutation leases the packet for 120 s; a read-only goal only marks it running.
leasePacket ==
    /\ step = "admitted"
    /\ \/ Governed /\ claimPacket(Codex, Goal) /\ step' = "leased" /\ UNCHANGED run
       \/ Governed /\ ~Claimable /\ refuse
       \/ ~Governed /\ writeStatus("running") /\ step' = "submitting" /\ UNCHANGED run
    /\ UNCHANGED <<kind, op, exec, child, result, notice, worktree, committed, preflight, scheduled,
                   spawned, cancelled, reported, bounds>>

\* createDelegatedWorkbenchWorktreeForPacket: git may refuse; a locked worktree
\* store throws out of the dispatch, which leaves packet, run and operation as they are.
createWorktree ==
    /\ step = "leased"
    /\ \/ worktree' = "ready" /\ step' = "submitting" /\ UNCHANGED <<storeVars, run, faults>>
       \/ refuse /\ UNCHANGED <<worktree, faults>>
       \/ Fault /\ step' = "idle" /\ UNCHANGED <<storeVars, run, worktree>>
    /\ UNCHANGED <<kind, op, exec, child, result, notice, committed, preflight, scheduled, spawned,
                   cancelled, reported, controls>>

-----------------------------------------------------------------------------
(* The adapter                                                              *)

\* POST /api/agent-jobs/delegation, submit: the persisted operation is submitted
\* again by hand, without a worktree.
submitRoute ==
    /\ Idle
    /\ op = "admitted"
    /\ step' = "resubmitting"
    /\ UNCHANGED <<storeVars, exec, result, notice, preflight, scheduled, durable, bounds>>

Submitting == step \in {"submitting", "resubmitting"}

\* Mutant: an operation is taken from the memory of the caller, not from the store.
submitUnchecked ==
    /\ Submitting \/ (Idle /\ op \in {"submitted", "running"} /\ ~exec.active)
    /\ op' = "submitted"
    /\ exec' = [active |-> TRUE, cancel |-> FALSE, governed |-> Governed /\ step = "submitting"]
    /\ step' = "spawning"
    /\ UNCHANGED <<storeVars, kind, run, child, result, notice, worktree, committed, preflight,
                   scheduled, spawned, cancelled, reported, bounds>>

\* submit: only an operation that is persisted as admitted is spawned, and it is
\* persisted as submitted first.
submit ==
    /\ Submitting
    /\ transition("submitted")
    /\ exec' = [active |-> TRUE, cancel |-> FALSE, governed |-> Governed /\ step = "submitting"]
    /\ step' = "spawning"
    /\ UNCHANGED <<storeVars, kind, run, child, result, notice, worktree, committed, preflight,
                   scheduled, spawned, cancelled, reported, bounds>>

\* The CLI is missing, the repository no longer matches, the store is busy (the
\* operation stays admitted) or spawn throws (it is failed).  The dispatch then
\* blocks the run and fails the packet; the route only answers.
submitRefused ==
    /\ Submitting
    /\ op' \in {op, "failed"}
    /\ \/ step = "submitting" /\ refuse
       \/ step = "resubmitting" /\ step' = "idle" /\ UNCHANGED <<storeVars, run>>
    /\ UNCHANGED <<kind, exec, child, result, notice, worktree, committed, preflight, scheduled,
                   spawned, cancelled, reported, bounds>>

\* The lifecycle finalize settles on: a governed mutation that cannot be verified
\* in its worktree has failed, whatever the exit code.
Verified(lifecycle) ==
    IF lifecycle = "completed" /\ exec.governed THEN {"completed", "failed"} ELSE {lifecycle}

\* What the operation becomes: a cancellation ends cancelled or ambiguous.
Recorded(lifecycle) ==
    IF op = "cancellation_requested" /\ lifecycle # "cancelled" THEN "ambiguous" ELSE lifecycle

\* finalize: the execution is settled, its result kept, the operation written and
\* the callback called.  When the write is lost the operation is made ambiguous if
\* the store allows it, but the result and the callback keep the lifecycle.
finalize(lifecycle) ==
    /\ exec' = NoExecution
    /\ notice' = "due"
    /\ \E l \in Verified(lifecycle) :
          /\ result' = l
          /\ \/ transition(Recorded(l)) /\ UNCHANGED faults
             \/ Fault /\ (transition("ambiguous") \/ UNCHANGED op)

\* The child has started or could not be started, in the tick after submit.  A
\* store that cannot be written here is an uncaught exception: the process dies.
spawnEvent ==
    /\ step = "spawning"
    /\ step' = "idle"
    /\ \/ /\ transition("running")
          /\ child' = "alive" /\ spawned' = spawned + 1
          /\ UNCHANGED <<exec, notice, result, faults>>
       \/ finalize("failed") /\ UNCHANGED <<child, spawned>>
    /\ UNCHANGED <<storeVars, kind, run, worktree, committed, preflight, scheduled, cancelled, reported, controls>>

\* Mutant: the exit code decides although a cancellation was accepted.
ClosedByExitCode == {"completed", "failed"}

\* What the end of the child means.
Closed == IF exec.cancel THEN {"cancelled"} ELSE {"completed", "failed"}

childCloses ==
    /\ Idle
    /\ exec.active /\ child = "alive"
    /\ child' = "done"
    /\ \E l \in Closed : finalize(l)
    /\ UNCHANGED <<storeVars, step, kind, run, worktree, committed, preflight, scheduled, spawned,
                   cancelled, reported, controls>>

\* The timeout, or too much output: SIGTERM is sent and the execution settled at
\* once as ambiguous, while the child may go on.
childTimesOut ==
    /\ Idle
    /\ exec.active
    /\ finalize("ambiguous")
    /\ UNCHANGED <<storeVars, step, kind, run, child, worktree, committed, preflight, scheduled,
                   spawned, cancelled, reported, controls>>

\* A child that outlives its execution ends; nobody listens any more.
childEndsLate ==
    /\ ~exec.active /\ child = "alive"
    /\ child' = "done"
    /\ UNCHANGED <<storeVars, memory, kind, run, op, worktree, committed, spawned, cancelled, reported, bounds>>

cancel ==
    /\ Idle
    /\ exec.active
    /\ transition("cancellation_requested")
    /\ exec' = [exec EXCEPT !.cancel = TRUE]
    /\ cancelled' = TRUE
    /\ UNCHANGED <<storeVars, step, result, notice, preflight, scheduled, kind, run, child, worktree,
                   committed, spawned, reported, bounds>>

\* reconcile: an operation in flight that no execution of this process owns.
reconcile ==
    /\ Idle
    /\ ~exec.active
    /\ op \in {"submitted", "running"}
    /\ transition("ambiguous")
    /\ UNCHANGED <<storeVars, memory, kind, run, child, worktree, committed, spawned, cancelled, reported, bounds>>

-----------------------------------------------------------------------------
(* The lifecycle callback of server.ts                                      *)

\* Mutant: a packet that carries no lease is left alone too.
noticeDroppedUnleased ==
    /\ notice = "due"
    /\ Settled \/ Packet.token = 0
    /\ notice' = "none"
    /\ UNCHANGED <<storeVars, step, exec, result, preflight, scheduled, durable, bounds>>

\* A packet that is already settled, or gone, is left alone.
noticeDropped ==
    /\ notice = "due"
    /\ Settled
    /\ notice' = "none"
    /\ UNCHANGED <<storeVars, step, exec, result, preflight, scheduled, durable, bounds>>

\* commitGovernedCodexMutation stages and commits a completed, verified mutation;
\* every other result is refused before the first command.
commitStarts ==
    /\ notice = "due"
    /\ ~Settled
    /\ kind = "commit" /\ worktree = "ready" /\ result = "completed"
    /\ notice' = "committing"
    /\ UNCHANGED <<storeVars, step, exec, result, preflight, scheduled, durable, bounds>>

gitCommits ==
    /\ notice = "committing"
    /\ committed' = TRUE
    /\ UNCHANGED <<storeVars, memory, kind, run, op, child, worktree, spawned, cancelled, reported, bounds>>

\* The packet status a result is reported with when nothing was to be committed.
Verdict == IF result \in {"completed", "cancelled"} THEN result ELSE "failed"

\* The packet gets its status, whatever it is by now.
report(status, next) ==
    /\ notice' = next
    /\ reported' = status
    /\ writeStatus(status)
    /\ UNCHANGED <<step, exec, result, preflight, scheduled, kind, run, op, child, worktree,
                   committed, cancelled, spawned, bounds>>

reportResult ==
    /\ notice = "due"
    /\ ~Settled
    /\ ~(kind = "commit" /\ worktree = "ready" /\ result = "completed")
    /\ report(IF kind = "commit" THEN "failed" ELSE Verdict, "reported")

\* The commit is proved, failed, or timed out so that nobody knows.
reportCommit ==
    /\ Idle
    /\ notice = "committing"
    /\ \/ committed /\ report("completed", "reported")
       \/ \E next \in {"reported", "unclear"} : report("failed", next)

\* The worktree is removed and the run gets the outcome, whatever its status is.
\* A locked worktree store throws: the run is left as it is.
settleRun ==
    /\ notice \in {"reported", "unclear"}
    /\ notice' = "none"
    /\ \/ /\ worktree' = IF worktree = "ready" THEN "removed" ELSE worktree
          /\ run' = IF reported = "completed" THEN "completed"
                    ELSE IF result = "ambiguous" \/ notice = "unclear" THEN "blocked" ELSE reported
          /\ UNCHANGED faults
       \/ worktree = "ready" /\ Fault /\ UNCHANGED <<worktree, run>>
    /\ UNCHANGED <<storeVars, step, exec, result, preflight, scheduled, kind, op, child, committed,
                   spawned, cancelled, reported, controls>>

-----------------------------------------------------------------------------
(* The owner's control requests, the background preflight, the local worker *)

RunAccepts(action) ==
    CASE action = "pause"  -> run = "running"
      [] action = "resume" -> run = "paused"
      [] OTHER             -> run \notin RunTerminal \cup {"none"}

RunAfter(action) ==
    CASE action = "pause" -> "paused" [] action = "resume" -> "running" [] OTHER -> "cancelled"

\* POST /api/agent-jobs/control.  The adapter hears nothing of it.
control(action) ==
    /\ Idle
    /\ controls < MaxControls
    /\ RunAccepts(action)
    /\ run' = RunAfter(action)
    /\ controlWorkbenchPacketsForRun(RunOf[Goal], action)
    /\ preflight' = IF action = "resume" /\ preflight = "none" THEN "due" ELSE preflight
    /\ controls' = controls + 1
    /\ UNCHANGED <<step, exec, result, notice, scheduled, kind, op, child, worktree, committed,
                   spawned, cancelled, reported, faults>>

\* startLocalAgentPreflight: the run is made running, and the first command starts.
preflightStarts ==
    /\ Idle
    /\ preflight = "due"
    /\ preflight' = "running"
    /\ run' = "running"
    /\ UNCHANGED <<storeVars, step, exec, result, notice, scheduled, kind, op, child, worktree,
                   committed, spawned, cancelled, reported, bounds>>

\* A command ends: the last one completes the run, a failed one blocks it and one that
\* throws fails it, all without another look at the run; only before the next command
\* is it looked at.
preflightCommandEnds ==
    /\ Idle
    /\ preflight = "running"
    /\ \/ run' \in {"completed", "blocked", "failed"} /\ preflight' = "none"
       \/ run \in {"cancelled", "paused"} /\ preflight' = "none" /\ UNCHANGED run
    /\ UNCHANGED <<storeVars, step, exec, result, notice, scheduled, kind, op, child, worktree,
                   committed, spawned, cancelled, reported, bounds>>

\* drainQueuedWorkbenchPackets, which does not know a delegated packet.
drainQueuedWorkbenchPackets ==
    /\ Idle
    /\ Packet.status = "queued" /\ holds[Local] = NoLease
    /\ scheduled' = TRUE
    /\ UNCHANGED <<storeVars, step, exec, result, notice, preflight, durable, bounds>>

localClaims ==
    /\ Idle
    /\ scheduled
    /\ scheduled' = FALSE
    /\ \/ claimPacket(Local, Goal)
       \/ ~Claimable /\ ~OwnLiveLease(Local, Goal) /\ UNCHANGED storeVars
    /\ UNCHANGED <<step, exec, result, notice, preflight, durable, bounds>>

\* The local execution ends by the control request it found, or completed, or failed.
LocalOutcomes ==
    {"failed"} \cup (CASE Packet.control = "pause" -> {"paused"}
                       [] Packet.control = "cancel" -> {"cancelled"}
                       [] OTHER -> {"completed"})

localEnds ==
    /\ Idle
    /\ holds[Local] # NoLease
    /\ \E s \in LocalOutcomes :
          /\ finalizeWorkbenchPacketExecution(Local, s)
          /\ run' \in IF s = "completed" /\ Leased(Goal, holds[Local].token)
                      THEN {"running", "completed"} ELSE {run}
    /\ UNCHANGED <<memory, kind, op, child, worktree, committed, spawned, cancelled, reported, bounds>>

-----------------------------------------------------------------------------
(* Time, stale recovery, death and restart                                  *)

\* Nobody renews the lease of the dispatch, nor that of a worker that died.
leaseRunsOut ==
    /\ holds[Local].token = 0 \/ holds[Local].token # Packet.token
    /\ LeaseExpires(Goal)
    /\ UNCHANGED <<memory, durable, bounds>>

recoverStale ==
    /\ Idle
    /\ recoverStaleWorkbenchPacketLeases
    /\ UNCHANGED <<memory, durable, bounds>>

\* The process dies and is started again; a journal of the local worker is looked
\* at before anything else.
die ==
    /\ Fault
    /\ WorkersDie(Workers)
    /\ step' = IF holds[Local] # NoLease \/ step = "recovering" THEN "recovering" ELSE "idle"
    /\ exec' = NoExecution /\ result' = "none" /\ notice' = "none"
    /\ preflight' = "none" /\ scheduled' = FALSE
    /\ UNCHANGED <<durable, controls>>

recoverJournal ==
    /\ step = "recovering"
    /\ step' = "idle"
    /\ recoverInterruptedWorkbenchPacket(Goal) \/ UNCHANGED storeVars
    /\ UNCHANGED <<exec, result, notice, preflight, scheduled, durable, bounds>>

operatorRemovesLock ==
    /\ OperatorRemovesLock
    /\ UNCHANGED <<memory, durable, bounds>>

Dispatch == dispatchWorkbenchGoal \/ prepareDelegation \/ leasePacket \/ createWorktree
Adapter ==
    \/ submitRoute \/ submit \/ submitRefused \/ spawnEvent
    \/ childCloses \/ childTimesOut \/ childEndsLate \/ cancel \/ reconcile
Callback == noticeDropped \/ commitStarts \/ gitCommits \/ reportResult \/ reportCommit \/ settleRun
Owner ==
    \/ \E action \in {"pause", "resume", "cancel"} : control(action)
    \/ preflightStarts \/ preflightCommandEnds
    \/ drainQueuedWorkbenchPackets \/ localClaims \/ localEnds
World == leaseRunsOut \/ recoverStale \/ die \/ recoverJournal \/ operatorRemovesLock

DelegNext == Dispatch \/ Adapter \/ Callback \/ Owner \/ World

DelegSpec == DelegInit /\ [][DelegNext]_delegVars

\* The event loop finishes what it has begun, and the adapter's own timer fires.
DelegFairness ==
    /\ WF_delegVars(prepareDelegation \/ leasePacket \/ createWorktree)
    /\ WF_delegVars(submit \/ submitRefused \/ spawnEvent)
    /\ WF_delegVars(childTimesOut)
    /\ WF_delegVars(noticeDropped \/ commitStarts \/ reportResult \/ settleRun)
    /\ WF_delegVars(reportCommit)
    /\ WF_delegVars(recoverJournal)

FairDelegSpec == DelegSpec /\ DelegFairness

-----------------------------------------------------------------------------
\* The types of the run, the operation and what the process remembers of them.
DelegTypeOK ==
    /\ kind \in Kinds
    /\ step \in {"idle", "reserved", "admitted", "leased", "submitting", "resubmitting", "spawning",
                 "recovering"}
    /\ run \in RunTerminal \cup {"none", "running", "paused", "blocked"}
    /\ op \in Lifecycles
    /\ exec \in [active : BOOLEAN, cancel : BOOLEAN, governed : BOOLEAN]
    /\ child \in {"none", "alive", "done"}
    /\ result \in OpTerminal \cup {"none"}
    /\ notice \in {"none", "due", "committing", "reported", "unclear"}
    /\ worktree \in {"none", "ready", "removed"}
    /\ committed \in BOOLEAN /\ cancelled \in BOOLEAN
    /\ preflight \in {"none", "due", "running"}
    /\ scheduled \in BOOLEAN
    /\ spawned \in Nat
    /\ reported \in Terminal \cup {"none"}
    /\ faults \in 0 .. MaxFaults /\ controls \in 0 .. MaxControls

\* However often the goal is dispatched again, the operation submitted by hand, the
\* process restarted or a write lost, at most one Codex process is ever started for
\* an operation (external-delegation-adapter.ts: admitted is left before the spawn).
SpawnOnce == spawned <= 1

\* Once the adapter has accepted a cancellation, the operation never completes, no
\* result says so and nothing is committed, although the child may still end with
\* exit code 0, the timer may fire and the callback may be about to run.
CancelHonoured ==
    cancelled => op # "completed" /\ result # "completed" /\ reported # "completed" /\ ~committed

\* An operation that was settled stays as it was settled, and a result the adapter
\* has given is not replaced as long as the process lives: a close after the
\* timeout, a reconciliation or a second submission change nothing.
SettledOnce ==
    [][/\ op \in OpTerminal => op' = op
       /\ result # "none" => result' \in {result, "none"}]_delegVars

\* The packet store sees nothing of the delegation but its own operations, so what
\* is proved of the store (NoLiveLeaseTaken, LeaseIffRunning, TerminalFinal) holds here.
DelegImplementsStore == StoreSpec

\* A packet handed to a running Codex process is settled in the end, whether the
\* child ends, hangs or is cancelled, the lease is lost, the local worker takes the
\* packet or the run is paused, unless the process dies or a write is lost.
DelegationSettles == exec.active ~> Settled \/ faults > 0

\* "A lost store write must never be presented as a verified terminal result.": a
\* packet the callback reports as completed has an operation persisted as completed.
LostWriteNotPresented == reported = "completed" => op = "completed"

\* A cancelled run stays cancelled: controlAgentJob answers the cancellation with
\* "Start a new bounded sequential job when ready." and refuses to resume the run.
CancelledRunFinal == [][run = "cancelled" => run' = "cancelled"]_delegVars

=============================================================================
