------------------------- MODULE WorkflowMigration -------------------------
(* The controlled migration of an n8n workflow: the portable state machine      *)
(* (controlled-workflow-migration-state.ts), the capability that drives it      *)
(* (n8n-workflow-migration-capability.ts), the operation store with its         *)
(* revisions and leases, the ledger that authorizes each update once            *)
(* (capability-mutation-dispatch-store.ts) and the executor that runs the       *)
(* wrapper process.  All operations concern one workflow.  Every write of a     *)
(* store is a step, so that a process may die, and another may run, between     *)
(* any two; a store may be busy whenever it is asked.                           *)
EXTENDS Naturals, Sequences, FiniteSets

CONSTANTS
    Ops,            \* migration operations, each prepared once
    Invs,           \* concurrent invocations of executeControlledWorkflowMigration
    NoOp, NoInv,
    ModeOf,         \* "apply" or "rollback" for each operation
    Suspends,       \* may a lease expire while a synchronous stretch is suspended?
    MaxReadbacks,   \* isRecord's limit on readbackRequests
    MaxFaults       \* crashes, refusals and expiries under a live invocation

ASSUME MigrationAssumption ==
    /\ NoOp \notin Ops /\ NoInv \notin Invs
    /\ ModeOf \in [Ops -> {"apply", "rollback"}]
    /\ Suspends \in BOOLEAN
    /\ MaxReadbacks \in Nat /\ MaxFaults \in Nat

VARIABLES
    ops,       \* the portable part of each operation's record
    lease,     \* the invocation whose proof the record's lease carries
    inForce,   \* whether that lease has not expired
    lapsed,    \* whether the confirmation token has expired
    ledger,    \* the dispatch of each operation and kind
    child,     \* the wrapper process of each operation and kind
    topology,  \* the live workflow: one of the approved topologies, or another
    inv,       \* what each invocation is doing
    overran,   \* has a lease expired under an update?
    touched,   \* the updates that have reached the workflow
    spawns,    \* how often each update was sent
    faults

store == <<ops, lease, inForce, lapsed>>
remote == <<child, topology, touched, spawns>>
migVars == <<ops, lease, inForce, lapsed, ledger, child, topology, inv, overran, touched,
             spawns, faults>>

Kinds == {"candidate", "rollback"}
TERMINAL_STATUSES == {"completed", "rolled_back", "failed", "manual_intervention_required", "expired"}
Statuses == {"absent", "prepared", "queued", "running", "reconciling", "rolling_back"}
                \union TERMINAL_STATUSES
Leased == {"running", "reconciling", "rolling_back"}
Outcomes == {"succeeded", "definitively_failed", "ambiguous", "timed_out"}
Results == Outcomes \union {"none", "not_started"}
Readbacks == {"matches_candidate", "matches_rollback", "matches_pre_mutation",
              "unexpected_state", "unavailable"}
Topologies == {"candidate", "rollback", "other"}

Operation == [status : Statuses, candidate : 0 .. 1, rollback : 0 .. 1, readbacks : Nat,
              mutation : Results, undo : Results]

Absent == [status |-> "absent", candidate |-> 0, rollback |-> 0, readbacks |-> 0,
           mutation |-> "none", undo |-> "none"]

LEGAL_STATE_TRANSITIONS ==
    [prepared     |-> {"prepared", "queued", "expired"},
     queued       |-> {"queued", "running", "reconciling", "expired"},
     running      |-> {"running", "reconciling", "rolling_back", "completed", "failed",
                       "manual_intervention_required"},
     reconciling  |-> {"reconciling", "rolling_back", "completed", "rolled_back", "failed",
                       "manual_intervention_required"},
     rolling_back |-> {"rolling_back", "reconciling", "rolled_back", "failed",
                       "manual_intervention_required"}]

isControlledWorkflowMigrationStateTransition(from, to) ==
    /\ from \in DOMAIN LEGAL_STATE_TRANSITIONS
    /\ to \in LEGAL_STATE_TRANSITIONS[from]

-----------------------------------------------------------------------------
(* The portable state machine.  A decision is the next state of the operation   *)
(* and the effect that follows its persistence; noChange has no effect at all.  *)

Effects == {"none", "release", "read_precondition", "readback_candidate", "readback_rollback",
            "readback_approved", "reserve_candidate", "reserve_rollback", "apply_candidate",
            "apply_rollback"}
Reads == {"read_precondition", "readback_candidate", "readback_rollback", "readback_approved"}

Decide(next, effect) == [next |-> next, effect |-> effect]
noChange(op) == Decide(op, "none")
End(op, status) == Decide([op EXCEPT !.status = status], "release")
ReadBack(op, status, effect) ==
    Decide([op EXCEPT !.status = status, !.readbacks = @ + 1], effect)

handleLeaseResult(op) == ReadBack(op, "running", "read_precondition")

handlePreconditionReadback(op, mode, result) ==
    IF op.status # "running" \/ op.candidate # 0 \/ op.rollback # 0
    THEN noChange(op)
    ELSE IF result # "matches_pre_mutation"
         THEN End(op, "failed")
         ELSE Decide(op, IF mode = "apply" THEN "reserve_candidate" ELSE "reserve_rollback")

standalone(op, mode) == mode = "rollback" /\ op.status = "running"
automatic(op, mode) == mode = "apply" /\ op.status = "rolling_back"

handleDispatchReserved(op, mode, kind, reserved) ==
    CASE kind = "candidate" /\ ~(op.status = "running" /\ mode = "apply" /\ op.candidate = 0)
           -> noChange(op)
      [] kind = "rollback" /\ ~((standalone(op, mode) \/ automatic(op, mode)) /\ op.rollback = 0)
           -> noChange(op)
      [] OTHER
           -> IF ~reserved
              THEN End(op, "manual_intervention_required")
              ELSE IF kind = "candidate"
                   THEN Decide([op EXCEPT !.candidate = 1], "apply_candidate")
                   ELSE Decide([op EXCEPT !.rollback = 1], "apply_rollback")

\* Mutant: a timeout is taken for a failure.
handleMutationTimeoutAsFailure(op, mode, result) ==
    IF op.status # "running" \/ mode # "apply" \/ op.candidate # 1
    THEN noChange(op)
    ELSE IF result \in {"not_started", "definitively_failed", "timed_out"}
         THEN End([op EXCEPT !.mutation = result], "failed")
         ELSE ReadBack([op EXCEPT !.mutation = result], "reconciling", "readback_candidate")

handleMutationResult(op, mode, result) ==
    LET seen == [op EXCEPT !.mutation = result]
    IN  IF op.status # "running" \/ mode # "apply" \/ op.candidate # 1
        THEN noChange(op)
        ELSE IF result \in {"not_started", "definitively_failed"}
             THEN End(seen, "failed")
             ELSE ReadBack(seen, "reconciling",
                           IF result = "succeeded" THEN "readback_candidate"
                                                   ELSE "readback_approved")

handleRollbackResult(op, mode, result) ==
    LET seen == [op EXCEPT !.undo = result]
    IN  CASE ~(standalone(op, mode) \/ automatic(op, mode)) \/ op.rollback # 1
               -> noChange(op)
          [] OTHER
               -> IF result = "succeeded"
                  THEN ReadBack(seen, "rolling_back", "readback_rollback")
                  ELSE IF automatic(op, mode)
                       THEN End(seen, "manual_intervention_required")
                       ELSE IF result \in {"ambiguous", "timed_out"}
                            THEN ReadBack(seen, "reconciling", "readback_approved")
                            ELSE End(seen, "failed")

handleUpdateResult(op, mode, kind, result) ==
    IF kind = "candidate" THEN handleMutationResult(op, mode, result)
                          ELSE handleRollbackResult(op, mode, result)

handleReadbackResult(op, mode, result) ==
    IF op.status \notin {"reconciling", "rolling_back"}
    THEN noChange(op)
    ELSE CASE result = "matches_rollback"
                -> End(op, "rolled_back")
           [] op.status = "reconciling" /\ mode = "apply" /\ result = "matches_candidate"
                -> End(op, "completed")
           [] op.status = "reconciling" /\ result = "matches_pre_mutation"
                -> End(op, "failed")
           [] op.status = "reconciling" /\ mode = "apply" /\ result = "unexpected_state"
              /\ op.rollback = 0
                -> Decide([op EXCEPT !.status = "rolling_back"], "reserve_rollback")
           [] OTHER
                -> End(op, "manual_intervention_required")

handleRecoveredMutationResult(op, mode, kind, result) ==
    IF \/ op.status # "reconciling"
       \/ kind = "candidate" /\ (mode # "apply" \/ op.candidate # 1 \/ op.mutation # "none")
       \/ kind = "rollback" /\ (op.rollback # 1 \/ op.undo # "none")
    THEN noChange(op)
    ELSE LET status == IF kind = "rollback" /\ mode = "apply" THEN "rolling_back" ELSE "running"
         IN  handleUpdateResult([op EXCEPT !.status = status], mode, kind, result)

handleRecoveryResume(op) ==
    IF op.status \notin {"reconciling", "rolling_back"}
    THEN noChange(op)
    ELSE ReadBack(op, op.status,
                  IF op.status = "rolling_back" \/ (op.rollback = 1 /\ op.undo = "succeeded")
                  THEN "readback_rollback" ELSE "readback_approved")

\* What a reading of the workflow is reported as: the first approved topology it
\* matches, in the order the effect asks for.  The rollback artifact is the topology
\* expected before the migration (prepare refuses anything else).
observedReadbackResult(effect, mode, seen) ==
    LET Approved == [matches_candidate |-> "candidate", matches_rollback |-> "rollback",
                     matches_pre_mutation |-> "rollback"]
        rollbackFirst == effect = "readback_rollback"
                            \/ (mode = "rollback" /\ effect = "readback_approved")
        ordered == IF effect = "read_precondition"
                   THEN <<"matches_pre_mutation", "matches_candidate", "matches_rollback">>
                   ELSE IF rollbackFirst
                   THEN <<"matches_rollback", "matches_candidate", "matches_pre_mutation">>
                   ELSE <<"matches_candidate", "matches_rollback", "matches_pre_mutation">>
        matching == {n \in 1 .. 3 : Approved[ordered[n]] = seen}
    IN  IF matching = {} THEN "unexpected_state"
        ELSE ordered[CHOOSE n \in matching : \A m \in matching : n <= m]

\* Mutant: a rollback is read back only while it is rolling back, not on recovery.
EffectLegalUnrecovered(op, mode, effect) ==
    effect = "readback_rollback" => op.status = "rolling_back"

\* The executor's own view of which effects an operation's state allows.
EffectLegal(op, mode, effect) ==
    CASE effect = "read_precondition"
           -> op.status = "running" /\ op.candidate = 0 /\ op.rollback = 0
      [] effect = "readback_rollback"
           -> \/ op.status = "rolling_back"
              \/ op.status = "reconciling" /\ op.rollback = 1 /\ op.undo = "succeeded"
      [] effect = "readback_approved" -> op.status = "reconciling"
      [] effect = "readback_candidate" -> op.status = "reconciling" /\ mode = "apply"
      [] effect = "apply_candidate" -> op.status = "running" /\ mode = "apply"
      [] effect = "apply_rollback" -> standalone(op, mode) \/ automatic(op, mode)
      [] OTHER -> TRUE

-----------------------------------------------------------------------------
Idle == [op |-> NoOp, pc |-> "idle", fresh |-> FALSE, decision |-> noChange(Absent),
         kind |-> "none", result |-> "none"]

MigInit ==
    /\ ops = [o \in Ops |-> Absent]
    /\ lease = [o \in Ops |-> NoInv]
    /\ inForce = [o \in Ops |-> FALSE]
    /\ lapsed = [o \in Ops |-> FALSE]
    /\ ledger = [o \in Ops |-> [k \in Kinds |-> "none"]]
    /\ child = [o \in Ops |-> [k \in Kinds |-> "none"]]
    /\ topology \in Topologies
    /\ inv = [i \in Invs |-> Idle]
    /\ overran = FALSE
    /\ touched = {}
    /\ spawns = [o \in Ops |-> [k \in Kinds |-> 0]]
    /\ faults = 0

\* The store refuses to read anything once one record is invalid.
StoreReadable == \A o \in Ops : ops[o].readbacks <= MaxReadbacks

\* A write of operation o by invocation i takes a new revision: i has reloaded it and
\* every other invocation's copy is stale.
Reloaded(i, o, next) ==
    [j \in Invs |-> IF j = i THEN [next EXCEPT !.fresh = TRUE]
                    ELSE IF inv[j].op = o THEN [inv[j] EXCEPT !.fresh = FALSE]
                    ELSE inv[j]]

Return(i) == inv' = [inv EXCEPT ![i] = Idle]

\* Mutant: the store does not look at the time.
OwnsWhileNamed(i) ==
    inv[i].fresh /\ lease[inv[i].op] = i /\ ops[inv[i].op].status \in Leased /\ StoreReadable

\* i holds the revision and the unexpired lease that every write of a leased
\* operation asks for.
Owns(i) ==
    LET o == inv[i].op
    IN  inv[i].fresh /\ lease[o] = i /\ inForce[o] /\ ops[o].status \in Leased /\ StoreReadable

Fault == faults < MaxFaults /\ faults' = faults + 1

prepareControlledWorkflowMigration(o) ==
    /\ ops[o].status = "absent"
    /\ ops' = [ops EXCEPT ![o].status = "prepared"]
    /\ UNCHANGED <<lease, inForce, lapsed, ledger, remote, inv, overran, faults>>

consumeCapabilityOperationConfirmation(i, o) ==
    /\ inv[i].pc = "idle" /\ StoreReadable
    /\ ops[o].status = "prepared"
    /\ IF lapsed[o]
       THEN ops' = [ops EXCEPT ![o].status = "expired"] /\ UNCHANGED inv
       ELSE /\ ops' = [ops EXCEPT ![o].status = "queued"]
            /\ inv' = Reloaded(i, o, [Idle EXCEPT !.op = o, !.pc = "acquire"])
    /\ UNCHANGED <<lease, inForce, lapsed, ledger, remote, overran, faults>>

Conflicting(o) == \E p \in Ops \ {o} : lease[p] # NoInv /\ inForce[p]
ExpiredLease(o) == lease[o] # NoInv /\ ~inForce[o]

\* acquireCapabilityOperationLease: an expired lease makes the operation reconciling,
\* even when another operation then turns out to hold the workflow.
acquire(i, o) ==
    LET status == IF ExpiredLease(o) THEN "reconciling" ELSE ops[o].status
        own == [Idle EXCEPT !.op = o]
        running == [ops[o] EXCEPT !.status = "running"]
    IN  IF (lease[o] # NoInv /\ inForce[o]) \/ status \notin {"queued", "reconciling"}
        THEN Return(i) /\ UNCHANGED store
        ELSE IF Conflicting(o)
        THEN /\ Return(i)
             /\ ops' = [ops EXCEPT ![o].status = status]
             /\ lease' = [lease EXCEPT ![o] = NoInv]
             /\ UNCHANGED <<inForce, lapsed>>
        ELSE /\ lease' = [lease EXCEPT ![o] = i]
             /\ inForce' = [inForce EXCEPT ![o] = TRUE]
             /\ IF status = "queued"
                THEN /\ ops' = [ops EXCEPT ![o] = running]
                     /\ inv' = Reloaded(i, o, [own EXCEPT !.pc = "persist",
                                                          !.decision = handleLeaseResult(ops[o])])
                ELSE /\ ops' = [ops EXCEPT ![o].status = "reconciling"]
                     /\ inv' = Reloaded(i, o, [own EXCEPT !.pc = "recover"])
             /\ UNCHANGED lapsed

acquireAfterConfirmation(i) ==
    /\ inv[i].pc = "acquire"
    /\ acquire(i, inv[i].op)
    /\ UNCHANGED <<ledger, remote, overran, faults>>

\* A later call without a token finds the operation waiting or its owner gone.
Resumable(o) ==
    \/ ops[o].status \in {"queued", "reconciling"} /\ ~(lease[o] # NoInv /\ inForce[o])
    \/ ops[o].status \in {"running", "rolling_back"} /\ ExpiredLease(o)

executeControlledWorkflowMigration(i, o) ==
    /\ inv[i].pc = "idle" /\ StoreReadable
    /\ Resumable(o)
    /\ acquire(i, o)
    /\ UNCHANGED <<ledger, remote, overran, faults>>

-----------------------------------------------------------------------------
(* One invocation, from its lease to its return.                                *)

\* recoverDecision: which update of an interrupted operation is unsettled, and what
\* the ledger knows of it.
Unsettled(op) ==
    IF op.rollback = 1 /\ op.undo = "none" THEN "rollback"
    ELSE IF op.candidate = 1 /\ op.mutation = "none" THEN "candidate"
    ELSE "none"

Recovered(op, mode, dispatched) ==
    LET kind == Unsettled(op)
    IN  CASE kind = "none" \/ dispatched = "none" -> handleRecoveryResume(op)
          [] dispatched \in Outcomes
               -> handleRecoveredMutationResult(op, mode, kind, dispatched)
          [] OTHER -> handleRecoveredMutationResult(op, mode, kind, "ambiguous")

Marked(dispatched) ==
    IF dispatched \in {"reserved", "dispatched"} THEN "reconciliation_required" ELSE dispatched

Proceed(i, decision) ==
    inv' = [inv EXCEPT ![i] = IF decision.effect = "none" THEN Idle
                              ELSE [@ EXCEPT !.pc = "persist", !.decision = decision]]

recoverDecision(i) ==
    LET o == inv[i].op
        kind == Unsettled(ops[o])
        dispatched == IF kind = "none" THEN "none" ELSE ledger[o][kind]
    IN  /\ inv[i].pc = "recover" /\ inv[i].fresh
        /\ Proceed(i, Recovered(ops[o], ModeOf[o], dispatched))
        /\ ledger' = IF kind = "none" THEN ledger
                     ELSE [ledger EXCEPT ![o][kind] = Marked(@)]
        /\ UNCHANGED <<store, remote, overran, faults>>

AfterPersist(effect) ==
    CASE effect = "release" -> "release"
      [] effect \in {"reserve_candidate", "reserve_rollback"} -> "reserve"
      [] OTHER -> "renew"

transitionCapabilityOperation(i) ==
    LET o == inv[i].op
        d == inv[i].decision
    IN  /\ inv[i].pc = "persist" /\ Owns(i)
        /\ isControlledWorkflowMigrationStateTransition(ops[o].status, d.next.status)
        /\ ops' = [ops EXCEPT ![o] = d.next]
        /\ inv' = Reloaded(i, o, [inv[i] EXCEPT !.pc = AfterPersist(d.effect)])
        /\ UNCHANGED <<lease, inForce, lapsed, ledger, remote, overran, faults>>

releaseCapabilityOperationLease(i) ==
    LET o == inv[i].op
    IN  /\ inv[i].pc = "release"
        /\ inv[i].fresh /\ lease[o] = i /\ inForce[o] /\ StoreReadable
        /\ lease' = [lease EXCEPT ![o] = NoInv]
        /\ inForce' = [inForce EXCEPT ![o] = FALSE]
        /\ inv' = Reloaded(i, o, Idle)
        /\ UNCHANGED <<ops, lapsed, ledger, remote, overran, faults>>

EffectKind(effect) ==
    IF effect \in {"reserve_candidate", "apply_candidate"} THEN "candidate" ELSE "rollback"

Unreserved(o, kind) == ledger[o][kind] = "none"

\* A busy ledger is reported as a conflict.
reserveCapabilityMutationDispatch(i) ==
    LET o == inv[i].op
        kind == EffectKind(inv[i].decision.effect)
        decided(reserved) == handleDispatchReserved(ops[o], ModeOf[o], kind, reserved)
    IN  /\ inv[i].pc = "reserve" /\ inv[i].fresh
        /\ \/ /\ Unreserved(o, kind)
              /\ ledger' = [ledger EXCEPT ![o][kind] = "reserved"]
              /\ Proceed(i, decided(TRUE))
              /\ UNCHANGED faults
           \/ /\ ~Unreserved(o, kind)
              /\ Proceed(i, decided(FALSE))
              /\ UNCHANGED <<ledger, faults>>
           \/ /\ Fault
              /\ Proceed(i, decided(FALSE))
              /\ UNCHANGED ledger
        /\ UNCHANGED <<store, remote, overran>>

renewCapabilityOperationLease(i) ==
    LET o == inv[i].op
        effect == inv[i].decision.effect
    IN  /\ inv[i].pc = "renew" /\ Owns(i)
        /\ inv' = Reloaded(i, o, [inv[i] EXCEPT
                        !.pc = IF effect \in Reads THEN "read" ELSE "consume",
                        !.kind = EffectKind(effect)])
        /\ UNCHANGED <<store, ledger, remote, overran, faults>>

\* The decisions below are taken on the copy of the operation that was current when
\* the lease was renewed; a copy that has become stale is refused by the store.
Decided(i) == inv[i].decision.next

readWorkflow(i) ==
    LET o == inv[i].op
        effect == inv[i].decision.effect
        handle(result) == IF effect = "read_precondition"
                          THEN handlePreconditionReadback(Decided(i), ModeOf[o], result)
                          ELSE handleReadbackResult(Decided(i), ModeOf[o], result)
    IN  /\ inv[i].pc = "read"
        /\ \E result \in {observedReadbackResult(effect, ModeOf[o], topology), "unavailable"} :
               Proceed(i, handle(result))
        /\ UNCHANGED <<store, ledger, remote, overran, faults>>

\* The executor consumes the authorization and sends the update in one stretch.
consumeCapabilityMutationDispatch(i) ==
    LET o == inv[i].op
        k == inv[i].kind
    IN  /\ inv[i].pc = "consume"
        /\ ledger[o][k] = "reserved"
        /\ ledger' = [ledger EXCEPT ![o][k] = "dispatched"]
        /\ child' = [child EXCEPT ![o][k] = "running"]
        /\ spawns' = [spawns EXCEPT ![o][k] = @ + 1]
        /\ inv' = [inv EXCEPT ![i].pc = "await"]
        /\ UNCHANGED <<store, topology, touched, overran, faults>>

\* The executor refuses before it consumes (its result names no operation), the ledger
\* is busy or no longer holds the reservation, or an artifact has changed since.
executorBlocks(i) ==
    LET o == inv[i].op
        k == inv[i].kind
        settle(result) == Proceed(i, handleUpdateResult(Decided(i), ModeOf[o], k, result))
    IN  /\ inv[i].pc = "consume"
        /\ \/ /\ ledger[o][k] # "reserved"
              /\ settle("ambiguous")
              /\ UNCHANGED <<ledger, faults>>
           \/ /\ ledger[o][k] = "reserved" /\ Fault
              /\ \E result \in {"ambiguous", "not_started"} : settle(result)
              /\ ledger' = [ledger EXCEPT ![o][k] = "reconciliation_required"]
           \/ /\ ledger[o][k] = "reserved" /\ Fault
              /\ \/ /\ settle("not_started")
                    /\ ledger' = [ledger EXCEPT ![o][k] = "ambiguous"]
                 \/ /\ Return(i)
                    /\ ledger' = [ledger EXCEPT ![o][k] = "dispatched"]
        /\ UNCHANGED <<store, remote, overran>>

\* The wrapper's PUT reaches the workflow; what n8n makes of it may differ.
updateLands(o, k) ==
    /\ child[o][k] = "running"
    /\ child' = [child EXCEPT ![o][k] = "landed"]
    /\ topology' \in {k, "other"}
    /\ touched' = touched \union {<<o, k>>}
    /\ UNCHANGED <<store, ledger, inv, overran, spawns, faults>>

\* The wrapper exits with an error only before it has sent its request.
ChildOutcomes(state) ==
    {"ambiguous", "timed_out"} \union
        {IF state = "landed" THEN "succeeded" ELSE "definitively_failed"}

\* Mutant: the executor sends an update that timed out again.
updateRetried(i) ==
    /\ inv[i].pc = "await"
    /\ child' = [child EXCEPT ![inv[i].op][inv[i].kind] = "running"]
    /\ spawns' = [spawns EXCEPT ![inv[i].op][inv[i].kind] = @ + 1]
    /\ UNCHANGED <<store, ledger, topology, touched, inv, overran, faults>>

updateEnds(i) ==
    LET o == inv[i].op
        k == inv[i].kind
    IN  /\ inv[i].pc = "await"
        /\ \E result \in ChildOutcomes(child[o][k]) :
               inv' = [inv EXCEPT ![i].pc = "record", ![i].result = result]
        /\ child' = [child EXCEPT ![o][k] = "none"]
        /\ UNCHANGED <<store, ledger, topology, touched, overran, spawns, faults>>

Awaited(o, k) == \E i \in Invs : inv[i].pc = "await" /\ inv[i].op = o /\ inv[i].kind = k

\* The wrapper of a process that died ends by itself.
orphanEnds(o, k) ==
    /\ child[o][k] # "none" /\ ~Awaited(o, k)
    /\ child' = [child EXCEPT ![o][k] = "none"]
    /\ UNCHANGED <<store, ledger, topology, inv, overran, touched, spawns, faults>>

recordCapabilityMutationDispatchOutcome(i) ==
    LET o == inv[i].op
        k == inv[i].kind
        result == IF ledger[o][k] = "dispatched" THEN inv[i].result ELSE "ambiguous"
    IN  /\ inv[i].pc = "record"
        /\ ledger' = [ledger EXCEPT ![o][k] = IF @ = "dispatched" THEN result ELSE @]
        /\ Proceed(i, handleUpdateResult(Decided(i), ModeOf[o], k, result))
        /\ UNCHANGED <<store, remote, overran, faults>>

\* A store refuses: its lock is held by another process, or what the invocation holds
\* is stale.  The invocation returns and leaves the operation and its lease as they are.
refused(i) ==
    /\ \/ inv[i].pc \in {"persist", "renew"} /\ ~Owns(i) /\ UNCHANGED faults
       \/ inv[i].pc \in {"recover", "reserve"} /\ ~inv[i].fresh /\ UNCHANGED faults
       \/ inv[i].pc = "release" /\ ~(inv[i].fresh /\ lease[inv[i].op] = i /\ inForce[inv[i].op])
          /\ UNCHANGED faults
       \/ inv[i].pc \in {"acquire", "recover", "persist", "release", "renew", "record"} /\ Fault
    /\ Return(i)
    /\ UNCHANGED <<store, ledger, remote, overran>>

crash(i) ==
    /\ inv[i].pc # "idle" /\ Fault
    /\ Return(i)
    /\ UNCHANGED <<store, ledger, remote, overran>>

-----------------------------------------------------------------------------
Holder(o) == \E i \in Invs : lease[o] = i /\ inv[i].op = o

\* Leases outlive the calls they cover; one that expires under a live invocation (a
\* suspended machine) is a fault.  A synchronous stretch is shorter than a lease.
leaseExpires(o) ==
    /\ lease[o] # NoInv /\ inForce[o]
    /\ Suspends \/ \A i \in Invs : inv[i].pc # "acquire"
    /\ IF Holder(o) THEN Fault ELSE UNCHANGED faults
    /\ inForce' = [inForce EXCEPT ![o] = FALSE]
    /\ overran' = \/ overran
                  \/ \E k \in Kinds : child[o][k] # "none"
                  \/ \E i \in Invs : inv[i].op = o /\ inv[i].pc = "consume"
    /\ UNCHANGED <<ops, lease, lapsed, ledger, remote, inv>>

confirmationLapses(o) ==
    /\ ops[o].status = "prepared" /\ ~lapsed[o]
    /\ lapsed' = [lapsed EXCEPT ![o] = TRUE]
    /\ UNCHANGED <<ops, lease, inForce, ledger, remote, inv, overran, faults>>

Invocation(i) ==
    \/ acquireAfterConfirmation(i) \/ recoverDecision(i)
    \/ transitionCapabilityOperation(i) \/ releaseCapabilityOperationLease(i)
    \/ reserveCapabilityMutationDispatch(i) \/ renewCapabilityOperationLease(i)
    \/ readWorkflow(i) \/ consumeCapabilityMutationDispatch(i) \/ executorBlocks(i)
    \/ updateEnds(i) \/ recordCapabilityMutationDispatchOutcome(i) \/ refused(i)

MigNext ==
    \/ \E i \in Invs : Invocation(i) \/ crash(i)
    \/ \E i \in Invs, o \in Ops :
           consumeCapabilityOperationConfirmation(i, o) \/ executeControlledWorkflowMigration(i, o)
    \/ \E o \in Ops : prepareControlledWorkflowMigration(o) \/ leaseExpires(o) \/ confirmationLapses(o)
    \/ \E o \in Ops, k \in Kinds : updateLands(o, k) \/ orphanEnds(o, k)

MigSpec == MigInit /\ [][MigNext]_migVars

\* An invocation runs to its end unless its process dies, a wrapper ends, a lease
\* expires, and the caller asks again while the operation is not settled.
FairMigSpec ==
    /\ MigSpec
    /\ \A i \in Invs : WF_migVars(Invocation(i))
    /\ \A o \in Ops : /\ WF_migVars(leaseExpires(o))
                      /\ WF_migVars(\E k \in Kinds : orphanEnds(o, k))
                      /\ WF_migVars(\E i \in Invs : executeControlledWorkflowMigration(i, o))

-----------------------------------------------------------------------------
Settled(o) == ops[o].status \in TERMINAL_STATUSES

\* The stores, the wrapper processes and the invocations keep their types.
MigTypeOK ==
    /\ ops \in [Ops -> Operation]
    /\ lease \in [Ops -> Invs \union {NoInv}]
    /\ inForce \in [Ops -> BOOLEAN]
    /\ lapsed \in [Ops -> BOOLEAN]
    /\ ledger \in [Ops -> [Kinds -> {"none", "reserved", "dispatched", "reconciliation_required"}
                                        \union Outcomes]]
    /\ child \in [Ops -> [Kinds -> {"none", "running", "landed"}]]
    /\ topology \in Topologies
    /\ inv \in [Invs -> [op : Ops \union {NoOp},
                         pc : {"idle", "acquire", "recover", "persist", "release", "reserve",
                               "renew", "read", "consume", "await", "record"},
                         fresh : BOOLEAN,
                         decision : [next : Operation, effect : Effects],
                         kind : Kinds \union {"none"},
                         result : Results]]
    /\ overran \in BOOLEAN
    /\ touched \in SUBSET (Ops \X Kinds)
    /\ spawns \in [Ops -> [Kinds -> Nat]]
    /\ faults \in 0 .. MaxFaults

\* Each update of an operation is sent to n8n at most once, whatever crashes, expired
\* leases, retried calls and concurrent invocations there are.
MutateOnce == \A o \in Ops, k \in Kinds : spawns[o][k] <= 1

\* While an update of one operation is under way no other operation holds the
\* workflow's lease, unless a lease expired under an update.
UpdatesAlone ==
    \A o, p \in Ops, k \in Kinds :
        child[o][k] # "none" /\ p # o /\ ~overran => ~(lease[p] # NoInv /\ inForce[p])

\* Once an operation is settled none of its updates is still under way, unless a lease
\* expired under one: the reported verdict is not overtaken by the operation itself.
SettledQuiet ==
    \A o \in Ops, k \in Kinds : Settled(o) /\ ~overran => child[o][k] = "none"

\* An operation reported as failed has not changed the workflow, although the update
\* may have timed out, been cut short or been recovered from the ledger.
FailedUntouched ==
    \A o \in Ops, k \in Kinds : ops[o].status = "failed" => <<o, k>> \notin touched

\* The store's transition graph and the executor's legality check admit every decision
\* of the state machine that an owner of the operation is about to carry out, recovered
\* ones included.
HostAccepts ==
    \A i \in Invs :
        /\ inv[i].pc = "persist" /\ Owns(i)
           => isControlledWorkflowMigrationStateTransition(ops[inv[i].op].status,
                                                           inv[i].decision.next.status)
        /\ inv[i].pc \in {"renew", "read", "consume"} /\ Owns(i)
           => EffectLegal(ops[inv[i].op], ModeOf[inv[i].op], inv[i].decision.effect)

\* The verdict that is written is still true of the workflow when it is written,
\* although the reading it rests on was taken before an await.
VerdictTrue ==
    [][\A o \in Ops : ~Settled(o) /\ ~overran =>
           /\ ops'[o].status = "completed" => topology = "candidate"
           /\ ops'[o].status = "rolled_back" => topology = "rollback"]_migVars

\* A settled operation is never taken up again.
SettledForGood == [][\A o \in Ops : Settled(o) => ops'[o] = ops[o]]_migVars

\* A confirmed operation is settled as long as its owner keeps asking.
MigrationSettles == \A o \in Ops : ops[o].status = "queued" ~> Settled(o)
=============================================================================
