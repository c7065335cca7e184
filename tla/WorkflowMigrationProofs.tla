---------------------- MODULE WorkflowMigrationProofs ----------------------
(* Proofs about the controlled migration of a workflow: each update is sent   *)
(* once, updates of two operations never overlap unless a lease ran out under *)
(* one, an operation that failed has changed nothing, the host accepts every  *)
(* decision of the state machine, and a verdict is true when it is written.   *)
EXTENDS WorkflowMigration, TLAPS

\* An operation's own mark that one of its updates may be sent.
Marks(op, k) == IF k = "candidate" THEN op.candidate = 1 ELSE op.rollback = 1

Of(i, o, k, pcs) == inv[i].op = o /\ inv[i].kind = k /\ inv[i].pc \in pcs

\* An update is sent after its mark and its reservation, once, and what the ledger and
\* the invocation that waits for it know of its end is true.
SentOnce ==
    \A o \in Ops, k \in Kinds :
        /\ spawns[o][k] \in {0, 1}
        /\ ledger[o][k] \in {"none", "reserved"} => spawns[o][k] = 0
        /\ spawns[o][k] = 0 => child[o][k] = "none" /\ <<o, k>> \notin touched
        /\ spawns[o][k] = 1 => Marks(ops[o], k)
        /\ Marks(ops[o], k) => ledger[o][k] # "none"
        /\ child[o][k] = "running" => <<o, k>> \notin touched
        /\ ledger[o][k] = "definitively_failed" => child[o][k] = "none" /\ <<o, k>> \notin touched

ApplyEffect(effect) == effect \in {"apply_candidate", "apply_rollback"}

\* What an invocation that carries out an update has behind it.
CarriedBy(i) ==
    LET o == inv[i].op
        k == inv[i].kind
        d == inv[i].decision
    IN  /\ inv[i].pc # "idle" => o \in Ops
        /\ inv[i].pc \in {"persist", "renew"} /\ ApplyEffect(d.effect)
              => ledger[o][EffectKind(d.effect)] # "none"
        /\ inv[i].pc = "renew" => d.effect \in Reads \union {"apply_candidate", "apply_rollback"}
        /\ inv[i].pc = "persist" => d.effect # "none"
        /\ inv[i].pc = "read" => d.effect \in Reads
        /\ inv[i].pc \in {"consume", "await", "record"}
              => k \in Kinds /\ Marks(ops[o], k) /\ ledger[o][k] # "none"
                    /\ ApplyEffect(d.effect) /\ k = EffectKind(d.effect)
        /\ inv[i].pc \in {"await", "record"} => spawns[o][k] = 1
        /\ inv[i].pc = "await" => child[o][k] # "none"
        /\ inv[i].pc = "record" => inv[i].result \in Outcomes
        /\ inv[i].pc = "record" /\ inv[i].result = "definitively_failed"
              => child[o][k] = "none" /\ <<o, k>> \notin touched
Carried == \A i \in Invs : CarriedBy(i)

\* Two invocations never wait for one update.
AwaitedByOne ==
    \A i, j \in Invs :
        inv[i].pc = "await" /\ inv[j].pc = "await" /\ inv[i].op = inv[j].op /\ inv[i].kind = inv[j].kind
            => i = j

\* An invocation whose copy is current and whose proof the lease carries.
Current(i) == inv[i].op \in Ops /\ inv[i].fresh /\ lease[inv[i].op] = i
Held(o) == lease[o] # NoInv /\ inForce[o]

\* What every state of an operation satisfies.
Shape(op, mode) ==
    /\ op.status \in {"absent", "prepared", "queued"} => op.candidate = 0 /\ op.rollback = 0
    /\ mode = "rollback" => op.candidate = 0
    /\ mode = "apply" /\ op.status = "running" => op.rollback = 0
    /\ mode = "apply" /\ (op.rollback = 1 \/ op.status = "rolling_back")
          => op.candidate = 0 \/ op.mutation # "none"

\* What the effect of a decision finds when it is carried out.
Judged(op, mode, effect) ==
    /\ EffectLegal(op, mode, effect)
    /\ effect \in Reads \ {"read_precondition"} => op.candidate = 0 \/ op.mutation # "none"
    /\ ApplyEffect(effect) => Marks(op, EffectKind(effect))

\* A decision the store accepts for an operation.
Acceptable(op, mode, d) ==
    /\ Shape(d.next, mode)
    /\ isControlledWorkflowMigrationStateTransition(op.status, d.next.status)
    /\ Judged(d.next, mode, d.effect)
    /\ \A k \in Kinds : /\ Marks(op, k) => Marks(d.next, k)
                        /\ Marks(d.next, k) => Marks(op, k) \/ (ApplyEffect(d.effect) /\ EffectKind(d.effect) = k)

Shaped ==
    \A o \in Ops : /\ Shape(ops[o], ModeOf[o])
                   /\ lease[o] # NoInv => ops[o].status \notin {"absent", "prepared", "queued"}

\* The decision an owner of an operation is about to persist or to carry out.
DecidedBy(i) ==
    LET o == inv[i].op
        d == inv[i].decision
    IN  /\ inv[i].pc = "persist" => Acceptable(ops[o], ModeOf[o], d)
        /\ inv[i].pc \in {"reserve", "renew", "read", "consume", "await", "record"}
              => ops[o] = d.next /\ Judged(ops[o], ModeOf[o], d.effect)
Decisions == \A i \in Invs : Current(i) => DecidedBy(i)

\* The lease of a workflow is held for one operation at a time.
OneHolder == \A o, p \in Ops : Held(o) /\ Held(p) => o = p

\* Unless a lease ran out under an update, the update is covered by its lease, and the
\* invocation that holds the lease is waiting for it.
Covered ==
    ~overran =>
        /\ \A i \in Invs : inv[i].pc \in {"consume", "await"} => Current(i) /\ inForce[inv[i].op]
        /\ \A o \in Ops, k \in Kinds : child[o][k] # "none" =>
              /\ Held(o) /\ ~Settled(o)
              /\ \A j \in Invs : Current(j) /\ inv[j].op = o => inv[j].pc = "await" /\ inv[j].kind = k

\* A verdict that is about to be written is true.
Verdicts ==
    ~overran => \A i \in Invs :
        inv[i].pc = "persist" /\ Current(i) /\ inForce[inv[i].op] =>
            /\ inv[i].decision.next.status = "completed" => topology = "candidate"
            /\ inv[i].decision.next.status = "rolled_back" => topology = "rollback"

\* No update of the operation has reached the workflow, or ever will.
Sealed(o) ==
    \A k \in Kinds :
        /\ <<o, k>> \notin touched /\ child[o][k] = "none"
        /\ \A j \in Invs : Of(j, o, k, {"consume"}) => ledger[o][k] # "reserved"

FailedSealed ==
    /\ \A o \in Ops : ops[o].status = "failed" => Sealed(o)
    /\ \A i \in Invs : inv[i].pc = "persist" /\ Current(i) /\ inv[i].decision.next.status = "failed"
                          => Sealed(inv[i].op)

\* While a synchronous stretch is shorter than a lease.
NoLateAcquire ==
    ~Suspends => \A i \in Invs : inv[i].pc = "acquire" => ~ExpiredLease(inv[i].op)

MigInv ==
    /\ MigTypeOK /\ SentOnce /\ Carried /\ AwaitedByOne /\ Shaped /\ Decisions
    /\ OneHolder /\ Covered /\ Verdicts /\ FailedSealed /\ NoLateAcquire

-----------------------------------------------------------------------------
(* The portable state machine *)

Modes == {"apply", "rollback"}
Decision == [next : Operation, effect : Effects]

\* Two states of an operation that differ in their status and their readbacks only.
SameMarks(op, next) ==
    /\ next.candidate = op.candidate /\ next.rollback = op.rollback
    /\ next.mutation = op.mutation /\ next.undo = op.undo

LEMMA EndIs ==
    ASSUME NEW op \in Operation, NEW status \in Statuses
    PROVE  /\ End(op, status) \in Decision
           /\ End(op, status).effect = "release"
           /\ End(op, status).next.status = status
           /\ SameMarks(op, End(op, status).next)
  BY DEF End, Decide, Decision, Operation, Effects, SameMarks

LEMMA ReadBackIs ==
    ASSUME NEW op \in Operation, NEW status \in Statuses, NEW effect \in Effects
    PROVE  /\ ReadBack(op, status, effect) \in Decision
           /\ ReadBack(op, status, effect).effect = effect
           /\ ReadBack(op, status, effect).next.status = status
           /\ SameMarks(op, ReadBack(op, status, effect).next)
<1>. DEFINE next == [op EXCEPT !.status = status, !.readbacks = @ + 1]
<1>1. next \in Operation /\ next.status = status /\ SameMarks(op, next)
  <2>1. PICK n \in Nat : n = op.readbacks + 1
    BY DEF Operation
  <2>2. next = [op EXCEPT !.status = status, !.readbacks = n]
    BY <2>1
  <2>. HIDE DEF next
  <2>. QED  BY <2>2 DEF Operation, SameMarks
<1>2. ReadBack(op, status, effect) = [next |-> next, effect |-> effect]
  BY DEF ReadBack, Decide
<1>. HIDE DEF next
<1>. QED  BY <1>1, <1>2 DEF Decision

LEMMA NoChangeIs ==
    ASSUME NEW op \in Operation
    PROVE  noChange(op) \in Decision /\ noChange(op).effect = "none"
  BY DEF noChange, Decide, Decision, Effects

\* The effects each status allows, one by one.
LEMMA LegalEffects ==
    ASSUME NEW op, NEW mode
    PROVE  /\ EffectLegal(op, mode, "read_precondition")
                 <=> op.status = "running" /\ op.candidate = 0 /\ op.rollback = 0
           /\ EffectLegal(op, mode, "readback_rollback")
                 <=> \/ op.status = "rolling_back"
                     \/ op.status = "reconciling" /\ op.rollback = 1 /\ op.undo = "succeeded"
           /\ EffectLegal(op, mode, "readback_approved") <=> op.status = "reconciling"
           /\ EffectLegal(op, mode, "readback_candidate") <=> op.status = "reconciling" /\ mode = "apply"
           /\ EffectLegal(op, mode, "apply_candidate") <=> op.status = "running" /\ mode = "apply"
           /\ EffectLegal(op, mode, "apply_rollback") <=> standalone(op, mode) \/ automatic(op, mode)
           /\ EffectLegal(op, mode, "release")
           /\ EffectLegal(op, mode, "reserve_candidate") /\ EffectLegal(op, mode, "reserve_rollback")
  BY DEF EffectLegal

\* The transitions the store admits.
LEMMA LegalTransitions ==
    ASSUME NEW from, NEW to,
           \/ from = "running" /\ to \in {"running", "reconciling", "rolling_back", "completed", "failed",
                                          "manual_intervention_required"}
           \/ from = "reconciling" /\ to \in {"reconciling", "rolling_back", "completed", "rolled_back",
                                              "failed", "manual_intervention_required"}
           \/ from = "rolling_back" /\ to \in {"rolling_back", "reconciling", "rolled_back", "failed",
                                               "manual_intervention_required"}
    PROVE  isControlledWorkflowMigrationStateTransition(from, to)
  BY DEF isControlledWorkflowMigrationStateTransition, LEGAL_STATE_TRANSITIONS

\* A decision that leaves the marks as they are and moves along the graph is acceptable.
LEMMA MoveAccepted ==
    ASSUME NEW op \in Operation, NEW mode \in Modes, Shape(op, mode), NEW d \in Decision,
           d.next.candidate = op.candidate, d.next.rollback = op.rollback,
           d.next.mutation = op.mutation \/ d.next.mutation # "none",
           op.status \in Leased, d.next.status \notin {"absent", "prepared", "queued"},
           d.next.status = "running" => op.status = "running",
           d.next.status = "rolling_back" => d.next.candidate = 0 \/ d.next.mutation # "none",
           isControlledWorkflowMigrationStateTransition(op.status, d.next.status),
           Judged(d.next, mode, d.effect)
    PROVE  Acceptable(op, mode, d)
<1>1. Shape(d.next, mode)
  BY DEF Shape, Leased, Decision, Operation
<1>2. \A k \in Kinds : Marks(op, k) <=> Marks(d.next, k)
  BY DEF Marks
<1>. QED  BY <1>1, <1>2 DEF Acceptable

\* Ending an operation that is under way.
LEMMA EndAccepted ==
    ASSUME NEW op \in Operation, NEW mode \in Modes, Shape(op, mode), op.status \in Leased,
           NEW seen \in Operation, seen.candidate = op.candidate, seen.rollback = op.rollback,
           seen.mutation = op.mutation \/ seen.mutation # "none",
           NEW status \in {"failed", "manual_intervention_required"}
    PROVE  /\ End(seen, status) \in Decision
           /\ Acceptable(op, mode, End(seen, status))
           /\ End(seen, status).next.status = status
<1>1. status \in Statuses
  BY DEF Statuses, TERMINAL_STATUSES
<1>2. PICK d : d = End(seen, status)
  OBVIOUS
<1>3. /\ d \in Decision /\ d.effect = "release" /\ d.next.status = status /\ SameMarks(seen, d.next)
  BY <1>1, <1>2, EndIs
<1>4. isControlledWorkflowMigrationStateTransition(op.status, d.next.status)
  BY <1>3, LegalTransitions DEF Leased
<1>5. Judged(d.next, mode, d.effect)
  BY <1>3, LegalEffects DEF Judged, ApplyEffect, Marks, EffectKind, Reads
<1>6. Acceptable(op, mode, d)
  BY <1>3, <1>4, <1>5, MoveAccepted DEF SameMarks
<1>. QED  BY <1>2, <1>3, <1>6

\* Reading back an operation whose update, if it had one, has an outcome.
LEMMA ReadBackAccepted ==
    ASSUME NEW op \in Operation, NEW mode \in Modes, Shape(op, mode), op.status \in Leased,
           NEW seen \in Operation, seen.candidate = op.candidate, seen.rollback = op.rollback,
           seen.mutation = op.mutation \/ seen.mutation # "none",
           seen.candidate = 0 \/ seen.mutation # "none",
           NEW status, NEW effect,
           \/ status = "reconciling" /\ effect = "readback_approved"
           \/ status = "reconciling" /\ effect = "readback_candidate" /\ mode = "apply"
           \/ status = "rolling_back" /\ effect = "readback_rollback"
           \/ status = "reconciling" /\ effect = "readback_rollback" /\ seen.rollback = 1 /\ seen.undo = "succeeded"
    PROVE  /\ ReadBack(seen, status, effect) \in Decision
           /\ Acceptable(op, mode, ReadBack(seen, status, effect))
           /\ ReadBack(seen, status, effect).next.status = status
           /\ ReadBack(seen, status, effect).effect = effect
<1>1. status \in Statuses /\ effect \in Effects
  BY DEF Statuses, Effects
<1>2. PICK d : d = ReadBack(seen, status, effect)
  OBVIOUS
<1>3. /\ d \in Decision /\ d.effect = effect /\ d.next.status = status /\ SameMarks(seen, d.next)
  BY <1>1, <1>2, ReadBackIs
<1>4. isControlledWorkflowMigrationStateTransition(op.status, d.next.status)
  BY <1>3, LegalTransitions DEF Leased
<1>5. Judged(d.next, mode, d.effect)
  BY <1>3, LegalEffects DEF Judged, ApplyEffect, Marks, EffectKind, SameMarks
<1>6. Acceptable(op, mode, d)
  BY <1>3, <1>4, <1>5, MoveAccepted DEF SameMarks
<1>. QED  BY <1>2, <1>3, <1>6

\* A decision that has an effect: the store accepts it, and it is no verdict.
Sound(op, mode, d) ==
    /\ d \in Decision
    /\ d.effect # "none" => Acceptable(op, mode, d) /\ d.next.status \notin {"completed", "rolled_back"}

LEMMA NoChangeSound ==
    ASSUME NEW op \in Operation, NEW from, NEW mode
    PROVE  Sound(from, mode, noChange(op))
  BY NoChangeIs DEF Sound

LEMMA EndSound ==
    ASSUME NEW op \in Operation, NEW mode \in Modes, Shape(op, mode), op.status \in Leased,
           NEW seen \in Operation, seen.candidate = op.candidate, seen.rollback = op.rollback,
           seen.mutation = op.mutation \/ seen.mutation # "none",
           NEW status \in {"failed", "manual_intervention_required"}
    PROVE  Sound(op, mode, End(seen, status))
  BY EndAccepted DEF Sound

LEMMA ReadBackSound ==
    ASSUME NEW op \in Operation, NEW mode \in Modes, Shape(op, mode), op.status \in Leased,
           NEW seen \in Operation, seen.candidate = op.candidate, seen.rollback = op.rollback,
           seen.mutation = op.mutation \/ seen.mutation # "none",
           seen.candidate = 0 \/ seen.mutation # "none",
           NEW status, NEW effect,
           \/ status = "reconciling" /\ effect = "readback_approved"
           \/ status = "reconciling" /\ effect = "readback_candidate" /\ mode = "apply"
           \/ status = "rolling_back" /\ effect = "readback_rollback"
           \/ status = "reconciling" /\ effect = "readback_rollback" /\ seen.rollback = 1 /\ seen.undo = "succeeded"
    PROVE  Sound(op, mode, ReadBack(seen, status, effect))
  BY ReadBackAccepted DEF Sound

\* Recording the outcome of an update.
LEMMA SeenIs ==
    ASSUME NEW op \in Operation, NEW result \in Results
    PROVE  /\ [op EXCEPT !.mutation = result] \in Operation
           /\ [op EXCEPT !.mutation = result].candidate = op.candidate
           /\ [op EXCEPT !.mutation = result].rollback = op.rollback
           /\ [op EXCEPT !.mutation = result].mutation = result
           /\ [op EXCEPT !.undo = result] \in Operation
           /\ [op EXCEPT !.undo = result].candidate = op.candidate
           /\ [op EXCEPT !.undo = result].rollback = op.rollback
           /\ [op EXCEPT !.undo = result].mutation = op.mutation
           /\ [op EXCEPT !.undo = result].undo = result
  BY DEF Operation

LEMMA StatusIs ==
    ASSUME NEW op \in Operation, NEW status \in Statuses
    PROVE  /\ [op EXCEPT !.status = status] \in Operation
           /\ [op EXCEPT !.status = status].status = status
           /\ SameMarks(op, [op EXCEPT !.status = status])
  BY DEF Operation, SameMarks

LEMMA StatusNames ==
    /\ Leased \subseteq Statuses /\ TERMINAL_STATUSES \subseteq Statuses
    /\ {"absent", "prepared", "queued"} \subseteq Statuses
    /\ Leased \cap TERMINAL_STATUSES = {}
    /\ Outcomes \subseteq Results /\ "not_started" \in Results
  BY DEF Leased, TERMINAL_STATUSES, Statuses, Outcomes, Results

LEMMA PreconditionTyped ==
    ASSUME NEW op \in Operation, NEW mode \in Modes, NEW result
    PROVE  handlePreconditionReadback(op, mode, result) \in Decision
<1>1. End(op, "failed") \in Decision
  BY EndIs DEF Statuses, TERMINAL_STATUSES
<1>2. Decide(op, "reserve_candidate") \in Decision /\ Decide(op, "reserve_rollback") \in Decision
  BY DEF Decide, Decision, Effects
<1>. QED  BY <1>1, <1>2, NoChangeIs DEF handlePreconditionReadback

LEMMA PreconditionSound ==
    ASSUME NEW op \in Operation, NEW mode \in Modes, Shape(op, mode), NEW result
    PROVE  Sound(op, mode, handlePreconditionReadback(op, mode, result))
<1>1. CASE op.status # "running" \/ op.candidate # 0 \/ op.rollback # 0
  BY <1>1, NoChangeSound DEF handlePreconditionReadback
<1>2. CASE op.status = "running" /\ op.candidate = 0 /\ op.rollback = 0 /\ result # "matches_pre_mutation"
  <2>1. Sound(op, mode, End(op, "failed"))
    BY <1>2, EndSound DEF Leased
  <2>. QED  BY <1>2, <2>1 DEF handlePreconditionReadback
<1>3. CASE op.status = "running" /\ op.candidate = 0 /\ op.rollback = 0 /\ result = "matches_pre_mutation"
  <2>1. PICK effect \in {"reserve_candidate", "reserve_rollback"} :
            handlePreconditionReadback(op, mode, result) = Decide(op, effect)
    BY <1>3 DEF handlePreconditionReadback
  <2>2. PICK d : d = Decide(op, effect)
    OBVIOUS
  <2>3. d \in Decision /\ d.next = op /\ d.effect = effect
    BY <2>2 DEF Decide, Decision, Effects
  <2>4. Judged(d.next, mode, d.effect)
    BY <2>3, LegalEffects DEF Judged, ApplyEffect, Marks, EffectKind, Reads
  <2>5. isControlledWorkflowMigrationStateTransition(op.status, d.next.status)
    BY <1>3, <2>3, LegalTransitions
  <2>6. Acceptable(op, mode, d)
    BY <1>3, <2>3, <2>4, <2>5, MoveAccepted DEF Leased
  <2>. QED  BY <1>3, <2>1, <2>2, <2>3, <2>6 DEF Sound
<1>. QED  BY <1>1, <1>2, <1>3

LEMMA ReservedTyped ==
    ASSUME NEW op \in Operation, NEW mode \in Modes, NEW kind \in Kinds, NEW reserved \in BOOLEAN
    PROVE  handleDispatchReserved(op, mode, kind, reserved) \in Decision
<1>1. End(op, "manual_intervention_required") \in Decision
  BY EndIs DEF Statuses, TERMINAL_STATUSES
<1>2. /\ Decide([op EXCEPT !.candidate = 1], "apply_candidate") \in Decision
      /\ Decide([op EXCEPT !.rollback = 1], "apply_rollback") \in Decision
  BY DEF Decide, Decision, Effects, Operation
<1>. QED  BY <1>1, <1>2, NoChangeIs DEF handleDispatchReserved, Kinds

\* Reserving: the update is marked, or the operation is given up.
LEMMA ReservedSound ==
    ASSUME NEW op \in Operation, NEW mode \in Modes, Shape(op, mode),
           NEW kind \in Kinds, NEW reserved \in BOOLEAN
    PROVE  /\ Sound(op, mode, handleDispatchReserved(op, mode, kind, reserved))
           /\ handleDispatchReserved(op, mode, kind, reserved).effect
                 \in {"none", "release", IF kind = "candidate" THEN "apply_candidate" ELSE "apply_rollback"}
           /\ handleDispatchReserved(op, mode, kind, reserved).effect # "none"
                 => handleDispatchReserved(op, mode, kind, reserved).next.status # "failed"
           /\ ~reserved => ~ApplyEffect(handleDispatchReserved(op, mode, kind, reserved).effect)
<1>. DEFINE eligible == IF kind = "candidate"
                        THEN op.status = "running" /\ mode = "apply" /\ op.candidate = 0
                        ELSE (standalone(op, mode) \/ automatic(op, mode)) /\ op.rollback = 0
<1>1. CASE ~eligible
  <2>1. handleDispatchReserved(op, mode, kind, reserved) = noChange(op)
    BY <1>1 DEF handleDispatchReserved, Kinds
  <2>. QED  BY <2>1, NoChangeSound, NoChangeIs DEF ApplyEffect
<1>2. CASE eligible /\ ~reserved
  <2>1. handleDispatchReserved(op, mode, kind, reserved) = End(op, "manual_intervention_required")
    BY <1>2 DEF handleDispatchReserved, Kinds
  <2>2. op.status \in Leased
    BY <1>2 DEF standalone, automatic, Leased
  <2>3. Sound(op, mode, End(op, "manual_intervention_required"))
    BY <2>2, EndSound
  <2>4. /\ End(op, "manual_intervention_required").effect = "release"
        /\ End(op, "manual_intervention_required").next.status = "manual_intervention_required"
    BY EndIs DEF Statuses, TERMINAL_STATUSES
  <2>. QED  BY <2>1, <2>3, <2>4 DEF ApplyEffect
<1>3. CASE eligible /\ reserved /\ kind = "candidate"
  <2>1. PICK d : d = handleDispatchReserved(op, mode, kind, reserved)
    OBVIOUS
  <2>2. d = Decide([op EXCEPT !.candidate = 1], "apply_candidate")
    BY <1>3, <2>1 DEF handleDispatchReserved
  <2>3. /\ d \in Decision /\ d.effect = "apply_candidate" /\ d.next.status = op.status
        /\ d.next.candidate = 1 /\ d.next.rollback = op.rollback
    BY <2>2 DEF Decide, Decision, Effects, Operation
  <2>4. Shape(d.next, mode)
    BY <1>3, <2>3 DEF Shape
  <2>5. isControlledWorkflowMigrationStateTransition(op.status, d.next.status)
    BY <1>3, <2>3, LegalTransitions
  <2>6. Judged(d.next, mode, d.effect)
    BY <1>3, <2>3, LegalEffects DEF Judged, ApplyEffect, Marks, EffectKind, Reads
  <2>7. \A k \in Kinds : /\ Marks(op, k) => Marks(d.next, k)
                         /\ Marks(d.next, k) => Marks(op, k) \/ (ApplyEffect(d.effect) /\ EffectKind(d.effect) = k)
    BY <2>3 DEF Marks, ApplyEffect, EffectKind, Kinds
  <2>. QED  BY <1>3, <2>1, <2>3, <2>4, <2>5, <2>6, <2>7 DEF Sound, Acceptable
<1>4. CASE eligible /\ reserved /\ kind = "rollback"
  <2>1. PICK d : d = handleDispatchReserved(op, mode, kind, reserved)
    OBVIOUS
  <2>2. d = Decide([op EXCEPT !.rollback = 1], "apply_rollback")
    BY <1>4, <2>1 DEF handleDispatchReserved
  <2>3. /\ d \in Decision /\ d.effect = "apply_rollback" /\ d.next.status = op.status
        /\ d.next.candidate = op.candidate /\ d.next.rollback = 1 /\ d.next.mutation = op.mutation
    BY <2>2 DEF Decide, Decision, Effects, Operation
  <2>4. Shape(d.next, mode)
    BY <1>4, <2>3 DEF Shape, standalone, automatic
  <2>5. isControlledWorkflowMigrationStateTransition(op.status, d.next.status)
    BY <1>4, <2>3, LegalTransitions DEF standalone, automatic
  <2>6. Judged(d.next, mode, d.effect)
    BY <1>4, <2>3, LegalEffects DEF Judged, ApplyEffect, Marks, EffectKind, Reads, standalone, automatic
  <2>7. \A k \in Kinds : /\ Marks(op, k) => Marks(d.next, k)
                         /\ Marks(d.next, k) => Marks(op, k) \/ (ApplyEffect(d.effect) /\ EffectKind(d.effect) = k)
    BY <2>3 DEF Marks, ApplyEffect, EffectKind, Kinds
  <2>. QED  BY <1>4, <2>1, <2>3, <2>4, <2>5, <2>6, <2>7 DEF Sound, Acceptable, standalone, automatic
<1>. QED  BY <1>1, <1>2, <1>3, <1>4 DEF Kinds

\* Decisions after which an operation counts as failed.
Fails(d) == d.effect # "none" /\ d.next.status = "failed"
Untried == {"not_started", "definitively_failed"}

\* The outcome of an update, as the state machine takes it from an operation that is in
\* the state the update was sent in; the store has the operation in the state from.
LEMMA MutationSound ==
    ASSUME NEW op \in Operation, NEW mode \in Modes, NEW result \in Results \ {"none"}
    PROVE  /\ handleMutationResult(op, mode, result) \in Decision
           /\ ~ApplyEffect(handleMutationResult(op, mode, result).effect)
           /\ Fails(handleMutationResult(op, mode, result))
                 => result \in Untried /\ mode = "apply" /\ op.status = "running"
           /\ \A from \in Operation :
                 /\ from.status \in {"running", "reconciling"} /\ Shape(from, mode)
                 /\ from.candidate = op.candidate /\ from.rollback = op.rollback
                 => Sound(from, mode, handleMutationResult(op, mode, result))
<1>. DEFINE seen == [op EXCEPT !.mutation = result]
            d == handleMutationResult(op, mode, result)
<1>0. /\ seen \in Operation /\ seen.candidate = op.candidate /\ seen.rollback = op.rollback
      /\ seen.mutation # "none"
  BY SeenIs
<1>1. CASE op.status # "running" \/ mode # "apply" \/ op.candidate # 1
  <2>1. d = noChange(op)
    BY <1>1 DEF handleMutationResult
  <2>. QED  BY <2>1, NoChangeIs, NoChangeSound DEF Fails, ApplyEffect
<1>2. CASE op.status = "running" /\ mode = "apply" /\ op.candidate = 1 /\ result \in Untried
  <2>1. d = End(seen, "failed")
    BY <1>2 DEF handleMutationResult, Untried
  <2>2. d \in Decision /\ d.effect = "release"
    BY <1>0, <2>1, EndIs DEF Statuses, TERMINAL_STATUSES
  <2>3. ASSUME NEW from \in Operation, from.status \in {"running", "reconciling"}, Shape(from, mode),
               from.candidate = op.candidate, from.rollback = op.rollback
        PROVE  Sound(from, mode, End(seen, "failed"))
    <3>1. from.status \in Leased
      BY <2>3 DEF Leased
    <3>. HIDE DEF seen
    <3>. QED  BY <1>0, <2>3, <3>1, EndSound
  <2>. QED  BY <1>2, <2>1, <2>2, <2>3 DEF ApplyEffect
<1>3. CASE op.status = "running" /\ mode = "apply" /\ op.candidate = 1 /\ result \notin Untried
  <2>1. PICK effect \in {"readback_candidate", "readback_approved"} : d = ReadBack(seen, "reconciling", effect)
    BY <1>3 DEF handleMutationResult, Untried
  <2>2. d \in Decision /\ d.effect = effect /\ d.next.status = "reconciling"
    BY <1>0, <2>1, ReadBackIs DEF Statuses, Effects
  <2>3. ASSUME NEW from \in Operation, from.status \in {"running", "reconciling"}, Shape(from, mode),
               from.candidate = op.candidate, from.rollback = op.rollback
        PROVE  Sound(from, mode, ReadBack(seen, "reconciling", effect))
    <3>1. from.status \in Leased
      BY <2>3 DEF Leased
    <3>. HIDE DEF seen
    <3>. QED  BY <1>0, <1>3, <2>3, <3>1, ReadBackSound
  <2>. QED  BY <1>3, <2>1, <2>2, <2>3 DEF ApplyEffect, Fails
<1>. QED  BY <1>1, <1>2, <1>3

LEMMA RollbackSound ==
    ASSUME NEW op \in Operation, NEW mode \in Modes, NEW result \in Results \ {"none"}
    PROVE  /\ handleRollbackResult(op, mode, result) \in Decision
           /\ ~ApplyEffect(handleRollbackResult(op, mode, result).effect)
           /\ Fails(handleRollbackResult(op, mode, result)) => result \in Untried /\ mode = "rollback"
           /\ \A from \in Operation :
                 /\ from.status \in Leased /\ Shape(from, mode)
                 /\ from.candidate = op.candidate /\ from.rollback = op.rollback
                 /\ from.mutation = op.mutation
                 => Sound(from, mode, handleRollbackResult(op, mode, result))
<1>. DEFINE seen == [op EXCEPT !.undo = result]
            d == handleRollbackResult(op, mode, result)
            eligible == (standalone(op, mode) \/ automatic(op, mode)) /\ op.rollback = 1
<1>0. /\ seen \in Operation /\ seen.candidate = op.candidate /\ seen.rollback = op.rollback
      /\ seen.mutation = op.mutation
  BY SeenIs
<1>1. CASE ~eligible
  <2>1. d = noChange(op)
    BY <1>1 DEF handleRollbackResult
  <2>. QED  BY <2>1, NoChangeIs, NoChangeSound DEF Fails, ApplyEffect
<1>2. CASE eligible
  <2>1. \/ d = ReadBack(seen, "rolling_back", "readback_rollback")
        \/ d = End(seen, "manual_intervention_required")
        \/ mode = "rollback" /\ d = ReadBack(seen, "reconciling", "readback_approved")
        \/ mode = "rollback" /\ result \in Untried /\ d = End(seen, "failed")
    BY <1>2 DEF handleRollbackResult, standalone, automatic, Untried, Results, Outcomes
  <2>2. /\ ReadBack(seen, "rolling_back", "readback_rollback") \in Decision
        /\ ReadBack(seen, "rolling_back", "readback_rollback").effect = "readback_rollback"
        /\ ReadBack(seen, "rolling_back", "readback_rollback").next.status = "rolling_back"
        /\ ReadBack(seen, "reconciling", "readback_approved") \in Decision
        /\ ReadBack(seen, "reconciling", "readback_approved").effect = "readback_approved"
        /\ ReadBack(seen, "reconciling", "readback_approved").next.status = "reconciling"
    BY <1>0, ReadBackIs DEF Statuses, Effects
  <2>3. /\ End(seen, "manual_intervention_required") \in Decision
        /\ End(seen, "manual_intervention_required").effect = "release"
        /\ End(seen, "manual_intervention_required").next.status = "manual_intervention_required"
        /\ End(seen, "failed") \in Decision /\ End(seen, "failed").effect = "release"
    BY <1>0, EndIs DEF Statuses, TERMINAL_STATUSES
  <2>4. ASSUME NEW from \in Operation, from.status \in Leased, Shape(from, mode),
               from.candidate = op.candidate, from.rollback = op.rollback, from.mutation = op.mutation
        PROVE  Sound(from, mode, d)
    <3>1. op.candidate = 0 \/ op.mutation # "none"
      BY <1>2, <2>4 DEF Shape, Modes
    <3>. HIDE DEF seen
    <3>2. /\ Sound(from, mode, End(seen, "manual_intervention_required"))
          /\ Sound(from, mode, End(seen, "failed"))
      BY <1>0, <2>4, EndSound
    <3>3. /\ Sound(from, mode, ReadBack(seen, "rolling_back", "readback_rollback"))
          /\ Sound(from, mode, ReadBack(seen, "reconciling", "readback_approved"))
      BY <1>0, <2>4, <3>1, ReadBackSound
    <3>. QED  BY <2>1, <3>2, <3>3
  <2>. HIDE DEF seen, d
  <2>5. d \in Decision /\ ~ApplyEffect(d.effect) /\ (Fails(d) => result \in Untried /\ mode = "rollback")
    BY <2>1, <2>2, <2>3 DEF Fails, ApplyEffect
  <2>. QED  BY <2>4, <2>5 DEF d
<1>. QED  BY <1>1, <1>2

\* Either update, as the invocation that sent it, or one that recovers it, takes it.
LEMMA UpdateSound ==
    ASSUME NEW op \in Operation, NEW mode \in Modes, NEW kind \in Kinds, NEW result \in Results \ {"none"}
    PROVE  /\ handleUpdateResult(op, mode, kind, result) \in Decision
           /\ ~ApplyEffect(handleUpdateResult(op, mode, kind, result).effect)
           /\ Fails(handleUpdateResult(op, mode, kind, result))
                 => result \in Untried /\ mode = (IF kind = "candidate" THEN "apply" ELSE "rollback")
           /\ Shape(op, mode) /\ op.status \in Leased
                 => Sound(op, mode, handleUpdateResult(op, mode, kind, result))
<1>1. CASE kind = "candidate"
  <2>1. handleUpdateResult(op, mode, kind, result) = handleMutationResult(op, mode, result)
    BY <1>1 DEF handleUpdateResult
  <2>2. op.status # "running" => Sound(op, mode, handleMutationResult(op, mode, result))
    BY NoChangeSound DEF handleMutationResult
  <2>. QED  BY <1>1, <2>1, <2>2, MutationSound
<1>2. CASE kind = "rollback"
  <2>1. handleUpdateResult(op, mode, kind, result) = handleRollbackResult(op, mode, result)
    BY <1>2 DEF handleUpdateResult
  <2>. QED  BY <1>2, <2>1, RollbackSound
<1>. QED  BY <1>1, <1>2 DEF Kinds

\* A reading of the workflow is reported as what it is; only the precondition is ever
\* reported as met.
LEMMA ObservedTrue ==
    ASSUME NEW effect, NEW mode, NEW seen
    PROVE  LET result == observedReadbackResult(effect, mode, seen)
           IN  /\ result = "matches_candidate" => seen = "candidate"
               /\ result = "matches_rollback" => seen = "rollback"
               /\ effect # "read_precondition" => result # "matches_pre_mutation"
<1>. DEFINE Approved == [matches_candidate |-> "candidate", matches_rollback |-> "rollback",
                         matches_pre_mutation |-> "rollback"]
            rollbackFirst == effect = "readback_rollback" \/ (mode = "rollback" /\ effect = "readback_approved")
            ordered == IF effect = "read_precondition"
                       THEN <<"matches_pre_mutation", "matches_candidate", "matches_rollback">>
                       ELSE IF rollbackFirst
                       THEN <<"matches_rollback", "matches_candidate", "matches_pre_mutation">>
                       ELSE <<"matches_candidate", "matches_rollback", "matches_pre_mutation">>
            matching == {n \in 1 .. 3 : Approved[ordered[n]] = seen}
            first == CHOOSE n \in matching : \A m \in matching : n <= m
            result == observedReadbackResult(effect, mode, seen)
<1>1. result = IF matching = {} THEN "unexpected_state" ELSE ordered[first]
  BY DEF observedReadbackResult
<1>2. CASE matching = {}
  BY <1>1, <1>2
<1>3. CASE matching # {}
  <2>1. matching \subseteq 1 .. 3
    OBVIOUS
  <2>2. \E n \in matching : \A m \in matching : n <= m
    <3>. HIDE DEF matching
    <3>1. CASE 1 \in matching
      BY <2>1, <3>1
    <3>2. CASE 1 \notin matching /\ 2 \in matching
      BY <2>1, <3>2
    <3>3. CASE 1 \notin matching /\ 2 \notin matching
      <4>1. \A m \in 1 .. 3 : m = 1 \/ m = 2 \/ m = 3
        OBVIOUS
      <4>2. \A m \in matching : m = 3
        BY <2>1, <3>3, <4>1
      <4>3. matching # {}
        BY <1>3
      <4>. QED  BY <4>2, <4>3
    <3>. QED  BY <3>1, <3>2, <3>3
  <2>3. first \in matching /\ \A m \in matching : first <= m
    <3>. HIDE DEF matching
    <3>. QED  BY <2>2
  <2>4. PICK n \in 1 .. 3 : n = first
    BY <2>1, <2>3
  <2>5. Approved[ordered[n]] = seen /\ result = ordered[n] /\ \A m \in 1 .. 3 : Approved[ordered[m]] = seen => n <= m
    BY <1>1, <1>3, <2>3, <2>4
  <2>6. n = 1 \/ n = 2 \/ n = 3
    BY <2>4
  <2>7. /\ Approved["matches_candidate"] = "candidate" /\ Approved["matches_rollback"] = "rollback"
        /\ Approved["matches_pre_mutation"] = "rollback"
    OBVIOUS
  <2>8. ASSUME effect # "read_precondition" PROVE result # "matches_pre_mutation"
    <3>1. ordered \in {<<"matches_rollback", "matches_candidate", "matches_pre_mutation">>,
                       <<"matches_candidate", "matches_rollback", "matches_pre_mutation">>}
      BY <2>8
    <3>2. /\ ordered[1] \in {"matches_rollback", "matches_candidate"}
          /\ ordered[2] \in {"matches_rollback", "matches_candidate"}
          /\ ordered[1] # ordered[2]
      BY <3>1
    <3>. HIDE DEF ordered, Approved, first, matching, result
    <3>3. SUFFICES ASSUME result = "matches_pre_mutation" PROVE FALSE
      OBVIOUS
    <3>4. n = 3 /\ seen = "rollback"
      BY <2>5, <2>6, <2>7, <3>2, <3>3
    <3>5. ordered[1] = "matches_rollback" \/ ordered[2] = "matches_rollback"
      BY <3>2
    <3>. QED  BY <2>5, <2>7, <3>4, <3>5
  <2>. HIDE DEF ordered, Approved, first, matching, result
  <2>9. /\ result = "matches_candidate" => seen = "candidate"
        /\ result = "matches_rollback" => seen = "rollback"
    BY <2>5, <2>7
  <2>. QED  BY <2>8, <2>9 DEF result
<1>. QED  BY <1>2, <1>3

\* A verdict, a failure or a rollback follows from a reading.
LEMMA ReadbackSound ==
    ASSUME NEW op \in Operation, NEW mode \in Modes, NEW result
    PROVE  LET d == handleReadbackResult(op, mode, result)
           IN  /\ d \in Decision
               /\ ~ApplyEffect(d.effect)
               /\ d.effect # "none" /\ d.next.status = "completed" => result = "matches_candidate"
               /\ d.effect # "none" /\ d.next.status = "rolled_back" => result = "matches_rollback"
               /\ Fails(d) => result = "matches_pre_mutation"
               /\ d.effect # "none" /\ Shape(op, mode) /\ (op.candidate = 0 \/ op.mutation # "none")
                     => Acceptable(op, mode, d)
<1>. DEFINE d == handleReadbackResult(op, mode, result)
<1>1. CASE op.status \notin {"reconciling", "rolling_back"}
  <2>1. d = noChange(op)
    BY <1>1 DEF handleReadbackResult
  <2>. QED  BY <2>1, NoChangeIs DEF Fails, ApplyEffect
<1>2. CASE op.status \in {"reconciling", "rolling_back"}
  <2>1. \/ /\ d = Decide([op EXCEPT !.status = "rolling_back"], "reserve_rollback")
           /\ op.status = "reconciling"
        \/ \E status \in {"completed", "rolled_back", "failed", "manual_intervention_required"} :
              /\ d = End(op, status)
              /\ status = "completed" => result = "matches_candidate" /\ op.status = "reconciling"
              /\ status = "rolled_back" => result = "matches_rollback"
              /\ status = "failed" => result = "matches_pre_mutation"
    BY <1>2 DEF handleReadbackResult
  <2>2. CASE /\ d = Decide([op EXCEPT !.status = "rolling_back"], "reserve_rollback")
             /\ op.status = "reconciling"
    <3>1. PICK e : e = d
      OBVIOUS
    <3>2. /\ e \in Decision /\ e.effect = "reserve_rollback" /\ e.next.status = "rolling_back"
          /\ SameMarks(op, e.next)
      <4>1. PICK next : next = [op EXCEPT !.status = "rolling_back"]
        OBVIOUS
      <4>2. next \in Operation /\ next.status = "rolling_back" /\ SameMarks(op, next)
        BY <4>1, StatusIs DEF Statuses
      <4>3. e = [next |-> next, effect |-> "reserve_rollback"]
        BY <2>2, <3>1, <4>1 DEF Decide
      <4>. QED  BY <4>2, <4>3 DEF Decision, Effects
    <3>3. Judged(e.next, mode, e.effect)
      BY <3>2, LegalEffects DEF Judged, ApplyEffect, Marks, EffectKind, Reads
    <3>4. isControlledWorkflowMigrationStateTransition(op.status, e.next.status)
      BY <2>2, <3>2, LegalTransitions
    <3>5. Shape(op, mode) /\ (op.candidate = 0 \/ op.mutation # "none") => Acceptable(op, mode, e)
      BY <2>2, <3>2, <3>3, <3>4, MoveAccepted DEF SameMarks, Leased
    <3>. QED  BY <3>1, <3>2, <3>5 DEF Fails, ApplyEffect
  <2>3. ASSUME NEW status \in {"completed", "rolled_back", "failed", "manual_intervention_required"},
               d = End(op, status),
               status = "completed" => result = "matches_candidate" /\ op.status = "reconciling",
               status = "rolled_back" => result = "matches_rollback",
               status = "failed" => result = "matches_pre_mutation"
        PROVE  /\ d \in Decision
               /\ ~ApplyEffect(d.effect)
               /\ d.effect # "none" /\ d.next.status = "completed" => result = "matches_candidate"
               /\ d.effect # "none" /\ d.next.status = "rolled_back" => result = "matches_rollback"
               /\ Fails(d) => result = "matches_pre_mutation"
               /\ d.effect # "none" /\ Shape(op, mode) /\ (op.candidate = 0 \/ op.mutation # "none")
                     => Acceptable(op, mode, d)
    <3>1. PICK e : e = d
      OBVIOUS
    <3>2. /\ e \in Decision /\ e.effect = "release" /\ e.next.status = status /\ SameMarks(op, e.next)
      BY <2>3, <3>1, EndIs, StatusNames DEF TERMINAL_STATUSES
    <3>3. Judged(e.next, mode, e.effect)
      BY <3>2, LegalEffects DEF Judged, ApplyEffect, Marks, EffectKind, Reads
    <3>4. isControlledWorkflowMigrationStateTransition(op.status, e.next.status)
      BY <1>2, <2>3, <3>2, LegalTransitions
    <3>5. Shape(op, mode) => Acceptable(op, mode, e)
      BY <1>2, <3>2, <3>3, <3>4, MoveAccepted DEF SameMarks, Leased
    <3>. HIDE DEF d
    <3>. QED  BY <2>3, <3>1, <3>2, <3>5 DEF Fails, ApplyEffect
  <2>. QED  BY <2>1, <2>2, <2>3
<1>. QED  BY <1>1, <1>2

LEMMA ResumeSound ==
    ASSUME NEW op \in Operation, NEW mode \in Modes
    PROVE  /\ handleRecoveryResume(op) \in Decision
           /\ ~ApplyEffect(handleRecoveryResume(op).effect)
           /\ ~Fails(handleRecoveryResume(op))
           /\ Shape(op, mode) /\ (op.candidate = 0 \/ op.mutation # "none")
                 => Sound(op, mode, handleRecoveryResume(op))
<1>1. CASE op.status \notin {"reconciling", "rolling_back"}
  BY <1>1, NoChangeIs, NoChangeSound DEF handleRecoveryResume, Fails, ApplyEffect
<1>2. CASE op.status \in {"reconciling", "rolling_back"}
  <2>1. PICK effect \in {"readback_rollback", "readback_approved"} :
            /\ handleRecoveryResume(op) = ReadBack(op, op.status, effect)
            /\ effect = "readback_approved" => op.status = "reconciling"
            /\ effect = "readback_rollback" =>
                  op.status = "rolling_back" \/ (op.rollback = 1 /\ op.undo = "succeeded")
    BY <1>2 DEF handleRecoveryResume
  <2>2. /\ ReadBack(op, op.status, effect) \in Decision
        /\ ReadBack(op, op.status, effect).effect = effect
        /\ ReadBack(op, op.status, effect).next.status = op.status
    BY <1>2, ReadBackIs DEF Statuses, Effects
  <2>3. ASSUME Shape(op, mode), op.candidate = 0 \/ op.mutation # "none"
        PROVE  Sound(op, mode, ReadBack(op, op.status, effect))
    <3>1. op.status \in Leased
      BY <1>2 DEF Leased
    <3>. QED  BY <1>2, <2>1, <2>3, <3>1, ReadBackSound
  <2>. QED  BY <1>2, <2>1, <2>2, <2>3 DEF Fails, ApplyEffect
<1>. QED  BY <1>1, <1>2

LEMMA RecoveredResultSound ==
    ASSUME NEW op \in Operation, NEW mode \in Modes, NEW kind \in Kinds, NEW result \in Outcomes
    PROVE  LET d == handleRecoveredMutationResult(op, mode, kind, result)
           IN  /\ d \in Decision
               /\ ~ApplyEffect(d.effect)
               /\ Fails(d) => /\ result = "definitively_failed"
                              /\ mode = (IF kind = "candidate" THEN "apply" ELSE "rollback")
               /\ Shape(op, mode) => Sound(op, mode, d)
<1>. DEFINE status == IF kind = "rollback" /\ mode = "apply" THEN "rolling_back" ELSE "running"
            sent == [op EXCEPT !.status = status]
            d == handleRecoveredMutationResult(op, mode, kind, result)
<1>0. /\ sent \in Operation /\ SameMarks(op, sent)
      /\ result \in Results \ {"none"} /\ (result \in Untried => result = "definitively_failed")
  BY StatusIs DEF Statuses, Results, Outcomes, Untried
<1>. HIDE DEF sent
<1>1. CASE d = noChange(op)
  BY <1>1, NoChangeIs, NoChangeSound DEF Fails, ApplyEffect
<1>2. CASE op.status = "reconciling" /\ d = handleUpdateResult(sent, mode, kind, result)
  <2>1. CASE kind = "candidate"
    <3>1. d = handleMutationResult(sent, mode, result)
      BY <1>2, <2>1 DEF handleUpdateResult
    <3>2. op.status \in {"running", "reconciling"} /\ op.candidate = sent.candidate /\ op.rollback = sent.rollback
      BY <1>0, <1>2 DEF SameMarks
    <3>. QED  BY <1>0, <2>1, <3>1, <3>2, MutationSound
  <2>2. CASE kind = "rollback"
    <3>1. d = handleRollbackResult(sent, mode, result)
      BY <1>2, <2>2 DEF handleUpdateResult
    <3>2. /\ op.status \in Leased /\ op.candidate = sent.candidate /\ op.rollback = sent.rollback
          /\ op.mutation = sent.mutation
      BY <1>0, <1>2 DEF SameMarks, Leased
    <3>. QED  BY <1>0, <2>2, <3>1, <3>2, RollbackSound
  <2>. QED  BY <2>1, <2>2 DEF Kinds
<1>. QED  BY <1>1, <1>2 DEF handleRecoveredMutationResult, sent

LedgerStates == {"none", "reserved", "dispatched", "reconciliation_required"} \union Outcomes

\* What an interrupted operation is taken up with.
LEMMA RecoveredSound ==
    ASSUME NEW op \in Operation, NEW mode \in Modes, NEW dispatched \in LedgerStates,
           Unsettled(op) = "none" => dispatched = "none"
    PROVE  LET d == Recovered(op, mode, dispatched)
               kind == Unsettled(op)
           IN  /\ d \in Decision
               /\ ~ApplyEffect(d.effect)
               /\ Fails(d) => /\ dispatched = "definitively_failed" /\ kind \in Kinds
                              /\ mode = (IF kind = "candidate" THEN "apply" ELSE "rollback")
               /\ Shape(op, mode) /\ (dispatched = "none" => kind = "none") => Sound(op, mode, d)
<1>. DEFINE d == Recovered(op, mode, dispatched)
<1>0. Unsettled(op) \in Kinds \union {"none"}
  BY DEF Unsettled, Kinds
<1>1. CASE dispatched = "none"
  <2>1. d = handleRecoveryResume(op)
    BY <1>1 DEF Recovered, Outcomes
  <2>2. Unsettled(op) = "none" => op.candidate = 0 \/ op.mutation # "none"
    BY DEF Unsettled, Operation
  <2>. QED  BY <1>1, <2>1, <2>2, ResumeSound
<1>2. CASE dispatched # "none"
  <2>0. Unsettled(op) \in Kinds
    BY <1>0, <1>2
  <2>1. PICK result \in Outcomes :
            /\ d = handleRecoveredMutationResult(op, mode, Unsettled(op), result)
            /\ result = "definitively_failed" => dispatched = "definitively_failed"
    <3>1. CASE dispatched \in Outcomes
      BY <1>2, <2>0, <3>1 DEF Recovered, Kinds
    <3>2. CASE dispatched \notin Outcomes
      BY <1>2, <2>0, <3>2 DEF Recovered, Kinds, Outcomes
    <3>. QED  BY <3>1, <3>2
  <2>. QED  BY <1>2, <2>0, <2>1, RecoveredResultSound
<1>. QED  BY <1>1, <1>2

-----------------------------------------------------------------------------
(* Types *)

PCs == {"idle", "acquire", "recover", "persist", "release", "reserve", "renew", "read", "consume",
        "await", "record"}
Invocations == [op : Ops \union {NoOp}, pc : PCs, fresh : BOOLEAN, decision : Decision,
                kind : Kinds \union {"none"}, result : Results]

LEMMA InvType == MigTypeOK => inv \in [Invs -> Invocations]
  BY DEF MigTypeOK, Invocations, Decision, PCs

LEMMA IdleTyped == Idle \in Invocations /\ Idle.op = NoOp /\ Idle.pc = "idle" /\ Idle.fresh = FALSE
<1>1. Absent \in Operation
  BY DEF Absent, Operation, Statuses, Results
<1>2. noChange(Absent) \in Decision
  BY <1>1, NoChangeIs
<1>3. "none" \in Results
  BY DEF Results
<1>4. Idle = [op |-> NoOp, pc |-> "idle", fresh |-> FALSE, decision |-> noChange(Absent),
              kind |-> "none", result |-> "none"]
  BY DEF Idle
<1>5. Idle \in Invocations
  BY <1>2, <1>3, <1>4 DEF Invocations, PCs
<1>. QED  BY <1>4, <1>5

LEMMA ProceedIs ==
    ASSUME inv \in [Invs -> Invocations], NEW i \in Invs, NEW decision \in Decision, Proceed(i, decision)
    PROVE  /\ inv' \in [Invs -> Invocations]
           /\ \A j \in Invs : j # i => inv'[j] = inv[j]
           /\ decision.effect = "none" => inv'[i] = Idle
           /\ decision.effect # "none" =>
                 /\ inv'[i].pc = "persist" /\ inv'[i].decision = decision
                 /\ inv'[i].op = inv[i].op /\ inv'[i].fresh = inv[i].fresh
<1>1. PICK next : next = [inv[i] EXCEPT !.pc = "persist", !.decision = decision]
  OBVIOUS
<1>2. /\ next \in Invocations /\ next.pc = "persist" /\ next.decision = decision
      /\ next.op = inv[i].op /\ next.fresh = inv[i].fresh
  BY <1>1 DEF Invocations, PCs
<1>3. inv' = [inv EXCEPT ![i] = IF decision.effect = "none" THEN Idle ELSE next]
  BY <1>1 DEF Proceed
<1>. QED  BY <1>2, <1>3, IdleTyped

LEMMA ReturnIs ==
    ASSUME inv \in [Invs -> Invocations], NEW i \in Invs, Return(i)
    PROVE  /\ inv' \in [Invs -> Invocations] /\ inv'[i] = Idle
           /\ \A j \in Invs : j # i => inv'[j] = inv[j]
  BY IdleTyped DEF Return

\* Operations, stores and invocations of the right types, and the parts of each.
LEMMA TypeParts ==
    MigTypeOK <=>
        /\ ops \in [Ops -> Operation]
        /\ lease \in [Ops -> Invs \union {NoInv}]
        /\ inForce \in [Ops -> BOOLEAN]
        /\ lapsed \in [Ops -> BOOLEAN]
        /\ ledger \in [Ops -> [Kinds -> LedgerStates]]
        /\ child \in [Ops -> [Kinds -> {"none", "running", "landed"}]]
        /\ topology \in Topologies
        /\ inv \in [Invs -> Invocations]
        /\ overran \in BOOLEAN
        /\ touched \in SUBSET (Ops \X Kinds)
        /\ spawns \in [Ops -> [Kinds -> Nat]]
        /\ faults \in 0 .. MaxFaults
  BY DEF MigTypeOK, Invocations, Decision, PCs, LedgerStates

LEMMA NextTyped ==
    ASSUME ops' \in [Ops -> Operation],
           lease' \in [Ops -> Invs \union {NoInv}],
           inForce' \in [Ops -> BOOLEAN],
           lapsed' \in [Ops -> BOOLEAN],
           ledger' \in [Ops -> [Kinds -> LedgerStates]],
           child' \in [Ops -> [Kinds -> {"none", "running", "landed"}]],
           topology' \in Topologies,
           inv' \in [Invs -> Invocations],
           overran' \in BOOLEAN,
           touched' \in SUBSET (Ops \X Kinds),
           spawns' \in [Ops -> [Kinds -> Nat]],
           faults' \in 0 .. MaxFaults
    PROVE  MigTypeOK'
  BY DEF MigTypeOK, Invocations, Decision, PCs, LedgerStates

LEMMA FaultTyped == ASSUME MigTypeOK, Fault \/ UNCHANGED faults PROVE faults' \in 0 .. MaxFaults
  BY MigrationAssumption DEF MigTypeOK, Fault

LEMMA ModeTyped == \A o \in Ops : ModeOf[o] \in Modes
  BY MigrationAssumption DEF Modes

\* The ledger's entry of one update is replaced.
LEMMA LedgerTyped ==
    ASSUME ledger \in [Ops -> [Kinds -> LedgerStates]], NEW o \in Ops, NEW k \in Kinds,
           NEW state \in LedgerStates, ledger' = [ledger EXCEPT ![o][k] = state]
    PROVE  /\ ledger' \in [Ops -> [Kinds -> LedgerStates]]
           /\ ledger'[o][k] = state
           /\ \A p \in Ops, h \in Kinds : <<p, h>> # <<o, k>> => ledger'[p][h] = ledger[p][h]
<1>1. ledger' = [ledger EXCEPT ![o] = [ledger[o] EXCEPT ![k] = state]]
  OBVIOUS
<1>2. [ledger[o] EXCEPT ![k] = state] \in [Kinds -> LedgerStates]
  OBVIOUS
<1>3. ledger'[o] = [ledger[o] EXCEPT ![k] = state] /\ \A p \in Ops : p # o => ledger'[p] = ledger[p]
  BY <1>1
<1>. QED  BY <1>1, <1>2, <1>3

-----------------------------------------------------------------------------
(* Steps that decide or give up: the store and the workflow stay as they are *)

\* The ledger of an update goes forward only, and tells of a failure only when the
\* update is over and has not reached the workflow.
LedgerForward ==
    \A o \in Ops, k \in Kinds :
        /\ ledger'[o][k] = "none" => ledger[o][k] = "none"
        /\ ledger'[o][k] = "reserved" => ledger[o][k] \in {"none", "reserved"}
        /\ ledger'[o][k] = "definitively_failed" =>
              \/ ledger[o][k] = "definitively_failed"
              \/ child[o][k] = "none" /\ <<o, k>> \notin touched

StillStore == UNCHANGED <<ops, lease, inForce, child, topology, touched, spawns, overran>>
OthersStay(i) == \A j \in Invs : j # i => inv'[j] = inv[j]

\* What is to be known of a decision that is taken.
TakenBy(i, d) ==
    LET o == inv[i].op
    IN  /\ inv'[i].pc = "persist" /\ inv'[i].decision = d
        /\ inv'[i].op = o /\ inv'[i].fresh = inv[i].fresh
        /\ inv[i].pc \notin {"idle", "await"}
        /\ d.effect # "none"
        /\ ApplyEffect(d.effect) => ledger'[o][EffectKind(d.effect)] # "none"
        /\ Current(i) => Acceptable(ops[o], ModeOf[o], d)
        /\ Current(i) /\ inForce[o] /\ ~overran =>
              /\ d.next.status = "completed" => topology = "candidate"
              /\ d.next.status = "rolled_back" => topology = "rollback"
        /\ Current(i) /\ d.next.status = "failed" => Sealed(inv[i].op)'

LEMMA CalmSentOnce ==
    ASSUME SentOnce, StillStore, LedgerForward
    PROVE  SentOnce'
  BY DEF SentOnce, StillStore, LedgerForward

\* The same work, on a copy that may have become stale.
SameWork(j) ==
    /\ inv'[j].op = inv[j].op /\ inv'[j].pc = inv[j].pc /\ inv'[j].kind = inv[j].kind
    /\ inv'[j].decision = inv[j].decision /\ inv'[j].result = inv[j].result
    /\ inv'[j].fresh => inv[j].fresh

\* What has been marked, reserved and sent stays so.
Forward ==
    \A o \in Ops, k \in Kinds :
        /\ Marks(ops[o], k) => Marks(ops'[o], k)
        /\ ledger[o][k] # "none" => ledger'[o][k] # "none"
        /\ spawns[o][k] = 1 => spawns'[o][k] = 1

LEMMA OthersCarried ==
    ASSUME Carried, Forward, NEW j \in Invs, SameWork(j),
           inv[j].pc = "await" => child'[inv[j].op][inv[j].kind] # "none",
           inv[j].pc = "record" /\ inv[j].result = "definitively_failed"
               => /\ child'[inv[j].op][inv[j].kind] = "none"
                  /\ <<inv[j].op, inv[j].kind>> \notin touched'
    PROVE  CarriedBy(j)'
<1>1. CarriedBy(j)
  BY DEF Carried
<1>2. PICK o : o = inv[j].op /\ o = inv'[j].op
  BY DEF SameWork
<1>3. PICK k : k = inv[j].kind /\ k = inv'[j].kind
  BY DEF SameWork
<1>4. PICK d : d = inv[j].decision /\ d = inv'[j].decision
  BY DEF SameWork
<1>5. PICK p : p = inv[j].pc /\ p = inv'[j].pc
  BY DEF SameWork
<1>6. PICK result : result = inv[j].result /\ result = inv'[j].result
  BY DEF SameWork
<1>7. ApplyEffect(d.effect) => EffectKind(d.effect) \in Kinds
  BY DEF ApplyEffect, EffectKind, Kinds
<1>8. p # "idle" => o \in Ops
  BY <1>1, <1>2, <1>5 DEF CarriedBy
<1>9. p \in {"persist", "renew"} /\ ApplyEffect(d.effect) => ledger'[o][EffectKind(d.effect)] # "none"
  BY <1>1, <1>2, <1>4, <1>5, <1>7, <1>8 DEF CarriedBy, Forward
<1>10. p \in {"consume", "await", "record"}
         => /\ k \in Kinds /\ Marks(ops'[o], k) /\ ledger'[o][k] # "none"
            /\ ApplyEffect(d.effect) /\ k = EffectKind(d.effect)
  BY <1>1, <1>2, <1>3, <1>4, <1>5, <1>8 DEF CarriedBy, Forward
<1>11. p \in {"await", "record"} => spawns'[o][k] = 1
  BY <1>1, <1>2, <1>3, <1>5, <1>8, <1>10 DEF CarriedBy, Forward
<1>12. /\ p = "renew" => d.effect \in Reads \union {"apply_candidate", "apply_rollback"}
       /\ p = "persist" => d.effect # "none"
       /\ p = "read" => d.effect \in Reads
       /\ p = "record" => result \in Outcomes
  BY <1>1, <1>4, <1>5, <1>6 DEF CarriedBy
<1>13. /\ p = "await" => child'[o][k] # "none"
       /\ p = "record" /\ result = "definitively_failed" => child'[o][k] = "none" /\ <<o, k>> \notin touched'
  BY <1>2, <1>3, <1>5, <1>6
<1>. QED  BY <1>2, <1>3, <1>4, <1>5, <1>6, <1>8, <1>9, <1>10, <1>11, <1>12, <1>13 DEF CarriedBy

LEMMA CalmOthersCarried ==
    ASSUME MigTypeOK, Carried, StillStore, LedgerForward, NEW j \in Invs, inv'[j] = inv[j]
    PROVE  CarriedBy(j)'
<1>1. Forward /\ SameWork(j)
  BY DEF Forward, SameWork, StillStore, LedgerForward
<1>. QED  BY <1>1, OthersCarried DEF Carried, CarriedBy, StillStore

LEMMA IdleCarried ==
    ASSUME NEW i \in Invs, inv'[i] = Idle
    PROVE  CarriedBy(i)' /\ ~Current(i)'
<1>1. inv'[i].pc = "idle" /\ inv'[i].op = NoOp /\ inv'[i].fresh = FALSE
  BY IdleTyped
<1>. QED  BY <1>1, MigrationAssumption DEF CarriedBy, Current

LEMMA CalmKeepsSealed ==
    ASSUME MigTypeOK, Carried, StillStore, LedgerForward, NEW i \in Invs, OthersStay(i),
           inv'[i].pc # "consume", NEW o \in Ops, Sealed(o)
    PROVE  Sealed(o)'
<1>. SUFFICES ASSUME NEW k \in Kinds
              PROVE  /\ <<o, k>> \notin touched' /\ child'[o][k] = "none"
                     /\ \A j \in Invs : Of(j, o, k, {"consume"})' => ledger'[o][k] # "reserved"
  BY DEF Sealed
<1>1. <<o, k>> \notin touched' /\ child'[o][k] = "none"
  BY DEF Sealed, StillStore
<1>2. ASSUME NEW j \in Invs, Of(j, o, k, {"consume"})', ledger'[o][k] = "reserved" PROVE FALSE
  <2>1. j # i /\ inv'[j] = inv[j]
    BY <1>2 DEF Of, OthersStay
  <2>2. Of(j, o, k, {"consume"})
    BY <1>2, <2>1 DEF Of
  <2>3. ledger[o][k] # "none"
    BY <2>2 DEF Of, Carried, CarriedBy
  <2>. QED  BY <1>2, <2>2, <2>3 DEF Sealed, LedgerForward
<1>. QED  BY <1>1, <1>2

LEMMA CalmKeeps ==
    ASSUME MigInv, MigTypeOK', StillStore, LedgerForward, NEW i \in Invs, OthersStay(i),
           inv'[i] = Idle \/ \E d : TakenBy(i, d)
    PROVE  MigInv'
<1>0. /\ MigTypeOK /\ SentOnce /\ Carried /\ AwaitedByOne /\ Shaped /\ Decisions
      /\ OneHolder /\ Covered /\ Verdicts /\ FailedSealed /\ NoLateAcquire
  BY DEF MigInv
<1>1. SentOnce'
  BY <1>0, CalmSentOnce
<1>2. inv'[i].pc \in {"idle", "persist"}
  BY IdleTyped DEF TakenBy
<1>3. CarriedBy(i)'
  <2>1. CASE inv'[i] = Idle
    BY <2>1, IdleCarried
  <2>2. ASSUME NEW d, TakenBy(i, d) PROVE CarriedBy(i)'
    <3>1. inv[i].op \in Ops
      BY <1>0, <2>2 DEF TakenBy, Carried, CarriedBy
    <3>. QED  BY <2>2, <3>1 DEF TakenBy, CarriedBy
  <2>. QED  BY <2>1, <2>2
<1>4. Carried'
  <2>1. \A j \in Invs : j # i => CarriedBy(j)'
    BY <1>0, CalmOthersCarried DEF OthersStay
  <2>. QED  BY <1>3, <2>1 DEF Carried
<1>5. AwaitedByOne'
  BY <1>0, <1>2 DEF AwaitedByOne, OthersStay
<1>6. Shaped' /\ OneHolder'
  BY <1>0 DEF Shaped, OneHolder, Held, StillStore
<1>7. \A j \in Invs : Current(j)' => Current(j)
  <2>1. ASSUME NEW j \in Invs, j # i, Current(j)' PROVE Current(j)
    BY <2>1 DEF Current, OthersStay, StillStore
  <2>2. ASSUME NEW d, TakenBy(i, d), Current(i)' PROVE Current(i)
    BY <2>2 DEF TakenBy, Current, StillStore
  <2>. QED  BY <2>1, <2>2, IdleCarried
<1>8. Decisions'
  <2>. SUFFICES ASSUME NEW j \in Invs, Current(j)' PROVE DecidedBy(j)'
    BY DEF Decisions
  <2>1. CASE j # i
    BY <1>0, <1>7, <2>1 DEF Decisions, DecidedBy, OthersStay, StillStore
  <2>2. CASE j = i
    <3>1. PICK d : TakenBy(i, d)
      BY <2>2, IdleCarried
    <3>2. Acceptable(ops[inv[i].op], ModeOf[inv[i].op], d)
      BY <1>7, <2>2, <3>1 DEF TakenBy
    <3>. QED  BY <2>2, <3>1, <3>2 DEF TakenBy, DecidedBy, StillStore
  <2>. QED  BY <2>1, <2>2
<1>9. Covered'
  <2>. SUFFICES ASSUME ~overran'
                PROVE  /\ \A j \in Invs : inv'[j].pc \in {"consume", "await"} => Current(j)' /\ inForce'[inv'[j].op]
                       /\ \A o \in Ops, k \in Kinds : child'[o][k] # "none" =>
                             /\ Held(o)' /\ ~Settled(o)'
                             /\ \A j \in Invs : Current(j)' /\ inv'[j].op = o => inv'[j].pc = "await" /\ inv'[j].kind = k
    BY DEF Covered
  <2>0. ~overran
    BY DEF StillStore
  <2>1. ASSUME NEW j \in Invs, inv'[j].pc \in {"consume", "await"}
        PROVE  Current(j)' /\ inForce'[inv'[j].op]
    <3>1. j # i /\ inv'[j] = inv[j]
      BY <1>2, <2>1 DEF OthersStay
    <3>. QED  BY <1>0, <2>0, <2>1, <3>1 DEF Covered, Current, StillStore
  <2>2. ASSUME NEW o \in Ops, NEW k \in Kinds, child'[o][k] # "none"
        PROVE  Held(o)' /\ ~Settled(o)'
    BY <1>0, <2>0, <2>2 DEF Covered, Held, Settled, StillStore
  <2>3. ASSUME NEW o \in Ops, NEW k \in Kinds, child'[o][k] # "none", NEW j \in Invs, Current(j)', inv'[j].op = o
        PROVE  inv'[j].pc = "await" /\ inv'[j].kind = k
    <3>1. Current(j) /\ child[o][k] # "none"
      BY <1>7, <2>3 DEF StillStore
    <3>2. CASE j # i
      BY <1>0, <2>0, <2>3, <3>1, <3>2 DEF Covered, OthersStay
    <3>3. CASE j = i
      <4>1. PICK d : TakenBy(i, d)
        BY <2>3, <3>3, IdleCarried
      <4>2. inv[i].op = o
        BY <2>3, <3>3, <4>1 DEF TakenBy
      <4>3. inv[i].pc = "await" /\ inv[i].kind = k
        BY <1>0, <2>0, <3>1, <3>3, <4>2 DEF Covered
      <4>. QED  BY <4>1, <4>3 DEF TakenBy
    <3>. QED  BY <3>2, <3>3
  <2>. QED  BY <2>1, <2>2, <2>3
<1>10. Verdicts'
  <2>. SUFFICES ASSUME ~overran', NEW j \in Invs, inv'[j].pc = "persist", Current(j)', inForce'[inv'[j].op]
                PROVE  /\ inv'[j].decision.next.status = "completed" => topology' = "candidate"
                       /\ inv'[j].decision.next.status = "rolled_back" => topology' = "rollback"
    BY DEF Verdicts
  <2>1. CASE j # i
    BY <1>0, <1>7, <2>1 DEF Verdicts, OthersStay, StillStore
  <2>2. CASE j = i
    <3>1. PICK d : TakenBy(i, d)
      BY <2>2, IdleCarried
    <3>. QED  BY <1>7, <2>2, <3>1 DEF TakenBy, StillStore
  <2>. QED  BY <2>1, <2>2
<1>11. FailedSealed'
  <2>0. \A o \in Ops : Sealed(o) => Sealed(o)'
    BY <1>0, <1>2, CalmKeepsSealed
  <2>1. \A o \in Ops : ops'[o].status = "failed" => Sealed(o)'
    BY <1>0, <2>0 DEF FailedSealed, StillStore
  <2>2. ASSUME NEW j \in Invs, inv'[j].pc = "persist", Current(j)', inv'[j].decision.next.status = "failed"
        PROVE  Sealed(inv[j].op)' 
    <3>1. CASE j # i
      <4>1. Sealed(inv[j].op) /\ inv[j].op \in Ops
        BY <1>0, <1>7, <2>2, <3>1 DEF FailedSealed, OthersStay, Current
      <4>2. PICK o \in Ops : o = inv[j].op /\ o = inv'[j].op
        BY <3>1, <4>1 DEF OthersStay
      <4>. QED  BY <2>0, <4>1, <4>2
    <3>2. CASE j = i
      <4>1. PICK d : TakenBy(i, d)
        BY <2>2, <3>2, IdleCarried
      <4>. QED  BY <1>7, <2>2, <3>2, <4>1 DEF TakenBy
    <3>. QED  BY <3>1, <3>2
  <2>. QED  BY <2>1, <2>2 DEF FailedSealed
<1>12. NoLateAcquire'
  BY <1>0, <1>2 DEF NoLateAcquire, OthersStay, StillStore, ExpiredLease
<1>. QED  BY <1>1, <1>4, <1>5, <1>6, <1>8, <1>9, <1>10, <1>11, <1>12 DEF MigInv

\* An update that is not marked was not sent and is not about to be.
LEMMA UnmarkedUnsent ==
    ASSUME MigTypeOK, SentOnce, Carried, NEW o \in Ops, NEW k \in Kinds, ~Marks(ops[o], k)
    PROVE  /\ <<o, k>> \notin touched /\ child[o][k] = "none" /\ spawns[o][k] = 0
           /\ \A j \in Invs : ~Of(j, o, k, {"consume"})
<1>1. spawns[o][k] = 0
  BY DEF SentOnce
<1>2. \A j \in Invs : ~Of(j, o, k, {"consume"})
  BY DEF Of, Carried, CarriedBy
<1>. QED  BY <1>1, <1>2 DEF SentOnce

\* One update is over without having reached the workflow and the other was never marked.
LEMMA SealedBy ==
    ASSUME MigTypeOK, SentOnce, Carried, StillStore, NEW i \in Invs, OthersStay(i),
           inv'[i].pc # "consume", NEW o \in Ops, NEW k \in Kinds,
           ~Marks(ops[o], k) \/
               (<<o, k>> \notin touched /\ child[o][k] = "none" /\ ledger'[o][k] # "reserved"),
           \A h \in Kinds : h # k => ~Marks(ops[o], h)
    PROVE  Sealed(o)'
<1>1. ASSUME NEW h \in Kinds, ~Marks(ops[o], h)
      PROVE  /\ <<o, h>> \notin touched' /\ child'[o][h] = "none"
             /\ \A j \in Invs : ~Of(j, o, h, {"consume"})'
  <2>1. /\ <<o, h>> \notin touched /\ child[o][h] = "none"
        /\ \A j \in Invs : ~Of(j, o, h, {"consume"})
    BY <1>1, UnmarkedUnsent
  <2>2. \A j \in Invs : Of(j, o, h, {"consume"})' => Of(j, o, h, {"consume"})
    BY DEF Of, OthersStay
  <2>. QED  BY <2>1, <2>2 DEF StillStore
<1>2. <<o, k>> \notin touched /\ child[o][k] = "none" /\ ledger'[o][k] # "reserved"
        => <<o, k>> \notin touched' /\ child'[o][k] = "none"
  BY DEF StillStore
<1>. QED  BY <1>1, <1>2 DEF Sealed

LEMMA OtherUnmarked ==
    ASSUME NEW op \in Operation, NEW mode, NEW k \in Kinds, Shape(op, mode),
           mode = (IF k = "candidate" THEN "apply" ELSE "rollback"),
           k = "candidate" => op.status = "running" \/ (op.candidate = 1 /\ op.mutation = "none")
    PROVE  \A h \in Kinds : h # k => ~Marks(op, h)
  BY DEF Kinds, Shape, Marks, Operation

-----------------------------------------------------------------------------
LEMMA ReturnKeeps ==
    ASSUME MigInv, NEW i \in Invs, Return(i), UNCHANGED <<store, ledger, remote, overran>>,
           Fault \/ UNCHANGED faults
    PROVE  MigInv'
<1>0. MigTypeOK /\ inv \in [Invs -> Invocations]
  BY InvType DEF MigInv
<1>1. StillStore /\ LedgerForward /\ lapsed' = lapsed
  BY DEF StillStore, LedgerForward, store, remote
<1>2. inv' \in [Invs -> Invocations] /\ inv'[i] = Idle /\ OthersStay(i)
  BY <1>0, ReturnIs DEF OthersStay
<1>3. MigTypeOK'
  <2>1. faults' \in 0 .. MaxFaults
    BY <1>0, FaultTyped
  <2>. QED  BY <1>0, <1>1, <1>2, <2>1, TypeParts, NextTyped DEF StillStore
<1>. QED  BY <1>1, <1>2, <1>3, CalmKeeps

LEMMA GivingUpKeeps ==
    ASSUME MigInv, NEW i \in Invs, refused(i) \/ crash(i)
    PROVE  MigInv'
<1>1. Return(i) /\ UNCHANGED <<store, ledger, remote, overran>> /\ (Fault \/ UNCHANGED faults)
  BY DEF refused, crash
<1>. QED  BY <1>1, ReturnKeeps

LEMMA RecoverKeeps ==
    ASSUME MigInv, NEW i \in Invs, recoverDecision(i)
    PROVE  MigInv'
<1>0. MigTypeOK /\ SentOnce /\ Carried /\ Shaped /\ inv \in [Invs -> Invocations]
  BY InvType DEF MigInv
<1>1. PICK o \in Ops : o = inv[i].op
  BY <1>0 DEF recoverDecision, Carried, CarriedBy
<1>2. PICK kind : kind = Unsettled(ops[o])
  OBVIOUS
<1>3. ops[o] \in Operation /\ ModeOf[o] \in Modes /\ Shape(ops[o], ModeOf[o]) /\ kind \in Kinds \union {"none"}
  BY <1>0, <1>2, TypeParts, ModeTyped DEF Shaped, Unsettled, Kinds
<1>4. PICK dispatched : dispatched = IF kind = "none" THEN "none" ELSE ledger[o][kind]
  OBVIOUS
<1>5. dispatched \in LedgerStates /\ (kind = "none" => dispatched = "none")
  BY <1>0, <1>3, <1>4, TypeParts DEF LedgerStates
<1>6. dispatched = "none" => kind = "none"
  <2>1. kind \in Kinds => Marks(ops[o], kind)
    BY <1>2 DEF Unsettled, Marks, Kinds
  <2>. QED  BY <1>0, <1>3, <1>4, <2>1 DEF SentOnce
<1>7. PICK d : d = Recovered(ops[o], ModeOf[o], dispatched)
  OBVIOUS
<1>8. /\ d \in Decision /\ ~ApplyEffect(d.effect)
      /\ Fails(d) => /\ dispatched = "definitively_failed" /\ kind \in Kinds
                     /\ ModeOf[o] = (IF kind = "candidate" THEN "apply" ELSE "rollback")
      /\ Sound(ops[o], ModeOf[o], d)
  BY <1>2, <1>3, <1>5, <1>6, <1>7, RecoveredSound
<1>9. /\ inv[i].pc = "recover" /\ Proceed(i, d)
      /\ ledger' = IF kind = "none" THEN ledger ELSE [ledger EXCEPT ![o][kind] = Marked(@)]
      /\ UNCHANGED <<store, remote, overran, faults>>
  BY <1>1, <1>2, <1>4, <1>7 DEF recoverDecision
<1>10. /\ inv' \in [Invs -> Invocations] /\ OthersStay(i)
       /\ d.effect = "none" => inv'[i] = Idle
       /\ d.effect # "none" =>
             /\ inv'[i].pc = "persist" /\ inv'[i].decision = d
             /\ inv'[i].op = inv[i].op /\ inv'[i].fresh = inv[i].fresh
  BY <1>0, <1>8, <1>9, ProceedIs DEF OthersStay
<1>11. /\ ledger' \in [Ops -> [Kinds -> LedgerStates]]
       /\ kind \in Kinds => ledger'[o][kind] = Marked(ledger[o][kind])
       /\ \A p \in Ops, h \in Kinds : <<p, h>> # <<o, kind>> => ledger'[p][h] = ledger[p][h]
  <2>1. CASE kind = "none"
    <3>1. "none" \notin Kinds
      BY DEF Kinds
    <3>. QED  BY <1>0, <1>9, <2>1, <3>1, TypeParts
  <2>2. CASE kind \in Kinds
    <3>1. Marked(ledger[o][kind]) \in LedgerStates /\ kind # "none"
      BY <1>0, <2>2, TypeParts DEF Marked, LedgerStates, Kinds
    <3>2. ledger' = [ledger EXCEPT ![o][kind] = Marked(ledger[o][kind])]
      BY <1>9, <3>1
    <3>. QED  BY <1>0, <2>2, <3>1, <3>2, LedgerTyped, TypeParts
  <2>. QED  BY <1>3, <2>1, <2>2
<1>12. StillStore
  BY <1>9 DEF StillStore, store, remote
<1>13. LedgerForward
  <2>. SUFFICES ASSUME NEW p \in Ops, NEW h \in Kinds
                PROVE  /\ ledger'[p][h] = "none" => ledger[p][h] = "none"
                       /\ ledger'[p][h] = "reserved" => ledger[p][h] \in {"none", "reserved"}
                       /\ ledger'[p][h] = "definitively_failed" => ledger[p][h] = "definitively_failed"
    BY DEF LedgerForward
  <2>1. CASE p = o /\ h = kind
    BY <1>11, <2>1 DEF Marked
  <2>2. CASE <<p, h>> # <<o, kind>>
    BY <1>11, <2>2
  <2>. QED  BY <2>1, <2>2
<1>14. MigTypeOK'
  <2>1. lapsed' = lapsed /\ faults' \in 0 .. MaxFaults
    BY <1>0, <1>9, FaultTyped DEF store
  <2>. QED  BY <1>0, <1>10, <1>11, <1>12, <2>1, TypeParts, NextTyped DEF StillStore
<1>15. d.effect # "none" /\ d.next.status = "failed" => Sealed(o)'
  <2>. SUFFICES ASSUME d.effect # "none", d.next.status = "failed" PROVE Sealed(o)'
    OBVIOUS
  <2>1. /\ dispatched = "definitively_failed" /\ kind \in Kinds /\ kind # "none"
        /\ ModeOf[o] = (IF kind = "candidate" THEN "apply" ELSE "rollback")
    BY <1>8 DEF Fails, Kinds
  <2>2. ledger[o][kind] = "definitively_failed"
    BY <1>4, <2>1
  <2>3. <<o, kind>> \notin touched /\ child[o][kind] = "none"
    BY <1>0, <2>1, <2>2 DEF SentOnce
  <2>4. ledger'[o][kind] # "reserved"
    BY <1>11, <2>1, <2>2 DEF Marked
  <2>5. kind = "candidate" => ops[o].candidate = 1 /\ ops[o].mutation = "none"
    BY <1>2 DEF Unsettled
  <2>6. \A h \in Kinds : h # kind => ~Marks(ops[o], h)
    BY <1>3, <2>1, <2>5, OtherUnmarked
  <2>7. inv'[i].pc # "consume"
    BY <1>10
  <2>. QED  BY <1>0, <1>10, <1>12, <2>1, <2>3, <2>4, <2>6, <2>7, SealedBy
<1>16. d.effect # "none" => TakenBy(i, d)
  BY <1>1, <1>8, <1>9, <1>10, <1>15 DEF TakenBy, Sound
<1>. QED  BY <1>10, <1>12, <1>13, <1>14, <1>16, CalmKeeps

\* An invocation that decides, and leaves the store and the workflow as they are.
LEMMA DecidingKeeps ==
    ASSUME MigInv, NEW i \in Invs, NEW d \in Decision, Proceed(i, d), NEW o \in Ops, o = inv[i].op,
           NEW k \in Kinds, inv[i].pc \notin {"idle", "await"},
           UNCHANGED <<store, remote, overran>>, Fault \/ UNCHANGED faults,
           ledger' \in [Ops -> [Kinds -> LedgerStates]], LedgerForward,
           ApplyEffect(d.effect) => ledger'[o][EffectKind(d.effect)] # "none",
           Current(i) /\ d.effect # "none" => Acceptable(ops[o], ModeOf[o], d),
           Current(i) /\ d.effect # "none" /\ d.next.status = "completed" => topology = "candidate",
           Current(i) /\ d.effect # "none" /\ d.next.status = "rolled_back" => topology = "rollback",
           Current(i) /\ Fails(d) =>
               /\ \/ ~Marks(ops[o], k)
                  \/ <<o, k>> \notin touched /\ child[o][k] = "none" /\ ledger'[o][k] # "reserved"
               /\ \A h \in Kinds : h # k => ~Marks(ops[o], h)
    PROVE  MigInv'
<1>0. MigTypeOK /\ SentOnce /\ Carried /\ inv \in [Invs -> Invocations]
  BY InvType DEF MigInv
<1>1. /\ inv' \in [Invs -> Invocations] /\ OthersStay(i)
      /\ d.effect = "none" => inv'[i] = Idle
      /\ d.effect # "none" =>
            /\ inv'[i].pc = "persist" /\ inv'[i].decision = d
            /\ inv'[i].op = inv[i].op /\ inv'[i].fresh = inv[i].fresh
  BY <1>0, ProceedIs DEF OthersStay
<1>2. StillStore /\ lapsed' = lapsed
  BY DEF StillStore, store, remote
<1>3. MigTypeOK'
  <2>1. faults' \in 0 .. MaxFaults
    BY <1>0, FaultTyped
  <2>. QED  BY <1>0, <1>1, <1>2, <2>1, TypeParts, NextTyped DEF StillStore
<1>4. Current(i) /\ Fails(d) => Sealed(o)'
  <2>. SUFFICES ASSUME Current(i), Fails(d) PROVE Sealed(o)'
    OBVIOUS
  <2>1. inv'[i].pc # "consume"
    BY <1>1 DEF Fails
  <2>. QED  BY <1>0, <1>1, <1>2, <2>1, SealedBy
<1>5. d.effect # "none" => TakenBy(i, d)
  BY <1>1, <1>4 DEF TakenBy, Fails
<1>. QED  BY <1>1, <1>2, <1>3, <1>5, CalmKeeps

LEMMA PreconditionFails ==
    ASSUME NEW op \in Operation, NEW mode \in Modes, NEW result
    PROVE  /\ ~ApplyEffect(handlePreconditionReadback(op, mode, result).effect)
           /\ Fails(handlePreconditionReadback(op, mode, result)) => op.candidate = 0 /\ op.rollback = 0
<1>1. CASE op.status # "running" \/ op.candidate # 0 \/ op.rollback # 0
  BY <1>1, NoChangeIs DEF handlePreconditionReadback, Fails, ApplyEffect
<1>2. CASE op.status = "running" /\ op.candidate = 0 /\ op.rollback = 0
  <2>1. End(op, "failed").effect = "release"
    BY EndIs DEF Statuses, TERMINAL_STATUSES
  <2>. QED  BY <1>2, <2>1 DEF handlePreconditionReadback, ApplyEffect, Decide
<1>. QED  BY <1>1, <1>2

LEMMA ReadKeeps ==
    ASSUME MigInv, NEW i \in Invs, readWorkflow(i)
    PROVE  MigInv'
<1>0. MigTypeOK /\ SentOnce /\ Carried /\ Shaped /\ Decisions /\ inv \in [Invs -> Invocations]
  BY InvType DEF MigInv
<1>1. inv[i].pc = "read"
  BY DEF readWorkflow
<1>2. PICK o \in Ops : o = inv[i].op
  BY <1>0, <1>1 DEF Carried, CarriedBy
<1>3. PICK op \in Operation : op = inv[i].decision.next
  BY <1>0 DEF Invocations, Decision
<1>4. PICK effect \in Reads : effect = inv[i].decision.effect
  BY <1>0, <1>1 DEF Carried, CarriedBy
<1>5. ModeOf[o] \in Modes /\ Shape(ops[o], ModeOf[o])
  BY <1>0, ModeTyped DEF Shaped
<1>6. Current(i) => ops[o] = op /\ Judged(op, ModeOf[o], effect)
  BY <1>0, <1>1, <1>2, <1>3, <1>4 DEF Decisions, DecidedBy
<1>7. PICK result \in {observedReadbackResult(effect, ModeOf[o], topology), "unavailable"} :
          Proceed(i, IF effect = "read_precondition"
                     THEN handlePreconditionReadback(op, ModeOf[o], result)
                     ELSE handleReadbackResult(op, ModeOf[o], result))
  BY <1>2, <1>3, <1>4 DEF readWorkflow, Decided
<1>8. UNCHANGED <<store, ledger, remote, overran, faults>>
  BY DEF readWorkflow
<1>9. LedgerForward /\ ledger' \in [Ops -> [Kinds -> LedgerStates]]
  BY <1>0, <1>8, TypeParts DEF LedgerForward
<1>10. "candidate" \in Kinds
  BY DEF Kinds
<1>11. CASE effect = "read_precondition"
  <2>1. PICK d : d = handlePreconditionReadback(op, ModeOf[o], result)
    OBVIOUS
  <2>2. d \in Decision /\ ~ApplyEffect(d.effect) /\ (Fails(d) => op.candidate = 0 /\ op.rollback = 0)
    BY <1>5, <2>1, PreconditionTyped, PreconditionFails
  <2>3. Current(i) => Sound(op, ModeOf[o], d)
    BY <1>5, <1>6, <2>1, PreconditionSound
  <2>4. Proceed(i, d)
    BY <1>7, <1>11, <2>1
  <2>5. Current(i) /\ Fails(d) =>
            ~Marks(ops[o], "candidate") /\ \A h \in Kinds : h # "candidate" => ~Marks(ops[o], h)
    BY <1>6, <2>2 DEF Marks
  <2>. QED  BY <1>1, <1>2, <1>6, <1>8, <1>9, <1>10, <2>2, <2>3, <2>4, <2>5, DecidingKeeps DEF Sound
<1>12. CASE effect # "read_precondition"
  <2>1. PICK d : d = handleReadbackResult(op, ModeOf[o], result)
    OBVIOUS
  <2>2. /\ d \in Decision /\ ~ApplyEffect(d.effect)
        /\ d.effect # "none" /\ d.next.status = "completed" => result = "matches_candidate"
        /\ d.effect # "none" /\ d.next.status = "rolled_back" => result = "matches_rollback"
        /\ Fails(d) => result = "matches_pre_mutation"
        /\ d.effect # "none" /\ Shape(op, ModeOf[o]) /\ (op.candidate = 0 \/ op.mutation # "none")
              => Acceptable(op, ModeOf[o], d)
    BY <1>5, <2>1, ReadbackSound
  <2>3. Proceed(i, d)
    BY <1>7, <1>12, <2>1
  <2>4. /\ result = "matches_candidate" => topology = "candidate"
        /\ result = "matches_rollback" => topology = "rollback"
        /\ result # "matches_pre_mutation"
    BY <1>7, <1>12, ObservedTrue
  <2>5. Current(i) /\ d.effect # "none" => Acceptable(ops[o], ModeOf[o], d)
    BY <1>4, <1>5, <1>6, <1>12, <2>2 DEF Judged, ApplyEffect, Marks, EffectKind
  <2>. QED  BY <1>1, <1>2, <1>8, <1>9, <1>10, <2>2, <2>3, <2>4, <2>5, DecidingKeeps
<1>. QED  BY <1>11, <1>12

\* One entry of the ledger is replaced.
LEMMA EntryForward ==
    ASSUME MigTypeOK, NEW o \in Ops, NEW k \in Kinds, NEW state \in LedgerStates \ {"none"},
           ledger' = [ledger EXCEPT ![o][k] = state],
           state = "reserved" => ledger[o][k] \in {"none", "reserved"},
           state = "definitively_failed" =>
               \/ ledger[o][k] = "definitively_failed"
               \/ child[o][k] = "none" /\ <<o, k>> \notin touched
    PROVE  LedgerForward /\ ledger' \in [Ops -> [Kinds -> LedgerStates]] /\ ledger'[o][k] = state
<1>1. /\ ledger' \in [Ops -> [Kinds -> LedgerStates]] /\ ledger'[o][k] = state
      /\ \A p \in Ops, h \in Kinds : <<p, h>> # <<o, k>> => ledger'[p][h] = ledger[p][h]
  BY TypeParts, LedgerTyped
<1>2. ASSUME NEW p \in Ops, NEW h \in Kinds
      PROVE  /\ ledger'[p][h] = "none" => ledger[p][h] = "none"
             /\ ledger'[p][h] = "reserved" => ledger[p][h] \in {"none", "reserved"}
             /\ ledger'[p][h] = "definitively_failed" =>
                   \/ ledger[p][h] = "definitively_failed"
                   \/ child[p][h] = "none" /\ <<p, h>> \notin touched
  <2>1. CASE p = o /\ h = k
    BY <1>1, <2>1
  <2>2. CASE <<p, h>> # <<o, k>>
    BY <1>1, <2>2
  <2>. QED  BY <2>1, <2>2
<1>. QED  BY <1>1, <1>2 DEF LedgerForward

LEMMA ReserveKeeps ==
    ASSUME MigInv, NEW i \in Invs, reserveCapabilityMutationDispatch(i)
    PROVE  MigInv'
<1>0. MigTypeOK /\ SentOnce /\ Carried /\ Shaped /\ inv \in [Invs -> Invocations]
  BY InvType DEF MigInv
<1>1. inv[i].pc = "reserve"
  BY DEF reserveCapabilityMutationDispatch
<1>2. PICK o \in Ops : o = inv[i].op
  BY <1>0, <1>1 DEF Carried, CarriedBy
<1>3. PICK kind \in Kinds : kind = EffectKind(inv[i].decision.effect)
  BY DEF EffectKind, Kinds
<1>4. ModeOf[o] \in Modes /\ Shape(ops[o], ModeOf[o]) /\ ops[o] \in Operation
  BY <1>0, ModeTyped, TypeParts DEF Shaped
<1>5. PICK reserved \in BOOLEAN :
          /\ Proceed(i, handleDispatchReserved(ops[o], ModeOf[o], kind, reserved))
          /\ reserved => ledger[o][kind] = "none" /\ ledger' = [ledger EXCEPT ![o][kind] = "reserved"]
          /\ ~reserved => ledger' = ledger
          /\ Fault \/ UNCHANGED faults
  BY <1>2, <1>3 DEF reserveCapabilityMutationDispatch, Unreserved
<1>6. UNCHANGED <<store, remote, overran>>
  BY DEF reserveCapabilityMutationDispatch
<1>7. PICK d : d = handleDispatchReserved(ops[o], ModeOf[o], kind, reserved)
  OBVIOUS
<1>8. /\ d \in Decision /\ Sound(ops[o], ModeOf[o], d) /\ ~Fails(d)
      /\ ApplyEffect(d.effect) => reserved /\ EffectKind(d.effect) = kind
  <2>1. /\ d \in Decision /\ Sound(ops[o], ModeOf[o], d) /\ ~Fails(d)
        /\ d.effect \in {"none", "release", IF kind = "candidate" THEN "apply_candidate" ELSE "apply_rollback"}
        /\ ~reserved => ~ApplyEffect(d.effect)
    BY <1>4, <1>7, ReservedTyped, ReservedSound DEF Fails
  <2>. QED  BY <2>1 DEF ApplyEffect, EffectKind, Kinds
<1>9. /\ LedgerForward /\ ledger' \in [Ops -> [Kinds -> LedgerStates]]
      /\ reserved => ledger'[o][kind] = "reserved"
  <2>1. CASE reserved
    <3>1. "reserved" \in LedgerStates \ {"none"}
      BY DEF LedgerStates
    <3>. QED  BY <1>0, <1>5, <2>1, <3>1, EntryForward
  <2>2. CASE ~reserved
    BY <1>0, <1>5, <2>2, TypeParts DEF LedgerForward
  <2>. QED  BY <2>1, <2>2
<1>10. Proceed(i, d)
  BY <1>5, <1>7
<1>. QED  BY <1>1, <1>2, <1>5, <1>6, <1>8, <1>9, <1>10, DecidingKeeps DEF Sound

\* What is known of an invocation that carries out an update.
LEMMA Sending ==
    ASSUME MigInv, NEW i \in Invs, inv[i].pc \in {"consume", "await", "record"},
           NEW o \in Ops, o = inv[i].op, NEW k \in Kinds, k = inv[i].kind,
           NEW op \in Operation, op = inv[i].decision.next
    PROVE  Current(i) => /\ ops[o] = op /\ op.status \in Leased
                         /\ Shape(op, ModeOf[o])
                         /\ k = "candidate" => op.status = "running"
<1>0. Carried /\ Shaped /\ Decisions
  BY DEF MigInv
<1>. SUFFICES ASSUME Current(i)
              PROVE  /\ ops[o] = op /\ op.status \in Leased
                     /\ Shape(op, ModeOf[o])
                     /\ k = "candidate" => op.status = "running"
  OBVIOUS
<1>1. PICK effect : effect = inv[i].decision.effect
  OBVIOUS
<1>2. ApplyEffect(effect) /\ k = EffectKind(effect)
  BY <1>0, <1>1 DEF Carried, CarriedBy
<1>3. ops[o] = op /\ EffectLegal(op, ModeOf[o], effect)
  BY <1>0, <1>1 DEF Decisions, DecidedBy, Judged, ApplyEffect, Marks, EffectKind
<1>4. Shape(op, ModeOf[o])
  BY <1>0, <1>3 DEF Shaped
<1>5. CASE effect = "apply_candidate"
  BY <1>3, <1>4, <1>5, LegalEffects DEF Leased
<1>6. CASE effect = "apply_rollback"
  <2>1. k = "rollback"
    BY <1>2, <1>6 DEF EffectKind
  <2>2. standalone(op, ModeOf[o]) \/ automatic(op, ModeOf[o])
    BY <1>3, <1>6, LegalEffects
  <2>. QED  BY <1>3, <1>4, <2>1, <2>2 DEF Leased, standalone, automatic
<1>. QED  BY <1>2, <1>5, <1>6 DEF ApplyEffect

\* The outcome of an update is taken by the invocation that was to send it.
LEMMA OutcomeKeeps ==
    ASSUME MigInv, NEW i \in Invs, inv[i].pc \in {"consume", "record"},
           NEW o \in Ops, o = inv[i].op, NEW k \in Kinds, k = inv[i].kind,
           NEW result \in Results \ {"none"},
           Proceed(i, handleUpdateResult(Decided(i), ModeOf[o], k, result)),
           UNCHANGED <<store, remote, overran>>, Fault \/ UNCHANGED faults,
           ledger' \in [Ops -> [Kinds -> LedgerStates]], LedgerForward,
           result \in Untried =>
               <<o, k>> \notin touched /\ child[o][k] = "none" /\ ledger'[o][k] # "reserved"
    PROVE  MigInv'
<1>0. MigTypeOK /\ Carried /\ inv \in [Invs -> Invocations]
  BY InvType DEF MigInv
<1>1. PICK op \in Operation : op = inv[i].decision.next
  BY <1>0 DEF Invocations, Decision
<1>2. ModeOf[o] \in Modes
  BY ModeTyped
<1>3. PICK d : d = handleUpdateResult(op, ModeOf[o], k, result)
  OBVIOUS
<1>4. /\ d \in Decision /\ ~ApplyEffect(d.effect)
      /\ Fails(d) => result \in Untried /\ ModeOf[o] = (IF k = "candidate" THEN "apply" ELSE "rollback")
      /\ Shape(op, ModeOf[o]) /\ op.status \in Leased => Sound(op, ModeOf[o], d)
  BY <1>2, <1>3, UpdateSound
<1>5. Current(i) => /\ ops[o] = op /\ op.status \in Leased
                    /\ Shape(op, ModeOf[o])
                    /\ k = "candidate" => op.status = "running"
  BY <1>1, Sending
<1>6. Proceed(i, d)
  BY <1>1, <1>3 DEF Decided
<1>7. Current(i) /\ d.effect # "none" => /\ Acceptable(ops[o], ModeOf[o], d)
                                         /\ d.next.status \notin {"completed", "rolled_back"}
  BY <1>4, <1>5 DEF Sound
<1>8. Current(i) /\ Fails(d) => \A h \in Kinds : h # k => ~Marks(ops[o], h)
  BY <1>4, <1>5, OtherUnmarked
<1>. QED  BY <1>4, <1>6, <1>7, <1>8, DecidingKeeps

LEMMA BlocksKeeps ==
    ASSUME MigInv, NEW i \in Invs, executorBlocks(i)
    PROVE  MigInv'
<1>0. MigTypeOK /\ SentOnce /\ Carried /\ inv \in [Invs -> Invocations]
  BY InvType DEF MigInv
<1>1. inv[i].pc = "consume" /\ UNCHANGED <<store, remote, overran>>
  BY DEF executorBlocks
<1>2. PICK o \in Ops : o = inv[i].op
  BY <1>0, <1>1 DEF Carried, CarriedBy
<1>3. PICK k \in Kinds : k = inv[i].kind
  BY <1>0, <1>1 DEF Carried, CarriedBy
<1>4. /\ "ambiguous" \in Results \ {"none"} /\ "not_started" \in Results \ {"none"}
      /\ "ambiguous" \notin Untried
      /\ {"reconciliation_required", "ambiguous", "dispatched"} \subseteq LedgerStates \ {"none"}
  BY DEF Results, Outcomes, Untried, LedgerStates
<1>5. CASE /\ ledger[o][k] # "reserved"
           /\ Proceed(i, handleUpdateResult(Decided(i), ModeOf[o], k, "ambiguous"))
           /\ UNCHANGED <<ledger, faults>>
  <2>1. LedgerForward /\ ledger' \in [Ops -> [Kinds -> LedgerStates]]
    BY <1>0, <1>5, TypeParts DEF LedgerForward
  <2>. QED  BY <1>1, <1>2, <1>3, <1>4, <1>5, <2>1, OutcomeKeeps
<1>6. ASSUME ledger[o][k] = "reserved", Fault, NEW result \in {"ambiguous", "not_started"},
             NEW state \in {"reconciliation_required", "ambiguous"},
             Proceed(i, handleUpdateResult(Decided(i), ModeOf[o], k, result)),
             ledger' = [ledger EXCEPT ![o][k] = state]
      PROVE  MigInv'
  <2>1. LedgerForward /\ ledger' \in [Ops -> [Kinds -> LedgerStates]] /\ ledger'[o][k] = state
    BY <1>0, <1>4, <1>6, EntryForward
  <2>2. <<o, k>> \notin touched /\ child[o][k] = "none"
    BY <1>0, <1>6 DEF SentOnce
  <2>. QED  BY <1>1, <1>2, <1>3, <1>4, <1>6, <2>1, <2>2, OutcomeKeeps
<1>7. CASE ledger[o][k] = "reserved" /\ Fault /\ Return(i) /\ ledger' = [ledger EXCEPT ![o][k] = "dispatched"]
  <2>1. LedgerForward /\ ledger' \in [Ops -> [Kinds -> LedgerStates]]
    BY <1>0, <1>4, <1>7, EntryForward
  <2>2. inv' \in [Invs -> Invocations] /\ inv'[i] = Idle /\ OthersStay(i)
    BY <1>0, <1>7, ReturnIs DEF OthersStay
  <2>3. StillStore /\ lapsed' = lapsed
    BY <1>1 DEF StillStore, store, remote
  <2>4. MigTypeOK'
    <3>1. faults' \in 0 .. MaxFaults
      BY <1>0, <1>7, FaultTyped
    <3>. QED  BY <1>0, <2>1, <2>2, <2>3, <3>1, TypeParts, NextTyped DEF StillStore
  <2>. QED  BY <2>1, <2>2, <2>3, <2>4, CalmKeeps
<1>. QED  BY <1>2, <1>3, <1>5, <1>6, <1>7 DEF executorBlocks

LEMMA RecordKeeps ==
    ASSUME MigInv, NEW i \in Invs, recordCapabilityMutationDispatchOutcome(i)
    PROVE  MigInv'
<1>0. MigTypeOK /\ SentOnce /\ Carried /\ inv \in [Invs -> Invocations]
  BY InvType DEF MigInv
<1>1. inv[i].pc = "record" /\ UNCHANGED <<store, remote, overran, faults>>
  BY DEF recordCapabilityMutationDispatchOutcome
<1>2. PICK o \in Ops : o = inv[i].op
  BY <1>0, <1>1 DEF Carried, CarriedBy
<1>3. PICK k \in Kinds : k = inv[i].kind
  BY <1>0, <1>1 DEF Carried, CarriedBy
<1>4. /\ inv[i].result \in Outcomes
      /\ inv[i].result = "definitively_failed" => child[o][k] = "none" /\ <<o, k>> \notin touched
  BY <1>0, <1>1, <1>2, <1>3 DEF Carried, CarriedBy
<1>5. PICK result : result = IF ledger[o][k] = "dispatched" THEN inv[i].result ELSE "ambiguous"
  OBVIOUS
<1>6. /\ result \in Outcomes /\ result \in Results \ {"none"} /\ result \in LedgerStates \ {"none"}
      /\ result \in Untried => result = "definitively_failed"
      /\ result \notin {"reserved", "none"}
      /\ result = "definitively_failed" =>
             ledger[o][k] = "dispatched" /\ child[o][k] = "none" /\ <<o, k>> \notin touched
  BY <1>4, <1>5 DEF Outcomes, Results, LedgerStates, Untried
<1>7. PICK state : state = IF ledger[o][k] = "dispatched" THEN result ELSE ledger[o][k]
  OBVIOUS
<1>8. state \in LedgerStates \ {"none"} /\ ledger' = [ledger EXCEPT ![o][k] = state]
  <2>1. ledger[o][k] \in LedgerStates \ {"none"}
    BY <1>0, <1>1, <1>2, <1>3, TypeParts DEF Carried, CarriedBy
  <2>. QED  BY <1>2, <1>3, <1>5, <1>6, <1>7, <2>1 DEF recordCapabilityMutationDispatchOutcome
<1>9. /\ state = "reserved" => ledger[o][k] \in {"none", "reserved"}
      /\ state = "definitively_failed" =>
               \/ ledger[o][k] = "definitively_failed"
               \/ child[o][k] = "none" /\ <<o, k>> \notin touched
  BY <1>6, <1>7
<1>10. LedgerForward /\ ledger' \in [Ops -> [Kinds -> LedgerStates]] /\ ledger'[o][k] = state
  BY <1>0, <1>8, <1>9, EntryForward
<1>11. Proceed(i, handleUpdateResult(Decided(i), ModeOf[o], k, result))
  BY <1>2, <1>3, <1>5 DEF recordCapabilityMutationDispatchOutcome
<1>12. result \in Untried => <<o, k>> \notin touched /\ child[o][k] = "none" /\ ledger'[o][k] # "reserved"
  BY <1>6, <1>7, <1>10
<1>. QED  BY <1>1, <1>2, <1>3, <1>6, <1>10, <1>11, <1>12, OutcomeKeeps

-----------------------------------------------------------------------------
(* Steps that write one operation's record *)

StillWorkflow == UNCHANGED <<ledger, child, topology, touched, spawns, overran>>

\* Every invocation but i goes on with its work, and none of them with a current copy
\* of the operation that is written.
OthersStale(i, o) ==
    \A j \in Invs \ {i} : /\ SameWork(j)
                          /\ inv[j].op = o => ~Current(j)'
                          /\ inv[j].op # o => inv'[j] = inv[j]

\* The parts of the invariant of an operation that is written, and of its writer.
WrittenBy(i, o) ==
    /\ Shape(ops'[o], ModeOf[o])
    /\ lease'[o] # NoInv => ops'[o].status \notin {"absent", "prepared", "queued"}
    /\ \A k \in Kinds : /\ Marks(ops[o], k) => Marks(ops'[o], k)
                        /\ Marks(ops'[o], k) => ledger[o][k] # "none"
    /\ Held(o)' => \A p \in Ops \ {o} : ~Held(p)
    /\ ~overran => /\ \A k \in Kinds : child[o][k] = "none"
                   /\ \A j \in Invs \ {i} : inv[j].op = o => inv[j].pc \notin {"consume", "await"}
    /\ ops'[o].status = "failed" => Sealed(o) /\ (i \in Invs => inv'[i].pc # "consume")
    /\ ExpiredLease(o)' => ExpiredLease(o)
    /\ i \in Invs => /\ inv'[i].op = o \/ (inv'[i].op = NoOp /\ inv'[i].pc = "idle")
                     /\ CarriedBy(i)' /\ (Current(i)' => DecidedBy(i)')
                     /\ inv'[i].pc # "await"
                     /\ inv'[i].pc = "consume" => Current(i)' /\ inForce'[o]
                     /\ inv'[i].pc = "persist" =>
                           inv'[i].decision.next.status \notin {"completed", "rolled_back", "failed"}
                     /\ inv'[i].pc = "acquire" => ~ExpiredLease(o)'

LEMMA WriteKeepsSealed ==
    ASSUME StillWorkflow, NEW i, NEW o \in Ops, OthersStale(i, o), NEW p \in Ops, Sealed(p),
           i \in Invs => inv'[i].pc # "consume" \/ inv'[i].op # p
    PROVE  Sealed(p)'
<1>1. \A j \in Invs, k \in Kinds : Of(j, p, k, {"consume"})' => Of(j, p, k, {"consume"})
  BY DEF Of, OthersStale, SameWork
<1>. QED  BY <1>1 DEF Sealed, StillWorkflow

LEMMA WriteKeeps ==
    ASSUME MigInv, MigTypeOK', StillWorkflow, NEW i, NEW o \in Ops,
           \A p \in Ops \ {o} : ops'[p] = ops[p] /\ lease'[p] = lease[p] /\ inForce'[p] = inForce[p],
           OthersStale(i, o), WrittenBy(i, o)
    PROVE  MigInv'
<1>0. /\ MigTypeOK /\ SentOnce /\ Carried /\ AwaitedByOne /\ Shaped /\ Decisions
      /\ OneHolder /\ Covered /\ Verdicts /\ FailedSealed /\ NoLateAcquire
  BY DEF MigInv
<1>1. SentOnce'
  <2>1. \A p \in Ops, k \in Kinds : /\ spawns[p][k] = 1 => Marks(ops'[p], k)
                                    /\ Marks(ops'[p], k) => ledger[p][k] # "none"
    <3>. SUFFICES ASSUME NEW p \in Ops, NEW k \in Kinds
                  PROVE  /\ spawns[p][k] = 1 => Marks(ops'[p], k)
                         /\ Marks(ops'[p], k) => ledger[p][k] # "none"
      OBVIOUS
    <3>1. CASE p = o
      BY <1>0, <3>1 DEF WrittenBy, SentOnce
    <3>2. CASE p # o
      BY <1>0, <3>2 DEF SentOnce
    <3>. QED  BY <3>1, <3>2
  <2>. QED  BY <1>0, <2>1 DEF SentOnce, StillWorkflow
<1>2. Carried'
  <2>1. Forward
    <3>1. \A p \in Ops, k \in Kinds : Marks(ops[p], k) => Marks(ops'[p], k)
      <4>. SUFFICES ASSUME NEW p \in Ops, NEW k \in Kinds PROVE Marks(ops[p], k) => Marks(ops'[p], k)
        OBVIOUS
      <4>1. CASE p = o
        BY <4>1 DEF WrittenBy
      <4>2. CASE p # o
        BY <4>2
      <4>. QED  BY <4>1, <4>2
    <3>. QED  BY <3>1 DEF Forward, StillWorkflow
  <2>2. ASSUME NEW j \in Invs, j # i PROVE CarriedBy(j)'
    <3>1. SameWork(j)
      BY <2>2 DEF OthersStale
    <3>2. /\ inv[j].pc = "await" => child'[inv[j].op][inv[j].kind] # "none"
          /\ inv[j].pc = "record" /\ inv[j].result = "definitively_failed"
                => /\ child'[inv[j].op][inv[j].kind] = "none"
                   /\ <<inv[j].op, inv[j].kind>> \notin touched'
      BY <1>0 DEF Carried, CarriedBy, StillWorkflow
    <3>. QED  BY <1>0, <2>1, <3>1, <3>2, OthersCarried
  <2>. QED  BY <2>2 DEF Carried, WrittenBy
<1>3. AwaitedByOne'
  <2>1. \A j \in Invs : inv'[j].pc = "await" => j # i /\ SameWork(j)
    BY DEF WrittenBy, OthersStale
  <2>. QED  BY <1>0, <2>1 DEF AwaitedByOne, SameWork
<1>4. Shaped'
  <2>. SUFFICES ASSUME NEW p \in Ops
                PROVE  /\ Shape(ops'[p], ModeOf[p])
                       /\ lease'[p] # NoInv => ops'[p].status \notin {"absent", "prepared", "queued"}
    BY DEF Shaped
  <2>1. CASE p = o
    BY <2>1 DEF WrittenBy
  <2>2. CASE p # o
    BY <1>0, <2>2 DEF Shaped
  <2>. QED  BY <2>1, <2>2
<1>5. \A j \in Invs : j # i /\ Current(j)' => Current(j) /\ inv[j].op # o /\ inv'[j] = inv[j]
  <2>1. ASSUME NEW j \in Invs, j # i, Current(j)' PROVE inv[j].op # o /\ inv'[j] = inv[j]
    BY <2>1 DEF OthersStale
  <2>. QED  BY <2>1 DEF Current
<1>6. Decisions'
  <2>. SUFFICES ASSUME NEW j \in Invs, Current(j)' PROVE DecidedBy(j)'
    BY DEF Decisions
  <2>1. CASE j = i
    BY <2>1 DEF WrittenBy
  <2>2. CASE j # i
    <3>1. Current(j) /\ DecidedBy(j) /\ inv'[j] = inv[j]
      BY <1>0, <1>5, <2>2 DEF Decisions
    <3>2. PICK p \in Ops : p = inv[j].op /\ p # o /\ ops'[p] = ops[p]
      BY <1>5, <2>2 DEF Current
    <3>. QED  BY <3>1, <3>2 DEF DecidedBy
  <2>. QED  BY <2>1, <2>2
<1>7. \A p \in Ops : p # o => (Held(p)' <=> Held(p)) /\ (ExpiredLease(p)' <=> ExpiredLease(p))
  BY DEF Held, ExpiredLease
<1>8. OneHolder'
  <2>. SUFFICES ASSUME NEW p \in Ops, NEW q \in Ops, Held(p)', Held(q)' PROVE p = q
    BY DEF OneHolder
  <2>1. CASE p = o /\ q # o
    BY <1>7, <2>1 DEF WrittenBy
  <2>2. CASE q = o /\ p # o
    BY <1>7, <2>2 DEF WrittenBy
  <2>3. CASE p # o /\ q # o
    BY <1>0, <1>7, <2>3 DEF OneHolder
  <2>. QED  BY <2>1, <2>2, <2>3
<1>9. Covered'
  <2>. SUFFICES ASSUME ~overran
                PROVE  /\ \A j \in Invs : inv'[j].pc \in {"consume", "await"} => Current(j)' /\ inForce'[inv'[j].op]
                       /\ \A p \in Ops, k \in Kinds : child[p][k] # "none" =>
                             /\ Held(p)' /\ ~Settled(p)'
                             /\ \A j \in Invs : Current(j)' /\ inv'[j].op = p => inv'[j].pc = "await" /\ inv'[j].kind = k
    BY DEF Covered, StillWorkflow
  <2>1. ASSUME NEW j \in Invs, inv'[j].pc \in {"consume", "await"}
        PROVE  Current(j)' /\ inForce'[inv'[j].op]
    <3>1. CASE j = i
      <4>1. inv'[i].pc = "consume" /\ Current(i)' /\ inForce'[o]
        BY <2>1, <3>1 DEF WrittenBy
      <4>2. inv'[i].op = o
        BY <3>1, <4>1 DEF WrittenBy
      <4>. QED  BY <3>1, <4>1, <4>2
    <3>2. CASE j # i
      <4>1. SameWork(j)
        BY <3>2 DEF OthersStale
      <4>2. inv[j].pc \in {"consume", "await"} /\ inv[j].op # o
        BY <2>1, <3>2, <4>1 DEF WrittenBy, SameWork
      <4>3. inv'[j] = inv[j]
        BY <3>2, <4>2 DEF OthersStale
      <4>4. Current(j) /\ inForce[inv[j].op]
        BY <1>0, <4>2 DEF Covered
      <4>. QED  BY <4>2, <4>3, <4>4 DEF Current
    <3>. QED  BY <3>1, <3>2
  <2>2. ASSUME NEW p \in Ops, NEW k \in Kinds, child[p][k] # "none"
        PROVE  /\ Held(p)' /\ ~Settled(p)'
               /\ \A j \in Invs : Current(j)' /\ inv'[j].op = p => inv'[j].pc = "await" /\ inv'[j].kind = k
    <3>1. p # o
      BY <2>2 DEF WrittenBy
    <3>2. Held(p)' /\ ~Settled(p)'
      BY <1>0, <1>7, <2>2, <3>1 DEF Covered, Settled
    <3>3. ASSUME NEW j \in Invs, Current(j)', inv'[j].op = p PROVE inv'[j].pc = "await" /\ inv'[j].kind = k
      <4>1. j # i
        BY <3>1, <3>3, MigrationAssumption DEF WrittenBy, Current
      <4>2. Current(j) /\ inv'[j] = inv[j]
        BY <1>5, <3>3, <4>1
      <4>. QED  BY <1>0, <2>2, <3>3, <4>2 DEF Covered
    <3>. QED  BY <3>2, <3>3
  <2>. QED  BY <2>1, <2>2
<1>10. Verdicts'
  <2>. SUFFICES ASSUME ~overran, NEW j \in Invs, inv'[j].pc = "persist", Current(j)', inForce'[inv'[j].op]
                PROVE  /\ inv'[j].decision.next.status = "completed" => topology = "candidate"
                       /\ inv'[j].decision.next.status = "rolled_back" => topology = "rollback"
    BY DEF Verdicts, StillWorkflow
  <2>1. CASE j = i
    BY <2>1 DEF WrittenBy
  <2>2. CASE j # i
    <3>1. Current(j) /\ inv'[j] = inv[j]
      BY <1>5, <2>2
    <3>2. PICK p \in Ops : p = inv[j].op /\ p # o
      BY <1>5, <2>2 DEF Current
    <3>. QED  BY <1>0, <3>1, <3>2 DEF Verdicts
  <2>. QED  BY <2>1, <2>2
<1>11. FailedSealed'
  <2>1. ASSUME NEW p \in Ops, Sealed(p), p # o PROVE Sealed(p)'
    <3>1. i \in Invs => inv'[i].pc # "consume" \/ inv'[i].op # p
      BY <2>1 DEF WrittenBy
    <3>. QED  BY <2>1, <3>1, WriteKeepsSealed
  <2>2. ASSUME NEW p \in Ops, ops'[p].status = "failed" PROVE Sealed(p)'
    <3>1. CASE p = o
      BY <2>2, <3>1, WriteKeepsSealed DEF WrittenBy
    <3>2. CASE p # o
      BY <1>0, <2>1, <2>2, <3>2 DEF FailedSealed
    <3>. QED  BY <3>1, <3>2
  <2>3. ASSUME NEW j \in Invs, inv'[j].pc = "persist", Current(j)', inv'[j].decision.next.status = "failed",
               NEW p \in Ops, p = inv'[j].op
        PROVE  Sealed(p)'
    <3>1. j # i
      BY <2>3 DEF WrittenBy
    <3>2. Current(j) /\ p # o /\ inv'[j] = inv[j]
      BY <1>5, <2>3, <3>1
    <3>. QED  BY <1>0, <2>1, <2>3, <3>2 DEF FailedSealed
  <2>4. \A j \in Invs : Current(j)' => inv'[j].op \in Ops
    BY DEF Current
  <2>. QED  BY <2>2, <2>3, <2>4 DEF FailedSealed
<1>12. NoLateAcquire'
  <2>. SUFFICES ASSUME ~Suspends, NEW j \in Invs, inv'[j].pc = "acquire", NEW p, p = inv'[j].op,
                       ExpiredLease(p)'
                PROVE  FALSE
    BY DEF NoLateAcquire
  <2>1. p \in Ops
    BY <1>2 DEF Carried, CarriedBy
  <2>2. CASE j = i
    BY <2>2 DEF WrittenBy
  <2>3. CASE j # i
    <3>1. inv[j].pc = "acquire" /\ inv[j].op = p
      BY <2>3 DEF OthersStale, SameWork
    <3>. QED  BY <1>0, <1>7, <2>1, <3>1 DEF NoLateAcquire, WrittenBy
  <2>. QED  BY <2>2, <2>3
<1>. QED  BY <1>1, <1>2, <1>3, <1>4, <1>6, <1>8, <1>9, <1>10, <1>11, <1>12 DEF MigInv

\* What a write does to the invocations.
LEMMA ReloadedIs ==
    ASSUME inv \in [Invs -> Invocations], NEW i \in Invs, NEW o, NEW next \in Invocations,
           inv' = Reloaded(i, o, next)
    PROVE  /\ inv' \in [Invs -> Invocations]
           /\ inv'[i].op = next.op /\ inv'[i].pc = next.pc /\ inv'[i].kind = next.kind
           /\ inv'[i].decision = next.decision /\ inv'[i].fresh
           /\ OthersStale(i, o)
<1>1. PICK own : own = [next EXCEPT !.fresh = TRUE]
  OBVIOUS
<1>2. /\ own \in Invocations /\ own.op = next.op /\ own.pc = next.pc /\ own.kind = next.kind
      /\ own.decision = next.decision /\ own.fresh
  BY <1>1 DEF Invocations
<1>3. PICK stale : stale = [j \in Invs |-> [inv[j] EXCEPT !.fresh = FALSE]]
  OBVIOUS
<1>4. ASSUME NEW j \in Invs
      PROVE  /\ stale[j] \in Invocations
             /\ stale[j].op = inv[j].op /\ stale[j].pc = inv[j].pc /\ stale[j].kind = inv[j].kind
             /\ stale[j].decision = inv[j].decision /\ stale[j].result = inv[j].result
             /\ ~stale[j].fresh
  <2>1. stale[j] = [inv[j] EXCEPT !.fresh = FALSE] /\ inv[j] \in Invocations
    BY <1>3
  <2>. QED  BY <2>1 DEF Invocations
<1>5. inv' = [j \in Invs |-> IF j = i THEN own ELSE IF inv[j].op = o THEN stale[j] ELSE inv[j]]
  BY <1>1, <1>3 DEF Reloaded
<1>6. inv' \in [Invs -> Invocations] /\ inv'[i] = own
  BY <1>2, <1>4, <1>5
<1>7. ASSUME NEW j \in Invs, j # i
      PROVE  SameWork(j) /\ (inv[j].op = o => ~Current(j)') /\ (inv[j].op # o => inv'[j] = inv[j])
  <2>1. CASE inv[j].op = o
    <3>1. inv'[j] = stale[j]
      BY <1>5, <1>7, <2>1
    <3>. QED  BY <1>4, <2>1, <3>1 DEF SameWork, Current
  <2>2. CASE inv[j].op # o
    <3>1. inv'[j] = inv[j]
      BY <1>5, <1>7, <2>2
    <3>. QED  BY <2>2, <3>1 DEF SameWork
  <2>. QED  BY <2>1, <2>2
<1>. QED  BY <1>2, <1>6, <1>7 DEF OthersStale

\* The holder of a lease that is not waiting for an update is alone with its operation.
LEMMA OwnerAlone ==
    ASSUME MigInv, NEW i \in Invs, Current(i), inv[i].pc # "await", NEW o \in Ops, o = inv[i].op, ~overran
    PROVE  /\ \A k \in Kinds : child[o][k] = "none"
           /\ \A j \in Invs \ {i} : inv[j].op = o => inv[j].pc \notin {"consume", "await"}
<1>0. Covered
  BY DEF MigInv
<1>1. \A k \in Kinds : child[o][k] = "none"
  BY <1>0 DEF Covered
<1>2. \A j \in Invs : inv[j].op = o /\ inv[j].pc \in {"consume", "await"} => lease[o] = j
  BY <1>0 DEF Covered, Current
<1>3. lease[o] = i
  BY DEF Current
<1>. QED  BY <1>1, <1>2, <1>3

\* Nobody works on an operation whose lease is not in force.
LEMMA UnheldAlone ==
    ASSUME MigInv, NEW o \in Ops, ~Held(o), ~overran
    PROVE  /\ \A k \in Kinds : child[o][k] = "none"
           /\ \A j \in Invs : inv[j].op = o => inv[j].pc \notin {"consume", "await"}
<1>0. Covered
  BY DEF MigInv
<1>1. \A j \in Invs : inv[j].op = o /\ inv[j].pc \in {"consume", "await"} => lease[o] = j /\ inForce[o]
  BY <1>0 DEF Covered, Current
<1>. QED  BY <1>0, <1>1, MigrationAssumption DEF Covered, Held

LEMMA LeasedGoOn ==
    ASSUME NEW from \in Leased, NEW to, isControlledWorkflowMigrationStateTransition(from, to)
    PROVE  to \notin {"absent", "prepared", "queued"}
<1>1. CASE from = "running"
  BY <1>1 DEF isControlledWorkflowMigrationStateTransition, LEGAL_STATE_TRANSITIONS
<1>2. CASE from = "reconciling"
  BY <1>2 DEF isControlledWorkflowMigrationStateTransition, LEGAL_STATE_TRANSITIONS
<1>3. CASE from = "rolling_back"
  BY <1>3 DEF isControlledWorkflowMigrationStateTransition, LEGAL_STATE_TRANSITIONS
<1>. QED  BY <1>1, <1>2, <1>3 DEF Leased

LEMMA TransitionKeeps ==
    ASSUME MigInv, NEW i \in Invs, transitionCapabilityOperation(i)
    PROVE  MigInv'
<1>0. /\ MigTypeOK /\ SentOnce /\ Carried /\ Shaped /\ Decisions /\ OneHolder /\ FailedSealed
      /\ inv \in [Invs -> Invocations]
  BY InvType DEF MigInv
<1>1. PICK o \in Ops : o = inv[i].op
  BY <1>0 DEF transitionCapabilityOperation, Carried, CarriedBy
<1>2. PICK d \in Decision : d = inv[i].decision
  BY <1>0 DEF Invocations
<1>3. /\ inv[i].pc = "persist" /\ inv[i].fresh /\ lease[o] = i /\ inForce[o] /\ ops[o].status \in Leased
      /\ isControlledWorkflowMigrationStateTransition(ops[o].status, d.next.status)
      /\ ops' = [ops EXCEPT ![o] = d.next]
      /\ inv' = Reloaded(i, o, [inv[i] EXCEPT !.pc = AfterPersist(d.effect)])
      /\ UNCHANGED <<lease, inForce, lapsed, ledger, remote, overran, faults>>
  BY <1>1, <1>2 DEF transitionCapabilityOperation, Owns
<1>4. Current(i) /\ Acceptable(ops[o], ModeOf[o], d)
  <2>1. Current(i)
    BY <1>1, <1>3 DEF Current
  <2>. QED  BY <1>0, <1>1, <1>2, <1>3, <2>1 DEF Decisions, DecidedBy
<1>5. d.next \in Operation /\ d.effect \in Effects \ {"none"}
  BY <1>0, <1>2, <1>3 DEF Decision, Carried, CarriedBy
<1>6. PICK pc : pc = AfterPersist(d.effect)
  OBVIOUS
<1>7. /\ pc \in {"release", "reserve", "renew"}
      /\ pc = "renew" => d.effect \in Reads \union {"apply_candidate", "apply_rollback"}
  BY <1>5, <1>6 DEF AfterPersist, Effects, Reads
<1>8. PICK next : next = [inv[i] EXCEPT !.pc = pc]
  OBVIOUS
<1>9. /\ next \in Invocations /\ next.pc = pc /\ next.op = o /\ next.decision = d
  BY <1>0, <1>1, <1>2, <1>7, <1>8 DEF Invocations, PCs
<1>10. inv' = Reloaded(i, o, next)
  BY <1>3, <1>6, <1>8
<1>11. /\ inv' \in [Invs -> Invocations] /\ OthersStale(i, o)
       /\ inv'[i].pc = pc /\ inv'[i].op = o /\ inv'[i].decision = d
  BY <1>0, <1>9, <1>10, ReloadedIs
<1>12. ops' \in [Ops -> Operation] /\ ops'[o] = d.next /\ \A p \in Ops \ {o} : ops'[p] = ops[p]
  BY <1>0, <1>3, <1>5, TypeParts
<1>13. MigTypeOK'
  BY <1>0, <1>3, <1>11, <1>12, TypeParts, NextTyped DEF remote
<1>14. StillWorkflow
  BY <1>3 DEF StillWorkflow, remote
<1>15. ApplyEffect(d.effect) => ledger[o][EffectKind(d.effect)] # "none"
  BY <1>0, <1>1, <1>2, <1>3 DEF Carried, CarriedBy
<1>16. CarriedBy(i)'
  BY <1>3, <1>7, <1>11, <1>15 DEF CarriedBy
<1>17. DecidedBy(i)'
  BY <1>4, <1>7, <1>11, <1>12 DEF DecidedBy, Acceptable
<1>18. \A k \in Kinds : /\ Marks(ops[o], k) => Marks(ops'[o], k)
                        /\ Marks(ops'[o], k) => ledger[o][k] # "none"
  BY <1>0, <1>4, <1>12, <1>15 DEF Acceptable, SentOnce
<1>19. Held(o) /\ (Held(o)' => \A p \in Ops \ {o} : ~Held(p))
  BY <1>0, <1>3, MigrationAssumption DEF OneHolder, Held
<1>20. ops'[o].status = "failed" => Sealed(o)
  BY <1>0, <1>1, <1>2, <1>3, <1>4, <1>12 DEF FailedSealed
<1>21. ops'[o].status \notin {"absent", "prepared", "queued"}
  BY <1>3, <1>12, LeasedGoOn
<1>22. ~overran => /\ \A k \in Kinds : child[o][k] = "none"
                   /\ \A j \in Invs \ {i} : inv[j].op = o => inv[j].pc \notin {"consume", "await"}
  BY <1>1, <1>3, <1>4, OwnerAlone
<1>23. ExpiredLease(o)' => ExpiredLease(o)
  BY <1>3 DEF ExpiredLease
<1>24. Shape(ops'[o], ModeOf[o])
  BY <1>4, <1>12 DEF Acceptable
<1>25. WrittenBy(i, o)
  BY <1>7, <1>11, <1>16, <1>17, <1>18, <1>19, <1>20, <1>21, <1>22, <1>23, <1>24 DEF WrittenBy
<1>. QED  BY <1>3, <1>11, <1>12, <1>13, <1>14, <1>25, WriteKeeps

LEMMA ReleaseKeeps ==
    ASSUME MigInv, NEW i \in Invs, releaseCapabilityOperationLease(i)
    PROVE  MigInv'
<1>0. /\ MigTypeOK /\ SentOnce /\ Carried /\ Shaped /\ FailedSealed /\ inv \in [Invs -> Invocations]
  BY InvType DEF MigInv
<1>1. PICK o \in Ops : o = inv[i].op
  BY <1>0 DEF releaseCapabilityOperationLease, Carried, CarriedBy
<1>2. /\ inv[i].pc = "release" /\ inv[i].fresh /\ lease[o] = i /\ inForce[o]
      /\ lease' = [lease EXCEPT ![o] = NoInv]
      /\ inForce' = [inForce EXCEPT ![o] = FALSE]
      /\ inv' = Reloaded(i, o, Idle)
      /\ UNCHANGED <<ops, lapsed, ledger, remote, overran, faults>>
  BY <1>1 DEF releaseCapabilityOperationLease
<1>3. /\ inv' \in [Invs -> Invocations] /\ OthersStale(i, o)
      /\ inv'[i].pc = "idle" /\ inv'[i].op = NoOp
  BY <1>0, <1>2, ReloadedIs, IdleTyped
<1>4. /\ lease' \in [Ops -> Invs \union {NoInv}] /\ inForce' \in [Ops -> BOOLEAN]
      /\ lease'[o] = NoInv
      /\ \A p \in Ops \ {o} : lease'[p] = lease[p] /\ inForce'[p] = inForce[p]
  BY <1>0, <1>2, TypeParts
<1>5. MigTypeOK'
  BY <1>0, <1>2, <1>3, <1>4, TypeParts, NextTyped DEF remote
<1>6. StillWorkflow
  BY <1>2 DEF StillWorkflow, remote
<1>7. CarriedBy(i)' /\ ~Current(i)'
  BY <1>3, MigrationAssumption DEF CarriedBy, Current
<1>8. ~Held(o)' /\ ~ExpiredLease(o)'
  BY <1>4 DEF Held, ExpiredLease
<1>9. ~overran => /\ \A k \in Kinds : child[o][k] = "none"
                  /\ \A j \in Invs \ {i} : inv[j].op = o => inv[j].pc \notin {"consume", "await"}
  BY <1>1, <1>2, OwnerAlone DEF Current
<1>10. \A k \in Kinds : Marks(ops[o], k) => ledger[o][k] # "none"
  BY <1>0 DEF SentOnce
<1>11. Shape(ops[o], ModeOf[o]) /\ (ops[o].status = "failed" => Sealed(o))
  BY <1>0 DEF Shaped, FailedSealed
<1>12. WrittenBy(i, o)
  BY <1>2, <1>3, <1>4, <1>7, <1>8, <1>9, <1>10, <1>11 DEF WrittenBy
<1>. QED  BY <1>2, <1>3, <1>4, <1>5, <1>6, <1>12, WriteKeeps

LEMMA RenewKeeps ==
    ASSUME MigInv, NEW i \in Invs, renewCapabilityOperationLease(i)
    PROVE  MigInv'
<1>0. /\ MigTypeOK /\ SentOnce /\ Carried /\ Shaped /\ Decisions /\ OneHolder /\ FailedSealed
      /\ inv \in [Invs -> Invocations]
  BY InvType DEF MigInv
<1>1. PICK o \in Ops : o = inv[i].op
  BY <1>0 DEF renewCapabilityOperationLease, Carried, CarriedBy
<1>2. PICK d \in Decision : d = inv[i].decision
  BY <1>0 DEF Invocations
<1>3. PICK pc : pc = IF d.effect \in Reads THEN "read" ELSE "consume"
  OBVIOUS
<1>4. PICK k : k = EffectKind(d.effect)
  OBVIOUS
<1>5. /\ inv[i].pc = "renew" /\ inv[i].fresh /\ lease[o] = i /\ inForce[o] /\ ops[o].status \in Leased
      /\ inv' = Reloaded(i, o, [inv[i] EXCEPT !.pc = pc, !.kind = k])
      /\ UNCHANGED <<store, ledger, remote, overran, faults>>
  BY <1>1, <1>2, <1>3, <1>4 DEF renewCapabilityOperationLease, Owns
<1>6. Current(i) /\ ops[o] = d.next /\ Judged(ops[o], ModeOf[o], d.effect)
  <2>1. Current(i)
    BY <1>1, <1>5 DEF Current
  <2>. QED  BY <1>0, <1>1, <1>2, <1>5, <2>1 DEF Decisions, DecidedBy
<1>7. /\ k \in Kinds /\ pc \in {"read", "consume"}
      /\ pc = "read" => d.effect \in Reads
      /\ pc = "consume" => ApplyEffect(d.effect)
  BY <1>0, <1>2, <1>3, <1>4, <1>5 DEF EffectKind, Kinds, Carried, CarriedBy, ApplyEffect
<1>8. PICK next : next = [inv[i] EXCEPT !.pc = pc, !.kind = k]
  OBVIOUS
<1>9. /\ next \in Invocations /\ next.pc = pc /\ next.op = o /\ next.decision = d /\ next.kind = k
  BY <1>0, <1>1, <1>2, <1>7, <1>8 DEF Invocations, PCs
<1>10. inv' = Reloaded(i, o, next)
  BY <1>5, <1>8
<1>11. /\ inv' \in [Invs -> Invocations] /\ OthersStale(i, o) /\ inv'[i].fresh
       /\ inv'[i].pc = pc /\ inv'[i].op = o /\ inv'[i].decision = d /\ inv'[i].kind = k
  BY <1>0, <1>9, <1>10, ReloadedIs
<1>12. UNCHANGED <<ops, lease, inForce, lapsed>>
  BY <1>5 DEF store
<1>13. MigTypeOK'
  BY <1>0, <1>5, <1>11, <1>12, TypeParts, NextTyped DEF remote
<1>14. StillWorkflow
  BY <1>5 DEF StillWorkflow, remote
<1>15. pc = "consume" => Marks(ops[o], k) /\ ledger[o][k] # "none"
  BY <1>0, <1>1, <1>2, <1>4, <1>5, <1>6, <1>7 DEF Judged, Carried, CarriedBy
<1>16. CarriedBy(i)'
  BY <1>4, <1>5, <1>7, <1>11, <1>12, <1>15 DEF CarriedBy
<1>17. DecidedBy(i)' /\ Current(i)'
  BY <1>5, <1>6, <1>7, <1>11, <1>12 DEF DecidedBy, Current
<1>18. \A k2 \in Kinds : Marks(ops[o], k2) => ledger[o][k2] # "none"
  BY <1>0 DEF SentOnce
<1>19. Held(o) /\ (Held(o)' => \A p \in Ops \ {o} : ~Held(p))
  BY <1>0, <1>5, MigrationAssumption DEF OneHolder, Held
<1>20. ops[o].status \notin {"failed", "absent", "prepared", "queued"}
  BY <1>5 DEF Leased
<1>21. ~overran => /\ \A h \in Kinds : child[o][h] = "none"
                   /\ \A j \in Invs \ {i} : inv[j].op = o => inv[j].pc \notin {"consume", "await"}
  BY <1>1, <1>5, <1>6, OwnerAlone
<1>22. ExpiredLease(o)' => ExpiredLease(o)
  BY <1>12 DEF ExpiredLease
<1>23. Shape(ops[o], ModeOf[o])
  BY <1>0 DEF Shaped
<1>24. WrittenBy(i, o)
  BY <1>5, <1>7, <1>11, <1>12, <1>16, <1>17, <1>18, <1>19, <1>20, <1>21, <1>22, <1>23 DEF WrittenBy
<1>. QED  BY <1>11, <1>12, <1>13, <1>14, <1>24, WriteKeeps

\* Giving an operation back its status after a lease that ran out.
LEMMA StatusWritten ==
    ASSUME NEW op \in Operation, NEW mode \in Modes, Shape(op, mode), NEW next,
           NEW status \in Statuses \ {"rolling_back"}, next = [op EXCEPT !.status = status],
           status = "running" /\ mode = "apply" => op.rollback = 0,
           status \in {"absent", "prepared", "queued"} => op.candidate = 0 /\ op.rollback = 0
    PROVE  /\ next \in Operation /\ Shape(next, mode) /\ next.status = status
           /\ next.candidate = op.candidate /\ next.rollback = op.rollback
           /\ \A k \in Kinds : Marks(next, k) <=> Marks(op, k)
<1>1. next \in Operation /\ next.status = status /\ SameMarks(op, next)
  BY StatusIs
<1>2. next.candidate = op.candidate /\ next.rollback = op.rollback /\ next.mutation = op.mutation
  BY <1>1 DEF SameMarks
<1>3. Shape(next, mode)
  BY <1>1, <1>2 DEF Shape
<1>. QED  BY <1>1, <1>2, <1>3 DEF Marks

LEMMA OneWritten ==
    ASSUME ops \in [Ops -> Operation], NEW o \in Ops, NEW next \in Operation, ops' = [ops EXCEPT ![o] = next]
    PROVE  ops' \in [Ops -> Operation] /\ ops'[o] = next /\ \A p \in Ops \ {o} : ops'[p] = ops[p]
  OBVIOUS

\* An operation without a lease in force is written, by an invocation or by none.
LEMMA UnheldKeeps ==
    ASSUME MigInv, NEW i, NEW o \in Ops, ~Held(o), NEW status \in Statuses \ {"rolling_back", "failed"},
           ops' = [ops EXCEPT ![o].status = status],
           status \in {"absent", "prepared", "queued", "running"} =>
               ops[o].status \in {"absent", "prepared", "queued"} /\ ops[o].candidate = 0 /\ ops[o].rollback = 0,
           lease' \in [Ops -> Invs \union {NoInv}], inForce' \in [Ops -> BOOLEAN],
           lapsed' \in [Ops -> BOOLEAN],
           \A p \in Ops \ {o} : lease'[p] = lease[p] /\ inForce'[p] = inForce[p],
           UNCHANGED <<ledger, remote, overran, faults>>,
           inv' \in [Invs -> Invocations], OthersStale(i, o),
           lease'[o] # NoInv => inForce'[o] /\ status \notin {"absent", "prepared", "queued"},
           Held(o)' => ~Conflicting(o),
           i \in Invs => /\ inv'[i].op = o \/ (inv'[i].op = NoOp /\ inv'[i].pc = "idle")
                         /\ CarriedBy(i)' /\ (Current(i)' => DecidedBy(i)')
                         /\ inv'[i].pc \notin {"await", "consume"}
                         /\ inv'[i].pc = "persist" =>
                               inv'[i].decision.next.status \notin {"completed", "rolled_back", "failed"}
    PROVE  MigInv'
<1>0. /\ MigTypeOK /\ SentOnce /\ Shaped
  BY DEF MigInv
<1>1. ops[o] \in Operation /\ ModeOf[o] \in Modes /\ Shape(ops[o], ModeOf[o])
  BY <1>0, TypeParts, ModeTyped DEF Shaped
<1>2. PICK next : next = [ops[o] EXCEPT !.status = status]
  OBVIOUS
<1>3. /\ next \in Operation /\ Shape(next, ModeOf[o]) /\ next.status = status
      /\ \A k \in Kinds : Marks(next, k) <=> Marks(ops[o], k)
  BY <1>1, <1>2, StatusWritten
<1>4. ops' \in [Ops -> Operation] /\ ops'[o] = next /\ \A p \in Ops \ {o} : ops'[p] = ops[p]
  <2>1. ops' = [ops EXCEPT ![o] = next]
    BY <1>2
  <2>2. ops \in [Ops -> Operation] /\ next \in Operation
    BY <1>0, <1>3, TypeParts
  <2>. QED  BY <2>1, <2>2, OneWritten, Zenon
<1>5. MigTypeOK'
  BY <1>0, <1>4, TypeParts, NextTyped DEF remote
<1>6. StillWorkflow
  BY DEF StillWorkflow, remote
<1>7. ~overran => /\ \A k \in Kinds : child[o][k] = "none"
                  /\ \A j \in Invs \ {i} : inv[j].op = o => inv[j].pc \notin {"consume", "await"}
  BY UnheldAlone
<1>8. Held(o)' => \A p \in Ops \ {o} : ~Held(p)
  BY DEF Conflicting, Held
<1>9. ~ExpiredLease(o)'
  BY DEF ExpiredLease
<1>10. \A k \in Kinds : Marks(ops[o], k) => ledger[o][k] # "none"
  BY <1>0 DEF SentOnce
<1>11. WrittenBy(i, o)
  BY <1>3, <1>4, <1>7, <1>8, <1>9, <1>10 DEF WrittenBy
<1>. QED  BY <1>4, <1>5, <1>6, <1>11, WriteKeeps

\* An operation that nobody has taken up yet has no lease.
LEMMA Unleased ==
    ASSUME MigInv, NEW o \in Ops, ops[o].status \in {"absent", "prepared", "queued"}
    PROVE  /\ lease[o] = NoInv /\ ~Held(o)
           /\ ops[o].candidate = 0 /\ ops[o].rollback = 0
           /\ \A i \in Invs : inv[i].op = o => ~Current(i)
<1>1. lease[o] = NoInv /\ Shape(ops[o], ModeOf[o])
  BY DEF MigInv, Shaped
<1>. QED  BY <1>1, MigrationAssumption DEF Held, Current, Shape

\* Writes that no invocation takes part in.
LEMMA UnattendedKeeps ==
    ASSUME MigInv, NEW o \in Ops,
           \/ prepareControlledWorkflowMigration(o)
           \/ confirmationLapses(o)
           \/ ops[o].status = "prepared" /\ ops' = [ops EXCEPT ![o].status = "expired"]
                /\ UNCHANGED <<lease, inForce, lapsed, ledger, remote, inv, overran, faults>>
    PROVE  MigInv'
<1>0. MigTypeOK /\ inv \in [Invs -> Invocations]
  BY InvType DEF MigInv
<1>1. /\ ops[o].status \in {"absent", "prepared"}
      /\ UNCHANGED <<lease, inForce, ledger, remote, inv, overran, faults>>
  BY DEF prepareControlledWorkflowMigration, confirmationLapses
<1>2. lapsed' \in [Ops -> BOOLEAN]
  <2>1. UNCHANGED lapsed \/ lapsed' = [lapsed EXCEPT ![o] = TRUE]
    BY DEF prepareControlledWorkflowMigration, confirmationLapses
  <2>. QED  BY <1>0, <2>1, TypeParts
<1>3. PICK status \in {"prepared", "expired"} : ops' = [ops EXCEPT ![o].status = status]
  <2>1. CASE confirmationLapses(o)
    <3>1. ops' = ops /\ ops[o].status = "prepared" /\ ops[o] \in Operation /\ ops \in [Ops -> Operation]
      BY <1>0, <2>1, TypeParts DEF confirmationLapses
    <3>2. [ops[o] EXCEPT !.status = "prepared"] = ops[o]
      BY <3>1 DEF Operation
    <3>3. ops' = [ops EXCEPT ![o].status = "prepared"]
      BY <3>1, <3>2
    <3>. QED  BY <3>3
  <2>2. CASE ~confirmationLapses(o)
    BY <2>2 DEF prepareControlledWorkflowMigration
  <2>. QED  BY <2>1, <2>2
<1>4. status \in Statuses \ {"rolling_back", "failed"}
  BY DEF Statuses, TERMINAL_STATUSES
<1>5. /\ lease[o] = NoInv /\ ~Held(o) /\ ops[o].candidate = 0 /\ ops[o].rollback = 0
      /\ \A i \in Invs : inv[i].op = o => ~Current(i)
  BY <1>1, Unleased
<1>6. OthersStale(NoInv, o) /\ ~Held(o)' /\ NoInv \notin Invs
  BY <1>1, <1>5, MigrationAssumption DEF OthersStale, SameWork, Current, Held
<1>. QED  BY <1>0, <1>1, <1>2, <1>3, <1>4, <1>5, <1>6, UnheldKeeps, TypeParts

LEMMA ConfirmKeeps ==
    ASSUME MigInv, NEW i \in Invs, NEW o \in Ops, consumeCapabilityOperationConfirmation(i, o)
    PROVE  MigInv'
<1>0. MigTypeOK /\ inv \in [Invs -> Invocations]
  BY InvType DEF MigInv
<1>1. ops[o].status = "prepared" /\ UNCHANGED <<lease, inForce, lapsed, ledger, remote, overran, faults>>
  BY DEF consumeCapabilityOperationConfirmation
<1>2. CASE lapsed[o]
  BY <1>1, <1>2, UnattendedKeeps DEF consumeCapabilityOperationConfirmation
<1>3. CASE ~lapsed[o]
  <2>1. PICK next : next = [Idle EXCEPT !.op = o, !.pc = "acquire"]
    OBVIOUS
  <2>2. next \in Invocations /\ next.op = o /\ next.pc = "acquire"
    BY <2>1, IdleTyped DEF Invocations, PCs
  <2>3. ops' = [ops EXCEPT ![o].status = "queued"] /\ inv' = Reloaded(i, o, next)
    BY <1>3, <2>1 DEF consumeCapabilityOperationConfirmation
  <2>4. inv' \in [Invs -> Invocations] /\ OthersStale(i, o) /\ inv'[i].op = o /\ inv'[i].pc = "acquire"
    BY <1>0, <2>2, <2>3, ReloadedIs
  <2>5. lease[o] = NoInv /\ ~Held(o) /\ ops[o].candidate = 0 /\ ops[o].rollback = 0
    BY <1>1, Unleased
  <2>6. CarriedBy(i)' /\ DecidedBy(i)' /\ ~Held(o)'
    BY <1>1, <2>4, <2>5 DEF CarriedBy, DecidedBy, Held
  <2>7. "queued" \in Statuses \ {"rolling_back", "failed"}
    BY DEF Statuses
  <2>. QED  BY <1>0, <1>1, <2>3, <2>4, <2>5, <2>6, <2>7, UnheldKeeps, TypeParts
<1>. QED  BY <1>2, <1>3

\* The decision an invocation begins with.
LEMMA FirstDecision ==
    ASSUME NEW op \in Operation, op.candidate = 0, op.rollback = 0, NEW mode \in Modes,
           NEW next \in Operation, next.status = "running", next.candidate = 0, next.rollback = 0,
           NEW d, d = handleLeaseResult(op)
    PROVE  /\ d \in Decision /\ d.effect = "read_precondition" /\ d.next.status = "running"
           /\ Acceptable(next, mode, d)
<1>1. /\ d \in Decision /\ d.effect = "read_precondition" /\ d.next.status = "running" /\ SameMarks(op, d.next)
  BY ReadBackIs DEF handleLeaseResult, Statuses, Effects
<1>2. d.next.candidate = 0 /\ d.next.rollback = 0
  BY <1>1 DEF SameMarks
<1>3. Shape(d.next, mode)
  BY <1>1, <1>2 DEF Shape
<1>4. isControlledWorkflowMigrationStateTransition(next.status, d.next.status)
  BY <1>1, LegalTransitions
<1>5. Judged(d.next, mode, d.effect)
  BY <1>1, <1>2, LegalEffects DEF Judged, ApplyEffect
<1>6. \A k \in Kinds : ~Marks(d.next, k) /\ ~Marks(next, k)
  BY <1>2 DEF Marks
<1>. QED  BY <1>1, <1>3, <1>4, <1>5, <1>6 DEF Acceptable

LEMMA AcquireKeeps ==
    ASSUME MigInv, NEW i \in Invs, NEW o \in Ops, acquire(i, o), UNCHANGED <<ledger, remote, overran, faults>>
    PROVE  MigInv'
<1>0. MigTypeOK /\ Shaped /\ inv \in [Invs -> Invocations]
  BY InvType DEF MigInv
<1>1. PICK status : status = IF ExpiredLease(o) THEN "reconciling" ELSE ops[o].status
  OBVIOUS
<1>2. CASE Held(o) \/ status \notin {"queued", "reconciling"}
  <2>1. Return(i) /\ UNCHANGED store
    BY <1>1, <1>2 DEF acquire, Held
  <2>. QED  BY <2>1, ReturnKeeps
<1>3. ASSUME ~Held(o), status \in {"queued", "reconciling"} PROVE MigInv'
  <2>1. status \in Statuses \ {"rolling_back", "failed"} /\ ops[o] \in Operation /\ ModeOf[o] \in Modes
    BY <1>0, <1>3, TypeParts, ModeTyped DEF Statuses, TERMINAL_STATUSES
  <2>2. status = "queued" => ops[o].status = "queued" /\ ops[o].candidate = 0 /\ ops[o].rollback = 0
    BY <1>1, Unleased
  <2>3. CASE Conflicting(o)
    <3>1. /\ Return(i) /\ ops' = [ops EXCEPT ![o].status = status]
          /\ lease' = [lease EXCEPT ![o] = NoInv] /\ UNCHANGED <<inForce, lapsed>>
      BY <1>1, <1>3, <2>3 DEF acquire, Held
    <3>2. inv' \in [Invs -> Invocations] /\ inv'[i] = Idle /\ \A j \in Invs : j # i => inv'[j] = inv[j]
      BY <1>0, <3>1, ReturnIs
    <3>3. /\ lease' \in [Ops -> Invs \union {NoInv}] /\ lease'[o] = NoInv
          /\ \A p \in Ops \ {o} : lease'[p] = lease[p]
      BY <1>0, <3>1, TypeParts
    <3>4. OthersStale(i, o)
      BY <3>2, <3>3, MigrationAssumption DEF OthersStale, SameWork, Current
    <3>5. ~Held(o)' /\ CarriedBy(i)' /\ ~Current(i)'
      BY <3>2, <3>3, IdleCarried DEF Held
    <3>6. inv'[i].op = NoOp /\ inv'[i].pc = "idle"
      BY <3>2, IdleTyped
    <3>7. inForce' \in [Ops -> BOOLEAN] /\ lapsed' \in [Ops -> BOOLEAN]
      BY <1>0, <3>1, TypeParts
    <3>. QED  BY <1>3, <2>1, <2>2, <3>1, <3>2, <3>3, <3>4, <3>5, <3>6, <3>7, UnheldKeeps
  <2>4. ASSUME ~Conflicting(o) PROVE MigInv'
    <3>1. /\ lease' = [lease EXCEPT ![o] = i] /\ inForce' = [inForce EXCEPT ![o] = TRUE] /\ UNCHANGED lapsed
      BY <1>1, <1>3, <2>4 DEF acquire, Held
    <3>2. /\ lease' \in [Ops -> Invs \union {NoInv}] /\ lease'[o] = i
          /\ inForce' \in [Ops -> BOOLEAN] /\ inForce'[o]
          /\ \A p \in Ops \ {o} : lease'[p] = lease[p] /\ inForce'[p] = inForce[p]
          /\ lapsed' \in [Ops -> BOOLEAN]
      BY <1>0, <3>1, TypeParts
    <3>3. CASE status = "queued"
      <4>1. PICK d : d = handleLeaseResult(ops[o])
        OBVIOUS
      <4>2. PICK next : next = [[Idle EXCEPT !.op = o] EXCEPT !.pc = "persist", !.decision = d]
        OBVIOUS
      <4>3. PICK written : written = [ops[o] EXCEPT !.status = "running"]
        OBVIOUS
      <4>4. ops' = [ops EXCEPT ![o] = written] /\ inv' = Reloaded(i, o, next)
        BY <1>1, <1>3, <2>4, <3>3, <4>1, <4>2, <4>3 DEF acquire, Held
      <4>5. written \in Operation /\ written.status = "running" /\ written.candidate = 0 /\ written.rollback = 0
        <5>1. SameMarks(ops[o], written) /\ written \in Operation /\ written.status = "running"
          BY <2>1, <4>3, StatusIs DEF Statuses
        <5>. QED  BY <2>2, <3>3, <5>1 DEF SameMarks
      <4>6. /\ d \in Decision /\ d.effect = "read_precondition" /\ d.next.status = "running"
            /\ Acceptable(written, ModeOf[o], d)
        BY <2>1, <2>2, <3>3, <4>1, <4>5, FirstDecision
      <4>7. next \in Invocations /\ next.op = o /\ next.pc = "persist" /\ next.decision = d
        BY <4>2, <4>6, IdleTyped DEF Invocations, PCs
      <4>8. /\ inv' \in [Invs -> Invocations] /\ OthersStale(i, o)
            /\ inv'[i].op = o /\ inv'[i].pc = "persist" /\ inv'[i].decision = d
        BY <1>0, <4>4, <4>7, ReloadedIs
      <4>9. ops'[o] = written
        BY <1>0, <4>4, <4>5, OneWritten, TypeParts
      <4>10. CarriedBy(i)' /\ DecidedBy(i)'
        BY <4>6, <4>8, <4>9 DEF CarriedBy, DecidedBy, ApplyEffect
      <4>11. ops' = [ops EXCEPT ![o].status = "running"] /\ "running" \in Statuses \ {"rolling_back", "failed"}
        BY <4>3, <4>4 DEF Statuses
      <4>. QED  BY <1>3, <2>2, <2>4, <3>2, <3>3, <4>6, <4>8, <4>10, <4>11, UnheldKeeps
    <3>4. CASE status = "reconciling"
      <4>1. PICK next : next = [[Idle EXCEPT !.op = o] EXCEPT !.pc = "recover"]
        OBVIOUS
      <4>2. ops' = [ops EXCEPT ![o].status = "reconciling"] /\ inv' = Reloaded(i, o, next)
        BY <1>1, <1>3, <2>4, <3>4, <4>1 DEF acquire, Held
      <4>3. next \in Invocations /\ next.op = o /\ next.pc = "recover"
        BY <4>1, IdleTyped DEF Invocations, PCs
      <4>4. inv' \in [Invs -> Invocations] /\ OthersStale(i, o) /\ inv'[i].op = o /\ inv'[i].pc = "recover"
        BY <1>0, <4>2, <4>3, ReloadedIs
      <4>5. CarriedBy(i)' /\ DecidedBy(i)'
        BY <4>4 DEF CarriedBy, DecidedBy
      <4>. QED  BY <1>3, <2>1, <2>4, <3>2, <3>4, <4>2, <4>4, <4>5, UnheldKeeps
    <3>. QED  BY <1>3, <3>3, <3>4
  <2>. QED  BY <2>3, <2>4
<1>. QED  BY <1>2, <1>3

\* A lease runs out.
LEMMA ExpiryKeeps ==
    ASSUME MigInv, NEW o \in Ops, leaseExpires(o)
    PROVE  MigInv'
<1>0. /\ MigTypeOK /\ SentOnce /\ Carried /\ AwaitedByOne /\ Shaped /\ Decisions
      /\ OneHolder /\ Covered /\ Verdicts /\ FailedSealed /\ NoLateAcquire
  BY DEF MigInv
<1>1. /\ inForce' = [inForce EXCEPT ![o] = FALSE]
      /\ UNCHANGED <<ops, lease, lapsed, ledger, child, topology, touched, spawns, inv>>
      /\ Fault \/ UNCHANGED faults
  BY DEF leaseExpires, remote
<1>2. inForce' \in [Ops -> BOOLEAN] /\ \A p \in Ops : (inForce'[p] => inForce[p]) /\ (p # o => inForce'[p] = inForce[p])
  BY <1>0, <1>1, TypeParts
<1>3. overran' \in BOOLEAN
  BY DEF leaseExpires
<1>4. ~overran' => /\ ~overran /\ \A k \in Kinds : child[o][k] = "none"
                   /\ \A i \in Invs : inv[i].op = o => inv[i].pc # "consume"
  BY DEF leaseExpires
<1>5. MigTypeOK'
  <2>1. faults' \in 0 .. MaxFaults
    BY <1>0, <1>1, FaultTyped
  <2>. QED  BY <1>0, <1>1, <1>2, <1>3, <2>1, TypeParts, NextTyped
<1>6. SentOnce' /\ AwaitedByOne'
  BY <1>0, <1>1 DEF SentOnce, AwaitedByOne
<1>7. Carried'
  BY <1>0, <1>1 DEF Carried, CarriedBy
<1>8. \A i \in Invs : (Current(i)' <=> Current(i)) /\ (DecidedBy(i)' <=> DecidedBy(i))
  BY <1>1 DEF Current, DecidedBy
<1>9. Shaped' /\ Decisions'
  BY <1>0, <1>1, <1>8 DEF Shaped, Decisions
<1>10. OneHolder'
  BY <1>0, <1>1, <1>2 DEF OneHolder, Held
<1>11. Covered'
  <2>. SUFFICES ASSUME ~overran'
                PROVE  /\ \A i \in Invs : inv[i].pc \in {"consume", "await"} => Current(i)' /\ inForce'[inv[i].op]
                       /\ \A p \in Ops, k \in Kinds : child[p][k] # "none" =>
                             /\ Held(p)' /\ ~Settled(p)'
                             /\ \A j \in Invs : Current(j)' /\ inv[j].op = p => inv[j].pc = "await" /\ inv[j].kind = k
    BY <1>1 DEF Covered
  <2>1. ASSUME NEW i \in Invs, inv[i].pc \in {"consume", "await"} PROVE Current(i)' /\ inForce'[inv[i].op]
    <3>1. Current(i) /\ inForce[inv[i].op] /\ inv[i].op \in Ops
      BY <1>0, <1>4, <2>1 DEF Covered, Current
    <3>2. inv[i].op # o
      BY <1>0, <1>4, <2>1 DEF Carried, CarriedBy
    <3>. QED  BY <1>2, <1>8, <3>1, <3>2
  <2>2. ASSUME NEW p \in Ops, NEW k \in Kinds, child[p][k] # "none"
        PROVE  /\ Held(p)' /\ ~Settled(p)'
               /\ \A j \in Invs : Current(j)' /\ inv[j].op = p => inv[j].pc = "await" /\ inv[j].kind = k
    <3>1. p # o /\ ~overran
      BY <1>4, <2>2
    <3>2. Held(p) /\ ~Settled(p)
      BY <1>0, <2>2, <3>1 DEF Covered
    <3>3. Held(p)' /\ ~Settled(p)'
      BY <1>1, <1>2, <3>1, <3>2 DEF Held, Settled
    <3>. QED  BY <1>0, <1>8, <2>2, <3>1, <3>3 DEF Covered
  <2>. QED  BY <2>1, <2>2
<1>12. Verdicts'
  <2>. SUFFICES ASSUME ~overran', NEW i \in Invs, inv[i].pc = "persist", Current(i)', inForce'[inv[i].op]
                PROVE  /\ inv[i].decision.next.status = "completed" => topology = "candidate"
                       /\ inv[i].decision.next.status = "rolled_back" => topology = "rollback"
    BY <1>1 DEF Verdicts
  <2>1. Current(i) /\ inForce[inv[i].op]
    BY <1>2, <1>8 DEF Current
  <2>. QED  BY <1>0, <1>4, <2>1 DEF Verdicts
<1>13. FailedSealed'
  <2>1. \A p : Sealed(p)' <=> Sealed(p)
    BY <1>1 DEF Sealed, Of
  <2>. QED  BY <1>0, <1>1, <1>8, <2>1 DEF FailedSealed
<1>14. NoLateAcquire'
  <2>1. Suspends \/ \A i \in Invs : inv[i].pc # "acquire"
    BY DEF leaseExpires
  <2>. QED  BY <1>1, <2>1 DEF NoLateAcquire
<1>. QED  BY <1>5, <1>6, <1>7, <1>9, <1>10, <1>11, <1>12, <1>13, <1>14 DEF MigInv

-----------------------------------------------------------------------------
(* Steps of an update that is sent *)

Sends == {"consume", "await", "record"}

\* The store stays as it is, and every invocation where it is, or on its way with an update.
StoreStays ==
    /\ UNCHANGED <<ops, lease, inForce, lapsed, overran>>
    /\ \A j \in Invs : /\ inv'[j].op = inv[j].op /\ inv'[j].fresh = inv[j].fresh
                       /\ inv'[j].decision = inv[j].decision /\ inv'[j].kind = inv[j].kind
                       /\ inv'[j].pc = inv[j].pc \/ (inv[j].pc \in Sends /\ inv'[j].pc \in Sends)

LEMMA UpdateKeeps ==
    ASSUME MigInv, StoreStays
    PROVE  /\ Shaped' /\ Decisions' /\ OneHolder' /\ NoLateAcquire'
           /\ \A j \in Invs : Current(j)' <=> Current(j)
           /\ \A o \in Ops : Held(o)' = Held(o) /\ Settled(o)' = Settled(o)
<1>0. Shaped /\ Decisions /\ OneHolder /\ NoLateAcquire
  BY DEF MigInv
<1>1. UNCHANGED <<ops, lease, inForce, overran>>
  BY DEF StoreStays
<1>2. \A j \in Invs : Current(j)' <=> Current(j)
  BY <1>1 DEF Current, StoreStays
<1>3. \A o \in Ops : Held(o)' = Held(o) /\ Settled(o)' = Settled(o)
  BY <1>1 DEF Held, Settled
<1>4. Shaped' /\ OneHolder'
  BY <1>0, <1>1 DEF Shaped, OneHolder, Held
<1>5. ASSUME NEW j \in Invs, Current(j)' PROVE DecidedBy(j)'
  <2>1. DecidedBy(j)
    BY <1>0, <1>2, <1>5 DEF Decisions
  <2>2. /\ inv'[j].op = inv[j].op /\ inv'[j].decision = inv[j].decision
        /\ inv'[j].pc = inv[j].pc \/ (inv[j].pc \in Sends /\ inv'[j].pc \in Sends)
    BY DEF StoreStays
  <2>. QED  BY <1>1, <2>1, <2>2 DEF DecidedBy, Sends
<1>6. NoLateAcquire'
  <2>1. \A j \in Invs : inv'[j].pc = "acquire" => inv[j].pc = "acquire" /\ inv'[j].op = inv[j].op
    BY DEF StoreStays, Sends
  <2>. QED  BY <1>0, <1>1, <2>1 DEF NoLateAcquire, ExpiredLease
<1>. QED  BY <1>2, <1>3, <1>4, <1>5, <1>6 DEF Decisions

\* One entry of a table of the updates is replaced.
LEMMA EntryIs ==
    ASSUME NEW S, NEW f \in [Ops -> [Kinds -> S]], NEW o \in Ops, NEW k \in Kinds, NEW v \in S, NEW g,
           g = [f EXCEPT ![o][k] = v]
    PROVE  /\ g \in [Ops -> [Kinds -> S]] /\ g[o][k] = v
           /\ \A p \in Ops, h \in Kinds : <<p, h>> # <<o, k>> => g[p][h] = f[p][h]
<1>1. PICK row : row = [f[o] EXCEPT ![k] = v]
  OBVIOUS
<1>2. row \in [Kinds -> S] /\ row[k] = v /\ \A h \in Kinds : h # k => row[h] = f[o][h]
  BY <1>1
<1>3. g = [f EXCEPT ![o] = row]
  BY <1>1
<1>4. g \in [Ops -> [Kinds -> S]] /\ g[o] = row /\ \A p \in Ops : p # o => g[p] = f[p]
  BY <1>2, <1>3
<1>. QED  BY <1>2, <1>4

LEMMA SendKeeps ==
    ASSUME MigInv, NEW i \in Invs, consumeCapabilityMutationDispatch(i)
    PROVE  MigInv'
<1>0. /\ MigTypeOK /\ SentOnce /\ Carried /\ AwaitedByOne /\ Shaped /\ Decisions
      /\ OneHolder /\ Covered /\ Verdicts /\ FailedSealed /\ inv \in [Invs -> Invocations]
  BY InvType DEF MigInv
<1>1. PICK o \in Ops : o = inv[i].op
  BY <1>0 DEF consumeCapabilityMutationDispatch, Carried, CarriedBy
<1>2. PICK k \in Kinds : k = inv[i].kind
  BY <1>0 DEF consumeCapabilityMutationDispatch, Carried, CarriedBy
<1>3. PICK n : n = spawns[o][k] + 1
  OBVIOUS
<1>4. /\ inv[i].pc = "consume" /\ ledger[o][k] = "reserved"
      /\ ledger' = [ledger EXCEPT ![o][k] = "dispatched"]
      /\ child' = [child EXCEPT ![o][k] = "running"]
      /\ spawns' = [spawns EXCEPT ![o][k] = n]
      /\ inv' = [inv EXCEPT ![i].pc = "await"]
      /\ UNCHANGED <<store, topology, touched, overran, faults>>
  BY <1>1, <1>2, <1>3 DEF consumeCapabilityMutationDispatch
<1>5. spawns[o][k] = 0 /\ n = 1 /\ child[o][k] = "none" /\ <<o, k>> \notin touched
  BY <1>0, <1>3, <1>4 DEF SentOnce
<1>6. /\ ledger' \in [Ops -> [Kinds -> LedgerStates]] /\ ledger'[o][k] = "dispatched"
      /\ \A p \in Ops, h \in Kinds : <<p, h>> # <<o, k>> => ledger'[p][h] = ledger[p][h]
  <2>1. "dispatched" \in LedgerStates /\ ledger \in [Ops -> [Kinds -> LedgerStates]]
    BY <1>0, TypeParts DEF LedgerStates
  <2>. QED  BY <1>4, <2>1, EntryIs
<1>7. /\ child' \in [Ops -> [Kinds -> {"none", "running", "landed"}]] /\ child'[o][k] = "running"
      /\ \A p \in Ops, h \in Kinds : <<p, h>> # <<o, k>> => child'[p][h] = child[p][h]
  <2>1. child \in [Ops -> [Kinds -> {"none", "running", "landed"}]] /\ "running" \in {"none", "running", "landed"}
    BY <1>0, TypeParts
  <2>. QED  BY <1>4, <2>1, EntryIs
<1>8. /\ spawns' \in [Ops -> [Kinds -> Nat]] /\ spawns'[o][k] = 1
      /\ \A p \in Ops, h \in Kinds : <<p, h>> # <<o, k>> => spawns'[p][h] = spawns[p][h]
  <2>1. spawns \in [Ops -> [Kinds -> Nat]] /\ n \in Nat
    BY <1>0, <1>5, TypeParts
  <2>. QED  BY <1>4, <1>5, <2>1, EntryIs
<1>9. UNCHANGED <<ops, lease, inForce, lapsed, overran, topology, touched, faults>>
  BY <1>4 DEF store
<1>10. /\ inv' \in [Invs -> Invocations] /\ inv'[i].pc = "await" /\ inv'[i].op = o /\ inv'[i].kind = k
       /\ inv'[i].decision = inv[i].decision /\ inv'[i].fresh = inv[i].fresh
       /\ \A j \in Invs : j # i => inv'[j] = inv[j]
  <2>1. PICK next : next = [inv[i] EXCEPT !.pc = "await"]
    OBVIOUS
  <2>2. /\ next \in Invocations /\ next.pc = "await" /\ next.op = o /\ next.kind = k
        /\ next.decision = inv[i].decision /\ next.fresh = inv[i].fresh
    BY <1>0, <1>1, <1>2, <2>1 DEF Invocations, PCs
  <2>3. inv' = [inv EXCEPT ![i] = next]
    BY <1>4, <2>1
  <2>. QED  BY <1>0, <2>2, <2>3
<1>11. StoreStays
  BY <1>1, <1>2, <1>4, <1>9, <1>10 DEF StoreStays, Sends
<1>12. MigTypeOK'
  BY <1>0, <1>6, <1>7, <1>8, <1>9, <1>10, TypeParts, NextTyped
<1>13. Marks(ops[o], k) /\ ApplyEffect(inv[i].decision.effect) /\ k = EffectKind(inv[i].decision.effect)
  BY <1>0, <1>1, <1>2, <1>4 DEF Carried, CarriedBy
<1>14. SentOnce'
  <2>. SUFFICES ASSUME NEW p \in Ops, NEW h \in Kinds
                PROVE  /\ spawns'[p][h] \in {0, 1}
                       /\ ledger'[p][h] \in {"none", "reserved"} => spawns'[p][h] = 0
                       /\ spawns'[p][h] = 0 => child'[p][h] = "none" /\ <<p, h>> \notin touched'
                       /\ spawns'[p][h] = 1 => Marks(ops'[p], h)
                       /\ Marks(ops'[p], h) => ledger'[p][h] # "none"
                       /\ child'[p][h] = "running" => <<p, h>> \notin touched'
                       /\ ledger'[p][h] = "definitively_failed" => child'[p][h] = "none" /\ <<p, h>> \notin touched'
    BY DEF SentOnce
  <2>1. CASE p = o /\ h = k
    BY <1>5, <1>6, <1>7, <1>8, <1>9, <1>13, <2>1
  <2>2. CASE <<p, h>> # <<o, k>>
    <3>1. ledger'[p][h] = ledger[p][h] /\ child'[p][h] = child[p][h] /\ spawns'[p][h] = spawns[p][h]
      BY <1>6, <1>7, <1>8, <2>2
    <3>. QED  BY <1>0, <1>9, <3>1 DEF SentOnce
  <2>. QED  BY <2>1, <2>2
<1>15. Forward
  <2>. SUFFICES ASSUME NEW p \in Ops, NEW h \in Kinds
                PROVE  /\ Marks(ops[p], h) => Marks(ops'[p], h)
                       /\ ledger[p][h] # "none" => ledger'[p][h] # "none"
                       /\ spawns[p][h] = 1 => spawns'[p][h] = 1
    BY DEF Forward
  <2>1. CASE p = o /\ h = k
    BY <1>6, <1>8, <1>9, <2>1
  <2>2. CASE <<p, h>> # <<o, k>>
    BY <1>6, <1>8, <1>9, <2>2
  <2>. QED  BY <2>1, <2>2
<1>16. ASSUME NEW j \in Invs, inv[j].pc \in {"await", "record"}
       PROVE  /\ j # i /\ inv[j].op \in Ops /\ inv[j].kind \in Kinds
              /\ <<inv[j].op, inv[j].kind>> # <<o, k>>
  <2>1. inv[j].op \in Ops /\ inv[j].kind \in Kinds /\ spawns[inv[j].op][inv[j].kind] = 1
    BY <1>0, <1>16 DEF Carried, CarriedBy
  <2>. QED  BY <1>4, <1>5, <1>16, <2>1
<1>17. Carried'
  <2>1. ASSUME NEW j \in Invs, j # i PROVE CarriedBy(j)'
    <3>1. SameWork(j)
      BY <1>10, <2>1 DEF SameWork
    <3>2. /\ inv[j].pc = "await" => child'[inv[j].op][inv[j].kind] # "none"
          /\ inv[j].pc = "record" /\ inv[j].result = "definitively_failed"
                => /\ child'[inv[j].op][inv[j].kind] = "none"
                   /\ <<inv[j].op, inv[j].kind>> \notin touched'
      BY <1>0, <1>7, <1>9, <1>16 DEF Carried, CarriedBy
    <3>. QED  BY <1>0, <1>15, <3>1, <3>2, OthersCarried
  <2>2. CarriedBy(i)'
    BY <1>6, <1>7, <1>8, <1>9, <1>10, <1>13 DEF CarriedBy
  <2>. QED  BY <2>1, <2>2 DEF Carried
<1>18. AwaitedByOne'
  BY <1>0, <1>10, <1>16 DEF AwaitedByOne
<1>19. /\ Shaped' /\ Decisions' /\ OneHolder' /\ NoLateAcquire'
       /\ \A j \in Invs : Current(j)' <=> Current(j)
       /\ \A p \in Ops : Held(p)' = Held(p) /\ Settled(p)' = Settled(p)
  BY <1>11, UpdateKeeps
<1>20. Covered'
  <2>. SUFFICES ASSUME ~overran
                PROVE  /\ \A j \in Invs : inv'[j].pc \in {"consume", "await"} => Current(j)' /\ inForce'[inv'[j].op]
                       /\ \A p \in Ops, h \in Kinds : child'[p][h] # "none" =>
                             /\ Held(p)' /\ ~Settled(p)'
                             /\ \A j \in Invs : Current(j)' /\ inv'[j].op = p => inv'[j].pc = "await" /\ inv'[j].kind = h
    BY <1>9 DEF Covered
  <2>1. Current(i) /\ inForce[o] /\ lease[o] = i
    BY <1>0, <1>1, <1>4 DEF Covered, Current
  <2>2. ~Settled(o) /\ Held(o)
    <3>1. PICK op \in Operation : op = inv[i].decision.next
      BY <1>0 DEF Invocations, Decision
    <3>2. ops[o].status \in Leased
      BY <1>1, <1>2, <1>4, <2>1, <3>1, Sending
    <3>. QED  BY <2>1, <3>2, StatusNames, MigrationAssumption DEF Settled, Held
  <2>3. ASSUME NEW j \in Invs, inv'[j].pc \in {"consume", "await"} PROVE Current(j)' /\ inForce'[inv'[j].op]
    <3>1. inv[j].pc \in {"consume", "await"} /\ inv'[j].op = inv[j].op
      BY <1>1, <1>4, <1>10, <2>3
    <3>. QED  BY <1>0, <1>9, <1>19, <3>1 DEF Covered
  <2>4. ASSUME NEW p \in Ops, NEW h \in Kinds, child'[p][h] # "none"
        PROVE  /\ Held(p)' /\ ~Settled(p)'
               /\ \A j \in Invs : Current(j)' /\ inv'[j].op = p => inv'[j].pc = "await" /\ inv'[j].kind = h
    <3>1. CASE p = o /\ h = k
      <4>1. ASSUME NEW j \in Invs, Current(j)', inv'[j].op = o PROVE j = i
        BY <1>9, <2>1, <4>1 DEF Current
      <4>. QED  BY <1>10, <1>19, <2>2, <3>1, <4>1
    <3>2. CASE <<p, h>> # <<o, k>>
      <4>1. child[p][h] # "none"
        BY <1>7, <2>4, <3>2
      <4>2. p # o
        BY <1>0, <1>1, <1>4, <2>1, <4>1 DEF Covered
      <4>3. Held(p) /\ ~Settled(p)
        BY <1>0, <4>1 DEF Covered
      <4>4. ASSUME NEW j \in Invs, Current(j)', inv'[j].op = p PROVE inv'[j].pc = "await" /\ inv'[j].kind = h
        <5>1. j # i /\ inv'[j] = inv[j] /\ Current(j)
          BY <1>10, <1>19, <4>2, <4>4
        <5>. QED  BY <1>0, <4>1, <4>4, <5>1 DEF Covered
      <4>. QED  BY <1>19, <4>3, <4>4
    <3>. QED  BY <3>1, <3>2
  <2>. QED  BY <2>3, <2>4
<1>21. \A j \in Invs : inv'[j].pc = "persist" => j # i /\ inv'[j] = inv[j]
  BY <1>10
<1>22. Verdicts'
  BY <1>0, <1>9, <1>19, <1>21 DEF Verdicts
<1>23. FailedSealed'
  <2>1. ~Sealed(o)
    <3>1. Of(i, o, k, {"consume"})
      BY <1>1, <1>2, <1>4 DEF Of
    <3>. QED  BY <1>4, <3>1 DEF Sealed
  <2>2. ASSUME NEW p \in Ops, Sealed(p) PROVE Sealed(p)'
    <3>1. p # o
      BY <2>1, <2>2
    <3>2. \A j \in Invs, h \in Kinds : Of(j, p, h, {"consume"})' => Of(j, p, h, {"consume"})
      BY <1>10, <3>1 DEF Of
    <3>3. \A h \in Kinds : ledger'[p][h] = ledger[p][h] /\ child'[p][h] = child[p][h]
      BY <1>6, <1>7, <3>1
    <3>. QED  BY <1>9, <2>2, <3>2, <3>3 DEF Sealed
  <2>3. ASSUME NEW j \in Invs, inv'[j].pc = "persist", Current(j)', inv'[j].decision.next.status = "failed",
               NEW p \in Ops, p = inv'[j].op
        PROVE  Sealed(p)'
    BY <1>0, <1>19, <1>21, <2>2, <2>3 DEF FailedSealed
  <2>4. \A j \in Invs : Current(j)' => inv'[j].op \in Ops
    BY DEF Current
  <2>. QED  BY <1>0, <1>9, <2>2, <2>3, <2>4 DEF FailedSealed
<1>. QED  BY <1>12, <1>14, <1>17, <1>18, <1>19, <1>20, <1>22, <1>23 DEF MigInv

LEMMA LandsKeeps ==
    ASSUME MigInv, NEW o \in Ops, NEW k \in Kinds, updateLands(o, k)
    PROVE  MigInv'
<1>0. /\ MigTypeOK /\ SentOnce /\ Carried /\ AwaitedByOne
      /\ OneHolder /\ Covered /\ Verdicts /\ FailedSealed
  BY DEF MigInv
<1>1. /\ child[o][k] = "running" /\ child' = [child EXCEPT ![o][k] = "landed"]
      /\ topology' \in Topologies /\ touched' = touched \union {<<o, k>>}
      /\ UNCHANGED <<store, ledger, inv, overran, spawns, faults>>
  BY DEF updateLands, Topologies, Kinds
<1>2. /\ child' \in [Ops -> [Kinds -> {"none", "running", "landed"}]] /\ child'[o][k] = "landed"
      /\ \A p \in Ops, h \in Kinds : <<p, h>> # <<o, k>> => child'[p][h] = child[p][h]
  <2>1. child \in [Ops -> [Kinds -> {"none", "running", "landed"}]] /\ "landed" \in {"none", "running", "landed"}
    BY <1>0, TypeParts
  <2>. QED  BY <1>1, <2>1, EntryIs
<1>3. UNCHANGED <<ops, lease, inForce, lapsed>>
  BY <1>1 DEF store
<1>4. MigTypeOK'
  BY <1>0, <1>1, <1>2, <1>3, TypeParts, NextTyped
<1>5. \A p \in Ops, h \in Kinds : child'[p][h] = "none" <=> child[p][h] = "none"
  <2>. SUFFICES ASSUME NEW p \in Ops, NEW h \in Kinds PROVE child'[p][h] = "none" <=> child[p][h] = "none"
    OBVIOUS
  <2>1. CASE p = o /\ h = k
    BY <1>1, <1>2, <2>1
  <2>2. CASE <<p, h>> # <<o, k>>
    BY <1>2, <2>2
  <2>. QED  BY <2>1, <2>2
<1>6. SentOnce'
  <2>. SUFFICES ASSUME NEW p \in Ops, NEW h \in Kinds
                PROVE  /\ spawns[p][h] = 0 => child'[p][h] = "none" /\ <<p, h>> \notin touched'
                       /\ child'[p][h] = "running" => <<p, h>> \notin touched'
                       /\ ledger[p][h] = "definitively_failed" => child'[p][h] = "none" /\ <<p, h>> \notin touched'
    BY <1>0, <1>1, <1>3 DEF SentOnce
  <2>1. CASE p = o /\ h = k
    BY <1>0, <1>1, <1>2, <2>1 DEF SentOnce
  <2>2. CASE <<p, h>> # <<o, k>>
    BY <1>0, <1>1, <1>2, <2>2 DEF SentOnce
  <2>. QED  BY <2>1, <2>2
<1>7. Carried'
  <2>. SUFFICES ASSUME NEW j \in Invs PROVE CarriedBy(j)'
    BY DEF Carried
  <2>1. Forward /\ SameWork(j)
    BY <1>1, <1>3 DEF Forward, SameWork
  <2>2. inv[j].pc \in {"await", "record"} => inv[j].op \in Ops /\ inv[j].kind \in Kinds
    BY <1>0 DEF Carried, CarriedBy
  <2>3. /\ inv[j].pc = "await" => child'[inv[j].op][inv[j].kind] # "none"
        /\ inv[j].pc = "record" /\ inv[j].result = "definitively_failed"
              => /\ child'[inv[j].op][inv[j].kind] = "none"
                 /\ <<inv[j].op, inv[j].kind>> \notin touched'
    BY <1>0, <1>1, <1>5, <2>2 DEF Carried, CarriedBy
  <2>. QED  BY <1>0, <2>1, <2>3, OthersCarried
<1>8. AwaitedByOne'
  BY <1>0, <1>1 DEF AwaitedByOne
<1>9. /\ Shaped' /\ Decisions' /\ OneHolder' /\ NoLateAcquire'
      /\ \A j \in Invs : Current(j)' <=> Current(j)
      /\ \A p \in Ops : Held(p)' = Held(p) /\ Settled(p)' = Settled(p)
  <2>1. StoreStays
    BY <1>1, <1>3 DEF StoreStays
  <2>. QED  BY <2>1, UpdateKeeps
<1>10. Covered'
  BY <1>0, <1>1, <1>3, <1>5, <1>9 DEF Covered
<1>11. Verdicts'
  <2>. SUFFICES ASSUME ~overran, NEW j \in Invs, inv[j].pc = "persist", Current(j), inForce[inv[j].op]
                PROVE  FALSE
    BY <1>1, <1>3, <1>9 DEF Verdicts
  <2>1. Held(o) /\ \A i \in Invs : Current(i) /\ inv[i].op = o => inv[i].pc = "await"
    BY <1>0, <1>1 DEF Covered
  <2>2. PICK p \in Ops : p = inv[j].op
    BY DEF Current
  <2>3. Held(p)
    BY <2>2, MigrationAssumption DEF Held, Current
  <2>4. p = o
    BY <1>0, <2>1, <2>3 DEF OneHolder
  <2>. QED  BY <2>1, <2>2, <2>4
<1>12. FailedSealed'
  <2>1. ASSUME NEW p \in Ops, Sealed(p) PROVE Sealed(p)'
    <3>1. p # o
      BY <1>1, <2>1 DEF Sealed
    <3>2. \A j \in Invs, h \in Kinds : Of(j, p, h, {"consume"})' <=> Of(j, p, h, {"consume"})
      BY <1>1 DEF Of
    <3>3. \A h \in Kinds : child'[p][h] = child[p][h] /\ (<<p, h>> \in touched' => <<p, h>> \in touched)
      BY <1>1, <1>2, <3>1
    <3>. QED  BY <1>1, <2>1, <3>2, <3>3 DEF Sealed
  <2>2. ASSUME NEW j \in Invs, inv'[j].pc = "persist", Current(j)', inv'[j].decision.next.status = "failed",
               NEW p \in Ops, p = inv'[j].op
        PROVE  Sealed(p)'
    BY <1>0, <1>1, <1>9, <2>1, <2>2 DEF FailedSealed
  <2>3. \A j \in Invs : Current(j)' => inv'[j].op \in Ops
    BY DEF Current
  <2>. QED  BY <1>0, <1>3, <2>1, <2>2, <2>3 DEF FailedSealed
<1>. QED  BY <1>4, <1>6, <1>7, <1>8, <1>9, <1>10, <1>11, <1>12 DEF MigInv

\* A wrapper ends: the invocation that waits for it, if there is one, takes its outcome.
LEMMA EndKeeps ==
    ASSUME MigInv, NEW o \in Ops, NEW k \in Kinds, child[o][k] # "none",
           child' = [child EXCEPT ![o][k] = "none"],
           UNCHANGED <<store, ledger, topology, touched, overran, spawns, faults>>,
           inv' \in [Invs -> Invocations],
           \A j \in Invs :
               \/ inv'[j] = inv[j] /\ ~Of(j, o, k, {"await"})
               \/ /\ Of(j, o, k, {"await"})
                  /\ inv'[j].pc = "record" /\ inv'[j].op = o /\ inv'[j].kind = k
                  /\ inv'[j].decision = inv[j].decision /\ inv'[j].fresh = inv[j].fresh
                  /\ inv'[j].result \in ChildOutcomes(child[o][k])
    PROVE  MigInv'
<1>0. /\ MigTypeOK /\ SentOnce /\ Carried /\ AwaitedByOne
      /\ OneHolder /\ Covered /\ Verdicts /\ FailedSealed
  BY DEF MigInv
<1>1. /\ child' \in [Ops -> [Kinds -> {"none", "running", "landed"}]] /\ child'[o][k] = "none"
      /\ \A p \in Ops, h \in Kinds : <<p, h>> # <<o, k>> => child'[p][h] = child[p][h]
  <2>1. child \in [Ops -> [Kinds -> {"none", "running", "landed"}]] /\ "none" \in {"none", "running", "landed"}
    BY <1>0, TypeParts
  <2>. QED  BY <2>1, EntryIs
<1>2. UNCHANGED <<ops, lease, inForce, lapsed>>
  BY DEF store
<1>3. MigTypeOK'
  BY <1>0, <1>1, <1>2, TypeParts, NextTyped
<1>4. \A p \in Ops, h \in Kinds : child'[p][h] # "none" => child'[p][h] = child[p][h] /\ <<p, h>> # <<o, k>>
  <2>. SUFFICES ASSUME NEW p \in Ops, NEW h \in Kinds, child'[p][h] # "none"
                PROVE  child'[p][h] = child[p][h] /\ <<p, h>> # <<o, k>>
    OBVIOUS
  <2>1. <<p, h>> # <<o, k>>
    BY <1>1
  <2>. QED  BY <1>1, <2>1
<1>5. SentOnce'
  <2>1. \A p \in Ops, h \in Kinds : /\ child[p][h] = "none" => child'[p][h] = "none"
                                    /\ child'[p][h] = "running" => child[p][h] = "running"
    BY <1>4
  <2>. QED  BY <1>0, <1>2, <2>1 DEF SentOnce
<1>6. ASSUME NEW j \in Invs, Of(j, o, k, {"await"}) PROVE CarriedBy(j)'
  <2>1. /\ inv'[j].pc = "record" /\ inv'[j].op = o /\ inv'[j].kind = k /\ inv'[j].decision = inv[j].decision
        /\ inv'[j].result \in ChildOutcomes(child[o][k])
    BY <1>6
  <2>2. /\ Marks(ops[o], k) /\ ledger[o][k] # "none" /\ ApplyEffect(inv[j].decision.effect)
        /\ k = EffectKind(inv[j].decision.effect) /\ spawns[o][k] = 1
    BY <1>0, <1>6 DEF Of, Carried, CarriedBy
  <2>3. inv'[j].result \in Outcomes
    BY <2>1 DEF ChildOutcomes, Outcomes
  <2>4. inv'[j].result = "definitively_failed" => <<o, k>> \notin touched
    <3>1. child[o][k] \in {"running", "landed"}
      BY <1>0, TypeParts
    <3>. QED  BY <1>0, <2>1, <3>1 DEF ChildOutcomes, SentOnce
  <2>. QED  BY <1>1, <1>2, <2>1, <2>2, <2>3, <2>4 DEF CarriedBy
<1>7. Carried'
  <2>. SUFFICES ASSUME NEW j \in Invs, ~Of(j, o, k, {"await"}) PROVE CarriedBy(j)'
    BY <1>6 DEF Carried
  <2>0. inv'[j] = inv[j]
    OBVIOUS
  <2>1. Forward /\ SameWork(j)
    BY <1>2, <2>0 DEF Forward, SameWork
  <2>2. inv[j].pc \in {"await", "record"} => inv[j].op \in Ops /\ inv[j].kind \in Kinds
    BY <1>0 DEF Carried, CarriedBy
  <2>3. inv[j].pc = "await" => child'[inv[j].op][inv[j].kind] # "none"
    <3>. SUFFICES ASSUME inv[j].pc = "await" PROVE child'[inv[j].op][inv[j].kind] # "none"
      OBVIOUS
    <3>1. <<inv[j].op, inv[j].kind>> # <<o, k>>
      BY DEF Of
    <3>2. child[inv[j].op][inv[j].kind] # "none"
      BY <1>0 DEF Carried, CarriedBy
    <3>. QED  BY <1>1, <2>2, <3>1, <3>2
  <2>4. inv[j].pc = "record" /\ inv[j].result = "definitively_failed"
              => /\ child'[inv[j].op][inv[j].kind] = "none"
                 /\ <<inv[j].op, inv[j].kind>> \notin touched'
    BY <1>0, <1>4, <2>2 DEF Carried, CarriedBy
  <2>. QED  BY <1>0, <2>1, <2>3, <2>4, OthersCarried
<1>8. \A j \in Invs : inv'[j].pc # "record" => inv'[j] = inv[j]
  OBVIOUS
<1>9. AwaitedByOne'
  BY <1>0, <1>8 DEF AwaitedByOne
<1>10. /\ Shaped' /\ Decisions' /\ OneHolder' /\ NoLateAcquire'
       /\ \A j \in Invs : Current(j)' <=> Current(j)
       /\ \A p \in Ops : Held(p)' = Held(p) /\ Settled(p)' = Settled(p)
  <2>1. StoreStays
    BY <1>2 DEF StoreStays, Sends, Of
  <2>. QED  BY <2>1, UpdateKeeps
<1>11. Covered'
  <2>. SUFFICES ASSUME ~overran
                PROVE  /\ \A j \in Invs : inv'[j].pc \in {"consume", "await"} => Current(j)' /\ inForce'[inv'[j].op]
                       /\ \A p \in Ops, h \in Kinds : child'[p][h] # "none" =>
                             /\ Held(p)' /\ ~Settled(p)'
                             /\ \A j \in Invs : Current(j)' /\ inv'[j].op = p => inv'[j].pc = "await" /\ inv'[j].kind = h
    BY DEF Covered
  <2>1. ASSUME NEW j \in Invs, inv'[j].pc \in {"consume", "await"} PROVE Current(j)' /\ inForce'[inv'[j].op]
    <3>1. inv'[j] = inv[j]
      BY <1>8, <2>1
    <3>. QED  BY <1>0, <1>2, <1>10, <2>1, <3>1 DEF Covered
  <2>2. ASSUME NEW p \in Ops, NEW h \in Kinds, child'[p][h] # "none"
        PROVE  /\ Held(p)' /\ ~Settled(p)'
               /\ \A j \in Invs : Current(j)' /\ inv'[j].op = p => inv'[j].pc = "await" /\ inv'[j].kind = h
    <3>1. child[p][h] # "none" /\ <<p, h>> # <<o, k>>
      BY <1>4, <2>2
    <3>2. Held(p)' /\ ~Settled(p)'
      BY <1>0, <1>10, <3>1 DEF Covered
    <3>3. ASSUME NEW j \in Invs, Current(j)', inv'[j].op = p PROVE inv'[j].pc = "await" /\ inv'[j].kind = h
      <4>1. inv[j].op = p
        BY <3>3 DEF Of
      <4>2. inv[j].pc = "await" /\ inv[j].kind = h
        BY <1>0, <1>10, <3>1, <3>3, <4>1 DEF Covered
      <4>3. inv'[j] = inv[j]
        BY <3>1, <4>1, <4>2 DEF Of
      <4>. QED  BY <4>2, <4>3
    <3>. QED  BY <3>2, <3>3
  <2>. QED  BY <2>1, <2>2
<1>12. Verdicts'
  BY <1>0, <1>2, <1>8, <1>10 DEF Verdicts
<1>13. FailedSealed'
  <2>1. ASSUME NEW p \in Ops, Sealed(p) PROVE Sealed(p)'
    <3>1. p # o
      BY <2>1 DEF Sealed
    <3>2. \A j \in Invs, h \in Kinds : Of(j, p, h, {"consume"})' => Of(j, p, h, {"consume"})
      BY <1>8 DEF Of
    <3>3. \A h \in Kinds : child'[p][h] = child[p][h]
      BY <1>1, <3>1
    <3>. QED  BY <2>1, <3>2, <3>3 DEF Sealed
  <2>2. ASSUME NEW j \in Invs, inv'[j].pc = "persist", Current(j)', inv'[j].decision.next.status = "failed",
               NEW p \in Ops, p = inv'[j].op
        PROVE  Sealed(p)'
    BY <1>0, <1>8, <1>10, <2>1, <2>2 DEF FailedSealed
  <2>3. \A j \in Invs : Current(j)' => inv'[j].op \in Ops
    BY DEF Current
  <2>. QED  BY <1>0, <1>2, <2>1, <2>2, <2>3 DEF FailedSealed
<1>. QED  BY <1>3, <1>5, <1>7, <1>9, <1>10, <1>11, <1>12, <1>13 DEF MigInv

LEMMA UpdateEndsKeeps ==
    ASSUME MigInv, NEW i \in Invs, updateEnds(i)
    PROVE  MigInv'
<1>0. MigTypeOK /\ Carried /\ AwaitedByOne /\ inv \in [Invs -> Invocations]
  BY InvType DEF MigInv
<1>1. PICK o \in Ops : o = inv[i].op
  BY <1>0 DEF updateEnds, Carried, CarriedBy
<1>2. PICK k \in Kinds : k = inv[i].kind
  BY <1>0 DEF updateEnds, Carried, CarriedBy
<1>3. PICK result \in ChildOutcomes(child[o][k]) :
          inv' = [inv EXCEPT ![i].pc = "record", ![i].result = result]
  BY <1>1, <1>2 DEF updateEnds
<1>4. /\ inv[i].pc = "await" /\ child' = [child EXCEPT ![o][k] = "none"]
      /\ UNCHANGED <<store, ledger, topology, touched, overran, spawns, faults>>
  BY <1>1, <1>2 DEF updateEnds
<1>5. child[o][k] # "none"
  BY <1>0, <1>1, <1>2, <1>4 DEF Carried, CarriedBy
<1>6. PICK next : next = [inv[i] EXCEPT !.pc = "record", !.result = result]
  OBVIOUS
<1>7. /\ next \in Invocations /\ next.pc = "record" /\ next.op = o /\ next.kind = k
      /\ next.decision = inv[i].decision /\ next.fresh = inv[i].fresh /\ next.result = result
  <2>1. result \in Results
    BY <1>3 DEF ChildOutcomes, Results, Outcomes
  <2>. QED  BY <1>0, <1>1, <1>2, <1>6, <2>1 DEF Invocations, PCs
<1>8. inv' = [inv EXCEPT ![i] = next]
  BY <1>3, <1>6
<1>9. inv' \in [Invs -> Invocations] /\ inv'[i] = next /\ \A j \in Invs : j # i => inv'[j] = inv[j]
  BY <1>0, <1>7, <1>8
<1>10. Of(i, o, k, {"await"}) /\ \A j \in Invs : j # i => ~Of(j, o, k, {"await"})
  BY <1>0, <1>1, <1>2, <1>4 DEF Of, AwaitedByOne
<1>. QED  BY <1>4, <1>5, <1>7, <1>9, <1>10, EndKeeps

LEMMA OrphanEndsKeeps ==
    ASSUME MigInv, NEW o \in Ops, NEW k \in Kinds, orphanEnds(o, k)
    PROVE  MigInv'
<1>0. inv \in [Invs -> Invocations]
  BY InvType DEF MigInv
<1>1. /\ child[o][k] # "none" /\ child' = [child EXCEPT ![o][k] = "none"]
      /\ UNCHANGED <<store, ledger, topology, inv, touched, overran, spawns, faults>>
      /\ \A j \in Invs : ~Of(j, o, k, {"await"})
  BY DEF orphanEnds, Awaited, Of
<1>. QED  BY <1>0, <1>1, EndKeeps

-----------------------------------------------------------------------------
(* The invariant and the theorems *)

LEMMA MigInitial == MigInit => MigInv
<1>. SUFFICES ASSUME MigInit PROVE MigInv
  OBVIOUS
<1>1. Absent \in Operation /\ Absent.status = "absent" /\ Absent.candidate = 0 /\ Absent.rollback = 0
  BY DEF Absent, Operation, Statuses, Results
<1>2. /\ \A o \in Ops : ops[o] = Absent /\ lease[o] = NoInv /\ ~inForce[o]
      /\ \A o \in Ops, k \in Kinds : ledger[o][k] = "none" /\ child[o][k] = "none" /\ spawns[o][k] = 0
      /\ \A i \in Invs : inv[i] = Idle
      /\ touched = {}
  BY DEF MigInit
<1>3. \A i \in Invs : inv[i].pc = "idle" /\ inv[i].op = NoOp /\ ~Current(i)
  BY <1>2, IdleTyped, MigrationAssumption DEF Current
<1>4. MigTypeOK
  <2>1. inv \in [Invs -> Invocations]
    BY IdleTyped DEF MigInit
  <2>2. ops \in [Ops -> Operation]
    BY <1>1 DEF MigInit
  <2>3. ledger \in [Ops -> [Kinds -> LedgerStates]] /\ child \in [Ops -> [Kinds -> {"none", "running", "landed"}]]
    BY DEF MigInit, LedgerStates
  <2>4. /\ lease \in [Ops -> Invs \union {NoInv}] /\ inForce \in [Ops -> BOOLEAN] /\ lapsed \in [Ops -> BOOLEAN]
        /\ topology \in Topologies /\ touched \in SUBSET (Ops \X Kinds)
        /\ spawns \in [Ops -> [Kinds -> Nat]]
    BY DEF MigInit
  <2>5. faults \in 0 .. MaxFaults
    BY MigrationAssumption DEF MigInit
  <2>6. overran \in BOOLEAN
    BY Zenon DEF MigInit
  <2>. QED  BY <2>1, <2>2, <2>3, <2>4, <2>5, <2>6, TypeParts
<1>5. \A o \in Ops, k \in Kinds : ~Marks(ops[o], k)
  BY <1>1, <1>2 DEF Marks
<1>6. SentOnce
  BY <1>2, <1>5 DEF SentOnce
<1>7. Carried /\ AwaitedByOne /\ Decisions
  BY <1>3 DEF Carried, CarriedBy, AwaitedByOne, Decisions
<1>8. Shaped
  BY <1>1, <1>2 DEF Shaped, Shape
<1>9. OneHolder /\ Covered /\ Verdicts
  BY <1>2, <1>3 DEF OneHolder, Held, Covered, Verdicts
<1>10. FailedSealed /\ NoLateAcquire
  BY <1>1, <1>2, <1>3 DEF FailedSealed, NoLateAcquire
<1>. QED  BY <1>4, <1>6, <1>7, <1>8, <1>9, <1>10 DEF MigInv

LEMMA StillKeeps ==
    ASSUME MigInv, UNCHANGED migVars
    PROVE  MigInv'
<1>1. UNCHANGED <<ops, lease, inForce, lapsed, ledger, child, topology, inv, overran, touched, spawns, faults>>
  BY DEF migVars
<1>2. MigTypeOK' /\ SentOnce' /\ AwaitedByOne' /\ Shaped'
  BY <1>1 DEF MigInv, MigTypeOK, SentOnce, AwaitedByOne, Shaped
<1>3. Carried'
  BY <1>1 DEF MigInv, Carried, CarriedBy
<1>4. \A i \in Invs : (Current(i)' <=> Current(i)) /\ (DecidedBy(i)' <=> DecidedBy(i))
  BY <1>1 DEF Current, DecidedBy
<1>5. Decisions' /\ OneHolder' /\ Verdicts'
  BY <1>1, <1>4 DEF MigInv, Decisions, OneHolder, Held, Verdicts
<1>6. Covered'
  BY <1>1, <1>4 DEF MigInv, Covered, Held, Settled
<1>7. FailedSealed'
  <2>1. \A o : Sealed(o)' <=> Sealed(o)
    BY <1>1 DEF Sealed, Of
  <2>. QED  BY <1>1, <1>4, <2>1 DEF MigInv, FailedSealed
<1>8. NoLateAcquire'
  BY <1>1 DEF MigInv, NoLateAcquire, ExpiredLease
<1>. QED  BY <1>2, <1>3, <1>5, <1>6, <1>7, <1>8 DEF MigInv

LEMMA InvocationKeeps ==
    ASSUME MigInv, NEW i \in Invs, Invocation(i) \/ crash(i)
    PROVE  MigInv'
<1>1. CASE acquireAfterConfirmation(i)
  <2>1. PICK o \in Ops : o = inv[i].op
    BY <1>1 DEF acquireAfterConfirmation, MigInv, Carried, CarriedBy
  <2>. QED  BY <1>1, <2>1, AcquireKeeps DEF acquireAfterConfirmation
<1>. QED  BY <1>1, RecoverKeeps, TransitionKeeps, ReleaseKeeps, ReserveKeeps, RenewKeeps, ReadKeeps,
             SendKeeps, BlocksKeeps, UpdateEndsKeeps, RecordKeeps, GivingUpKeeps DEF Invocation

LEMMA MigStep == MigInv /\ [MigNext]_migVars => MigInv'
<1>. SUFFICES ASSUME MigInv, [MigNext]_migVars PROVE MigInv'
  OBVIOUS
<1>1. ASSUME NEW i \in Invs, Invocation(i) \/ crash(i) PROVE MigInv'
  BY <1>1, InvocationKeeps
<1>2. ASSUME NEW i \in Invs, NEW o \in Ops, consumeCapabilityOperationConfirmation(i, o) PROVE MigInv'
  BY <1>2, ConfirmKeeps
<1>3. ASSUME NEW i \in Invs, NEW o \in Ops, executeControlledWorkflowMigration(i, o) PROVE MigInv'
  BY <1>3, AcquireKeeps DEF executeControlledWorkflowMigration
<1>4. ASSUME NEW o \in Ops,
             prepareControlledWorkflowMigration(o) \/ leaseExpires(o) \/ confirmationLapses(o)
      PROVE  MigInv'
  BY <1>4, UnattendedKeeps, ExpiryKeeps
<1>5. ASSUME NEW o \in Ops, NEW k \in Kinds, updateLands(o, k) \/ orphanEnds(o, k) PROVE MigInv'
  BY <1>5, LandsKeeps, OrphanEndsKeeps
<1>6. CASE UNCHANGED migVars
  BY <1>6, StillKeeps
<1>. QED  BY <1>1, <1>2, <1>3, <1>4, <1>5, <1>6 DEF MigNext

LEMMA MigAlways == MigSpec => []MigInv
  BY MigInitial, MigStep, PTL DEF MigSpec

\* What rewrites an operation: its owner, persisting a decision, or a confirmation, a
\* preparation or a new lease, none of which ends it with a verdict.
LEMMA Rewritten ==
    ASSUME MigInv, [MigNext]_migVars, NEW o \in Ops, ops'[o] # ops[o]
    PROVE  \/ \E i \in Invs : transitionCapabilityOperation(i) /\ inv[i].op = o
           \/ /\ ops'[o].status \in {"prepared", "queued", "expired", "running", "reconciling"}
              /\ ~Suspends => ~Settled(o)
<1>0. MigTypeOK /\ Carried /\ NoLateAcquire /\ ops \in [Ops -> Operation]
  BY TypeParts DEF MigInv
<1>. DEFINE Goal == \/ \E i \in Invs : transitionCapabilityOperation(i) /\ inv[i].op = o
                    \/ /\ ops'[o].status \in {"prepared", "queued", "expired", "running", "reconciling"}
                       /\ ~Suspends => ~Settled(o)
<1>1. ASSUME NEW p \in Ops, NEW status \in {"prepared", "queued", "expired", "running", "reconciling"},
             ops' = [ops EXCEPT ![p].status = status], ~Suspends => ~Settled(p)
      PROVE  Goal
  <2>1. p = o
    BY <1>0, <1>1
  <2>2. ops[o] \in Operation /\ ops'[o] = [ops[o] EXCEPT !.status = status]
    BY <1>0, <1>1, <2>1
  <2>3. ops'[o].status = status
    BY <2>2 DEF Operation
  <2>. QED  BY <1>1, <2>1, <2>3
<1>2. ASSUME NEW i \in Invs, NEW p \in Ops, acquire(i, p),
             ~Suspends /\ ExpiredLease(p) => ~Settled(p)
      PROVE  Goal
  <2>1. PICK status : status = IF ExpiredLease(p) THEN "reconciling" ELSE ops[p].status
    OBVIOUS
  <2>2. ops' # ops
    OBVIOUS
  <2>3. ~(lease[p] # NoInv /\ inForce[p]) /\ status \in {"queued", "reconciling"}
    BY <1>2, <2>1, <2>2 DEF acquire, store
  <2>4. ~Suspends => ~Settled(p)
    BY <1>2, <2>1, <2>3 DEF Settled, TERMINAL_STATUSES
  <2>5. \/ ops' = [ops EXCEPT ![p].status = status]
        \/ ops' = [ops EXCEPT ![p].status = "running"]
        \/ ops' = [ops EXCEPT ![p].status = "reconciling"]
    BY <1>2, <2>1, <2>3 DEF acquire
  <2>. QED  BY <1>1, <2>3, <2>4, <2>5
<1>3. ASSUME NEW i \in Invs, Invocation(i) \/ crash(i) PROVE Goal
  <2>1. CASE acquireAfterConfirmation(i)
    <3>1. PICK p \in Ops : p = inv[i].op
      BY <1>0, <2>1 DEF acquireAfterConfirmation, Carried, CarriedBy
    <3>2. ~Suspends => ~ExpiredLease(p)
      BY <1>0, <2>1, <3>1 DEF acquireAfterConfirmation, NoLateAcquire
    <3>. QED  BY <1>2, <2>1, <3>1, <3>2 DEF acquireAfterConfirmation
  <2>2. CASE transitionCapabilityOperation(i)
    <3>1. ops' = [ops EXCEPT ![inv[i].op] = inv[i].decision.next]
      BY <2>2 DEF transitionCapabilityOperation
    <3>. QED  BY <1>0, <2>2, <3>1
  <2>3. CASE ~acquireAfterConfirmation(i) /\ ~transitionCapabilityOperation(i)
    <3>1. ops' = ops
      BY <1>3, <2>3 DEF Invocation, crash, recoverDecision, releaseCapabilityOperationLease,
         reserveCapabilityMutationDispatch, renewCapabilityOperationLease, readWorkflow,
         consumeCapabilityMutationDispatch, executorBlocks, updateEnds,
         recordCapabilityMutationDispatchOutcome, refused, store
    <3>. QED  BY <3>1
  <2>. QED  BY <2>1, <2>2, <2>3
<1>4. ASSUME NEW i \in Invs, NEW p \in Ops, consumeCapabilityOperationConfirmation(i, p) PROVE Goal
  <2>1. /\ ops[p].status = "prepared"
        /\ \/ ops' = [ops EXCEPT ![p].status = "expired"]
           \/ ops' = [ops EXCEPT ![p].status = "queued"]
    BY <1>4 DEF consumeCapabilityOperationConfirmation
  <2>. QED  BY <1>1, <2>1 DEF Settled, TERMINAL_STATUSES
<1>5. ASSUME NEW i \in Invs, NEW p \in Ops, executeControlledWorkflowMigration(i, p) PROVE Goal
  <2>1. ~Settled(p) /\ acquire(i, p)
    BY <1>5 DEF executeControlledWorkflowMigration, Resumable, Settled, TERMINAL_STATUSES
  <2>. QED  BY <1>2, <2>1
<1>6. ASSUME NEW p \in Ops,
             prepareControlledWorkflowMigration(p) \/ leaseExpires(p) \/ confirmationLapses(p)
      PROVE  Goal
  <2>1. prepareControlledWorkflowMigration(p)
    BY <1>6 DEF leaseExpires, confirmationLapses
  <2>2. ops[p].status = "absent" /\ ops' = [ops EXCEPT ![p].status = "prepared"]
    BY <2>1 DEF prepareControlledWorkflowMigration
  <2>. QED  BY <1>1, <2>2 DEF Settled, TERMINAL_STATUSES
<1>7. ASSUME NEW p \in Ops, NEW k \in Kinds, updateLands(p, k) \/ orphanEnds(p, k) PROVE Goal
  BY <1>7 DEF updateLands, orphanEnds, store
<1>8. CASE UNCHANGED migVars
  BY <1>8 DEF migVars
<1>. QED  BY <1>3, <1>4, <1>5, <1>6, <1>7, <1>8 DEF MigNext

\* The stores, the wrapper processes and the invocations keep their types.
THEOREM MigTypeCorrect == MigSpec => []MigTypeOK
<1>1. MigInv => MigTypeOK
  BY DEF MigInv
<1>. QED  BY <1>1, MigAlways, PTL

\* reserveCapabilityMutationDispatch and consumeCapabilityMutationDispatch let each update
\* of an operation be sent at most once, whatever crashes, expires or runs beside it.
THEOREM UpdatesSentOnce == MigSpec => []MutateOnce
<1>1. \A n \in {0, 1} : n <= 1
  OBVIOUS
<1>2. MigInv => MutateOnce
  BY <1>1 DEF MigInv, SentOnce, MutateOnce
<1>. QED  BY <1>2, MigAlways, PTL

\* Unless a lease expires under an update, no other operation holds the workflow's lease
\* while the update's wrapper runs.
THEOREM UpdatesNeverOverlap == MigSpec => []UpdatesAlone
<1>1. MigInv => UpdatesAlone
  BY DEF MigInv, Covered, OneHolder, Held, UpdatesAlone
<1>. QED  BY <1>1, MigAlways, PTL

\* Unless a lease expires under an update, a settled operation has no wrapper running.
THEOREM SettledIsQuiet == MigSpec => []SettledQuiet
<1>1. MigInv => SettledQuiet
  BY DEF MigInv, Covered, SettledQuiet
<1>. QED  BY <1>1, MigAlways, PTL

\* An operation that the state machine ends as failed has never changed the workflow.
THEOREM FailureLeavesWorkflow == MigSpec => []FailedUntouched
<1>1. MigInv => FailedUntouched
  BY DEF MigInv, FailedSealed, Sealed, FailedUntouched
<1>. QED  BY <1>1, MigAlways, PTL

\* The store's transition graph and the executor's legality check admit every decision of
\* the state machine that the owner of an operation is about to carry out.
THEOREM HostAcceptsDecisions == MigSpec => []HostAccepts
<1>1. ASSUME MigInv PROVE HostAccepts
  <2>. SUFFICES ASSUME NEW i \in Invs, Owns(i), inv[i].pc \in {"persist", "renew", "read", "consume"}
                PROVE  /\ inv[i].pc = "persist"
                             => isControlledWorkflowMigrationStateTransition(ops[inv[i].op].status,
                                                                             inv[i].decision.next.status)
                       /\ inv[i].pc \in {"renew", "read", "consume"}
                             => EffectLegal(ops[inv[i].op], ModeOf[inv[i].op], inv[i].decision.effect)
    BY DEF HostAccepts
  <2>1. inv[i].op \in Ops
    BY <1>1 DEF MigInv, Carried, CarriedBy
  <2>2. Current(i)
    BY <2>1 DEF Owns, Current
  <2>3. DecidedBy(i)
    BY <1>1, <2>2 DEF MigInv, Decisions
  <2>. QED  BY <2>3 DEF DecidedBy, Acceptable, Judged
<1>. QED  BY <1>1, MigAlways, PTL

\* The verdict that transitionCapabilityOperation writes is true of the workflow when it is
\* written, although the reading it rests on was taken steps before, unless a lease
\* expired under an update.
THEOREM VerdictsTrue == MigSpec => VerdictTrue
<1>. DEFINE Step == \A o \in Ops : ~Settled(o) /\ ~overran =>
                       /\ ops'[o].status = "completed" => topology = "candidate"
                       /\ ops'[o].status = "rolled_back" => topology = "rollback"
<1>1. ASSUME MigInv, [MigNext]_migVars PROVE Step
  <2>. SUFFICES ASSUME NEW o \in Ops, ~Settled(o), ~overran
                PROVE  /\ ops'[o].status = "completed" => topology = "candidate"
                       /\ ops'[o].status = "rolled_back" => topology = "rollback"
    OBVIOUS
  <2>1. CASE ops'[o] = ops[o]
    BY <2>1 DEF Settled, TERMINAL_STATUSES
  <2>2. ASSUME NEW i \in Invs, transitionCapabilityOperation(i), inv[i].op = o
        PROVE  /\ ops'[o].status = "completed" => topology = "candidate"
               /\ ops'[o].status = "rolled_back" => topology = "rollback"
    <3>1. ops \in [Ops -> Operation] /\ Verdicts
      BY <1>1, TypeParts DEF MigInv
    <3>2. inv[i].pc = "persist" /\ Current(i) /\ inForce[o] /\ ops' = [ops EXCEPT ![o] = inv[i].decision.next]
      BY <2>2 DEF transitionCapabilityOperation, Owns, Current
    <3>3. ops'[o] = inv[i].decision.next
      BY <3>1, <3>2
    <3>. QED  BY <2>2, <3>1, <3>2, <3>3 DEF Verdicts
  <2>3. CASE ops'[o].status \in {"prepared", "queued", "expired", "running", "reconciling"}
    BY <2>3
  <2>. QED  BY <1>1, <2>1, <2>2, <2>3, Rewritten
<1>2. MigInv /\ [MigNext]_migVars => [Step]_migVars
  BY <1>1
<1>3. MigSpec => [][Step]_migVars
  BY <1>2, MigAlways, PTL DEF MigSpec
<1>. QED  BY <1>3 DEF VerdictTrue

\* Where a lease outlives a synchronous stretch, a settled operation is never taken up again.
THEOREM SettledStaysSettled == ASSUME ~Suspends PROVE MigSpec => SettledForGood
<1>. DEFINE Step == \A o \in Ops : Settled(o) => ops'[o] = ops[o]
<1>1. ASSUME MigInv, [MigNext]_migVars PROVE Step
  <2>. SUFFICES ASSUME NEW o \in Ops, Settled(o), ops'[o] # ops[o] PROVE FALSE
    OBVIOUS
  <2>1. PICK i \in Invs : transitionCapabilityOperation(i) /\ inv[i].op = o
    BY <1>1, Rewritten
  <2>2. ops[o].status \in Leased
    BY <2>1 DEF transitionCapabilityOperation, Owns
  <2>. QED  BY <2>2, StatusNames DEF Settled
<1>2. MigInv /\ [MigNext]_migVars => [Step]_migVars
  BY <1>1
<1>3. MigSpec => [][Step]_migVars
  BY <1>2, MigAlways, PTL DEF MigSpec
<1>. QED  BY <1>3 DEF SettledForGood
=============================================================================
