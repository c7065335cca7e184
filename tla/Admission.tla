----------------------------- MODULE Admission -----------------------------
(***************************************************************************)
(* Admission of Workbench commands                                         *)
(* (packages/cli/src/agent/workbench-admission-orchestrator.ts): a command *)
(* of a session runs once it holds a lease of the global budget            *)
(* (workbench-global-budget-store.ts) and, if it touches the repository, a *)
(* lease of the repository scheduler.  Sessions (workbench-session-store)  *)
(* follow the status of their run (workbench-run-session.ts); completing   *)
(* one takes its leases away.                                              *)
(*                                                                         *)
(* The agent is one process with an event loop: `loop` names whose         *)
(* synchronous section runs, and only the process dying can come between   *)
(* two writes of a section.  A section ends at the await of the command,   *)
(* so commands, sessions and leases interleave there.  Any store may be    *)
(* found busy: its lock file is held, or was left behind, for too long.    *)
(***************************************************************************)
EXTENDS RepositoryScheduler

CONSTANTS
    Workers,        \* executions of executeWithWorkbenchAdmission
    OperationOf,    \* the operation of each request
    GlobalLimit,    \* limits.global
    SourceLimit,    \* limits.perRepository
    ClassLimit,     \* limits.perClass
    MaxFaults,      \* bound on busy stores and deaths, for model checking
    RunStatuses,    \* the statuses the runs take
    None,           \* no worker, no session
    Lost            \* the owner of a lease that nobody can give back

Operations == {"status", "approval", "read", "git", "install", "index", "write",
               "migration_execute", "destructive"}
Classes == {"status", "approval", "read", "mutation"}

\* The two synchronous sections that complete a session (expireSessionDependents).
Sections == Sessions \X {"scheduler", "budget"}

\* classifyWorkbenchAdmissionOperation
workerClass(op) == IF op \in {"status", "approval", "read"} THEN op ELSE "mutation"
Scheduled(r) == workerClass(OperationOf[r]) \in {"read", "mutation"}
ClassOf(r) == workerClass(OperationOf[r])

ASSUME AdmissionAssumption ==
    /\ RunStatuses \subseteq {"queued", "running", "needs_confirmation", "paused", "blocked",
                              "failed", "completed", "cancelled"}
    /\ OperationOf \in [Requests -> Operations]
    /\ Mutations = {r \in Requests : ClassOf(r) = "mutation"}
    /\ GlobalLimit \in Nat \ {0}
    /\ SourceLimit \in Nat \ {0}
    /\ ClassLimit \in [Classes -> Nat \ {0}]
    /\ MaxFaults \in Nat
    /\ Requests # {}
    /\ None \notin Workers \cup Sections
    /\ Lost \notin Workers \cup {None}
    /\ Workers \cap Sections = {}

VARIABLES
    sessions,   \* the status of each session; "absent" when it is not in the store
    budget,     \* the owner of the active budget lease of each request
    workers,    \* the admissions in progress
    loop,       \* the worker or session whose synchronous section runs
    faults,     \* busy stores and deaths so far
    orphans     \* history: lease proofs that nobody could give back

allVars == <<schedVars, sessions, budget, workers, loop, faults, orphans>>

-----------------------------------------------------------------------------
SessionStatuses == {"absent", "active", "paused", "completed", "recovery_required"}

desiredSessionStatus(status) ==
    CASE status \in {"queued", "running", "needs_confirmation"} -> "active"
      [] status = "paused" -> "paused"
      [] status \in {"blocked", "failed"} -> "recovery_required"
      [] status \in {"completed", "cancelled"} -> "completed"

Stages == {"idle", "enqueue", "claim", "cancel", "execute", "release", "giveBack"}
Outcomes == {"released", "cancelled"}
WorkerState == [stage : Stages, request : Requests, proof : Nat, outcome : Outcomes]
Idle == [stage |-> "idle", request |-> CHOOSE r \in Requests : TRUE, proof |-> 0, outcome |-> "released"]

AdmissionInit ==
    /\ SchedInit
    /\ sessions = [s \in Sessions |-> "absent"]
    /\ budget = [r \in Requests |-> None]
    /\ workers = [w \in Workers |-> Idle]
    /\ loop = None
    /\ faults = 0
    /\ orphans = {}

At(w, stage) == loop = w /\ workers[w].stage = stage
RequestOf(w) == workers[w].request
GoTo(w, stage) == workers' = [workers EXCEPT ![w].stage = stage]

\* The worker is done, whatever it could not give back is lost.
Leaves(w) ==
    /\ workers' = [workers EXCEPT ![w] = Idle]
    /\ loop' = None

\* A store is found busy, or unreadable.
Busy ==
    /\ faults < MaxFaults
    /\ faults' = faults + 1

-----------------------------------------------------------------------------
\* activeCost: every admission costs 1.
activeCost(which) == Cardinality({r \in which : budget[r] # None})

\* Mutant: a class is counted on its own source only.
withinLimitsPerSource(r) ==
    /\ activeCost(Requests) < GlobalLimit
    /\ activeCost(SameSource(r)) < SourceLimit
    /\ activeCost({q \in SameSource(r) : ClassOf(q) = ClassOf(r)}) < ClassLimit[ClassOf(r)]

withinLimits(r) ==
    /\ activeCost(Requests) < GlobalLimit
    /\ activeCost(SameSource(r)) < SourceLimit
    /\ activeCost({q \in Requests : ClassOf(q) = ClassOf(r)}) < ClassLimit[ClassOf(r)]

\* acquireWorkbenchAdmission: the session, which owns the source of its requests, is active.
SessionAdmits(r) == sessions[SessionOf[r]] = "active"

\* The request has no active lease yet, and the limits have room.  A refusal changes nothing.
acquireWorkbenchBudget(w, r) ==
    /\ loop = None
    /\ workers[w].stage = "idle"
    /\ lastProof < MaxLeases
    /\ SessionAdmits(r)
    /\ budget[r] = None
    /\ withinLimits(r)
    /\ budget' = [budget EXCEPT ![r] = w]
    /\ workers' = [workers EXCEPT ![w] = [Idle EXCEPT !.request = r, !.stage = IF Scheduled(r) THEN "enqueue" ELSE "execute"]]
    /\ loop' = IF Scheduled(r) THEN w ELSE None
    /\ UNCHANGED <<schedVars, sessions, faults, orphans>>

\* An identity that is in the store, whatever its status, is not enqueued again.
enqueue(w, gone) ==
    /\ At(w, "enqueue")
    /\ \/ enqueueRepositoryWork(RequestOf(w), gone)
       \/ withStore(gone)[RequestOf(w)].status # "absent" /\ UNCHANGED schedVars
    /\ GoTo(w, "claim")
    /\ UNCHANGED <<sessions, budget, loop, faults, orphans>>

\* A claim that is refused withdraws the request.
claim(w, gone) ==
    /\ At(w, "claim")
    /\ \/ /\ claimRepositoryWork(RequestOf(w), gone)
          /\ workers' = [workers EXCEPT ![w].stage = "execute", ![w].proof = lastProof + 1]
          /\ loop' = None
       \/ /\ ~eligible(withStore(gone), RequestOf(w))
          /\ GoTo(w, "cancel")
          /\ UNCHANGED <<schedVars, loop>>
    /\ UNCHANGED <<sessions, budget, faults, orphans>>

\* cancelRepositoryWork, which needs no proof and accepts a finished request.
cancelOrLeave(r, gone) ==
    \/ cancelRepositoryWork({r}, gone)
    \/ withStore(gone)[r].status \notin {"queued", "leased"} /\ UNCHANGED schedVars

cancel(w, gone) ==
    /\ At(w, "cancel")
    /\ cancelOrLeave(RequestOf(w), gone)
    /\ GoTo(w, "giveBack")
    /\ UNCHANGED <<sessions, budget, loop, faults, orphans>>

-----------------------------------------------------------------------------
\* The awaited command returns or throws.
executeEnds(w, outcome) ==
    /\ loop = None
    /\ workers[w].stage = "execute"
    /\ workers' = [workers EXCEPT ![w].outcome = outcome,
                                  ![w].stage = IF Scheduled(RequestOf(w)) THEN "release" ELSE "giveBack"]
    /\ loop' = w
    /\ UNCHANGED <<schedVars, sessions, budget, faults, orphans>>

\* Mutant: a lease that was lost is not withdrawn, and neither is a failed one.
completeOnly(w, gone) ==
    /\ At(w, "release")
    /\ \/ completeRepositoryWork(RequestOf(w), workers[w].proof, gone)
       \/ withStore(gone)[RequestOf(w)].proof # workers[w].proof /\ UNCHANGED schedVars
       \/ workers[w].outcome = "cancelled" /\ UNCHANGED schedVars
    /\ GoTo(w, "giveBack")
    /\ UNCHANGED <<sessions, budget, loop, faults, orphans>>

\* releaseWorkbenchAdmission, the scheduler's part: a failed command is cancelled;
\* a successful one is completed with the proof of its lease, or, if the request is
\* not leased any more, cancelled.  Under somebody else's lease it is left alone.
releaseRepository(w, gone) ==
    /\ At(w, "release")
    /\ LET r == RequestOf(w)
           seen == withStore(gone)[r]
       IN \/ workers[w].outcome = "cancelled" /\ cancelOrLeave(r, gone)
          \/ workers[w].outcome = "released" /\ completeRepositoryWork(r, workers[w].proof, gone)
          \/ workers[w].outcome = "released" /\ seen.status # "leased" /\ cancelOrLeave(r, gone)
          \/ /\ workers[w].outcome = "released" /\ seen.status = "leased"
             /\ seen.proof # workers[w].proof /\ UNCHANGED schedVars
    /\ GoTo(w, "giveBack")
    /\ UNCHANGED <<sessions, budget, loop, faults, orphans>>

\* releaseWorkbenchBudget: a lease that is not active any more is left alone.
releaseWorkbenchBudget(w) ==
    /\ At(w, "giveBack")
    /\ budget' = [budget EXCEPT ![RequestOf(w)] = IF @ = w THEN None ELSE @]
    /\ Leaves(w)
    /\ UNCHANGED <<schedVars, sessions, faults, orphans>>

\* Any of these calls may find its store busy.  A refused enqueue or cancel goes on
\* to the budget, a refused claim to the cancel; a refused release of the budget
\* leaves the lease behind.
storeBusy(w) ==
    /\ loop = w
    /\ Busy
    /\ \/ /\ workers[w].stage \in {"enqueue", "cancel", "release"}
          /\ GoTo(w, "giveBack")
          /\ orphans' = orphans \cup {requests[RequestOf(w)].proof}
          /\ UNCHANGED <<budget, loop>>
       \/ At(w, "claim") /\ GoTo(w, "cancel") /\ UNCHANGED <<budget, loop, orphans>>
       \/ /\ At(w, "giveBack")
          /\ budget' = [budget EXCEPT ![RequestOf(w)] = IF @ = w THEN Lost ELSE @]
          /\ Leaves(w)
          /\ UNCHANGED orphans
    /\ UNCHANGED <<schedVars, sessions>>

-----------------------------------------------------------------------------
\* synchronizeWorkbenchRunSession after a change of the run's status: a session
\* that is not in the store is created active whatever the status asks for.
synchronizeWorkbenchRunSession(s, status) ==
    /\ loop = None
    /\ sessions[s] # desiredSessionStatus(status)
    /\ sessions[s] = "absent" => desiredSessionStatus(status) # "completed"
    /\ sessions' = [sessions EXCEPT ![s] = IF @ = "absent" THEN "active" ELSE desiredSessionStatus(status)]
    /\ loop' = IF sessions'[s] = "completed" THEN <<s, "scheduler">> ELSE None
    /\ UNCHANGED <<schedVars, budget, workers, faults, orphans>>

OfSession(s) == {r \in Requests : SessionOf[r] = s}

\* Mutant: the scheduler keeps the requests of the session.
cancelNothing(s, gone) ==
    /\ loop = <<s, "scheduler">>
    /\ loop' = <<s, "budget">>
    /\ UNCHANGED <<schedVars, sessions, budget, workers, faults, orphans>>

\* expireSessionDependents: the scheduler's requests, then the budget's leases.
\* Results are ignored: when a store is busy its leases stay.
cancelDependents(s, gone) ==
    /\ loop = <<s, "scheduler">>
    /\ \/ cancelSessionSchedulerRequests(s, gone) /\ UNCHANGED <<faults, orphans>>
       \/ /\ \A r \in OfSession(s) : withStore(gone)[r].status \notin {"queued", "leased"}
          /\ UNCHANGED <<schedVars, faults, orphans>>
       \/ Busy /\ orphans' = orphans \cup {requests[r].proof : r \in OfSession(s)} /\ UNCHANGED schedVars
    /\ loop' = <<s, "budget">>
    /\ UNCHANGED <<sessions, budget, workers>>

expireSessionBudgetLeases(s) ==
    /\ loop = <<s, "budget">>
    /\ \/ budget' = [r \in Requests |-> IF r \in OfSession(s) THEN None ELSE budget[r]] /\ UNCHANGED faults
       \/ Busy /\ UNCHANGED budget
    /\ loop' = None
    /\ UNCHANGED <<schedVars, sessions, workers, orphans>>

\* retainBoundedSessions, at startup and at every write: sessions that are not
\* active are dropped when they are old or many.
pruneWorkbenchSessions(s) ==
    /\ loop = None
    /\ sessions[s] \in {"paused", "completed", "recovery_required"}
    /\ sessions' = [sessions EXCEPT ![s] = "absent"]
    /\ UNCHANGED <<schedVars, budget, workers, loop, faults, orphans>>

-----------------------------------------------------------------------------
\* The process dies and is started again: the stores are all that is left.
restart ==
    /\ Busy
    /\ workers' = [w \in Workers |-> Idle]
    /\ loop' = None
    /\ budget' = [r \in Requests |-> IF budget[r] = None THEN None ELSE Lost]
    /\ orphans' = orphans \cup {requests[r].proof : r \in Requests}
    /\ UNCHANGED <<schedVars, sessions>>

\* Leases run out, the budget's before the scheduler's, which is acquired later for
\* the same time; whoever executes is not told.
budgetRunsOut(r) ==
    /\ budget[r] # None
    /\ budget' = [budget EXCEPT ![r] = None]
    /\ UNCHANGED <<schedVars, sessions, workers, loop, faults, orphans>>

schedulerRunsOut(r) ==
    /\ \A w \in Workers : budget[r] = w => workers[w].proof # requests[r].proof
    /\ LeaseRunsOut(r)
    /\ UNCHANGED <<sessions, budget, workers, loop, faults, orphans>>

clockMoves == Tick /\ UNCHANGED <<sessions, budget, workers, loop, faults, orphans>>

\* The scheduler's retention drops its finished requests, or none is old enough.
Retention == {{}, Requests}

AdmissionNext ==
    \/ \E w \in Workers :
          \/ \E r \in Requests : acquireWorkbenchBudget(w, r)
          \/ \E gone \in Retention :
                enqueue(w, gone) \/ claim(w, gone) \/ cancel(w, gone) \/ releaseRepository(w, gone)
          \/ \E outcome \in Outcomes : executeEnds(w, outcome)
          \/ releaseWorkbenchBudget(w)
          \/ storeBusy(w)
    \/ \E s \in Sessions :
          \/ \E status \in RunStatuses : synchronizeWorkbenchRunSession(s, status)
          \/ \E gone \in Retention : cancelDependents(s, gone)
          \/ expireSessionBudgetLeases(s)
          \/ pruneWorkbenchSessions(s)
    \/ restart
    \/ \E r \in Requests : budgetRunsOut(r) \/ schedulerRunsOut(r)
    \/ clockMoves

AdmissionSpec == AdmissionInit /\ [][AdmissionNext]_allVars

-----------------------------------------------------------------------------
\* The types of the three stores and of the admissions in progress.
AdmissionTypeOK ==
    /\ SchedTypeOK
    /\ sessions \in [Sessions -> SessionStatuses]
    /\ budget \in [Requests -> Workers \cup {None, Lost}]
    /\ workers \in [Workers -> WorkerState]
    /\ loop \in Workers \cup {None} \cup Sections
    /\ faults \in 0 .. MaxFaults
    /\ orphans \subseteq Nat

Executing(w) == workers[w].stage = "execute"

\* The command runs under a repository lease that was not lost meanwhile.
Covered(w) == Executing(w) /\ workers[w].proof \in Nat \ (ended \cup {0})

\* Of the commands that run under a budget lease that did not run out, no more run
\* at once than the limits allow in total, on a source and in a class, although
\* leases are taken and given back by commands that fail, lose their lease, are
\* refused by the scheduler or belong to a session that is completed.
BudgetRespected ==
    LET running == {RequestOf(w) : w \in {v \in Workers : Executing(v) /\ budget[RequestOf(v)] = v}}
    IN /\ Cardinality(running) <= GlobalLimit
       /\ \A r \in running :
             /\ Cardinality(running \cap SameSource(r)) <= SourceLimit
             /\ Cardinality({q \in running : ClassOf(q) = ClassOf(r)}) <= ClassLimit[ClassOf(r)]

\* Between two sections every lease in force belongs to a command that runs: each
\* way out of an admission gives back what it took, unless the process died or a
\* store was busy.
NothingLeaked ==
    loop = None =>
        /\ \A r \in Requests : budget[r] \notin {None, Lost} => Executing(budget[r]) /\ RequestOf(budget[r]) = r
        /\ \A r \in Requests : requests[r].live /\ requests[r].proof \notin orphans =>
              \E w \in Workers : Executing(w) /\ workers[w].proof = requests[r].proof

\* No command runs under a repository lease of a session that was completed, unless
\* the scheduler was busy when the leases were to be taken away.
CompletedSessionQuiet ==
    loop = None =>
        \A w \in Workers : Covered(w) /\ sessions[SessionOf[RequestOf(w)]] = "completed"
                              => workers[w].proof \in orphans

\* Commands that run under a lease that was not lost are alone on their source, or
\* are all reads: admission, with its retries under one request identity, its
\* cancellations without a proof and its restarts, implements the lock on sources.
CommandLock == INSTANCE SourceLock WITH working <- {RequestOf(w) : w \in {v \in Workers : Covered(v)}}
ImplementsLock == CommandLock!LockSpec
=============================================================================
