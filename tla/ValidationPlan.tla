--------------------------- MODULE ValidationPlan ---------------------------
(***************************************************************************)
(* Validation plans (packages/cli/src/agent/workbench-validation-plans.ts) *)
(* and the persisted jobs that run their nodes                             *)
(* (workbench-validation-jobs.ts).  A coordinator calls advance again and  *)
(* again: each call gives back the leases of ended nodes, takes over the   *)
(* verdicts of ended jobs, and admits and schedules what may run next.     *)
(*                                                                         *)
(* advance and cancel are synchronous, but they write two stores and call  *)
(* admission, and a store that is busy or a process that dies stops them   *)
(* between any two writes: every write is a step, and `call` is the call   *)
(* in progress.  Commands run meanwhile and report when the call is over.  *)
(*                                                                         *)
(* A node's job is found by the idempotency key made of its execution key, *)
(* so a node has at most one job; its admission request identity is made   *)
(* of the same key.  The nodes are numbered in the canonical order.        *)
(***************************************************************************)
EXTENDS Naturals, FiniteSets

CONSTANTS
    N,          \* the number of nodes
    DependsOn,  \* the nodes each node depends on
    Mutating,   \* the nodes of side effect class repository_mutating
    Clashes,    \* pairs of nodes with one isolation key or overlapping output paths
    Heavy,      \* the nodes of cpu class heavy or memory class large
    Capacity,   \* the largest number of nodes at once
    Sessions,   \* sessions that advance the plan
    MaxFaults,  \* bound on busy stores, deaths and refusals, for model checking
    None

Nodes == 1 .. N

ASSUME PlanAssumption ==
    /\ N \in Nat \ {0}
    /\ DependsOn \in [Nodes -> SUBSET Nodes]
    /\ \A n \in Nodes : \A d \in DependsOn[n] : d < n
    /\ Mutating \subseteq Nodes
    /\ Clashes \subseteq Nodes \X Nodes
    /\ Heavy \subseteq Nodes
    /\ Capacity \in Nat \ {0}
    /\ MaxFaults \in Nat
    /\ None \notin Sessions

VARIABLES
    plan,       \* status of the plan and whether its cancellation was requested
    nodes,      \* status, job link and admission lease of each node, in the plan store
    jobs,       \* status of the job of each node, in the job store
    commands,   \* the nodes whose command runs in this process
    admission,  \* what admission knows of each node's request
    headMoved,  \* HEAD is not the expected one any more
    call,       \* the call of advance or cancel in progress
    faults,     \* faults so far
    passed,     \* history: the nodes whose command ended with exit code 0
    started     \* history: how often the command of each node was started

planVars == <<plan, nodes, jobs, commands, admission, headMoved, call, faults, passed, started>>

-----------------------------------------------------------------------------
JobTerminal == {"completed", "failed", "timed_out", "cancelled"}
NodeTerminal == JobTerminal \cup {"dependency_blocked"}
NodeStatuses == NodeTerminal \cup {"queued", "running", "cancel_requested"}
PlanTerminal == JobTerminal
PlanStatuses == PlanTerminal \cup {"absent", "queued", "running", "cancel_requested"}
\* A running job that was asked to stop is stopping.
JobLive == {"queued", "running", "stopping"}
JobStatuses == JobTerminal \cup JobLive \cup {"absent"}

\* How admission sees the request of a node: not known to it; leased; ended in any
\* way, so that it is refused from now on; leased once, and forgotten since.
AdmissionStates == {"unknown", "leased", "ended", "forgotten"}

Phases == {"idle", "free", "active", "admit", "cancelling"}
Steps == Phases \cup {"select", "release", "clear", "settle", "acquire", "persist", "submit",
                      "link", "schedule", "mark"}

\* The pressure on the machine; "unknown" also stands for stale and missing.
Pressures == {"critical", "warning", "unknown", "normal"}

\* phase is the loop over the nodes that the step belongs to, then where a release
\* returns to, pressure what it was when the candidates were selected, todo the
\* candidates still to be admitted.
Call == [step : Steps, phase : Phases, then : Steps, node : 1 .. N + 1,
         session : Sessions \cup {None}, pressure : Pressures, todo : SUBSET Nodes]
NoCall == [step |-> "idle", phase |-> "idle", then |-> "idle", node |-> 1,
           session |-> None, pressure |-> "unknown", todo |-> {}]

PlanInit ==
    /\ plan = [status |-> "absent", cancelRequested |-> FALSE]
    /\ nodes = [n \in Nodes |-> [status |-> "queued", linked |-> FALSE, lease |-> None]]
    /\ jobs = [n \in Nodes |-> "absent"]
    /\ commands = {}
    /\ admission = [n \in Nodes |-> "unknown"]
    /\ headMoved = FALSE
    /\ call = NoCall
    /\ faults = 0
    /\ passed = {}
    /\ started = [n \in Nodes |-> 0]

-----------------------------------------------------------------------------
\* The smallest set that has what n depends on and all that its members depend on.
dependencyClosure ==
    [n \in Nodes |-> {m \in Nodes : \A S \in SUBSET Nodes :
        DependsOn[n] \subseteq S /\ (\A d \in S : DependsOn[d] \subseteq S) => m \in S}]

blockDescendants(ns, ended) ==
    [n \in Nodes |-> IF ns[n].status = "queued" /\ ended \in dependencyClosure[n]
                     THEN [ns[n] EXCEPT !.status = "dependency_blocked"] ELSE ns[n]]

\* Mutant: a node that ended badly blocks nothing.
reconcileAlone(ns, n, status) == [ns EXCEPT ![n].status = status]

reconcileTerminalJob(ns, n, status) ==
    LET told == [ns EXCEPT ![n].status = status]
    IN IF status = "completed" THEN told ELSE blockDescendants(told, n)

\* Mutant: a plan with a cancellation pending is decided by its nodes.
finalizeByNodes(p, ns) ==
    LET have == {ns[n].status : n \in Nodes}
    IN [p EXCEPT !.status =
          CASE have \cap {"running", "queued"} # {} -> "running"
            [] have \cap {"running", "queued"} = {} /\ "cancelled" \in have -> "cancelled"
            [] OTHER -> "completed"]

finalizePlan(p, ns) ==
    LET have == {ns[n].status : n \in Nodes}
    IN [p EXCEPT !.status =
          IF have \cap {"running", "queued", "cancel_requested"} # {}
          THEN IF p.cancelRequested THEN "cancel_requested" ELSE "running"
          ELSE IF p.cancelRequested \/ "cancelled" \in have THEN "cancelled"
          ELSE IF "timed_out" \in have THEN "timed_out"
          ELSE IF have \cap {"failed", "dependency_blocked"} # {} THEN "failed"
          ELSE "completed"]

\* Mutant: nodes with one isolation key may run together.
nodesOverlapFreely(m, n) == m # n /\ m \notin Mutating /\ n \notin Mutating

nodesCanOverlap(m, n) ==
    /\ m # n
    /\ m \notin Mutating /\ n \notin Mutating
    /\ <<m, n>> \notin Clashes /\ <<n, m>> \notin Clashes

Active == {n \in Nodes : nodes[n].status \in {"running", "cancel_requested"}}

\* Mutant: the dependencies are not looked at.
ReadyUnordered(n) ==
    /\ nodes[n].status = "queued" /\ ~nodes[n].linked
    /\ \A m \in Active : nodesCanOverlap(m, n)

Ready(n) ==
    /\ nodes[n].status = "queued"
    /\ ~nodes[n].linked
    /\ \A d \in DependsOn[n] : nodes[d].status = "completed"
    /\ \A m \in Active : nodesCanOverlap(m, n)

\* effectiveWorkbenchValidationPlanConcurrency
concurrency == [p \in Pressures |-> CASE p = "critical" -> 0 [] p = "normal" -> Capacity [] OTHER -> 1]

\* validationNodeAllowedByPressure; a critical pressure leaves no room anyway.
allowedByPressure(n, pressure) == pressure = "warning" => n \notin Heavy

\* selectWorkbenchValidationPlanAdmissionCandidates goes through the nodes in
\* canonical order and picks what is ready, allowed and compatible with those picked
\* before it, while there is room: there is exactly one set of nodes picked so.
candidates(pressure) ==
    LET capacity == concurrency[pressure]
        room == IF plan.cancelRequested \/ Cardinality(Active) >= capacity THEN 0
                ELSE capacity - Cardinality(Active)
        pickedBefore(n, picked) == {m \in picked : m < n}
    IN UNION {picked \in SUBSET Nodes : \A n \in Nodes :
                n \in picked <=>
                    /\ Cardinality(pickedBefore(n, picked)) < room
                    /\ Ready(n) /\ allowedByPressure(n, pressure)
                    /\ \A m \in pickedBefore(n, picked) : nodesCanOverlap(m, n)}

-----------------------------------------------------------------------------
At(step) == call.step = step
Enter(phase) == call' = [call EXCEPT !.step = phase, !.phase = phase, !.node = 1]
GoTo(step) == call' = [call EXCEPT !.step = step]
ReleaseThen(n, then) == call' = [call EXCEPT !.step = "release", !.then = then, !.node = n]
StepOn(n, step) == call' = [call EXCEPT !.step = step, !.node = n]
Returns == call' = NoCall

\* The loop goes on with the next node.
NextNode(n) ==
    call' = [call EXCEPT !.step = call.phase, !.node = n + 1, !.todo = @ \ {n}]

\* The next node of the loop in canonical order, and the end of the loop.
IsNext(n, work) == n \in work /\ n >= call.node /\ \A m \in work : m >= call.node => n <= m
NoneLeft(work) == \A m \in work : m < call.node

Fault == faults < MaxFaults /\ faults' = faults + 1

submitWorkbenchValidationPlan ==
    /\ plan.status = "absent"
    /\ plan' = [plan EXCEPT !.status = "queued"]
    /\ UNCHANGED <<nodes, jobs, commands, admission, headMoved, call, faults, passed, started>>

advanceWorkbenchValidationPlan(s) ==
    /\ At("idle") /\ plan.status # "absent"
    /\ call' = [NoCall EXCEPT !.step = "free", !.phase = "free", !.session = s]
    /\ UNCHANGED <<plan, nodes, jobs, commands, admission, headMoved, faults, passed, started>>

\* The first loop of advance: leases of nodes that have ended.
freeLeases ==
    LET work == {n \in Nodes : nodes[n].status \in NodeTerminal /\ nodes[n].lease # None}
    IN /\ At("free")
       /\ \/ \E n \in Nodes : IsNext(n, work) /\ ReleaseThen(n, "free")
          \/ NoneLeft(work) /\ IF plan.status \in PlanTerminal THEN Returns ELSE Enter("active")
       /\ UNCHANGED <<plan, nodes, jobs, commands, admission, headMoved, faults, passed, started>>

\* releaseNodeAdmissionLease: admission ends the request, whatever became of it, but
\* fails when it does not know the lease any more; then the plan drops the lease.
releaseAdmission ==
    /\ At("release")
    /\ IF admission[call.node] = "forgotten"
       THEN Returns /\ UNCHANGED admission
       ELSE GoTo("clear") /\ admission' = [admission EXCEPT ![call.node] = "ended"]
    /\ UNCHANGED <<plan, nodes, jobs, commands, headMoved, faults, passed, started>>

clearLease ==
    /\ At("clear")
    /\ nodes' = [nodes EXCEPT ![call.node].lease = None]
    /\ IF call.then = "idle" THEN Returns ELSE GoTo(call.then)
    /\ UNCHANGED <<plan, jobs, commands, admission, headMoved, faults, passed, started>>

\* The verdict of an ended job is taken over, first giving back its lease.
Settle(n) == IF nodes[n].lease # None THEN ReleaseThen(n, "settle") ELSE StepOn(n, "settle")

settleNode ==
    LET n == call.node
        told == reconcileTerminalJob([nodes EXCEPT ![n].linked = TRUE], n, jobs[n])
    IN /\ At("settle")
       /\ nodes' = told
       /\ plan' = finalizePlan(plan, told)
       /\ NextNode(n)
       /\ UNCHANGED <<jobs, commands, admission, headMoved, faults, passed, started>>

\* cancelWorkbenchValidationJob: a queued job ends, a running one is asked to.
cancelJob(n) == jobs' = [jobs EXCEPT ![n] = CASE @ = "queued" -> "cancelled"
                                               [] @ = "running" -> "stopping"
                                               [] OTHER -> @]

\* scheduleWorkbenchValidationJob: the job is claimed under a lease and its command
\* started; a job that is not queued is left alone.  A busy store looks like a job
\* that runs already.
scheduleJob(n) ==
    IF jobs[n] = "queued"
    THEN \/ /\ jobs' = [jobs EXCEPT ![n] = "running"]
            /\ commands' = commands \cup {n}
            /\ started' = [started EXCEPT ![n] = @ + 1]
            /\ UNCHANGED faults
         \/ Fault /\ UNCHANGED <<jobs, commands, started>>
    ELSE UNCHANGED <<jobs, commands, started, faults>>

\* The second loop of advance: nodes that were left active by an earlier call.  A
\* node whose lease is this session's is not admitted again, even if the lease ran
\* out long ago.
checkActive ==
    /\ At("active")
    /\ \/ /\ NoneLeft(Active) /\ GoTo("select")
          /\ UNCHANGED <<jobs, commands, started, faults>>
       \/ \E n \in Nodes :
            /\ IsNext(n, Active)
            /\ \/ /\ nodes[n].status = "cancel_requested" /\ jobs[n] \in JobLive
                  /\ cancelJob(n)
                  /\ IF jobs[n] = "queued" THEN UNCHANGED call ELSE NextNode(n)
                  /\ UNCHANGED <<commands, started, faults>>
               \/ /\ jobs[n] \in JobTerminal /\ Settle(n)
                  /\ UNCHANGED <<jobs, commands, started, faults>>
               \/ /\ nodes[n].status = "running" /\ jobs[n] \in JobLive
                  /\ nodes[n].lease # call.session
                  /\ IF nodes[n].lease # None THEN ReleaseThen(n, "acquire") ELSE StepOn(n, "acquire")
                  /\ UNCHANGED <<jobs, commands, started, faults>>
               \/ /\ nodes[n].status = "running" /\ jobs[n] \in JobLive
                  /\ nodes[n].lease = call.session
                  /\ scheduleJob(n)
                  /\ NextNode(n)
    /\ UNCHANGED <<plan, nodes, admission, headMoved, passed>>

\* markWorkbenchValidationPlanStaleHead
StaleHead ==
    LET blocked == [n \in Nodes |-> IF nodes[n].status = "queued"
                                    THEN [nodes[n] EXCEPT !.status = "dependency_blocked"] ELSE nodes[n]]
    IN nodes' = blocked /\ plan' = finalizePlan(plan, blocked)

selectCandidates(pressure) ==
    /\ At("select")
    /\ \/ /\ plan.status \in PlanTerminal
          /\ Returns /\ UNCHANGED <<plan, nodes>>
       \/ /\ plan.status \notin PlanTerminal
          /\ plan.cancelRequested \/ (~headMoved /\ candidates(pressure) = {})
          /\ plan' = finalizePlan(plan, nodes)
          /\ Returns /\ UNCHANGED nodes
       \/ /\ plan.status \notin PlanTerminal /\ ~plan.cancelRequested
          /\ headMoved /\ StaleHead /\ Returns
       \/ /\ plan.status \notin PlanTerminal /\ ~plan.cancelRequested /\ ~headMoved
          /\ candidates(pressure) # {}
          /\ call' = [call EXCEPT !.step = "admit", !.phase = "admit", !.node = 1,
                                  !.pressure = pressure, !.todo = candidates(pressure)]
          /\ UNCHANGED <<plan, nodes>>
    /\ UNCHANGED <<jobs, commands, admission, headMoved, faults, passed, started>>

\* The loop over the candidates: the plan and HEAD are looked at again for each.
admitNode ==
    /\ At("admit")
    /\ \/ /\ call.todo = {} \/ plan.status \in PlanTerminal
          /\ Returns /\ UNCHANGED <<plan, nodes>>
       \/ /\ call.todo # {} /\ plan.status \notin PlanTerminal
          /\ headMoved /\ StaleHead /\ Returns
       \/ /\ plan.status \notin PlanTerminal /\ ~headMoved
          /\ \E n \in call.todo :
               /\ \A m \in call.todo : n <= m
               /\ IF n \notin candidates(call.pressure) THEN NextNode(n)
                  ELSE IF nodes[n].lease = call.session THEN StepOn(n, "submit")
                  ELSE IF nodes[n].lease # None THEN ReleaseThen(n, "acquire")
                  ELSE StepOn(n, "acquire")
          /\ UNCHANGED <<plan, nodes>>
    /\ UNCHANGED <<jobs, commands, admission, headMoved, faults, passed, started>>

\* acquireWorkbenchAdmission under the node's request identity: refused while its
\* lease is in force, and for good once the request has ended.  A request that is
\* refused because the source is busy has ended too; one that the budget refuses
\* has not.
acquireAdmission ==
    /\ At("acquire")
    /\ \/ /\ admission[call.node] = "unknown"
          /\ admission' = [admission EXCEPT ![call.node] = "leased"]
          /\ GoTo("persist") /\ UNCHANGED faults
       \/ /\ admission[call.node] = "unknown" /\ Fault
          /\ admission' \in {admission, [admission EXCEPT ![call.node] = "ended"]}
          /\ Returns
       \/ admission[call.node] # "unknown" /\ Returns /\ UNCHANGED <<admission, faults>>
    /\ UNCHANGED <<plan, nodes, jobs, commands, headMoved, passed, started>>

\* The lease is written to the plan, or given back when the store is busy.
persistLease ==
    /\ At("persist")
    /\ \/ /\ nodes' = [nodes EXCEPT ![call.node].lease = call.session]
          /\ GoTo(IF call.phase = "active" THEN "active" ELSE "submit")
          /\ UNCHANGED <<admission, faults>>
       \/ /\ Fault /\ admission' = [admission EXCEPT ![call.node] = "ended"]
          /\ Returns /\ UNCHANGED nodes
    /\ UNCHANGED <<plan, jobs, commands, headMoved, passed, started>>

\* submitWorkbenchValidationJob finds the job by its idempotency key or creates it;
\* when the job store is busy the lease is given back.
submitJob ==
    /\ At("submit")
    /\ \/ /\ jobs' = [jobs EXCEPT ![call.node] = IF @ = "absent" THEN "queued" ELSE @]
          /\ GoTo("link") /\ UNCHANGED faults
       \/ Fault /\ ReleaseThen(call.node, "idle") /\ UNCHANGED jobs
    /\ UNCHANGED <<plan, nodes, commands, admission, headMoved, passed, started>>

\* The job may have ended before the plan knew of it.
linkJob ==
    LET n == call.node
    IN /\ At("link")
       /\ \/ jobs[n] \in JobTerminal /\ Settle(n) /\ UNCHANGED <<plan, nodes>>
          \/ /\ jobs[n] \notin JobTerminal
             /\ nodes' = [nodes EXCEPT ![n].linked = TRUE, ![n].status = "running"]
             /\ plan' = [plan EXCEPT !.status = "running"]
             /\ GoTo("schedule")
       /\ UNCHANGED <<jobs, commands, admission, headMoved, faults, passed, started>>

scheduleLinked ==
    /\ At("schedule")
    /\ scheduleJob(call.node)
    /\ NextNode(call.node)
    /\ UNCHANGED <<plan, nodes, admission, headMoved, passed>>

-----------------------------------------------------------------------------
\* Mutant: the running nodes are not asked to stop.
cancelQueued ==
    LET marked == [n \in Nodes |->
            IF nodes[n].status = "queued" THEN [nodes[n] EXCEPT !.status = "cancelled"] ELSE nodes[n]]
        asked == [plan EXCEPT !.cancelRequested = TRUE]
    IN /\ At("idle") /\ plan.status \notin PlanTerminal \cup {"absent"}
       /\ nodes' = marked /\ plan' = finalizePlan(asked, marked)
       /\ call' = [NoCall EXCEPT !.step = "cancelling", !.phase = "cancelling"]
       /\ UNCHANGED <<jobs, commands, admission, headMoved, faults, passed, started>>

\* cancelWorkbenchValidationPlan marks the plan and its nodes in one write, unless
\* the plan has ended, and then cancels jobs and gives back leases one by one.
cancelWorkbenchValidationPlan ==
    LET marked == [n \in Nodes |->
            CASE nodes[n].status = "queued" -> [nodes[n] EXCEPT !.status = "cancelled"]
              [] nodes[n].status = "running" -> [nodes[n] EXCEPT !.status = "cancel_requested"]
              [] OTHER -> nodes[n]]
        asked == [plan EXCEPT !.cancelRequested = TRUE]
    IN /\ At("idle") /\ plan.status # "absent"
       /\ IF plan.status \in PlanTerminal THEN UNCHANGED <<plan, nodes>>
          ELSE nodes' = marked /\ plan' = finalizePlan(asked, marked)
       /\ call' = [NoCall EXCEPT !.step = "cancelling", !.phase = "cancelling"]
       /\ UNCHANGED <<jobs, commands, admission, headMoved, faults, passed, started>>

cancelJobs ==
    LET leased == {n \in Nodes : nodes[n].status = "cancelled" /\ nodes[n].lease # None}
        asked == {n \in Nodes : nodes[n].status = "cancel_requested" /\ nodes[n].linked}
    IN /\ At("cancelling")
       /\ \/ NoneLeft(leased \cup asked) /\ Returns /\ UNCHANGED jobs
          \/ \E n \in Nodes :
               /\ IsNext(n, leased \cup asked)
               /\ \/ n \in leased /\ ReleaseThen(n, "cancelling") /\ UNCHANGED jobs
                  \/ n \in asked /\ jobs[n] \in JobTerminal /\ Settle(n) /\ UNCHANGED jobs
                  \/ /\ n \in asked /\ jobs[n] \in JobLive
                     /\ cancelJob(n)
                     /\ IF jobs[n] = "queued" THEN UNCHANGED call ELSE NextNode(n)
       /\ UNCHANGED <<plan, nodes, commands, admission, headMoved, faults, passed, started>>

-----------------------------------------------------------------------------
\* A store is busy, HEAD cannot be read, an update throws: the call returns early.
cutShort ==
    /\ call.step \notin {"idle", "persist", "submit"}
    /\ Fault /\ Returns
    /\ UNCHANGED <<plan, nodes, jobs, commands, admission, headMoved, passed, started>>

\* The process dies; its commands die with it, what it wrote stays.
die ==
    /\ Fault /\ Returns
    /\ commands' = {}
    /\ UNCHANGED <<plan, nodes, jobs, admission, headMoved, passed, started>>

\* terminalStatus and recordWorkbenchValidationJobResult: only a job that was asked
\* to stop is reported cancelled, and only a job that has not ended is written.
commandEnds(n, result) ==
    /\ At("idle") /\ n \in commands
    /\ result = "cancelled" => jobs[n] = "stopping"
    /\ jobs' = [jobs EXCEPT ![n] = IF @ \in JobTerminal THEN @ ELSE result]
    /\ commands' = commands \ {n}
    /\ passed' = IF result = "completed" THEN passed \cup {n} ELSE passed
    /\ UNCHANGED <<plan, nodes, admission, headMoved, call, faults, started>>

\* The job store is busy when the command reports: nothing is written, nothing retried.
resultLost(n) ==
    /\ At("idle") /\ n \in commands /\ Fault
    /\ commands' = commands \ {n}
    /\ passed' \in {passed, passed \cup {n}}
    /\ UNCHANGED <<plan, nodes, jobs, admission, headMoved, call, started>>

\* A client cancels a job by its identity, behind the plan's back.
clientCancelsJob(n) ==
    /\ At("idle") /\ jobs[n] \in {"queued", "running"}
    /\ cancelJob(n)
    /\ UNCHANGED <<plan, nodes, commands, admission, headMoved, call, faults, passed, started>>

\* Mutant: an orphaned job is run once more.
requeueExpired(n) ==
    /\ At("idle") /\ jobs[n] \in {"running", "stopping"} /\ n \notin commands
    /\ jobs' = [jobs EXCEPT ![n] = "queued"]
    /\ UNCHANGED <<plan, nodes, commands, admission, headMoved, call, faults, passed, started>>

\* recoverExpiredRunningJobsInStore: the lease of a job outlives its command's
\* timeout by a minute, so only a job whose command is gone runs out of it.
recoverExpiredRunningJob(n) ==
    /\ At("idle") /\ jobs[n] \in {"running", "stopping"} /\ n \notin commands
    /\ jobs' = [jobs EXCEPT ![n] = "failed"]
    /\ UNCHANGED <<plan, nodes, commands, admission, headMoved, call, faults, passed, started>>

\* The admission lease has the same length as the job's.
admissionExpires(n) ==
    /\ At("idle") /\ admission[n] = "leased" /\ n \notin commands
    /\ admission' = [admission EXCEPT ![n] = "unknown"]
    /\ UNCHANGED <<plan, nodes, jobs, commands, headMoved, call, faults, passed, started>>

\* The stores of admission keep ended requests for an hour or two.  A lease that a
\* node still names can then never be given back.
admissionForgets(n) ==
    /\ At("idle") /\ admission[n] = "ended" /\ nodes[n].lease = None
    /\ admission' = [admission EXCEPT ![n] = "unknown"]
    /\ UNCHANGED <<plan, nodes, jobs, commands, headMoved, call, faults, passed, started>>

leaseForgotten(n) ==
    /\ At("idle") /\ admission[n] \in {"ended", "unknown"} /\ nodes[n].lease # None
    /\ Fault
    /\ admission' = [admission EXCEPT ![n] = "forgotten"]
    /\ UNCHANGED <<plan, nodes, jobs, commands, headMoved, call, passed, started>>

\* Somebody commits: between calls, or while one is between two nodes.
moveHead ==
    /\ ~headMoved /\ plan.status # "absent" /\ call.step \in {"idle", "admit"}
    /\ headMoved' = TRUE
    /\ UNCHANGED <<plan, nodes, jobs, commands, admission, call, faults, passed, started>>

-----------------------------------------------------------------------------
CallStep ==
    \/ freeLeases \/ releaseAdmission \/ clearLease \/ settleNode \/ checkActive
    \/ (\E pressure \in Pressures : selectCandidates(pressure))
    \/ admitNode \/ acquireAdmission \/ persistLease \/ submitJob \/ linkJob \/ scheduleLinked
    \/ cancelJobs

PlanNext ==
    \/ submitWorkbenchValidationPlan
    \/ \E s \in Sessions : advanceWorkbenchValidationPlan(s)
    \/ cancelWorkbenchValidationPlan
    \/ CallStep
    \/ cutShort \/ die \/ moveHead
    \/ \E n \in Nodes :
         \/ \E result \in JobTerminal : commandEnds(n, result)
         \/ resultLost(n) \/ clientCancelsJob(n) \/ recoverExpiredRunningJob(n)
         \/ admissionExpires(n) \/ admissionForgets(n) \/ leaseForgotten(n)

PlanSpec == PlanInit /\ [][PlanNext]_planVars

\* The coordinator keeps advancing a plan that has not ended, a call that began goes
\* on, every command has a timeout, leases run out; what happens between two calls
\* happens although the calls go on; and the machine is not short of resources at every
\* look.
PlanFairness ==
    /\ WF_planVars(plan.status \notin PlanTerminal
                   /\ \E s \in Sessions : advanceWorkbenchValidationPlan(s))
    /\ WF_planVars(CallStep)
    /\ SF_planVars(\E pressure \in {"unknown", "normal"} : selectCandidates(pressure))
    /\ \A n \in Nodes :
         /\ SF_planVars(\E result \in JobTerminal : commandEnds(n, result))
         /\ SF_planVars(recoverExpiredRunningJob(n))
         /\ SF_planVars(admissionExpires(n))
         /\ SF_planVars(admissionForgets(n))

FairPlanSpec == PlanSpec /\ PlanFairness

-----------------------------------------------------------------------------
PlanTypeOK ==
    /\ plan \in [status : PlanStatuses, cancelRequested : BOOLEAN]
    /\ nodes \in [Nodes -> [status : NodeStatuses, linked : BOOLEAN, lease : Sessions \cup {None}]]
    /\ jobs \in [Nodes -> JobStatuses]
    /\ commands \subseteq Nodes
    /\ admission \in [Nodes -> AdmissionStates]
    /\ headMoved \in BOOLEAN
    /\ call \in Call
    /\ faults \in 0 .. MaxFaults
    /\ passed \subseteq Nodes
    /\ started \in [Nodes -> Nat]

\* Whatever becomes of admission leases, the commands that run at one time may
\* overlap: none mutates the repository beside another, no two share an isolation
\* key or an output path, and there are no more of them than the plan's limit.
OverlapSafe ==
    /\ \A m, n \in commands : m # n => m \notin Mutating /\ <<m, n>> \notin Clashes
    /\ Cardinality(commands) <= Capacity

\* A command runs, and a node is called completed, only when the commands of all its
\* dependencies have really ended with exit code 0, through crashes, lost results and
\* jobs found again by their key.
DependenciesPassed ==
    /\ \A n \in commands : dependencyClosure[n] \subseteq passed
    /\ \A n \in Nodes : nodes[n].status = "completed" => {n} \cup dependencyClosure[n] \subseteq passed

\* The command of a node is started at most once, however often the plan is advanced
\* and whoever advances it: a mutating command is not repeated after a crash.
RunOnce == \A n \in Nodes : started[n] <= 1

\* A plan that has ended has no command running and no node undecided, and one that
\* is called completed has every command behind it.
VerdictComplete ==
    plan.status \in PlanTerminal =>
        /\ commands = {}
        /\ \A n \in Nodes : nodes[n].status \in NodeTerminal
        /\ plan.status = "completed" => passed = Nodes

\* Once the cancellation is written no further command is started, and a verdict that
\* was given is never changed.
CancelAndVerdictStick ==
    [][ /\ plan.cancelRequested => started' = started
        /\ plan.status \in PlanTerminal => plan' = plan ]_planVars

\* A submitted plan comes to a verdict, unless a node names a lease that admission
\* has forgotten: releasing it fails for ever, and with it every call.
PlanSettles ==
    plan.status = "queued" ~> (plan.status \in PlanTerminal \/ \E n \in Nodes : admission[n] = "forgotten")
=============================================================================
