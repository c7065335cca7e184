----------------------- MODULE ValidationPlanProofs -----------------------
(***************************************************************************)
(* Theorems about validation plans, for every number of nodes, every       *)
(* dependency order, every relation of clashes and every number of         *)
(* sessions and faults.                                                    *)
(*                                                                         *)
(* PlanInv is the inductive invariant: what the two stores say of each     *)
(* other (JobsStarted, CommandsTracked, ActiveCompatible, JobsJustified,   *)
(* CancelSwept, VerdictCovers) and what the call in progress may rely on   *)
(* at each of its steps (CallPlace).  The plan is looked at when a node is *)
(* selected and written several writes later; CallPlace says that the look *)
(* is still good then, because only the call itself writes meanwhile.      *)
(***************************************************************************)
EXTENDS ValidationPlan, FiniteSetTheorems, TLAPS

-----------------------------------------------------------------------------
\* A job that waits was never started, and no job was started twice.
JobsStarted ==
    \A n \in Nodes : /\ started[n] \in {0, 1}
                     /\ jobs[n] \in {"absent", "queued"} => started[n] = 0

\* A command that runs is that of a running job, and its node is active.
CommandsTracked ==
    \A n \in commands : jobs[n] \in {"running", "stopping"} /\ n \in Active

\* The active nodes may overlap, and there are not too many.
ActiveCompatible ==
    /\ \A m, n \in Active : m # n => m \notin Mutating /\ <<m, n>> \notin Clashes
    /\ Cardinality(Active) <= Capacity

\* A job exists only for a node whose dependencies have passed, an active node has a
\* job, and what is called completed has passed.
JobsJustified ==
    \A n \in Nodes : /\ jobs[n] # "absent" => dependencyClosure[n] \subseteq passed
                     /\ jobs[n] = "completed" => n \in passed
                     /\ nodes[n].status \in {"running", "cancel_requested"} => jobs[n] # "absent"
                     /\ nodes[n].status = "completed" => jobs[n] = "completed"

\* A cancellation leaves no node that could still be started.
CancelSwept ==
    plan.cancelRequested => \A n \in Nodes : nodes[n].status \notin {"queued", "running"}

\* A verdict is about nodes that have all ended.
VerdictCovers ==
    /\ plan.status \in PlanTerminal => \A n \in Nodes : nodes[n].status \in NodeTerminal
    /\ plan.status = "completed" => \A n \in Nodes : nodes[n].status = "completed"

\* The call is about to take the step, or gives back a lease before it does.
Heading(step) == call.step = step \/ (call.step \in {"release", "clear"} /\ call.then = step)

\* The node may be made active.
Admissible(n) == Ready(n) /\ Cardinality(Active) < Capacity /\ ~plan.cancelRequested

\* What the call relies on.
CallPlace ==
    /\ call.step \in {"release", "clear", "settle", "acquire", "persist", "submit", "link", "schedule"}
         => call.node \in Nodes
    /\ call.step \in {"release", "clear"} => call.then \in {"free", "cancelling", "settle", "acquire", "idle"}
    /\ call.step = "active" => call.phase = "active"
    /\ call.step \in {"admit", "submit", "link", "schedule"} => call.phase = "admit"
    /\ Heading("acquire") \/ call.step = "persist" => call.phase \in {"active", "admit"}
    /\ Heading("settle") => jobs[call.node] \in JobTerminal /\ nodes[call.node].status \notin NodeTerminal
    /\ call.phase = "admit" /\ (Heading("acquire") \/ call.step \in {"persist", "submit", "link"})
         => Admissible(call.node)
    /\ call.step = "link" => jobs[call.node] # "absent"
    /\ call.step = "schedule" => nodes[call.node].status = "running" /\ ~plan.cancelRequested

StoresAgree ==
    /\ JobsStarted
    /\ CommandsTracked
    /\ ActiveCompatible
    /\ JobsJustified
    /\ CancelSwept
    /\ VerdictCovers

PlanInv == PlanTypeOK /\ StoresAgree /\ CallPlace

-----------------------------------------------------------------------------
(* The operators of the model.                                             *)

PlanRecord == [status : PlanStatuses, cancelRequested : BOOLEAN]
NodeRecord == [status : NodeStatuses, linked : BOOLEAN, lease : Sessions \cup {None}]

LEMMA ActiveFinite ==
  ASSUME PlanTypeOK
  PROVE  IsFiniteSet(Active) /\ Cardinality(Active) \in Nat /\ Active \subseteq Nodes
<1>1. IsFiniteSet(Nodes)
  BY FS_Interval, PlanAssumption DEF Nodes
<1>2. Active \subseteq Nodes
  BY DEF Active
<1>. QED  BY <1>1, <1>2, FS_Subset, FS_CardinalityType

\* What the loop picks is ready, and picking it leaves the number of active nodes
\* within the limit.
LEMMA CandidatesAdmissible ==
  ASSUME PlanTypeOK, NEW pressure \in Pressures, NEW n \in candidates(pressure)
  PROVE  n \in Nodes /\ Admissible(n)
<1>. DEFINE room == IF plan.cancelRequested \/ Cardinality(Active) >= concurrency[pressure] THEN 0
                    ELSE concurrency[pressure] - Cardinality(Active)
<1>1. PICK picked \in SUBSET Nodes :
        /\ n \in picked
        /\ Cardinality({m \in picked : m < n}) < room /\ Ready(n)
  BY DEF candidates
<1>2. Cardinality({m \in picked : m < n}) \in Nat
  <2>1. IsFiniteSet(Nodes)
    BY FS_Interval, PlanAssumption DEF Nodes
  <2>2. IsFiniteSet({m \in picked : m < n})
    BY <2>1, <1>1, FS_Subset
  <2>. QED  BY <2>2, FS_CardinalityType
<1>3. concurrency[pressure] \in Nat /\ concurrency[pressure] <= Capacity
  BY PlanAssumption DEF concurrency, Pressures
<1>4. Cardinality(Active) < Capacity /\ ~plan.cancelRequested
  <2>1. room # 0
    BY <1>1, <1>2
  <2>. QED  BY <2>1, <1>3, ActiveFinite, PlanAssumption
<1>. QED  BY <1>1, <1>4 DEF Admissible

LEMMA CandidatesAreNodes ==
  ASSUME NEW pressure \in Pressures
  PROVE  candidates(pressure) \subseteq Nodes
  BY DEF candidates

\* What n depends on in several steps is what it depends on in one and what those do.
LEMMA ClosureReached ==
  ASSUME NEW n \in Nodes, NEW P, \A d \in DependsOn[n] : {d} \cup dependencyClosure[d] \subseteq P
  PROVE  dependencyClosure[n] \subseteq P
<1>. DEFINE S == {m \in Nodes : m \in P /\ dependencyClosure[m] \subseteq P}
<1>1. DependsOn[n] \subseteq S
  BY PlanAssumption
<1>2. ASSUME NEW d \in S, NEW e \in DependsOn[d] PROVE e \in S
  <2>1. d \in Nodes /\ e \in Nodes
    BY <1>2, PlanAssumption
  <2>2. e \in dependencyClosure[d]
    BY <2>1, <1>2 DEF dependencyClosure
  <2>3. dependencyClosure[e] \subseteq dependencyClosure[d]
    <3>. SUFFICES ASSUME NEW m \in dependencyClosure[e], NEW T \in SUBSET Nodes,
                         DependsOn[d] \subseteq T, \A c \in T : DependsOn[c] \subseteq T
                  PROVE  m \in T
      BY <2>1 DEF dependencyClosure
    <3>1. DependsOn[e] \subseteq T
      BY <1>2
    <3>. QED  BY <3>1, <2>1 DEF dependencyClosure
  <2>. QED  BY <2>1, <2>2, <2>3, <1>2
<1>3. S \in SUBSET Nodes
  OBVIOUS
<1>4. \A m \in dependencyClosure[n] : m \in S
  BY <1>1, <1>2, <1>3 DEF dependencyClosure
<1>. QED  BY <1>4

\* finalizePlan keeps the cancellation and gives a verdict only when all nodes ended.
LEMMA Finalized ==
  ASSUME NEW p \in PlanRecord, NEW ns \in [Nodes -> NodeRecord]
  PROVE  /\ finalizePlan(p, ns) \in PlanRecord
         /\ finalizePlan(p, ns).cancelRequested = p.cancelRequested
         /\ finalizePlan(p, ns).status \in PlanTerminal => \A n \in Nodes : ns[n].status \in NodeTerminal
         /\ finalizePlan(p, ns).status = "completed" => \A n \in Nodes : ns[n].status = "completed"
<1>. DEFINE have == {ns[n].status : n \in Nodes}
            open == have \cap {"running", "queued", "cancel_requested"}
<1>1. have \subseteq NodeStatuses
  BY DEF NodeRecord
<1>2. PICK s : finalizePlan(p, ns) = [p EXCEPT !.status = s] /\
        s = IF open # {}
          THEN IF p.cancelRequested THEN "cancel_requested" ELSE "running"
          ELSE IF p.cancelRequested \/ "cancelled" \in have THEN "cancelled"
          ELSE IF "timed_out" \in have THEN "timed_out"
          ELSE IF have \cap {"failed", "dependency_blocked"} # {} THEN "failed"
          ELSE "completed"
  BY DEF finalizePlan
<1>3. s \in PlanStatuses
  BY <1>2 DEF PlanStatuses, PlanTerminal, JobTerminal
<1>4. /\ finalizePlan(p, ns) \in PlanRecord
      /\ finalizePlan(p, ns).cancelRequested = p.cancelRequested
      /\ finalizePlan(p, ns).status = s
  BY <1>2, <1>3 DEF PlanRecord
<1>5. s \in PlanTerminal => open = {}
  BY <1>2 DEF PlanTerminal, JobTerminal
<1>6. open = {} => \A n \in Nodes : ns[n].status \in NodeTerminal
  BY <1>1 DEF NodeStatuses
<1>7. s = "completed" => open = {} /\ have \cap {"cancelled", "timed_out", "failed", "dependency_blocked"} = {}
  BY <1>2
<1>8. s = "completed" => \A n \in Nodes : ns[n].status = "completed"
  BY <1>7, <1>6 DEF NodeTerminal, JobTerminal
<1>. QED  BY <1>4, <1>5, <1>6, <1>8

\* A verdict is taken over: the node has it, and nodes that wait may become blocked.
TakenOver(ns, n, status, told) ==
    /\ told \in [Nodes -> NodeRecord]
    /\ told[n].status = status
    /\ \A m \in Nodes \ {n} : \/ told[m].status = ns[m].status
                              \/ ns[m].status = "queued" /\ told[m].status = "dependency_blocked"

LEMMA Reconciled ==
  ASSUME NEW ns \in [Nodes -> NodeRecord], NEW n \in Nodes, NEW status \in JobTerminal
  PROVE  TakenOver(ns, n, status, reconcileTerminalJob(ns, n, status))
<1>0. PICK told : told = reconcileTerminalJob(ns, n, status)
  OBVIOUS
<1>1. PICK first : first = [ns EXCEPT ![n].status = status]
  OBVIOUS
<1>2. /\ first \in [Nodes -> NodeRecord] /\ first[n].status = status
      /\ \A m \in Nodes \ {n} : first[m] = ns[m]
  BY <1>1 DEF NodeRecord, NodeStatuses, NodeTerminal
<1>3. ASSUME status = "completed" PROVE TakenOver(ns, n, status, told)
  <2>1. told = first
    BY <1>0, <1>1, <1>3 DEF reconcileTerminalJob
  <2>. QED  BY <2>1, <1>2 DEF TakenOver
<1>4. ASSUME status # "completed" PROVE TakenOver(ns, n, status, told)
  <2>1. told = blockDescendants(first, n)
    BY <1>0, <1>1, <1>4 DEF reconcileTerminalJob
  <2>2. \A m \in Nodes : told[m] = IF first[m].status = "queued" /\ n \in dependencyClosure[m]
                                   THEN [first[m] EXCEPT !.status = "dependency_blocked"] ELSE first[m]
    BY <2>1 DEF blockDescendants
  <2>3. \A m \in Nodes : /\ [first[m] EXCEPT !.status = "dependency_blocked"] \in NodeRecord
                         /\ [first[m] EXCEPT !.status = "dependency_blocked"].status = "dependency_blocked"
    BY <1>2 DEF NodeRecord, NodeStatuses, NodeTerminal
  <2>4. told[n].status = status
    <3>1. status # "queued"
      BY DEF JobTerminal
    <3>. QED  BY <3>1, <2>2, <1>2
  <2>5. told \in [Nodes -> NodeRecord]
    <3>1. told = [m \in Nodes |-> told[m]]
      BY <2>1 DEF blockDescendants
    <3>. QED  BY <3>1, <2>2, <2>3, <1>2
  <2>. QED  BY <2>2, <2>3, <2>4, <2>5, <1>2 DEF TakenOver
<1>. QED  BY <1>0, <1>3, <1>4

-----------------------------------------------------------------------------
(* How the call moves.                                                     *)

LEMMA CallKeepsType ==
  ASSUME PlanTypeOK
  PROVE  /\ Returns => call' \in Call /\ call'.step = "idle"
         /\ \A step \in Steps : GoTo(step) =>
              /\ call' \in Call /\ call'.step = step
              /\ call'.phase = call.phase /\ call'.then = call.then /\ call'.node = call.node
         /\ \A phase \in Phases : Enter(phase) => call' \in Call /\ call'.step = phase /\ call'.phase = phase
         /\ \A n \in Nodes, then \in Steps : ReleaseThen(n, then) =>
              call' \in Call /\ call'.step = "release" /\ call'.phase = call.phase /\ call'.then = then /\ call'.node = n
         /\ \A n \in Nodes, step \in Steps : StepOn(n, step) =>
              call' \in Call /\ call'.step = step /\ call'.phase = call.phase /\ call'.then = call.then /\ call'.node = n
         /\ \A n \in Nodes : NextNode(n) => call' \in Call /\ call'.step = call.phase /\ call'.phase = call.phase
<1>. USE DEF Call
<1>0. call \in Call /\ 1 \in 1 .. N + 1 /\ \A n \in Nodes : n \in 1 .. N + 1 /\ n + 1 \in 1 .. N + 1
  BY PlanAssumption DEF PlanTypeOK, Nodes
<1>1. Returns => call' \in Call /\ call'.step = "idle"
  BY <1>0, PlanAssumption DEF Returns, NoCall, Steps, Phases, Pressures
<1>2. \A step \in Steps : GoTo(step) =>
              /\ call' \in Call /\ call'.step = step
              /\ call'.phase = call.phase /\ call'.then = call.then /\ call'.node = call.node
  BY <1>0 DEF GoTo
<1>3. \A phase \in Phases : Enter(phase) => call' \in Call /\ call'.step = phase /\ call'.phase = phase
  <2>. SUFFICES ASSUME NEW phase \in Phases, Enter(phase)
                PROVE  call' \in Call /\ call'.step = phase /\ call'.phase = phase
    OBVIOUS
  <2>1. phase \in Steps
    BY DEF Steps
  <2>. QED  BY <1>0, <2>1 DEF Enter
<1>4. \A n \in Nodes, then \in Steps : ReleaseThen(n, then) =>
              call' \in Call /\ call'.step = "release" /\ call'.phase = call.phase /\ call'.then = then /\ call'.node = n
  <2>1. "release" \in Steps
    BY DEF Steps
  <2>. QED  BY <1>0, <2>1 DEF ReleaseThen
<1>5. \A n \in Nodes, step \in Steps : StepOn(n, step) =>
              call' \in Call /\ call'.step = step /\ call'.phase = call.phase /\ call'.then = call.then /\ call'.node = n
  BY <1>0 DEF StepOn
<1>6. \A n \in Nodes : NextNode(n) => call' \in Call /\ call'.step = call.phase /\ call'.phase = call.phase
  <2>. SUFFICES ASSUME NEW n \in Nodes, NextNode(n)
                PROVE  call' \in Call /\ call'.step = call.phase /\ call'.phase = call.phase
    OBVIOUS
  <2>1. PICK todo : todo = call.todo \ {n}
    OBVIOUS
  <2>2. call' = [call EXCEPT !.step = call.phase, !.node = n + 1, !.todo = todo]
    BY <2>1 DEF NextNode
  <2>3. todo \in SUBSET Nodes /\ call.phase \in Steps /\ n + 1 \in 1 .. N + 1
    BY <1>0, <2>1 DEF Steps
  <2>. QED  BY <1>0, <2>2, <2>3
<1>. QED  BY <1>1, <1>2, <1>3, <1>4, <1>5, <1>6

\* The loops over the nodes rely on nothing.
LEMMA LoopPlace ==
  ASSUME \/ call'.step \in {"idle", "free", "select", "cancelling"}
         \/ call'.step \in {"active", "admit"} /\ call'.phase = call'.step
  PROVE  CallPlace'
<1>1. /\ call'.step \notin {"release", "clear", "settle", "acquire", "persist", "submit", "link", "schedule"}
      /\ call'.step \in {"active", "admit"} => call'.phase = call'.step
  OBVIOUS
<1>2. ~Heading("acquire")' /\ ~Heading("settle")'
  BY <1>1 DEF Heading
<1>. QED  BY <1>1, <1>2 DEF CallPlace

\* A call that goes on with the next node, or returns, is in such a loop.
LEMMA OnwardPlace ==
  ASSUME PlanTypeOK, NEW n \in Nodes, Returns \/ NextNode(n)
  PROVE  call' \in Call /\ CallPlace'
<1>1. CASE Returns
  BY <1>1, CallKeepsType, LoopPlace
<1>2. CASE NextNode(n)
  <2>1. call' \in Call /\ call'.step = call.phase /\ call'.phase = call.phase
    BY <1>2, CallKeepsType
  <2>2. call.phase \in Phases
    BY DEF PlanTypeOK, Call
  <2>. QED  BY <2>1, <2>2, LoopPlace DEF Phases
<1>. QED  BY <1>1, <1>2

-----------------------------------------------------------------------------
(* What the ways of writing the stores keep.                               *)

LEMMA SameActive ==
  ASSUME \A n \in Nodes : nodes'[n].status = nodes[n].status
  PROVE  Active' = Active
  BY DEF Active

LEMMA SameAdmissible ==
  ASSUME plan' = plan, NEW n \in Nodes,
         \A m \in Nodes : nodes'[m].status = nodes[m].status /\ nodes'[m].linked = nodes[m].linked
  PROVE  Admissible(n)' <=> Admissible(n)
<1>1. Active' = Active
  BY SameActive
<1>2. DependsOn[n] \subseteq Nodes
  BY PlanAssumption
<1>. QED  BY <1>1, <1>2 DEF Admissible, Ready

\* Leases, admission, HEAD, faults and the call are not what the invariant is about.
LEMMA LeasesMove ==
  ASSUME PlanTypeOK, StoresAgree, plan' = plan, jobs' = jobs, started' = started, passed \subseteq passed', commands' \subseteq commands,
         \A n \in Nodes : nodes'[n].status = nodes[n].status
  PROVE  StoresAgree'
<1>. USE DEF StoresAgree
<1>1. Active' = Active
  BY SameActive
<1>2. JobsStarted' /\ CommandsTracked' /\ ActiveCompatible'
  BY <1>1 DEF JobsStarted, CommandsTracked, ActiveCompatible
<1>3. JobsJustified'
  BY DEF JobsJustified
<1>4. CancelSwept' /\ VerdictCovers'
  BY DEF CancelSwept, VerdictCovers
<1>. QED  BY <1>2, <1>3, <1>4

\* A job that exists is asked to stop or ends.
LEMMA JobMoves ==
  ASSUME PlanTypeOK, StoresAgree, plan' = plan, nodes' = nodes, started' = started,
         passed \subseteq passed', commands' \subseteq commands,
         NEW n \in Nodes, NEW j \in JobTerminal \cup {"running", "stopping"}, jobs' = [jobs EXCEPT ![n] = j],
         jobs[n] # "absent", n \in commands' => j \in {"running", "stopping"},
         j = "completed" => n \in passed', jobs[n] = "completed" => j = "completed"
  PROVE  StoresAgree' /\ jobs' \in [Nodes -> JobStatuses]
<1>. USE DEF StoresAgree
<1>0. /\ jobs'[n] = j /\ j \notin {"absent", "queued"}
      /\ \A m \in Nodes \ {n} : jobs'[m] = jobs[m]
      /\ jobs' \in [Nodes -> JobStatuses]
  BY DEF PlanTypeOK, JobTerminal, JobStatuses, JobLive
<1>1. Active' = Active
  BY SameActive
<1>2. JobsStarted'
  BY <1>0 DEF JobsStarted
<1>3. CommandsTracked' /\ ActiveCompatible'
  BY <1>0, <1>1 DEF CommandsTracked, ActiveCompatible, PlanTypeOK
<1>4. JobsJustified'
  BY <1>0 DEF JobsJustified
<1>5. CancelSwept' /\ VerdictCovers'
  BY DEF CancelSwept, VerdictCovers
<1>. QED  BY <1>0, <1>2, <1>3, <1>4, <1>5

LEMMA JobCancelled ==
  ASSUME PlanTypeOK, StoresAgree, NEW n \in Nodes, jobs[n] \in {"queued", "running", "stopping"}, cancelJob(n),
         plan' = plan, nodes' = nodes, started' = started, passed' = passed, commands' = commands
  PROVE  StoresAgree' /\ jobs' \in [Nodes -> JobStatuses]
<1>1. PICK j : j = CASE jobs[n] = "queued" -> "cancelled" [] jobs[n] = "running" -> "stopping" [] OTHER -> jobs[n]
  OBVIOUS
<1>2. jobs' = [jobs EXCEPT ![n] = j]
  BY <1>1 DEF cancelJob
<1>3. j \in {"cancelled", "stopping"} /\ (jobs[n] # "queued" => j = "stopping")
  BY <1>1
<1>4. n \in commands => jobs[n] # "queued"
  BY DEF StoresAgree, CommandsTracked
<1>5. j \in JobTerminal \cup {"running", "stopping"}
  BY <1>3 DEF JobTerminal
<1>. QED  BY <1>2, <1>3, <1>4, <1>5, JobMoves

\* A queued job of an active node is started, or stays as it is.
LEMMA JobScheduled ==
  ASSUME PlanTypeOK, StoresAgree, NEW n \in Active, scheduleJob(n),
         plan' = plan, nodes' = nodes, passed' = passed
  PROVE  /\ StoresAgree' /\ jobs' \in [Nodes -> JobStatuses] /\ commands' \subseteq Nodes
         /\ faults' \in 0 .. MaxFaults /\ started' \in [Nodes -> Nat]
<1>. USE DEF StoresAgree
<1>0. n \in Nodes
  BY DEF Active
<1>1. CASE UNCHANGED <<jobs, commands, started>>
  <2>1. faults' \in 0 .. MaxFaults
    BY PlanAssumption DEF scheduleJob, Fault, PlanTypeOK
  <2>. QED  BY <1>1, <2>1, LeasesMove DEF PlanTypeOK
<1>2. CASE /\ jobs[n] = "queued" /\ jobs' = [jobs EXCEPT ![n] = "running"] /\ commands' = commands \cup {n}
           /\ started' = [started EXCEPT ![n] = @ + 1] /\ faults' = faults
  <2>1. /\ jobs'[n] = "running" /\ \A m \in Nodes \ {n} : jobs'[m] = jobs[m]
        /\ jobs' \in [Nodes -> JobStatuses]
    BY <1>0, <1>2 DEF PlanTypeOK, JobStatuses, JobLive
  <2>2. /\ started'[n] = started[n] + 1 /\ \A m \in Nodes \ {n} : started'[m] = started[m]
        /\ started' \in [Nodes -> Nat]
    BY <1>0, <1>2 DEF PlanTypeOK
  <2>3. started[n] = 0
    BY <1>0, <1>2 DEF JobsStarted
  <2>4. JobsStarted'
    BY <2>1, <2>2, <2>3 DEF JobsStarted
  <2>5. Active' = Active
    BY SameActive
  <2>6. CommandsTracked' /\ ActiveCompatible'
    BY <1>2, <2>1, <2>5 DEF CommandsTracked, ActiveCompatible, PlanTypeOK
  <2>7. JobsJustified'
    BY <1>0, <1>2, <2>1 DEF JobsJustified
  <2>8. CancelSwept' /\ VerdictCovers'
    BY DEF CancelSwept, VerdictCovers
  <2>. QED  BY <1>0, <1>2, <2>1, <2>2, <2>4, <2>6, <2>7, <2>8 DEF PlanTypeOK
<1>. QED  BY <1>1, <1>2 DEF scheduleJob

-----------------------------------------------------------------------------
(* The steps of a call that write neither plan nor jobs.                    *)

LEMMA FaultTyped ==
  ASSUME PlanTypeOK, Fault \/ faults' = faults
  PROVE  faults' \in 0 .. MaxFaults
  BY PlanAssumption DEF PlanTypeOK, Fault

\* A node's lease is written or dropped.
LEMMA LeaseWritten ==
  ASSUME PlanTypeOK, NEW n \in Nodes, NEW s \in Sessions \cup {None}, nodes' = [nodes EXCEPT ![n].lease = s]
  PROVE  /\ nodes' \in [Nodes -> NodeRecord]
         /\ \A m \in Nodes : nodes'[m].status = nodes[m].status /\ nodes'[m].linked = nodes[m].linked
  BY DEF PlanTypeOK, NodeRecord

\* The verdict of an ended job is going to be taken over.
LEMMA SettlePlace ==
  ASSUME PlanInv, NEW n \in Nodes, Settle(n), UNCHANGED <<plan, nodes, jobs>>,
         jobs[n] \in JobTerminal, nodes[n].status \notin NodeTerminal
  PROVE  call' \in Call /\ CallPlace'
<1>1. "settle" \in Steps
  BY DEF Steps
<1>2. /\ call' \in Call /\ call'.node = n /\ call'.phase = call.phase
      /\ (call'.step = "release" /\ call'.then = "settle") \/ call'.step = "settle"
  BY <1>1, CallKeepsType DEF Settle, PlanInv
<1>3. ~Heading("acquire")'
  BY <1>2 DEF Heading
<1>. QED  BY <1>2, <1>3 DEF CallPlace, Heading

\* A lease is going to be acquired for a node of the second loop or for a candidate.
LEMMA AcquirePlace ==
  ASSUME PlanInv, NEW n \in Nodes, ReleaseThen(n, "acquire") \/ StepOn(n, "acquire"), UNCHANGED <<plan, nodes>>,
         \/ call.phase = "active"
         \/ call.phase = "admit" /\ Admissible(n)
  PROVE  call' \in Call /\ CallPlace'
<1>1. "acquire" \in Steps
  BY DEF Steps
<1>2. /\ call' \in Call /\ call'.node = n /\ call'.phase = call.phase
      /\ (call'.step = "release" /\ call'.then = "acquire") \/ call'.step = "acquire"
  BY <1>1, CallKeepsType DEF PlanInv
<1>3. ~Heading("settle")'
  BY <1>2 DEF Heading
<1>4. Admissible(n)' <=> Admissible(n)
  BY SameAdmissible
<1>. QED  BY <1>2, <1>3, <1>4 DEF CallPlace

\* A lease is given back, for one of the loops or before the call returns.
LEMMA ReleasePlace ==
  ASSUME PlanInv, NEW n \in Nodes, NEW then \in {"free", "cancelling", "idle"}, ReleaseThen(n, then)
  PROVE  call' \in Call /\ CallPlace'
<1>1. then \in Steps
  BY DEF Steps, Phases
<1>2. /\ call' \in Call /\ call'.node = n /\ call'.phase = call.phase
      /\ call'.step = "release" /\ call'.then = then
  BY <1>1, CallKeepsType DEF PlanInv
<1>3. ~Heading("settle")' /\ ~Heading("acquire")'
  BY <1>2 DEF Heading
<1>. QED  BY <1>2, <1>3 DEF CallPlace

LEMMA FreeLeasesKeeps ==
  ASSUME PlanInv, freeLeases
  PROVE  PlanInv'
<1>1. StoresAgree'
  BY LeasesMove DEF freeLeases, PlanInv
<1>2. call' \in Call /\ CallPlace'
  <2>1. CASE Returns
    BY <2>1, CallKeepsType, LoopPlace DEF PlanInv
  <2>2. CASE Enter("active")
    BY <2>2, CallKeepsType, LoopPlace DEF PlanInv, Phases
  <2>3. CASE \E n \in Nodes : ReleaseThen(n, "free")
    BY <2>3, ReleasePlace
  <2>. QED  BY <2>1, <2>2, <2>3 DEF freeLeases
<1>. QED  BY <1>1, <1>2 DEF PlanInv, PlanTypeOK, freeLeases

LEMMA ReleaseAdmissionKeeps ==
  ASSUME PlanInv, releaseAdmission
  PROVE  PlanInv'
<1>1. StoresAgree'
  BY LeasesMove DEF releaseAdmission, PlanInv
<1>2. admission' \in [Nodes -> AdmissionStates]
  BY DEF releaseAdmission, PlanInv, PlanTypeOK, AdmissionStates
<1>3. call' \in Call /\ CallPlace'
  <2>1. CASE Returns
    BY <2>1, CallKeepsType, LoopPlace DEF PlanInv
  <2>2. CASE GoTo("clear")
    <3>1. /\ call' \in Call /\ call'.step = "clear"
          /\ call'.phase = call.phase /\ call'.then = call.then /\ call'.node = call.node
      BY <2>2, CallKeepsType DEF PlanInv, Steps
    <3>2. call.step = "release" /\ UNCHANGED <<plan, nodes, jobs>>
      BY DEF releaseAdmission, At
    <3>3. (Heading("settle")' <=> Heading("settle")) /\ (Heading("acquire")' <=> Heading("acquire"))
      BY <3>1, <3>2 DEF Heading
    <3>4. call.node \in Nodes
      BY <3>2 DEF PlanInv, CallPlace
    <3>5. Admissible(call.node)' <=> Admissible(call.node)
      <4>1. \A n \in Nodes : Admissible(n)' <=> Admissible(n)
        BY <3>2, SameAdmissible
      <4>. QED  BY <4>1, <3>1, <3>2, <3>4 DEF Admissible, Ready
    <3>. QED  BY <3>1, <3>2, <3>3, <3>4, <3>5 DEF CallPlace, PlanInv
  <2>. QED  BY <2>1, <2>2 DEF releaseAdmission
<1>. QED  BY <1>1, <1>2, <1>3 DEF PlanInv, PlanTypeOK, releaseAdmission

\* The call goes on towards the admission of its node.
LEMMA AdmissionGoesOn ==
  ASSUME PlanInv, NEW step \in {"acquire", "persist", "submit", "link"}, GoTo(step), plan' = plan,
         \A m \in Nodes : nodes'[m].status = nodes[m].status /\ nodes'[m].linked = nodes[m].linked,
         Heading("acquire") \/ call.step \in {"persist", "submit"},
         step \in {"submit", "link"} => call.phase = "admit",
         step = "link" => jobs'[call.node] # "absent"
  PROVE  call' \in Call /\ CallPlace'
<1>1. step \in Steps
  BY DEF Steps
<1>2. /\ call' \in Call /\ call'.step = step
      /\ call'.phase = call.phase /\ call'.then = call.then /\ call'.node = call.node
  BY <1>1, CallKeepsType DEF PlanInv
<1>3. call.node \in Nodes /\ call.phase \in {"active", "admit"}
  BY DEF PlanInv, CallPlace, Heading
<1>4. call.phase = "admit" => Admissible(call.node)
  BY DEF PlanInv, CallPlace
<1>5. ~Heading("settle")'
  BY <1>2 DEF Heading
<1>6. PICK n \in Nodes : n = call.node
  BY <1>3
<1>7. (call.phase = "admit" => Admissible(n)') /\ call'.node = n
  BY <1>2, <1>4, <1>6, SameAdmissible
<1>. QED  BY <1>2, <1>3, <1>5, <1>6, <1>7 DEF CallPlace

LEMMA ClearLeaseKeeps ==
  ASSUME PlanInv, clearLease
  PROVE  PlanInv'
<1>0. /\ call.step = "clear" /\ call.node \in Nodes /\ UNCHANGED <<plan, jobs>>
      /\ call.then \in {"free", "cancelling", "settle", "acquire", "idle"}
  BY DEF PlanInv, CallPlace, clearLease, At
<1>1. /\ nodes' \in [Nodes -> NodeRecord]
      /\ \A m \in Nodes : nodes'[m].status = nodes[m].status /\ nodes'[m].linked = nodes[m].linked
  BY <1>0, LeaseWritten DEF PlanInv, clearLease
<1>2. StoresAgree'
  BY <1>1, LeasesMove DEF clearLease, PlanInv
<1>3. call' \in Call /\ CallPlace'
  <2>1. CASE Returns
    BY <2>1, CallKeepsType, LoopPlace DEF PlanInv
  <2>2. CASE GoTo(call.then) /\ call.then \in {"free", "cancelling"}
    BY <2>2, CallKeepsType, LoopPlace DEF PlanInv, Steps, Phases
  <2>3. CASE GoTo("acquire") /\ call.then = "acquire"
    BY <2>3, <1>0, <1>1, AdmissionGoesOn DEF Heading
  <2>4. CASE GoTo("settle") /\ call.then = "settle"
    <3>1. call' \in Call /\ call'.step = "settle" /\ call'.node = call.node
      BY <2>4, CallKeepsType DEF PlanInv, Steps
    <3>2. jobs[call.node] \in JobTerminal /\ nodes[call.node].status \notin NodeTerminal
      BY <2>4, <1>0 DEF PlanInv, CallPlace, Heading
    <3>3. ~Heading("acquire")'
      BY <3>1 DEF Heading
    <3>. QED  BY <3>1, <3>2, <3>3, <1>0, <1>1 DEF CallPlace
  <2>. QED  BY <1>0, <2>1, <2>2, <2>3, <2>4 DEF clearLease
<1>. QED  BY <1>0, <1>1, <1>2, <1>3 DEF PlanInv, PlanTypeOK, NodeRecord, clearLease

LEMMA AcquireAdmissionKeeps ==
  ASSUME PlanInv, acquireAdmission
  PROVE  PlanInv'
<1>1. StoresAgree'
  BY LeasesMove DEF acquireAdmission, PlanInv
<1>2. admission' \in [Nodes -> AdmissionStates]
  BY DEF acquireAdmission, PlanInv, PlanTypeOK, AdmissionStates
<1>3. faults' \in 0 .. MaxFaults
  BY FaultTyped DEF acquireAdmission, PlanInv
<1>4. call' \in Call /\ CallPlace'
  <2>1. CASE Returns
    BY <2>1, CallKeepsType, LoopPlace DEF PlanInv
  <2>2. CASE GoTo("persist")
    BY <2>2, AdmissionGoesOn DEF acquireAdmission, At, Heading
  <2>. QED  BY <2>1, <2>2 DEF acquireAdmission
<1>. QED  BY <1>1, <1>2, <1>3, <1>4 DEF PlanInv, PlanTypeOK, acquireAdmission

LEMMA PersistLeaseKeeps ==
  ASSUME PlanInv, persistLease
  PROVE  PlanInv'
<1>0. call.step = "persist" /\ call.node \in Nodes /\ call.phase \in {"active", "admit"} /\ UNCHANGED <<plan, jobs>>
  BY DEF PlanInv, CallPlace, persistLease, At
<1>1. /\ nodes' \in [Nodes -> NodeRecord]
      /\ \A m \in Nodes : nodes'[m].status = nodes[m].status /\ nodes'[m].linked = nodes[m].linked
  <2>1. CASE nodes' = nodes
    BY <2>1 DEF PlanInv, PlanTypeOK, NodeRecord
  <2>2. CASE nodes' = [nodes EXCEPT ![call.node].lease = call.session]
    <3>1. call.session \in Sessions \cup {None}
      BY DEF PlanInv, PlanTypeOK, Call
    <3>. QED  BY <2>2, <3>1, <1>0, LeaseWritten DEF PlanInv
  <2>. QED  BY <2>1, <2>2 DEF persistLease
<1>2. StoresAgree'
  BY <1>1, LeasesMove DEF persistLease, PlanInv
<1>3. admission' \in [Nodes -> AdmissionStates]
  BY DEF persistLease, PlanInv, PlanTypeOK, AdmissionStates
<1>4. faults' \in 0 .. MaxFaults
  BY FaultTyped DEF persistLease, PlanInv
<1>5. call' \in Call /\ CallPlace'
  <2>1. CASE Returns
    BY <2>1, CallKeepsType, LoopPlace DEF PlanInv
  <2>2. CASE GoTo("active") /\ call.phase = "active"
    BY <2>2, CallKeepsType, LoopPlace DEF PlanInv, Steps, Phases
  <2>3. CASE GoTo("submit") /\ call.phase # "active"
    BY <2>3, <1>0, <1>1, AdmissionGoesOn
  <2>. QED  BY <2>1, <2>2, <2>3 DEF persistLease
<1>. QED  BY <1>0, <1>1, <1>2, <1>3, <1>4, <1>5 DEF PlanInv, PlanTypeOK, NodeRecord, persistLease

-----------------------------------------------------------------------------
(* The steps that write jobs.                                               *)

LEMMA SubmitJobKeeps ==
  ASSUME PlanInv, submitJob
  PROVE  PlanInv'
<1>0. /\ call.step = "submit" /\ call.node \in Nodes /\ call.phase = "admit" /\ Admissible(call.node)
      /\ UNCHANGED <<plan, nodes, commands, passed, started>>
  BY DEF PlanInv, CallPlace, submitJob, At
<1>1. faults' \in 0 .. MaxFaults
  BY FaultTyped DEF submitJob, PlanInv
<1>2. CASE ReleaseThen(call.node, "idle") /\ jobs' = jobs
  <2>1. StoresAgree'
    BY <1>0, <1>2, LeasesMove DEF PlanInv
  <2>2. call' \in Call /\ CallPlace'
    BY <1>0, <1>2, ReleasePlace
  <2>. QED  BY <1>1, <1>2, <2>1, <2>2 DEF PlanInv, PlanTypeOK, submitJob
<1>3. CASE GoTo("link") /\ jobs' = [jobs EXCEPT ![call.node] = IF @ = "absent" THEN "queued" ELSE @]
  <2>1. PICK n \in Nodes : n = call.node
    BY <1>0
  <2>2. /\ jobs' \in [Nodes -> JobStatuses]
        /\ jobs'[n] = IF jobs[n] = "absent" THEN "queued" ELSE jobs[n]
        /\ \A m \in Nodes \ {n} : jobs'[m] = jobs[m]
    BY <1>3, <2>1 DEF PlanInv, PlanTypeOK, JobStatuses, JobLive
  <2>3. dependencyClosure[n] \subseteq passed
    <3>1. \A d \in DependsOn[n] : d \in Nodes /\ nodes[d].status = "completed"
      BY <1>0, <2>1, PlanAssumption DEF Admissible, Ready
    <3>2. \A d \in DependsOn[n] : {d} \cup dependencyClosure[d] \subseteq passed
      BY <3>1 DEF PlanInv, StoresAgree, JobsJustified
    <3>. QED  BY <3>2, ClosureReached
  <2>4. StoresAgree'
    <3>. USE DEF PlanInv, StoresAgree
    <3>1. JobsStarted'
      BY <1>0, <2>2 DEF JobsStarted
    <3>2. Active' = Active
      BY <1>0, SameActive
    <3>3. CommandsTracked' /\ ActiveCompatible'
      BY <1>0, <2>2, <3>2 DEF CommandsTracked, ActiveCompatible, PlanTypeOK
    <3>4. JobsJustified'
      BY <1>0, <2>2, <2>3 DEF JobsJustified
    <3>5. CancelSwept' /\ VerdictCovers'
      BY <1>0 DEF CancelSwept, VerdictCovers
    <3>. QED  BY <3>1, <3>3, <3>4, <3>5
  <2>5. call' \in Call /\ CallPlace'
    BY <1>0, <1>3, <2>1, <2>2, AdmissionGoesOn
  <2>. QED  BY <1>1, <2>2, <2>4, <2>5 DEF PlanInv, PlanTypeOK, submitJob
<1>. QED  BY <1>2, <1>3 DEF submitJob

LEMMA ScheduleLinkedKeeps ==
  ASSUME PlanInv, scheduleLinked
  PROVE  PlanInv'
<1>0. /\ call.step = "schedule" /\ call.node \in Active /\ call.node \in Nodes
      /\ UNCHANGED <<plan, nodes, admission, headMoved, passed>>
  BY DEF PlanInv, CallPlace, scheduleLinked, At, Active
<1>1. PICK n \in Active : n = call.node
  BY <1>0
<1>2. /\ StoresAgree' /\ jobs' \in [Nodes -> JobStatuses] /\ commands' \subseteq Nodes
      /\ faults' \in 0 .. MaxFaults /\ started' \in [Nodes -> Nat]
  BY <1>0, <1>1, JobScheduled DEF PlanInv, scheduleLinked
<1>3. call' \in Call /\ CallPlace'
  BY <1>0, OnwardPlace DEF PlanInv, scheduleLinked
<1>. QED  BY <1>0, <1>2, <1>3 DEF PlanInv, PlanTypeOK

LEMMA CheckActiveKeeps ==
  ASSUME PlanInv, checkActive
  PROVE  PlanInv'
<1>0. /\ call.step = "active" /\ call.phase = "active"
      /\ UNCHANGED <<plan, nodes, admission, headMoved, passed>>
  BY DEF PlanInv, CallPlace, checkActive, At
<1>1. CASE NoneLeft(Active) /\ GoTo("select") /\ UNCHANGED <<jobs, commands, started, faults>>
  <2>1. StoresAgree'
    BY <1>0, <1>1, LeasesMove DEF PlanInv
  <2>2. call' \in Call /\ CallPlace'
    BY <1>1, CallKeepsType, LoopPlace DEF PlanInv, Steps
  <2>. QED  BY <1>0, <1>1, <2>1, <2>2 DEF PlanInv, PlanTypeOK
<1>2. ASSUME NEW n \in Nodes, n \in Active,
             nodes[n].status = "cancel_requested", jobs[n] \in JobLive, cancelJob(n),
             IF jobs[n] = "queued" THEN UNCHANGED call ELSE NextNode(n),
             UNCHANGED <<commands, started, faults>>
      PROVE  PlanInv'
  <2>1. StoresAgree' /\ jobs' \in [Nodes -> JobStatuses]
    BY <1>0, <1>2, JobCancelled DEF PlanInv, JobLive
  <2>2. call' \in Call /\ CallPlace'
    <3>1. CASE UNCHANGED call
      BY <1>0, <3>1, LoopPlace DEF PlanInv, PlanTypeOK
    <3>2. CASE NextNode(n)
      BY <3>2, OnwardPlace DEF PlanInv
    <3>. QED  BY <1>2, <3>1, <3>2
  <2>. QED  BY <1>0, <1>2, <2>1, <2>2 DEF PlanInv, PlanTypeOK
<1>3. ASSUME NEW n \in Nodes, n \in Active, UNCHANGED <<jobs, commands, started, faults>>,
             \/ jobs[n] \in JobTerminal /\ Settle(n)
             \/ IF nodes[n].lease # None THEN ReleaseThen(n, "acquire") ELSE StepOn(n, "acquire")
      PROVE  PlanInv'
  <2>1. StoresAgree'
    BY <1>0, <1>3, LeasesMove DEF PlanInv
  <2>2. call' \in Call /\ CallPlace'
    <3>1. CASE jobs[n] \in JobTerminal /\ Settle(n)
      <4>1. nodes[n].status \notin NodeTerminal
        BY <1>3 DEF Active, NodeTerminal, JobTerminal
      <4>. QED  BY <1>0, <1>3, <3>1, <4>1, SettlePlace
    <3>2. CASE IF nodes[n].lease # None THEN ReleaseThen(n, "acquire") ELSE StepOn(n, "acquire")
      BY <1>0, <3>2, AcquirePlace
    <3>. QED  BY <1>3, <3>1, <3>2
  <2>. QED  BY <1>0, <1>3, <2>1, <2>2 DEF PlanInv, PlanTypeOK
<1>4. ASSUME NEW n \in Nodes, n \in Active, scheduleJob(n), NextNode(n)
      PROVE  PlanInv'
  <2>1. /\ StoresAgree' /\ jobs' \in [Nodes -> JobStatuses] /\ commands' \subseteq Nodes
        /\ faults' \in 0 .. MaxFaults /\ started' \in [Nodes -> Nat]
    BY <1>0, <1>4, JobScheduled DEF PlanInv
  <2>2. call' \in Call /\ CallPlace'
    BY <1>4, OnwardPlace DEF PlanInv
  <2>. QED  BY <1>0, <2>1, <2>2 DEF PlanInv, PlanTypeOK
<1>. QED  BY <1>1, <1>2, <1>3, <1>4 DEF checkActive, IsNext

LEMMA CancelJobsKeeps ==
  ASSUME PlanInv, cancelJobs
  PROVE  PlanInv'
<1>0. call.step = "cancelling" /\ UNCHANGED <<plan, nodes, commands, admission, headMoved, faults, passed, started>>
  BY DEF cancelJobs, At
<1>1. CASE Returns /\ jobs' = jobs
  <2>1. StoresAgree'
    BY <1>0, <1>1, LeasesMove DEF PlanInv
  <2>2. call' \in Call /\ CallPlace'
    BY <1>1, CallKeepsType, LoopPlace DEF PlanInv
  <2>. QED  BY <1>0, <1>1, <2>1, <2>2 DEF PlanInv, PlanTypeOK
<1>2. ASSUME NEW n \in Nodes, ReleaseThen(n, "cancelling"), jobs' = jobs
      PROVE  PlanInv'
  <2>1. StoresAgree'
    BY <1>0, <1>2, LeasesMove DEF PlanInv
  <2>2. call' \in Call /\ CallPlace'
    BY <1>2, ReleasePlace
  <2>. QED  BY <1>0, <1>2, <2>1, <2>2 DEF PlanInv, PlanTypeOK
<1>3. ASSUME NEW n \in Nodes, nodes[n].status = "cancel_requested", jobs[n] \in JobTerminal, Settle(n), jobs' = jobs
      PROVE  PlanInv'
  <2>1. StoresAgree'
    BY <1>0, <1>3, LeasesMove DEF PlanInv
  <2>2. nodes[n].status \notin NodeTerminal
    BY <1>3 DEF NodeTerminal, JobTerminal
  <2>3. call' \in Call /\ CallPlace'
    BY <1>0, <1>3, <2>2, SettlePlace
  <2>. QED  BY <1>0, <1>3, <2>1, <2>3 DEF PlanInv, PlanTypeOK
<1>4. ASSUME NEW n \in Nodes, jobs[n] \in JobLive, cancelJob(n),
             IF jobs[n] = "queued" THEN UNCHANGED call ELSE NextNode(n)
      PROVE  PlanInv'
  <2>1. StoresAgree' /\ jobs' \in [Nodes -> JobStatuses]
    BY <1>0, <1>4, JobCancelled DEF PlanInv, JobLive
  <2>2. call' \in Call /\ CallPlace'
    <3>1. CASE UNCHANGED call
      BY <1>0, <3>1, LoopPlace DEF PlanInv, PlanTypeOK
    <3>2. CASE NextNode(n)
      BY <3>2, OnwardPlace DEF PlanInv
    <3>. QED  BY <1>4, <3>1, <3>2
  <2>. QED  BY <1>0, <2>1, <2>2 DEF PlanInv, PlanTypeOK
<1>. QED  BY <1>1, <1>2, <1>3, <1>4 DEF cancelJobs, IsNext

-----------------------------------------------------------------------------
(* The steps that write the plan.                                           *)

\* Active nodes stay or end, waiting nodes stay or are decided; the plan is finalized.
LEMMA NodesEnd ==
  ASSUME PlanInv, NEW p \in PlanRecord, p.cancelRequested = plan.cancelRequested \/ p.cancelRequested = TRUE,
         nodes' \in [Nodes -> NodeRecord], plan' = finalizePlan(p, nodes'),
         UNCHANGED <<jobs, commands, passed, started>>,
         \A n \in Nodes :
            \/ nodes'[n].status = nodes[n].status
            \/ nodes[n].status = "queued" /\ nodes'[n].status \in {"cancelled", "dependency_blocked"}
            \/ nodes[n].status = "running" /\ nodes'[n].status = "cancel_requested"
            \/ nodes'[n].status = jobs[n] /\ jobs[n] \in JobTerminal,
         p.cancelRequested => \A n \in Nodes : nodes'[n].status \notin {"queued", "running"}
  PROVE  StoresAgree' /\ plan' \in PlanRecord /\ plan'.cancelRequested = p.cancelRequested
<1>. USE DEF PlanInv, StoresAgree
<1>1. /\ plan' \in PlanRecord
      /\ plan'.cancelRequested = p.cancelRequested
      /\ VerdictCovers'
  BY Finalized DEF VerdictCovers
<1>2. CancelSwept'
  BY <1>1 DEF CancelSwept
<1>3. Active' \subseteq Active
  BY DEF Active, JobTerminal
<1>4. ActiveCompatible'
  <2>1. Cardinality(Active') <= Cardinality(Active) /\ Cardinality(Active') \in Nat
    BY <1>3, ActiveFinite, FS_Subset, FS_CardinalityType
  <2>2. Cardinality(Active') <= Capacity
    BY <2>1, ActiveFinite, PlanAssumption DEF ActiveCompatible
  <2>. QED  BY <1>3, <2>2 DEF ActiveCompatible
<1>5. CommandsTracked'
  <2>. SUFFICES ASSUME NEW n \in commands
                PROVE  jobs[n] \in {"running", "stopping"} /\ n \in Active'
    BY DEF CommandsTracked
  <2>1. jobs[n] \in {"running", "stopping"} /\ n \in Active
    BY DEF CommandsTracked
  <2>. QED  BY <2>1 DEF Active, JobTerminal
<1>6. JobsJustified'
  <2>. SUFFICES ASSUME NEW n \in Nodes
                PROVE  /\ nodes'[n].status \in {"running", "cancel_requested"} => jobs[n] # "absent"
                       /\ nodes'[n].status = "completed" => jobs[n] = "completed"
    BY DEF JobsJustified
  <2>. QED  BY DEF JobsJustified, JobTerminal
<1>7. JobsStarted'
  BY DEF JobsStarted
<1>. QED  BY <1>1, <1>2, <1>4, <1>5, <1>6, <1>7

LEMMA SettleNodeKeeps ==
  ASSUME PlanInv, settleNode
  PROVE  PlanInv'
<1>0. /\ call.step = "settle" /\ call.node \in Nodes /\ jobs[call.node] \in JobTerminal
      /\ UNCHANGED <<jobs, commands, admission, headMoved, faults, passed, started>>
  BY DEF PlanInv, CallPlace, Heading, settleNode, At
<1>1. PICK n \in Nodes : n = call.node
  BY <1>0
<1>2. /\ nodes' = reconcileTerminalJob([nodes EXCEPT ![n].linked = TRUE], n, jobs[n])
      /\ plan' = finalizePlan(plan, nodes') /\ NextNode(n)
  BY <1>1 DEF settleNode
<1>3. nodes \in [Nodes -> NodeRecord] /\ plan \in PlanRecord
  BY DEF PlanInv, PlanTypeOK, NodeRecord, PlanRecord
<1>4. /\ nodes' \in [Nodes -> NodeRecord]
      /\ nodes'[n].status = jobs[n]
      /\ \A m \in Nodes \ {n} : \/ nodes'[m].status = nodes[m].status
                                \/ nodes[m].status = "queued" /\ nodes'[m].status = "dependency_blocked"
  <2>1. PICK status \in JobTerminal : status = jobs[n]
    BY <1>0, <1>1
  <2>2. PICK told : told = nodes'
    OBVIOUS
  <2>3. PICK linked : linked = [nodes EXCEPT ![n].linked = TRUE] /\ told = reconcileTerminalJob(linked, n, status)
    BY <1>2, <2>1, <2>2
  <2>4. linked \in [Nodes -> NodeRecord] /\ \A m \in Nodes : linked[m].status = nodes[m].status
    BY <1>3, <2>3 DEF NodeRecord
  <2>5. TakenOver(linked, n, status, told)
    BY <2>3, <2>4, Reconciled
  <2>. QED  BY <2>1, <2>2, <2>4, <2>5 DEF TakenOver
<1>5. plan.cancelRequested => \A m \in Nodes : nodes'[m].status \notin {"queued", "running"}
  BY <1>0, <1>1, <1>4 DEF PlanInv, StoresAgree, CancelSwept, JobTerminal
<1>6. StoresAgree' /\ plan' \in PlanRecord
  BY <1>0, <1>1, <1>2, <1>3, <1>4, <1>5, NodesEnd
<1>7. call' \in Call /\ CallPlace'
  BY <1>2, OnwardPlace DEF PlanInv
<1>. QED  BY <1>0, <1>4, <1>6, <1>7 DEF PlanInv, PlanTypeOK, NodeRecord, PlanRecord

\* HEAD has moved: the nodes that wait are blocked.
LEMMA StaleHeadKeeps ==
  ASSUME PlanInv, StaleHead, UNCHANGED <<jobs, commands, passed, started>>
  PROVE  StoresAgree' /\ nodes' \in [Nodes -> NodeRecord] /\ plan' \in PlanRecord
<1>1. nodes \in [Nodes -> NodeRecord] /\ plan \in PlanRecord
  BY DEF PlanInv, PlanTypeOK, NodeRecord, PlanRecord
<1>2. /\ nodes' = [n \in Nodes |-> IF nodes[n].status = "queued"
                                   THEN [nodes[n] EXCEPT !.status = "dependency_blocked"] ELSE nodes[n]]
      /\ plan' = finalizePlan(plan, nodes')
  BY DEF StaleHead
<1>3. nodes' \in [Nodes -> NodeRecord] /\
      \A n \in Nodes : \/ nodes'[n].status = nodes[n].status
                       \/ nodes[n].status = "queued" /\ nodes'[n].status = "dependency_blocked"
  BY <1>1, <1>2 DEF NodeRecord, NodeStatuses, NodeTerminal
<1>4. plan.cancelRequested => \A n \in Nodes : nodes'[n].status \notin {"queued", "running"}
  BY <1>3 DEF PlanInv, StoresAgree, CancelSwept
<1>. QED  BY <1>1, <1>2, <1>3, <1>4, NodesEnd

LEMMA SelectCandidatesKeeps ==
  ASSUME PlanInv, NEW pressure \in Pressures, selectCandidates(pressure)
  PROVE  PlanInv'
<1>0. call.step = "select" /\ UNCHANGED <<jobs, commands, admission, headMoved, faults, passed, started>>
  BY DEF selectCandidates, At
<1>1. nodes \in [Nodes -> NodeRecord] /\ plan \in PlanRecord
  BY DEF PlanInv, PlanTypeOK, NodeRecord, PlanRecord
<1>2. CASE Returns /\ UNCHANGED <<plan, nodes>>
  <2>1. StoresAgree'
    BY <1>0, <1>2, LeasesMove DEF PlanInv
  <2>2. call' \in Call /\ CallPlace'
    BY <1>2, CallKeepsType, LoopPlace DEF PlanInv
  <2>. QED  BY <1>0, <1>2, <2>1, <2>2 DEF PlanInv, PlanTypeOK
<1>3. CASE Returns /\ plan' = finalizePlan(plan, nodes) /\ nodes' = nodes
  <2>1. plan.cancelRequested => \A n \in Nodes : nodes'[n].status \notin {"queued", "running"}
    BY <1>3 DEF PlanInv, StoresAgree, CancelSwept
  <2>2. StoresAgree' /\ plan' \in PlanRecord
    BY <1>0, <1>1, <1>3, <2>1, NodesEnd
  <2>3. call' \in Call /\ CallPlace'
    BY <1>3, CallKeepsType, LoopPlace DEF PlanInv
  <2>. QED  BY <1>0, <1>3, <2>2, <2>3 DEF PlanInv, PlanTypeOK, PlanRecord
<1>4. CASE Returns /\ StaleHead
  <2>1. StoresAgree' /\ nodes' \in [Nodes -> NodeRecord] /\ plan' \in PlanRecord
    BY <1>0, <1>4, StaleHeadKeeps
  <2>2. call' \in Call /\ CallPlace'
    BY <1>4, CallKeepsType, LoopPlace DEF PlanInv
  <2>. QED  BY <1>0, <2>1, <2>2 DEF PlanInv, PlanTypeOK, PlanRecord, NodeRecord
<1>5. CASE /\ call' = [call EXCEPT !.step = "admit", !.phase = "admit", !.node = 1,
                                   !.pressure = pressure, !.todo = candidates(pressure)]
           /\ UNCHANGED <<plan, nodes>>
  <2>1. StoresAgree'
    BY <1>0, <1>5, LeasesMove DEF PlanInv
  <2>2. call' \in Call /\ call'.step = "admit" /\ call'.phase = "admit"
    <3>1. call \in Call /\ 1 \in 1 .. N + 1
      BY PlanAssumption DEF PlanInv, PlanTypeOK
    <3>2. PICK todo : todo = candidates(pressure) /\ todo \in SUBSET Nodes
      BY CandidatesAreNodes
    <3>3. call' = [call EXCEPT !.step = "admit", !.phase = "admit", !.node = 1, !.pressure = pressure, !.todo = todo]
      BY <1>5, <3>2
    <3>. QED  BY <3>1, <3>2, <3>3 DEF Call, Steps, Phases
  <2>3. CallPlace'
    BY <2>2, LoopPlace
  <2>. QED  BY <1>0, <1>5, <2>1, <2>2, <2>3 DEF PlanInv, PlanTypeOK
<1>. QED  BY <1>2, <1>3, <1>4, <1>5 DEF selectCandidates

LEMMA AdmitNodeKeeps ==
  ASSUME PlanInv, admitNode
  PROVE  PlanInv'
<1>0. /\ call.step = "admit" /\ call.phase = "admit" /\ call.pressure \in Pressures /\ call.todo \subseteq Nodes
      /\ UNCHANGED <<jobs, commands, admission, headMoved, faults, passed, started>>
  BY DEF admitNode, At, PlanInv, CallPlace, PlanTypeOK, Call
<1>1. CASE Returns /\ UNCHANGED <<plan, nodes>>
  <2>1. StoresAgree'
    BY <1>0, <1>1, LeasesMove DEF PlanInv
  <2>2. call' \in Call /\ CallPlace'
    BY <1>1, CallKeepsType, LoopPlace DEF PlanInv
  <2>. QED  BY <1>0, <1>1, <2>1, <2>2 DEF PlanInv, PlanTypeOK
<1>2. CASE Returns /\ StaleHead
  <2>1. StoresAgree' /\ nodes' \in [Nodes -> NodeRecord] /\ plan' \in PlanRecord
    BY <1>0, <1>2, StaleHeadKeeps
  <2>2. call' \in Call /\ CallPlace'
    BY <1>2, CallKeepsType, LoopPlace DEF PlanInv
  <2>. QED  BY <1>0, <2>1, <2>2 DEF PlanInv, PlanTypeOK, PlanRecord, NodeRecord
<1>3. ASSUME NEW n \in Nodes, UNCHANGED <<plan, nodes>>,
             IF n \notin candidates(call.pressure) THEN NextNode(n)
             ELSE IF nodes[n].lease = call.session THEN StepOn(n, "submit")
             ELSE IF nodes[n].lease # None THEN ReleaseThen(n, "acquire")
             ELSE StepOn(n, "acquire")
      PROVE  PlanInv'
  <2>1. StoresAgree'
    BY <1>0, <1>3, LeasesMove DEF PlanInv
  <2>2. call' \in Call /\ CallPlace'
    <3>1. CASE n \notin candidates(call.pressure)
      BY <1>3, <3>1, OnwardPlace DEF PlanInv
    <3>2. CASE n \in candidates(call.pressure) /\ StepOn(n, "submit")
      <4>1. Admissible(n)
        BY <1>0, <3>2, CandidatesAdmissible DEF PlanInv
      <4>2. Admissible(n)'
        BY <1>3, <4>1, SameAdmissible
      <4>3. call' \in Call /\ call'.step = "submit" /\ call'.node = n /\ call'.phase = "admit"
        BY <1>0, <3>2, CallKeepsType DEF PlanInv, Steps
      <4>4. ~Heading("acquire")' /\ ~Heading("settle")'
        BY <4>3 DEF Heading
      <4>. QED  BY <4>2, <4>3, <4>4 DEF CallPlace
    <3>3. CASE n \in candidates(call.pressure) /\ (ReleaseThen(n, "acquire") \/ StepOn(n, "acquire"))
      <4>1. Admissible(n)
        BY <1>0, <3>3, CandidatesAdmissible DEF PlanInv
      <4>. QED  BY <1>0, <1>3, <3>3, <4>1, AcquirePlace
    <3>. QED  BY <1>3, <3>1, <3>2, <3>3
  <2>. QED  BY <1>0, <1>3, <2>1, <2>2 DEF PlanInv, PlanTypeOK
<1>. QED  BY <1>0, <1>1, <1>2, <1>3 DEF admitNode

\* The node becomes active: it may overlap with those that are, and there is room.
LEMMA LinkJobKeeps ==
  ASSUME PlanInv, linkJob
  PROVE  PlanInv'
<1>0. /\ call.step = "link" /\ call.node \in Nodes /\ Admissible(call.node) /\ jobs[call.node] # "absent"
      /\ call.phase = "admit"
      /\ UNCHANGED <<jobs, commands, admission, headMoved, faults, passed, started>>
  BY DEF PlanInv, CallPlace, linkJob, At
<1>1. PICK n \in Nodes : n = call.node
  BY <1>0
<1>2. /\ nodes[n].status = "queued" /\ \A m \in Active : nodesCanOverlap(m, n)
      /\ Cardinality(Active) < Capacity /\ ~plan.cancelRequested
  BY <1>0, <1>1 DEF Admissible, Ready
<1>3. CASE jobs[n] \in JobTerminal /\ Settle(n) /\ UNCHANGED <<plan, nodes>>
  <2>1. StoresAgree'
    BY <1>0, <1>3, LeasesMove DEF PlanInv
  <2>2. nodes[n].status \notin NodeTerminal
    BY <1>2 DEF NodeTerminal, JobTerminal
  <2>3. call' \in Call /\ CallPlace'
    BY <1>0, <1>3, <2>2, SettlePlace
  <2>. QED  BY <1>0, <1>3, <2>1, <2>3 DEF PlanInv, PlanTypeOK
<1>4. CASE /\ nodes' = [nodes EXCEPT ![n].linked = TRUE, ![n].status = "running"]
           /\ plan' = [plan EXCEPT !.status = "running"]
           /\ GoTo("schedule")
  <2>1. /\ nodes' \in [Nodes -> NodeRecord] /\ nodes'[n].status = "running"
        /\ \A m \in Nodes \ {n} : nodes'[m] = nodes[m]
    BY <1>4 DEF PlanInv, PlanTypeOK, NodeRecord, NodeStatuses
  <2>2. plan' \in PlanRecord /\ plan'.status = "running" /\ plan'.cancelRequested = plan.cancelRequested
    BY <1>4 DEF PlanInv, PlanTypeOK, PlanRecord, PlanStatuses
  <2>3. Active' = Active \cup {n}
    BY <2>1 DEF Active
  <2>4. ActiveCompatible'
    <3>1. Cardinality(Active') <= Capacity
      <4>1. Cardinality(Active') <= Cardinality(Active) + 1 /\ Cardinality(Active') \in Nat
        <5>1. IsFiniteSet(Active) /\ Cardinality(Active) \in Nat
          BY ActiveFinite DEF PlanInv
        <5>2. /\ IsFiniteSet(Active \cup {n})
              /\ Cardinality(Active \cup {n}) = IF n \in Active THEN Cardinality(Active) ELSE Cardinality(Active) + 1
          BY <5>1, FS_AddElement
        <5>. QED  BY <5>1, <5>2, <2>3
      <4>2. Cardinality(Active) \in Nat
        BY ActiveFinite DEF PlanInv
      <4>. QED  BY <4>1, <4>2, <1>2, PlanAssumption
    <3>2. ASSUME NEW a \in Active', NEW b \in Active', a # b PROVE a \notin Mutating /\ <<a, b>> \notin Clashes
      <4>1. CASE a \in Active /\ b \in Active
        BY <4>1, <3>2 DEF PlanInv, StoresAgree, ActiveCompatible
      <4>2. CASE a \in Active /\ b = n
        BY <4>2, <1>2 DEF nodesCanOverlap
      <4>3. CASE a = n /\ b \in Active
        BY <4>3, <1>2 DEF nodesCanOverlap
      <4>. QED  BY <2>3, <3>2, <4>1, <4>2, <4>3
    <3>. QED  BY <3>1, <3>2 DEF ActiveCompatible
  <2>5. StoresAgree'
    <3>. USE DEF PlanInv, StoresAgree
    <3>1. JobsStarted'
      BY <1>0 DEF JobsStarted
    <3>2. CommandsTracked'
      BY <1>0, <2>3 DEF CommandsTracked
    <3>3. JobsJustified'
      BY <1>0, <1>1, <2>1 DEF JobsJustified
    <3>4. CancelSwept' /\ VerdictCovers'
      BY <1>2, <2>2 DEF CancelSwept, VerdictCovers, PlanTerminal, JobTerminal
    <3>. QED  BY <2>4, <3>1, <3>2, <3>3, <3>4
  <2>6. call' \in Call /\ call'.step = "schedule" /\ call'.node = n /\ call'.phase = "admit"
    BY <1>0, <1>1, <1>4, CallKeepsType DEF PlanInv, Steps
  <2>7. CallPlace'
    <3>1. ~Heading("acquire")' /\ ~Heading("settle")'
      BY <2>6 DEF Heading
    <3>. QED  BY <2>1, <2>2, <2>6, <3>1, <1>2 DEF CallPlace
  <2>. QED  BY <1>0, <2>1, <2>2, <2>5, <2>6, <2>7 DEF PlanInv, PlanTypeOK, PlanRecord, NodeRecord
<1>. QED  BY <1>0, <1>1, <1>3, <1>4 DEF linkJob

LEMMA CancelPlanKeeps ==
  ASSUME PlanInv, cancelWorkbenchValidationPlan
  PROVE  PlanInv'
<1>0. UNCHANGED <<jobs, commands, admission, headMoved, faults, passed, started>>
  BY DEF cancelWorkbenchValidationPlan
<1>1. nodes \in [Nodes -> NodeRecord] /\ plan \in PlanRecord
  BY DEF PlanInv, PlanTypeOK, NodeRecord, PlanRecord
<1>2. call' \in Call /\ CallPlace'
  <2>1. NoCall \in Call
    BY PlanAssumption DEF NoCall, Call, Steps, Phases, Pressures
  <2>2. call' \in Call /\ call'.step = "cancelling"
    BY <2>1 DEF cancelWorkbenchValidationPlan, Call, Steps, Phases, NoCall
  <2>. QED  BY <2>2, LoopPlace
<1>3. CASE UNCHANGED <<plan, nodes>>
  <2>1. StoresAgree'
    BY <1>0, <1>3, LeasesMove DEF PlanInv
  <2>. QED  BY <1>0, <1>2, <1>3, <2>1 DEF PlanInv, PlanTypeOK
<1>4. CASE plan.status \notin PlanTerminal
  <2>1. PICK p : p = [plan EXCEPT !.cancelRequested = TRUE]
    OBVIOUS
  <2>2. p \in PlanRecord /\ p.cancelRequested = TRUE
    BY <1>1, <2>1 DEF PlanRecord
  <2>3. /\ nodes' = [n \in Nodes |->
            CASE nodes[n].status = "queued" -> [nodes[n] EXCEPT !.status = "cancelled"]
              [] nodes[n].status = "running" -> [nodes[n] EXCEPT !.status = "cancel_requested"]
              [] OTHER -> nodes[n]]
        /\ plan' = finalizePlan(p, nodes')
    BY <1>4, <2>1 DEF cancelWorkbenchValidationPlan
  <2>4. /\ nodes' \in [Nodes -> NodeRecord]
        /\ \A n \in Nodes : /\ \/ nodes'[n].status = nodes[n].status
                               \/ nodes[n].status = "queued" /\ nodes'[n].status = "cancelled"
                               \/ nodes[n].status = "running" /\ nodes'[n].status = "cancel_requested"
                            /\ nodes'[n].status \notin {"queued", "running"}
    BY <1>1, <2>3 DEF NodeRecord, NodeStatuses, NodeTerminal, JobTerminal
  <2>5. StoresAgree' /\ plan' \in PlanRecord
    BY <1>0, <2>2, <2>3, <2>4, NodesEnd
  <2>. QED  BY <1>0, <1>2, <2>4, <2>5 DEF PlanInv, PlanTypeOK, PlanRecord, NodeRecord
<1>. QED  BY <1>3, <1>4 DEF cancelWorkbenchValidationPlan

-----------------------------------------------------------------------------
(* What happens between calls and around them.                              *)

\* A step that leaves plan, nodes, jobs and the call alone.
LEMMA PlaceStays ==
  ASSUME PlanInv, UNCHANGED <<call, nodes, jobs>>, plan'.cancelRequested = plan.cancelRequested
  PROVE  CallPlace'
<1>1. Active' = Active
  BY SameActive
<1>2. Admissible(call.node)' <=> Admissible(call.node)
  BY <1>1 DEF Admissible, Ready
<1>. QED  BY <1>2 DEF PlanInv, CallPlace, Heading

LEMMA SubmitPlanKeeps ==
  ASSUME PlanInv, submitWorkbenchValidationPlan
  PROVE  PlanInv'
<1>0. UNCHANGED <<nodes, jobs, commands, admission, headMoved, call, faults, passed, started>>
  BY DEF submitWorkbenchValidationPlan
<1>1. plan' \in PlanRecord /\ plan'.status = "queued" /\ plan'.cancelRequested = plan.cancelRequested
  BY DEF PlanInv, PlanTypeOK, PlanRecord, PlanStatuses, submitWorkbenchValidationPlan
<1>2. CallPlace'
  BY <1>0, <1>1, PlaceStays
<1>3. StoresAgree'
  <2>. USE DEF PlanInv, StoresAgree
  <2>1. Active' = Active
    BY <1>0, SameActive
  <2>2. JobsStarted' /\ CommandsTracked' /\ ActiveCompatible'
    BY <1>0, <2>1 DEF JobsStarted, CommandsTracked, ActiveCompatible
  <2>3. JobsJustified'
    BY <1>0 DEF JobsJustified
  <2>4. CancelSwept' /\ VerdictCovers'
    BY <1>0, <1>1 DEF CancelSwept, VerdictCovers, PlanTerminal, JobTerminal
  <2>. QED  BY <2>2, <2>3, <2>4
<1>. QED  BY <1>0, <1>1, <1>2, <1>3 DEF PlanInv, PlanTypeOK, PlanRecord

LEMMA AdvanceKeeps ==
  ASSUME PlanInv, NEW s \in Sessions, advanceWorkbenchValidationPlan(s)
  PROVE  PlanInv'
<1>1. StoresAgree'
  BY LeasesMove DEF advanceWorkbenchValidationPlan, PlanInv
<1>2. NoCall \in Call
  BY PlanAssumption DEF NoCall, Call, Steps, Phases, Pressures
<1>3. call' \in Call /\ call'.step = "free"
  BY <1>2 DEF advanceWorkbenchValidationPlan, Call, Steps, Phases, NoCall
<1>4. CallPlace'
  BY <1>3, LoopPlace
<1>. QED  BY <1>1, <1>3, <1>4 DEF PlanInv, PlanTypeOK, advanceWorkbenchValidationPlan

\* A call is cut short or the process dies.
LEMMA InterruptionKeeps ==
  ASSUME PlanInv, cutShort \/ die
  PROVE  PlanInv'
<1>1. /\ StoresAgree' /\ commands' \subseteq commands
      /\ UNCHANGED <<plan, nodes, jobs, admission, headMoved, passed, started>>
  BY LeasesMove DEF PlanInv, cutShort, die
<1>2. faults' \in 0 .. MaxFaults
  BY FaultTyped DEF PlanInv, cutShort, die
<1>3. call' \in Call /\ CallPlace'
  BY CallKeepsType, LoopPlace DEF PlanInv, cutShort, die
<1>. QED  BY <1>1, <1>2, <1>3 DEF PlanInv, PlanTypeOK

\* Admission leases run out, HEAD moves, or nothing happens.
LEMMA SurroundingsKeep ==
  ASSUME PlanInv,
         \/ moveHead
         \/ \E n \in Nodes : admissionExpires(n) \/ admissionForgets(n) \/ leaseForgotten(n)
         \/ UNCHANGED planVars
  PROVE  PlanInv'
<1>1. UNCHANGED <<plan, nodes, jobs, commands, call, passed, started>>
  BY DEF moveHead, admissionExpires, admissionForgets, leaseForgotten, planVars
<1>2. StoresAgree'
  BY <1>1, LeasesMove DEF PlanInv
<1>3. CallPlace'
  BY <1>1, PlaceStays
<1>4. faults' \in 0 .. MaxFaults
  BY FaultTyped DEF PlanInv, moveHead, admissionExpires, admissionForgets, leaseForgotten, planVars
<1>5. admission' \in [Nodes -> AdmissionStates]
  BY DEF PlanInv, PlanTypeOK, AdmissionStates, moveHead, admissionExpires, admissionForgets, leaseForgotten, planVars
<1>6. headMoved' \in BOOLEAN
  BY DEF PlanInv, PlanTypeOK, moveHead, admissionExpires, admissionForgets, leaseForgotten, planVars
<1>. QED  BY <1>1, <1>2, <1>3, <1>4, <1>5, <1>6 DEF PlanInv, PlanTypeOK

LEMMA CommandEndsKeeps ==
  ASSUME PlanInv, NEW n \in Nodes, NEW result \in JobTerminal, commandEnds(n, result)
  PROVE  PlanInv'
<1>0. /\ n \in commands /\ commands' = commands \ {n} /\ UNCHANGED <<plan, nodes, admission, headMoved, call, faults, started>>
      /\ passed' = IF result = "completed" THEN passed \cup {n} ELSE passed
  BY DEF commandEnds
<1>1. jobs[n] \in {"running", "stopping"} /\ jobs[n] \notin JobTerminal
  BY <1>0 DEF PlanInv, StoresAgree, CommandsTracked, JobTerminal
<1>2. jobs' = [jobs EXCEPT ![n] = result]
  BY <1>1 DEF commandEnds
<1>3. StoresAgree' /\ jobs' \in [Nodes -> JobStatuses]
  BY <1>0, <1>1, <1>2, JobMoves DEF PlanInv
<1>4. CallPlace'
  BY <1>0, LoopPlace DEF commandEnds, At
<1>. QED  BY <1>0, <1>3, <1>4 DEF PlanInv, PlanTypeOK

LEMMA ResultLostKeeps ==
  ASSUME PlanInv, NEW n \in Nodes, resultLost(n)
  PROVE  PlanInv'
<1>0. /\ commands' \subseteq commands /\ passed \subseteq passed' /\ passed' \subseteq passed \cup {n}
      /\ UNCHANGED <<plan, nodes, jobs, admission, headMoved, call, started>>
  BY DEF resultLost
<1>1. StoresAgree'
  BY <1>0, LeasesMove DEF PlanInv
<1>2. CallPlace'
  BY <1>0, PlaceStays
<1>3. faults' \in 0 .. MaxFaults
  BY FaultTyped DEF PlanInv, resultLost
<1>. QED  BY <1>0, <1>1, <1>2, <1>3 DEF PlanInv, PlanTypeOK

LEMMA JobEndsKeeps ==
  ASSUME PlanInv, NEW n \in Nodes, clientCancelsJob(n) \/ recoverExpiredRunningJob(n)
  PROVE  PlanInv'
<1>0. call.step = "idle" /\ UNCHANGED <<plan, nodes, commands, admission, headMoved, call, faults, passed, started>>
  BY DEF clientCancelsJob, recoverExpiredRunningJob, At
<1>1. CallPlace'
  BY <1>0, LoopPlace
<1>2. CASE clientCancelsJob(n)
  <2>1. StoresAgree' /\ jobs' \in [Nodes -> JobStatuses]
    BY <1>0, <1>2, JobCancelled DEF PlanInv, clientCancelsJob
  <2>. QED  BY <1>0, <1>1, <2>1 DEF PlanInv, PlanTypeOK
<1>3. CASE recoverExpiredRunningJob(n)
  <2>1. "failed" \in JobTerminal \cup {"running", "stopping"}
    BY DEF JobTerminal
  <2>2. /\ jobs[n] \in {"running", "stopping"} /\ n \notin commands
        /\ jobs' = [jobs EXCEPT ![n] = "failed"]
    BY <1>3 DEF recoverExpiredRunningJob
  <2>3. StoresAgree' /\ jobs' \in [Nodes -> JobStatuses]
    BY <1>0, <2>1, <2>2, JobMoves DEF PlanInv
  <2>. QED  BY <1>0, <1>1, <2>3 DEF PlanInv, PlanTypeOK
<1>. QED  BY <1>2, <1>3

-----------------------------------------------------------------------------
(* The theorems.                                                            *)

LEMMA PlanStart == PlanInit => PlanInv
<1>. SUFFICES ASSUME PlanInit PROVE PlanInv
  OBVIOUS
<1>. USE DEF PlanInit
<1>1. PlanTypeOK
  <2>1. call \in Call
    BY PlanAssumption DEF NoCall, Call, Steps, Phases, Pressures
  <2>2. plan \in [status : PlanStatuses, cancelRequested : BOOLEAN]
    BY DEF PlanStatuses
  <2>3. nodes \in [Nodes -> [status : NodeStatuses, linked : BOOLEAN, lease : Sessions \cup {None}]]
    BY DEF NodeStatuses
  <2>4. headMoved \in BOOLEAN
    OBVIOUS
  <2>5. faults \in 0 .. MaxFaults /\ started \in [Nodes -> Nat]
    BY PlanAssumption
  <2>6. jobs \in [Nodes -> JobStatuses] /\ admission \in [Nodes -> AdmissionStates]
    BY DEF JobStatuses, AdmissionStates
  <2>. QED  BY <2>1, <2>2, <2>3, <2>4, <2>5, <2>6 DEF PlanTypeOK
<1>2. Active = {}
  BY DEF Active
<1>3. StoresAgree
  <2>1. Cardinality(Active) <= Capacity
    BY <1>2, FS_EmptySet, PlanAssumption
  <2>. QED  BY <1>2, <2>1 DEF StoresAgree, JobsStarted, CommandsTracked, ActiveCompatible, JobsJustified, CancelSwept,
                              VerdictCovers, PlanTerminal, JobTerminal
<1>4. CallPlace
  BY DEF CallPlace, Heading, NoCall
<1>. QED  BY <1>1, <1>3, <1>4 DEF PlanInv

LEMMA PlanStep == PlanInv /\ [PlanNext]_planVars => PlanInv'
<1>. SUFFICES ASSUME PlanInv, [PlanNext]_planVars PROVE PlanInv'
  OBVIOUS
<1>1. CASE submitWorkbenchValidationPlan
  BY <1>1, SubmitPlanKeeps
<1>2. CASE \E s \in Sessions : advanceWorkbenchValidationPlan(s)
  BY <1>2, AdvanceKeeps
<1>3. CASE cancelWorkbenchValidationPlan
  BY <1>3, CancelPlanKeeps
<1>4. CASE freeLeases
  BY <1>4, FreeLeasesKeeps
<1>5. CASE releaseAdmission
  BY <1>5, ReleaseAdmissionKeeps
<1>6. CASE clearLease
  BY <1>6, ClearLeaseKeeps
<1>7. CASE settleNode
  BY <1>7, SettleNodeKeeps
<1>8. CASE checkActive
  BY <1>8, CheckActiveKeeps
<1>9. CASE \E pressure \in Pressures : selectCandidates(pressure)
  BY <1>9, SelectCandidatesKeeps
<1>10. CASE admitNode
  BY <1>10, AdmitNodeKeeps
<1>11. CASE acquireAdmission
  BY <1>11, AcquireAdmissionKeeps
<1>12. CASE persistLease
  BY <1>12, PersistLeaseKeeps
<1>13. CASE submitJob
  BY <1>13, SubmitJobKeeps
<1>14. CASE linkJob
  BY <1>14, LinkJobKeeps
<1>15. CASE scheduleLinked
  BY <1>15, ScheduleLinkedKeeps
<1>16. CASE cancelJobs
  BY <1>16, CancelJobsKeeps
<1>17. CASE cutShort \/ die
  BY <1>17, InterruptionKeeps
<1>18. CASE moveHead \/ UNCHANGED planVars
  BY <1>18, SurroundingsKeep
<1>19. ASSUME NEW n \in Nodes, admissionExpires(n) \/ admissionForgets(n) \/ leaseForgotten(n) PROVE PlanInv'
  BY <1>19, SurroundingsKeep
<1>20. ASSUME NEW n \in Nodes, \E result \in JobTerminal : commandEnds(n, result) PROVE PlanInv'
  BY <1>20, CommandEndsKeeps
<1>21. ASSUME NEW n \in Nodes, resultLost(n) PROVE PlanInv'
  BY <1>21, ResultLostKeeps
<1>22. ASSUME NEW n \in Nodes, clientCancelsJob(n) \/ recoverExpiredRunningJob(n) PROVE PlanInv'
  BY <1>22, JobEndsKeeps
<1>. QED  BY <1>1, <1>2, <1>3, <1>4, <1>5, <1>6, <1>7, <1>8, <1>9, <1>10, <1>11, <1>12, <1>13, <1>14,
             <1>15, <1>16, <1>17, <1>18, <1>19, <1>20, <1>21, <1>22 DEF PlanNext, CallStep

\* The plan store, the job store, what admission knows and the call in progress keep
\* their types through every call, fault and death.
THEOREM PlanTypeCorrect == PlanSpec => []PlanTypeOK
<1>1. PlanInv => PlanTypeOK
  BY DEF PlanInv
<1>. QED  BY PlanStart, PlanStep, <1>1, PTL DEF PlanSpec

\* No number of advances by any number of sessions, no lost result, expired lease or
\* death starts the command of a node a second time.
THEOREM CommandsRunOnce == PlanSpec => []RunOnce
<1>1. PlanInv => RunOnce
  <2>1. \A i \in {0, 1} : i <= 1
    OBVIOUS
  <2>. QED  BY <2>1 DEF PlanInv, StoresAgree, JobsStarted, RunOnce
<1>. QED  BY PlanStart, PlanStep, <1>1, PTL DEF PlanSpec

\* The commands that run together are compatible and within the limit, although nodes
\* are selected before their leases are acquired and started after.
THEOREM CommandsCompatible == PlanSpec => []OverlapSafe
<1>1. ASSUME PlanInv PROVE OverlapSafe
  <2>1. commands \subseteq Active
    BY <1>1 DEF PlanInv, StoresAgree, CommandsTracked
  <2>2. IsFiniteSet(Active) /\ Cardinality(Active) \in Nat
    BY <1>1, ActiveFinite DEF PlanInv
  <2>3. Cardinality(commands) <= Cardinality(Active) /\ Cardinality(commands) \in Nat
    BY <2>1, <2>2, FS_Subset, FS_CardinalityType
  <2>4. Cardinality(Active) <= Capacity
    BY <1>1 DEF PlanInv, StoresAgree, ActiveCompatible
  <2>5. Cardinality(commands) <= Capacity
    BY <2>2, <2>3, <2>4, PlanAssumption
  <2>6. \A m, n \in commands : m # n => m \notin Mutating /\ <<m, n>> \notin Clashes
    BY <1>1, <2>1 DEF PlanInv, StoresAgree, ActiveCompatible
  <2>. QED  BY <2>5, <2>6 DEF OverlapSafe
<1>. QED  BY PlanStart, PlanStep, <1>1, PTL DEF PlanSpec

\* A command runs, and a node is called completed, only when everything it depends on,
\* directly or not, has really ended with exit code 0.
THEOREM DependenciesHavePassed == PlanSpec => []DependenciesPassed
<1>1. ASSUME PlanInv PROVE DependenciesPassed
  <2>1. \A n \in commands : dependencyClosure[n] \subseteq passed
    BY <1>1 DEF PlanInv, PlanTypeOK, StoresAgree, CommandsTracked, JobsJustified
  <2>2. \A n \in Nodes : nodes[n].status = "completed" => {n} \cup dependencyClosure[n] \subseteq passed
    BY <1>1 DEF PlanInv, StoresAgree, JobsJustified
  <2>. QED  BY <2>1, <2>2 DEF DependenciesPassed
<1>. QED  BY PlanStart, PlanStep, <1>1, PTL DEF PlanSpec

\* A verdict comes when no command runs and every node is decided, and "completed" only
\* when every command has passed.
THEOREM VerdictsComplete == PlanSpec => []VerdictComplete
<1>1. ASSUME PlanInv PROVE VerdictComplete
  <2>. SUFFICES ASSUME plan.status \in PlanTerminal
                PROVE  /\ commands = {}
                       /\ \A n \in Nodes : nodes[n].status \in NodeTerminal
                       /\ plan.status = "completed" => passed = Nodes
    BY DEF VerdictComplete
  <2>1. \A n \in Nodes : nodes[n].status \in NodeTerminal
    BY <1>1 DEF PlanInv, StoresAgree, VerdictCovers
  <2>2. commands = {}
    BY <1>1, <2>1 DEF PlanInv, StoresAgree, CommandsTracked, Active, NodeTerminal, JobTerminal
  <2>3. plan.status = "completed" => passed = Nodes
    BY <1>1 DEF PlanInv, PlanTypeOK, StoresAgree, VerdictCovers, JobsJustified
  <2>. QED  BY <2>1, <2>2, <2>3
<1>. QED  BY PlanStart, PlanStep, <1>1, PTL DEF PlanSpec

\* No command is started once the cancellation is written, and a verdict is never
\* changed by a call that was under way or comes late.
THEOREM CancellationAndVerdictStick == PlanSpec => CancelAndVerdictStick
<1>. DEFINE Sticks == /\ plan.cancelRequested => started' = started
                      /\ plan.status \in PlanTerminal => plan' = plan
<1>1. ASSUME PlanInv, [PlanNext]_planVars PROVE Sticks
  <2>1. ASSUME plan.cancelRequested PROVE started' = started
    <3>1. \A n \in Nodes : nodes[n].status # "running"
      BY <1>1, <2>1 DEF PlanInv, StoresAgree, CancelSwept
    <3>2. ~scheduleLinked
      BY <1>1, <2>1 DEF PlanInv, CallPlace, scheduleLinked, At
    <3>3. checkActive => started' = started
      BY <3>1 DEF checkActive
    <3>. QED  BY <1>1, <3>2, <3>3 DEF PlanNext, CallStep, submitWorkbenchValidationPlan, advanceWorkbenchValidationPlan,
              cancelWorkbenchValidationPlan, freeLeases, releaseAdmission, clearLease, settleNode, selectCandidates, admitNode,
              acquireAdmission, persistLease, submitJob, linkJob, cancelJobs, cutShort, die, moveHead, commandEnds, resultLost,
              clientCancelsJob, recoverExpiredRunningJob, admissionExpires, admissionForgets, leaseForgotten, planVars
  <2>2. ASSUME plan.status \in PlanTerminal PROVE plan' = plan
    <3>1. \A n \in Nodes : nodes[n].status \in NodeTerminal
      BY <1>1, <2>2 DEF PlanInv, StoresAgree, VerdictCovers
    <3>2. ~settleNode
      BY <1>1, <3>1 DEF PlanInv, CallPlace, settleNode, At, Heading
    <3>3. ~linkJob
      BY <1>1, <3>1 DEF PlanInv, CallPlace, linkJob, At, Admissible, Ready, NodeTerminal, JobTerminal
    <3>4. ~submitWorkbenchValidationPlan
      BY <2>2 DEF submitWorkbenchValidationPlan, PlanTerminal, JobTerminal
    <3>5. \A pressure \in Pressures : selectCandidates(pressure) => plan' = plan
      BY <2>2 DEF selectCandidates
    <3>6. admitNode => plan' = plan
      BY <2>2 DEF admitNode
    <3>7. cancelWorkbenchValidationPlan => plan' = plan
      BY <2>2 DEF cancelWorkbenchValidationPlan
    <3>. QED  BY <1>1, <3>2, <3>3, <3>4, <3>5, <3>6, <3>7 DEF PlanNext, CallStep, advanceWorkbenchValidationPlan,
              freeLeases, releaseAdmission, clearLease, checkActive,
              acquireAdmission, persistLease, submitJob, scheduleLinked, cancelJobs, cutShort, die, moveHead, commandEnds, resultLost,
              clientCancelsJob, recoverExpiredRunningJob, admissionExpires, admissionForgets, leaseForgotten, planVars
  <2>. QED  BY <2>1, <2>2
<1>2. PlanInv /\ [PlanNext]_planVars => [Sticks]_planVars
  BY <1>1
<1>. QED  BY PlanStart, PlanStep, <1>2, PTL DEF PlanSpec, CancelAndVerdictStick
=============================================================================
