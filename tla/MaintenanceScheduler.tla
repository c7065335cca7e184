----------------------- MODULE MaintenanceScheduler ------------------------
(***************************************************************************)
(* The in-memory scheduler of background maintenance (re-indexing) jobs    *)
(* (packages/cli/src/agent/workbench-maintenance-scheduler.ts).  A job is  *)
(* named by its source.  A job is started by a drain, a callback that was  *)
(* put on the event loop some time before (setImmediate) and finds the     *)
(* queue as it is then.                                                    *)
(***************************************************************************)
EXTENDS Naturals, FiniteSets, SequencesExt

CONSTANTS
    Sources,        \* configured sources
    MaxQueue,       \* options.maxQueue, 64 by default
    MaxConcurrent   \* options.maxConcurrent, 1 by default

ASSUME MaintenanceAssumption ==
    /\ MaxQueue \in Nat \ {0}
    /\ MaxConcurrent \in Nat \ {0}

VARIABLES
    queued,             \* sources waiting, oldest first
    active,             \* sources whose job is running
    scheduledDrains     \* drains that are on the event loop

maintVars == <<queued, active, scheduledDrains>>

\* Mutant: one slot is never used.
scheduleOneShort(drains, waiting, running) ==
    Max({drains, Min({MaxConcurrent - Cardinality(running) - 1, Len(waiting)})})

\* schedule(): drains are added while there is a free slot and a queued job for each.
schedule(drains, waiting, running) ==
    Max({drains, Min({MaxConcurrent - Cardinality(running), Len(waiting)})})

MaintInit ==
    /\ queued = <<>>
    /\ active = {}
    /\ scheduledDrains = 0

\* enqueue: refused when the queue is full, ignored when the source has a job.
enqueue(s) ==
    /\ s \notin active \cup ToSet(queued)
    /\ Len(queued) < MaxQueue
    /\ queued' = Append(queued, s)
    /\ scheduledDrains' = schedule(scheduledDrains, queued', active)
    /\ UNCHANGED active

\* cancelSource: the first job of the source in the queue is spliced out; one that has
\* started is left alone.
cancelSource(s) ==
    /\ \E i \in DOMAIN queued :
          /\ queued[i] = s /\ \A j \in 1 .. i - 1 : queued[j] # s
          /\ queued' = RemoveAt(queued, i)
    /\ UNCHANGED <<active, scheduledDrains>>

\* The callback of a drain and drainOne up to its await.
drainOne ==
    /\ scheduledDrains > 0
    /\ scheduledDrains' = scheduledDrains - 1
    /\ \/ /\ Cardinality(active) < MaxConcurrent
          /\ queued # <<>>
          /\ active' = active \cup {Head(queued)}
          /\ queued' = Tail(queued)
       \/ /\ Cardinality(active) >= MaxConcurrent \/ queued = <<>>
          /\ UNCHANGED <<queued, active>>

\* Mutant: nothing is scheduled when a job ends.
jobEndsSilently(s) ==
    /\ s \in active
    /\ active' = active \ {s}
    /\ UNCHANGED <<queued, scheduledDrains>>

\* drainOne after its await: the job completed or failed.
jobEnds(s) ==
    /\ s \in active
    /\ active' = active \ {s}
    /\ scheduledDrains' = schedule(scheduledDrains, queued, active')
    /\ UNCHANGED queued

MaintNext ==
    \/ \E s \in Sources : enqueue(s) \/ cancelSource(s) \/ jobEnds(s)
    \/ drainOne

\* The event loop runs every callback, and every job ends.
MaintSpec ==
    /\ MaintInit /\ [][MaintNext]_maintVars
    /\ WF_maintVars(drainOne)
    /\ \A s \in Sources : WF_maintVars(jobEnds(s))

-----------------------------------------------------------------------------
\* The types of the queue, the running jobs and the pending drains.
MaintTypeOK ==
    /\ queued \in Seq(Sources)
    /\ active \subseteq Sources
    /\ scheduledDrains \in Nat

\* Drains that are still on the event loop count against the limit: however
\* enqueues, cancellations and endings interleave with them, no more jobs than
\* allowed run at once, and a source never has two jobs.
WithinLimits ==
    /\ Cardinality(active) + scheduledDrains <= MaxConcurrent
    /\ Len(queued) <= MaxQueue
    /\ Cardinality(ToSet(queued)) = Len(queued)
    /\ ToSet(queued) \cap active = {}

\* No free slot is left while a job waits: a drain is pending for it.
NoIdleSlot ==
    Cardinality(active) < MaxConcurrent =>
        scheduledDrains >= Min({MaxConcurrent - Cardinality(active), Len(queued)})

\* A queued job is started or cancelled, however the queue is refilled.
EveryJobStarts == \A s \in Sources : Contains(queued, s) ~> ~Contains(queued, s)
=============================================================================
