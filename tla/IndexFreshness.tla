--------------------------- MODULE IndexFreshness ---------------------------
(* Automatic index freshness: the refresh requests, timers and retries of the    *)
(* agent server (server.ts), the build of one source's documents (indexer.ts),   *)
(* the index state file with its delayed write (index-state.ts) and the binding  *)
(* of an index to the source's revision (config.ts), on top of the maintenance   *)
(* scheduler that runs the builds.  The content of a source is a number that     *)
(* grows whenever HEAD or the worktree changes.  A synchronous stretch of the    *)
(* event loop is one step; a build is interrupted after its scan.                *)
EXTENDS MaintenanceScheduler

CONSTANTS
    None,
    PolicyBound,    \* sources whose record, written by an earlier release, names the scan policy
    MaxHead,        \* bound on the changes of a source
    RetryLimit,     \* automatic retries of a failed build, 3 in the code
    MaxFailures,    \* bound on failed builds
    MaxEdits,       \* bound on changes of the configuration
    MaxCrashes

ASSUME FreshnessAssumption ==
    /\ PolicyBound \subseteq Sources
    /\ {MaxHead, RetryLimit, MaxFailures, MaxEdits, MaxCrashes} \subseteq Nat
    /\ None \notin Nat

VARIABLES
    config,     \* the configured sources
    head,       \* the content of each source
    seen,       \* the content of each source when Git was last asked for its revision
    records,    \* the index state of each source: in memory, or on disk when not dirty
    saved,      \* the index state file
    dirty,      \* is a write of the index state file pending?
    requests,   \* latestAutomaticRefresh: sources with a refresh request
    timers,     \* freshnessDebounceTimers: sources with a debounce timer
    retries,    \* sources with a retry timer
    waiting,    \* sources whose retryAfterAt is in the future
    immediates, \* sources whose next refresh is on the event loop
    attempts,   \* indexRetryAttempts
    build,      \* the build of each source that is being indexed
    docs,       \* the documents in memory, which the searcher serves
    file,       \* the documents on disk
    failures, edits, crashes

index == <<records, saved, dirty>>
asked == <<requests, timers, retries, waiting, immediates, attempts>>
stored == <<docs, file>>
world == <<config, head, seen>>
bounds == <<failures, edits, crashes>>
freshVars == <<maintVars, world, index, asked, build, stored, bounds>>

Versions == 0 .. MaxHead
Indexed == Versions \union {None}
Statuses == {"unknown", "pending", "indexing", "ready", "failed", "disabled"}
Enabled(s) == config[s] = "enabled"
NoBuild == [pc |-> "none", base |-> [t \in Sources |-> None], content |-> None]

FreshInit ==
    /\ MaintInit
    /\ config = [s \in Sources |-> IF s \in PolicyBound THEN "enabled" ELSE "absent"]
    /\ head = [s \in Sources |-> 0] /\ seen = head
    /\ records = [s \in Sources |-> IF s \in PolicyBound
                                    THEN [status |-> "ready", revision |-> 0]
                                    ELSE [status |-> "unknown", revision |-> None]]
    /\ saved = records /\ dirty = FALSE
    /\ requests = {} /\ timers = {} /\ retries = {} /\ waiting = {} /\ immediates = {}
    /\ attempts = [s \in Sources |-> 0]
    /\ build = [s \in Sources |-> NoBuild]
    /\ docs = [s \in Sources |-> IF s \in PolicyBound THEN 0 ELSE None]
    /\ file = docs
    /\ failures = 0 /\ edits = 0 /\ crashes = 0

-----------------------------------------------------------------------------
(* The index state and its binding.                                             *)

\* Mutant: a build that nobody is working on any more is left as it is.
settleNothing(record) == record

\* loadIndexState: what is read from disk cannot be indexing.
settleInterrupted(record) ==
    IF record.status = "indexing" THEN [record EXCEPT !.status = "pending"] ELSE record

\* A pending write is authoritative.
loadIndexState ==
    IF dirty THEN records ELSE [s \in Sources |-> settleInterrupted(records[s])]

\* Some reader of the index state finds the file.
readIndexState ==
    /\ loadIndexState # records
    /\ records' = loadIndexState /\ dirty' = TRUE
    /\ UNCHANGED <<maintVars, world, saved, asked, build, stored, bounds>>

flushIndexState ==
    /\ dirty
    /\ dirty' = FALSE /\ saved' = records
    /\ UNCHANGED <<maintVars, world, records, asked, build, stored, bounds>>

upsertIndexState(recs, s, status) == [recs EXCEPT ![s].status = status]

\* getSourceIndexBinding: Git is asked for the revision at most every two seconds.
getSourceIndexBinding(s) == {head[s], seen[s]}

\* reconcileIndexStateFromDocs, for the sources that are configured.
reconcileIndexStateFromDocs(recs, sources) ==
    [s \in Sources |->
        CASE sources[s] = "disabled" -> [recs[s] EXCEPT !.status = "disabled"]
          [] sources[s] = "enabled" /\ recs[s].status = "unknown"
               -> [recs[s] EXCEPT !.status = "pending"]
          [] OTHER -> recs[s]]

-----------------------------------------------------------------------------
(* Asking for a refresh.                                                        *)

\* A binding that is out of date makes the inspection an earlier one.
Changed(s) == loadIndexState[s].revision # head[s]

\* Mutant: a missing artifact does not count.
FreshWithoutArtifact(s) ==
    loadIndexState[s].status = "ready" /\ ~Changed(s) /\ s \in PolicyBound

\* inspectSourceFreshness.
Fresh(s) ==
    /\ loadIndexState[s].status = "ready"
    /\ ~Changed(s) /\ s \in PolicyBound /\ file[s] # None

\* Mutant: a build that has failed is not tried again.
RetryableUnlessFailed(s) == loadIndexState[s].status # "failed"

Retryable(s) == ~(loadIndexState[s].status = "failed" /\ s \in waiting)

Due(s) == Enabled(s) /\ s \notin active /\ ~Fresh(s) /\ Retryable(s)

hasQueuedReindex(s) == s \in active \union ToSet(queued)

\* reindexSourceInBackground, on the index state its caller has left.
reindexSourceInBackground(s, requested, recs) ==
    /\ requests' = requests \union {t \in {s} : requested}
    /\ IF hasQueuedReindex(s)
       THEN records' = recs /\ UNCHANGED maintVars
       ELSE /\ records' = upsertIndexState(recs, s, "pending")
            /\ IF Len(queued) < MaxQueue THEN enqueue(s) ELSE UNCHANGED maintVars
    /\ dirty' = (dirty \/ recs # records \/ ~hasQueuedReindex(s))

\* queueFreshnessRefresh at once, for a retry, for a search that finds the source not
\* ready, and for each source that is pending when the server starts.
queueFreshnessRefresh(s) ==
    /\ timers' = timers \ {s}
    /\ requests' = requests \union {s}
    /\ records' = upsertIndexState(loadIndexState, s, "pending")
    /\ IF ~hasQueuedReindex(s) /\ Len(queued) < MaxQueue THEN enqueue(s) ELSE UNCHANGED maintVars
    /\ dirty' = TRUE

\* runAutoIndexSweep: every source that is due is marked and its timer set anew.
runAutoIndexSweep ==
    LET due == {s \in Sources : Due(s)}
    IN  /\ due # {}
        /\ requests' = requests \union due
        /\ timers' = timers \union due
        /\ records' = [s \in Sources |-> IF s \in due
                                         THEN [loadIndexState[s] EXCEPT !.status = "pending"]
                                         ELSE loadIndexState[s]]
        /\ dirty' = TRUE
        /\ UNCHANGED <<maintVars, world, saved, retries, waiting, immediates, attempts, build,
                       stored, bounds>>

\* The timer does not look whether the source is still configured.
debounceFires(s) ==
    /\ s \in timers
    /\ timers' = timers \ {s}
    /\ reindexSourceInBackground(s, TRUE, loadIndexState)
    /\ UNCHANGED <<world, saved, retries, waiting, immediates, attempts, build, stored, bounds>>

requestSourceIndexRecovery(s) ==
    /\ Due(s) /\ ~hasQueuedReindex(s)
    /\ loadIndexState[s].status # "ready" \/ Changed(s)
    /\ queueFreshnessRefresh(s)
    /\ UNCHANGED <<world, saved, retries, waiting, immediates, attempts, build, stored, bounds>>

\* POST /api/sources/reindex.
reindexRoute(s) ==
    /\ Enabled(s) /\ s \notin active
    /\ reindexSourceInBackground(s, FALSE, loadIndexState)
    /\ UNCHANGED <<world, saved, timers, retries, waiting, immediates, attempts, build, stored,
                   bounds>>

\* The retry comes when its delay has passed, and finds retryAfterAt in the past.
retryFires(s) ==
    /\ s \in retries
    /\ retries' = retries \ {s}
    /\ waiting' = waiting \ {s}
    /\ IF Enabled(s) /\ s \notin active /\ ~Fresh(s)
       THEN queueFreshnessRefresh(s)
       ELSE UNCHANGED <<maintVars, requests, timers, records, dirty>>
    /\ UNCHANGED <<world, saved, immediates, attempts, build, stored, bounds>>

\* The timer was lost in a restart.
retryDelayPasses(s) ==
    /\ s \in waiting \ retries
    /\ waiting' = waiting \ {s}
    /\ UNCHANGED <<maintVars, world, index, requests, timers, retries, immediates, attempts, build,
                   stored, bounds>>

immediateFires(s) ==
    /\ s \in immediates
    /\ immediates' = immediates \ {s}
    /\ reindexSourceInBackground(s, TRUE, loadIndexState)
    /\ UNCHANGED <<world, saved, timers, retries, waiting, attempts, build, stored, bounds>>

-----------------------------------------------------------------------------
(* A build, from the drain that starts it to the end of its job.                *)

drainIdle ==
    /\ drainOne /\ active' = active
    /\ UNCHANGED <<world, index, asked, build, stored, bounds>>

\* The source was disabled or removed after its job was queued: the job ends at once.
drainSkips ==
    /\ scheduledDrains > 0 /\ Cardinality(active) < MaxConcurrent /\ queued # <<>>
    /\ ~Enabled(Head(queued))
    /\ queued' = Tail(queued)
    /\ scheduledDrains' = schedule(scheduledDrains - 1, queued', active)
    /\ UNCHANGED <<active, world, index, asked, build, stored, bounds>>

\* nextDocs: the documents of the other sources.
Others(s) == [docs EXCEPT ![s] = None]

buildStarts(s) ==
    /\ queued # <<>> /\ s = Head(queued) /\ Enabled(s)
    /\ drainOne /\ active' # active
    /\ build' = [build EXCEPT ![s] = [pc |-> "scan", base |-> Others(s), content |-> None]]
    /\ requests' = requests \ {s}
    /\ records' = upsertIndexState(loadIndexState, s, "indexing") /\ dirty' = TRUE
    /\ UNCHANGED <<world, saved, timers, retries, waiting, immediates, attempts, stored,
                   bounds>>

\* boundedSourceScan, the reading of the files and the progress reports.  The other
\* sources' documents are those of the start of a full build, or of the end of the scan
\* of an incremental one, which only a source with a known policy can get.
scanEnds(s) ==
    /\ build[s].pc = "scan"
    /\ \E base \in {build[s].base} \union {Others(t) : t \in {s} \cap PolicyBound} :
           build' = [build EXCEPT ![s] = [pc |-> "read", base |-> base, content |-> head[s]]]
    /\ records' = upsertIndexState(loadIndexState, s, "indexing") /\ dirty' = TRUE
    /\ UNCHANGED <<maintVars, world, saved, asked, stored, bounds>>

\* The finally block, and the end of the job.
finish(s) ==
    /\ jobEnds(s)
    /\ build' = [build EXCEPT ![s] = NoBuild]
    /\ requests' = requests \ {s}
    /\ immediates' = immediates \union ({s} \cap requests)

buildEnds(s) ==
    LET reconciled == reconcileIndexStateFromDocs(loadIndexState, config)
        bindings == IF config[s] = "absent" THEN {reconciled[s].revision}
                                            ELSE getSourceIndexBinding(s)
    IN  /\ build[s].pc = "read"
        /\ docs' = [build[s].base EXCEPT ![s] = build[s].content]
        /\ file' = [file EXCEPT ![s] = build[s].content]
        /\ \E revision \in bindings :
               records' = [reconciled EXCEPT ![s] = [status |-> "ready", revision |-> revision]]
        /\ dirty' = TRUE
        /\ attempts' = [attempts EXCEPT ![s] = 0]
        /\ waiting' = waiting \ {s}
        /\ finish(s)
        /\ UNCHANGED <<world, saved, timers, retries, bounds>>

retryScheduled(s) == attempts[s] < RetryLimit

\* The scan is cut short (a limit, an I/O error).
buildFails(s) ==
    LET retried == retryScheduled(s)
    IN  /\ build[s].pc = "scan" /\ failures < MaxFailures
        /\ failures' = failures + 1
        /\ records' = upsertIndexState(loadIndexState, s, "failed") /\ dirty' = TRUE
        /\ attempts' = [attempts EXCEPT ![s] = IF retried THEN @ + 1 ELSE 0]
        /\ retries' = IF retried THEN retries \union {s} ELSE retries
        /\ waiting' = IF retried THEN waiting \union {s} ELSE waiting \ {s}
        /\ finish(s)
        /\ UNCHANGED <<world, saved, timers, stored, edits, crashes>>

-----------------------------------------------------------------------------
(* The sources, the repository, and the process.                                *)

Edit == edits < MaxEdits /\ edits' = edits + 1

addSource(s) ==
    /\ config[s] = "absent" /\ Edit
    /\ config' = [config EXCEPT ![s] = "enabled"]
    /\ reindexSourceInBackground(s, FALSE, upsertIndexState(loadIndexState, s, "pending"))
    /\ UNCHANGED <<head, seen, saved, timers, retries, waiting, immediates, attempts, build, stored,
                   failures, crashes>>

\* The record stays, and so do the timers and a build that has started.
removeSource(s) ==
    /\ config[s] # "absent" /\ Edit
    /\ config' = [config EXCEPT ![s] = "absent"]
    /\ IF Contains(queued, s) THEN cancelSource(s) ELSE UNCHANGED maintVars
    /\ docs' = [docs EXCEPT ![s] = None]
    /\ file' = [file EXCEPT ![s] = None]
    /\ records' = reconcileIndexStateFromDocs(loadIndexState, config') /\ dirty' = TRUE
    /\ UNCHANGED <<head, seen, saved, asked, build, failures, crashes>>

setSourceEnabled(s, enabled) ==
    /\ config[s] = (IF enabled THEN "disabled" ELSE "enabled") /\ Edit
    /\ config' = [config EXCEPT ![s] = IF enabled THEN "enabled" ELSE "disabled"]
    /\ records' = upsertIndexState(loadIndexState, s, IF enabled THEN "pending" ELSE "disabled")
    /\ dirty' = TRUE
    /\ IF ~enabled /\ Contains(queued, s) THEN cancelSource(s) ELSE UNCHANGED maintVars
    /\ UNCHANGED <<head, seen, saved, asked, build, stored, failures, crashes>>

sourceChanges(s) ==
    /\ head[s] < MaxHead
    /\ head' = [head EXCEPT ![s] = @ + 1]
    /\ UNCHANGED <<maintVars, config, seen, index, asked, build, stored, bounds>>

\* sourceIndexBindingCache: what is cached is two seconds old.
revisionExpires(s) ==
    /\ seen[s] # head[s]
    /\ seen' = [seen EXCEPT ![s] = head[s]]
    /\ UNCHANGED <<maintVars, config, head, index, asked, build, stored, bounds>>

\* The process dies and starts again: the index state and the documents are what is on disk.
restart ==
    /\ crashes < MaxCrashes
    /\ crashes' = crashes + 1
    /\ queued' = <<>> /\ active' = {} /\ scheduledDrains' = 0
    /\ records' = saved /\ dirty' = FALSE
    /\ docs' = file
    /\ requests' = {} /\ timers' = {} /\ retries' = {} /\ immediates' = {}
    /\ attempts' = [s \in Sources |-> 0]
    /\ build' = [s \in Sources |-> NoBuild]
    /\ seen' = head
    /\ UNCHANGED <<config, head, saved, waiting, file, failures, edits>>

Build(s) == scanEnds(s) \/ buildEnds(s) \/ buildFails(s)
Drain == drainIdle \/ drainSkips \/ \E s \in Sources : buildStarts(s)
Timer(s) ==
    debounceFires(s) \/ retryFires(s) \/ retryDelayPasses(s) \/ immediateFires(s)
Request(s) ==
    \/ requestSourceIndexRecovery(s) \/ reindexRoute(s) \/ addSource(s) \/ removeSource(s)
    \/ \E enabled \in BOOLEAN : setSourceEnabled(s, enabled)

FreshNext ==
    \/ readIndexState \/ flushIndexState \/ runAutoIndexSweep \/ Drain \/ restart
    \/ \E s \in Sources : Build(s) \/ Timer(s) \/ Request(s) \/ sourceChanges(s)
                         \/ revisionExpires(s)

FreshSpec == FreshInit /\ [][FreshNext]_freshVars

\* The event loop runs its callbacks and timers, the sweep is repeated, builds end.
FairFreshSpec ==
    /\ FreshSpec
    /\ WF_freshVars(runAutoIndexSweep) /\ WF_freshVars(Drain)
    /\ \A s \in Sources :
           /\ WF_freshVars(Build(s)) /\ WF_freshVars(debounceFires(s))
           /\ WF_freshVars(retryFires(s)) /\ WF_freshVars(retryDelayPasses(s))
           /\ WF_freshVars(immediateFires(s)) /\ WF_freshVars(revisionExpires(s))

-----------------------------------------------------------------------------
\* The types of the index state, the requests, the timers and the builds.
FreshTypeOK ==
    /\ MaintTypeOK
    /\ config \in [Sources -> {"enabled", "disabled", "absent"}]
    /\ {head, seen} \subseteq [Sources -> Versions]
    /\ {records, saved} \subseteq [Sources -> [status : Statuses, revision : Indexed]]
    /\ dirty \in BOOLEAN
    /\ UNION {requests, timers, immediates, retries, waiting} \subseteq Sources
    /\ attempts \in [Sources -> 0 .. RetryLimit]
    /\ build \in [Sources -> [pc : {"none", "scan", "read"},
                               base : [Sources -> Indexed], content : Indexed]]
    /\ {docs, file} \subseteq [Sources -> Indexed]
    /\ failures \in 0 .. MaxFailures /\ edits \in 0 .. MaxEdits /\ crashes \in 0 .. MaxCrashes

\* A source that is shown as being indexed is being indexed: no crash, cancellation or
\* delayed write leaves one behind that nobody is working on.
IndexingIsLive == \A s \in Sources : loadIndexState[s].status = "indexing" => s \in active

Current(s) ==
    /\ records[s].status = "ready" /\ records[s].revision = head[s]
    /\ file[s] # None

\* Once a source stays as it is, it is indexed at its present revision again and again
\* or for good, whatever failures, retries, restarts and configuration changes there were.
KeptCurrent == \A s \in Sources : []<>(Enabled(s) => Current(s))

\* A refresh that was asked for, during a build for instance, is carried out.
RequestServed ==
    \A s \in Sources : s \in requests /\ Enabled(s) ~> (s \notin requests \/ ~Enabled(s))

\* A source that is ready at a revision is searched in the documents of that revision.
ReadyIsTrue ==
    \A s \in Sources : Enabled(s) /\ records[s].status = "ready" => docs[s] = records[s].revision

\* The sweep leaves a source alone whose index is current.
SweepStateDriven ==
    [][runAutoIndexSweep => \A s \in Sources : Current(s) => records'[s] = records[s]]_freshVars
=============================================================================
