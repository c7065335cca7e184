------------------------ MODULE RepositoryScheduler ------------------------
(***************************************************************************)
(* The durable reader/writer scheduler of a repository                     *)
(* (packages/cli/src/agent/workbench-repository-scheduler.ts).  A session  *)
(* enqueues a request to read or to mutate a source; whoever claims an     *)
(* eligible request gets a lease and a proof, with which it completes it.  *)
(*                                                                         *)
(* Every operation runs under the lock file of the store.  It first moves  *)
(* expired leases back to the queue and times out requests that waited too *)
(* long; those changes are kept only if the operation writes the store.    *)
(*                                                                         *)
(* enqueuedAt is a natural number, and two requests may carry the same.    *)
(* cutoff is the enqueuedAt of the youngest request that is too old.       *)
(***************************************************************************)
EXTENDS Naturals, FiniteSets

CONSTANTS
    Requests,       \* request identities, ordered as the code orders strings
    Sources,        \* repositories
    SourceOf,       \* the source of each request
    Mutations,      \* requests of class mutation_exclusive; the others read
    Sessions,       \* sessions
    SessionOf,      \* the session of each request
    MaxTime,        \* bound on the clock, for model checking
    MaxLeases       \* bound on leases issued, for model checking

ASSUME SchedulerAssumption ==
    /\ Requests \subseteq Nat
    /\ SourceOf \in [Requests -> Sources]
    /\ Mutations \subseteq Requests
    /\ SessionOf \in [Requests -> Sessions]
    /\ MaxTime \in Nat
    /\ MaxLeases \in Nat

VARIABLES
    requests,   \* the store
    now,        \* the clock that stamps enqueuedAt
    cutoff,     \* requests enqueued at or before this time have waited too long
    lastProof,  \* the last lease proof issued
    proofs,     \* the proofs handed out for each request
    ended       \* history: proofs whose lease expired or was cancelled

schedVars == <<requests, now, cutoff, lastProof, proofs, ended>>

-----------------------------------------------------------------------------
Finished == {"completed", "cancelled", "timed_out"}

\* proof = 0 means no leaseProofHash; live is leaseExpiresAt > now.
Request == [status : Finished \cup {"absent", "queued", "leased"},
            at     : Nat,
            proof  : Nat,
            live   : BOOLEAN]

Absent == [status |-> "absent", at |-> 0, proof |-> 0, live |-> FALSE]

\* The fields every way out of "leased" clears.
Unleased(x, status) == [x EXCEPT !.status = status, !.proof = 0, !.live = FALSE]

\* Mutant: a lease is put back before it expires.
RequeuedEarly(x) == IF x.status = "leased" THEN Unleased(x, "queued") ELSE x

\* recoverExpiredLeasesInStore: both rules apply to a request in one pass.
Requeued(x) == IF x.status = "leased" /\ ~x.live THEN Unleased(x, "queued") ELSE x
TimedOut(x) == IF x.status = "queued" /\ x.at <= cutoff THEN [x EXCEPT !.status = "timed_out"] ELSE x
recoverExpiredLeases == [r \in Requests |-> TimedOut(Requeued(requests[r]))]

\* withStore: what an operation sees.  Retention may have dropped any finished
\* request (pruneTerminalEntries by age, persistStore by number), never another.
withStore(gone) ==
    [r \in Requests |-> IF r \in gone /\ recoverExpiredLeases[r].status \in Finished
                        THEN Absent ELSE recoverExpiredLeases[r]]

\* The order of the queue.
Earlier(rs, q, r) == rs[q].at < rs[r].at \/ (rs[q].at = rs[r].at /\ q < r)

SameSource(r) == {q \in Requests : SourceOf[q] = SourceOf[r]}

\* Mutants: only queued requests block; only leased ones do.
AheadIfQueued(rs, q, r) == rs[q].status = "queued" /\ Earlier(rs, q, r)
AheadIfLeased(rs, q, r) == rs[q].status = "leased"

\* q is at work or was enqueued before r.
Ahead(rs, q, r) == rs[q].status = "leased" \/ (rs[q].status = "queued" /\ Earlier(rs, q, r))

\* A mutation waits for every request of its source that is ahead of it, a read
\* only for the mutations.
eligible(rs, r) ==
    /\ rs[r].status = "queued"
    /\ \A q \in SameSource(r) : r \in Mutations \/ q \in Mutations => ~Ahead(rs, q, r)

-----------------------------------------------------------------------------
SchedInit ==
    /\ requests = [r \in Requests |-> Absent]
    /\ now = 1
    /\ cutoff = 0
    /\ lastProof = 0
    /\ proofs = [r \in Requests |-> {}]
    /\ ended = {}

\* enqueueRepositoryWork for an identity that is not in the store; one that is
\* there is returned, or refused, without a write.
enqueueRepositoryWork(r, gone) ==
    /\ withStore(gone)[r].status = "absent"
    /\ now > cutoff
    /\ requests' = [withStore(gone) EXCEPT ![r] = [Absent EXCEPT !.status = "queued", !.at = now]]
    /\ UNCHANGED <<now, cutoff, lastProof, proofs, ended>>

claimRepositoryWork(r, gone) ==
    /\ lastProof < MaxLeases
    /\ eligible(withStore(gone), r)
    /\ requests' = [withStore(gone) EXCEPT
                       ![r] = [@ EXCEPT !.status = "leased", !.proof = lastProof + 1, !.live = TRUE]]
    /\ lastProof' = lastProof + 1
    /\ proofs' = [proofs EXCEPT ![r] = @ \cup {lastProof + 1}]
    /\ UNCHANGED <<now, cutoff, ended>>

\* completeRepositoryWork by a worker that was once given this proof.
completeRepositoryWork(r, proof, gone) ==
    /\ proof \in proofs[r]
    /\ withStore(gone)[r].status = "leased"
    /\ withStore(gone)[r].proof = proof
    /\ requests' = [withStore(gone) EXCEPT ![r] = Unleased(@, "completed")]
    /\ proofs' = [proofs EXCEPT ![r] = @ \ {proof}]
    /\ UNCHANGED <<now, cutoff, lastProof, ended>>

\* cancelRepositoryWork asks for no proof: it also ends a lease.
Cancelled(rs, which) ==
    [r \in Requests |-> IF r \in which /\ rs[r].status \in {"queued", "leased"}
                        THEN Unleased(rs[r], "cancelled") ELSE rs[r]]

cancelRepositoryWork(which, gone) ==
    /\ \E r \in which : withStore(gone)[r].status \in {"queued", "leased"}
    /\ requests' = Cancelled(withStore(gone), which)
    /\ ended' = ended \cup {requests[r].proof : r \in which}
    /\ UNCHANGED <<now, cutoff, lastProof, proofs>>

\* cancelSessionSchedulerRequests, when a session is completed.
cancelSessionSchedulerRequests(s, gone) ==
    cancelRepositoryWork({r \in Requests : SessionOf[r] = s}, gone)

recoverRepositoryScheduler(gone) ==
    /\ requests' = withStore(gone)
    /\ UNCHANGED <<now, cutoff, lastProof, proofs, ended>>

\* The environment: a lease expires, the clock moves, requests become too old.
LeaseRunsOut(r) ==
    /\ requests[r].status = "leased"
    /\ requests[r].live
    /\ requests' = [requests EXCEPT ![r].live = FALSE]
    /\ ended' = ended \cup {requests[r].proof}
    /\ UNCHANGED <<now, cutoff, lastProof, proofs>>

Tick ==
    /\ now < MaxTime
    /\ now' = now + 1
    /\ \E c \in cutoff .. now : cutoff' = c
    /\ UNCHANGED <<requests, lastProof, proofs, ended>>

SchedNext ==
    \/ \E gone \in SUBSET Requests :
          \/ \E r \in Requests :
                \/ enqueueRepositoryWork(r, gone)
                \/ claimRepositoryWork(r, gone)
                \/ \E proof \in proofs[r] : completeRepositoryWork(r, proof, gone)
                \/ cancelRepositoryWork({r}, gone)
          \/ \E s \in Sessions : cancelSessionSchedulerRequests(s, gone)
          \/ recoverRepositoryScheduler(gone)
    \/ \E r \in Requests : LeaseRunsOut(r)
    \/ Tick

SchedSpec == SchedInit /\ [][SchedNext]_schedVars

-----------------------------------------------------------------------------
\* The types of the store, its clock and the proofs.
SchedTypeOK ==
    /\ requests \in [Requests -> Request]
    /\ now \in Nat
    /\ cutoff \in Nat
    /\ lastProof \in Nat
    /\ proofs \in [Requests -> SUBSET Nat]
    /\ ended \subseteq Nat

\* A holder of a proof works under a lease that neither expired nor was cancelled.
Holding(r) == \E proof \in proofs[r] : proof \notin ended

\* While a mutation of a source is at work under its lease nobody else is at work
\* on that source: claims, completions with old proofs, recovery, time-outs and
\* retention cannot let a second one in.
MutualExclusion ==
    \A r \in Mutations : \A q \in SameSource(r) : Holding(r) /\ Holding(q) => q = r

\* A worker can still complete the request whose lease it holds: no recovery,
\* time-out or retention takes it away behind its back.
HolderCanComplete ==
    \A r \in Requests : \A proof \in proofs[r] \ ended :
        requests[r].status = "leased" /\ requests[r].proof = proof /\ requests[r].live

\* A mutation that keeps waiting is never overtaken by a request of its source
\* that comes after it, not even when an expired lease put it back into the queue.
NoOvertaking ==
    [][\A q \in Mutations : \A r \in SameSource(q) \ {q} :
          /\ requests[q].status = "queued" /\ requests'[q].status = "queued"
          /\ requests[r].status # "leased" /\ requests'[r].status = "leased"
          => Earlier(requests', r, q)]_schedVars

\* The requests that hold a lease, and nothing else of the store, follow the
\* specification of a lock on sources: leases that expire, recovery, retention and
\* completions with old proofs included.
HolderLock == INSTANCE SourceLock WITH working <- {r \in Requests : Holding(r)}
SchedImplementsLock == HolderLock!LockSpec
=============================================================================
