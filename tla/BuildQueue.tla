---------------------------- MODULE BuildQueue ----------------------------
(***************************************************************************)
(* The build queue of the AURCache server: the `builds' table, the leases  *)
(* workers hold on its rows, and every handler that moves a row.           *)
(*                                                                         *)
(* One database transaction, or one statement outside a transaction, is    *)
(* one step.  A handler that reads rows and writes them later (heartbeat,  *)
(* reaper, completion, revocation, deletion) is split at that gap, and     *)
(* what it read is kept in a variable of its own until it writes.          *)
(***************************************************************************)
EXTENDS Integers, FiniteSets, FiniteSetsExt

CONSTANTS
    Workers,          \* rows of the workers table
    Pkgs,             \* rows of the packages table
    Platforms,        \* the architectures every package is configured for
    Arches,           \* [Workers -> SUBSET Platforms], as registered
    Affinity,         \* [Workers -> SUBSET Pkgs], packages a worker reserves
    Priority,         \* [Workers -> Int]
    Concurrency,      \* [Workers -> Nat], at least 1
    LeaseTtl,         \* worker_policy().lease_ttl_secs
    SpillDelay,       \* worker_policy().spill_delay_secs
    LivenessTimeout,  \* worker_policy().liveness_timeout_secs
    TouchThrottle,    \* TOUCH_THROTTLE_SECS
    MaxAttempts,      \* worker_policy().max_attempts
    BuildAge,         \* [Pkgs -> Nat], job timeout plus grace: BuildAges
    Null,             \* SQL NULL
    Pausable,         \* bound: workers an operator pauses and resumes
    Revocable,        \* bound: workers an operator revokes
    Reapprovable,     \* bound: revoked workers an operator approves again
    Deletable,        \* bound: packages an operator deletes builds of
    Dependent,        \* packages with dependencies in the repository
    Diligent,         \* workers that never stop asking for work
    Requesters,       \* who asks for builds: "User", "AutoUpdate"
    MaxBuilds,        \* bound: rows ever inserted
    MaxRequests,      \* bound: rows asked for by a user or the auto-updater
    MaxInFlight,      \* bound: requests being handled at once
    MaxRestarts,      \* bound: server restarts
    MaxTime           \* bound: the clock stops here

ASSUME ConstantsAssumption ==
    /\ Arches \in [Workers -> SUBSET Platforms]
    /\ Affinity \in [Workers -> SUBSET Pkgs]
    /\ Priority \in [Workers -> Int]
    /\ Concurrency \in [Workers -> Nat \ {0}]
    /\ LeaseTtl \in Nat \ {0}
    /\ SpillDelay \in Nat
    /\ LivenessTimeout \in Nat
    /\ TouchThrottle \in Nat
    /\ MaxAttempts \in Nat
    /\ BuildAge \in [Pkgs -> Nat]
    /\ Pausable \subseteq Workers
    /\ Revocable \subseteq Workers
    /\ Reapprovable \subseteq Workers
    /\ Deletable \subseteq Pkgs
    /\ Dependent \subseteq Pkgs
    /\ Diligent \subseteq Workers
    /\ Requesters \subseteq {"User", "AutoUpdate"}
    /\ MaxBuilds \in Nat
    /\ MaxRequests \in Nat
    /\ MaxInFlight \in Nat
    /\ MaxRestarts \in Nat
    /\ MaxTime \in Nat

VARIABLES
    now,         \* now_secs()
    builds,      \* the builds table, by id
    nextId,      \* the AUTOINCREMENT id the next row gets
    pkgStatus,   \* packages.status
    approval,    \* workers.status
    paused,      \* workers.paused
    lastSeen,    \* workers.last_seen
    beating,     \* heartbeats being handled, by worker
    reaping,     \* rows the current reaper pass selected and has not reached
    completing,  \* completion reports past their ownership check
    revoking,    \* revocations being handled, by worker
    deleting,    \* build deletions past their status check
    pausing,     \* pause and resume requests past their approval check
    restarts     \* how often the server process was restarted

rows == <<builds, nextId, pkgStatus>>
fleet == <<approval, paused, lastSeen>>
operators == <<revoking, deleting, pausing>>
handlers == <<beating, reaping, completing, operators>>
vars == <<now, restarts, rows, fleet, handlers>>

----------------------------------------------------------------------------
(* The rows. *)

States == {"Active", "Successful", "Failed", "Enqueued", "WaitingForDeps",
           "Publishing"}
InProgress == {"Active", "Enqueued", "WaitingForDeps", "Publishing"}
Settled == {"Successful", "Failed"}
Triggers == {"User", "AutoUpdate", "TimeoutRetry"}
Outcomes == {"Succeeded", "Failed", "Canceled", "Interrupted"}
EndReasons == {"Canceled", "LeaseExpired", "MaxDuration", "Dropped",
               "WorkerRevoked", "Interrupted"}
SpendsRetry == {"LeaseExpired", "MaxDuration", "Dropped", "Interrupted"}

ASSUME NullAssumption ==
    /\ Null \notin Int
    /\ Null \notin Workers \cup Pkgs \cup Platforms
    /\ Null \notin Triggers \cup EndReasons

Ids == 1..MaxBuilds
Time == 0..MaxTime

Row == [status   : States \cup {"Absent"},
        pkg      : Pkgs \cup {Null},
        platform : Platforms \cup {Null},
        number   : Nat,
        trigger  : Triggers \cup {Null},
        worker   : Workers \cup {Null},
        lease    : Nat \cup {Null},
        start    : Nat,
        reason   : EndReasons \cup {Null}]

NoRow == [status |-> "Absent", pkg |-> Null, platform |-> Null, number |-> 0,
          trigger |-> Null, worker |-> Null, lease |-> Null, start |-> 0,
          reason |-> Null]

Exists(bs, i) == bs[i].status # "Absent"

RowsOf(bs, p, pl) ==
    {i \in Ids : Exists(bs, i) /\ bs[i].pkg = p /\ bs[i].platform = pl}

\* The revision of an ACTIVE row a handler acts on later: who held it and
\* under which lease when it was read.
Observation == [id : Ids, worker : Workers \cup {Null}, lease : Nat \cup {Null}]

Observe(i) == [id |-> i, worker |-> builds[i].worker, lease |-> builds[i].lease]

\* Mutant of StillHeld: the pin forgets the lease revision.
StillHeldNoLease(o) ==
    builds[o.id].status = "Active" /\ builds[o.id].worker = o.worker

StillHeld(o) ==
    /\ builds[o.id].status = "Active"
    /\ builds[o.id].worker = o.worker
    /\ builds[o.id].lease = o.lease

Owned(w) == {i \in Ids : builds[i].status = "Active" /\ builds[i].worker = w}

----------------------------------------------------------------------------
(* The package status that follows every change of a row. *)

Precedence ==
    <<"Active", "Publishing", "Enqueued", "WaitingForDeps", "Failed", "Successful">>

CombinedStatus(S) == Precedence[Min({k \in 1..6 : Precedence[k] \in S})]

Newest(bs, p, pl) ==
    {i \in RowsOf(bs, p, pl) :
        \A j \in RowsOf(bs, p, pl) : bs[j].number <= bs[i].number}

NewestStates(bs, p) ==
    {bs[i].status : i \in UNION {Newest(bs, p, pl) : pl \in Platforms}}

RefreshPackageStatus(p) ==
    pkgStatus' = IF NewestStates(builds', p) = {}
                 THEN pkgStatus
                 ELSE [pkgStatus EXCEPT ![p] = CombinedStatus(NewestStates(builds', p))]

----------------------------------------------------------------------------
(* Inserting, failing and abandoning a row. *)

\* Mutant of Pending: the unique index does not cover PUBLISHING.
PendingNotPublishing(bs, p, pl) ==
    \E i \in RowsOf(bs, p, pl) : bs[i].status \in InProgress \ {"Publishing"}

Pending(bs, p, pl) == \E i \in RowsOf(bs, p, pl) : bs[i].status \in InProgress

NextNumber(bs, p) ==
    Max({0} \cup {bs[i].number : i \in {j \in Ids : Exists(bs, j) /\ bs[j].pkg = p}}) + 1

EnqueueBuildIfMissing(bs, p, pl, state, trigger) ==
    IF Pending(bs, p, pl)
    THEN builds' = bs /\ nextId' = nextId
    ELSE /\ nextId \in Ids
         /\ builds' = [bs EXCEPT ![nextId] =
                [status |-> state, pkg |-> p, platform |-> pl,
                 number |-> NextNumber(bs, p), trigger |-> trigger,
                 worker |-> Null, lease |-> Null, start |-> now, reason |-> Null]]
         /\ nextId' = nextId + 1

\* Mutant of Failed: status and end reason are swapped.
FailedSwapped(bs, i, reason) ==
    [bs EXCEPT ![i].status = reason, ![i].lease = Null, ![i].reason = "Failed"]

\* Mutant of Failed: the same row goes back to the queue.
FailedRequeued(bs, i, reason) ==
    [bs EXCEPT ![i].status = "Enqueued", ![i].lease = Null, ![i].worker = Null]

Failed(bs, i, reason) ==
    [bs EXCEPT ![i].status = "Failed", ![i].lease = Null, ![i].reason = reason]

Futile(row) == row.trigger = "TimeoutRetry" /\ row.reason \in SpendsRetry

\* The trailing consecutive futile retries of a package on a platform.
FutileRun(bs, p, pl) ==
    {i \in RowsOf(bs, p, pl) :
        \A j \in RowsOf(bs, p, pl) : bs[j].number >= bs[i].number => Futile(bs[j])}

\* Mutant of AbandonBuild: off by one in the budget.
AbandonBuildOffByOne(o, reason) ==
    IF StillHeld(o)
    THEN LET p == builds[o.id].pkg
             pl == builds[o.id].platform
             failed == Failed(builds, o.id, reason)
         IN  /\ IF Cardinality(FutileRun(failed, p, pl)) <= MaxAttempts
                THEN EnqueueBuildIfMissing(failed, p, pl, "Enqueued", "TimeoutRetry")
                ELSE builds' = failed /\ nextId' = nextId
             /\ RefreshPackageStatus(p)
    ELSE UNCHANGED rows

AbandonBuild(o, reason) ==
    IF StillHeld(o)
    THEN LET p == builds[o.id].pkg
             pl == builds[o.id].platform
             failed == Failed(builds, o.id, reason)
         IN  /\ IF Cardinality(FutileRun(failed, p, pl)) < MaxAttempts
                THEN EnqueueBuildIfMissing(failed, p, pl, "Enqueued", "TimeoutRetry")
                ELSE builds' = failed /\ nextId' = nextId
             /\ RefreshPackageStatus(p)
    ELSE UNCHANGED rows

\* Mutant of Transition: the package's status does not follow.
TransitionNoRefresh(i, from, new) ==
    /\ builds[i].status \in from
    /\ builds' = [builds EXCEPT ![i] = new]
    /\ UNCHANGED <<nextId, pkgStatus>>

\* transition(): a compare-and-swap on the status, the package following.
Transition(i, from, new) ==
    /\ builds[i].status \in from
    /\ builds' = [builds EXCEPT ![i] = new]
    /\ nextId' = nextId
    /\ RefreshPackageStatus(builds[i].pkg)

----------------------------------------------------------------------------
(* Which queued build a worker is offered: the routing rules of claim_job. *)

Approved(w) == approval[w] = "Approved"

Reserved(p) == \E w \in Workers : Approved(w) /\ p \in Affinity[w]

Capable(w, p, pl) == pl \in Arches[w] /\ (Reserved(p) => p \in Affinity[w])

IsLive(w) == now - lastSeen[w] <= LivenessTimeout

Available(w) ==
    IsLive(w) /\ ~paused[w] /\ Cardinality(Owned(w)) < Concurrency[w]

\* Some strictly higher-priority worker could take the job right now.
Blocked(w, p, pl) ==
    \E v \in Workers \ {w} :
        /\ Approved(v)
        /\ Priority[v] > Priority[w]
        /\ Capable(v, p, pl)
        /\ Available(v)

\* Mutant of Offered: the hold-back never ends.
OfferedNoSpill(w) ==
    {i \in Ids :
        /\ builds[i].status = "Enqueued"
        /\ \A j \in Owned(w) : builds[j].pkg # builds[i].pkg
        /\ Capable(w, builds[i].pkg, builds[i].platform)
        /\ ~Blocked(w, builds[i].pkg, builds[i].platform)}

Offered(w) ==
    {i \in Ids :
        /\ builds[i].status = "Enqueued"
        /\ \A j \in Owned(w) : builds[j].pkg # builds[i].pkg
        /\ Capable(w, builds[i].pkg, builds[i].platform)
        /\ now - builds[i].start < SpillDelay
              => ~Blocked(w, builds[i].pkg, builds[i].platform)}

\* ClaimRank: affine jobs first, then the longest queued, then the id.
Precedes(w, i, j) ==
    LET affine(k) == builds[k].pkg \in Affinity[w]
    IN  \/ affine(i) /\ ~affine(j)
        \/ /\ affine(i) = affine(j)
           /\ \/ builds[i].start < builds[j].start
              \/ builds[i].start = builds[j].start /\ i < j

\* Mutant of WaitingReason: a worker at its limit counts as down.
WaitingReasonBusyIsDown(p, pl) ==
    LET capable == {w \in Workers : Approved(w) /\ Capable(w, p, pl)}
        live == {w \in capable : Available(w)}
    IN  IF live # {} THEN "None" ELSE "Offline"

\* Why nobody takes a queued build, as waiting_reasons() explains it; "None"
\* when a capable worker is up and taking work.
WaitingReason(p, pl) ==
    LET capable == {w \in Workers : Approved(w) /\ Capable(w, p, pl)}
        live == {w \in capable : IsLive(w)}
    IN  IF \E w \in live : ~paused[w] THEN "None"
        ELSE IF live # {} THEN "Paused"
        ELSE IF Reserved(p) THEN "Affinity"
        ELSE IF capable = {} THEN "Arch"
        ELSE "Offline"

\* The auth guard refreshes last_seen on every request, at most every
\* TOUCH_THROTTLE_SECS.
TouchLastSeen(w) ==
    lastSeen' = IF now - lastSeen[w] < TouchThrottle
                THEN lastSeen
                ELSE [lastSeen EXCEPT ![w] = now]

\* The requests being handled; the reaper is a task of its own.
InFlight ==
    Cardinality({w \in Workers : beating[w] # Null})
  + Cardinality(completing)
  + Cardinality({w \in Workers : revoking[w].stage # "Idle"})
  + Cardinality(deleting)
  + Cardinality(pausing)

----------------------------------------------------------------------------
(* Queueing. *)

Requested == {i \in Ids : builds[i].trigger \in {"User", "AutoUpdate"}}

\* A user's build request or the auto-updater's: held when the package has
\* dependencies that are not built yet.
Enqueue(p, pl, state, trigger) ==
    /\ Cardinality(Requested) < MaxRequests
    /\ nextId \in Ids
    /\ state = "WaitingForDeps" => p \in Dependent
    /\ ~Pending(builds, p, pl)
    /\ EnqueueBuildIfMissing(builds, p, pl, state, trigger)
    /\ RefreshPackageStatus(p)
    /\ UNCHANGED <<now, restarts, fleet, handlers>>

PromoteWaitingBuild(p, pl) ==
    /\ \E i \in RowsOf(builds, p, pl) :
          Transition(i, {"WaitingForDeps"}, [builds[i] EXCEPT !.status = "Enqueued"])
    /\ UNCHANGED <<now, restarts, fleet, handlers>>

DemoteEnqueuedBuild(p, pl) ==
    /\ p \in Dependent
    /\ \E i \in RowsOf(builds, p, pl) :
          Transition(i, {"Enqueued"}, [builds[i] EXCEPT !.status = "WaitingForDeps"])
    /\ UNCHANGED <<now, restarts, fleet, handlers>>

\* One write transaction: the fleet and the queue are read where the claim
\* is written.
ClaimJob(w) ==
    /\ Approved(w)
    /\ ~paused[w]
    /\ \E i \in Offered(w) :
          /\ \A j \in Offered(w) \ {i} : Precedes(w, i, j)
          /\ Transition(i, {"Enqueued"},
                 [builds[i] EXCEPT !.status = "Active", !.worker = w,
                                   !.lease = now + LeaseTtl, !.start = now])
    /\ TouchLastSeen(w)
    /\ UNCHANGED <<now, restarts, approval, paused, handlers>>

\* A claim that finds nothing still tells the server the worker is up.
ClaimNothing(w) ==
    /\ Approved(w)
    /\ paused[w] \/ Offered(w) = {}
    /\ TouchLastSeen(w)
    /\ UNCHANGED <<now, restarts, rows, approval, paused, handlers>>

----------------------------------------------------------------------------
(* Heartbeats. *)

Beat == [at : Time, renew : SUBSET Ids, drop : SUBSET Observation]

\* Mutant of HeartbeatBegin: the auth guard forgets the approval.
HeartbeatBeginUnguarded(w, reported) ==
    /\ beating[w] = Null
    /\ InFlight < MaxInFlight
    /\ beating' = [beating EXCEPT ![w] =
           [at |-> now, renew |-> Owned(w) \cap reported, drop |-> {}]]
    /\ TouchLastSeen(w)
    /\ UNCHANGED <<now, restarts, rows, approval, paused, reaping, completing, operators>>

\* A build claimed within its first lease is left alone: the heartbeat may
\* have overtaken the answer to the claim.
HeartbeatBegin(w, reported) ==
    /\ Approved(w)
    /\ beating[w] = Null
    /\ InFlight < MaxInFlight
    /\ beating' = [beating EXCEPT ![w] =
           [at |-> now,
            renew |-> Owned(w) \cap reported,
            drop |-> {Observe(i) : i \in {j \in Owned(w) \ reported :
                                            builds[j].start <= now - LeaseTtl}}]]
    /\ TouchLastSeen(w)
    /\ UNCHANGED <<now, restarts, rows, approval, paused, reaping, completing, operators>>

HeartbeatDrop(w) ==
    /\ beating[w] # Null
    /\ \E o \in beating[w].drop :
          /\ AbandonBuild(o, "Dropped")
          /\ beating' = [beating EXCEPT ![w].drop = @ \ {o}]
    /\ UNCHANGED <<now, restarts, fleet, reaping, completing, operators>>

\* One UPDATE over the reported ids, with the clock the handler started at.
HeartbeatRenew(w) ==
    /\ beating[w] # Null
    /\ beating[w].drop = {}
    /\ builds' = [i \in Ids |->
           IF i \in beating[w].renew /\ i \in Owned(w)
           THEN [builds[i] EXCEPT !.lease = beating[w].at + LeaseTtl]
           ELSE builds[i]]
    /\ beating' = [beating EXCEPT ![w] = Null]
    /\ UNCHANGED <<now, restarts, nextId, pkgStatus, fleet, reaping, completing, operators>>

----------------------------------------------------------------------------
(* Completion reports. *)

Report == [seen : Observation, outcome : Outcomes]

\* What complete() decides from its first read of the row; "Proceed" goes on
\* to write.
CompleteCheck(w, i, outcome) ==
    LET row == builds[i]
        aborted == outcome \in {"Canceled", "Interrupted"} /\ row.status = "Failed"
        accepted == /\ outcome = "Succeeded"
                    /\ \/ row.status \in {"Publishing", "Successful"}
                       \/ row.status = "Failed" /\ row.reason = Null
    IN  IF row.status = "Absent" THEN "NotFound"
        ELSE IF row.worker = w /\ (aborted \/ accepted) THEN "AlreadyAccepted"
        ELSE IF row.status = "Active" /\ row.worker = w THEN "Proceed"
        ELSE "LeaseLost"

CompleteBegin(w, i, outcome) ==
    /\ Approved(w)
    /\ InFlight < MaxInFlight
    /\ CompleteCheck(w, i, outcome) = "Proceed"
    /\ completing' = completing \cup {[seen |-> Observe(i), outcome |-> outcome]}
    /\ TouchLastSeen(w)
    /\ UNCHANGED <<now, restarts, rows, approval, paused, beating, reaping, operators>>

\* Mutant of Release: the status is not checked again.
ReleaseUnchecked(o, state) ==
    IF builds[o.id].worker = o.worker
    THEN Transition(o.id, States, [builds[o.id] EXCEPT !.status = state, !.lease = Null])
    ELSE UNCHANGED rows

\* Mutant of Release: the lease is not cleared.
ReleaseKeepsLease(o, state) ==
    IF o.id \in Owned(o.worker)
    THEN Transition(o.id, {"Active"}, [builds[o.id] EXCEPT !.status = state])
    ELSE UNCHANGED rows

\* release(): status and owner are checked again, the lease is not.
Release(o, state) ==
    IF o.id \in Owned(o.worker)
    THEN Transition(o.id, {"Active"}, [builds[o.id] EXCEPT !.status = state, !.lease = Null])
    ELSE UNCHANGED rows

CompleteCommit(r) ==
    /\ r \in completing
    /\ \/ r.outcome = "Succeeded" /\ Release(r.seen, "Publishing")
       \/ r.outcome = "Interrupted" /\ AbandonBuild(r.seen, "Interrupted")
       \/ r.outcome \in {"Failed", "Canceled"} /\ Release(r.seen, "Failed")
    /\ completing' = completing \ {r}
    /\ UNCHANGED <<now, restarts, fleet, beating, reaping, operators>>

\* Publication settles the row one way or the other.
PublishSettle(i) ==
    /\ Transition(i, {"Publishing"}, [builds[i] EXCEPT !.status = "Successful"])
    /\ UNCHANGED <<now, restarts, fleet, handlers>>

PublishFail(i) ==
    /\ Transition(i, {"Publishing"}, [builds[i] EXCEPT !.status = "Failed"])
    /\ UNCHANGED <<now, restarts, fleet, handlers>>

----------------------------------------------------------------------------
(* The lease reaper. *)

\* Mutant of Overdue: a build that still heartbeats is never overdue.
OverdueOnlySilent(i) ==
    builds[i].start < now - BuildAge[builds[i].pkg] /\ builds[i].lease < now

Overdue(i) == builds[i].start < now - BuildAge[builds[i].pkg]

LeaseLost(i) == builds[i].lease = Null \/ builds[i].lease < now

Reap == [seen : Observation, reason : EndReasons]

ReapSelect ==
    /\ reaping = {}
    /\ reaping' = {[seen |-> Observe(i),
                    reason |-> IF Overdue(i) THEN "MaxDuration" ELSE "LeaseExpired"] :
                      i \in {j \in Ids : /\ builds[j].status = "Active"
                                         /\ Overdue(j) \/ LeaseLost(j)}}
    /\ UNCHANGED <<now, restarts, rows, fleet, beating, completing, operators>>

ReapOne ==
    /\ \E r \in reaping :
          /\ AbandonBuild(r.seen, r.reason)
          /\ reaping' = reaping \ {r}
    /\ UNCHANGED <<now, restarts, fleet, beating, completing, operators>>

----------------------------------------------------------------------------
(* An operator's requests. *)

CancelBuild(i) ==
    /\ Transition(i, {"Active", "Enqueued", "WaitingForDeps"},
           [builds[i] EXCEPT !.status = "Failed", !.reason = "Canceled", !.lease = Null])
    /\ UNCHANGED <<now, restarts, fleet, handlers>>

\* The status is checked on the row the request loaded ...
DeleteCheck(i) ==
    /\ builds[i].pkg \in Deletable
    /\ builds[i].status \notin {"Active", "Publishing"}
    /\ InFlight < MaxInFlight
    /\ deleting' = deleting \cup {i}
    /\ UNCHANGED <<now, restarts, rows, fleet, beating, reaping, completing, revoking, pausing>>

\* ... and the row is deleted by its id, whatever its status is by then.
DeleteBuild(i) ==
    /\ i \in deleting
    /\ builds' = [builds EXCEPT ![i] = NoRow]
    /\ IF Exists(builds, i) THEN RefreshPackageStatus(builds[i].pkg) ELSE UNCHANGED pkgStatus
    /\ deleting' = deleting \ {i}
    /\ UNCHANGED <<now, restarts, nextId, fleet, beating, reaping, completing, revoking, pausing>>

ApproveWorker(w) ==
    /\ approval[w] = "Revoked"
    /\ w \in Reapprovable
    /\ approval' = [approval EXCEPT ![w] = "Approved"]
    /\ UNCHANGED <<now, restarts, rows, paused, lastSeen, handlers>>

\* Only an approved worker is paused or resumed, decided before the write.
PauseCheck(w, value) ==
    /\ w \in Pausable
    /\ Approved(w)
    /\ InFlight < MaxInFlight
    /\ pausing' = pausing \cup {[worker |-> w, value |-> value]}
    /\ UNCHANGED <<now, restarts, rows, fleet, beating, reaping, completing, revoking, deleting>>

SetPaused(r) ==
    /\ r \in pausing
    /\ paused' = [paused EXCEPT ![r.worker] = r.value]
    /\ pausing' = pausing \ {r}
    /\ UNCHANGED <<now, restarts, rows, approval, lastSeen, beating, reaping, completing,
                   revoking, deleting>>

Revocation == [stage : {"Idle", "Marked", "Taking"}, left : SUBSET Observation]

IdleRevocation == [stage |-> "Idle", left |-> {}]

\* The revocation is written first, so no claim follows it ...
RevokeMark(w) ==
    /\ w \in Revocable
    /\ Approved(w)
    /\ revoking[w].stage = "Idle"
    /\ InFlight < MaxInFlight
    /\ approval' = [approval EXCEPT ![w] = "Revoked"]
    /\ paused' = [paused EXCEPT ![w] = FALSE]
    /\ revoking' = [revoking EXCEPT ![w].stage = "Marked"]
    /\ UNCHANGED <<now, restarts, rows, lastSeen, beating, reaping, completing, deleting, pausing>>

\* ... then the builds the worker holds are read ...
RevokeRead(w) ==
    /\ revoking[w].stage = "Marked"
    /\ revoking' = [revoking EXCEPT ![w] =
           IF Owned(w) = {} THEN IdleRevocation
           ELSE [stage |-> "Taking", left |-> {Observe(i) : i \in Owned(w)}]]
    /\ UNCHANGED <<now, restarts, rows, fleet, beating, reaping, completing, deleting, pausing>>

\* ... and taken from it one by one.
RevokeOne(w) ==
    /\ \E o \in revoking[w].left :
          /\ AbandonBuild(o, "WorkerRevoked")
          /\ revoking' = [revoking EXCEPT ![w] =
                 IF revoking[w].left = {o} THEN IdleRevocation
                 ELSE [stage |-> "Taking", left |-> revoking[w].left \ {o}]]
    /\ UNCHANGED <<now, restarts, fleet, beating, reaping, completing, deleting, pausing>>

----------------------------------------------------------------------------
(* The environment. *)

\* The server process dies and comes back: the tables survive, the handlers
\* do not.
Restart ==
    /\ restarts < MaxRestarts
    /\ restarts' = restarts + 1
    /\ beating' = [w \in Workers |-> Null]
    /\ reaping' = {}
    /\ completing' = {}
    /\ revoking' = [w \in Workers |-> IdleRevocation]
    /\ deleting' = {}
    /\ pausing' = {}
    /\ UNCHANGED <<now, rows, fleet>>

Tick ==
    /\ now < MaxTime
    /\ now' = now + 1
    /\ UNCHANGED <<restarts, rows, fleet, handlers>>

----------------------------------------------------------------------------

Init ==
    /\ now = 0
    /\ restarts = 0
    /\ builds = [i \in Ids |-> NoRow]
    /\ nextId = 1
    /\ pkgStatus = [p \in Pkgs |-> "Enqueued"]
    /\ approval = [w \in Workers |-> "Approved"]
    /\ paused = [w \in Workers |-> FALSE]
    /\ lastSeen = [w \in Workers |-> 0]
    /\ beating = [w \in Workers |-> Null]
    /\ reaping = {}
    /\ completing = {}
    /\ revoking = [w \in Workers |-> IdleRevocation]
    /\ deleting = {}
    /\ pausing = {}

\* The builds a worker may believe it holds: those handed to it, and those
\* deleted since.
Reportable(w) ==
    {i \in Ids : \/ builds[i].worker = w
                 \/ i < nextId /\ ~Exists(builds, i)}

WorkerStep(w) ==
    \/ ClaimJob(w)
    \/ ClaimNothing(w)
    \/ \E reported \in SUBSET Reportable(w) : HeartbeatBegin(w, reported)
    \/ HeartbeatDrop(w)
    \/ HeartbeatRenew(w)
    \/ \E i \in Ids, outcome \in Outcomes : CompleteBegin(w, i, outcome)

QueueStep ==
    \/ \E p \in Pkgs, pl \in Platforms, state \in {"Enqueued", "WaitingForDeps"},
         trigger \in Requesters : Enqueue(p, pl, state, trigger)
    \/ \E p \in Pkgs, pl \in Platforms : PromoteWaitingBuild(p, pl)
    \/ \E p \in Pkgs, pl \in Platforms : DemoteEnqueuedBuild(p, pl)
    \/ \E r \in completing : CompleteCommit(r)
    \/ \E i \in Ids : PublishSettle(i)
    \/ \E i \in Ids : PublishFail(i)
    \/ ReapSelect
    \/ ReapOne

OperatorStep ==
    \/ \E i \in Ids : CancelBuild(i)
    \/ \E i \in Ids : DeleteCheck(i)
    \/ \E i \in Ids : DeleteBuild(i)
    \/ \E w \in Workers : ApproveWorker(w)
    \/ \E w \in Workers, value \in BOOLEAN : PauseCheck(w, value)
    \/ \E r \in pausing : SetPaused(r)
    \/ \E w \in Workers : RevokeMark(w)
    \/ \E w \in Workers : RevokeRead(w)
    \/ \E w \in Workers : RevokeOne(w)

Next ==
    \/ \E w \in Workers : WorkerStep(w)
    \/ QueueStep
    \/ OperatorStep
    \/ Restart
    \/ Tick

Spec == Init /\ [][Next]_vars

\* The reaper's loop sleeps and runs for ever, its passes end, time goes on:
\* start_lease_reaper is spawned once at startup and never returns.
Fairness ==
    /\ WF_vars(Tick)
    /\ WF_vars(ReapSelect)
    /\ WF_vars(ReapOne)

LiveSpec == Spec /\ Fairness

\* The workers in Diligent keep asking for work, as the runner's claim loop
\* does while it has a free slot.
PollingSpec == LiveSpec /\ \A w \in Diligent : WF_vars(ClaimJob(w))

----------------------------------------------------------------------------
(* Properties. *)

\* Every table cell and every handler's memory holds a value of its kind.
TypeOK ==
    /\ now \in Time
    /\ restarts \in Nat
    /\ builds \in [Ids -> Row]
    /\ nextId \in 1..(MaxBuilds + 1)
    /\ pkgStatus \in [Pkgs -> States]
    /\ approval \in [Workers -> {"Approved", "Revoked"}]
    /\ paused \in [Workers -> BOOLEAN]
    /\ lastSeen \in [Workers -> Time]
    /\ beating \in [Workers -> Beat \cup {Null}]
    /\ reaping \subseteq Reap
    /\ completing \subseteq Report
    /\ revoking \in [Workers -> Revocation]
    /\ deleting \subseteq Ids
    /\ pausing \subseteq [worker : Workers, value : BOOLEAN]

\* A package has at most one build under way per platform, whatever retries,
\* requests, promotions and completions interleave: the promise of
\* BuildState::IN_PROGRESS.
OneInProgress ==
    \A i, j \in Ids :
        /\ builds[i].status \in InProgress
        /\ builds[j].status \in InProgress
        /\ builds[i].pkg = builds[j].pkg
        /\ builds[i].platform = builds[j].platform
        => i = j

\* A row carries a lease exactly while it is ACTIVE, and an ACTIVE row always
\* names its worker: no other state is policed by heartbeat and reaper, and
\* no ACTIVE row escapes them.
LeaseExactlyWhileActive ==
    \A i \in Ids :
        /\ (builds[i].lease # Null) <=> (builds[i].status = "Active")
        /\ builds[i].status = "Active" => builds[i].worker # Null

\* packages.status is what the package's newest build on each platform
\* makes it, after every handler and not only after the one that changed it
\* last (refresh_package_status).
StatusFollowsBuilds ==
    \A p \in Pkgs :
        NewestStates(builds, p) # {} => pkgStatus[p] = CombinedStatus(NewestStates(builds, p))

\* However abandonments interleave with requests, the newest builds of a
\* package on a platform never hold more futile retries in a row than the
\* budget (abandon_build, step 3).  Deleting builds may splice two runs.
RetryBudgetRespected ==
    Deletable = {} =>
        \A p \in Pkgs, pl \in Platforms :
            Cardinality(FutileRun(builds, p, pl)) <= MaxAttempts

\* A settled build stays as it is until its row is deleted: no late
\* completion, cancel, reap or promotion rewrites it.
SettledIsFinal ==
    [][\A i \in Ids : builds[i].status \in Settled => builds'[i] \in {builds[i], NoRow}]_vars

\* The queue as BuildLifecycle sees it: each row as one attempt, an id below
\* the next one with no row left as gone.
Attempt(i) ==
    IF Exists(builds, i)
    THEN [status |-> builds[i].status,
          subject |-> <<builds[i].pkg, builds[i].platform>>,
          worker |-> builds[i].worker]
    ELSE [status |-> IF i < nextId THEN "Gone" ELSE "Unused",
          subject |-> Null, worker |-> Null]

Attempts == [i \in Ids |-> Attempt(i)]

Lifecycle == INSTANCE BuildLifecycle
    WITH Subjects <- Pkgs \X Platforms, Nobody <- Null, attempts <- Attempts

\* Leases, heartbeats, restarts and handlers in flight come to this: a row is
\* one attempt, handed to at most one worker and never to another, one at a
\* time for a package and platform, a retry being a row of its own queued as
\* the abandoned one ends (abandon_build: "a build row is one attempt, never
\* more").
LifecycleSpec == Lifecycle!Spec

\* The reaper fails a build for silence only if its lease is out when it
\* writes: a renewal landing after its read saves the build (still_held).
ReapedOnlyWhenExpired ==
    [][\A i \in Ids :
          builds[i].status = "Active" /\ builds'[i].reason = "LeaseExpired"
              => builds[i].lease < now]_vars

\* A build held past its package's job timeout ends, even if its worker
\* renews the lease for ever: the reaper's backstop.
OverdueBuildEnds ==
    \A i \in Ids :
        builds[i].status = "Active" /\ builds[i].start + BuildAge[builds[i].pkg] < MaxTime
            ~> builds[i].status # "Active"

\* A revoked worker's build is taken from it unless it is approved again,
\* whatever was in flight when it was revoked and even if the server dies
\* halfway: no new heartbeat gets past the auth guard, so the lease runs out.
RevokedBuildEnds ==
    \A i \in Ids, w \in Workers :
        approval[w] = "Revoked" /\ i \in Owned(w) /\ now + LeaseTtl < MaxTime
            ~> i \notin Owned(w) \/ Approved(w)

\* A queued build does not wait for ever on a higher-priority worker that is
\* up and never asks: once it has waited the spill delay, a capable worker
\* that keeps asking gets it (claim_job, layer 3).
QueuedBuildIsTaken ==
    \A i \in Ids, w \in Diligent :
        (/\ builds[i].status = "Enqueued"
         /\ Capable(w, builds[i].pkg, builds[i].platform)
         /\ builds[i].start + SpillDelay <= MaxTime)
            ~> builds[i].status # "Enqueued"

\* The explanation shown for a queued build is never wrong: when there is
\* one, no worker that is up could claim the build (waiting_reasons and
\* claim_job read the same rules).
ExplainedMeansUnclaimable ==
    \A i \in Ids :
        /\ builds[i].status = "Enqueued"
        /\ WaitingReason(builds[i].pkg, builds[i].platform) # "None"
        => \A w \in Workers :
              Approved(w) /\ ~paused[w] /\ IsLive(w) => i \notin Offered(w)

============================================================================
