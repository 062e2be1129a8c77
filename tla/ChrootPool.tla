------------------------------ MODULE ChrootPool ------------------------------
(***************************************************************************)
(* The storage pool of a worker (aurcache-chroot's pool.rs, and chroots.rs  *)
(* that hands it out).  It holds the base chroot in up to three              *)
(* generations, root, root.next and root.prev; two subvolumes per build,     *)
(* job-<id> and job-<id>.data, snapshots of the base the build runs in; and  *)
(* the chroots of failed builds kept for inspection, kept-<id>.              *)
(*                                                                           *)
(* There is no record of any of this but the names.  Builds of the worker    *)
(* run side by side, a build-once in a process of its own shares the pool,   *)
(* and a process may be killed between any two commands.                     *)
(*                                                                           *)
(* Quota groups and sizes are left out: whether a build fits is a choice.    *)
(***************************************************************************)
EXTENDS Naturals

CONSTANTS
    Builds,      \* ids of the builds the server hands to this worker
    OneShot,     \* ids build-once uses, one process each
    KeepFor,     \* WORKER_KEEP_FAILED, in ticks
    Interval,    \* WORKER_CHROOT_REFRESH_INTERVAL, in ticks
    MaxTime,     \* bound: the clock
    MaxFaults,   \* bound: commands that fail, processes killed, totals lowered
    Worker,      \* the worker's process
    Null         \* no value

Ids == Builds \cup OneShot

ASSUME PoolAssumption ==
    /\ Builds \cap OneShot = {}
    /\ Worker \notin Ids
    /\ {KeepFor, Interval, MaxTime, MaxFaults} \subseteq Nat
    /\ Null \notin Nat \cup Ids \cup {Worker}

\* A build-once is a process of its own.
Processes == {Worker} \cup OneShot
ProcessOf(b) == IF b \in Builds THEN Worker ELSE b

Times == 0 .. MaxTime

\* A generation of the base: its UUID, the UUID of what it is a snapshot of, and
\* how far it is.  Bare: made, nothing in it.  Partial: mkarchroot is filling it,
\* usr is there.  Candidate: a snapshot being upgraded.  Whole: a base.
BaseStates == {"Bare", "Partial", "Candidate", "Whole"}
Uuids == 1 .. 7
Volume == [id : Uuids, parent : Uuids \cup {Null}, state : BaseStates]

ASSUME NullIsNoVolume == Null \notin Volume

\* What a build may have at the pool's top.
JobParts == {"Job", "JobData"}
KeptParts == {"Kept", "KeptData", "KeptBuild"}

Stages == {"Queued", "Gate", "Recover", "Create", "Fill", "Charge", "Snapshot", "Upgrade", "Exchange",
           "Retire", "Acquire", "Room", "Lease", "Data", "Running", "Release", "Touch",
           "KeepChroot", "KeepData", "KeepTree", "Private", "Ended"}

VARIABLES
    root, next, prev,  \* the base's generations
    gate,              \* who holds last_refresh in each process
    last,              \* when each process last refreshed the base
    flock,             \* who holds refresh.lock
    stage,             \* how far each build is in run_job
    parts,             \* the entries of each build
    touched,           \* mtime of each build's chroot, running or kept
    failedAt,          \* history: when each build that is kept failed
    worker,            \* Down, Sweep, SweepBase or Up
    sweeping,          \* the builds the sweep read and has yet to clear
    oversized,         \* the image could not shrink to its total
    now, faults

base == <<root, next, prev>>
locks == <<gate, flock>>
entries == <<parts, touched, failedAt>>
bounds == <<now, faults>>
process == <<worker, sweeping>>
vars == <<base, locks, last, stage, entries, process, oversized, bounds>>

TypeOK ==
    /\ {root, next, prev} \subseteq Volume \cup {Null}
    /\ gate \in [Processes -> Ids \cup {Null}]
    /\ last \in [Processes -> Times \cup {Null}]
    /\ flock \in Ids \cup {Worker, Null}
    /\ stage \in [Ids -> Stages]
    /\ parts \in [Ids -> SUBSET (JobParts \cup KeptParts)]
    /\ touched \in [Ids -> Times]
    /\ failedAt \in [Ids -> Times \cup {Null}]
    /\ worker \in {"Down", "Sweep", "SweepBase", "Up"}
    /\ sweeping \subseteq Ids
    /\ oversized \in BOOLEAN
    /\ now \in Times
    /\ faults \in 0 .. MaxFaults

\* A worker that has just been installed: an empty pool.
Init ==
    /\ root = Null /\ next = Null /\ prev = Null
    /\ gate = [p \in Processes |-> Null]
    /\ last = [p \in Processes |-> Null]
    /\ flock = Null
    /\ stage = [b \in Ids |-> "Queued"]
    /\ parts = [b \in Ids |-> {}]
    /\ touched = [b \in Ids |-> 0]
    /\ failedAt = [b \in Ids |-> Null]
    /\ worker = "Down" /\ sweeping = {} /\ oversized = FALSE
    /\ now = 0 /\ faults = 0

-----------------------------------------------------------------------------
(* The names. *)

\* chroot::base_exists, and the check of lease: there is a usr.
BaseExists == root # Null /\ root.state # "Bare"

LiveBuilds == {b \in Ids : parts[b] \cap JobParts # {}}
KeptBuilds == {b \in Ids : parts[b] \cap KeptParts # {}}

\* A kept build whose chroot's mtime says that its time is not over.  With the
\* chroot gone there is nothing to read, and it is not.
Fresh(b) == "Kept" \in parts[b] /\ touched[b] + KeepFor > now

\* By mtime, unreadable counts as oldest; between equals, the code goes by id.
KeptTime(b) == IF "Kept" \in parts[b] THEN touched[b] ELSE 0
OldestKept == {b \in KeptBuilds : \A c \in KeptBuilds : KeptTime(b) <= KeptTime(c)}

\* remove_build, remove_kept and remove_build_parts delete entries by name.
Remove(b, names) == parts' = [parts EXCEPT ![b] = @ \ names]

-----------------------------------------------------------------------------
(* Locks and stages. *)

Goto(b, s) == stage' = [stage EXCEPT ![b] = s]

\* A command that fails.
Fault == faults < MaxFaults /\ faults' = faults + 1

NoFault == UNCHANGED faults

\* Dropping the guards of last_refresh and refresh.lock.
LetGo(b) ==
    /\ gate' = [gate EXCEPT ![ProcessOf(b)] = Null]
    /\ flock' = IF flock = b THEN Null ELSE flock

\* The refresh is over, stamped whether or not it came to anything.
EndRefresh(b) ==
    /\ last' = [last EXCEPT ![ProcessOf(b)] = now]
    /\ LetGo(b)
    /\ Goto(b, "Acquire")

\* An error returned from refresh: the build ends without a chroot.
AbortRefresh(b) ==
    /\ LetGo(b)
    /\ Goto(b, "Ended")
    /\ UNCHANGED last

-----------------------------------------------------------------------------
(* recover_refresh, under refresh.lock: by a refresh, and by the sweep. *)

\* classify_next.  A UUID that cannot be read is an answer too.
ClassifyNext ==
    CASE next.parent = root.id -> "Unfinished"
      [] root.parent = next.id -> "Previous"
      [] OTHER -> "Unknown"

\* Mutant of RecoverStep: takes what a refresh left for an unfinished candidate.
RecoverStepDeletes ==
    /\ next # Null
    /\ next' = Null
    /\ UNCHANGED <<root, prev>>

\* One command of recover_refresh; there is nothing left to do without a next.
RecoverStep ==
    /\ next # Null
    /\ \/ /\ IF root = Null THEN TRUE ELSE ClassifyNext # "Previous"
          /\ next' = Null
          /\ UNCHANGED <<root, prev>>
       \/ /\ root # Null /\ ClassifyNext = "Previous" /\ prev # Null
          /\ prev' = Null
          /\ UNCHANGED <<root, next>>
       \/ /\ root # Null /\ ClassifyNext = "Previous" /\ prev = Null
          /\ prev' = next /\ next' = Null
          /\ UNCHANGED root

-----------------------------------------------------------------------------
(* Chroots::refresh. *)

\* The claim loop hands a build out only while the pool has its size
\* (ready_for_work); a build-once only opens the pool.
Start(b) ==
    /\ stage[b] = "Queued"
    /\ b \in Builds => worker = "Up" /\ ~oversized
    /\ Goto(b, "Gate")
    /\ UNCHANGED <<base, locks, last, entries, process, oversized, bounds>>

\* A refresh in flight in this process: with a base, it is used as it is.  A build
\* that found none waits for the gate; it could as well have come later.
SkipGate(b) ==
    /\ stage[b] = "Gate"
    /\ gate[ProcessOf(b)] # Null /\ BaseExists
    /\ Goto(b, "Acquire")
    /\ UNCHANGED <<base, locks, last, entries, process, oversized, bounds>>

\* The gate is free: look whether a refresh is due, and whether another process
\* is at it.
Due(p) == IF last[p] = Null THEN TRUE ELSE last[p] + Interval <= now

EnterGate(b) ==
    /\ stage[b] = "Gate"
    /\ gate[ProcessOf(b)] = Null
    /\ \/ /\ \/ BaseExists /\ ~Due(ProcessOf(b))
             \/ flock # Null
          /\ Goto(b, "Acquire")
          /\ UNCHANGED locks
       \/ /\ ~BaseExists \/ Due(ProcessOf(b))
          /\ flock = Null
          /\ gate' = [gate EXCEPT ![ProcessOf(b)] = b]
          /\ flock' = b
          /\ Goto(b, "Recover")
    /\ UNCHANGED <<base, last, entries, process, oversized, bounds>>

\* Recovery fails: a failed refresh with a base, and without one no reason not to
\* make it.
Recover(b) ==
    /\ stage[b] = "Recover"
    /\ \/ RecoverStep /\ NoFault /\ UNCHANGED <<stage, locks, last>>
       \/ /\ next # Null /\ Fault
          /\ IF BaseExists THEN EndRefresh(b) ELSE Goto(b, "Create") /\ UNCHANGED <<locks, last>>
          /\ UNCHANGED base
       \/ /\ next = Null /\ NoFault
          /\ Goto(b, IF BaseExists THEN "Snapshot" ELSE "Create")
          /\ UNCHANGED <<base, locks, last>>
    /\ UNCHANGED <<entries, process, oversized, now>>

\* A UUID nothing refers to any more stands for a new one.
Named == {root, next, prev} \ {Null}
NewUuid == CHOOSE u \in Uuids : \A v \in Named : u # v.id /\ u # v.parent

NewBase == [id |-> NewUuid, parent |-> Null, state |-> "Bare"]

\* What is there without a usr goes first, since mkarchroot refuses it; then
\* mkarchroot makes the subvolume and fills it.
CreateBase(b) ==
    /\ \/ /\ stage[b] = "Create"
          /\ IF root # Null THEN root' = Null /\ UNCHANGED stage
             ELSE root' = NewBase /\ Goto(b, "Fill")
       \/ /\ stage[b] = "Fill" /\ root # Null /\ root.state = "Bare"
          /\ root' = [root EXCEPT !.state = "Partial"]
          /\ UNCHANGED stage
       \/ /\ stage[b] = "Fill" /\ root # Null /\ root.state = "Partial"
          /\ root' = [root EXCEPT !.state = "Whole"]
          /\ Goto(b, "Charge")
    /\ UNCHANGED <<next, prev, locks, last, entries, process, oversized, bounds>>

\* A command of that fails: what it leaves goes, if it can be removed.
CreateFails(b) ==
    /\ stage[b] \in {"Create", "Fill"}
    /\ Fault
    /\ root' \in {Null, root}
    /\ AbortRefresh(b)
    /\ UNCHANGED <<next, prev, entries, process, oversized, now>>

\* charge_to_total; the base stays when that fails.
ChargeBase(b) ==
    /\ stage[b] = "Charge"
    /\ \/ NoFault /\ EndRefresh(b)
       \/ Fault /\ AbortRefresh(b)
    /\ UNCHANGED <<base, entries, process, oversized, now>>

\* snapshot_next, upgrade_candidate and check_candidate, exchange_root: a failure
\* discards the candidate, if it can be removed, and leaves the base.
FailCandidate(b) ==
    /\ stage[b] \in {"Snapshot", "Upgrade", "Exchange"}
    /\ Fault
    /\ next' \in {Null, next}
    /\ EndRefresh(b)
    /\ UNCHANGED <<root, prev, entries, process, oversized, now>>

SnapshotNext(b) ==
    /\ stage[b] = "Snapshot"
    /\ root # Null
    /\ next' = [id |-> NewUuid, parent |-> root.id, state |-> "Candidate"]
    /\ Goto(b, "Upgrade")
    /\ UNCHANGED <<root, prev, locks, last, entries, process, oversized, bounds>>

UpgradeNext(b) ==
    /\ stage[b] = "Upgrade" /\ next # Null
    /\ next' = [next EXCEPT !.state = "Whole"]
    /\ Goto(b, "Exchange")
    /\ UNCHANGED <<root, prev, locks, last, entries, process, oversized, bounds>>

ExchangeRoot(b) ==
    /\ stage[b] = "Exchange" /\ next # Null /\ root # Null
    /\ root' = next /\ next' = root
    /\ Goto(b, "Retire")
    /\ UNCHANGED <<prev, locks, last, entries, process, oversized, bounds>>

\* retire_prev; a failure is left to the next recovery.
RetirePrev(b) ==
    /\ stage[b] = "Retire"
    /\ \/ /\ prev # Null /\ NoFault
          /\ prev' = Null
          /\ UNCHANGED <<next, stage, locks, last>>
       \/ /\ prev = Null /\ NoFault
          /\ prev' = next /\ next' = Null
          /\ EndRefresh(b)
       \/ /\ Fault /\ EndRefresh(b)
          /\ UNCHANGED <<next, prev>>
    /\ UNCHANGED <<root, entries, process, oversized, now>>

-----------------------------------------------------------------------------
(* Chroots::acquire and Pool::lease. *)

\* A build cancelled while it was prepared takes no chroot.
Cancelled(b) ==
    /\ stage[b] = "Acquire" /\ b \in Builds
    /\ Goto(b, "Ended")
    /\ UNCHANGED <<base, locks, last, entries, process, oversized, bounds>>

\* expire_kept, one entry at a time, in the order they are named.
FirstKept(b) == IF "Kept" \in parts[b] THEN "Kept"
                ELSE IF "KeptData" \in parts[b] THEN "KeptData" ELSE "KeptBuild"

ExpireOne == \E k \in KeptBuilds : ~Fresh(k) /\ Remove(k, {FirstKept(k)})

Expired == \A k \in KeptBuilds : Fresh(k)

ExpireKept(b) ==
    /\ stage[b] = "Acquire"
    /\ \/ ExpireOne /\ UNCHANGED stage
       \/ Expired /\ Goto(b, "Room") /\ UNCHANGED parts
    /\ UNCHANGED <<base, locks, last, touched, failedAt, process, oversized, bounds>>

\* reclaim_room: kept builds, then the previous base, for as long as the build
\* would not fit.
ReclaimKept(b) ==
    /\ stage[b] = "Room"
    /\ \E k \in OldestKept : Remove(k, KeptParts)
    /\ UNCHANGED <<base, locks, last, stage, touched, failedAt, process, oversized, bounds>>

ReclaimPrev(b) ==
    /\ stage[b] = "Room"
    /\ KeptBuilds = {} /\ prev # Null
    /\ prev' = Null
    /\ UNCHANGED <<root, next, locks, last, stage, entries, process, oversized, bounds>>

\* It fits, or nothing is left to reclaim.  Leftovers under this id go first, and
\* without a base the build fails.
EnterLease(b) ==
    /\ stage[b] = "Room"
    /\ IF BaseExists THEN Remove(b, JobParts) /\ Goto(b, "Lease")
       ELSE Goto(b, "Ended") /\ UNCHANGED parts
    /\ UNCHANGED <<base, locks, last, touched, failedAt, process, oversized, bounds>>

\* Snapshot the base, as it is at this instant.  The snapshot has its mtime.
LeaseChroot(b) ==
    /\ stage[b] = "Lease"
    /\ root # Null
    /\ parts' = [parts EXCEPT ![b] = @ \cup {"Job"}]
    /\ touched' = [touched EXCEPT ![b] = 0]
    /\ Goto(b, "Data")
    /\ UNCHANGED <<base, locks, last, failedAt, process, oversized, bounds>>

LeaseData(b) ==
    /\ stage[b] = "Data"
    /\ parts' = [parts EXCEPT ![b] = @ \cup {"JobData"}]
    /\ Goto(b, "Running")
    /\ UNCHANGED <<base, locks, last, touched, failedAt, process, oversized, bounds>>

\* A command of lease fails, or the base went meanwhile: remove_build.
LeaseFails(b) ==
    /\ stage[b] \in {"Lease", "Data"}
    /\ Fault \/ (root = Null /\ NoFault)
    /\ Remove(b, JobParts)
    /\ Goto(b, "Ended")
    /\ UNCHANGED <<base, locks, last, touched, failedAt, process, oversized, now>>

-----------------------------------------------------------------------------
(* The end of a build: settle_build_lease. *)

\* Succeeded, canceled, stopped, out of disk, or nothing is kept.
EndBuild(b) ==
    /\ stage[b] = "Running"
    /\ Goto(b, "Release")
    /\ UNCHANGED <<base, locks, last, entries, process, oversized, bounds>>

\* release: the subvolumes are deleted one after the other.
Release(b) ==
    /\ stage[b] = "Release"
    /\ \/ "Job" \in parts[b] /\ Remove(b, {"Job"}) /\ UNCHANGED stage
       \/ "Job" \notin parts[b] /\ Remove(b, {"JobData"}) /\ Goto(b, "Ended")
    /\ UNCHANGED <<base, locks, last, touched, failedAt, process, oversized, bounds>>

\* should_keep; a build-once keeps nothing.
FailBuild(b) ==
    /\ stage[b] = "Running" /\ b \in Builds
    /\ failedAt' = [failedAt EXCEPT ![b] = now]
    /\ Goto(b, "Touch")
    /\ UNCHANGED <<base, locks, last, parts, touched, process, oversized, bounds>>

\* Mutant of TouchChroot: the chroot is renamed with the mtime it has.
TouchChrootNot(b) ==
    /\ stage[b] = "Touch"
    /\ Goto(b, "KeepChroot")
    /\ UNCHANGED <<base, locks, last, entries, process, oversized, bounds>>

\* Mutant of TouchChroot: the mtime is when the keep ends, not when it begins.
TouchChrootAhead(b) ==
    /\ stage[b] = "Touch"
    /\ touched' = [touched EXCEPT ![b] = now + KeepFor]
    /\ Goto(b, "KeepChroot")
    /\ UNCHANGED <<base, locks, last, parts, failedAt, process, oversized, bounds>>

\* keep_build, step by step: touch, rename the chroot, rename the workdir, move the
\* tree if the build has one, make it private.
TouchChroot(b) ==
    /\ stage[b] = "Touch"
    /\ touched' = [touched EXCEPT ![b] = now]
    /\ Goto(b, "KeepChroot")
    /\ UNCHANGED <<base, locks, last, parts, failedAt, process, oversized, bounds>>

KeepChroot(b) ==
    /\ stage[b] = "KeepChroot" /\ "Job" \in parts[b]
    /\ parts' = [parts EXCEPT ![b] = (@ \ {"Job"}) \cup {"Kept"}]
    /\ Goto(b, "KeepData")
    /\ UNCHANGED <<base, locks, last, touched, failedAt, process, oversized, bounds>>

KeepData(b) ==
    /\ stage[b] = "KeepData" /\ "JobData" \in parts[b]
    /\ parts' = [parts EXCEPT ![b] = (@ \ {"JobData"}) \cup {"KeptData"}]
    /\ Goto(b, "KeepTree")
    /\ UNCHANGED <<base, locks, last, touched, failedAt, process, oversized, bounds>>

\* There is no tree, it does not move, or it does.
KeepTree(b) ==
    /\ stage[b] = "KeepTree"
    /\ \E tree \in {{}, {"KeptBuild"}} : parts' = [parts EXCEPT ![b] = @ \cup tree]
    /\ Goto(b, "Private")
    /\ UNCHANGED <<base, locks, last, touched, failedAt, process, oversized, bounds>>

\* chmod names the chroot and the workdir: it succeeds only with both there.
MakePrivate(b) ==
    /\ stage[b] = "Private"
    /\ {"Kept", "KeptData"} \subseteq parts[b]
    /\ Goto(b, "Ended")
    /\ UNCHANGED <<base, locks, last, entries, process, oversized, bounds>>

\* Whatever fails, every name goes.
KeepFails(b) ==
    /\ \/ stage[b] \in {"Touch", "KeepChroot", "KeepData", "Private"} /\ Fault
       \/ stage[b] = "Private" /\ ~({"Kept", "KeptData"} \subseteq parts[b]) /\ NoFault
    /\ Remove(b, JobParts \cup KeptParts)
    /\ Goto(b, "Ended")
    /\ UNCHANGED <<base, locks, last, touched, failedAt, process, oversized, now>>

-----------------------------------------------------------------------------
(* Start, sweep, resizing, death. *)

WorkerStarts ==
    /\ worker = "Down"
    /\ worker' = "Sweep"
    /\ sweeping' = LiveBuilds
    /\ UNCHANGED <<base, locks, last, stage, entries, oversized, bounds>>

\* Mutant of SweepOne: leaves alone whatever belongs to a kept build.
SweepOneSpares ==
    /\ worker = "Sweep"
    /\ \/ \E b \in sweeping : /\ Remove(b, IF b \in KeptBuilds THEN {} ELSE JobParts)
                             /\ sweeping' = sweeping \ {b}
                             /\ UNCHANGED worker
       \/ sweeping = {} /\ ExpireOne /\ UNCHANGED process
       \/ /\ sweeping = {} /\ Expired
          /\ worker' = "SweepBase"
          /\ UNCHANGED <<sweeping, parts>>
    /\ UNCHANGED <<base, locks, last, stage, touched, failedAt, oversized, bounds>>

\* The startup sweep: what builds left, what a keep cut short left beside a kept
\* build, and the keeps that have expired.
SweepOne ==
    /\ worker = "Sweep"
    /\ \/ \E b \in sweeping : /\ Remove(b, JobParts)
                             /\ sweeping' = sweeping \ {b}
                             /\ UNCHANGED worker
       \/ sweeping = {} /\ ExpireOne /\ UNCHANGED process
       \/ /\ sweeping = {} /\ Expired
          /\ worker' = "SweepBase"
          /\ UNCHANGED <<sweeping, parts>>
    /\ UNCHANGED <<base, locks, last, stage, touched, failedAt, oversized, bounds>>

\* Its last step, an interrupted refresh, unless one is running now.
SweepBase ==
    /\ worker = "SweepBase"
    /\ \/ /\ flock = Null /\ flock' = Worker
          /\ UNCHANGED <<base, worker>> /\ NoFault
       \/ /\ flock = Worker /\ RecoverStep
          /\ UNCHANGED <<flock, worker>> /\ NoFault
       \/ /\ flock = Worker
          /\ IF next = Null THEN NoFault ELSE Fault
          /\ flock' = Null /\ worker' = "Up"
          /\ UNCHANGED base
       \/ /\ flock \in Ids
          /\ worker' = "Up"
          /\ UNCHANGED <<base, flock>> /\ NoFault
    /\ UNCHANGED <<gate, last, stage, entries, sweeping, oversized, now>>

\* A lowered total the image cannot shrink to (set_total).
LowerTotal ==
    /\ worker = "Up" /\ ~oversized
    /\ Fault
    /\ oversized' = TRUE
    /\ UNCHANGED <<base, locks, last, stage, entries, process, now>>

\* shrink_when_idle: with no build claimed, the pool is deleted and made again.  It
\* cannot be unmounted under a build-once.
RemakePool ==
    /\ worker = "Up" /\ oversized
    /\ \A b \in Builds : stage[b] \in {"Queued", "Ended"}
    /\ \A b \in OneShot : stage[b] \in {"Queued", "Ended"}
    /\ root' = Null /\ next' = Null /\ prev' = Null
    /\ parts' = [b \in Ids |-> {}]
    /\ last' = [last EXCEPT ![Worker] = Null]
    /\ oversized' = FALSE
    /\ UNCHANGED <<locks, stage, touched, failedAt, process, bounds>>

\* A process is killed.  Its locks go with it; its builds are over, and a
\* build-once may be run again.
Die(p) ==
    /\ Fault
    /\ p = Worker => worker # "Down"
    /\ worker' = IF p = Worker THEN "Down" ELSE worker
    /\ sweeping' = IF p = Worker THEN {} ELSE sweeping
    /\ oversized' = (oversized /\ p # Worker)
    /\ gate' = [gate EXCEPT ![p] = Null]
    /\ last' = [last EXCEPT ![p] = Null]
    /\ flock' = IF flock # Null /\ (flock = p \/ (flock # Worker /\ ProcessOf(flock) = p))
                THEN Null ELSE flock
    /\ stage' = [b \in Ids |->
                    IF ProcessOf(b) # p \/ stage[b] = "Queued" THEN stage[b]
                    ELSE IF p = Worker THEN "Ended" ELSE "Queued"]
    /\ UNCHANGED <<base, entries, now>>

Tick ==
    /\ now < MaxTime
    /\ now' = now + 1
    /\ UNCHANGED <<base, locks, last, stage, entries, process, oversized, faults>>

-----------------------------------------------------------------------------

Refresh(b) ==
    \/ Start(b) \/ SkipGate(b) \/ EnterGate(b) \/ Recover(b) \/ CreateBase(b)
    \/ CreateFails(b) \/ ChargeBase(b)
    \/ SnapshotNext(b) \/ UpgradeNext(b) \/ ExchangeRoot(b) \/ RetirePrev(b) \/ FailCandidate(b)

Lease(b) ==
    \/ Cancelled(b) \/ ExpireKept(b) \/ ReclaimKept(b) \/ ReclaimPrev(b) \/ EnterLease(b)
    \/ LeaseChroot(b) \/ LeaseData(b) \/ LeaseFails(b)

Settle(b) ==
    \/ EndBuild(b) \/ Release(b) \/ FailBuild(b) \/ TouchChroot(b) \/ KeepChroot(b)
    \/ KeepData(b) \/ KeepTree(b) \/ MakePrivate(b) \/ KeepFails(b)

Next ==
    \/ \E b \in Ids : Refresh(b) \/ Lease(b) \/ Settle(b)
    \/ WorkerStarts \/ SweepOne \/ SweepBase \/ LowerTotal \/ RemakePool \/ Tick
    \/ \E p \in Processes : Die(p)

Spec == Init /\ [][Next]_vars

-----------------------------------------------------------------------------
(* Properties. *)

\* A build of the worker has its two subvolumes for as long as it runs, whatever
\* other builds expire, reclaim, release or keep meanwhile; and once a build is over
\* and the worker takes work again, nothing of it is left but what was kept, also
\* when the worker died in the middle of a lease, a release or a keep.
VolumesExactlyWhileLeased ==
    \A b \in Builds :
        /\ stage[b] \in {"Running", "Touch", "KeepChroot"} => JobParts \subseteq parts[b]
        /\ stage[b] = "Ended" /\ worker = "Up" => parts[b] \cap JobParts = {}

\* The base a refresh replaced stays as the rollback point while its successor is
\* the base, wherever the refresh or its recovery was cut short and whichever
\* process finishes it; only a build short of room takes it.
RollbackKept ==
    [][ LET Generations == {v.id : v \in {next, prev} \ {Null}}
        IN root # Null /\ root' = root /\ root.parent \in Generations
              => root.parent \in Generations' \/ \E b \in Ids : ReclaimPrev(b) ]_vars

\* A kept chroot is there for WORKER_KEEP_FAILED from the failure on: the expiry
\* that runs before every other build's lease never takes a keep that has just been
\* made, or is being made.  Only want of room, or a keep that fails, ends it sooner.
KeptForItsTime ==
    [][ \A b \in Builds : "Kept" \in parts[b] /\ "Kept" \notin parts'[b] =>
            \/ failedAt[b] + KeepFor <= now
            \/ KeepFails(b) \/ RemakePool \/ \E c \in Ids : ReclaimKept(c) ]_vars

\* refresh_gate: "a pool with no base yet ... waits -- there is nothing to snapshot
\* until mkarchroot is done".
WholeBasesOnly == [][\A b \in Ids : LeaseChroot(b) => root.state = "Whole"]_vars

=============================================================================
