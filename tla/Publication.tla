---------------------------- MODULE Publication ----------------------------
(***************************************************************************)
(* Publishing finished builds, removing packages, sweeping and starting    *)
(* the server, all through the one repository lock.                        *)
(*                                                                         *)
(* A step is one database transaction or statement, one rename, or the     *)
(* staging of an update, which is private to the holder of the lock.  Any  *)
(* of them may fail, and the server may die between any two.               *)
(***************************************************************************)
EXTENDS Repository

CONSTANTS
    PkgOf,            \* [Builds -> Pkgs]
    PlatformOf,       \* [Builds -> Platforms]
    Produces,         \* [Builds -> SUBSET Names]
    Publishable,      \* builds whose staged files have the expected names
    DependsOn,        \* pairs <<dependent, dependee>> of packages
    CommitAttempts,   \* COMMIT_ATTEMPTS
    Deletable,        \* bound: builds an operator deletes
    Removable,        \* bound: packages an operator removes
    MaxFaults,        \* bound: failing database calls and renames
    MaxResumeFaults,  \* bound: failures to look for interrupted builds
    MaxCrashes,       \* bound: crashes of the server
    MaxTime           \* bound: the clock stops here

ASSUME PublicationAssumption ==
    /\ PkgOf \in [Builds -> Pkgs]
    /\ PlatformOf \in [Builds -> Platforms]
    /\ Produces \in [Builds -> SUBSET Names]
    /\ \A b \in Builds : \A n \in Produces[b] : NamePlatform[n] = PlatformOf[b]
    /\ \A b \in Builds : \A m, n \in Produces[b] : EntryDir[m] = EntryDir[n] => m = n
    /\ Publishable \subseteq Builds
    /\ DependsOn \subseteq Pkgs \X Pkgs
    /\ CommitAttempts \in Nat \ {0}
    /\ Deletable \subseteq Builds
    /\ Removable \subseteq Pkgs
    /\ MaxFaults \in Nat
    /\ MaxResumeFaults \in Nat
    /\ MaxCrashes \in Nat
    /\ MaxTime \in Nat

VARIABLES
    pkgs,      \* packages that exist
    status,    \* builds.status; "Deleted" for a row that is gone
    recorded,  \* builds whose size is set
    promoted,  \* builds whose dependents were looked at after they settled
    task,      \* publish_with_recovery, by build
    removing,  \* package_delete, by package
    boot,      \* what the server is at while it starts; "Up" when it serves
    lock,      \* the repository lock and what its holder is at
    faults, resumeFaults, crashes

tables == <<pkgs, status, recorded, promoted>>
budget == <<faults, resumeFaults, crashes>>
vars == <<now, repository, tables, task, removing, boot, lock, budget>>

----------------------------------------------------------------------------
(* The lock and those who take it. *)

Publisher(b) == <<"Publish", b>>
Remover(p) == <<"Remove", p>>
Sweeper == <<"Sweep", Null>>
Boot == <<"Boot", Null>>

Processes ==
    {Publisher(b) : b \in Builds} \cup {Remover(p) : p \in Pkgs} \cup {Sweeper, Boot}

Steps == {"Replay", "Open", "Commit", "Finish"}

Lock == [by : Processes, step : Steps, plan : Plan \cup {Null},
         files : SUBSET Names, dbs : SUBSET Platforms, attempt : Nat]

NoPlan == [build |-> Null, files |-> {}, dbs |-> {}, retired |-> {}]

Held(who, step) == lock # Null /\ lock.by = who /\ lock.step = step

Waiting(who) ==
    \/ \E b \in Builds : who = Publisher(b) /\ task[b] \in {"Recover", "Begin"}
    \/ \E p \in Pkgs : who = Remover(p) /\ removing[p] = "Begin"
    \/ who = Sweeper /\ boot = "Up"
    \/ who = Boot /\ boot = "Recover"

Finalizing(who, step, plan) ==
    [by |-> who, step |-> step, plan |-> plan, files |-> plan.files,
     dbs |-> plan.dbs, attempt |-> 1]

\* Whoever takes the lock first replays the plan it finds: recover_locked.
TakeLock(who) ==
    /\ lock = Null
    /\ Waiting(who)
    /\ lock' = IF planRow # Null THEN Finalizing(who, "Replay", planRow)
               ELSE [Finalizing(who, "Open", NoPlan) EXCEPT !.plan = Null]
    /\ UNCHANGED <<now, repository, tables, task, removing, boot, budget>>

Fault == faults < MaxFaults /\ faults' = faults + 1 /\ UNCHANGED <<resumeFaults, crashes>>

\* The holder leaves the lock, done or not: a publication goes on with
\* `then', a removal returns to whoever asked, the server starts anyway.
Release(then) ==
    /\ lock' = Null
    /\ task' = [b \in Builds |-> IF lock.by = Publisher(b) THEN then ELSE task[b]]
    /\ removing' = [p \in Pkgs |-> IF lock.by = Remover(p) THEN "None" ELSE removing[p]]
    /\ boot' = IF lock.by = Boot THEN "Resume" ELSE boot

----------------------------------------------------------------------------
(* Finalizing: the moves of a committed plan, by its own update or a replay. *)

Moving == lock # Null /\ lock.step \in {"Replay", "Finish"}

FinishFile ==
    /\ Moving
    /\ \E n \in lock.files :
          /\ MoveFile(lock.plan, n)
          /\ lock' = [lock EXCEPT !.files = @ \ {n}]
    /\ UNCHANGED <<now, rows, planRow, staging, retiredAt, tables, task, removing, boot, budget>>

\* Mutant of FinishDatabase: the databases go first.
FinishDatabaseFirst ==
    /\ Moving
    /\ \E pl \in lock.dbs :
          /\ MoveDatabase(pl)
          /\ lock' = [lock EXCEPT !.dbs = @ \ {pl}]
    /\ UNCHANGED <<now, rows, planRow, staging, retiredAt, tables, task, removing, boot, budget>>

FinishDatabase ==
    /\ Moving
    /\ lock.files = {}
    /\ \E pl \in lock.dbs :
          /\ MoveDatabase(pl)
          /\ lock' = [lock EXCEPT !.dbs = @ \ {pl}]
    /\ UNCHANGED <<now, rows, planRow, staging, retiredAt, tables, task, removing, boot, budget>>

\* The plan row goes when everything is in place.  A replay then goes on to
\* what the lock was taken for; an update is done with it.
FinishPlan ==
    /\ Moving
    /\ lock.files = {} /\ lock.dbs = {}
    /\ planRow' = Null
    /\ NoteRetired(lock.plan.retired)
    /\ IF lock.step = "Replay"
       THEN /\ lock' = [lock EXCEPT !.step = "Open", !.plan = Null]
            /\ UNCHANGED <<task, removing, boot>>
       ELSE Release("Settle")
    /\ UNCHANGED <<now, rows, shelves, staging, listedAt, tables, budget>>

FinishFails ==
    /\ Moving
    /\ Fault
    /\ Release("Recover")
    /\ UNCHANGED <<now, repository, tables>>

----------------------------------------------------------------------------
(* publish_with_recovery and publish_build. *)

Accept(b) ==
    /\ boot = "Up"
    /\ status[b] = "Active"
    /\ \A c \in Builds : PkgOf[c] = PkgOf[b] /\ PlatformOf[c] = PlatformOf[b]
                            => status[c] # "Publishing"
    /\ status' = [status EXCEPT ![b] = "Publishing"]
    /\ task' = [task EXCEPT ![b] = "Recover"]
    /\ UNCHANGED <<now, repository, pkgs, recorded, promoted, removing, boot, lock, budget>>

RecoverDone(b) ==
    /\ Held(Publisher(b), "Open")
    /\ task[b] = "Recover"
    /\ Release("Load")
    /\ UNCHANGED <<now, repository, tables, budget>>

\* What publish_build does next with the row it loaded; reading the staged
\* files comes before the lock.
AfterLoad(b) ==
    CASE status[b] = "Successful" -> IF b \in staging THEN "Promote" ELSE "None"
      [] status[b] = "Publishing" /\ b \in recorded -> "Settle"
      [] status[b] = "Publishing" /\ b \notin recorded ->
            IF PkgOf[b] \in pkgs /\ b \in staging /\ b \in Publishable THEN "Begin" ELSE "Fail"
      [] OTHER -> "None"

Load(b) ==
    /\ task[b] = "Load"
    /\ task' = [task EXCEPT ![b] = AfterLoad(b)]
    /\ IF status[b] = "Deleted" THEN DiscardStaging(b) ELSE UNCHANGED <<staging, links>>
    /\ UNCHANGED <<now, rows, planRow, disk, listing, next, retiredAt, listedAt, tables,
                   removing, boot, lock, budget>>

\* A file another package publishes is refused unless that package depends
\* on this one or is gone.
Conflicts(b) ==
    {n \in Produces[b] : /\ rows[n] \in pkgs \ {PkgOf[b]}
                         /\ <<rows[n], PkgOf[b]>> \notin DependsOn}

\* Mutant of Stale: what the package no longer produces stays published.
StaleKept(b) == {}

Stale(b) ==
    {n \in Names \ Produces[b] : rows[n] = PkgOf[b] /\ NamePlatform[n] = PlatformOf[b]}

\* Reading what is published, deciding and staging, with the lock held.
StageBuild(b) ==
    /\ Held(Publisher(b), "Open")
    /\ task[b] = "Begin"
    /\ IF Conflicts(b) # {}
       THEN /\ Release("Fail")
            /\ UNCHANGED <<links, next>>
       ELSE /\ Stage(b, Produces[b], Stale(b))
            /\ lock' = [lock EXCEPT !.step = "Commit",
                                    !.plan = PlanFor(b, Produces[b], Stale(b))]
            /\ task' = [task EXCEPT ![b] = "Update"]
            /\ UNCHANGED <<removing, boot>>
    /\ UNCHANGED <<now, rows, planRow, disk, listing, staging, retiredAt, listedAt, tables, budget>>

\* Mutant of RecordBuild: a build that left PUBLISHING is recorded all the same.
RecordBuildUnchecked(b) ==
    /\ recorded' = recorded \cup {b}
    /\ rows' = [n \in Names |-> IF n \in lock.plan.files THEN PkgOf[b]
                                ELSE IF n \in lock.plan.retired THEN Null ELSE rows[n]]
    /\ planRow' = lock.plan
    /\ UNCHANGED <<pkgs, status>>

\* record() and the plan row, in one transaction.
RecordBuild(b) ==
    /\ status[b] = "Publishing"
    /\ recorded' = recorded \cup {b}
    /\ rows' = [n \in Names |-> IF n \in lock.plan.files THEN PkgOf[b]
                                ELSE IF n \in lock.plan.retired THEN Null ELSE rows[n]]
    /\ planRow' = lock.plan
    /\ UNCHANGED <<pkgs, status>>

\* Mutant of Settle: the status moves with no look at the repository.
SettleEarly(b) ==
    /\ task[b] \in {"Update", "Settle"}
    /\ status' = [status EXCEPT ![b] = IF @ = "Publishing" /\ b \in recorded
                                       THEN "Successful" ELSE @]
    /\ task' = [task EXCEPT ![b] = IF @ = "Settle" THEN "Promote" ELSE @]
    /\ UNCHANGED <<now, repository, pkgs, recorded, promoted, removing, boot, lock, budget>>

\* A build that left PUBLISHING is left as it is.
Settle(b) ==
    /\ task[b] = "Settle"
    /\ status' = [status EXCEPT ![b] = IF @ = "Publishing" THEN "Successful" ELSE @]
    /\ task' = [task EXCEPT ![b] = "Promote"]
    /\ UNCHANGED <<now, repository, pkgs, recorded, promoted, removing, boot, lock, budget>>

Promote(b) ==
    /\ task[b] = "Promote"
    /\ promoted' = promoted \cup {b}
    /\ task' = [task EXCEPT ![b] = "Clean"]
    /\ UNCHANGED <<now, repository, pkgs, status, recorded, removing, boot, lock, budget>>

\* report_failure: when the row cannot be marked, the publication runs again.
Fail(b) ==
    /\ task[b] = "Fail"
    /\ \/ /\ status' = [status EXCEPT ![b] = IF @ = "Publishing" THEN "Failed" ELSE @]
          /\ task' = [task EXCEPT ![b] = "Clean"]
          /\ UNCHANGED budget
       \/ /\ Fault
          /\ task' = [task EXCEPT ![b] = "Recover"]
          /\ UNCHANGED status
    /\ UNCHANGED <<now, repository, pkgs, recorded, promoted, removing, boot, lock>>

Clean(b) ==
    /\ task[b] = "Clean"
    /\ task' = [task EXCEPT ![b] = "None"]
    /\ DiscardStaging(b)
    /\ UNCHANGED <<now, rows, planRow, disk, listing, next, retiredAt, listedAt, tables,
                   removing, boot, lock, budget>>

\* A database call fails: loading, settling and promoting are tried again.
StepFails(b) ==
    /\ Fault
    /\ task[b] \in {"Load", "Settle", "Promote"}
    /\ task' = [task EXCEPT ![b] = "Recover"]
    /\ UNCHANGED <<now, repository, tables, removing, boot, lock>>

----------------------------------------------------------------------------
(* package_delete. *)

RemovePackage(p) ==
    /\ boot = "Up"
    /\ p \in Removable \cap pkgs
    /\ removing[p] = "None"
    /\ removing' = [removing EXCEPT ![p] = "Begin"]
    /\ UNCHANGED <<now, repository, tables, task, boot, lock, budget>>

Needed(p) == \E q \in pkgs \ {p} : <<q, p>> \in DependsOn

StageRemoval(p) ==
    /\ Held(Remover(p), "Open")
    /\ IF Needed(p)
       THEN /\ Release("None")
            /\ UNCHANGED <<links, next>>
       ELSE LET files == {n \in Names : rows[n] = p}
            IN  /\ Stage(Null, {}, files)
                /\ lock' = [lock EXCEPT !.step = "Commit", !.plan = PlanFor(Null, {}, files)]
                /\ removing' = [removing EXCEPT ![p] = "Update"]
                /\ UNCHANGED <<task, boot>>
    /\ UNCHANGED <<now, rows, planRow, disk, listing, staging, retiredAt, listedAt, tables, budget>>

\* The plan row could not even be read.
NothingReplayed ==
    lock.step = "Replay" /\ lock.files = lock.plan.files /\ lock.dbs = lock.plan.dbs

\* Reading or staging fails before anything is committed: for good.
StageFails ==
    /\ lock # Null
    /\ lock.step = "Open" \/ NothingReplayed
    /\ \/ \E b \in Builds : lock.by = Publisher(b) /\ task[b] = "Begin"
       \/ \E p \in Pkgs : lock.by = Remover(p)
    /\ Fault
    /\ Release("Fail")
    /\ UNCHANGED <<now, repository, tables>>

\* delete_rows() and the plan row, in one transaction.
RecordRemoval(p) ==
    /\ rows' = [n \in Names |-> IF rows[n] = p THEN Null ELSE rows[n]]
    /\ status' = [b \in Builds |-> IF PkgOf[b] = p THEN "Deleted" ELSE status[b]]
    /\ pkgs' = pkgs \ {p}
    /\ planRow' = lock.plan
    /\ UNCHANGED recorded

----------------------------------------------------------------------------
(* Update::commit, for both. *)

Record(who) ==
    \/ \E b \in Builds : who = Publisher(b) /\ RecordBuild(b)
    \/ \E p \in Pkgs : who = Remover(p) /\ RecordRemoval(p)

Commits == lock # Null /\ lock.step = "Commit"

\* Including a COMMIT whose answer was lost and whose plan row was found.
Commit ==
    /\ Commits
    /\ Record(lock.by)
    /\ lock' = Finalizing(lock.by, "Finish", lock.plan)
    /\ UNCHANGED <<now, shelves, staging, retiredAt, listedAt, promoted,
                   task, removing, boot, budget>>

\* Nothing was committed: the build left PUBLISHING, or the database failed.
\* After the last attempt what was staged is removed and the caller told.
CommitFails ==
    /\ Commits
    /\ \/ Fault
       \/ /\ \E b \in Builds : lock.by = Publisher(b) /\ status[b] # "Publishing"
          /\ UNCHANGED budget
    /\ IF lock.attempt < CommitAttempts
       THEN /\ lock' = [lock EXCEPT !.attempt = @ + 1]
            /\ UNCHANGED <<links, next, task, removing, boot>>
       ELSE /\ Discard(lock.plan)
            /\ Release("Fail")
    /\ UNCHANGED <<now, rows, planRow, disk, listing, staging, retiredAt, listedAt, tables>>

\* The answer to the COMMIT is lost and the plan row cannot be read back:
\* it may have been committed or not, and everything staged is kept.
CommitUnknown ==
    /\ Commits
    /\ Fault
    /\ \/ Record(lock.by)
       \/ UNCHANGED <<rows, planRow, pkgs, status, recorded>>
    /\ Release("Recover")
    /\ UNCHANGED <<now, shelves, staging, retiredAt, listedAt, promoted>>

----------------------------------------------------------------------------
(* The sweep, an operator's deletion, the clock, a crash and the start.     *)

Sweep ==
    /\ Held(Sweeper, "Open")
    /\ SweepRetired
    /\ lock' = Null
    /\ UNCHANGED <<now, rows, planRow, staging, listedAt, tables, task, removing, boot, budget>>

\* A row may be deleted while it publishes: see DeleteRace of BuildQueue.
DeleteBuild(b) ==
    /\ boot = "Up"
    /\ b \in Deletable
    /\ status[b] \in {"Publishing", "Successful", "Failed"}
    /\ status' = [status EXCEPT ![b] = "Deleted"]
    /\ UNCHANGED <<now, repository, pkgs, recorded, promoted, task, removing, boot,
                   lock, budget>>

BootDone ==
    /\ Held(Boot, "Open")
    /\ Release("None")
    /\ UNCHANGED <<now, repository, tables, budget>>

\* Mutant of Interrupted: only builds still PUBLISHING are resumed.
InterruptedPublishing == {b \in Builds : status[b] = "Publishing"}

\* Mutant of Interrupted: a recorded build is taken for a published one.
InterruptedUnrecorded ==
    {b \in Builds \ recorded : status[b] = "Publishing"}

Interrupted ==
    {b \in Builds : status[b] = "Publishing" \/ (status[b] = "Successful" /\ b \in staging)}

Resume ==
    /\ boot = "Resume"
    /\ boot' = "Up"
    /\ \/ /\ task' = [b \in Builds |-> IF b \in Interrupted THEN "Recover" ELSE task[b]]
          /\ UNCHANGED budget
       \/ /\ resumeFaults < MaxResumeFaults
          /\ resumeFaults' = resumeFaults + 1
          /\ UNCHANGED <<task, faults, crashes>>
    /\ UNCHANGED <<now, repository, tables, removing, lock>>

Crash ==
    /\ crashes < MaxCrashes
    /\ crashes' = crashes + 1
    /\ lock' = Null
    /\ task' = [b \in Builds |-> "None"]
    /\ removing' = [p \in Pkgs |-> "None"]
    /\ retiredAt' = [n \in Names |-> Null]
    /\ boot' = "Recover"
    /\ UNCHANGED <<now, rows, planRow, shelves, staging, listedAt, tables, faults, resumeFaults>>

Tick ==
    /\ now < MaxTime
    /\ now' = now + 1
    /\ UNCHANGED <<repository, tables, task, removing, boot, lock, budget>>

----------------------------------------------------------------------------

Init ==
    /\ now = 0
    /\ rows = [n \in Names |-> Null]
    /\ planRow = Null
    /\ disk = [n \in Names |-> Null]
    /\ listing = [pl \in Platforms |-> [d \in Dirs |-> Null]]
    /\ links = {}
    /\ next = [pl \in Platforms |-> Null]
    /\ staging = Builds
    /\ retiredAt = [n \in Names |-> Null]
    /\ listedAt = [n \in Names |-> Null]
    /\ pkgs = Pkgs
    /\ status = [b \in Builds |-> "Active"]
    /\ recorded = {}
    /\ promoted = {}
    /\ task = [b \in Builds |-> "None"]
    /\ removing = [p \in Pkgs |-> "None"]
    /\ boot = "Up"
    /\ lock = Null
    /\ faults = 0
    /\ resumeFaults = 0
    /\ crashes = 0

PublishStep(b) ==
    \/ RecoverDone(b) \/ Load(b) \/ StageBuild(b)
    \/ Settle(b) \/ Promote(b) \/ Fail(b) \/ Clean(b)

UpdateStep ==
    \/ FinishFile \/ FinishDatabase \/ FinishPlan \/ FinishFails
    \/ StageFails \/ Commit \/ CommitFails \/ CommitUnknown

ServerStep == Sweep \/ BootDone \/ Resume

Next ==
    \/ \E who \in Processes : TakeLock(who)
    \/ UpdateStep
    \/ ServerStep
    \/ \E b \in Builds : Accept(b) \/ PublishStep(b) \/ StepFails(b) \/ DeleteBuild(b)
    \/ \E p \in Pkgs : RemovePackage(p) \/ StageRemoval(p)
    \/ Crash
    \/ Tick

Spec == Init /\ [][Next]_vars

\* Every task is polled until it ends, and the lock is handed out in the
\* order it was asked for (tokio::sync::Mutex): nobody waits for it for ever.
Fairness ==
    /\ \A who \in Processes : SF_vars(TakeLock(who))
    /\ WF_vars(UpdateStep)
    /\ WF_vars(ServerStep)
    /\ \A b \in Builds : WF_vars(PublishStep(b))
    /\ \A p \in Pkgs : WF_vars(StageRemoval(p))

LiveSpec == Spec /\ Fairness

----------------------------------------------------------------------------
(* Properties. *)

Tasks == {"None", "Recover", "Load", "Begin", "Update", "Settle", "Promote", "Fail", "Clean"}

TablesOK ==
    /\ pkgs \subseteq Pkgs
    /\ status \in [Builds -> {"Active", "Publishing", "Successful", "Failed", "Deleted"}]
    /\ recorded \subseteq Builds
    /\ promoted \subseteq Builds

ProcessesOK ==
    /\ task \in [Builds -> Tasks]
    /\ removing \in [Pkgs -> {"None", "Begin", "Update"}]
    /\ boot \in {"Recover", "Resume", "Up"}
    /\ lock \in Lock \cup {Null}
    /\ faults \in Nat /\ resumeFaults \in Nat /\ crashes \in Nat

\* Every row, file, task and the lock hold a value of their kind.
TypeOK == now \in 0..MaxTime /\ RepositoryOK /\ TablesOK /\ ProcessesOK

\* What repo.db and a file will be once the recorded plan is carried out.
Effective(pl) ==
    IF planRow # Null /\ pl \in planRow.dbs /\ next[pl] # Null THEN next[pl] ELSE listing[pl]

Contents(n) ==
    IF planRow # Null /\ n \in planRow.files /\ <<planRow.build, n>> \in links
    THEN planRow.build ELSE disk[n]

\* At every moment, whatever failed or crashed, replaying the recorded plan
\* leaves the databases listing exactly the files the files table has, each
\* entry describing the file that will be there: the "three things kept in
\* step" of Update's lock.
KeptInStep ==
    \A n \in Names :
        LET db == Effective(NamePlatform[n])
        IN  /\ rows[n] # Null <=> ListedIn(db, n)
            /\ ListedIn(db, n) => db[EntryDir[n]].build = Contents(n)

\* No client is sent to a file that is not there: "a database never lists a
\* file that is not there yet" (Finalization::stage), and no sweep or cleanup
\* takes one that is listed or that a recorded plan still has to move.
ListedFilesExist == \A n \in Names : Listed(n) => disk[n] # Null

\* The files table names no package that is gone: a build whose package was
\* removed while it was read or staged is never recorded.
OwnersExist == \A n \in Names : rows[n] # Null => rows[n] \in pkgs

\* A build becomes SUCCESSFUL only when what it produced, as far as its
\* package still publishes it, can be downloaded (settle).
SuccessfulIsServed ==
    [][\A b \in Builds : status[b] = "Publishing" /\ status'[b] = "Successful"
          => \A n \in Produces[b] : rows[n] = PkgOf[b] => Listed(n) /\ disk[n] = b]_vars

\* A file leaves the disk only when no database has listed it for the grace
\* period, restarts included (Repository::sweep).
SweptAfterGrace ==
    [][\A n \in Names : disk[n] # Null /\ disk'[n] = Null
          => ~Listed(n) /\ (listedAt[n] # Null => now - listedAt[n] >= Grace)]_vars

\* For every file, the package that publishes it and the build it is from.
CatalogueNow ==
    [n \in Names |->
        [owner |-> rows[n],
         build |-> LET db == Effective(NamePlatform[n])
                   IN  IF ListedIn(db, n) THEN db[EntryDir[n]].build ELSE Null]]

PlatformFiles == [b \in Builds |-> {n \in Names : NamePlatform[n] = PlatformOf[b]}]

Publications == INSTANCE Catalogue WITH Nobody <- Null, catalogue <- CatalogueNow

\* However renames, commits, replays and crashes fall, a client that waits
\* for the recorded plan sees each update happen in one step.
CatalogueSpec == Publications!Spec

\* An accepted build does not stay PUBLISHING, where nobody can cancel or
\* rebuild it: publication is retried, and resumed after a restart.
PublishingSettles ==
    \A b \in Builds : status[b] = "Publishing" ~> status[b] # "Publishing"

\* The builds waiting on a published one are looked at after it settled,
\* even if the server died in between: nothing else would ever promote them.
DependentsPromoted ==
    \A b \in Builds : status[b] = "Successful" ~> b \in promoted \/ status[b] = "Deleted"

============================================================================
