------------------------- MODULE PublicationProofs -------------------------
(***************************************************************************)
(* Publishing is type correct, and the invariant about the lock, the plan  *)
(* and the tasks that the theorems of PublicationSafety rest on.           *)
(***************************************************************************)
EXTENDS Publication, TLAPS

----------------------------------------------------------------------------
(* What the operators of Repository do to the types. *)

LEMMA UpdatedDatabaseType ==
  ASSUME RepositoryOK, NEW pl \in Platforms, NEW b \in Builds \cup {Null},
         NEW add \in SUBSET Names, NEW retire \in SUBSET Names,
         add # {} => b \in Builds
  PROVE  UpdatedDatabase(pl, b, add, retire) \in Database
<1> DEFINE at(S, d) == {n \in S : NamePlatform[n] = pl /\ EntryDir[n] = d}
<1>1. ASSUME NEW d \in Dirs, at(add, d) # {}
      PROVE  [name |-> CHOOSE n \in at(add, d) : TRUE, build |-> b] \in Entry
  BY <1>1 DEF Entry
<1>2. \A d \in Dirs : listing[pl][d] \in Entry \cup {Null}
  BY DEF RepositoryOK, Database
<1> QED
  BY <1>1, <1>2 DEF UpdatedDatabase, Database

LEMMA PlanForType ==
  ASSUME NEW b \in Builds \cup {Null}, NEW add \in SUBSET Names, NEW retire \in SUBSET Names
  PROVE  PlanFor(b, add, retire) \in Plan /\ PlanFor(b, add, retire) # Null
BY RepositoryAssumption, NullAssumption DEF PlanFor, Plan

LEMMA StageType ==
  ASSUME RepositoryOK, NEW b \in Builds \cup {Null},
         NEW add \in SUBSET Names, NEW retire \in SUBSET Names,
         add # {} => b \in Builds, Stage(b, add, retire)
  PROVE  links' \subseteq Builds \X Names /\ next' \in [Platforms -> Database \cup {Null}]
<1>1. {<<b, n>> : n \in add} \subseteq Builds \X Names
  OBVIOUS
<1>2. \A pl \in Platforms : UpdatedDatabase(pl, b, add, retire) \in Database
  BY UpdatedDatabaseType
<1> QED
  BY <1>1, <1>2 DEF Stage, RepositoryOK

LEMMA MoveFileType ==
  ASSUME RepositoryOK, NEW plan \in Plan, NEW n \in Names, MoveFile(plan, n)
  PROVE  /\ disk' \in [Names -> Builds \cup {Null}]
         /\ links' \subseteq Builds \X Names
<1>1. CASE <<plan.build, n>> \in links
  <2>1. plan.build \in Builds
    BY <1>1 DEF RepositoryOK
  <2> QED
    BY <1>1, <2>1 DEF MoveFile, RepositoryOK
<1>2. CASE <<plan.build, n>> \notin links
  BY <1>2 DEF MoveFile, RepositoryOK
<1> QED
  BY <1>1, <1>2

LEMMA MoveDatabaseType ==
  ASSUME RepositoryOK, now \in Nat, NEW pl \in Platforms, MoveDatabase(pl)
  PROVE  /\ listing' \in [Platforms -> Database]
         /\ next' \in [Platforms -> Database \cup {Null}]
         /\ listedAt' \in [Names -> Nat \cup {Null}]
BY DEF MoveDatabase, RepositoryOK

LEMMA SweepType ==
  ASSUME RepositoryOK, now \in Nat, SweepRetired
  PROVE  /\ disk' \in [Names -> Builds \cup {Null}]
         /\ retiredAt' \in [Names -> Nat \cup {Null}]
<1>1. \A n \in Names : Since(n) \in Nat
  BY DEF Since, RepositoryOK
<1> QED
  BY <1>1 DEF SweepRetired, RepositoryOK

----------------------------------------------------------------------------
(* The lock and the tasks. *)

\* Whoever is past opening an update, or replays one, has its plan.
PlanHeld == lock # Null /\ lock.step # "Open" => lock.plan # Null

Types == TypeOK /\ PlanHeld

LEMMA ProcessNames ==
  /\ \A b, c \in Builds : Publisher(b) = Publisher(c) => b = c
  /\ \A p, q \in Pkgs : Remover(p) = Remover(q) => p = q
  /\ \A b \in Builds, p \in Pkgs : Publisher(b) # Remover(p)
  /\ \A b \in Builds : Publisher(b) # Sweeper /\ Publisher(b) # Boot
  /\ \A p \in Pkgs : Remover(p) # Sweeper /\ Remover(p) # Boot
  /\ Sweeper # Boot
BY DEF Publisher, Remover, Sweeper, Boot

LEMMA FinalizingType ==
  ASSUME NEW who \in Processes, NEW step \in Steps, NEW plan \in Plan
  PROVE  /\ Finalizing(who, step, plan) \in Lock
         /\ Finalizing(who, step, plan).by = who
         /\ Finalizing(who, step, plan).step = step
         /\ Finalizing(who, step, plan).plan = plan
         /\ Finalizing(who, step, plan).files = plan.files
         /\ Finalizing(who, step, plan).dbs = plan.dbs
BY DEF Finalizing, Lock, Plan

LEMMA OpenType ==
  ASSUME NEW who \in Processes
  PROVE  LET open == [Finalizing(who, "Open", NoPlan) EXCEPT !.plan = Null]
         IN  open \in Lock /\ open.step = "Open" /\ open.by = who
BY DEF Finalizing, Lock, NoPlan, Steps

LEMMA ReleaseType ==
  ASSUME ProcessesOK, NEW then \in Tasks, Release(then)
  PROVE  /\ task' \in [Builds -> Tasks]
         /\ removing' \in [Pkgs -> {"None", "Begin", "Update"}]
         /\ boot' \in {"Recover", "Resume", "Up"}
         /\ lock' = Null
BY DEF ProcessesOK, Release

LEMMA FaultType ==
  ASSUME ProcessesOK, Fault
  PROVE  faults' \in Nat /\ resumeFaults' \in Nat /\ crashes' \in Nat
BY DEF ProcessesOK, Fault

LEMMA RecordType ==
  ASSUME RepositoryOK, TablesOK, NEW who \in Processes, Record(who), lock.plan \in Plan
  PROVE  /\ rows' \in [Names -> Pkgs \cup {Null}]
         /\ planRow' = lock.plan
         /\ pkgs' \subseteq Pkgs
         /\ status' \in [Builds -> {"Active", "Publishing", "Successful", "Failed", "Deleted"}]
         /\ recorded' \subseteq Builds
<1>1. ASSUME NEW b \in Builds, RecordBuild(b)
      PROVE  /\ rows' \in [Names -> Pkgs \cup {Null}]
             /\ planRow' = lock.plan
             /\ pkgs' \subseteq Pkgs
             /\ status' \in [Builds -> {"Active", "Publishing", "Successful", "Failed", "Deleted"}]
             /\ recorded' \subseteq Builds
  BY <1>1, PublicationAssumption DEF RecordBuild, RepositoryOK, TablesOK
<1>2. ASSUME NEW p \in Pkgs, RecordRemoval(p)
      PROVE  /\ rows' \in [Names -> Pkgs \cup {Null}]
             /\ planRow' = lock.plan
             /\ pkgs' \subseteq Pkgs
             /\ status' \in [Builds -> {"Active", "Publishing", "Successful", "Failed", "Deleted"}]
             /\ recorded' \subseteq Builds
  BY <1>2 DEF RecordRemoval, RepositoryOK, TablesOK
<1> QED
  BY <1>1, <1>2 DEF Record

----------------------------------------------------------------------------
(* Type correctness. *)

LEMMA InitTypes == Init => Types
<1> SUFFICES ASSUME Init PROVE Types
  OBVIOUS
<1>1. RepositoryOK
  BY NullAssumption DEF Init, RepositoryOK, Database
<1>2. TablesOK
  BY DEF Init, TablesOK
<1>3. ProcessesOK
  BY DEF Init, ProcessesOK, Tasks
<1>4. now \in 0..MaxTime /\ PlanHeld
  BY PublicationAssumption DEF Init, PlanHeld
<1> QED
  BY <1>1, <1>2, <1>3, <1>4 DEF Types, TypeOK

LEMMA TakeLockTypes ==
  ASSUME Types, NEW who \in Processes, TakeLock(who)
  PROVE  Types'
<1> USE DEF Types, TypeOK
<1>1. RepositoryOK' /\ TablesOK' /\ now' \in 0..MaxTime
  BY DEF TakeLock, RepositoryOK, TablesOK, repository, shelves, tables
<1>2. CASE planRow # Null
  <2>1. planRow \in Plan /\ "Replay" \in Steps
    BY <1>2 DEF RepositoryOK, Steps
  <2>2. lock' \in Lock /\ lock'.plan # Null
    BY <1>2, <2>1, FinalizingType DEF TakeLock
  <2> QED
    BY <1>1, <2>2 DEF TakeLock, ProcessesOK, PlanHeld, budget
<1>3. CASE planRow = Null
  <2>1. lock' \in Lock /\ lock'.step = "Open"
    BY <1>3, OpenType DEF TakeLock
  <2> QED
    BY <1>1, <2>1 DEF TakeLock, ProcessesOK, PlanHeld, budget
<1> QED
  BY <1>2, <1>3

\* Leaving the lock with nothing else changed but the counters.
LEMMA ReleaseTypes ==
  ASSUME Types, NEW then \in Tasks, Release(then),
         RepositoryOK', TablesOK', now' = now,
         faults' \in Nat /\ resumeFaults' \in Nat /\ crashes' \in Nat
  PROVE  Types'
BY ReleaseType DEF Types, TypeOK, ProcessesOK, PlanHeld

LEMMA SameTables == ASSUME TablesOK, UNCHANGED tables PROVE TablesOK'
BY DEF TablesOK, tables

LEMMA SameRepository == ASSUME RepositoryOK, UNCHANGED repository PROVE RepositoryOK'
BY DEF RepositoryOK, repository, shelves

LEMMA MovesTypes ==
  ASSUME Types, FinishFile \/ FinishDatabase
  PROVE  Types'
<1> USE DEF Types, TypeOK
<1>1. lock \in Lock /\ lock.plan \in Plan
  BY DEF FinishFile, FinishDatabase, Moving, PlanHeld, ProcessesOK, Lock
<1>2. now \in Nat /\ TablesOK' /\ now' \in 0..MaxTime
  BY PublicationAssumption, SameTables DEF FinishFile, FinishDatabase
<1>3. CASE FinishFile
  <2>1. PICK n \in lock.files : /\ MoveFile(lock.plan, n)
                               /\ lock' = [lock EXCEPT !.files = @ \ {n}]
    BY <1>3 DEF FinishFile
  <2>2. lock' \in Lock /\ lock'.plan = lock.plan /\ lock'.step = lock.step
    BY <1>1, <2>1 DEF Lock
  <2>3. n \in Names
    BY <1>1, <2>1 DEF Lock
  <2>4. RepositoryOK'
    BY <1>1, <1>3, <2>1, <2>3, MoveFileType DEF FinishFile, MoveFile, RepositoryOK
  <2> QED
    BY <1>2, <1>3, <2>2, <2>4 DEF FinishFile, Moving, ProcessesOK, PlanHeld, budget
<1>4. CASE FinishDatabase
  <2>1. PICK pl \in lock.dbs : /\ MoveDatabase(pl)
                              /\ lock' = [lock EXCEPT !.dbs = @ \ {pl}]
    BY <1>4 DEF FinishDatabase
  <2>2. lock' \in Lock /\ lock'.plan = lock.plan /\ lock'.step = lock.step
    BY <1>1, <2>1 DEF Lock
  <2>3. pl \in Platforms
    BY <1>1, <2>1 DEF Lock
  <2>4. RepositoryOK'
    BY <1>2, <1>4, <2>1, <2>3, MoveDatabaseType DEF FinishDatabase, MoveDatabase, RepositoryOK
  <2> QED
    BY <1>2, <1>4, <2>2, <2>4 DEF FinishDatabase, Moving, ProcessesOK, PlanHeld, budget
<1> QED
  BY <1>3, <1>4

LEMMA FinishPlanTypes ==
  ASSUME Types, FinishPlan
  PROVE  Types'
<1> USE DEF Types, TypeOK
<1>1. lock \in Lock /\ now \in Nat
  BY PublicationAssumption DEF FinishPlan, Moving, ProcessesOK
<1>2. RepositoryOK'
  BY <1>1 DEF FinishPlan, NoteRetired, RepositoryOK, shelves
<1>3. TablesOK' /\ now' \in 0..MaxTime
  BY SameTables DEF FinishPlan
<1>4. CASE lock.step = "Replay"
  <2>1. lock' \in Lock /\ lock'.step = "Open"
    BY <1>1, <1>4 DEF FinishPlan, Lock, Steps
  <2> QED
    BY <1>2, <1>3, <1>4, <2>1 DEF FinishPlan, ProcessesOK, PlanHeld, budget
<1>5. CASE lock.step # "Replay"
  BY <1>2, <1>3, <1>5, ReleaseTypes DEF FinishPlan, Tasks, ProcessesOK, budget
<1> QED
  BY <1>4, <1>5

\* The steps that only leave the lock.
LEMMA LeaveTypes ==
  ASSUME Types,
         \/ FinishFails \/ StageFails \/ BootDone
         \/ \E b \in Builds : RecoverDone(b)
  PROVE  Types'
<1> USE DEF Types, TypeOK
<1>1. RepositoryOK' /\ TablesOK' /\ now' = now
  BY SameTables, SameRepository DEF FinishFails, StageFails, BootDone, RecoverDone
<1>2. faults' \in Nat /\ resumeFaults' \in Nat /\ crashes' \in Nat
  BY FaultType DEF FinishFails, StageFails, BootDone, RecoverDone, budget, ProcessesOK
<1>3. \E then \in Tasks : Release(then)
  BY DEF FinishFails, StageFails, BootDone, RecoverDone, Tasks
<1> QED
  BY <1>1, <1>2, <1>3, ReleaseTypes

\* The steps of a publication outside the lock.
LEMMA TaskTypes ==
  ASSUME Types, NEW b \in Builds,
         \/ Accept(b) \/ Load(b) \/ Settle(b) \/ Promote(b) \/ Fail(b)
         \/ Clean(b) \/ StepFails(b) \/ DeleteBuild(b)
  PROVE  Types'
<1> USE DEF Types, TypeOK
<1>1. RepositoryOK'
  BY DEF Accept, Load, Settle, Promote, Fail, Clean, StepFails, DeleteBuild,
         DiscardStaging, RepositoryOK, repository, shelves
<1>2. TablesOK'
  BY DEF Accept, Load, Settle, Promote, Fail, Clean, StepFails, DeleteBuild, TablesOK, tables
<1>3. now' = now /\ UNCHANGED <<removing, boot, lock>>
  BY DEF Accept, Load, Settle, Promote, Fail, Clean, StepFails, DeleteBuild
<1>4. faults' \in Nat /\ resumeFaults' \in Nat /\ crashes' \in Nat
  BY FaultType
     DEF Accept, Load, Settle, Promote, Fail, Clean, StepFails, DeleteBuild, budget, ProcessesOK
<1>5. AfterLoad(b) \in Tasks
  BY DEF AfterLoad, Tasks
<1>6. task' \in [Builds -> Tasks]
  BY <1>5 DEF Accept, Load, Settle, Promote, Fail, Clean, StepFails, DeleteBuild, Tasks, ProcessesOK
<1> QED
  BY <1>1, <1>2, <1>3, <1>4, <1>6 DEF ProcessesOK, PlanHeld

LEMMA StageBuildTypes ==
  ASSUME Types, NEW b \in Builds, StageBuild(b)
  PROVE  Types'
<1> USE DEF Types, TypeOK
<1>1. TablesOK' /\ now' = now /\ lock \in Lock /\ UNCHANGED budget
  BY SameTables DEF StageBuild, Held, ProcessesOK
<1>2. CASE Conflicts(b) # {}
  <2>1. RepositoryOK' /\ Release("Fail")
    BY <1>2 DEF StageBuild, RepositoryOK
  <2> QED
    BY <1>1, <2>1, ReleaseTypes DEF Tasks, ProcessesOK, budget
<1>3. CASE Conflicts(b) = {}
  <2>1. Produces[b] \in SUBSET Names /\ Stale(b) \in SUBSET Names
    BY PublicationAssumption DEF Stale
  <2>2. RepositoryOK'
    BY <1>3, <2>1, StageType DEF StageBuild, RepositoryOK
  <2>3. lock' \in Lock /\ lock'.plan # Null
    <3> DEFINE plan == PlanFor(b, Produces[b], Stale(b))
    <3>1. plan \in Plan /\ plan # Null
      BY <2>1, PlanForType
    <3>2. lock' = [lock EXCEPT !.step = "Commit", !.plan = plan]
      BY <1>3 DEF StageBuild
    <3> QED
      BY <1>1, <3>1, <3>2 DEF Lock, Steps
  <2> QED
    BY <1>1, <1>3, <2>2, <2>3 DEF StageBuild, ProcessesOK, PlanHeld, Tasks, budget
<1> QED
  BY <1>2, <1>3

LEMMA RemoverTypes ==
  ASSUME Types, NEW p \in Pkgs, RemovePackage(p) \/ StageRemoval(p)
  PROVE  Types'
<1> USE DEF Types, TypeOK
<1>1. TablesOK' /\ now' = now /\ UNCHANGED budget
  BY SameTables DEF StageRemoval, RemovePackage
<1>2. CASE RemovePackage(p)
  BY <1>1, <1>2, SameRepository DEF RemovePackage, ProcessesOK, PlanHeld, budget
<1>3. CASE StageRemoval(p) /\ Needed(p)
  <2>1. RepositoryOK' /\ Release("None")
    BY <1>3 DEF StageRemoval, RepositoryOK
  <2> QED
    BY <1>1, <2>1, ReleaseTypes DEF Tasks, ProcessesOK, budget
<1>4. CASE StageRemoval(p) /\ ~Needed(p)
  <2> DEFINE files == {n \in Names : rows[n] = p}
  <2>1. Stage(Null, {}, files) /\ lock \in Lock
    BY <1>4 DEF StageRemoval, Held, ProcessesOK
  <2>2. RepositoryOK'
    BY <1>4, <2>1, StageType DEF StageRemoval, RepositoryOK
  <2>3. lock' \in Lock /\ lock'.plan # Null
    <3>1. PlanFor(Null, {}, files) \in Plan /\ PlanFor(Null, {}, files) # Null
      BY PlanForType
    <3>2. lock' = [lock EXCEPT !.step = "Commit", !.plan = PlanFor(Null, {}, files)]
      BY <1>4 DEF StageRemoval
    <3> QED
      BY <2>1, <3>1, <3>2 DEF Lock, Steps
  <2> QED
    BY <1>1, <1>4, <2>2, <2>3 DEF StageRemoval, ProcessesOK, PlanHeld, budget
<1> QED
  BY <1>2, <1>3, <1>4

LEMMA CommitTypes ==
  ASSUME Types, Commit
  PROVE  Types'
<1> USE DEF Types, TypeOK
<1>1. lock \in Lock /\ lock.plan \in Plan /\ lock.plan # Null /\ lock.by \in Processes
  BY DEF Commit, Commits, PlanHeld, ProcessesOK, Lock
<1>2. RepositoryOK' /\ TablesOK'
  BY <1>1, RecordType DEF Commit, RepositoryOK, TablesOK, shelves
<1>3. lock' \in Lock /\ lock'.plan # Null
  BY <1>1, FinalizingType DEF Commit, Steps
<1> QED
  BY <1>2, <1>3 DEF Commit, ProcessesOK, PlanHeld, budget

LEMMA CommitFailsTypes ==
  ASSUME Types, CommitFails
  PROVE  Types'
<1> USE DEF Types, TypeOK
<1>1. /\ lock \in Lock /\ lock.plan # Null /\ lock.plan \in Plan
      /\ TablesOK' /\ now' = now
  BY SameTables DEF CommitFails, Commits, PlanHeld, ProcessesOK, Lock
<1>2. faults' \in Nat /\ resumeFaults' \in Nat /\ crashes' \in Nat
  BY FaultType DEF CommitFails, budget, ProcessesOK
<1>3. CASE lock.attempt < CommitAttempts
  <2>1. lock' \in Lock /\ lock'.plan # Null
    BY <1>1, <1>3 DEF CommitFails, Lock
  <2>2. RepositoryOK'
    BY <1>3 DEF CommitFails, RepositoryOK
  <2> QED
    BY <1>1, <1>2, <1>3, <2>1, <2>2 DEF CommitFails, ProcessesOK, PlanHeld
<1>4. CASE ~(lock.attempt < CommitAttempts)
  <2>1. RepositoryOK' /\ Release("Fail")
    BY <1>4 DEF CommitFails, Discard, RepositoryOK
  <2> QED
    BY <1>1, <1>2, <2>1, ReleaseTypes DEF Tasks
<1> QED
  BY <1>3, <1>4

LEMMA CommitUnknownTypes ==
  ASSUME Types, CommitUnknown
  PROVE  Types'
<1> USE DEF Types, TypeOK
<1>1. lock \in Lock /\ lock.plan \in Plan /\ lock.by \in Processes /\ now' = now
  BY DEF CommitUnknown, Commits, PlanHeld, ProcessesOK, Lock
<1>2. faults' \in Nat /\ resumeFaults' \in Nat /\ crashes' \in Nat
  BY FaultType DEF CommitUnknown
<1>3. RepositoryOK' /\ TablesOK'
  BY <1>1, RecordType DEF CommitUnknown, RepositoryOK, TablesOK, shelves
<1> QED
  BY <1>1, <1>2, <1>3, ReleaseTypes DEF CommitUnknown, Tasks

\* The sweep, the start, a crash and the clock.
LEMMA ServerTypes ==
  ASSUME Types, Sweep \/ Resume \/ Crash \/ Tick
  PROVE  Types'
<1> USE DEF Types, TypeOK
<1>1. TablesOK'
  BY SameTables DEF Sweep, Resume, Crash, Tick
<1>2. now \in Nat /\ now' \in 0..MaxTime
  BY PublicationAssumption DEF Sweep, Resume, Crash, Tick
<1>3. CASE Sweep
  <2>1. RepositoryOK'
    BY <1>2, <1>3, SweepType DEF Sweep, SweepRetired, RepositoryOK
  <2> QED
    BY <1>1, <1>2, <1>3, <2>1 DEF Sweep, ProcessesOK, PlanHeld, budget
<1>4. CASE Resume
  <2>1. RepositoryOK'
    BY <1>4, SameRepository DEF Resume
  <2> QED
    BY <1>1, <1>2, <1>4, <2>1 DEF Resume, ProcessesOK, PlanHeld, Tasks, budget
<1>5. CASE Crash
  <2>1. RepositoryOK'
    BY <1>5 DEF Crash, RepositoryOK, shelves
  <2> QED
    BY <1>1, <1>2, <1>5, <2>1 DEF Crash, ProcessesOK, PlanHeld, Tasks
<1>6. CASE Tick
  BY <1>1, <1>2, <1>6, SameRepository DEF Tick, ProcessesOK, PlanHeld, budget
<1> QED
  BY <1>3, <1>4, <1>5, <1>6

LEMMA NextTypes == Types /\ [Next]_vars => Types'
<1> SUFFICES ASSUME Types, [Next]_vars PROVE Types'
  OBVIOUS
<1>1. CASE UNCHANGED vars
  BY <1>1, SameTables, SameRepository
     DEF vars, Types, TypeOK, ProcessesOK, PlanHeld, budget
<1>2. CASE \E who \in Processes : TakeLock(who)
  BY <1>2, TakeLockTypes
<1>3. CASE UpdateStep
  BY <1>3, MovesTypes, FinishPlanTypes, LeaveTypes, CommitTypes, CommitFailsTypes,
     CommitUnknownTypes DEF UpdateStep
<1>4. CASE ServerStep \/ Crash \/ Tick
  BY <1>4, ServerTypes, LeaveTypes DEF ServerStep
<1>5. CASE \E b \in Builds : Accept(b) \/ PublishStep(b) \/ StepFails(b) \/ DeleteBuild(b)
  BY <1>5, TaskTypes, StageBuildTypes, LeaveTypes DEF PublishStep
<1>6. CASE \E p \in Pkgs : RemovePackage(p) \/ StageRemoval(p)
  BY <1>6, RemoverTypes
<1> QED
  BY <1>1, <1>2, <1>3, <1>4, <1>5, <1>6 DEF Next

\* The types, with the fact they need: a lock past its opening has a plan.
THEOREM TypesInvariant == Spec => []Types
BY InitTypes, NextTypes, PTL DEF Spec

\* Every row, every file and database on disk, every task and the lock keep
\* their kind, whatever updates, failures, replays and crashes interleave.
THEOREM PublicationTypes == Spec => []TypeOK
<1>1. Types => TypeOK
  BY DEF Types
<1> QED
  BY <1>1, TypesInvariant, PTL

----------------------------------------------------------------------------
(* The lock, the plan and the tasks in step. *)

\* An update never starts while an earlier one is recorded, and whoever
\* moves files carries out the recorded plan.
PlanInStep ==
    lock # Null => planRow = IF lock.step \in {"Replay", "Finish"} THEN lock.plan ELSE Null

\* What the holder need not move any more is not staged any more.
MovesDone ==
    Moving =>
        /\ lock.files \subseteq lock.plan.files
        /\ lock.dbs \subseteq lock.plan.dbs
        /\ \A n \in lock.plan.files \ lock.files : <<lock.plan.build, n>> \notin links
        /\ \A pl \in lock.plan.dbs \ lock.dbs : next[pl] = Null

\* Where a publication is while its process holds the lock or its plan is
\* recorded: in particular not where it would discard its staging directory.
TasksInStep ==
    /\ \A b \in Builds : status[b] = "Active" => task[b] = "None"
    /\ boot # "Up" => \A b \in Builds : task[b] = "None"
    /\ lock # Null /\ lock.by = Boot => boot = "Recover"
    /\ \A b \in Builds : lock # Null /\ lock.by = Publisher(b) =>
          task[b] \in IF lock.step \in {"Commit", "Finish"} THEN {"Update"}
                      ELSE {"Recover", "Begin"}
    /\ \A b \in Builds : planRow # Null /\ planRow.build = b =>
          task[b] \in {"None", "Recover", "Update"}

FilesOf(p) == {n \in Names : rows[n] = p}

Staged(b, add, retire) ==
    /\ lock.plan = PlanFor(b, add, retire)
    /\ \A n \in add : <<b, n>> \in links
    /\ \A pl \in lock.plan.dbs : next[pl] = UpdatedDatabase(pl, b, add, retire)

\* What is about to be committed was staged from what is there now.
StagedInStep ==
    lock # Null /\ lock.step = "Commit" =>
        \/ \E b \in Builds : lock.by = Publisher(b) /\ Staged(b, Produces[b], Stale(b))
        \/ \E p \in Pkgs : lock.by = Remover(p) /\ Staged(Null, {}, FilesOf(p))

\* A file belongs to a package one of whose builds produces it, and a
\* package that is gone has no builds.
OwnersProduce ==
    \A n \in Names : rows[n] # Null =>
        \E b \in Builds : PkgOf[b] = rows[n] /\ n \in Produces[b]

BuildsGone == \A b \in Builds : PkgOf[b] \notin pkgs => status[b] = "Deleted"

Inv ==
    /\ Types
    /\ PlanInStep
    /\ MovesDone
    /\ TasksInStep
    /\ StagedInStep
    /\ OwnersProduce
    /\ BuildsGone

LEMMA InitInv == Init => Inv
<1> SUFFICES ASSUME Init PROVE Inv
  OBVIOUS
<1>1. Types
  BY InitTypes
<1>2. PlanInStep /\ MovesDone /\ StagedInStep
  BY DEF Init, PlanInStep, MovesDone, Moving, StagedInStep
<1>3. TasksInStep /\ OwnersProduce
  BY DEF Init, TasksInStep, OwnersProduce
<1>4. BuildsGone
  BY PublicationAssumption DEF Init, BuildsGone
<1> QED
  BY <1>1, <1>2, <1>3, <1>4 DEF Inv

----------------------------------------------------------------------------
(* Leaving the lock. *)

\* What is left to show of a step that leaves the lock.
LEMMA Released ==
  ASSUME Inv, Types', NEW then, lock # Null, Release(then),
         \A b \in Builds : status'[b] = "Active" => status[b] = "Active",
         \A b \in Builds : planRow' # Null /\ planRow'.build = b =>
             task'[b] \in {"None", "Recover", "Update"},
         OwnersProduce', BuildsGone'
  PROVE  Inv'
<1>1. lock' = Null /\ PlanInStep' /\ MovesDone' /\ StagedInStep'
  BY DEF Release, PlanInStep, MovesDone, Moving, StagedInStep
<1>2. ASSUME NEW b \in Builds, task[b] = "None"
      PROVE  task'[b] = "None"
  <2>1. lock.by # Publisher(b)
    BY <1>2 DEF Inv, TasksInStep
  <2> QED
    BY <1>2, <2>1 DEF Release
<1>3. \A b \in Builds : status'[b] = "Active" => task'[b] = "None"
  BY <1>2 DEF Inv, TasksInStep
<1>4. boot' # "Up" => \A b \in Builds : task'[b] = "None"
  BY <1>2 DEF Release, Inv, TasksInStep
<1>5. TasksInStep'
  BY <1>1, <1>3, <1>4 DEF TasksInStep
<1> QED
  BY <1>1, <1>5 DEF Inv

LEMMA SameOwners ==
  ASSUME OwnersProduce, BuildsGone, UNCHANGED <<rows, pkgs>>,
         \A b \in Builds : status[b] = "Deleted" => status'[b] = "Deleted"
  PROVE  OwnersProduce' /\ BuildsGone'
BY DEF OwnersProduce, BuildsGone

LEMMA LeaveInv ==
  ASSUME Inv,
         \/ FinishFails \/ StageFails \/ BootDone
         \/ \E b \in Builds : RecoverDone(b)
  PROVE  Inv'
<1>1. Types' /\ lock # Null
  BY LeaveTypes
     DEF Inv, FinishFails, Moving, StageFails, BootDone, RecoverDone, Held
<1>2. UNCHANGED <<rows, pkgs, status, planRow>>
  BY DEF FinishFails, StageFails, BootDone, RecoverDone, repository, tables
<1>3. OwnersProduce' /\ BuildsGone'
  BY <1>2, SameOwners DEF Inv
<1>4. CASE FinishFails
  <2>1. Release("Recover")
    BY <1>4 DEF FinishFails
  <2>2. \A b \in Builds : planRow' # Null /\ planRow'.build = b =>
             task'[b] \in {"None", "Recover", "Update"}
    BY <1>2, <2>1 DEF Release, Inv, TasksInStep
  <2> QED
    BY <1>1, <1>2, <1>3, <2>1, <2>2, Released
<1>5. CASE StageFails
  <2>1. Release("Fail")
    BY <1>5 DEF StageFails
  <2>2. \A b \in Builds : planRow # Null /\ planRow.build = b => lock.by # Publisher(b)
    BY <1>1, <1>5, ProcessNames DEF StageFails, Inv, PlanInStep, TasksInStep
  <2>3. \A b \in Builds : planRow' # Null /\ planRow'.build = b =>
             task'[b] \in {"None", "Recover", "Update"}
    BY <1>2, <2>1, <2>2 DEF Release, Inv, TasksInStep
  <2> QED
    BY <1>1, <1>2, <1>3, <2>1, <2>3, Released
<1>6. CASE BootDone \/ \E b \in Builds : RecoverDone(b)
  <2>1. planRow' = Null
    BY <1>1, <1>2, <1>6 DEF BootDone, RecoverDone, Held, Inv, PlanInStep
  <2>2. \E then \in Tasks : Release(then)
    BY <1>6 DEF BootDone, RecoverDone, Tasks
  <2> QED
    BY <1>1, <1>2, <1>3, <2>1, <2>2, Released
<1> QED
  BY <1>4, <1>5, <1>6

----------------------------------------------------------------------------
(* Holding it. *)

\* Staging survives whatever leaves the tables, the databases and the
\* holder's links alone.
LEMMA SameStaged ==
  ASSUME StagedInStep, UNCHANGED <<rows, listing, next>>,
         lock' # Null /\ lock'.step = "Commit" =>
             /\ lock # Null /\ lock.step = "Commit"
             /\ lock'.by = lock.by /\ lock'.plan = lock.plan
             /\ \A b \in Builds, n \in Names :
                   lock.by = Publisher(b) /\ <<b, n>> \in links => <<b, n>> \in links'
  PROVE  StagedInStep'
<1> SUFFICES ASSUME lock' # Null, lock'.step = "Commit"
             PROVE  \/ \E b \in Builds : lock'.by = Publisher(b) /\ Staged(b, Produces[b], Stale(b))'
                    \/ \E p \in Pkgs : lock'.by = Remover(p) /\ Staged(Null, {}, FilesOf(p))'
  BY DEF StagedInStep
<1>1. ASSUME NEW b \in Builds, lock.by = Publisher(b), Staged(b, Produces[b], Stale(b))
      PROVE  Staged(b, Produces[b], Stale(b))'
  <2>1. \A n \in Produces[b] : n \in Names
    BY PublicationAssumption
  <2>2. Stale(b)' = Stale(b)
    BY DEF Stale
  <2>3. \A pl : UpdatedDatabase(pl, b, Produces[b], Stale(b))' =
                UpdatedDatabase(pl, b, Produces[b], Stale(b))
    BY <2>2 DEF UpdatedDatabase
  <2> QED
    BY <1>1, <2>1, <2>2, <2>3 DEF Staged
<1>2. ASSUME NEW p \in Pkgs, Staged(Null, {}, FilesOf(p))
      PROVE  Staged(Null, {}, FilesOf(p))'
  <2>1. FilesOf(p)' = FilesOf(p)
    BY DEF FilesOf
  <2>2. \A pl : UpdatedDatabase(pl, Null, {}, FilesOf(p))' =
                UpdatedDatabase(pl, Null, {}, FilesOf(p))
    BY <2>1 DEF UpdatedDatabase
  <2> QED
    BY <1>2, <2>1, <2>2 DEF Staged
<1> QED
  BY <1>1, <1>2 DEF StagedInStep

LEMMA TakeLockInv ==
  ASSUME Inv, NEW who \in Processes, TakeLock(who)
  PROVE  Inv'
<1>1. Types' /\ UNCHANGED <<rows, planRow, listing, next, links, pkgs, status, task, boot>>
  BY TakeLockTypes DEF Inv, TakeLock, repository, shelves, tables
<1>2. OwnersProduce' /\ BuildsGone'
  BY <1>1, SameOwners DEF Inv
<1>3. \A b \in Builds : who = Publisher(b) => task[b] \in {"Recover", "Begin"}
  BY ProcessNames DEF TakeLock, Waiting
<1>4. who = Boot => boot = "Recover"
  BY ProcessNames DEF TakeLock, Waiting
<1>5. CASE planRow # Null
  <2>1. /\ lock'.by = who /\ lock'.step = "Replay" /\ lock'.plan = planRow
        /\ lock'.files = planRow.files /\ lock'.dbs = planRow.dbs
    BY <1>5, FinalizingType DEF TakeLock, Steps, Inv, Types, TypeOK, RepositoryOK
  <2>2. PlanInStep' /\ MovesDone' /\ StagedInStep'
    BY <1>1, <2>1 DEF PlanInStep, MovesDone, StagedInStep
  <2>3. TasksInStep'
    BY <1>1, <1>3, <1>4, <2>1 DEF Inv, TasksInStep
  <2> QED
    BY <1>1, <1>2, <2>2, <2>3 DEF Inv
<1>6. CASE planRow = Null
  <2>1. lock'.by = who /\ lock'.step = "Open"
    BY <1>6, OpenType DEF TakeLock
  <2>2. PlanInStep' /\ MovesDone' /\ StagedInStep'
    BY <1>1, <1>6, <2>1 DEF PlanInStep, MovesDone, Moving, StagedInStep
  <2>3. TasksInStep'
    BY <1>1, <1>3, <1>4, <2>1 DEF Inv, TasksInStep
  <2> QED
    BY <1>1, <1>2, <2>2, <2>3 DEF Inv
<1> QED
  BY <1>5, <1>6

LEMMA FinishFileInv ==
  ASSUME Inv, FinishFile
  PROVE  Inv'
<1>1. Types' /\ UNCHANGED <<rows, planRow, listing, next, pkgs, status, task, boot>>
  BY MovesTypes DEF Inv, FinishFile, MoveFile, tables
<1>2. OwnersProduce' /\ BuildsGone'
  BY <1>1, SameOwners DEF Inv
<1>3. lock \in Lock /\ lock.step \in {"Replay", "Finish"}
  BY DEF FinishFile, Moving, Inv, Types, TypeOK, ProcessesOK
<1>4. PICK n \in lock.files : /\ MoveFile(lock.plan, n)
                             /\ lock' = [lock EXCEPT !.files = @ \ {n}]
  BY DEF FinishFile
<1>5. /\ lock'.by = lock.by /\ lock'.step = lock.step /\ lock'.plan = lock.plan
      /\ lock'.files = lock.files \ {n} /\ lock'.dbs = lock.dbs
  BY <1>3, <1>4 DEF Lock
<1>6. links' = links \ {<<lock.plan.build, n>>}
  BY <1>4 DEF MoveFile
<1>7. PlanInStep' /\ TasksInStep' /\ StagedInStep'
  BY <1>1, <1>3, <1>5 DEF FinishFile, Moving, Inv, PlanInStep, TasksInStep, StagedInStep
<1>8. MovesDone'
  BY <1>1, <1>3, <1>5, <1>6 DEF FinishFile, Moving, Inv, MovesDone
<1> QED
  BY <1>1, <1>2, <1>7, <1>8 DEF Inv

LEMMA FinishDatabaseInv ==
  ASSUME Inv, FinishDatabase
  PROVE  Inv'
<1>1. Types' /\ UNCHANGED <<rows, planRow, links, pkgs, status, task, boot>>
  BY MovesTypes DEF Inv, FinishDatabase, MoveDatabase, tables
<1>2. OwnersProduce' /\ BuildsGone'
  BY <1>1, SameOwners DEF Inv
<1>3. lock \in Lock /\ lock.step \in {"Replay", "Finish"}
  BY DEF FinishDatabase, Moving, Inv, Types, TypeOK, ProcessesOK
<1>4. PICK pl \in lock.dbs : /\ MoveDatabase(pl)
                            /\ lock' = [lock EXCEPT !.dbs = @ \ {pl}]
  BY DEF FinishDatabase
<1>5. /\ lock'.by = lock.by /\ lock'.step = lock.step /\ lock'.plan = lock.plan
      /\ lock'.files = lock.files /\ lock'.dbs = lock.dbs \ {pl}
  BY <1>3, <1>4 DEF Lock
<1>6. pl \in Platforms /\ next'[pl] = Null /\ \A q \in Platforms : q # pl => next'[q] = next[q]
  BY <1>3, <1>4 DEF MoveDatabase, Lock, Inv, Types, TypeOK, RepositoryOK
<1>7. PlanInStep' /\ TasksInStep' /\ StagedInStep'
  BY <1>1, <1>3, <1>5 DEF FinishDatabase, Moving, Inv, PlanInStep, TasksInStep, StagedInStep
<1>8. lock.plan.dbs \subseteq Platforms
  BY <1>3 DEF FinishDatabase, Moving, Inv, Types, PlanHeld, Lock, Plan
<1>9. MovesDone'
  BY <1>1, <1>3, <1>5, <1>6, <1>8 DEF FinishDatabase, Moving, Inv, MovesDone
<1> QED
  BY <1>1, <1>2, <1>7, <1>9 DEF Inv

LEMMA FinishPlanInv ==
  ASSUME Inv, FinishPlan
  PROVE  Inv'
<1>1. Types' /\ UNCHANGED <<rows, pkgs, status>> /\ planRow' = Null /\ lock # Null
  BY FinishPlanTypes DEF Inv, FinishPlan, Moving, tables
<1>2. OwnersProduce' /\ BuildsGone'
  BY <1>1, SameOwners DEF Inv
<1>3. CASE lock.step # "Replay"
  <2>1. Release("Settle")
    BY <1>3 DEF FinishPlan
  <2> QED
    BY <1>1, <1>2, <2>1, Released
<1>4. CASE lock.step = "Replay"
  <2>1. lock'.by = lock.by /\ lock'.step = "Open" /\ UNCHANGED <<task, boot>>
    BY <1>1, <1>4 DEF FinishPlan, Inv, Types, TypeOK, ProcessesOK, Lock
  <2>2. PlanInStep' /\ MovesDone' /\ StagedInStep'
    BY <1>1, <2>1 DEF PlanInStep, MovesDone, Moving, StagedInStep
  <2>3. TasksInStep'
    BY <1>1, <1>4, <2>1 DEF Inv, TasksInStep
  <2> QED
    BY <1>1, <1>2, <2>2, <2>3 DEF Inv
<1> QED
  BY <1>3, <1>4

LEMMA StageBuildInv ==
  ASSUME Inv, NEW b \in Builds, StageBuild(b)
  PROVE  Inv'
<1>1. Types' /\ lock # Null /\ lock \in Lock /\ planRow = Null
  BY StageBuildTypes
     DEF Inv, StageBuild, Held, PlanInStep, Types, TypeOK, ProcessesOK
<1>2. UNCHANGED <<rows, planRow, listing, pkgs, status>>
  BY DEF StageBuild, tables
<1>3. OwnersProduce' /\ BuildsGone'
  BY <1>2, SameOwners DEF Inv
<1>4. CASE Conflicts(b) # {}
  <2>1. Release("Fail")
    BY <1>4 DEF StageBuild
  <2> QED
    BY <1>1, <1>2, <1>3, <2>1, Released
<1>5. CASE Conflicts(b) = {}
  <2> DEFINE add == Produces[b]
             retire == Stale(b)
             plan == PlanFor(b, add, retire)
  <2>1. /\ Stage(b, add, retire)
        /\ lock' = [lock EXCEPT !.step = "Commit", !.plan = plan]
        /\ task' = [task EXCEPT ![b] = "Update"]
        /\ boot' = boot
    BY <1>5 DEF StageBuild
  <2>2. lock'.by = Publisher(b) /\ lock'.step = "Commit" /\ lock'.plan = plan
    BY <1>1, <2>1 DEF Lock, StageBuild, Held
  <2>3. Stale(b)' = Stale(b)
    BY <1>2 DEF Stale
  <2>4. \A pl : UpdatedDatabase(pl, b, add, retire)' = UpdatedDatabase(pl, b, add, retire)
    BY <1>2, <2>3 DEF UpdatedDatabase
  <2>5. plan.dbs \subseteq Platforms /\ PlanFor(b, add, retire)' = plan
    <3>1. add \cup retire \subseteq Names
      BY PublicationAssumption DEF Stale
    <3>2. plan.dbs = {NamePlatform[n] : n \in add \cup retire}
      BY DEF PlanFor
    <3>3. PlanFor(b, add, retire)' = plan
      BY <2>3 DEF PlanFor
    <3> QED
      BY <3>1, <3>2, <3>3, RepositoryAssumption
  <2>6. \A pl \in plan.dbs : next'[pl] = UpdatedDatabase(pl, b, add, retire)
    BY <2>1, <2>5 DEF Stage
  <2>7. \A n \in add : <<b, n>> \in links'
    BY <2>1 DEF Stage
  <2>8. Staged(b, add, retire)'
    BY <2>2, <2>3, <2>4, <2>5, <2>6, <2>7 DEF Staged
  <2>9. PlanInStep' /\ MovesDone' /\ StagedInStep'
    BY <1>1, <1>2, <2>2, <2>8 DEF PlanInStep, MovesDone, Moving, StagedInStep
  <2>10. task \in [Builds -> Tasks] /\ task[b] = "Begin"
    BY DEF StageBuild, Inv, Types, TypeOK, ProcessesOK
  <2>11. TasksInStep'
    BY <1>1, <1>2, <2>1, <2>2, <2>10, ProcessNames DEF Inv, TasksInStep
  <2> QED
    BY <1>1, <1>3, <2>9, <2>11 DEF Inv
<1> QED
  BY <1>4, <1>5

LEMMA StageRemovalInv ==
  ASSUME Inv, NEW p \in Pkgs, StageRemoval(p)
  PROVE  Inv'
<1>1. Types' /\ lock # Null /\ lock \in Lock /\ planRow = Null
  BY RemoverTypes
     DEF Inv, StageRemoval, Held, PlanInStep, Types, TypeOK, ProcessesOK
<1>2. UNCHANGED <<rows, planRow, listing, pkgs, status>>
  BY DEF StageRemoval, tables
<1>3. OwnersProduce' /\ BuildsGone'
  BY <1>2, SameOwners DEF Inv
<1>4. CASE Needed(p)
  <2>1. Release("None")
    BY <1>4 DEF StageRemoval
  <2> QED
    BY <1>1, <1>2, <1>3, <2>1, Released
<1>5. CASE ~Needed(p)
  <2> DEFINE retire == FilesOf(p)
             plan == PlanFor(Null, {}, retire)
  <2>1. /\ Stage(Null, {}, retire)
        /\ lock' = [lock EXCEPT !.step = "Commit", !.plan = plan]
        /\ UNCHANGED <<task, boot>>
    BY <1>5 DEF StageRemoval, FilesOf
  <2>2. lock'.by = Remover(p) /\ lock'.step = "Commit" /\ lock'.plan = plan
    BY <1>1, <2>1 DEF Lock, StageRemoval, Held
  <2>3. FilesOf(p)' = FilesOf(p)
    BY <1>2 DEF FilesOf
  <2>4. \A pl : UpdatedDatabase(pl, Null, {}, retire)' = UpdatedDatabase(pl, Null, {}, retire)
    BY <1>2, <2>3 DEF UpdatedDatabase
  <2>5. plan.dbs \subseteq Platforms /\ PlanFor(Null, {}, retire)' = plan
    BY <2>3, RepositoryAssumption DEF PlanFor, FilesOf
  <2>6. \A pl \in plan.dbs : next'[pl] = UpdatedDatabase(pl, Null, {}, retire)
    BY <2>1, <2>5 DEF Stage
  <2>7. Staged(Null, {}, retire)'
    BY <2>2, <2>3, <2>4, <2>5, <2>6 DEF Staged
  <2>8. PlanInStep' /\ MovesDone' /\ StagedInStep'
    BY <1>1, <1>2, <2>2, <2>7 DEF PlanInStep, MovesDone, Moving, StagedInStep
  <2>9. TasksInStep'
    BY <1>1, <1>2, <2>1, <2>2, ProcessNames DEF Inv, TasksInStep
  <2> QED
    BY <1>1, <1>3, <2>8, <2>9 DEF Inv
<1> QED
  BY <1>4, <1>5

----------------------------------------------------------------------------
(* Committing. *)

\* Whose staging directory the plan about to be committed names.
LEMMA PlanOfHolder ==
  ASSUME Inv, Commits, NEW b \in Builds, lock.plan.build = b
  PROVE  lock.by = Publisher(b)
<1>1. ASSUME NEW c \in Builds, lock.by = Publisher(c), Staged(c, Produces[c], Stale(c))
      PROVE  lock.by = Publisher(b)
  <2>1. lock.plan.build = c
    BY <1>1 DEF Staged, PlanFor
  <2> QED
    BY <1>1, <2>1
<1>2. ASSUME NEW p \in Pkgs, Staged(Null, {}, FilesOf(p))
      PROVE  FALSE
  <2>1. lock.plan.build = Null
    BY <1>2 DEF Staged, PlanFor
  <2> QED
    BY <2>1, NullAssumption
<1> QED
  BY <1>1, <1>2 DEF Inv, Commits, StagedInStep

LEMMA RecordOwners ==
  ASSUME Inv, Commits, Record(lock.by)
  PROVE  /\ OwnersProduce' /\ BuildsGone'
         /\ \A b \in Builds : status'[b] = "Active" => status[b] = "Active"
<1>1. /\ rows \in [Names -> Pkgs \cup {Null}]
      /\ status \in [Builds -> {"Active", "Publishing", "Successful", "Failed", "Deleted"}]
  BY DEF Inv, Types, TypeOK, RepositoryOK, TablesOK
<1>2. CASE \E b \in Builds : lock.by = Publisher(b) /\ RecordBuild(b)
  <2>1. PICK b \in Builds : lock.by = Publisher(b) /\ RecordBuild(b)
    BY <1>2
  <2>2. Staged(b, Produces[b], Stale(b))
    BY <2>1, ProcessNames DEF Inv, Commits, StagedInStep
  <2>3. lock.plan.files = Produces[b]
    BY <2>2 DEF Staged, PlanFor
  <2> QED
    BY <1>1, <2>1, <2>3 DEF RecordBuild, Inv, OwnersProduce, BuildsGone
<1>3. CASE \E p \in Pkgs : lock.by = Remover(p) /\ RecordRemoval(p)
  BY <1>1, <1>3 DEF RecordRemoval, Inv, OwnersProduce, BuildsGone
<1> QED
  BY <1>2, <1>3 DEF Record

LEMMA CommitInv ==
  ASSUME Inv, Commit
  PROVE  Inv'
<1>1. Types' /\ OwnersProduce' /\ BuildsGone'
  BY CommitTypes, RecordOwners DEF Inv, Commit
<1>2. lock # Null /\ lock \in Lock /\ lock.plan \in Plan /\ lock.plan # Null
  BY DEF Commit, Commits, Inv, Types, TypeOK, ProcessesOK, PlanHeld, Lock
<1>3. /\ lock'.by = lock.by /\ lock'.step = "Finish" /\ lock'.plan = lock.plan
      /\ lock'.files = lock.plan.files /\ lock'.dbs = lock.plan.dbs
  BY <1>2, FinalizingType DEF Commit, Lock, Steps
<1>4. planRow' = lock.plan /\ UNCHANGED <<task, boot>>
  BY <1>2, RecordType DEF Commit, Inv, Types, TypeOK, Lock
<1>5. PlanInStep' /\ MovesDone' /\ StagedInStep'
  BY <1>3, <1>4 DEF PlanInStep, MovesDone, StagedInStep
<1>6. \A b \in Builds : status'[b] = "Active" => status[b] = "Active"
  BY RecordOwners DEF Commit
<1>7. \A b \in Builds : planRow'.build = b => task'[b] = "Update"
  BY <1>2, <1>4, PlanOfHolder DEF Commit, Commits, Inv, TasksInStep
<1>8. TasksInStep'
  BY <1>2, <1>3, <1>4, <1>6, <1>7 DEF Commit, Commits, Inv, TasksInStep
<1> QED
  BY <1>1, <1>5, <1>8 DEF Inv

LEMMA CommitFailsInv ==
  ASSUME Inv, CommitFails
  PROVE  Inv'
<1>1. Types' /\ lock # Null /\ lock \in Lock /\ lock.step = "Commit" /\ planRow = Null
  BY CommitFailsTypes
     DEF Inv, CommitFails, Commits, PlanInStep, Types, TypeOK, ProcessesOK
<1>2. UNCHANGED <<rows, planRow, listing, pkgs, status>>
  BY DEF CommitFails, tables
<1>3. OwnersProduce' /\ BuildsGone'
  BY <1>2, SameOwners DEF Inv
<1>4. CASE lock.attempt < CommitAttempts
  <2>1. /\ lock'.by = lock.by /\ lock'.step = "Commit" /\ lock'.plan = lock.plan
        /\ UNCHANGED <<links, next, task, boot>>
    BY <1>1, <1>4 DEF CommitFails, Lock
  <2>2. StagedInStep'
    BY <1>1, <1>2, <2>1, SameStaged DEF Inv
  <2>3. PlanInStep' /\ MovesDone'
    BY <1>1, <1>2, <2>1 DEF PlanInStep, MovesDone, Moving
  <2>4. TasksInStep'
    BY <1>1, <1>2, <2>1 DEF Inv, TasksInStep
  <2> QED
    BY <1>1, <1>3, <2>2, <2>3, <2>4 DEF Inv
<1>5. CASE ~(lock.attempt < CommitAttempts)
  <2>1. Release("Fail")
    BY <1>5 DEF CommitFails
  <2> QED
    BY <1>1, <1>2, <1>3, <2>1, Released
<1> QED
  BY <1>4, <1>5

LEMMA CommitUnknownInv ==
  ASSUME Inv, CommitUnknown
  PROVE  Inv'
<1>1. /\ Types' /\ lock # Null /\ lock \in Lock /\ lock.plan \in Plan
      /\ planRow = Null /\ Release("Recover") /\ Commits
  BY CommitUnknownTypes
     DEF Inv, CommitUnknown, Commits, PlanInStep, Types, TypeOK, ProcessesOK, PlanHeld, Lock
<1>2. CASE Record(lock.by)
  <2>1. planRow' = lock.plan
    BY <1>1, <1>2, RecordType DEF Inv, Types, TypeOK, Lock
  <2>2. \A b \in Builds : planRow'.build = b => task'[b] = "Recover"
    BY <1>1, <2>1, PlanOfHolder DEF Release
  <2> QED
    BY <1>1, <1>2, <2>2, RecordOwners, Released
<1>3. CASE UNCHANGED <<rows, planRow, pkgs, status, recorded>>
  BY <1>1, <1>3, SameOwners, Released DEF Inv
<1> QED
  BY <1>2, <1>3 DEF CommitUnknown

----------------------------------------------------------------------------
(* Outside the lock. *)

\* A publication past its recovery neither holds the lock nor has a plan
\* recorded.
LEMMA OutsideTheLock ==
  ASSUME Inv, NEW b \in Builds, task[b] \in {"Load", "Settle", "Promote", "Fail", "Clean"}
  PROVE  /\ lock # Null => lock.by # Publisher(b)
         /\ planRow # Null => planRow.build # b
         /\ status[b] # "Active" /\ boot = "Up"
BY DEF Inv, TasksInStep

LEMMA TaskInv ==
  ASSUME Inv, NEW b \in Builds,
         \/ Accept(b) \/ Load(b) \/ Settle(b) \/ Promote(b) \/ Fail(b)
         \/ Clean(b) \/ StepFails(b) \/ DeleteBuild(b)
  PROVE  Inv'
<1>1. Types'
  BY TaskTypes DEF Inv
<1>2. UNCHANGED <<rows, planRow, disk, listing, next, pkgs, boot, lock>>
  BY DEF Accept, Load, Settle, Promote, Fail, Clean, StepFails, DeleteBuild,
         repository, shelves, tables
<1>3. /\ status \in [Builds -> {"Active", "Publishing", "Successful", "Failed", "Deleted"}]
      /\ task \in [Builds -> Tasks]
  BY DEF Inv, Types, TypeOK, TablesOK, ProcessesOK
<1>4. /\ \A c \in Builds : status[c] = "Deleted" => status'[c] = "Deleted"
      /\ \A c \in Builds : status'[c] = "Active" => status[c] = "Active"
      /\ \A c \in Builds : c # b => task'[c] = task[c]
  BY <1>3 DEF Accept, Load, Settle, Promote, Fail, Clean, StepFails, DeleteBuild, tables
<1>5. OwnersProduce' /\ BuildsGone'
  BY <1>2, <1>4, SameOwners DEF Inv
<1>6. CASE Load(b) \/ Settle(b) \/ Promote(b) \/ Fail(b) \/ Clean(b) \/ StepFails(b)
  <2>1. task[b] \in {"Load", "Settle", "Promote", "Fail", "Clean"}
    BY <1>6 DEF Load, Settle, Promote, Fail, Clean, StepFails
  <2>2. TasksInStep'
    BY <1>2, <1>4, <2>1, OutsideTheLock DEF Inv, TasksInStep
  <2>3. \A c \in Builds, n \in Names : c # b /\ <<c, n>> \in links => <<c, n>> \in links'
    BY <1>6 DEF Load, Settle, Promote, Fail, Clean, StepFails, DiscardStaging, repository, shelves
  <2>4. StagedInStep'
    BY <1>2, <2>1, <2>3, OutsideTheLock, SameStaged DEF Inv
  <2>5. links' \subseteq links
    BY <1>6 DEF Load, Settle, Promote, Fail, Clean, StepFails, DiscardStaging, repository, shelves
  <2>6. PlanInStep' /\ MovesDone'
    BY <1>2, <2>5 DEF Inv, PlanInStep, MovesDone, Moving
  <2> QED
    BY <1>1, <1>5, <2>2, <2>4, <2>6 DEF Inv
<1>7. CASE Accept(b) \/ DeleteBuild(b)
  <2>1. links' = links
    BY <1>7 DEF Accept, DeleteBuild, repository, shelves
  <2>2. PlanInStep' /\ MovesDone' /\ StagedInStep'
    BY <1>2, <2>1, SameStaged DEF Inv, PlanInStep, MovesDone, Moving
  <2>3. ASSUME DeleteBuild(b) PROVE TasksInStep'
    BY <1>2, <1>4, <2>3 DEF DeleteBuild, Inv, TasksInStep
  <2>4. ASSUME Accept(b) PROVE TasksInStep'
    <3>1. task[b] = "None" /\ task'[b] = "Recover" /\ status'[b] = "Publishing" /\ boot = "Up"
      BY <1>3, <2>4 DEF Accept, Inv, TasksInStep
    <3> QED
      BY <1>2, <1>4, <3>1 DEF Inv, TasksInStep
  <2> QED
    BY <1>1, <1>5, <1>7, <2>2, <2>3, <2>4 DEF Inv
<1> QED
  BY <1>6, <1>7

\* Asking for a removal, the sweep, resuming, a crash, the clock.
LEMMA ServerInv ==
  ASSUME Inv,
         \/ \E p \in Pkgs : RemovePackage(p)
         \/ Sweep \/ Resume \/ Crash \/ Tick
  PROVE  Inv'
<1>1. Types'
  BY RemoverTypes, ServerTypes DEF Inv
<1>2. UNCHANGED <<rows, planRow, listing, next, links, pkgs, status>>
  BY DEF RemovePackage, Sweep, SweepRetired, Resume, Crash, Tick, repository, shelves, tables
<1>3. OwnersProduce' /\ BuildsGone'
  BY <1>2, SameOwners DEF Inv
<1>4. CASE Sweep \/ Crash
  <2>1. lock' = Null
    BY <1>4 DEF Sweep, Crash
  <2>2. PlanInStep' /\ MovesDone' /\ StagedInStep'
    BY <2>1 DEF PlanInStep, MovesDone, Moving, StagedInStep
  <2>3. TasksInStep'
    BY <1>2, <1>4, <2>1 DEF Sweep, Crash, Inv, TasksInStep
  <2> QED
    BY <1>1, <1>3, <2>2, <2>3 DEF Inv
<1>5. CASE Resume \/ Tick \/ \E p \in Pkgs : RemovePackage(p)
  <2>1. lock' = lock
    BY <1>5 DEF Resume, Tick, RemovePackage
  <2>2. PlanInStep' /\ MovesDone' /\ StagedInStep'
    BY <1>2, <2>1, SameStaged DEF Inv, PlanInStep, MovesDone, Moving
  <2>3. ASSUME Resume PROVE TasksInStep'
    <3>1. \A b \in Builds : task[b] = "None" /\ task'[b] \in {"None", "Recover"}
      BY <2>3 DEF Resume, Inv, TasksInStep
    <3>2. \A b \in Builds : status[b] = "Active" => task'[b] = "None"
      BY <2>3 DEF Resume, Interrupted, Inv, TasksInStep
    <3> QED
      BY <1>2, <2>1, <2>3, <3>1, <3>2 DEF Resume, Inv, TasksInStep
  <2>4. ASSUME Tick \/ \E p \in Pkgs : RemovePackage(p) PROVE TasksInStep'
    BY <1>2, <2>1, <2>4 DEF Tick, RemovePackage, Inv, TasksInStep
  <2> QED
    BY <1>1, <1>3, <1>5, <2>2, <2>3, <2>4 DEF Inv
<1> QED
  BY <1>4, <1>5

LEMMA StutterInv == ASSUME Inv, UNCHANGED vars PROVE Inv'
<1>1. UNCHANGED <<rows, planRow, listing, next, links, pkgs, status, task, boot, lock>>
  BY DEF vars, repository, shelves, tables
<1>2. Types'
  BY NextTypes DEF Inv
<1>3. PlanInStep' /\ MovesDone' /\ StagedInStep'
  BY <1>1, SameStaged DEF Inv, PlanInStep, MovesDone, Moving
<1>4. TasksInStep' /\ OwnersProduce' /\ BuildsGone'
  BY <1>1, SameOwners DEF Inv, TasksInStep
<1> QED
  BY <1>2, <1>3, <1>4 DEF Inv

LEMMA NextInv == Inv /\ [Next]_vars => Inv'
<1> SUFFICES ASSUME Inv, [Next]_vars PROVE Inv'
  OBVIOUS
<1>1. CASE UNCHANGED vars
  BY <1>1, StutterInv
<1>2. CASE \E who \in Processes : TakeLock(who)
  BY <1>2, TakeLockInv
<1>3. CASE UpdateStep
  BY <1>3, FinishFileInv, FinishDatabaseInv, FinishPlanInv, LeaveInv, CommitInv,
     CommitFailsInv, CommitUnknownInv DEF UpdateStep
<1>4. CASE ServerStep \/ Crash \/ Tick
  BY <1>4, ServerInv, LeaveInv DEF ServerStep
<1>5. CASE \E b \in Builds : Accept(b) \/ PublishStep(b) \/ StepFails(b) \/ DeleteBuild(b)
  BY <1>5, TaskInv, StageBuildInv, LeaveInv DEF PublishStep
<1>6. CASE \E p \in Pkgs : RemovePackage(p) \/ StageRemoval(p)
  BY <1>6, ServerInv, StageRemovalInv
<1> QED
  BY <1>1, <1>2, <1>3, <1>4, <1>5, <1>6 DEF Next

\* What the lock's holder, the plan row, the staged files and the tasks of
\* publish_with_recovery know of each other, in every reachable state.
THEOREM InvHolds == Spec => []Inv
BY InitInv, NextInv, PTL DEF Spec

============================================================================
