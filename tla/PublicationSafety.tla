------------------------- MODULE PublicationSafety -------------------------
(***************************************************************************)
(* What the repository promises, for any number of builds, packages,       *)
(* platforms, files, failures and crashes.  The argument: only the commit  *)
(* of a plan changes what the tables, the databases and the files come to  *)
(* once the recorded plan is carried out; every rename, replay, cleanup    *)
(* and crash leaves that alone.                                            *)
(***************************************************************************)
EXTENDS PublicationProofs

\* Two packages never produce files of different names under one entry of
\* repo.db: without this the code does not keep its promise (SharedEntry).
EntriesSeparate ==
    \A b, c \in Builds : PkgOf[b] # PkgOf[c] =>
        \A m \in Produces[b], n \in Produces[c] :
            NamePlatform[m] = NamePlatform[n] /\ EntryDir[m] = EntryDir[n] => m = n

\* A step that changes nothing of what carrying out the plan comes to.
Same ==
    /\ rows' = rows
    /\ \A pl \in Platforms : Effective(pl)' = Effective(pl)
    /\ \A n \in Names :
          ListedIn(Effective(NamePlatform[n]), n) => Contents(n)' = Contents(n)

LEMMA PlatformOfName == \A n \in Names : NamePlatform[n] \in Platforms /\ EntryDir[n] \in Dirs
BY RepositoryAssumption

LEMMA UntouchedSame ==
  ASSUME UNCHANGED <<rows, planRow, listing, next, links, disk>>
  PROVE  Same
BY DEF Same, Effective, Contents

LEMMA FinishFileSame ==
  ASSUME Inv, FinishFile
  PROVE  Same
<1>1. UNCHANGED <<rows, planRow, listing, next>>
  BY DEF FinishFile, MoveFile
<1>2. lock # Null /\ lock \in Lock /\ planRow = lock.plan /\ planRow # Null
  BY DEF FinishFile, Moving, Inv, PlanInStep, Types, PlanHeld, TypeOK, ProcessesOK
<1>3. PICK m \in lock.files : MoveFile(lock.plan, m)
  BY DEF FinishFile
<1>4. m \in planRow.files /\ m \in Names
  BY <1>2, <1>3 DEF FinishFile, Inv, MovesDone, Lock
<1>5. \A pl \in Platforms : Effective(pl)' = Effective(pl)
  BY <1>1 DEF Effective
<1>6. CASE <<planRow.build, m>> \in links
  <2>1. disk' = [disk EXCEPT ![m] = planRow.build] /\ links' = links \ {<<planRow.build, m>>}
    BY <1>2, <1>3, <1>6 DEF MoveFile
  <2>2. Contents(m)' = Contents(m)
    BY <1>1, <1>2, <1>4, <1>6, <2>1 DEF Contents, Inv, Types, TypeOK, RepositoryOK
  <2>3. ASSUME NEW n \in Names, n # m
        PROVE  Contents(n)' = Contents(n)
    <3>1. disk'[n] = disk[n]
      BY <2>1, <2>3 DEF Inv, Types, TypeOK, RepositoryOK
    <3>2. <<planRow.build, n>> \in links' <=> <<planRow.build, n>> \in links
      BY <2>1, <2>3
    <3> QED
      BY <1>1, <3>1, <3>2 DEF Contents
  <2> QED
    BY <1>1, <1>5, <2>2, <2>3 DEF Same
<1>7. CASE <<planRow.build, m>> \notin links
  BY <1>1, <1>2, <1>3, <1>7, UntouchedSame DEF MoveFile
<1> QED
  BY <1>6, <1>7

LEMMA FinishDatabaseSame ==
  ASSUME Inv, FinishDatabase
  PROVE  Same
<1>1. UNCHANGED <<rows, planRow, links, disk>>
  BY DEF FinishDatabase, MoveDatabase
<1>2. lock # Null /\ lock \in Lock /\ planRow = lock.plan /\ planRow # Null
  BY DEF FinishDatabase, Moving, Inv, PlanInStep, Types, PlanHeld, TypeOK, ProcessesOK
<1>3. PICK q \in lock.dbs : MoveDatabase(q)
  BY DEF FinishDatabase
<1>4. q \in planRow.dbs /\ q \in Platforms
  BY <1>2, <1>3 DEF FinishDatabase, Inv, MovesDone, Lock
<1>5. \A n : Contents(n)' = Contents(n)
  BY <1>1 DEF Contents
<1>6. \A pl \in Platforms : Effective(pl)' = Effective(pl)
  BY <1>1, <1>2, <1>3, <1>4 DEF Effective, MoveDatabase, Inv, Types, TypeOK, RepositoryOK
<1> QED
  BY <1>1, <1>5, <1>6 DEF Same

LEMMA FinishPlanSame ==
  ASSUME Inv, FinishPlan
  PROVE  Same
<1>1. UNCHANGED <<rows, listing, next, links, disk>> /\ planRow' = Null
  BY DEF FinishPlan, shelves
<1>2. /\ planRow = lock.plan
      /\ \A n \in planRow.files : <<planRow.build, n>> \notin links
      /\ \A pl \in planRow.dbs : next[pl] = Null
  BY DEF FinishPlan, Moving, Inv, PlanInStep, MovesDone
<1>3. \A n : Contents(n)' = Contents(n)
  BY <1>1, <1>2 DEF Contents
<1>4. \A pl : Effective(pl)' = Effective(pl)
  BY <1>1, <1>2 DEF Effective
<1> QED
  BY <1>1, <1>3, <1>4 DEF Same

\* Without a recorded plan, what is staged does not count.
LEMMA NoPlanSame ==
  ASSUME planRow = Null, UNCHANGED <<rows, planRow, listing, disk>>
  PROVE  Same
BY DEF Same, Effective, Contents

LEMMA SweepSame ==
  ASSUME Inv, Sweep
  PROVE  Same
<1>1. UNCHANGED <<rows, planRow, listing>> /\ planRow = Null
  BY DEF Sweep, SweepRetired, Held, Inv, PlanInStep
<1>2. \A pl : Effective(pl) = listing[pl] /\ Effective(pl)' = listing[pl]
  BY <1>1 DEF Effective
<1>3. \A n \in Names : Listed(n) => disk'[n] = disk[n]
  BY DEF Sweep, SweepRetired, Retired
<1> QED
  BY <1>1, <1>2, <1>3 DEF Same, Contents, Listed

\* Dropping the links of a build whose plan is not recorded.
LEMMA TaskSame ==
  ASSUME Inv, NEW b \in Builds,
         \/ Accept(b) \/ Load(b) \/ Settle(b) \/ Promote(b) \/ Fail(b)
         \/ Clean(b) \/ StepFails(b) \/ DeleteBuild(b)
  PROVE  Same
<1>1. UNCHANGED <<rows, planRow, disk, listing, next>>
  BY DEF Accept, Load, Settle, Promote, Fail, Clean, StepFails, DeleteBuild,
         repository, shelves, tables
<1>2. CASE links' = links
  BY <1>1, <1>2, UntouchedSame
<1>3. CASE DiscardStaging(b) /\ task[b] \in {"Load", "Clean"}
  <2>1. planRow # Null => planRow.build # b
    BY <1>3, OutsideTheLock
  <2>2. links' = {l \in links : l[1] # b}
    BY <1>3 DEF DiscardStaging
  <2>3. \A n : planRow # Null =>
            (<<planRow.build, n>> \in links' <=> <<planRow.build, n>> \in links)
    BY <2>1, <2>2
  <2> QED
    BY <1>1, <2>3 DEF Same, Effective, Contents
<1> QED
  BY <1>2, <1>3 DEF Accept, Load, Settle, Promote, Fail, Clean, StepFails, DeleteBuild,
                    repository, shelves, tables

----------------------------------------------------------------------------
(* What a commit changes. *)

\* Something added or taken out has n's entry.
Superseded(n, add, retire) ==
    \E m \in add \cup retire : NamePlatform[m] = NamePlatform[n] /\ EntryDir[m] = EntryDir[n]

LEMMA UpdatedEntry ==
  ASSUME NEW b, NEW add \in SUBSET Names, NEW retire \in SUBSET Names, NEW n \in Names,
         \A m, k \in add :
             NamePlatform[m] = NamePlatform[k] /\ EntryDir[m] = EntryDir[k] => m = k
  PROVE  /\ n \in add =>
               UpdatedDatabase(NamePlatform[n], b, add, retire)[EntryDir[n]] =
                   [name |-> n, build |-> b]
         /\ n \notin add /\ Superseded(n, add, retire) =>
               ~ListedIn(UpdatedDatabase(NamePlatform[n], b, add, retire), n)
<1> DEFINE pl == NamePlatform[n]
           d == EntryDir[n]
           at(S) == {m \in S : NamePlatform[m] = pl /\ EntryDir[m] = d}
           db == UpdatedDatabase(pl, b, add, retire)
<1>1. d \in Dirs
  BY PlatformOfName
<1>2. db[d] = IF at(add) # {}
              THEN [name |-> CHOOSE m \in at(add) : TRUE, build |-> b]
              ELSE IF at(retire) # {} THEN Null ELSE listing[pl][d]
  BY <1>1 DEF UpdatedDatabase
<1>3. ASSUME n \in add
      PROVE  db[d] = [name |-> n, build |-> b]
  <2>1. at(add) = {n}
    BY <1>3
  <2>2. (CHOOSE m \in at(add) : TRUE) = n
    BY <2>1
  <2> QED
    BY <1>2, <2>1, <2>2
<1>4. ASSUME n \notin add, Superseded(n, add, retire)
      PROVE  ~ListedIn(db, n)
  <2>1. CASE at(add) # {}
    <3> DEFINE k == CHOOSE m \in at(add) : TRUE
    <3>1. k \in at(add)
      BY <2>1
    <3>2. k # n
      BY <1>4, <3>1
    <3>3. db[d] = [name |-> k, build |-> b]
      BY <1>2, <2>1
    <3>4. db[d].name = k
      BY <3>3
    <3> HIDE DEF k, db
    <3> QED
      BY <3>2, <3>4 DEF ListedIn
  <2>2. CASE at(add) = {}
    <3>1. at(retire) # {}
      BY <1>4, <2>2 DEF Superseded
    <3>2. db[d] = Null
      BY <1>2, <2>2, <3>1
    <3> QED
      BY <3>2 DEF ListedIn
  <2> QED
    BY <2>1, <2>2
<1> QED
  BY <1>3, <1>4

\* Before a commit nothing is recorded; after it the plan is.
LEMMA CommitFrame ==
  ASSUME Inv, Commits, Record(lock.by), UNCHANGED <<listing, next, links, disk>>
  PROVE  /\ planRow = Null /\ planRow' = lock.plan /\ lock.plan # Null /\ lock.plan \in Plan
         /\ \A pl : Effective(pl) = listing[pl]
         /\ \A n : Contents(n) = disk[n]
<1>1. planRow = Null /\ lock \in Lock /\ lock.plan # Null
  BY DEF Commits, Inv, PlanInStep, Types, PlanHeld, TypeOK, ProcessesOK
<1>2. lock.plan \in Plan /\ lock.by \in Processes
  BY <1>1 DEF Lock
<1>3. planRow' = lock.plan
  BY <1>2, RecordType DEF Inv, Types, TypeOK
<1> QED
  BY <1>1, <1>2, <1>3 DEF Effective, Contents

LEMMA RecordedBuild ==
  ASSUME Inv, KeptInStep, EntriesSeparate, Commits, Record(lock.by),
         UNCHANGED <<listing, next, links, disk>>,
         NEW b \in Builds, lock.by = Publisher(b), NEW n \in Names
  PROVE  LET db == Effective(NamePlatform[n])
             d == EntryDir[n]
         IN  /\ n \in Produces[b] =>
                   /\ rows'[n] = PkgOf[b]
                   /\ db'[d] = [name |-> n, build |-> b]
                   /\ Contents(n)' = b
             /\ n \notin Produces[b] /\ rows[n] = PkgOf[b] /\ NamePlatform[n] = PlatformOf[b] =>
                   rows'[n] = Null /\ ~ListedIn(db', n)
             /\ n \notin Produces[b] /\ ~(rows[n] = PkgOf[b] /\ NamePlatform[n] = PlatformOf[b]) =>
                   /\ rows'[n] = rows[n] /\ Contents(n)' = Contents(n)
                   /\ ListedIn(db', n) <=> ListedIn(db, n)
                   /\ ListedIn(db, n) => db'[d] = db[d]
<1> DEFINE add == Produces[b]
           retire == Stale(b)
           pl == NamePlatform[n]
           d == EntryDir[n]
           db == Effective(pl)
           new == UpdatedDatabase(pl, b, add, retire)
<1>1. RecordBuild(b)
  BY ProcessNames DEF Record
<1>2. Staged(b, add, retire)
  BY ProcessNames DEF Inv, Commits, StagedInStep
<1>3. /\ lock.plan.build = b /\ lock.plan.files = add
      /\ lock.plan.dbs = {NamePlatform[m] : m \in add \cup retire}
      /\ lock.plan.retired = retire
  BY <1>2 DEF Staged, PlanFor, Stale
<1>4. add \in SUBSET Names /\ retire \in SUBSET Names /\ pl \in Platforms /\ d \in Dirs
  BY PublicationAssumption, PlatformOfName DEF Stale
<1>5. \A m, k \in add : NamePlatform[m] = NamePlatform[k] /\ EntryDir[m] = EntryDir[k] => m = k
  BY PublicationAssumption
<1>5a. /\ n \in add => new[d] = [name |-> n, build |-> b]
       /\ n \notin add /\ Superseded(n, add, retire) => ~ListedIn(new, n)
       /\ ~Superseded(n, add, retire) => new[d] = listing[pl][d]
  <2> HIDE DEF add, retire
  <2>1. n \in add => new[d] = [name |-> n, build |-> b]
    BY <1>4, <1>5, UpdatedEntry
  <2>2. n \notin add /\ Superseded(n, add, retire) => ~ListedIn(new, n)
    BY <1>4, <1>5, UpdatedEntry
  <2>3. ~Superseded(n, add, retire) => new[d] = listing[pl][d]
    BY <1>4 DEF UpdatedDatabase, Superseded
  <2> QED
    BY <2>1, <2>2, <2>3
<1>6. /\ planRow' = lock.plan /\ lock.plan # Null /\ db = listing[pl]
      /\ Contents(n) = disk[n]
  BY CommitFrame
<1>7. rows'[n] = IF n \in add THEN PkgOf[b] ELSE IF n \in retire THEN Null ELSE rows[n]
  BY <1>1, <1>3 DEF RecordBuild
<1>8. pl \in lock.plan.dbs => db' = new
  <2> SUFFICES ASSUME pl \in lock.plan.dbs PROVE db' = new
    OBVIOUS
  <2>1. next[pl] = new
    BY <1>2 DEF Staged
  <2>2. new # Null
    BY <1>4, UpdatedDatabaseType, NullAssumption DEF Inv, Types, TypeOK
  <2> QED
    BY <1>6, <2>1, <2>2 DEF Effective
<1>9. pl \notin lock.plan.dbs => db' = db
  BY <1>6 DEF Effective
<1>10. Superseded(n, add, retire) => pl \in lock.plan.dbs
  BY <1>3 DEF Superseded
<1>11. ASSUME n \in add
       PROVE  rows'[n] = PkgOf[b] /\ db'[d] = [name |-> n, build |-> b] /\ Contents(n)' = b
  <2>1. pl \in lock.plan.dbs
    BY <1>3, <1>11
  <2>2. db'[d] = [name |-> n, build |-> b]
    BY <1>8, <1>11, <1>5a, <2>1
  <2>3. <<b, n>> \in links
    BY <1>2, <1>11 DEF Staged
  <2>4. Contents(n)' = b
    BY <1>3, <1>6, <1>11, <2>3 DEF Contents
  <2> QED
    BY <1>7, <1>11, <2>2, <2>4
<1>12. ASSUME n \notin add, n \in retire
       PROVE  rows'[n] = Null /\ ~ListedIn(db', n)
  <2>1. Superseded(n, add, retire)
    BY <1>12 DEF Superseded
  <2>2. ~ListedIn(new, n)
    BY <1>12, <1>5a, <2>1
  <2> QED
    BY <1>7, <1>8, <1>10, <1>12, <2>1, <2>2
<1>13. ASSUME n \notin add, n \notin retire
       PROVE  /\ rows'[n] = rows[n] /\ Contents(n)' = Contents(n)
              /\ ListedIn(db', n) <=> ListedIn(db, n)
              /\ ListedIn(db, n) => db'[d] = db[d]
  <2>1. rows'[n] = rows[n]
    BY <1>7, <1>13
  <2>2. Contents(n)' = Contents(n)
    BY <1>3, <1>6, <1>13 DEF Contents
  <2>3. CASE ~Superseded(n, add, retire)
    <3>1. new[d] = listing[pl][d]
      BY <1>5a, <2>3
    <3>2. db'[d] = db[d]
      BY <1>6, <1>8, <1>9, <3>1
    <3> QED
      BY <2>1, <2>2, <3>2 DEF ListedIn
  <2>4. CASE Superseded(n, add, retire)
    <3>1. ~ListedIn(db', n)
      <4>1. ~ListedIn(new, n)
        BY <1>13, <1>5a, <2>4
      <4> QED
        BY <1>8, <1>10, <2>4, <4>1
    <3>2. PICK m \in add \cup retire : NamePlatform[m] = pl /\ EntryDir[m] = d
      BY <2>4 DEF Superseded
    <3>3. m # n /\ m \in Names
      BY <1>4, <1>13, <3>2
    <3>4. CASE m \in retire
      <4>1. rows[m] # Null
        BY <3>4, PublicationAssumption, NullAssumption DEF Stale
      <4>2. ListedIn(db, m)
        BY <3>2, <3>3, <4>1 DEF KeptInStep
      <4> QED
        BY <2>1, <2>2, <3>1, <3>2, <3>3, <4>2 DEF ListedIn
    <3>5. CASE m \in add
      <4>1. ASSUME rows[n] # Null PROVE FALSE
        <5>1. PICK c \in Builds : PkgOf[c] = rows[n] /\ n \in Produces[c]
          BY <4>1 DEF Inv, OwnersProduce
        <5>2. CASE PkgOf[c] = PkgOf[b]
          <6>1. NamePlatform[n] = PlatformOf[b]
            BY <3>2, <3>5, PublicationAssumption
          <6>2. n \in Stale(b)
            BY <1>13, <5>1, <5>2, <6>1 DEF Stale
          <6> QED
            BY <1>13, <6>2
        <5>3. CASE PkgOf[c] # PkgOf[b]
          BY <3>2, <3>3, <3>5, <5>1, <5>3 DEF EntriesSeparate
        <5> QED
          BY <5>2, <5>3
      <4>2. ~ListedIn(db, n)
        BY <4>1 DEF KeptInStep
      <4> QED
        BY <2>1, <2>2, <3>1, <4>2
    <3> QED
      BY <3>2, <3>4, <3>5
  <2> QED
    BY <2>3, <2>4
<1>14. n \in retire <=> n \notin add /\ rows[n] = PkgOf[b] /\ NamePlatform[n] = PlatformOf[b]
  BY DEF Stale
<1> QED
  BY <1>11, <1>12, <1>13, <1>14

LEMMA RecordedRemoval ==
  ASSUME Inv, KeptInStep, Commits, Record(lock.by), UNCHANGED <<listing, next, links, disk>>,
         NEW p \in Pkgs, lock.by = Remover(p), NEW n \in Names
  PROVE  LET db == Effective(NamePlatform[n])
             d == EntryDir[n]
         IN  /\ rows[n] = p => rows'[n] = Null /\ ~ListedIn(db', n)
             /\ rows[n] # p =>
                   /\ rows'[n] = rows[n] /\ Contents(n)' = Contents(n)
                   /\ ListedIn(db', n) <=> ListedIn(db, n)
                   /\ ListedIn(db, n) => db'[d] = db[d]
<1> DEFINE retire == FilesOf(p)
           pl == NamePlatform[n]
           d == EntryDir[n]
           db == Effective(pl)
           new == UpdatedDatabase(pl, Null, {}, retire)
           beside == {m \in retire : NamePlatform[m] = pl /\ EntryDir[m] = d}
<1>1. RecordRemoval(p)
  BY ProcessNames DEF Record
<1>2. Staged(Null, {}, retire)
  BY ProcessNames DEF Inv, Commits, StagedInStep
<1>3. lock.plan.files = {} /\ lock.plan.dbs = {NamePlatform[m] : m \in retire}
  BY <1>2 DEF Staged, PlanFor
<1>4. pl \in Platforms /\ d \in Dirs /\ retire \in SUBSET Names
  BY PlatformOfName DEF FilesOf
<1>5. planRow' = lock.plan /\ lock.plan # Null /\ db = listing[pl] /\ Contents(n) = disk[n]
  BY CommitFrame
<1>6. Contents(n)' = Contents(n)
  BY <1>3, <1>5 DEF Contents
<1>7. new[d] = IF beside # {} THEN Null ELSE listing[pl][d]
  BY <1>4 DEF UpdatedDatabase
<1>8. pl \in lock.plan.dbs => db' = new
  <2> SUFFICES ASSUME pl \in lock.plan.dbs PROVE db' = new
    OBVIOUS
  <2>1. next[pl] = new
    BY <1>2 DEF Staged
  <2>2. new # Null
    BY <1>4, UpdatedDatabaseType, NullAssumption DEF Inv, Types, TypeOK
  <2> QED
    BY <1>5, <2>1, <2>2 DEF Effective
<1>9. pl \notin lock.plan.dbs => db' = db
  BY <1>5 DEF Effective
<1>10. db'[d] = IF beside # {} THEN Null ELSE db[d]
  BY <1>3, <1>5, <1>7, <1>8, <1>9
<1>11. rows'[n] = IF rows[n] = p THEN Null ELSE rows[n]
  BY <1>1 DEF RecordRemoval
<1>12. ASSUME rows[n] = p PROVE rows'[n] = Null /\ ~ListedIn(db', n)
  <2>1. n \in beside
    BY <1>12 DEF FilesOf
  <2> QED
    BY <1>10, <1>11, <1>12, <2>1 DEF ListedIn
<1>13. ASSUME rows[n] # p, beside # {} PROVE ~ListedIn(db, n)
  <2>1. PICK m \in beside : TRUE
    BY <1>13
  <2>2. m \in Names /\ rows[m] = p /\ m # n /\ NamePlatform[m] = pl /\ EntryDir[m] = d
    BY <1>13, <2>1 DEF FilesOf
  <2>3. ListedIn(db, m)
    BY <2>2, NullAssumption DEF KeptInStep
  <2> QED
    BY <2>2, <2>3 DEF ListedIn
<1>14. ASSUME rows[n] # p
       PROVE  /\ rows'[n] = rows[n] /\ Contents(n)' = Contents(n)
              /\ ListedIn(db', n) <=> ListedIn(db, n)
              /\ ListedIn(db, n) => db'[d] = db[d]
  <2>1. CASE beside = {}
    BY <1>6, <1>10, <1>11, <1>14, <2>1 DEF ListedIn
  <2>2. CASE beside # {}
    <3>1. db'[d] = Null
      BY <1>10, <2>2
    <3>2. ~ListedIn(db', n)
      BY <3>1 DEF ListedIn
    <3> QED
      BY <1>6, <1>11, <1>13, <1>14, <2>2, <3>2
  <2> QED
    BY <2>1, <2>2
<1> QED
  BY <1>12, <1>14

----------------------------------------------------------------------------
(* Every step commits a plan or leaves what it comes to alone. *)

\* The transaction of a commit, the only part of it that matters here.
Recorded ==
    Commits /\ Record(lock.by) /\ UNCHANGED <<listing, next, links, disk>>

LEMMA RecordedOrSame ==
  ASSUME Inv, [Next]_vars
  PROVE  Recorded \/ Same
<1>1. CASE UNCHANGED repository
  BY <1>1, UntouchedSame DEF repository, shelves
<1>2. CASE FinishFile \/ FinishDatabase \/ FinishPlan
  BY <1>2, FinishFileSame, FinishDatabaseSame, FinishPlanSame
<1>3. CASE Sweep
  BY <1>3, SweepSame
<1>4. CASE Commit \/ CommitUnknown
  <2>1. Commits /\ UNCHANGED <<listing, next, links, disk>>
    BY <1>4 DEF Commit, CommitUnknown, shelves
  <2>2. CASE Record(lock.by)
    BY <2>1, <2>2 DEF Recorded
  <2>3. CASE UNCHANGED <<rows, planRow>>
    BY <2>1, <2>3, UntouchedSame
  <2> QED
    BY <1>4, <2>2, <2>3 DEF Commit, CommitUnknown
<1>5. CASE CommitFails
  <2>1. planRow = Null /\ UNCHANGED <<rows, planRow, listing, disk>>
    BY <1>5 DEF CommitFails, Commits, Inv, PlanInStep
  <2> QED
    BY <2>1, NoPlanSame
<1>6. CASE \E b \in Builds : StageBuild(b)
  <2>1. planRow = Null /\ UNCHANGED <<rows, planRow, listing, disk>>
    BY <1>6 DEF StageBuild, Held, Inv, PlanInStep
  <2> QED
    BY <2>1, NoPlanSame
<1>7. CASE \E p \in Pkgs : StageRemoval(p)
  <2>1. planRow = Null /\ UNCHANGED <<rows, planRow, listing, disk>>
    BY <1>7 DEF StageRemoval, Held, Inv, PlanInStep
  <2> QED
    BY <2>1, NoPlanSame
<1>8. CASE \E b \in Builds : \/ Accept(b) \/ Load(b) \/ Settle(b) \/ Promote(b) \/ Fail(b)
                              \/ Clean(b) \/ StepFails(b) \/ DeleteBuild(b)
  BY <1>8, TaskSame
<1>9. CASE Crash
  BY <1>9, UntouchedSame DEF Crash, shelves
<1>10. CASE UNCHANGED vars
  BY <1>1, <1>10 DEF vars
<1>11. CASE \/ \E who \in Processes : TakeLock(who)
            \/ FinishFails \/ StageFails \/ BootDone \/ Resume \/ Tick
            \/ \E b \in Builds : RecoverDone(b)
            \/ \E p \in Pkgs : RemovePackage(p)
  BY <1>1, <1>11 DEF TakeLock, FinishFails, StageFails, BootDone, Resume, Tick, RecoverDone,
                     RemovePackage
<1> QED
  BY <1>2, <1>3, <1>4, <1>5, <1>6, <1>7, <1>8, <1>9, <1>10, <1>11
     DEF Next, UpdateStep, ServerStep, PublishStep

\* Whose transaction it is.
LEMMA RecordedBy ==
  ASSUME Inv, Recorded
  PROVE  \/ \E b \in Builds : lock.by = Publisher(b)
         \/ \E p \in Pkgs : lock.by = Remover(p)
BY DEF Recorded, Record

----------------------------------------------------------------------------
(* Rows, databases and files in step. *)

LEMMA NothingListed ==
  ASSUME Init, NEW n \in Names
  PROVE  rows[n] = Null /\ ~ListedIn(Effective(NamePlatform[n]), n)
BY PlatformOfName DEF Init, Effective, ListedIn

LEMMA SameKept ==
  ASSUME KeptInStep, Same
  PROVE  KeptInStep'
<1> SUFFICES ASSUME NEW n \in Names
             PROVE  LET db == Effective(NamePlatform[n])'
                    IN  /\ rows'[n] # Null <=> ListedIn(db, n)
                        /\ ListedIn(db, n) => db[EntryDir[n]].build = Contents(n)'
  BY DEF KeptInStep, ListedIn
<1> QED
  BY PlatformOfName DEF Same, KeptInStep

LEMMA RecordedKept ==
  ASSUME EntriesSeparate, Inv, KeptInStep, Recorded
  PROVE  KeptInStep'
<1> SUFFICES ASSUME NEW n \in Names
             PROVE  LET db == Effective(NamePlatform[n])'
                    IN  /\ rows'[n] # Null <=> ListedIn(db, n)
                        /\ ListedIn(db, n) => db[EntryDir[n]].build = Contents(n)'
  BY DEF KeptInStep, ListedIn
<1> DEFINE db == Effective(NamePlatform[n])
           d == EntryDir[n]
<1>1. /\ rows[n] # Null <=> ListedIn(db, n)
      /\ ListedIn(db, n) => db[d].build = Contents(n)
  BY DEF KeptInStep
<1>2. ASSUME /\ rows'[n] = rows[n] /\ Contents(n)' = Contents(n)
             /\ ListedIn(db', n) <=> ListedIn(db, n)
             /\ ListedIn(db, n) => db'[d] = db[d]
      PROVE  /\ rows'[n] # Null <=> ListedIn(db', n)
             /\ ListedIn(db', n) => db'[d].build = Contents(n)'
  BY <1>1, <1>2
<1>3. ASSUME NEW b \in Builds, lock.by = Publisher(b)
      PROVE  /\ rows'[n] # Null <=> ListedIn(db', n)
             /\ ListedIn(db', n) => db'[d].build = Contents(n)'
  <2>1. CASE n \in Produces[b]
    <3>1. /\ rows'[n] = PkgOf[b] /\ Contents(n)' = b
          /\ db'[d] = [name |-> n, build |-> b]
      BY <1>3, <2>1, RecordedBuild DEF Recorded
    <3>2. [name |-> n, build |-> b] # Null /\ PkgOf[b] # Null
      BY PublicationAssumption, NullAssumption DEF Entry
    <3>3. db'[d] # Null /\ db'[d].name = n /\ db'[d].build = b
      BY <3>1, <3>2
    <3> QED
      BY <3>1, <3>2, <3>3 DEF ListedIn
  <2>2. CASE n \notin Produces[b]
    BY <1>2, <1>3, <2>2, RecordedBuild DEF Recorded
  <2> QED
    BY <2>1, <2>2
<1>4. ASSUME NEW p \in Pkgs, lock.by = Remover(p)
      PROVE  /\ rows'[n] # Null <=> ListedIn(db', n)
             /\ ListedIn(db', n) => db'[d].build = Contents(n)'
  BY <1>2, <1>4, RecordedRemoval DEF Recorded
<1> QED
  BY <1>3, <1>4, RecordedBy

\* Replaying whatever plan is recorded always ends with the files table, the
\* databases and the files in step, for packages whose entries are separate.
THEOREM InStep ==
  ASSUME EntriesSeparate
  PROVE  Spec => []KeptInStep
<1>1. Init => KeptInStep
  BY NothingListed DEF KeptInStep
<1>2. Inv /\ KeptInStep /\ [Next]_vars => KeptInStep'
  BY RecordedOrSame, SameKept, RecordedKept
<1> QED
  BY <1>1, <1>2, InvHolds, PTL DEF Spec

----------------------------------------------------------------------------
(* The owners of files. *)

LEMMA NextOwners == Inv /\ OwnersExist /\ [Next]_vars => OwnersExist'
<1> SUFFICES ASSUME Inv, OwnersExist, [Next]_vars PROVE OwnersExist'
  OBVIOUS
<1>1. CASE Recorded
  <2>1. CASE \E b \in Builds : lock.by = Publisher(b) /\ RecordBuild(b)
    <3>1. PICK b \in Builds : lock.by = Publisher(b) /\ RecordBuild(b)
      BY <2>1
    <3>2. PkgOf[b] \in pkgs
      BY <3>1 DEF RecordBuild, Inv, BuildsGone
    <3> QED
      BY <3>1, <3>2 DEF RecordBuild, OwnersExist
  <2>2. CASE \E p \in Pkgs : lock.by = Remover(p) /\ RecordRemoval(p)
    BY <2>2 DEF RecordRemoval, OwnersExist
  <2> QED
    BY <1>1, <2>1, <2>2 DEF Recorded, Record
<1>2. CASE Same /\ ~Recorded
  <2>1. pkgs' = pkgs \/ Commit \/ CommitUnknown
    BY DEF Next, UpdateStep, ServerStep, PublishStep, vars, tables, TakeLock, FinishFile,
           FinishDatabase, FinishPlan, FinishFails, StageFails, CommitFails, Sweep, BootDone, Resume, Accept, RecoverDone, Load, StageBuild,
           Settle, Promote, Fail, Clean, StepFails, DeleteBuild, RemovePackage,
           StageRemoval, Crash, Tick
  <2>2. Commit \/ CommitUnknown => pkgs' = pkgs
    BY <1>2 DEF Recorded, Commit, CommitUnknown, shelves
  <2> QED
    BY <1>2, <2>1, <2>2 DEF Same, OwnersExist
<1> QED
  BY <1>1, <1>2, RecordedOrSame

\* The files table never names a package that was removed, whichever of
\* removal and publication takes the lock first.
THEOREM FilesHaveOwners == Spec => []OwnersExist
<1>1. Init => OwnersExist
  BY DEF Init, OwnersExist
<1> QED
  BY <1>1, NextOwners, InvHolds, PTL DEF Spec

----------------------------------------------------------------------------
(* Listed files exist. *)

\* Once the recorded plan is carried out, what is listed is there.
WillExist ==
    \A n \in Names : ListedIn(Effective(NamePlatform[n]), n) => Contents(n) # Null

\* A committed plan lists nothing but what it moves and what was listed.
LEMMA RecordedExist ==
  ASSUME Inv, WillExist, Recorded, NEW n \in Names, ListedIn(Effective(NamePlatform[n])', n)
  PROVE  Contents(n)' # Null
<1> DEFINE pl == NamePlatform[n]
           d == EntryDir[n]
<1>1. /\ planRow = Null /\ planRow' = lock.plan /\ lock.plan # Null
      /\ Effective(pl) = listing[pl] /\ Contents(n) = disk[n]
      /\ UNCHANGED <<listing, next, links, disk>>
  BY CommitFrame DEF Recorded
<1>2. ListedIn(listing[pl], n) => disk[n] # Null
  BY <1>1 DEF WillExist
<1>3. d \in Dirs /\ pl \in Platforms
  BY PlatformOfName
<1>4. ASSUME NEW b \in Builds \cup {Null}, NEW add \in SUBSET Names, NEW retire \in SUBSET Names,
             Staged(b, add, retire), add # {} => b \in Builds
      PROVE  Contents(n)' # Null
  <2>1. lock.plan.files = add /\ lock.plan.build = b
    BY <1>4 DEF Staged, PlanFor
  <2>2. CASE n \in add
    <3>1. <<b, n>> \in links
      BY <1>4, <2>2 DEF Staged
    <3>2. Contents(n)' = b
      BY <1>1, <2>1, <2>2, <3>1 DEF Contents
    <3> QED
      BY <1>4, <2>2, <3>2, NullAssumption
  <2>3. CASE n \notin add
    <3>1. Contents(n)' = disk[n]
      BY <1>1, <2>1, <2>3 DEF Contents
    <3>2. CASE Effective(pl)' = listing[pl]
      BY <1>2, <3>1, <3>2
    <3>3. CASE Effective(pl)' # listing[pl]
      <4>1. pl \in lock.plan.dbs /\ Effective(pl)' = next[pl]
        BY <1>1, <3>3 DEF Effective
      <4>2. ListedIn(UpdatedDatabase(pl, b, add, retire), n)
        BY <1>4, <4>1 DEF Staged
      <4> DEFINE at(S) == {m \in S : NamePlatform[m] = pl /\ EntryDir[m] = d}
                 db == UpdatedDatabase(pl, b, add, retire)
                 first == CHOOSE m \in at(add) : TRUE
      <4>3. db[d] = IF at(add) # {} THEN [name |-> first, build |-> b]
                    ELSE IF at(retire) # {} THEN Null ELSE listing[pl][d]
        BY <1>3 DEF UpdatedDatabase
      <4>4. db[d] # Null /\ db[d].name = n
        BY <4>2 DEF ListedIn
      <4>5. ASSUME at(add) # {} PROVE FALSE
        <5>1. first \in at(add) /\ first # n
          BY <2>3, <4>5
        <5>2. db[d].name = first
          BY <4>3, <4>5
        <5> QED
          BY <4>4, <5>1, <5>2
      <4>6. db[d] = listing[pl][d]
        BY <4>3, <4>4, <4>5
      <4> QED
        BY <1>2, <3>1, <4>4, <4>6 DEF ListedIn
    <3> QED
      BY <3>2, <3>3
  <2> QED
    BY <2>2, <2>3
<1>5. CASE \E b \in Builds : Staged(b, Produces[b], Stale(b))
  BY <1>4, <1>5, PublicationAssumption DEF Stale
<1>6. CASE \E p \in Pkgs : Staged(Null, {}, FilesOf(p))
  BY <1>4, <1>6 DEF FilesOf
<1> QED
  BY <1>5, <1>6 DEF Inv, StagedInStep, Recorded, Commits

LEMMA NextWillExist == Inv /\ WillExist /\ [Next]_vars => WillExist'
<1> SUFFICES ASSUME Inv, WillExist, [Next]_vars, NEW n \in Names,
                    ListedIn(Effective(NamePlatform[n])', n)
             PROVE  Contents(n)' # Null
  BY DEF WillExist, ListedIn
<1>1. CASE Recorded
  BY <1>1, RecordedExist
<1>2. CASE Same
  BY <1>2, PlatformOfName DEF Same, WillExist
<1> QED
  BY <1>1, <1>2, RecordedOrSame

LEMMA NextListed == Inv /\ WillExist /\ ListedFilesExist /\ [Next]_vars => ListedFilesExist'
<1> SUFFICES ASSUME Inv, WillExist, ListedFilesExist, [Next]_vars PROVE ListedFilesExist'
  OBVIOUS
<1>1. CASE UNCHANGED <<disk, listing>>
  BY <1>1 DEF ListedFilesExist, Listed, ListedIn
<1>2. CASE FinishFile
  <2>1. lock # Null /\ lock \in Lock /\ listing' = listing
    BY <1>2 DEF FinishFile, MoveFile, Moving, Inv, Types, TypeOK, ProcessesOK
  <2>2. PICK m \in lock.files : MoveFile(lock.plan, m)
    BY <1>2 DEF FinishFile
  <2>3. \A n \in Names : disk[n] # Null => disk'[n] # Null
    BY <2>2, NullAssumption DEF MoveFile, Inv, Types, TypeOK, RepositoryOK
  <2> QED
    BY <2>1, <2>3 DEF ListedFilesExist, Listed, ListedIn
<1>3. CASE FinishDatabase
  <2>1. disk' = disk /\ planRow = lock.plan /\ planRow # Null /\ lock \in Lock /\ lock.files = {}
    BY <1>3 DEF FinishDatabase, MoveDatabase, Moving, Inv, PlanInStep, Types, PlanHeld,
               TypeOK, ProcessesOK
  <2>2. PICK q \in lock.dbs : MoveDatabase(q)
    BY <1>3 DEF FinishDatabase
  <2>3. q \in planRow.dbs /\ q \in Platforms
    BY <1>3, <2>1, <2>2 DEF FinishDatabase, Inv, MovesDone, Lock
  <2>4. \A n \in Names : Contents(n) = disk[n]
    BY <1>3, <2>1 DEF FinishDatabase, Inv, MovesDone, Contents
  <2>5. ASSUME NEW n \in Names, ListedIn(listing'[NamePlatform[n]], n), next[q] # Null
        PROVE  disk[n] # Null
    <3>1. listing' = [listing EXCEPT ![q] = next[q]] /\ listing \in [Platforms -> Database]
      BY <2>2, <2>5 DEF MoveDatabase, Inv, Types, TypeOK, RepositoryOK
    <3>2. CASE NamePlatform[n] = q
      <4>1. listing'[q] = next[q] /\ Effective(q) = next[q]
        BY <2>1, <2>3, <2>5, <3>1 DEF Effective
      <4> QED
        BY <2>4, <2>5, <3>2, <4>1 DEF WillExist
    <3>3. CASE NamePlatform[n] # q
      BY <2>5, <3>1, <3>3, PlatformOfName DEF ListedFilesExist, Listed
    <3> QED
      BY <3>2, <3>3
  <2>6. next[q] = Null => listing' = listing
    BY <2>2 DEF MoveDatabase
  <2> QED
    BY <1>1, <2>1, <2>5, <2>6 DEF ListedFilesExist, Listed, ListedIn
<1>4. CASE Sweep
  <2>1. listing' = listing /\ \A n \in Names : Listed(n) => disk'[n] = disk[n]
    BY <1>4 DEF Sweep, SweepRetired, Retired
  <2> QED
    BY <2>1 DEF ListedFilesExist, Listed, ListedIn
<1>5. \/ UNCHANGED <<disk, listing>>
      \/ FinishFile \/ FinishDatabase \/ Sweep
  BY DEF Next, UpdateStep, ServerStep, PublishStep, vars, repository, shelves, TakeLock,
         FinishPlan, FinishFails, StageFails, Commit, CommitFails, CommitUnknown,
         BootDone, Resume, Accept, RecoverDone, Load, StageBuild, Settle, Promote, Fail,
         Clean, StepFails, DeleteBuild, RemovePackage, StageRemoval, Crash, Tick
<1> QED
  BY <1>1, <1>2, <1>3, <1>4, <1>5

\* No client is ever sent to a file that is not there, for any packages and
\* even where two of them share an entry of repo.db.
THEOREM ListedAreThere == Spec => []ListedFilesExist
<1>1. Init => WillExist /\ ListedFilesExist
  BY NothingListed, PlatformOfName DEF WillExist, ListedFilesExist, Listed, ListedIn, Init
<1> QED
  BY <1>1, NextWillExist, NextListed, InvHolds, PTL DEF Spec

----------------------------------------------------------------------------
(* Each update is one step of the catalogue. *)

LEMMA SameCatalogue ==
  ASSUME Same
  PROVE  CatalogueNow' = CatalogueNow
BY PlatformOfName DEF Same, CatalogueNow

LEMMA RecordedPublish ==
  ASSUME EntriesSeparate, Inv, KeptInStep, Recorded, NEW b \in Builds, lock.by = Publisher(b)
  PROVE  Publications!Publish(b)
<1> DEFINE entry(n) == [owner |-> rows[n],
                        build |-> LET db == Effective(NamePlatform[n])
                                  IN  IF ListedIn(db, n) THEN db[EntryDir[n]].build ELSE Null]
<1>1. ASSUME NEW n \in Names
      PROVE  entry(n)' = IF n \in Produces[b] THEN [owner |-> PkgOf[b], build |-> b]
                         ELSE IF n \in PlatformFiles[b] /\ rows[n] = PkgOf[b]
                         THEN [owner |-> Null, build |-> Null]
                         ELSE entry(n)
  <2> DEFINE db == Effective(NamePlatform[n])
             d == EntryDir[n]
  <2>1. n \in PlatformFiles[b] <=> NamePlatform[n] = PlatformOf[b]
    BY DEF PlatformFiles
  <2>2. CASE n \in Produces[b]
    <3>1. rows'[n] = PkgOf[b] /\ db'[d] = [name |-> n, build |-> b]
      BY <2>2, RecordedBuild DEF Recorded
    <3>2. [name |-> n, build |-> b] # Null
      BY NullAssumption DEF Entry
    <3>3. ListedIn(db', n) /\ db'[d].build = b
      BY <3>1, <3>2 DEF ListedIn
    <3> QED
      BY <2>2, <3>1, <3>3
  <2>3. CASE n \notin Produces[b] /\ rows[n] = PkgOf[b] /\ NamePlatform[n] = PlatformOf[b]
    <3>1. rows'[n] = Null /\ ~ListedIn(db', n)
      BY <2>3, RecordedBuild DEF Recorded
    <3> QED
      BY <2>1, <2>3, <3>1
  <2>4. CASE n \notin Produces[b] /\ ~(rows[n] = PkgOf[b] /\ NamePlatform[n] = PlatformOf[b])
    <3>1. /\ rows'[n] = rows[n]
          /\ ListedIn(db', n) <=> ListedIn(db, n)
          /\ ListedIn(db, n) => db'[d] = db[d]
      BY <2>4, RecordedBuild DEF Recorded
    <3> QED
      BY <2>1, <2>4, <3>1
  <2> QED
    BY <2>2, <2>3, <2>4
<1>2. CatalogueNow = [n \in Names |-> entry(n)] /\ CatalogueNow' = [n \in Names |-> entry(n)']
  BY DEF CatalogueNow
<1>3. \A n \in Names : CatalogueNow[n].owner = rows[n] /\ CatalogueNow[n] = entry(n)
  BY <1>2
<1> HIDE DEF entry
<1> QED
  BY <1>1, <1>2, <1>3 DEF Publications!Publish, Publications!Empty

LEMMA RecordedRemove ==
  ASSUME Inv, KeptInStep, Recorded, NEW p \in Pkgs, lock.by = Remover(p)
  PROVE  Publications!Remove(p)
<1> DEFINE entry(n) == [owner |-> rows[n],
                        build |-> LET db == Effective(NamePlatform[n])
                                  IN  IF ListedIn(db, n) THEN db[EntryDir[n]].build ELSE Null]
<1>1. ASSUME NEW n \in Names
      PROVE  entry(n)' = IF rows[n] = p THEN [owner |-> Null, build |-> Null] ELSE entry(n)
  <2> DEFINE db == Effective(NamePlatform[n])
             d == EntryDir[n]
  <2>1. CASE rows[n] = p
    <3>1. rows'[n] = Null /\ ~ListedIn(db', n)
      BY <2>1, RecordedRemoval DEF Recorded
    <3> QED
      BY <2>1, <3>1
  <2>2. CASE rows[n] # p
    <3>1. /\ rows'[n] = rows[n]
          /\ ListedIn(db', n) <=> ListedIn(db, n)
          /\ ListedIn(db, n) => db'[d] = db[d]
      BY <2>2, RecordedRemoval DEF Recorded
    <3> QED
      BY <2>2, <3>1
  <2> QED
    BY <2>1, <2>2
<1>2. CatalogueNow = [n \in Names |-> entry(n)] /\ CatalogueNow' = [n \in Names |-> entry(n)']
  BY DEF CatalogueNow
<1>3. \A n \in Names : CatalogueNow[n].owner = rows[n] /\ CatalogueNow[n] = entry(n)
  BY <1>2
<1> HIDE DEF entry
<1> QED
  BY <1>1, <1>2, <1>3 DEF Publications!Remove, Publications!Empty

\* Locks, plans, renames, replays, failed commits and crashes implement a
\* catalogue that publishes a build, or removes a package, in one step.
THEOREM ImplementsCatalogue ==
  ASSUME EntriesSeparate
  PROVE  Spec => CatalogueSpec
<1>1. Init => Publications!Init
  BY NothingListed DEF Publications!Init, Publications!Empty, CatalogueNow
<1>2. ASSUME Inv, KeptInStep, [Next]_vars
      PROVE  [Publications!Next]_CatalogueNow
  <2>1. CASE Recorded
    BY <1>2, <2>1, RecordedBy, RecordedPublish, RecordedRemove DEF Publications!Next
  <2>2. CASE Same
    BY <2>2, SameCatalogue
  <2> QED
    BY <1>2, <2>1, <2>2, RecordedOrSame
<1> QED
  BY <1>1, <1>2, InStep, InvHolds, PTL DEF Spec, CatalogueSpec, Publications!Spec

----------------------------------------------------------------------------
(* Between the commit of a plan and its last rename. *)

\* The database that will list n, or not, is still beside the current one.
Pending(n) ==
    /\ planRow # Null
    /\ NamePlatform[n] \in planRow.dbs
    /\ next[NamePlatform[n]] # Null

\* The databases of a recorded plan differ from the current ones only by the
\* files the plan retires and those of its build.
PendingInStep ==
    \A n \in Names : Pending(n) =>
        LET pl == NamePlatform[n]
            d == EntryDir[n]
        IN  /\ Listed(n) /\ ~ListedIn(next[pl], n) => n \in planRow.retired
            /\ ListedIn(next[pl], n) =>
                  next[pl][d] = listing[pl][d] \/ next[pl][d].build = planRow.build

LEMMA RecordedPending ==
  ASSUME EntriesSeparate, Inv, KeptInStep, Recorded
  PROVE  PendingInStep'
<1> SUFFICES ASSUME NEW n \in Names, Pending(n)'
             PROVE  LET pl == NamePlatform[n]
                        d == EntryDir[n]
                    IN  /\ Listed(n)' /\ ~ListedIn(next'[pl], n) => n \in planRow'.retired
                        /\ ListedIn(next'[pl], n) =>
                              \/ next'[pl][d] = listing'[pl][d]
                              \/ next'[pl][d].build = planRow'.build
  BY DEF PendingInStep, ListedIn
<1> DEFINE pl == NamePlatform[n]
           d == EntryDir[n]
           db == Effective(pl)
<1>1. /\ planRow = Null /\ planRow' = lock.plan /\ lock.plan # Null
      /\ db = listing[pl] /\ UNCHANGED <<listing, next, links, disk>>
  BY CommitFrame DEF Recorded
<1>2. db' = next[pl] /\ next'[pl] = next[pl]
  BY <1>1 DEF Pending, Effective
<1>3. Listed(n)' <=> ListedIn(db, n)
  BY <1>1 DEF Listed, ListedIn
<1>4. ASSUME NEW b \in Builds, lock.by = Publisher(b)
      PROVE  /\ ListedIn(db, n) /\ ~ListedIn(db', n) => n \in lock.plan.retired
             /\ ListedIn(db', n) => db'[d] = db[d] \/ db'[d].build = lock.plan.build
  <2>1. Staged(b, Produces[b], Stale(b))
    BY <1>4, ProcessNames DEF Recorded, Inv, Commits, StagedInStep
  <2>2. lock.plan.build = b /\ lock.plan.retired = Stale(b)
    BY <2>1 DEF Staged, PlanFor, Stale
  <2>3. CASE n \in Produces[b]
    <3>1. db'[d] = [name |-> n, build |-> b]
      BY <1>4, <2>3, RecordedBuild DEF Recorded
    <3>2. [name |-> n, build |-> b] # Null
      BY NullAssumption DEF Entry
    <3>3. ListedIn(db', n) /\ db'[d].build = b
      BY <3>1, <3>2 DEF ListedIn
    <3> QED
      BY <2>2, <3>3
  <2>4. CASE n \notin Produces[b] /\ rows[n] = PkgOf[b] /\ NamePlatform[n] = PlatformOf[b]
    <3>1. ~ListedIn(db', n)
      BY <1>4, <2>4, RecordedBuild DEF Recorded
    <3> QED
      BY <2>2, <2>4, <3>1 DEF Stale
  <2>5. CASE n \notin Produces[b] /\ ~(rows[n] = PkgOf[b] /\ NamePlatform[n] = PlatformOf[b])
    <3>1. /\ ListedIn(db', n) <=> ListedIn(db, n)
          /\ ListedIn(db, n) => db'[d] = db[d]
      BY <1>4, <2>5, RecordedBuild DEF Recorded
    <3> QED
      BY <3>1
  <2> QED
    BY <2>3, <2>4, <2>5
<1>5. ASSUME NEW p \in Pkgs, lock.by = Remover(p)
      PROVE  /\ ListedIn(db, n) /\ ~ListedIn(db', n) => n \in lock.plan.retired
             /\ ListedIn(db', n) => db'[d] = db[d] \/ db'[d].build = lock.plan.build
  <2>1. Staged(Null, {}, FilesOf(p))
    BY <1>5, ProcessNames DEF Recorded, Inv, Commits, StagedInStep
  <2>2. lock.plan.retired = FilesOf(p)
    BY <2>1 DEF Staged, PlanFor
  <2>3. CASE rows[n] = p
    <3>1. ~ListedIn(db', n)
      BY <1>5, <2>3, RecordedRemoval DEF Recorded
    <3> QED
      BY <2>2, <2>3, <3>1 DEF FilesOf
  <2>4. CASE rows[n] # p
    <3>1. /\ ListedIn(db', n) <=> ListedIn(db, n)
          /\ ListedIn(db, n) => db'[d] = db[d]
      BY <1>5, <2>4, RecordedRemoval DEF Recorded
    <3> QED
      BY <3>1
  <2> QED
    BY <2>3, <2>4
<1>6. /\ ListedIn(db, n) /\ ~ListedIn(db', n) => n \in lock.plan.retired
      /\ ListedIn(db', n) => db'[d] = db[d] \/ db'[d].build = lock.plan.build
  BY <1>4, <1>5, RecordedBy
<1> QED
  BY <1>1, <1>2, <1>3, <1>6

\* Nothing but a commit and the renames of databases touches what is pending.
LEMMA PendingFrame ==
  ASSUME Inv, [Next]_vars
  PROVE  \/ Recorded \/ FinishDatabase
         \/ planRow' = Null
         \/ UNCHANGED <<planRow, listing, next>>
<1>1. CASE Commit \/ CommitUnknown
  BY <1>1 DEF Recorded, Commit, CommitUnknown, shelves
<1>2. CASE CommitFails
  BY <1>2 DEF CommitFails, Commits, Inv, PlanInStep
<1>3. CASE \/ \E b \in Builds : StageBuild(b)
           \/ \E p \in Pkgs : StageRemoval(p)
  BY <1>3 DEF StageBuild, StageRemoval, Held, Inv, PlanInStep
<1>4. CASE \E b \in Builds : \/ Accept(b) \/ Load(b) \/ Settle(b) \/ Promote(b) \/ Fail(b)
                             \/ Clean(b) \/ StepFails(b) \/ DeleteBuild(b) \/ RecoverDone(b)
  BY <1>4 DEF Accept, Load, Settle, Promote, Fail, Clean, StepFails, DeleteBuild, RecoverDone,
              repository, shelves
<1>5. CASE \/ \E who \in Processes : TakeLock(who)
           \/ FinishFile \/ FinishPlan \/ FinishFails \/ StageFails
           \/ \E p \in Pkgs : RemovePackage(p)
           \/ Sweep \/ BootDone \/ Resume \/ Crash \/ Tick \/ UNCHANGED vars
  BY <1>5 DEF TakeLock, FinishFile, MoveFile, FinishPlan, FinishFails, StageFails, RemovePackage,
              Sweep, SweepRetired, BootDone, Resume, Crash, Tick, vars, repository, shelves
<1> QED
  BY <1>1, <1>2, <1>3, <1>4, <1>5 DEF Next, UpdateStep, ServerStep, PublishStep

LEMMA FinishDatabasePending ==
  ASSUME Inv, PendingInStep, FinishDatabase
  PROVE  PendingInStep'
<1>1. planRow' = planRow
  BY DEF FinishDatabase
<1>2. lock \in Lock
  BY DEF FinishDatabase, Moving, Inv, Types, TypeOK, ProcessesOK
<1>3. PICK q \in lock.dbs : MoveDatabase(q)
  BY DEF FinishDatabase
<1>4. q \in Platforms
  BY <1>2, <1>3 DEF Lock
<1>5. CASE next[q] = Null
  <2>1. UNCHANGED <<listing, next>>
    BY <1>3, <1>5 DEF MoveDatabase
  <2> QED
    BY <1>1, <2>1 DEF PendingInStep, Pending, Listed, ListedIn
<1>6. CASE next[q] # Null
  <2>1. /\ next'[q] = Null
        /\ \A pl \in Platforms : pl # q => next'[pl] = next[pl] /\ listing'[pl] = listing[pl]
    BY <1>3, <1>4, <1>6 DEF MoveDatabase, Inv, Types, TypeOK, RepositoryOK
  <2>2. ASSUME NEW n \in Names, Pending(n)'
        PROVE  /\ Pending(n)
               /\ next'[NamePlatform[n]] = next[NamePlatform[n]]
               /\ listing'[NamePlatform[n]] = listing[NamePlatform[n]]
    BY <1>1, <2>1, <2>2, PlatformOfName DEF Pending
  <2> QED
    BY <1>1, <2>2 DEF PendingInStep, Listed, ListedIn
<1> QED
  BY <1>5, <1>6

LEMMA NextPending ==
  ASSUME EntriesSeparate, Inv, KeptInStep, PendingInStep, [Next]_vars
  PROVE  PendingInStep'
<1>1. CASE planRow' = Null
  BY <1>1 DEF PendingInStep, Pending
<1>2. CASE UNCHANGED <<planRow, listing, next>>
  BY <1>2 DEF PendingInStep, Pending, Listed, ListedIn
<1> QED
  BY <1>1, <1>2, PendingFrame, RecordedPending, FinishDatabasePending

----------------------------------------------------------------------------
(* The grace period. *)

\* What is known of a file that is not listed is not older than its last
\* listing, except while the plan that took it out has yet to note it.
RetiredAfterListed ==
    \A n \in Names : listedAt[n] # Null =>
        /\ listedAt[n] <= now
        /\ ~Listed(n) /\ retiredAt[n] # Null =>
              listedAt[n] <= retiredAt[n] \/ (planRow # Null /\ n \in planRow.retired)

LEMMA Times ==
  ASSUME Inv
  PROVE  /\ now \in Nat
         /\ \A n \in Names : /\ listedAt[n] # Null => listedAt[n] \in Nat
                             /\ retiredAt[n] # Null => retiredAt[n] \in Nat
BY PublicationAssumption DEF Inv, Types, TypeOK, RepositoryOK

LEMMA FinishDatabaseRetired ==
  ASSUME Inv, PendingInStep, RetiredAfterListed, FinishDatabase
  PROVE  RetiredAfterListed'
<1>1. UNCHANGED <<planRow, now, retiredAt>> /\ planRow = lock.plan /\ planRow # Null
  BY DEF FinishDatabase, Moving, Inv, PlanInStep, Types, PlanHeld
<1>2. lock \in Lock
  BY DEF FinishDatabase, Moving, Inv, Types, TypeOK, ProcessesOK
<1>3. PICK q \in lock.dbs : MoveDatabase(q)
  BY DEF FinishDatabase
<1>4. q \in Platforms /\ q \in planRow.dbs
  BY <1>1, <1>2, <1>3 DEF Lock, FinishDatabase, Inv, MovesDone
<1>5. CASE next[q] = Null
  <2>1. UNCHANGED <<listing, listedAt>>
    BY <1>3, <1>5 DEF MoveDatabase
  <2> QED
    BY <1>1, <2>1 DEF RetiredAfterListed, Listed, ListedIn
<1>6. CASE next[q] # Null
  <2>1. /\ listing'[q] = next[q]
        /\ \A pl \in Platforms : pl # q => listing'[pl] = listing[pl]
        /\ \A n \in Names : listedAt'[n] =
              IF NamePlatform[n] = q /\ (Listed(n) \/ ListedIn(next[q], n))
              THEN now ELSE listedAt[n]
    BY <1>3, <1>4, <1>6 DEF MoveDatabase, Inv, Types, TypeOK, RepositoryOK
  <2> SUFFICES ASSUME NEW n \in Names, listedAt'[n] # Null
               PROVE  /\ listedAt'[n] <= now
                      /\ ~Listed(n)' /\ retiredAt[n] # Null =>
                            listedAt'[n] <= retiredAt[n] \/ n \in planRow.retired
    BY <1>1 DEF RetiredAfterListed
  <2>2. CASE NamePlatform[n] # q
    <3>1. listedAt'[n] = listedAt[n] /\ (Listed(n)' <=> Listed(n))
      BY <2>1, <2>2, PlatformOfName DEF Listed, ListedIn
    <3> QED
      BY <3>1 DEF RetiredAfterListed
  <2>3. CASE NamePlatform[n] = q /\ ~Listed(n) /\ ~ListedIn(next[q], n)
    BY <2>1, <2>3 DEF RetiredAfterListed
  <2>4. CASE NamePlatform[n] = q /\ ListedIn(next[q], n)
    <3>1. listedAt'[n] = now /\ Listed(n)'
      BY <2>1, <2>4 DEF Listed, ListedIn
    <3> QED
      BY <3>1, Times
  <2>5. CASE NamePlatform[n] = q /\ Listed(n) /\ ~ListedIn(next[q], n)
    <3>1. listedAt'[n] = now
      BY <2>1, <2>5
    <3>2. n \in planRow.retired
      BY <1>1, <1>4, <1>6, <2>5 DEF PendingInStep, Pending
    <3> QED
      BY <3>1, <3>2, Times
  <2> QED
    BY <2>2, <2>3, <2>4, <2>5
<1> QED
  BY <1>5, <1>6

\* The end of a plan notes what it took out; the sweep notes what it found.
LEMMA NotedRetired ==
  ASSUME Inv, RetiredAfterListed, FinishPlan \/ Sweep \/ Crash
  PROVE  RetiredAfterListed'
<1>1. UNCHANGED <<now, listing, listedAt>>
  BY DEF FinishPlan, Sweep, SweepRetired, Crash, shelves
<1>2. \A n \in Names : Listed(n)' <=> Listed(n)
  BY <1>1 DEF Listed, ListedIn
<1>3. ASSUME NEW n \in Names, listedAt[n] # Null, ~Listed(n), retiredAt'[n] # Null
      PROVE  listedAt[n] <= retiredAt'[n] \/ (planRow' # Null /\ n \in planRow'.retired)
  <2>1. listedAt[n] <= now
    BY <1>3 DEF RetiredAfterListed
  <2>2. CASE retiredAt'[n] = now
    BY <2>1, <2>2
  <2>3. CASE retiredAt'[n] # now
    <3>1. CASE FinishPlan
      <4>1. n \notin lock.plan.retired /\ retiredAt'[n] = retiredAt[n] /\ planRow = lock.plan
        BY <2>3, <3>1 DEF FinishPlan, NoteRetired, Moving, Inv, PlanInStep
      <4> QED
        BY <1>3, <4>1 DEF RetiredAfterListed
    <3>2. CASE Sweep
      <4>1. retiredAt'[n] = Since(n) \/ retiredAt'[n] = Null
        BY <3>2 DEF Sweep, SweepRetired
      <4>2. retiredAt[n] # Null /\ retiredAt'[n] = retiredAt[n] /\ planRow' = planRow
        BY <1>3, <2>3, <3>2, <4>1 DEF Since, Sweep
      <4> QED
        BY <1>3, <4>2 DEF RetiredAfterListed
    <3>3. CASE Crash
      BY <1>3, <3>3 DEF Crash
    <3> QED
      BY <3>1, <3>2, <3>3
  <2> QED
    BY <2>2, <2>3
<1> QED
  BY <1>1, <1>2, <1>3 DEF RetiredAfterListed

LEMMA NextRetired ==
  ASSUME Inv, PendingInStep, RetiredAfterListed, [Next]_vars
  PROVE  RetiredAfterListed'
<1>1. CASE FinishDatabase
  BY <1>1, FinishDatabaseRetired
<1>2. CASE FinishPlan \/ Sweep \/ Crash
  BY <1>2, NotedRetired
<1>3. ASSUME ~FinishDatabase, ~FinishPlan, ~Sweep, ~Crash
      PROVE  /\ UNCHANGED <<listing, retiredAt, listedAt>>
             /\ now' = now \/ now' = now + 1
  BY <1>3 DEF Next, UpdateStep, ServerStep, PublishStep, vars, repository, shelves, TakeLock,
         FinishFile, MoveFile, FinishFails, StageFails, Commit, CommitFails, CommitUnknown,
         BootDone, Resume, Accept, RecoverDone, Load, StageBuild, Settle, Promote, Fail,
         Clean, StepFails, DeleteBuild, RemovePackage, StageRemoval, Tick
<1>4. ASSUME ~FinishDatabase, ~FinishPlan, ~Sweep, ~Crash
      PROVE  planRow' = planRow \/ planRow = Null
  <2>1. CASE Recorded
    BY <2>1, CommitFrame DEF Recorded
  <2>2. CASE ~Recorded
    BY <1>4, <2>2
       DEF Next, UpdateStep, ServerStep, PublishStep, vars, repository, shelves, TakeLock,
         FinishFile, FinishFails, StageFails, Commit, CommitFails, CommitUnknown, Recorded,
         BootDone, Resume, Accept, RecoverDone, Load, StageBuild, Settle, Promote, Fail,
         Clean, StepFails, DeleteBuild, RemovePackage, StageRemoval, Tick
  <2> QED
    BY <2>1, <2>2
<1>5. ASSUME ~FinishDatabase, ~FinishPlan, ~Sweep, ~Crash
      PROVE  RetiredAfterListed'
  <2>1. \A n \in Names : Listed(n)' <=> Listed(n)
    BY <1>3, <1>5 DEF Listed, ListedIn
  <2>2. ASSUME NEW n \in Names, listedAt[n] # Null
        PROVE  listedAt[n] <= now'
    BY <1>3, <1>5, <2>2, Times DEF RetiredAfterListed
  <2>3. ASSUME NEW n \in Names, listedAt[n] # Null, ~Listed(n), retiredAt[n] # Null
        PROVE  listedAt[n] <= retiredAt[n] \/ (planRow' # Null /\ n \in planRow'.retired)
    BY <1>4, <1>5, <2>3 DEF RetiredAfterListed
  <2> QED
    BY <1>3, <1>5, <2>1, <2>2, <2>3 DEF RetiredAfterListed
<1> QED
  BY <1>1, <1>2, <1>5

\* A file leaves the disk only by a sweep, and only the sweep's own test
\* and the times kept stand between a client and a file it was listed.
LEMMA SweepWaits ==
  ASSUME Inv, RetiredAfterListed, [Next]_vars, NEW n \in Names, disk[n] # Null, disk'[n] = Null
  PROVE  ~Listed(n) /\ (listedAt[n] # Null => now - listedAt[n] >= Grace)
<1>1. ASSUME FinishFile PROVE FALSE
  <2>1. PICK m \in lock.files : MoveFile(lock.plan, m)
    BY <1>1 DEF FinishFile
  <2>2. <<lock.plan.build, m>> \in links => lock.plan.build \in Builds
    BY DEF Inv, Types, TypeOK, RepositoryOK
  <2> QED
    BY <2>1, <2>2, NullAssumption DEF MoveFile, Inv, Types, TypeOK, RepositoryOK
<1>2. Sweep
  BY <1>1 DEF Next, UpdateStep, ServerStep, PublishStep, vars, repository, shelves, TakeLock,
         FinishDatabase, MoveDatabase, FinishPlan, FinishFails, StageFails, Commit, CommitFails,
         CommitUnknown, BootDone, Resume, Accept, RecoverDone, Load, StageBuild, Settle, Promote,
         Fail, Clean, StepFails, DeleteBuild, RemovePackage, StageRemoval, Crash, Tick
<1>3. ~Listed(n) /\ now - Since(n) >= Grace /\ planRow = Null
  BY <1>2 DEF Sweep, SweepRetired, Retired, Held, Inv, PlanInStep
<1>4. listedAt[n] # Null => listedAt[n] <= Since(n) /\ Since(n) \in Nat
  BY <1>3, Times DEF Since, RetiredAfterListed
<1> QED
  BY <1>3, <1>4, Times, RepositoryAssumption

\* A file stays on the disk until no database has listed it for the grace
\* period, however restarts and interrupted updates fall.
THEOREM SweptAfterGraceHolds ==
  ASSUME EntriesSeparate
  PROVE  Spec => SweptAfterGrace
<1>1. Init => PendingInStep /\ RetiredAfterListed
  BY DEF Init, PendingInStep, Pending, RetiredAfterListed
<1>2. Inv /\ KeptInStep /\ PendingInStep /\ RetiredAfterListed /\ [Next]_vars
        => PendingInStep' /\ RetiredAfterListed'
  BY NextPending, NextRetired
<1>3. Inv /\ RetiredAfterListed /\ [Next]_vars =>
        [\A n \in Names : disk[n] # Null /\ disk'[n] = Null
          => ~Listed(n) /\ (listedAt[n] # Null => now - listedAt[n] >= Grace)]_vars
  BY SweepWaits
<1> QED
  BY <1>1, <1>2, <1>3, InStep, InvHolds, PTL DEF Spec, SweptAfterGrace

----------------------------------------------------------------------------
(* A build settles when it is served. *)

\* Completions are accepted one at a time for a package and platform.
OnePublishing ==
    \A b, c \in Builds :
        /\ status[b] = "Publishing" /\ status[c] = "Publishing"
        /\ PkgOf[b] = PkgOf[c] /\ PlatformOf[b] = PlatformOf[c]
        => b = c

\* While a recorded build is PUBLISHING nobody else's update of its package
\* can replace what it published.
RecordedOwns ==
    \A b \in recorded :
        /\ status[b] # "Active"
        /\ status[b] = "Publishing" =>
              \A n \in Produces[b] : rows[n] = PkgOf[b] => Contents(n) = b

\* Only a recorded build is about to settle.
SettlesRecorded ==
    \A b \in Builds :
        /\ task[b] = "Settle" => b \in recorded
        /\ Held(Publisher(b), "Finish") => b \in recorded

\* What a step may do to a status and to the recorded builds.
LEMMA StatusFrame ==
  ASSUME Inv, [Next]_vars, ~Recorded
  PROVE  /\ recorded' = recorded
         /\ \A b \in Builds : \/ status'[b] = status[b] \/ Accept(b)
                              \/ status'[b] \notin {"Active", "Publishing"}
<1>1. status \in [Builds -> {"Active", "Publishing", "Successful", "Failed", "Deleted"}]
  BY DEF Inv, Types, TypeOK, TablesOK
<1>2. CASE Commit \/ CommitUnknown
  BY <1>2 DEF Recorded, Commit, CommitUnknown, shelves
<1>3. CASE \E c \in Builds : Accept(c) \/ Settle(c) \/ Fail(c) \/ DeleteBuild(c)
  BY <1>1, <1>3 DEF Accept, Settle, Fail, DeleteBuild
<1>4. CASE UNCHANGED tables
  BY <1>4 DEF tables
<1>5. CASE \E c \in Builds : Promote(c)
  BY <1>5 DEF Promote
<1> QED
  BY <1>2, <1>3, <1>4, <1>5
     DEF Next, UpdateStep, ServerStep, PublishStep, vars, TakeLock, FinishFile, FinishDatabase,
         FinishPlan, FinishFails, StageFails, CommitFails, Sweep, BootDone, Resume, RecoverDone,
         Load, StageBuild, Clean, StepFails, RemovePackage, StageRemoval, Crash, Tick

\* What the transaction of a commit does to them.
LEMMA RecordedFrame ==
  ASSUME Inv, Recorded
  PROVE  /\ \A b \in Builds : status'[b] = status[b] \/ status'[b] = "Deleted"
         /\ \A b \in Builds : lock.by = Publisher(b) =>
               status[b] = "Publishing" /\ recorded' = recorded \cup {b} /\ status' = status
         /\ \A p \in Pkgs : lock.by = Remover(p) => recorded' = recorded
BY ProcessNames DEF Recorded, Record, RecordBuild, RecordRemoval

LEMMA NextOnePublishing ==
  ASSUME Inv, OnePublishing, [Next]_vars
  PROVE  OnePublishing'
<1>1. CASE Recorded
  <2>1. \A b \in Builds : status'[b] = "Publishing" => status[b] = "Publishing"
    BY <1>1, RecordedFrame
  <2> QED
    BY <2>1 DEF OnePublishing
<1>2. CASE ~Recorded
  <2>1. CASE \E c \in Builds : Accept(c)
    <3>1. PICK c \in Builds : Accept(c)
      BY <2>1
    <3>2. /\ \A b \in Builds : b # c => status'[b] = status[b]
          /\ \A b \in Builds : PkgOf[b] = PkgOf[c] /\ PlatformOf[b] = PlatformOf[c] =>
                status[b] # "Publishing"
      BY <3>1 DEF Accept, Inv, Types, TypeOK, TablesOK
    <3> QED
      BY <3>2 DEF OnePublishing
  <2>2. CASE ~\E c \in Builds : Accept(c)
    <3>1. \A b \in Builds : status'[b] = "Publishing" => status[b] = "Publishing"
      BY <1>2, <2>2, StatusFrame
    <3> QED
      BY <3>1 DEF OnePublishing
  <2> QED
    BY <2>1, <2>2
<1> QED
  BY <1>1, <1>2

LEMMA RecordedStillOwns ==
  ASSUME EntriesSeparate, Inv, KeptInStep, OnePublishing, RecordedOwns, Recorded
  PROVE  RecordedOwns'
<1> SUFFICES ASSUME NEW b \in recorded'
             PROVE  /\ status'[b] # "Active"
                    /\ status'[b] = "Publishing" =>
                          \A n \in Produces[b] : rows'[n] = PkgOf[b] => Contents(n)' = b
  BY DEF RecordedOwns
<1>0. recorded \subseteq Builds
  BY DEF Inv, Types, TypeOK, TablesOK
<1>1. ASSUME NEW c \in Builds, lock.by = Publisher(c)
      PROVE  /\ status'[b] # "Active"
             /\ status'[b] = "Publishing" =>
                   \A n \in Produces[b] : rows'[n] = PkgOf[b] => Contents(n)' = b
  <2>1. status' = status /\ status[c] = "Publishing" /\ recorded' = recorded \cup {c}
    BY <1>1, RecordedFrame
  <2>2. b \in Builds /\ status'[b] # "Active"
    BY <1>0, <2>1 DEF RecordedOwns
  <2>3. ASSUME status'[b] = "Publishing", NEW n \in Produces[b], rows'[n] = PkgOf[b]
        PROVE  Contents(n)' = b
    <3>1. n \in Names /\ NamePlatform[n] = PlatformOf[b]
      BY <2>2, PublicationAssumption
    <3>2. CASE n \in Produces[c]
      <4>1. rows'[n] = PkgOf[c] /\ Contents(n)' = c
        BY <1>1, <3>1, <3>2, RecordedBuild DEF Recorded
      <4>2. NamePlatform[n] = PlatformOf[c]
        BY <3>2, PublicationAssumption
      <4>3. b = c
        BY <2>1, <2>2, <2>3, <3>1, <4>1, <4>2 DEF OnePublishing
      <4> QED
        BY <4>1, <4>3
    <3>3. CASE n \notin Produces[c] /\ rows[n] = PkgOf[c] /\ NamePlatform[n] = PlatformOf[c]
      <4>1. rows'[n] = Null
        BY <1>1, <3>1, <3>3, RecordedBuild DEF Recorded
      <4> QED
        BY <2>2, <2>3, <4>1, PublicationAssumption, NullAssumption
    <3>4. CASE n \notin Produces[c] /\ ~(rows[n] = PkgOf[c] /\ NamePlatform[n] = PlatformOf[c])
      <4>1. rows'[n] = rows[n] /\ Contents(n)' = Contents(n)
        BY <1>1, <3>1, <3>4, RecordedBuild DEF Recorded
      <4>2. b \in recorded
        BY <2>1, <2>3, <3>4
      <4> QED
        BY <2>1, <2>3, <4>1, <4>2 DEF RecordedOwns
    <3> QED
      BY <3>2, <3>3, <3>4
  <2> QED
    BY <2>2, <2>3
<1>2. ASSUME NEW p \in Pkgs, lock.by = Remover(p)
      PROVE  /\ status'[b] # "Active"
             /\ status'[b] = "Publishing" =>
                   \A n \in Produces[b] : rows'[n] = PkgOf[b] => Contents(n)' = b
  <2>1. b \in recorded /\ b \in Builds
    BY <1>0, <1>2, RecordedFrame
  <2>2. status'[b] = status[b] \/ status'[b] = "Deleted"
    BY <2>1, RecordedFrame
  <2>3. ASSUME status'[b] = "Publishing", NEW n \in Produces[b], rows'[n] = PkgOf[b]
        PROVE  Contents(n)' = b
    <3>1. n \in Names /\ PkgOf[b] # Null
      BY <2>1, PublicationAssumption, NullAssumption
    <3>2. rows[n] # p
      BY <1>2, <2>3, <3>1, RecordedRemoval DEF Recorded
    <3>3. rows'[n] = rows[n] /\ Contents(n)' = Contents(n)
      BY <1>2, <3>1, <3>2, RecordedRemoval DEF Recorded
    <3> QED
      BY <2>1, <2>2, <2>3, <3>3 DEF RecordedOwns
  <2> QED
    BY <2>1, <2>2, <2>3 DEF RecordedOwns
<1> QED
  BY <1>1, <1>2, RecordedBy

LEMMA NextOwns ==
  ASSUME EntriesSeparate, Inv, KeptInStep, OnePublishing, RecordedOwns, [Next]_vars
  PROVE  RecordedOwns'
<1>1. CASE Recorded
  BY <1>1, RecordedStillOwns
<1>2. CASE ~Recorded
  <2>1. Same /\ recorded' = recorded /\ recorded \subseteq Builds
    BY <1>2, RecordedOrSame, StatusFrame DEF Inv, Types, TypeOK, TablesOK
  <2>2. ASSUME NEW b \in recorded
        PROVE  status'[b] = status[b] \/ status'[b] \notin {"Active", "Publishing"}
    <3>1. ~Accept(b)
      BY <2>2 DEF Accept, RecordedOwns
    <3> QED
      BY <1>2, <2>1, <2>2, <3>1, StatusFrame
  <2>3. ASSUME NEW b \in recorded, status'[b] = "Publishing",
               NEW n \in Produces[b], rows'[n] = PkgOf[b]
        PROVE  Contents(n)' = b
    <3>1. n \in Names /\ PkgOf[b] # Null
      BY <2>1, PublicationAssumption, NullAssumption
    <3>2. rows[n] = PkgOf[b] /\ Contents(n) = b
      BY <2>1, <2>2, <2>3 DEF Same, RecordedOwns
    <3>3. ListedIn(Effective(NamePlatform[n]), n)
      BY <3>1, <3>2 DEF KeptInStep
    <3> QED
      BY <2>1, <3>1, <3>2, <3>3 DEF Same
  <2> QED
    BY <2>1, <2>2, <2>3 DEF RecordedOwns
<1> QED
  BY <1>1, <1>2

\* Leaving the lock with anything but "Settle" lets nobody settle.
LEMMA ReleaseSettles ==
  ASSUME SettlesRecorded, NEW then, Release(then), recorded \subseteq recorded',
         \A b \in Builds : then = "Settle" /\ lock.by = Publisher(b) => b \in recorded'
  PROVE  SettlesRecorded'
BY DEF SettlesRecorded, Release, Held

LEMMA NextSettles ==
  ASSUME Inv, SettlesRecorded, [Next]_vars
  PROVE  SettlesRecorded'
<1>1. recorded \subseteq recorded'
  <2>1. CASE Recorded
    BY <2>1, RecordedBy, RecordedFrame
  <2>2. CASE ~Recorded
    BY <2>2, StatusFrame
  <2> QED
    BY <2>1, <2>2
<1>2. CASE UNCHANGED <<task, lock>>
  BY <1>1, <1>2 DEF SettlesRecorded, Held
<1>3. CASE \E who \in Processes : TakeLock(who)
  <2>1. task' = task /\ lock'.step # "Finish"
    BY <1>3, FinalizingType, OpenType
       DEF TakeLock, Steps, Inv, Types, TypeOK, RepositoryOK
  <2> QED
    BY <1>1, <2>1 DEF SettlesRecorded, Held
<1>4. CASE FinishFile \/ FinishDatabase
  <2>1. lock # Null /\ lock \in Lock
    BY <1>4 DEF FinishFile, FinishDatabase, Moving, Inv, Types, TypeOK, ProcessesOK
  <2>2. task' = task /\ lock'.by = lock.by /\ lock'.step = lock.step
    BY <1>4, <2>1 DEF FinishFile, FinishDatabase, Lock
  <2> QED
    BY <1>1, <2>1, <2>2 DEF SettlesRecorded, Held
<1>5. CASE FinishPlan
  <2>1. lock # Null /\ lock \in Lock /\ lock.step \in {"Replay", "Finish"}
    BY <1>5 DEF FinishPlan, Moving, Inv, Types, TypeOK, ProcessesOK
  <2>2. CASE lock.step = "Replay"
    <3>1. task' = task /\ lock'.step = "Open"
      BY <1>5, <2>1, <2>2 DEF FinishPlan, Lock
    <3> QED
      BY <1>1, <3>1 DEF SettlesRecorded, Held
  <2>3. CASE lock.step = "Finish"
    <3>1. Release("Settle")
      BY <1>5, <2>3 DEF FinishPlan
    <3>2. \A b \in Builds : lock.by = Publisher(b) => b \in recorded
      BY <2>1, <2>3 DEF SettlesRecorded, Held
    <3> QED
      BY <1>1, <3>1, <3>2, ReleaseSettles
  <2> QED
    BY <2>1, <2>2, <2>3
<1>6. CASE \/ FinishFails \/ StageFails \/ CommitUnknown \/ BootDone
           \/ \E b \in Builds : RecoverDone(b)
  <2>1. Release("Recover") \/ Release("Fail") \/ Release("None") \/ Release("Load")
    BY <1>6 DEF FinishFails, StageFails, CommitUnknown, BootDone, RecoverDone
  <2> QED
    BY <1>1, <2>1, ReleaseSettles
<1>7. CASE Commit
  <2>1. task' = task /\ lock \in Lock /\ lock.plan \in Plan /\ lock.by \in Processes
    BY <1>7 DEF Commit, Commits, Inv, Types, TypeOK, ProcessesOK, PlanHeld, Lock
  <2>2. lock'.by = lock.by
    BY <1>7, <2>1, FinalizingType DEF Commit, Steps
  <2>3. Recorded
    BY <1>7 DEF Commit, Recorded, shelves
  <2>4. \A b \in Builds : lock.by = Publisher(b) => b \in recorded'
    BY <2>3, RecordedFrame
  <2> QED
    BY <1>1, <2>1, <2>2, <2>4 DEF SettlesRecorded, Held
<1>8. CASE CommitFails
  <2>1. CASE lock.attempt < CommitAttempts
    <3>1. task' = task /\ lock'.step = "Commit"
      BY <1>8, <2>1 DEF CommitFails, Commits, Inv, Types, TypeOK, ProcessesOK, Lock
    <3> QED
      BY <1>1, <3>1 DEF SettlesRecorded, Held
  <2>2. CASE ~(lock.attempt < CommitAttempts)
    <3>1. Release("Fail")
      BY <1>8, <2>2 DEF CommitFails
    <3> QED
      BY <1>1, <3>1, ReleaseSettles
  <2> QED
    BY <2>1, <2>2
<1>9. CASE \E b \in Builds : StageBuild(b)
  <2>1. PICK b \in Builds : StageBuild(b)
    BY <1>9
  <2>2. CASE Conflicts(b) # {}
    <3>1. Release("Fail")
      BY <2>1, <2>2 DEF StageBuild
    <3> QED
      BY <1>1, <3>1, ReleaseSettles
  <2>3. CASE Conflicts(b) = {}
    <3>1. lock'.step = "Commit"
      BY <2>1, <2>3 DEF StageBuild, Held, Inv, Types, TypeOK, ProcessesOK, Lock
    <3>2. \A c \in Builds : task'[c] = "Settle" => task[c] = "Settle"
      BY <2>1, <2>3 DEF StageBuild, Inv, Types, TypeOK, ProcessesOK
    <3> QED
      BY <1>1, <3>1, <3>2 DEF SettlesRecorded, Held
  <2> QED
    BY <2>2, <2>3
<1>10. CASE \E p \in Pkgs : StageRemoval(p)
  <2>1. PICK p \in Pkgs : StageRemoval(p)
    BY <1>10
  <2>2. CASE Needed(p)
    <3>1. Release("None")
      BY <2>1, <2>2 DEF StageRemoval
    <3> QED
      BY <1>1, <3>1, ReleaseSettles
  <2>3. CASE ~Needed(p)
    <3>1. lock'.step = "Commit" /\ task' = task
      BY <2>1, <2>3 DEF StageRemoval, Held, Inv, Types, TypeOK, ProcessesOK, Lock
    <3> QED
      BY <1>1, <3>1 DEF SettlesRecorded, Held
  <2> QED
    BY <2>2, <2>3
<1>11. CASE \E b \in Builds : Load(b)
  <2>1. PICK b \in Builds : Load(b)
    BY <1>11
  <2>2. lock' = lock /\ \A c \in Builds : c # b => task'[c] = task[c]
    BY <2>1 DEF Load, Inv, Types, TypeOK, ProcessesOK
  <2>3. task'[b] = AfterLoad(b)
    BY <2>1 DEF Load, Inv, Types, TypeOK, ProcessesOK
  <2>4. AfterLoad(b) = "Settle" => b \in recorded
    BY DEF AfterLoad
  <2> QED
    BY <1>1, <2>2, <2>3, <2>4 DEF SettlesRecorded, Held
<1>12. CASE \E b \in Builds : \/ Accept(b) \/ Settle(b) \/ Promote(b) \/ Fail(b)
                              \/ Clean(b) \/ StepFails(b) \/ DeleteBuild(b)
  <2>1. lock' = lock /\ \A c \in Builds : task'[c] = "Settle" => task[c] = "Settle"
    BY <1>12 DEF Accept, Settle, Promote, Fail, Clean, StepFails, DeleteBuild,
                 Inv, Types, TypeOK, ProcessesOK
  <2> QED
    BY <1>1, <2>1 DEF SettlesRecorded, Held
<1>13. CASE Sweep \/ Resume \/ Crash
  <2>1. /\ lock' = lock \/ lock' = Null
        /\ \A c \in Builds : task'[c] = "Settle" => task[c] = "Settle"
    BY <1>13 DEF Sweep, Resume, Crash
  <2> QED
    BY <1>1, <2>1 DEF SettlesRecorded, Held
<1>14. CASE Tick \/ \E p \in Pkgs : RemovePackage(p)
  BY <1>2, <1>14 DEF Tick, RemovePackage
<1>15. CASE UNCHANGED vars
  BY <1>2, <1>15 DEF vars
<1> QED
  BY <1>3, <1>4, <1>5, <1>6, <1>7, <1>8, <1>9, <1>10, <1>11, <1>12, <1>13, <1>14, <1>15
     DEF Next, UpdateStep, ServerStep, PublishStep

\* A recorded build with no plan of its own left to carry out is served,
\* whoever's plan is half done in the meantime.
LEMMA RecordedIsServed ==
  ASSUME Inv, KeptInStep, PendingInStep, RecordedOwns,
         NEW b \in recorded, status[b] = "Publishing", planRow # Null => planRow.build # b,
         NEW n \in Produces[b], rows[n] = PkgOf[b]
  PROVE  Listed(n) /\ disk[n] = b
<1> DEFINE pl == NamePlatform[n]
           d == EntryDir[n]
<1>1. b \in Builds /\ n \in Names /\ PkgOf[b] # Null
  BY PublicationAssumption, NullAssumption DEF Inv, Types, TypeOK, TablesOK
<1>2. Contents(n) = b
  BY DEF RecordedOwns
<1>3. disk[n] = b
  BY <1>2 DEF Contents
<1>4. ListedIn(Effective(pl), n) /\ Effective(pl)[d].build = b
  BY <1>1, <1>2 DEF KeptInStep
<1>5. CASE Pending(n)
  <2>1. Effective(pl) = next[pl]
    BY <1>5 DEF Pending, Effective
  <2>2. next[pl][d] = listing[pl][d]
    BY <1>1, <1>4, <1>5, <2>1 DEF PendingInStep, Pending
  <2> QED
    BY <1>3, <1>4, <2>1, <2>2 DEF Listed, ListedIn
<1>6. CASE ~Pending(n)
  <2>1. Effective(pl) = listing[pl]
    BY <1>6 DEF Pending, Effective
  <2> QED
    BY <1>3, <1>4, <2>1 DEF Listed
<1> QED
  BY <1>5, <1>6

LEMMA SettledIsServed ==
  ASSUME Inv, KeptInStep, PendingInStep, RecordedOwns, SettlesRecorded, [Next]_vars,
         NEW b \in Builds, status[b] = "Publishing", status'[b] = "Successful",
         NEW n \in Produces[b], rows[n] = PkgOf[b]
  PROVE  Listed(n) /\ disk[n] = b
<1>1. status \in [Builds -> {"Active", "Publishing", "Successful", "Failed", "Deleted"}]
  BY DEF Inv, Types, TypeOK, TablesOK
<1>2. ~Recorded
  BY RecordedFrame
<1>3. Settle(b)
  <2>1. CASE Commit \/ CommitUnknown
    BY <1>2, <2>1 DEF Recorded, Commit, CommitUnknown, shelves
  <2>2. CASE \E c \in Builds : Accept(c) \/ Settle(c) \/ Fail(c) \/ DeleteBuild(c)
    BY <1>1, <2>2 DEF Accept, Settle, Fail, DeleteBuild
  <2>3. status' # status
    OBVIOUS
  <2> QED
    BY <2>1, <2>2, <2>3
       DEF Next, UpdateStep, ServerStep, PublishStep, vars, tables, TakeLock, FinishFile,
           FinishDatabase, FinishPlan, FinishFails, StageFails, CommitFails, Sweep, BootDone,
           Resume, RecoverDone, Load, StageBuild, Promote, Clean, StepFails, RemovePackage,
           StageRemoval, Crash, Tick
<1>4. b \in recorded /\ (planRow # Null => planRow.build # b)
  BY <1>3, OutsideTheLock DEF Settle, SettlesRecorded
<1> QED
  BY <1>4, RecordedIsServed

\* A build becomes SUCCESSFUL only when every file it produced that its
\* package still publishes is listed and is that build's, whatever failed,
\* crashed or was published by others since its update.
THEOREM SuccessfulIsServedHolds ==
  ASSUME EntriesSeparate
  PROVE  Spec => SuccessfulIsServed
<1>1. Init => PendingInStep /\ OnePublishing /\ RecordedOwns /\ SettlesRecorded
  BY DEF Init, PendingInStep, Pending, OnePublishing, RecordedOwns, SettlesRecorded, Held
<1>2. /\ Inv /\ KeptInStep /\ PendingInStep /\ OnePublishing /\ RecordedOwns /\ SettlesRecorded
      /\ [Next]_vars
      => PendingInStep' /\ OnePublishing' /\ RecordedOwns' /\ SettlesRecorded'
  BY NextPending, NextOnePublishing, NextOwns, NextSettles
<1>3. Inv /\ KeptInStep /\ PendingInStep /\ RecordedOwns /\ SettlesRecorded /\ [Next]_vars =>
        [\A b \in Builds : status[b] = "Publishing" /\ status'[b] = "Successful"
          => \A n \in Produces[b] : rows[n] = PkgOf[b] => Listed(n) /\ disk[n] = b]_vars
  BY SettledIsServed
<1> QED
  BY <1>1, <1>2, <1>3, InStep, InvHolds, PTL DEF Spec, SuccessfulIsServed

============================================================================
