---------------------------- MODULE Repository ----------------------------
(***************************************************************************)
(* The pacman repository on disk and the rows that describe it: what an    *)
(* update stages, the plan that carries it over a crash, the moves that    *)
(* put it into place and the sweep.  A file name stands for its package    *)
(* file and the signature that moves with it, the contents of a file for   *)
(* the build they came from, repo.db for itself and repo.files.            *)
(*                                                                         *)
(* This module has the state and what each step does to it; who takes the  *)
(* steps is in Publication.                                                *)
(***************************************************************************)
EXTENDS Integers, FiniteSets

CONSTANTS
    Builds,        \* rows of the builds table
    Pkgs,          \* rows of the packages table
    Platforms,     \* the repository's directories, each with a repo.db
    Names,         \* package files, each in one platform's directory
    Dirs,          \* {pkgname}-{pkgver}: what repo.db keys its entries by
    NamePlatform,  \* [Names -> Platforms]
    EntryDir,      \* [Names -> Dirs], entry_dir_for_filename
    Grace,         \* RETIRED_PACKAGE_GRACE
    Null           \* SQL NULL, a missing file, a free lock

ASSUME RepositoryAssumption ==
    /\ NamePlatform \in [Names -> Platforms]
    /\ EntryDir \in [Names -> Dirs]
    /\ Grace \in Nat

VARIABLES
    now,        \* Instant::now()
    rows,       \* the files table: which package publishes a file
    planRow,    \* the one row of repository_updates
    disk,       \* the files in the platform directories, by their contents
    listing,    \* repo.db of each platform, by entry directory
    links,      \* staged files linked under their .publishing names
    next,       \* the databases written beside the current ones
    staging,    \* builds with a staging directory
    retiredAt,  \* Repository::retired, in memory
    listedAt    \* history: when a file was last listed

shelves == <<disk, listing, links, next>>
repository == <<rows, planRow, shelves, staging, retiredAt, listedAt>>

Entry == [name : Names, build : Builds]

Plan == [build   : Builds \cup {Null},   \* whose staging directory
         files   : SUBSET Names,         \* moved into place first
         dbs     : SUBSET Platforms,     \* their databases moved last
         retired : SUBSET Names]

Database == [Dirs -> Entry \cup {Null}]

ASSUME NullAssumption ==
    /\ Null \notin Builds \cup Pkgs \cup Nat
    /\ Null \notin Entry
    /\ Null \notin Plan
    /\ Null \notin Database

\* Every row and everything on disk is of its kind.
RepositoryOK ==
    /\ rows \in [Names -> Pkgs \cup {Null}]
    /\ planRow \in Plan \cup {Null}
    /\ disk \in [Names -> Builds \cup {Null}]
    /\ listing \in [Platforms -> Database]
    /\ links \subseteq Builds \X Names
    /\ next \in [Platforms -> Database \cup {Null}]
    /\ staging \subseteq Builds
    /\ retiredAt \in [Names -> Nat \cup {Null}]
    /\ listedAt \in [Names -> Nat \cup {Null}]

ListedIn(db, n) == db[EntryDir[n]] # Null /\ db[EntryDir[n]].name = n

Listed(n) == ListedIn(listing[NamePlatform[n]], n)

----------------------------------------------------------------------------
(* Staging: private until the moves. *)

\* Mutant of UpdatedDatabase: the entries taken out are forgotten.
UpdatedDatabaseKeeping(pl, b, add, retire) ==
    LET at(S, d) == {n \in S : NamePlatform[n] = pl /\ EntryDir[n] = d}
    IN  [d \in Dirs |-> IF at(add, d) # {}
                        THEN [name |-> CHOOSE n \in at(add, d) : TRUE, build |-> b]
                        ELSE listing[pl][d]]

\* write_updated_databases: both what is taken out and what is added
\* supersedes the entry at its directory.
UpdatedDatabase(pl, b, add, retire) ==
    LET at(S, d) == {n \in S : NamePlatform[n] = pl /\ EntryDir[n] = d}
    IN  [d \in Dirs |-> IF at(add, d) # {}
                        THEN [name |-> CHOOSE n \in at(add, d) : TRUE, build |-> b]
                        ELSE IF at(retire, d) # {} THEN Null ELSE listing[pl][d]]

PlanFor(b, add, retire) ==
    [build |-> b, files |-> add,
     dbs |-> {NamePlatform[n] : n \in add \cup retire},
     retired |-> retire \ add]

\* Finalization::stage
Stage(b, add, retire) ==
    LET plan == PlanFor(b, add, retire)
    IN  /\ links' = links \cup {<<b, n>> : n \in add}
        /\ next' = [pl \in Platforms |-> IF pl \in plan.dbs
                                         THEN UpdatedDatabase(pl, b, add, retire)
                                         ELSE next[pl]]

\* Finalization::discard
Discard(plan) ==
    /\ links' = links \ {<<plan.build, n>> : n \in plan.files}
    /\ next' = [pl \in Platforms |-> IF pl \in plan.dbs THEN Null ELSE next[pl]]

\* discard_staging: the second names go with the directory.
DiscardStaging(b) ==
    /\ staging' = staging \ {b}
    /\ links' = {l \in links : l[1] # b}

----------------------------------------------------------------------------
(* The moves of a plan.  A source that is gone was moved before, or never   *)
(* can be: either way the move is skipped.                                  *)

MoveFile(plan, n) ==
    /\ IF <<plan.build, n>> \in links
       THEN /\ disk' = [disk EXCEPT ![n] = plan.build]
            /\ links' = links \ {<<plan.build, n>>}
       ELSE UNCHANGED <<disk, links>>
    /\ UNCHANGED <<listing, next, listedAt>>

MoveDatabase(pl) ==
    /\ IF next[pl] # Null
       THEN /\ listing' = [listing EXCEPT ![pl] = next[pl]]
            /\ next' = [next EXCEPT ![pl] = Null]
            /\ listedAt' = [n \in Names |->
                   IF NamePlatform[n] = pl /\ (Listed(n) \/ ListedIn(next[pl], n))
                   THEN now ELSE listedAt[n]]
       ELSE UNCHANGED <<listing, next, listedAt>>
    /\ UNCHANGED <<disk, links>>

\* Mutant of NoteRetired: the end of the grace, computed backwards.
NoteRetiredBackdated(retired) ==
    retiredAt' = [n \in Names |-> IF n \in retired THEN now - Grace ELSE retiredAt[n]]

NoteRetired(retired) ==
    retiredAt' = [n \in Names |-> IF n \in retired THEN now ELSE retiredAt[n]]

----------------------------------------------------------------------------
(* The sweep. *)

\* Mutant of Since: a file the memory knows nothing of is old.
SinceForgotten(n) == IF retiredAt[n] = Null THEN now - Grace ELSE retiredAt[n]

\* Nothing is known of a file retired before a restart: its grace starts over.
Since(n) == IF retiredAt[n] = Null THEN now ELSE retiredAt[n]

Retired == {n \in Names : disk[n] # Null /\ ~Listed(n)}

SweepRetired ==
    LET gone == {n \in Retired : now - Since(n) >= Grace}
    IN  /\ disk' = [n \in Names |-> IF n \in gone THEN Null ELSE disk[n]]
        /\ retiredAt' = [n \in Names |-> IF n \in Retired \ gone THEN Since(n) ELSE Null]
        /\ UNCHANGED <<listing, links, next>>

============================================================================
