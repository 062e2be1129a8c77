---------------------------- MODULE Dependencies ----------------------------
(***************************************************************************)
(* The graph of tracked packages and the builds that wait for one another. *)
(*                                                                         *)
(* A package row may have one build in progress.  A build whose package    *)
(* depends on something not built yet is queued as WAITING and let go when *)
(* the last thing it waits for is published.  The requests that change the *)
(* graph (add, update, edit, replace or drop a dependency, remove) are     *)
(* sequences of short transactions with the network, the AUR and other     *)
(* requests in between: each task of the model is one such request, a      *)
(* stack of frames because an update updates the dependencies it needs.    *)
(*                                                                         *)
(* One platform.  What the official repositories hold is no dependency     *)
(* here, as in the code, and a bound on a version is a least version.      *)
(***************************************************************************)
EXTENDS Naturals, FiniteSets, FiniteSetsExt, Sequences, SequencesExt

CONSTANTS
    Tasks,        \* requests the server can have in hand at once
    Names,        \* package bases of the AUR
    Releases,     \* name -> its releases: each maps the names it declares to a least version
    Patch,        \* name -> what it declares once an operator has patched it
    Provides,     \* name -> the names it answers to, its own among them
    Installed,    \* names asked for before, their first builds queued
    Requestable,  \* names an operator asks for
    Kinds,        \* requests that are made
    MaxRequests, MaxRestarts

(* What a package can declare: names, each with a least version. *)
Declaration(d) == DOMAIN d \subseteq Names /\ d \in [DOMAIN d -> Nat]

ASSUME GraphAssumption ==
    /\ IsFiniteSet(Names)
    /\ \A n \in Names :
          /\ n \in Provides[n]
          /\ Len(Releases[n]) \in Nat \ {0}
          /\ Declaration(Patch[n])
          /\ \A k \in 1 .. Len(Releases[n]) : Declaration(Releases[n][k])
    /\ Installed \subseteq Names /\ Requestable \subseteq Names
    /\ MaxRequests \in Nat /\ MaxRestarts \in Nat

VARIABLES
    rows,       \* packages: id -> the row, with its build in progress
    edges,      \* dependencies: <<dependent, dependee>> -> least version
    nextId,     \* the next row's id
    release,    \* name -> the release the sources hold
    ops,        \* task -> what it is in the middle of
    promoting,  \* published builds whose dependents are still to be let go
    requests, restarts,
    calm        \* history: no two requests have overlapped, none was cut short
                \* or has deleted a package it was itself updating

graph == <<rows, edges, nextId>>
vars == <<rows, edges, nextId, release, ops, promoting, requests, restarts, calm>>

Row == [name : Names, requested : BOOLEAN, patched : BOOLEAN,
        pending : {"None", "Waiting", "Enqueued", "Active"},
        last : {"New", "Success", "Failed"}, built : Nat, making : Nat]

NewRow(n, requested) ==
    [name |-> n, requested |-> requested, patched |-> FALSE, pending |-> "None",
     last |-> "New", built |-> 0, making |-> 0]

Tracked == {rows[i].name : i \in DOMAIN rows}
IdOf(n) == CHOOSE i \in DOMAIN rows : rows[i].name = n
Dependees(i) == {e[2] : e \in {e \in DOMAIN edges : e[1] = i}}

(* dependency_satisfied: the newest successful build meets the bound. *)
Meets(i, least) == i \in DOMAIN rows /\ rows[i].built >= least /\ rows[i].built > 0
Satisfied(i) == \A j \in Dependees(i) : Meets(j, edges[<<i, j>>])

-----------------------------------------------------------------------------
(* Builds in progress.                                                     *)

(* enqueue_build_if_missing: the unique index keeps the one already there. *)
Queued(rs, i, state) == [rs EXCEPT ![i].pending = IF @ = "None" THEN state ELSE @]

(* promote_waiting_build and demote_enqueued_build, pinned to the state they leave. *)
Moved(rs, i, from, to) ==
    [rs EXCEPT ![i].pending = IF @ = from THEN to ELSE @]

(* resync_pending_builds: what the rows rs become when es are the edges. *)
Resynced(rs, es, i) ==
    LET ready == \A e \in DOMAIN es :
                    e[1] = i => rs[e[2]].built >= es[e] /\ rs[e[2]].built > 0
    IN  IF ready THEN Moved(rs, i, "Waiting", "Enqueued")
                 ELSE Moved(rs, i, "Enqueued", "Waiting")

-----------------------------------------------------------------------------
(* What a package depends on.                                              *)

Declared(n, patched) == IF patched THEN Patch[n] ELSE Releases[n][release[n]]

(* resolve_dependencies: a tracked package that answers to the name, one   *)
(* depended on already before any other; else the AUR's package.           *)
Provider(d, preferred) ==
    LET fit == {n \in Tracked : d \in Provides[n]}
        best(S) == IF d \in S THEN d ELSE CHOOSE n \in S : TRUE
    IN  IF fit \cap preferred # {} THEN best(fit \cap preferred)
        ELSE IF fit # {} THEN best(fit) ELSE d

(* resolve_edges: bounds that land on one package are merged; a package is *)
(* no dependency of itself, nor is what it answers to.                     *)
ResolveEdges(n, patched, preferred) ==
    LET declared == Declared(n, patched)
        wanted == DOMAIN declared \ Provides[n]
        bases == {Provider(d, preferred) : d \in wanted} \ {n}
    IN  [m \in bases |-> Max({declared[d] : d \in {d \in wanted : Provider(d, preferred) = m}})]

(* Everything E leads to from S, S included. *)
Reach(E, S) ==
    LET nodes == S \cup {e[1] : e \in E} \cup {e[2] : e \in E}
        closed == {T \in SUBSET nodes : S \subseteq T /\ \A e \in E : e[1] \in T => e[2] \in T}
    IN  {x \in nodes : \A T \in closed : x \in T}

(* plan_package_with_deps: the packages to insert for n, with their edges. *)
Planned(n, root, build) ==
    LET deps == [m \in Names |-> ResolveEdges(m, FALSE, {})]
        links == {e \in Names \X Names : e[1] \notin Tracked /\ e[2] \in DOMAIN deps[e[1]]}
        new == Reach(links, {n}) \ Tracked
    IN  [at |-> "Persist", roots |-> root, build |-> build, names |-> new,
         links |-> [e \in {e \in links : e[1] \in new} |-> deps[e[1]][e[2]]]]

-----------------------------------------------------------------------------
(* Tasks.                                                                  *)

Idle == [visited |-> {}, stack |-> <<>>]
Busy(t) == ops[t] # Idle
At(t, step) == Busy(t) /\ Last(ops[t].stack).at = step
Top(t) == Last(ops[t].stack)

Become(t, f) == ops' = [ops EXCEPT ![t].stack = Append(Front(@), f)]
Call(t, f, g) == ops' = [ops EXCEPT ![t].stack = Append(Append(Front(@), f), g)]
Fail(t) == ops' = [ops EXCEPT ![t] = Idle]
Return(t) ==
    IF Len(ops[t].stack) = 1 THEN Fail(t)
    ELSE ops' = [ops EXCEPT ![t].stack = Front(@)]

(* A request of the API reaches an idle task. *)
Begin(t, kind, visited, stack) ==
    /\ kind \in Kinds
    /\ ~Busy(t) /\ requests < MaxRequests
    /\ requests' = requests + 1
    /\ calm' = (calm /\ \A u \in Tasks : ~Busy(u))
    /\ ops' = [ops EXCEPT ![t] = [visited |-> visited, stack |-> stack]]
    /\ UNCHANGED <<release, promoting, restarts>>

Step == UNCHANGED <<release, requests, restarts, calm>>

-----------------------------------------------------------------------------
(* Adding a package.                                                       *)

(* finalize_package_add: a tracked package is only asked for, anything else *)
(* is planned with what it needs.                                           *)
Add(t, n) ==
    /\ n \in Requestable
    /\ Begin(t, "Add", {}, << IF n \in Tracked THEN [at |-> "Request", name |-> n]
                                               ELSE Planned(n, {n}, TRUE) >>)
    /\ UNCHANGED graph

(* set_directly_requested *)
SetRequested(t) ==
    /\ At(t, "Request")
    /\ rows' = [i \in DOMAIN rows |->
                    [rows[i] EXCEPT !.requested = @ \/ rows[i].name = Top(t).name]]
    /\ Return(t)
    /\ Step /\ UNCHANGED <<edges, nextId, promoting>>

(* persist_plan: all rows and edges or, when a name is taken meanwhile, none. *)
Persist(t) ==
    /\ At(t, "Persist")
    /\ LET f == Top(t)
           order == SetToSeq(f.names)
           ids == nextId .. nextId + Len(order) - 1
           all == [i \in DOMAIN rows \cup ids |->
                      IF i \in ids THEN LET n == order[i - nextId + 1]
                                        IN  NewRow(n, n \in f.roots)
                                   ELSE rows[i]]
           id(n) == CHOOSE i \in DOMAIN all : all[i].name = n
           found == {e \in DOMAIN f.links : \E i \in DOMAIN all : all[i].name = e[2]}
           added == {<<id(e[1]), id(e[2])>> : e \in found}
       IN  IF f.names \cap Tracked # {}
           THEN Fail(t) /\ UNCHANGED graph
           ELSE /\ rows' = all
                /\ edges' = [e \in DOMAIN edges \cup added |->
                                IF e \in added THEN f.links[<<all[e[1]].name, all[e[2]].name>>]
                                               ELSE edges[e]]
                /\ nextId' = nextId + Len(order)
                /\ IF f.build
                   THEN Become(t, [at |-> "Initial", todo |-> ids,
                                   leaf |-> {i \in ids : \A e \in added : e[1] # i}])
                   ELSE Return(t)
    /\ Step /\ UNCHANGED promoting

(* trigger_initial_builds decides on one package, and queues it a statement later. *)
DecideInitial(t) ==
    /\ At(t, "Initial")
    /\ LET f == Top(t) IN
       \/ f.todo = {} /\ Return(t)
       \/ \E i \in f.todo :
             Become(t, [at |-> "QueueInitial", id |-> i, leaf |-> f.leaf, todo |-> f.todo \ {i},
                        as |-> IF i \in f.leaf \/ Satisfied(i) THEN "Enqueued" ELSE "Waiting"])
    /\ Step /\ UNCHANGED <<graph, promoting>>

(* A package removed meanwhile fails the request: its build has nothing to refer to. *)
QueueInitial(t) ==
    /\ At(t, "QueueInitial")
    /\ LET f == Top(t) IN
       IF f.id \in DOMAIN rows
       THEN /\ rows' = Queued(rows, f.id, f.as)
            /\ Become(t, [at |-> "Initial", todo |-> f.todo, leaf |-> f.leaf])
       ELSE Fail(t) /\ UNCHANGED rows
    /\ Step /\ UNCHANGED <<edges, nextId, promoting>>

-----------------------------------------------------------------------------
(* Updating a package, and editing one.                                    *)

(* What an update or an edit works on: the row as the request read it. *)
Job(kind, i, force) ==
    [kind |-> kind, id |-> i, name |-> rows[i].name, patched |-> rows[i].patched,
     force |-> force, version |-> release[rows[i].name]]

Update(t, i, force) ==
    /\ i \in DOMAIN rows
    /\ Begin(t, "Update", {i}, << [at |-> "Resolve", job |-> Job("Update", i, force)] >>)
    /\ UNCHANGED graph

(* edit_package with the patch put on, or taken off again. *)
Edit(t, i) ==
    /\ i \in DOMAIN rows
    /\ Begin(t, "Edit", {}, << [at |-> "Resolve", job |-> Job("Edit", i, FALSE)] >>)
    /\ UNCHANGED graph

(* The sources are refreshed and read, the current edges preferred. *)
Resolve(t) ==
    /\ At(t, "Resolve")
    /\ LET job == [Top(t).job EXCEPT !.version = release[Top(t).job.name]]
           former == Dependees(job.id)
           found == ResolveEdges(job.name, IF job.kind = "Edit" THEN ~job.patched ELSE job.patched,
                                 {rows[j].name : j \in former})
       IN  Become(t, [at |-> "Insert", job |-> job, former |-> former, found |-> found,
                      todo |-> DOMAIN found \ Tracked])
    /\ Step /\ UNCHANGED <<graph, promoting>>

(* ensure_missing_dependency_packages: rows only, nothing is queued. *)
Insert(t) ==
    /\ At(t, "Insert")
    /\ \E n \in Top(t).todo :
          Call(t, [Top(t) EXCEPT !.todo = @ \ {n}], Planned(n, {}, FALSE))
    /\ Step /\ UNCHANGED <<graph, promoting>>

(* sync_dependency_rows and resync_pending_builds in one transaction; an   *)
(* edit stores its patch there, unless the package's changed meanwhile.    *)
Link(t) ==
    /\ At(t, "Insert") /\ Top(t).todo = {}
    /\ LET f == Top(t)
           i == f.job.id
           edit == f.job.kind = "Edit"
           to == {IdOf(n) : n \in DOMAIN f.found}
           linked == [e \in {e \in DOMAIN edges : e[1] # i} \cup {<<i, j>> : j \in to} |->
                         IF e[1] = i THEN f.found[rows[e[2]].name] ELSE edges[e]]
           written == IF edit THEN [rows EXCEPT ![i].patched = ~@] ELSE rows
       IN  IF \/ i \notin DOMAIN rows \/ ~(DOMAIN f.found \subseteq Tracked)
              \/ edit /\ rows[i].patched # f.job.patched
           THEN Fail(t) /\ UNCHANGED graph
           ELSE /\ edges' = linked
                /\ rows' = Resynced(written, linked, i)
                /\ UNCHANGED nextId
                /\ Become(t, [at |-> "LiveCheck", job |-> f.job, from |-> f.former,
                              deps |-> [j \in to |->
                                  [least |-> linked[<<i, j>>], name |-> rows[j].name,
                                   patched |-> rows[j].patched,
                                   failed |-> rows[j].pending = "None" /\ rows[j].last = "Failed"]]])
    /\ Step /\ UNCHANGED promoting

(* prepare_dependencies_for_platform: is the next dependency satisfied? *)
Prepare(t) ==
    /\ At(t, "Prepare")
    /\ \E j \in Top(t).todo :
          LET f == [Top(t) EXCEPT !.todo = @ \ {j}]
          IN  IF Meets(j, f.deps[j].least) THEN Become(t, f)
              ELSE Become(t, [f EXCEPT !.at = "Pending", !.dep = j, !.waits = TRUE])
    /\ Step /\ UNCHANGED <<graph, promoting>>

\* Mutant of UpdateDependency: a package on the way is updated again.
UpdateDependencyAgain(t) ==
    /\ At(t, "Pending")
    /\ LET f == [Top(t) EXCEPT !.at = "Prepare"]
           d == f.deps[f.dep]
           job == [f.job EXCEPT !.id = f.dep, !.name = d.name, !.patched = d.patched, !.force = TRUE]
       IN  IF d.failed \/ (f.dep \in DOMAIN rows /\ rows[f.dep].pending # "None")
           THEN Become(t, f)
           ELSE Call(t, f, [at |-> "Resolve", job |-> job])
    /\ Step /\ UNCHANGED <<graph, promoting>>

(* One that is not, has no build and did not fail is updated first, unless *)
(* this request has been there already.                                    *)
UpdateDependency(t) ==
    /\ At(t, "Pending")
    /\ LET f == [Top(t) EXCEPT !.at = "Prepare"]
           j == f.dep
           d == f.deps[j]
           job == [f.job EXCEPT !.id = j, !.name = d.name, !.patched = d.patched, !.force = TRUE]
       IN  IF \/ j \in DOMAIN rows /\ rows[j].pending # "None"
              \/ d.failed \/ j \in ops[t].visited
           THEN Become(t, f)
           ELSE ops' = [ops EXCEPT ![t] =
                          [visited |-> @.visited \cup {j},
                           stack |-> Append(Append(Front(@.stack), f),
                                            [at |-> "Resolve", job |-> job])]]
    /\ Step /\ UNCHANGED <<graph, promoting>>

(* enqueue_platform_builds once every dependency was looked at: a WAITING  *)
(* build, or update_platform, which promotes one or else queues one.       *)
Enqueue(t) ==
    /\ At(t, "Prepare") /\ Top(t).todo = {}
    /\ LET f == Top(t)
           i == f.job.id
       IN  \/ /\ f.waits /\ i \in DOMAIN rows
              /\ rows' = Queued(rows, i, "Waiting")
              /\ Return(t)
           \/ /\ ~f.waits /\ i \in DOMAIN rows /\ rows[i].pending = "Waiting"
              /\ rows' = Moved(rows, i, "Waiting", "Enqueued")
              /\ Return(t)
           \/ /\ ~f.waits /\ ~(i \in DOMAIN rows /\ rows[i].pending = "Waiting")
              /\ Become(t, [at |-> "Put", id |-> i])
              /\ UNCHANGED rows
           \/ /\ f.waits /\ i \notin DOMAIN rows
              /\ Fail(t) /\ UNCHANGED rows
    /\ Step /\ UNCHANGED <<edges, nextId, promoting>>

Put(t) ==
    /\ At(t, "Put")
    /\ IF Top(t).id \in DOMAIN rows
       THEN rows' = Queued(rows, Top(t).id, "Enqueued") /\ Return(t)
       ELSE Fail(t) /\ UNCHANGED rows
    /\ Step /\ UNCHANGED <<edges, nextId, promoting>>

-----------------------------------------------------------------------------
(* Replacing one dependency by hand, dropping one, removing a package.     *)

(* The names i declares that j answers to. *)
DeclaredFor(i, j) == DOMAIN Declared(rows[i].name, rows[i].patched) \cap Provides[rows[j].name]

Replace(t, i, j, n) ==
    /\ <<i, j>> \in DOMAIN edges
    /\ n \notin {rows[i].name, rows[j].name}
    /\ Provides[n] \cap DeclaredFor(i, j) # {}
    /\ LET f == [at |-> "Repoint", job |-> Job("Replace", i, FALSE), old |-> j, new |-> n]
       IN  Begin(t, "Replace", {}, IF n \in Tracked THEN << f >> ELSE << f, Planned(n, {}, TRUE) >>)
    /\ UNCHANGED graph

Drop(t, i, j) ==
    /\ <<i, j>> \in DOMAIN edges
    /\ DeclaredFor(i, j) = {}
    /\ edges' = Restrict(edges, DOMAIN edges \ {<<i, j>>})
    /\ Begin(t, "Replace", {}, << [at |-> "Resync", job |-> Job("Replace", i, FALSE), old |-> j] >>)
    /\ UNCHANGED <<rows, nextId>>

(* repoint_edge: an edge that would collide is merged into the one there. *)
Repoint(t) ==
    /\ At(t, "Repoint")
    /\ LET f == Top(t)
           i == f.job.id
           was == <<i, f.old>>
           now == <<i, IdOf(f.new)>>
           rest == DOMAIN edges \ {was}
       IN  IF f.new \notin Tracked \/ (now \notin rest /\ was \notin DOMAIN edges)
           THEN Fail(t) /\ UNCHANGED edges
           ELSE /\ edges' = [e \in rest \cup {now} |-> IF e \in rest THEN edges[e] ELSE edges[was]]
                /\ Become(t, [at |-> "Resync", job |-> f.job, old |-> f.old])
    /\ Step /\ UNCHANGED <<rows, nextId, promoting>>

(* resync_pending_builds outside a transaction: decided here, *)
Resync(t) ==
    /\ At(t, "Resync")
    /\ LET f == Top(t)
           i == f.job.id
           now == IF i \in DOMAIN rows THEN rows[i].pending ELSE "None"
           move == CASE now = "Waiting" /\ Satisfied(i) -> <<"Waiting", "Enqueued">>
                     [] now = "Enqueued" /\ ~Satisfied(i) -> <<"Enqueued", "Waiting">>
                     [] OTHER -> <<"None", "None">>
       IN  Become(t, [at |-> "Settle", job |-> f.job, old |-> f.old, move |-> move])
    /\ Step /\ UNCHANGED <<graph, promoting>>

(* ... written here. *)
Settle(t) ==
    /\ At(t, "Settle")
    /\ LET f == Top(t) IN
       /\ rows' = IF f.job.id \in DOMAIN rows
                  THEN Moved(rows, f.job.id, f.move[1], f.move[2]) ELSE rows
       /\ Become(t, [at |-> "LiveCheck", job |-> f.job, from |-> {f.old}])
    /\ Step /\ UNCHANGED <<edges, nextId, promoting>>

(* package_remove *)
PackageRemove(t, i) ==
    /\ i \in DOMAIN rows
    /\ rows' = [rows EXCEPT ![i].requested = FALSE]
    /\ Begin(t, "Remove", {},
             << [at |-> "LiveCheck", job |-> Job("Remove", i, FALSE), from |-> {i}] >>)
    /\ UNCHANGED <<edges, nextId>>

-----------------------------------------------------------------------------
(* Collecting what nothing needs.                                          *)

Requested == {i \in DOMAIN rows : rows[i].requested}

\* Mutant of Orphaned: only packages nothing depends on, which no cycle has.
OrphanedLeaves(from, hold) ==
    {i \in Reach(DOMAIN edges, from) \ (Requested \cup hold) :
        \A e \in DOMAIN edges : e[2] # i}

(* live_check: what the packages in from reach and no requested package,   *)
(* nor the one held, still needs.                                          *)
Orphaned(from, hold) ==
    Reach(DOMAIN edges, from) \ Reach(DOMAIN edges, Requested \cup hold)

LiveCheck(t) ==
    /\ At(t, "LiveCheck")
    /\ LET f == Top(t)
           hold == IF f.job.kind \in {"Update", "Edit"} THEN {f.job.id} ELSE {}
       IN  Become(t, [f EXCEPT !.at = "Delete", !.from = Orphaned(f.from, hold)])
    /\ Step /\ UNCHANGED <<graph, promoting>>

\* Mutant of StillNeeded: not looked at again inside the transaction.
NeverNeeded(gone) == FALSE

(* refuse_if_needed *)
StillNeeded(gone) == \E e \in DOMAIN edges : e[2] \in gone /\ e[1] \notin gone

UpToDate(job) == job.id \in DOMAIN rows /\ rows[job.id].built = job.version

(* An update goes on to its builds, unless the version is built already. *)
Collected(t, f) ==
    CASE f.job.kind # "Update" -> Return(t)
      [] f.job.kind = "Update" /\ ~f.job.force /\ UpToDate(f.job) -> Fail(t)
      [] OTHER -> Become(t, [at |-> "Prepare", job |-> f.job, deps |-> f.deps,
                             todo |-> DOMAIN f.deps, dep |-> f.job.id, waits |-> FALSE])

(* A nested update holds only its own package: it may take one that is     *)
(* being updated further down its stack.                                   *)
Undermines(t, gone) ==
    \E k \in 1 .. Len(ops[t].stack) - 1 :
        "job" \in DOMAIN ops[t].stack[k] /\ ops[t].stack[k].job.id \in gone

(* package_delete: one transaction, all of them or a refusal, which fails  *)
(* every request but an edit.                                              *)
Delete(t) ==
    /\ At(t, "Delete")
    /\ LET f == Top(t)
           gone == f.from \cap DOMAIN rows
       IN  IF StillNeeded(gone)
           THEN /\ IF f.job.kind = "Edit" THEN Return(t) ELSE Fail(t)
                /\ UNCHANGED <<graph, promoting, calm>>
           ELSE /\ rows' = Restrict(rows, DOMAIN rows \ gone)
                /\ edges' = Restrict(edges, {e \in DOMAIN edges : e[1] \notin gone /\ e[2] \notin gone})
                /\ promoting' = Restrict(promoting, DOMAIN promoting \ gone)
                /\ UNCHANGED nextId
                /\ calm' = (calm /\ ~Undermines(t, gone))
                /\ Collected(t, f)
    /\ UNCHANGED <<release, requests, restarts>>

-----------------------------------------------------------------------------
(* What happens to builds, in outline: BuildQueue and Publication have it. *)

Env == UNCHANGED <<ops, requests, restarts, calm>>

(* The version checker fetches what upstream released. *)
Release(n) ==
    /\ release[n] < Len(Releases[n])
    /\ release' = [release EXCEPT ![n] = @ + 1]
    /\ Env /\ UNCHANGED <<graph, promoting>>

Claim(i) ==
    /\ rows[i].pending = "Enqueued"
    /\ rows' = [rows EXCEPT ![i].pending = "Active", ![i].making = release[rows[i].name]]
    /\ Env /\ UNCHANGED <<edges, nextId, release, promoting>>

(* A build that fails, or is cancelled in any state. *)
EndBuild(i) ==
    /\ rows[i].pending # "None"
    /\ rows' = [rows EXCEPT ![i].pending = "None", ![i].last = "Failed", ![i].making = 0]
    /\ Env /\ UNCHANGED <<edges, nextId, release, promoting>>

(* The build is SUCCESSFUL; its staging directory says the rest is to come. *)
Publish(i) ==
    /\ rows[i].pending = "Active"
    /\ rows' = [rows EXCEPT ![i].pending = "None", ![i].last = "Success",
                            ![i].built = rows[i].making, ![i].making = 0]
    /\ promoting' = [j \in DOMAIN promoting \cup {i} |->
                        IF j = i THEN [loaded |-> FALSE, todo |-> {}] ELSE promoting[j]]
    /\ Env /\ UNCHANGED <<edges, nextId, release>>

(* load_dependencies_for_dependents_of *)
LoadDependents(i) ==
    /\ ~promoting[i].loaded
    /\ LET dependents == {e[1] : e \in {e \in DOMAIN edges : e[2] = i}}
       IN  promoting' = [promoting EXCEPT ![i] =
              [loaded |-> TRUE,
               todo |-> {<<d, [j \in Dependees(d) |-> edges[<<d, j>>]]>> : d \in dependents}]]
    /\ Env /\ UNCHANGED <<graph, release>>

(* trigger_dependents looks at one dependent, with the edges as they were read. *)
TriggerDependent(i) ==
    /\ promoting[i].loaded
    /\ \E p \in promoting[i].todo :
          /\ promoting' = [promoting EXCEPT ![i].todo = @ \ {p}]
          /\ rows' = IF p[1] \in DOMAIN rows /\ \A j \in DOMAIN p[2] : Meets(j, p[2][j])
                     THEN Moved(rows, p[1], "Waiting", "Enqueued") ELSE rows
    /\ Env /\ UNCHANGED <<edges, nextId, release>>

(* ... and the staging directory goes. *)
EndPromotion(i) ==
    /\ promoting[i].loaded /\ promoting[i].todo = {}
    /\ promoting' = Restrict(promoting, DOMAIN promoting \ {i})
    /\ Env /\ UNCHANGED <<graph, release>>

\* Mutant of Scanned: builds that wait are left to their dependencies.
ScannedNew(i) ==
    IF rows[i].pending = "None" /\ rows[i].last = "New"
    THEN [rows[i] EXCEPT !.pending = IF Satisfied(i) THEN "Enqueued" ELSE "Waiting"]
    ELSE rows[i]

(* The server restarts: requests are cut short, publications resumed, and  *)
(* enqueue_missing_buildable_packages goes over every package.             *)
Scanned(i) ==
    LET r == rows[i] IN
    CASE r.pending = "Waiting" /\ Satisfied(i) -> [r EXCEPT !.pending = "Enqueued"]
      [] r.pending = "None" /\ r.last = "New" ->
            [r EXCEPT !.pending = IF Satisfied(i) THEN "Enqueued" ELSE "Waiting"]
      [] OTHER -> r

Restart ==
    /\ restarts < MaxRestarts
    /\ restarts' = restarts + 1
    /\ calm' = (calm /\ \A t \in Tasks : ~Busy(t))
    /\ ops' = [t \in Tasks |-> Idle]
    /\ promoting' = [i \in DOMAIN promoting |-> [loaded |-> FALSE, todo |-> {}]]
    /\ rows' = [i \in DOMAIN rows |-> Scanned(i)]
    /\ UNCHANGED <<edges, nextId, release, requests>>

-----------------------------------------------------------------------------

Init ==
    /\ LET deps == [n \in Names |-> DOMAIN Releases[n][1] \ Provides[n]]
           order == SetToSeq(Reach({e \in Names \X Names : e[2] \in deps[e[1]]}, Installed))
           ids == DOMAIN order
       IN  /\ rows = [i \in ids |-> [NewRow(order[i], order[i] \in Installed) EXCEPT
                        !.pending = IF deps[order[i]] = {} THEN "Enqueued" ELSE "Waiting"]]
           /\ edges = [e \in {e \in ids \X ids : order[e[2]] \in deps[order[e[1]]]} |->
                          Releases[order[e[1]]][1][order[e[2]]]]
           /\ nextId = Len(order) + 1
    /\ release = [n \in Names |-> 1]
    /\ ops = [t \in Tasks |-> Idle]
    /\ promoting = << >>
    /\ requests = 0 /\ restarts = 0 /\ calm = TRUE

Advance(t) ==
    \/ SetRequested(t) \/ Persist(t) \/ DecideInitial(t) \/ QueueInitial(t)
    \/ Resolve(t) \/ Insert(t) \/ Link(t) \/ Prepare(t) \/ UpdateDependency(t)
    \/ Enqueue(t) \/ Put(t) \/ Repoint(t) \/ Resync(t) \/ Settle(t)
    \/ LiveCheck(t) \/ Delete(t)

Ask(t) ==
    \/ \E n \in Names : Add(t, n)
    \/ \E i \in DOMAIN rows :
          \/ \E force \in BOOLEAN : Update(t, i, force)
          \/ Edit(t, i)
          \/ PackageRemove(t, i)
    \/ \E e \in DOMAIN edges : Drop(t, e[1], e[2]) \/ \E n \in Names : Replace(t, e[1], e[2], n)

Promotion(i) == LoadDependents(i) \/ TriggerDependent(i) \/ EndPromotion(i)

Next ==
    \/ \E t \in Tasks : Ask(t) \/ Advance(t)
    \/ \E n \in Names : Release(n)
    \/ \E i \in DOMAIN rows : Claim(i) \/ EndBuild(i) \/ Publish(i)
    \/ \E i \in DOMAIN promoting : Promotion(i)
    \/ Restart

Spec == Init /\ [][Next]_vars

-----------------------------------------------------------------------------
(* Properties.                                                             *)

Quiet == \A t \in Tasks : ~Busy(t)

(* Rows, edges and builds have their types, edges join rows, and a request *)
(* updates no package twice: update.rs guards its recursion with the set   *)
(* of packages visited, or a cycle of dependencies would never end.        *)
TypeOK ==
    /\ nextId \in Nat \ {0} /\ DOMAIN rows \subseteq 1 .. nextId - 1
    /\ \A i \in DOMAIN rows : rows[i] \in Row
    /\ \A e \in DOMAIN edges :
          e[1] \in DOMAIN rows /\ e[2] \in DOMAIN rows /\ e[1] # e[2] /\ edges[e] \in Nat
    /\ release \in [Names -> Nat]
    /\ DOMAIN promoting \subseteq DOMAIN rows
    /\ \A t \in Tasks :
          \A k, l \in DOMAIN ops[t].stack :
             (k # l /\ "job" \in DOMAIN ops[t].stack[k] /\ "job" \in DOMAIN ops[t].stack[l])
                => ops[t].stack[k].job.id # ops[t].stack[l].job.id

(* No step takes a package from under one that depends on it and stays:    *)
(* delete.rs looks again inside the transaction, because an add or an      *)
(* update may have linked to it since live_check chose it.                 *)
NeededIsKept ==
    [][\A e \in DOMAIN edges : e[1] \in DOMAIN rows' => e[2] \in DOMAIN rows']_vars

(* As long as requests come one at a time and none is cut short, what is   *)
(* tracked between them is what the requested packages need, no more and   *)
(* no less: live_check.rs collects chains and cycles, and nothing else.    *)
CollectedExactly == calm /\ Quiet => DOMAIN rows = Reach(DOMAIN edges, Requested)

(* A restart finds work for every package: after enqueue.rs has gone over  *)
(* them none is left that never had a build, and none waits for nothing.   *)
RestartFindsWork ==
    [][restarts' # restarts =>
         \A i \in DOMAIN rows' :
            /\ rows'[i].pending # "None" \/ rows'[i].last # "New"
            /\ ~(rows'[i].pending = "Waiting" /\ Satisfied(i)')]_vars

=============================================================================
