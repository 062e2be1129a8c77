-------------------------- MODULE DependenciesProofs --------------------------
(* Proofs about Dependencies: a deletion leaves nothing without what it      *)
(* needs, the scan at startup leaves nothing idle that could be built, the   *)
(* graph and the requests in hand keep their types, and requests that come   *)
(* one at a time leave exactly what the requested packages need.             *)
EXTENDS Dependencies, FiniteSetTheorems, WellFoundedInduction, TLAPS

(* Every edge leads to a row: what inserts an edge looks its target up in    *)
(* the same step, and what deletes a row takes the edges to it along.        *)
TargetsExist == \A e \in DOMAIN edges : e[2] \in DOMAIN rows

(* A row has the columns of packages and builds, whatever is in them. *)
Columns == {"name", "requested", "patched", "pending", "last", "built", "making"}
RowsHaveColumns == \A i \in DOMAIN rows : DOMAIN rows[i] = Columns

Inv == TargetsExist /\ RowsHaveColumns

(* The step of NeededIsKept. *)
KeepsNeeded == \A e \in DOMAIN edges : e[1] \in DOMAIN rows' => e[2] \in DOMAIN rows'

(* A step of the bounded request counters and tasks that adds, moves and     *)
(* deletes no row and no edge.                                               *)
SameGraph ==
    /\ DOMAIN rows' = DOMAIN rows
    /\ DOMAIN edges' \subseteq DOMAIN edges
    /\ \A i \in DOMAIN rows : DOMAIN rows[i] = Columns => DOMAIN rows'[i] = Columns

(* Most steps: rows change in place, edges stay or go.                       *)
LEMMA SameGraphKeeps ==
    ASSUME Inv, SameGraph
    PROVE  Inv' /\ KeepsNeeded
  BY DEF Inv, TargetsExist, RowsHaveColumns, SameGraph, KeepsNeeded

(* A row that answers to a tracked name is a row. *)
LEMMA IdOfTracked ==
    ASSUME NEW n, n \in Tracked
    PROVE  IdOf(n) \in DOMAIN rows /\ rows[IdOf(n)].name = n
  BY DEF Tracked, IdOf

LEMMA InitInv == Init => Inv
  <1> SUFFICES ASSUME Init PROVE Inv
    OBVIOUS
  <1> USE DEF Init
  <1>1. TargetsExist
    BY DEF TargetsExist
  <1>2. RowsHaveColumns
    BY DEF RowsHaveColumns, NewRow, Columns
  <1> QED BY <1>1, <1>2 DEF Inv

-----------------------------------------------------------------------------
(* One lemma per action that inserts or deletes. *)

(* persist_plan links only to names that have a row in the same transaction. *)
LEMMA PersistKeeps ==
    ASSUME Inv, NEW t \in Tasks, Persist(t)
    PROVE  Inv' /\ KeepsNeeded
  <1> DEFINE f == Top(t)
             order == SetToSeq(f.names)
             ids == nextId .. nextId + Len(order) - 1
             all == [i \in DOMAIN rows \cup ids |->
                        IF i \in ids THEN LET n == order[i - nextId + 1]
                                          IN  NewRow(n, n \in f.roots)
                                     ELSE rows[i]]
             id(n) == CHOOSE i \in DOMAIN all : all[i].name = n
             found == {e \in DOMAIN f.links : \E i \in DOMAIN all : all[i].name = e[2]}
             added == {<<id(e[1]), id(e[2])>> : e \in found}
  <1>1. CASE graph' = graph
    <2>1. SameGraph
      BY <1>1 DEF graph, SameGraph
    <2> QED BY <2>1, SameGraphKeeps
  <1>2. CASE rows' = all /\ DOMAIN edges' = DOMAIN edges \cup added
    <2>1. DOMAIN all = DOMAIN rows \cup ids
      OBVIOUS
    <2>2. \A e \in added : e[2] \in DOMAIN all
      <3> HIDE DEF all
      <3>1. \A g \in found : id(g[2]) \in DOMAIN all
        OBVIOUS
      <3> HIDE DEF id, found
      <3> QED BY <3>1
    <2>3. \A i \in DOMAIN all : DOMAIN all[i] = Columns
      BY DEF NewRow, Columns, Inv, RowsHaveColumns
    <2> HIDE DEF all, added, ids
    <2>4. TargetsExist'
      BY <1>2, <2>1, <2>2 DEF Inv, TargetsExist
    <2>5. RowsHaveColumns'
      BY <1>2, <2>3 DEF RowsHaveColumns
    <2>6. KeepsNeeded
      BY <1>2, <2>1 DEF KeepsNeeded, Inv, TargetsExist
    <2> QED BY <2>4, <2>5, <2>6 DEF Inv
  <1>3. graph' = graph \/ (rows' = all /\ DOMAIN edges' = DOMAIN edges \cup added)
    BY DEF Persist, graph
  <1> QED BY <1>1, <1>2, <1>3

(* sync_dependency_rows links to rows it has just looked up. *)
LEMMA LinkKeeps ==
    ASSUME Inv, NEW t \in Tasks, Link(t)
    PROVE  Inv' /\ KeepsNeeded
  <1> DEFINE f == Top(t)
             i == f.job.id
             to == {IdOf(n) : n \in DOMAIN f.found}
             linked == [e \in {e \in DOMAIN edges : e[1] # i} \cup {<<i, j>> : j \in to} |->
                           IF e[1] = i THEN f.found[rows[e[2]].name] ELSE edges[e]]
             written == IF f.job.kind = "Edit" THEN [rows EXCEPT ![i].patched = ~@] ELSE rows
  <1>1. CASE graph' = graph
    <2>1. SameGraph
      BY <1>1 DEF graph, SameGraph
    <2> QED BY <2>1, SameGraphKeeps
  <1>2. CASE /\ DOMAIN f.found \subseteq Tracked
             /\ edges' = linked
             /\ rows' = Resynced(written, linked, i)
    <2>1. \A e \in DOMAIN linked : e[2] \in DOMAIN rows
      BY <1>2, IdOfTracked DEF Inv, TargetsExist
    <2>2. DOMAIN written = DOMAIN rows /\ \A j \in DOMAIN rows : DOMAIN written[j] = DOMAIN rows[j]
      OBVIOUS
    <2> HIDE DEF linked, written, to
    <2>3. DOMAIN rows' = DOMAIN rows /\ \A j \in DOMAIN rows : DOMAIN rows'[j] = DOMAIN rows[j]
      <3>1. \/ rows' = Moved(written, i, "Waiting", "Enqueued")
            \/ rows' = Moved(written, i, "Enqueued", "Waiting")
        BY <1>2 DEF Resynced
      <3> HIDE DEF i
      <3> QED BY <3>1, <2>2 DEF Moved
    <2> QED BY <1>2, <2>1, <2>3 DEF Inv, TargetsExist, RowsHaveColumns, KeepsNeeded
  <1>3. \/ graph' = graph
        \/ /\ DOMAIN f.found \subseteq Tracked
           /\ edges' = linked
           /\ rows' = Resynced(written, linked, i)
    BY DEF Link, graph
  <1> QED BY <1>1, <1>2, <1>3

(* repoint_edge merges into an edge to a tracked package. *)
LEMMA RepointKeeps ==
    ASSUME Inv, NEW t \in Tasks, Repoint(t)
    PROVE  Inv' /\ KeepsNeeded
  <1>1. rows' = rows
    BY DEF Repoint
  <1>2. \/ edges' = edges
        \/ /\ Top(t).new \in Tracked
           /\ DOMAIN edges' \subseteq DOMAIN edges \cup {<<Top(t).job.id, IdOf(Top(t).new)>>}
    BY DEF Repoint
  <1> QED BY <1>1, <1>2, IdOfTracked DEF Inv, TargetsExist, RowsHaveColumns, KeepsNeeded

(* package_delete looks again inside its transaction: what it takes nobody   *)
(* outside depends on, and the edges to it go with it.                       *)
LEMMA DeleteKeeps ==
    ASSUME Inv, NEW t \in Tasks, Delete(t)
    PROVE  Inv' /\ KeepsNeeded
  <1> DEFINE gone == Top(t).from \cap DOMAIN rows
  <1>1. CASE graph' = graph
    <2>1. SameGraph
      BY <1>1 DEF graph, SameGraph
    <2> QED BY <2>1, SameGraphKeeps
  <1>2. CASE /\ ~StillNeeded(gone)
             /\ rows' = Restrict(rows, DOMAIN rows \ gone)
             /\ edges' = Restrict(edges, {e \in DOMAIN edges : e[1] \notin gone /\ e[2] \notin gone})
    <2> HIDE DEF gone
    <2> QED BY <1>2 DEF Restrict, StillNeeded, Inv, TargetsExist, RowsHaveColumns, KeepsNeeded
  <1>3. \/ graph' = graph
        \/ /\ ~StillNeeded(gone)
           /\ rows' = Restrict(rows, DOMAIN rows \ gone)
           /\ edges' = Restrict(edges, {e \in DOMAIN edges : e[1] \notin gone /\ e[2] \notin gone})
    BY DEF Delete, graph
  <1> QED BY <1>1, <1>2, <1>3

-----------------------------------------------------------------------------
(* The other actions. *)

(* A request that begins, and every step of one that only reads. *)
LEMMA AskKeeps ==
    ASSUME Inv, NEW t \in Tasks, Ask(t)
    PROVE  SameGraph
  <1>1. CASE graph' = graph
    BY <1>1 DEF graph, SameGraph
  <1>2. ASSUME NEW i \in DOMAIN rows, PackageRemove(t, i)
        PROVE  SameGraph
    BY <1>2 DEF PackageRemove, SameGraph
  <1>3. ASSUME NEW i, NEW j, Drop(t, i, j)
        PROVE  SameGraph
    BY <1>3 DEF Drop, SameGraph, Restrict
  <1>4. ASSUME NEW i \in DOMAIN rows, NEW force, Update(t, i, force) \/ Edit(t, i)
        PROVE  graph' = graph
    BY <1>4 DEF Update, Edit, graph
  <1>5. ASSUME NEW n, Add(t, n)
        PROVE  graph' = graph
    BY <1>5 DEF Add, graph
  <1>6. ASSUME NEW i, NEW j, NEW n, Replace(t, i, j, n)
        PROVE  graph' = graph
    BY <1>6 DEF Replace, graph
  <1> QED BY <1>1, <1>2, <1>3, <1>4, <1>5, <1>6 DEF Ask

(* Requests that queue, promote or demote a build, or ask for a package. *)
LEMMA InPlaceKeeps ==
    ASSUME Inv, NEW t \in Tasks,
           \/ SetRequested(t) \/ DecideInitial(t) \/ QueueInitial(t) \/ Resolve(t)
           \/ Insert(t) \/ Prepare(t) \/ UpdateDependency(t) \/ Enqueue(t) \/ Put(t)
           \/ Resync(t) \/ Settle(t) \/ LiveCheck(t)
    PROVE  SameGraph
  <1>1. CASE DecideInitial(t) \/ Resolve(t) \/ Insert(t) \/ Prepare(t) \/ UpdateDependency(t)
             \/ Resync(t) \/ LiveCheck(t)
    <2>1. rows' = rows /\ edges' = edges
      BY <1>1 DEF DecideInitial, Resolve, Insert, Prepare, UpdateDependency, Resync, LiveCheck, graph
    <2> QED BY <2>1 DEF SameGraph
  <1>2. CASE SetRequested(t)
    BY <1>2 DEF SetRequested, SameGraph
  <1>3. CASE QueueInitial(t)
    BY <1>3 DEF QueueInitial, Queued, Moved, SameGraph
  <1>4. CASE Enqueue(t)
    BY <1>4 DEF Enqueue, Queued, Moved, SameGraph
  <1>5. CASE Put(t)
    BY <1>5 DEF Put, Queued, Moved, SameGraph
  <1>6. CASE Settle(t)
    BY <1>6 DEF Settle, Queued, Moved, SameGraph
  <1> QED BY <1>1, <1>2, <1>3, <1>4, <1>5, <1>6

(* Builds that end, dependents that are let go, and a restart. *)
LEMMA BuildsKeep ==
    ASSUME Inv,
           \/ \E n \in Names : Release(n)
           \/ \E i \in DOMAIN rows : Claim(i) \/ EndBuild(i) \/ Publish(i)
           \/ \E i \in DOMAIN promoting : Promotion(i)
           \/ Restart
    PROVE  SameGraph
  <1>1. ASSUME NEW n, Release(n) PROVE SameGraph
    BY <1>1 DEF Release, graph, SameGraph
  <1>2. ASSUME NEW i \in DOMAIN rows, Claim(i) \/ EndBuild(i) \/ Publish(i) PROVE SameGraph
    BY <1>2 DEF Claim, EndBuild, Publish, SameGraph
  <1>3. ASSUME NEW i, LoadDependents(i) \/ EndPromotion(i) PROVE SameGraph
    BY <1>3 DEF LoadDependents, EndPromotion, graph, SameGraph
  <1>4. ASSUME NEW i, TriggerDependent(i) PROVE SameGraph
    BY <1>4 DEF TriggerDependent, Queued, Moved, SameGraph
  <1>5. CASE Restart
    <2>1. \A i \in DOMAIN rows : DOMAIN Scanned(i) = DOMAIN rows[i]
      BY DEF Scanned
    <2>2. edges' = edges /\ rows' = [i \in DOMAIN rows |-> Scanned(i)]
      BY <1>5 DEF Restart
    <2> QED BY <2>1, <2>2 DEF SameGraph
  <1> QED BY <1>1, <1>2, <1>3, <1>4, <1>5 DEF Promotion

LEMMA StepKeeps ==
    ASSUME Inv, [Next]_vars
    PROVE  Inv' /\ KeepsNeeded
  <1>1. ASSUME NEW t \in Tasks, Ask(t) PROVE Inv' /\ KeepsNeeded
    BY <1>1, AskKeeps, SameGraphKeeps
  <1>2. ASSUME NEW t \in Tasks, Advance(t) PROVE Inv' /\ KeepsNeeded
    BY <1>2, PersistKeeps, LinkKeeps, RepointKeeps, DeleteKeeps, InPlaceKeeps, SameGraphKeeps
       DEF Advance
  <1>3. CASE \/ \E n \in Names : Release(n)
             \/ \E i \in DOMAIN rows : Claim(i) \/ EndBuild(i) \/ Publish(i)
             \/ \E i \in DOMAIN promoting : Promotion(i)
             \/ Restart
    BY <1>3, BuildsKeep, SameGraphKeeps
  <1>4. CASE UNCHANGED vars
    <2>1. SameGraph
      BY <1>4 DEF vars, SameGraph
    <2> QED BY <2>1, SameGraphKeeps
  <1> QED BY <1>1, <1>2, <1>3, <1>4 DEF Next

(* For any packages, releases, requests in hand and restarts: no step takes  *)
(* a package from under one that depends on it and stays.                    *)
THEOREM NeededIsKeptHolds == Spec => NeededIsKept
  <1>1. Spec => []Inv
    BY InitInv, StepKeeps, PTL DEF Spec
  <1>2. Inv /\ [Next]_vars => [KeepsNeeded]_vars
    BY StepKeeps
  <1> QED BY <1>1, <1>2, PTL DEF Spec, NeededIsKept, KeepsNeeded

-----------------------------------------------------------------------------
(* The scan at startup. *)

(* The step of RestartFindsWork. *)
FindsWork ==
    restarts' # restarts =>
       \A i \in DOMAIN rows' :
          /\ rows'[i].pending # "None" \/ rows'[i].last # "New"
          /\ ~(rows'[i].pending = "Waiting" /\ Satisfied(i)')

(* Nothing else counts as a restart. *)
LEMMA OnlyRestart ==
    ASSUME [Next]_vars, restarts' # restarts
    PROVE  Restart
  <1>1. ASSUME NEW t \in Tasks, Ask(t) PROVE restarts' = restarts
    BY <1>1 DEF Ask, Add, Update, Edit, PackageRemove, Drop, Replace, Begin
  <1>2. ASSUME NEW t \in Tasks, Advance(t) PROVE restarts' = restarts
    <2>1. CASE Delete(t)
      BY <2>1 DEF Delete
    <2>2. CASE ~Delete(t)
      <3>1. Step
        BY <1>2, <2>2 DEF Advance, SetRequested, Persist, DecideInitial, QueueInitial, Resolve, Insert,
                          Link, Prepare, UpdateDependency, Enqueue, Put, Repoint, Resync, Settle, LiveCheck
      <3> QED BY <3>1 DEF Step
    <2> QED BY <2>1, <2>2
  <1>3. CASE \/ \E n \in Names : Release(n)
             \/ \E i \in DOMAIN rows : Claim(i) \/ EndBuild(i) \/ Publish(i)
             \/ \E i \in DOMAIN promoting : Promotion(i)
    <2>1. Env
      BY <1>3 DEF Release, Claim, EndBuild, Publish, Promotion, LoadDependents, TriggerDependent,
                  EndPromotion
    <2> QED BY <2>1 DEF Env
  <1>4. CASE UNCHANGED vars
    BY <1>4 DEF vars
  <1> QED BY <1>1, <1>2, <1>3, <1>4 DEF Next

(* The scan decides from what is built, and building is not what it does. *)
LEMMA ScanKeepsSatisfied ==
    ASSUME Inv, Restart, NEW i \in DOMAIN rows
    PROVE  Satisfied(i)' <=> Satisfied(i)
  <1>1. edges' = edges /\ rows' = [j \in DOMAIN rows |-> Scanned(j)]
    BY DEF Restart
  <1>2. \A j \in DOMAIN rows : Scanned(j).built = rows[j].built
    BY DEF Scanned, Inv, RowsHaveColumns, Columns
  <1>3. \A j : \A least : Meets(j, least)' <=> Meets(j, least)
    BY <1>1, <1>2 DEF Meets
  <1> QED BY <1>1, <1>3 DEF Satisfied, Dependees

LEMMA RestartScans ==
    ASSUME Inv, Restart
    PROVE  FindsWork
  <1> SUFFICES ASSUME NEW i \in DOMAIN rows'
               PROVE  /\ rows'[i].pending # "None" \/ rows'[i].last # "New"
                      /\ ~(rows'[i].pending = "Waiting" /\ Satisfied(i)')
    BY DEF FindsWork
  <1>1. i \in DOMAIN rows /\ rows'[i] = Scanned(i)
    BY DEF Restart
  <1>2. Satisfied(i)' <=> Satisfied(i)
    BY <1>1, ScanKeepsSatisfied
  <1>3. /\ Scanned(i).pending # "None" \/ Scanned(i).last # "New"
        /\ ~(Scanned(i).pending = "Waiting" /\ Satisfied(i))
    BY <1>1 DEF Scanned, Inv, RowsHaveColumns, Columns
  <1> QED BY <1>1, <1>2, <1>3

(* After any restart every package that never had a build has one queued,    *)
(* and no build waits for dependencies that are all there.                   *)
THEOREM RestartFindsWorkHolds == Spec => RestartFindsWork
  <1>1. Spec => []Inv
    BY InitInv, StepKeeps, PTL DEF Spec
  <1>2. Inv /\ [Next]_vars => [FindsWork]_vars
    BY OnlyRestart, RestartScans DEF FindsWork
  <1> QED BY <1>1, <1>2, PTL DEF Spec, RestartFindsWork, FindsWork

-----------------------------------------------------------------------------
(* Sequences and finite sets. *)

(* What is under the top of a stack stays, whatever the top becomes. *)
LEMMA StackTop ==
    ASSUME NEW F, NEW s \in Seq(F), s # << >>
    PROVE  /\ Len(s) \in Nat \ {0} /\ DOMAIN s = 1 .. Len(s)
           /\ Last(s) = s[Len(s)] /\ Last(s) \in F
           /\ Front(s) \in Seq(F) /\ Len(Front(s)) = Len(s) - 1
           /\ \A k \in 1 .. Len(s) - 1 : Front(s)[k] = s[k]
  <1>1. Len(s) \in Nat /\ Len(s) # 0 /\ DOMAIN s = 1 .. Len(s)
    OBVIOUS
  <1>2. Len(s) \in 1 .. Len(s)
    BY <1>1
  <1>3. Last(s) = s[Len(s)] /\ Last(s) \in F
    BY <1>1, <1>2 DEF Last
  <1>4. Front(s) \in Seq(F) /\ Len(Front(s)) = Len(s) - 1
    BY <1>1 DEF Front
  <1>5. \A k \in 1 .. Len(s) - 1 : Front(s)[k] = s[k]
    BY <1>1 DEF Front
  <1> QED BY <1>1, <1>3, <1>4, <1>5

LEMMA TopReplaced ==
    ASSUME NEW F, NEW s \in Seq(F), s # << >>, NEW f \in F
    PROVE  LET r == Append(Front(s), f) IN
           /\ r \in Seq(F) /\ r # << >> /\ DOMAIN r = 1 .. Len(s) /\ Len(r) = Len(s)
           /\ r[Len(s)] = f /\ \A k \in 1 .. Len(s) - 1 : r[k] = s[k]
  <1> DEFINE r == Append(Front(s), f)
  <1>1. r \in Seq(F) /\ Len(r) = Len(s)
    BY StackTop
  <1>2. DOMAIN r = 1 .. Len(s) /\ r # << >>
    BY <1>1, StackTop
  <1>3. r[Len(s)] = f
    BY StackTop
  <1>4. \A k \in 1 .. Len(s) - 1 : r[k] = s[k]
    BY StackTop
  <1> QED BY <1>1, <1>2, <1>3, <1>4

LEMMA TopPushed ==
    ASSUME NEW F, NEW s \in Seq(F), s # << >>, NEW f \in F, NEW g \in F
    PROVE  LET r == Append(Append(Front(s), f), g) IN
           /\ r \in Seq(F) /\ r # << >> /\ DOMAIN r = 1 .. Len(s) + 1 /\ Len(r) = Len(s) + 1
           /\ r[Len(s) + 1] = g /\ r[Len(s)] = f /\ \A k \in 1 .. Len(s) - 1 : r[k] = s[k]
  <1> DEFINE q == Append(Front(s), f)
             r == Append(q, g)
  <1>2. /\ q \in Seq(F) /\ Len(q) = Len(s)
        /\ q[Len(s)] = f /\ \A k \in 1 .. Len(s) - 1 : q[k] = s[k]
    BY TopReplaced
  <1>3. Len(s) \in Nat \ {0}
    BY StackTop
  <1> HIDE DEF q
  <1>4. /\ r \in Seq(F) /\ Len(r) = Len(s) + 1 /\ r[Len(s) + 1] = g
        /\ \A k \in 1 .. Len(s) : r[k] = q[k]
    BY <1>2, <1>3
  <1>5. DOMAIN r = 1 .. Len(s) + 1 /\ r # << >>
    BY <1>3, <1>4
  <1>6. r[Len(s)] = f
    BY <1>2, <1>3, <1>4
  <1>7. \A k \in 1 .. Len(s) - 1 : r[k] = s[k]
    <2> TAKE k \in 1 .. Len(s) - 1
    <2>1. k \in 1 .. Len(s)
      BY <1>3
    <2> QED BY <2>1, <1>2, <1>4
  <1> QED BY <1>4, <1>5, <1>6, <1>7 DEF q

(* The sequence of a finite set has every element of it. *)
LEMMA SetToSeqHasAll ==
    ASSUME NEW S, IsFiniteSet(S), NEW q, q = SetToSeq(S)
    PROVE  /\ q \in Seq(S) /\ Len(q) \in Nat /\ DOMAIN q = 1 .. Len(q)
           /\ \A x \in S : \E k \in 1 .. Len(q) : q[k] = x
           /\ \A k, l \in 1 .. Len(q) : q[k] = q[l] => k = l
  <1>1. Cardinality(S) \in Nat /\ ExistsBijection(1 .. Cardinality(S), S)
    BY FS_CardinalityType
  <1> DEFINE N == 1 .. Cardinality(S)
  <1>2. PICK b \in Bijection(N, S) : TRUE
    BY <1>1 DEF ExistsBijection
  <1>3. b \in [N -> S] /\ IsInjective(b)
    BY <1>2 DEF Bijection, Injection, Surjection, IsInjective
  <1>4. q \in [N -> S] /\ IsInjective(q)
    BY <1>3, Zenon DEF SetToSeq
  <1>5. q \in Injection(N, S)
    BY <1>4 DEF Injection, IsInjective
  <1>6. IsFiniteSet(N) /\ Cardinality(N) = Cardinality(S)
    <2>1. Cardinality(S) \in Int /\ 1 \in Int
      BY <1>1
    <2> QED BY <1>1, <2>1, FS_Interval
  <1>7. q \in Surjection(N, S)
    BY <1>5, <1>6, FS_Injection
  <1>8. \A x \in S : \E k \in N : q[k] = x
    BY <1>7 DEF Surjection
  <1>9. \A k, l \in N : q[k] = q[l] => k = l
    BY <1>5 DEF Injection, IsInjective
  <1> QED BY <1>1, <1>4, <1>8, <1>9

(* A finite set of naturals that is not empty has a greatest element. *)
LEMMA MaxIsIn ==
    ASSUME NEW S, S \subseteq Nat, IsFiniteSet(S), S # {}
    PROVE  Max(S) \in S
  <1> DEFINE HasMax(T) == \E x \in T : \A y \in T : x >= y
             Bad == {T \in FiniteSubsetsOf(S) : T # {} /\ ~HasMax(T)}
             R == StrictSubsetOrdering(S)
  <1>1. ASSUME Bad # {} PROVE FALSE
    <2>1. IsWellFoundedOn(R, FiniteSubsetsOf(S))
      BY FS_StrictSubsetOrderingWellFounded, Zenon
    <2>2. Bad \subseteq FiniteSubsetsOf(S)
      OBVIOUS
    <2> HIDE DEF R
    <2>3. PICK T \in Bad : \A U \in Bad : <<U, T>> \notin R
      <3> HIDE DEF Bad
      <3> QED BY <1>1, <2>1, <2>2, WFMin, Zenon
    <2>4. T \subseteq S /\ IsFiniteSet(T) /\ T # {} /\ ~HasMax(T)
      BY <2>3 DEF FiniteSubsetsOf
    <2>5. PICK x \in T : TRUE
      BY <2>4
    <2>6. PICK U : U = T \ {x}
      OBVIOUS
    <2>7. IsFiniteSet(U) /\ U \subseteq S
      BY <2>4, <2>6, FS_RemoveElement
    <2>8. U # {}
      <3>1. ASSUME U = {} PROVE HasMax(T)
        <4>1. T = {x}
          BY <2>5, <2>6, <3>1
        <4> QED BY <4>1, <2>4
      <3> QED BY <3>1, <2>4
    <2>9. HasMax(U)
      <3>1. <<U, T>> \in R
        BY <2>4, <2>5, <2>6, <2>7 DEF StrictSubsetOrdering, R
      <3>2. U \notin Bad
        BY <2>3, <3>1
      <3> HIDE DEF HasMax
      <3> QED BY <3>2, <2>7, <2>8 DEF FiniteSubsetsOf
    <2>10. PICK m \in U : \A y \in U : m >= y
      BY <2>9
    <2>11. x \in Nat /\ m \in Nat /\ m \in T /\ \A y \in T : y \in Nat /\ (y = x \/ y \in U)
      BY <2>4, <2>5, <2>6, <2>10
    <2>12. HasMax(T)
      <3>1. CASE m >= x
        <4>1. \A y \in T : m >= y
          BY <2>10, <2>11, <3>1
        <4> QED BY <4>1, <2>11
      <3>2. CASE x >= m
        <4>1. \A y \in T : x >= y
          BY <2>10, <2>11, <3>2
        <4> QED BY <4>1, <2>5
      <3> QED BY <2>11, <3>1, <3>2
    <2> QED BY <2>4, <2>12
  <1>2. HasMax(S)
    <2>1. S \in FiniteSubsetsOf(S)
      BY DEF FiniteSubsetsOf
    <2> HIDE DEF HasMax
    <2> QED BY <1>1, <2>1
  <1> QED BY <1>2, Zenon DEF Max

-----------------------------------------------------------------------------
(* What a request in hand looks like. *)

Partial(S, T) == UNION {[D -> T] : D \in SUBSET S}

Jobs(kinds) == [kind : kinds, id : Nat, name : Names, patched : BOOLEAN, force : BOOLEAN,
                version : Nat]
Dep == [least : Nat, name : Names, patched : BOOLEAN, failed : BOOLEAN]

RequestFrames == [at : {"Request"}, name : Names]
PersistFrames == [at : {"Persist"}, roots : SUBSET Names, build : BOOLEAN,
                  names : SUBSET Names, links : Partial(Names \X Names, Nat)]
InitialFrames == [at : {"Initial"}, todo : SUBSET Nat, leaf : SUBSET Nat]
QueueInitialFrames == [at : {"QueueInitial"}, id : Nat, leaf : SUBSET Nat, todo : SUBSET Nat,
                       as : {"Enqueued", "Waiting"}]
ResolveFrames == [at : {"Resolve"}, job : Jobs({"Update", "Edit"})]
InsertFrames == [at : {"Insert"}, job : Jobs({"Update", "Edit"}), former : SUBSET Nat,
                 found : Partial(Names, Nat), todo : SUBSET Names]
LinkedFrames == [at : {"LiveCheck", "Delete"}, job : Jobs({"Update", "Edit"}),
                 from : SUBSET Nat, deps : Partial(Nat, Dep)]
LooseFrames == [at : {"LiveCheck", "Delete"}, job : Jobs({"Replace", "Remove"}),
                from : SUBSET Nat]
PrepareFrames == [at : {"Prepare", "Pending"}, job : Jobs({"Update"}), deps : Partial(Nat, Dep),
                  todo : SUBSET Nat, dep : Nat, waits : BOOLEAN]
PutFrames == [at : {"Put"}, id : Nat]
RepointFrames == [at : {"Repoint"}, job : Jobs({"Replace"}), old : Nat, new : Names]
ResyncFrames == [at : {"Resync"}, job : Jobs({"Replace"}), old : Nat]
SettleFrames == [at : {"Settle"}, job : Jobs({"Replace"}), old : Nat,
                 move : {"None", "Waiting", "Enqueued"} \X {"None", "Waiting", "Enqueued"}]

Frame ==
    UNION {RequestFrames, PersistFrames, InitialFrames, QueueInitialFrames, ResolveFrames,
           InsertFrames, LinkedFrames, LooseFrames, PrepareFrames, PutFrames, RepointFrames,
           ResyncFrames, SettleFrames}

HasJob(f) == "job" \in DOMAIN f
HasDeps(f) == "deps" \in DOMAIN f

(* With the rows rs and the ids below next handed out: i was a row named n,  *)
(* and is still, if it is one.                                               *)
Named(i, n, rs, next) == i < next /\ (i \in DOMAIN rs => rs[i].name = n)

(* What a frame has read of the rows and not lost. *)
Fits(f, rs, next) ==
    /\ HasJob(f) => Named(f.job.id, f.job.name, rs, next)
    /\ HasDeps(f) => \A j \in DOMAIN f.deps : Named(j, f.deps[j].name, rs, next)
    /\ f.at = "Persist" => \A e \in DOMAIN f.links : e[1] \in f.names /\ e[1] # e[2]
    /\ f.at = "Insert" => f.job.name \notin DOMAIN f.found
    /\ f.at = "Repoint" => f.new # f.job.name
    /\ f.at \in {"Prepare", "Pending"} => f.todo \subseteq DOMAIN f.deps
    /\ f.at = "Pending" => f.dep \in DOMAIN f.deps

(* Updates on the stack are of packages visited, each of another one; a      *)
(* request of another kind works on one package.                             *)
OneJobEach(visited, s) ==
    \A k \in DOMAIN s : HasJob(s[k]) =>
       /\ s[k].job.kind = "Update" => s[k].job.id \in visited
       /\ \A l \in DOMAIN s \ {k} :
             HasJob(s[l]) => s[k].job.kind = "Update" /\ s[k].job.id # s[l].job.id

OpOK(o, rs, next) ==
    /\ o \in [visited : SUBSET Nat, stack : Seq(Frame)]
    /\ o.stack = << >> => o = Idle
    /\ \A k \in DOMAIN o.stack : Fits(o.stack[k], rs, next)
    /\ OneJobEach(o.visited, o.stack)

(* Ids are not given out again and rows keep their names. *)
Later(rs, next, rs2, next2) ==
    /\ next <= next2
    /\ \A i \in DOMAIN rs2 : i < next => i \in DOMAIN rs /\ rs2[i].name = rs[i].name

GraphOK ==
    /\ nextId \in Nat \ {0} /\ DOMAIN rows \subseteq 1 .. nextId - 1
    /\ \A i \in DOMAIN rows : rows[i] \in Row
    /\ \A e \in DOMAIN edges :
          e[1] \in DOMAIN rows /\ e[2] \in DOMAIN rows /\ e[1] # e[2] /\ edges[e] \in Nat
    /\ DOMAIN promoting \subseteq DOMAIN rows

ReleasesOK == release \in [Names -> Nat] /\ \A n \in Names : release[n] \in 1 .. Len(Releases[n])

TypeInv ==
    /\ GraphOK
    /\ ReleasesOK
    /\ DOMAIN ops = Tasks
    /\ \A t \in Tasks : OpOK(ops[t], rows, nextId)

LEMMA LaterFits ==
    ASSUME NEW rs, NEW next \in Nat, NEW rs2, NEW next2 \in Nat, Later(rs, next, rs2, next2),
           NEW f \in Frame, Fits(f, rs, next)
    PROVE  Fits(f, rs2, next2)
  <1>1. ASSUME NEW i \in Nat, NEW n, Named(i, n, rs, next) PROVE Named(i, n, rs2, next2)
    BY <1>1 DEF Named, Later
  <1>2. HasJob(f) => f.job.id \in Nat
    BY DEF Frame, HasJob, Jobs, RequestFrames, PersistFrames, InitialFrames, QueueInitialFrames,
           ResolveFrames, InsertFrames, LinkedFrames, LooseFrames, PrepareFrames, PutFrames,
           RepointFrames, ResyncFrames, SettleFrames
  <1>3. HasDeps(f) => DOMAIN f.deps \subseteq Nat
    <2>1. HasDeps(f) => f.deps \in Partial(Nat, Dep)
      BY DEF Frame, HasDeps, RequestFrames, PersistFrames, InitialFrames, QueueInitialFrames,
           ResolveFrames, InsertFrames, LinkedFrames, LooseFrames, PrepareFrames, PutFrames,
           RepointFrames, ResyncFrames, SettleFrames
    <2>2. \A d \in Partial(Nat, Dep) : DOMAIN d \subseteq Nat
      BY DEF Partial
    <2> QED BY <2>1, <2>2
  <1> QED BY <1>1, <1>2, <1>3 DEF Fits

LEMMA LaterOp ==
    ASSUME NEW rs, NEW next \in Nat, NEW rs2, NEW next2 \in Nat, Later(rs, next, rs2, next2),
           NEW o, OpOK(o, rs, next)
    PROVE  OpOK(o, rs2, next2)
  <1>1. \A k \in DOMAIN o.stack : o.stack[k] \in Frame
    BY DEF OpOK
  <1> QED BY <1>1, LaterFits DEF OpOK

(* A frame is told by the step it is at. *)
LEMMA FrameAt ==
    ASSUME NEW f \in Frame
    PROVE  /\ f.at = "Request" => f \in RequestFrames
           /\ f.at = "Persist" => f \in PersistFrames
           /\ f.at = "Initial" => f \in InitialFrames
           /\ f.at = "QueueInitial" => f \in QueueInitialFrames
           /\ f.at = "Resolve" => f \in ResolveFrames
           /\ f.at = "Insert" => f \in InsertFrames
           /\ f.at \in {"LiveCheck", "Delete"} => f \in LinkedFrames \/ f \in LooseFrames
           /\ f.at \in {"Prepare", "Pending"} => f \in PrepareFrames
           /\ f.at = "Put" => f \in PutFrames
           /\ f.at = "Repoint" => f \in RepointFrames
           /\ f.at = "Resync" => f \in ResyncFrames
           /\ f.at = "Settle" => f \in SettleFrames
  <1>1. /\ \A g \in RequestFrames : g.at = "Request"
        /\ \A g \in PersistFrames : g.at = "Persist"
        /\ \A g \in InitialFrames : g.at = "Initial"
        /\ \A g \in QueueInitialFrames : g.at = "QueueInitial"
        /\ \A g \in ResolveFrames : g.at = "Resolve"
        /\ \A g \in InsertFrames : g.at = "Insert"
    BY DEF RequestFrames, PersistFrames, InitialFrames, QueueInitialFrames, ResolveFrames, InsertFrames
  <1>2. /\ \A g \in LinkedFrames : g.at \in {"LiveCheck", "Delete"}
        /\ \A g \in LooseFrames : g.at \in {"LiveCheck", "Delete"}
        /\ \A g \in PrepareFrames : g.at \in {"Prepare", "Pending"}
        /\ \A g \in PutFrames : g.at = "Put"
        /\ \A g \in RepointFrames : g.at = "Repoint"
        /\ \A g \in ResyncFrames : g.at = "Resync"
        /\ \A g \in SettleFrames : g.at = "Settle"
    BY DEF LinkedFrames, LooseFrames, PrepareFrames, PutFrames, RepointFrames, ResyncFrames, SettleFrames
  <1> QED BY <1>1, <1>2 DEF Frame

(* Which frames are about a package, and have read what it depends on. *)
LEMMA FrameJobs ==
    /\ \A g \in RequestFrames \cup PersistFrames \cup InitialFrames \cup QueueInitialFrames \cup PutFrames :
          ~HasJob(g) /\ ~HasDeps(g)
    /\ \A g \in ResolveFrames \cup InsertFrames \cup LooseFrames \cup RepointFrames \cup ResyncFrames
                 \cup SettleFrames : HasJob(g) /\ ~HasDeps(g)
    /\ \A g \in LinkedFrames \cup PrepareFrames : HasJob(g) /\ HasDeps(g)
  BY DEF HasJob, HasDeps, RequestFrames, PersistFrames, InitialFrames, QueueInitialFrames,
           ResolveFrames, InsertFrames, LinkedFrames, LooseFrames, PrepareFrames, PutFrames,
           RepointFrames, ResyncFrames, SettleFrames

(* Frame f goes on with what frame g was about, or is about no package. *)
SameJob(f, g) == HasJob(f) => HasJob(g) /\ f.job.kind = g.job.kind /\ f.job.id = g.job.id

LEMMA IdleOK == \A rs, next : OpOK(Idle, rs, next)
  <1>1. Idle.visited = {} /\ Idle.stack = << >> /\ Idle \in [visited : SUBSET Nat, stack : Seq(Frame)]
    BY DEF Idle
  <1> QED BY <1>1 DEF OpOK, OneJobEach

(* Become *)
LEMMA OpReplaced ==
    ASSUME NEW rs, NEW next, NEW o, OpOK(o, rs, next), o.stack # << >>,
           NEW f \in Frame, Fits(f, rs, next), SameJob(f, Last(o.stack)),
           NEW p, p = [o EXCEPT !.stack = Append(Front(@), f)]
    PROVE  OpOK(p, rs, next)
  <1> DEFINE s == o.stack
             r == Append(Front(s), f)
  <1>1. o \in [visited : SUBSET Nat, stack : Seq(Frame)] /\ s \in Seq(Frame)
    BY DEF OpOK
  <1>2. Len(s) \in Nat \ {0} /\ DOMAIN s = 1 .. Len(s) /\ Last(s) = s[Len(s)]
    BY <1>1, StackTop
  <1>3. /\ r \in Seq(Frame) /\ r # << >> /\ DOMAIN r = 1 .. Len(s)
        /\ r[Len(s)] = f /\ \A k \in 1 .. Len(s) - 1 : r[k] = s[k]
    BY <1>1, TopReplaced
  <1> HIDE DEF r
  <1>4. p \in [visited : SUBSET Nat, stack : Seq(Frame)] /\ p.stack = r /\ p.visited = o.visited
    BY <1>1, <1>3 DEF r
  <1>5. \A k \in DOMAIN r : \/ k \in 1 .. Len(s) - 1 /\ k \in DOMAIN s /\ r[k] = s[k]
                            \/ k = Len(s) /\ k \in DOMAIN s /\ r[k] = f
    BY <1>2, <1>3
  <1>6. \A k \in DOMAIN r : Fits(r[k], rs, next)
    BY <1>5 DEF OpOK
  <1>7. \A k \in DOMAIN r : k \in DOMAIN s /\ SameJob(r[k], s[k])
    BY <1>2, <1>5 DEF SameJob
  <1>8. OneJobEach(o.visited, s)
    BY DEF OpOK
  <1> HIDE DEF s
  <1>9. OneJobEach(o.visited, r)
    <2> SUFFICES ASSUME NEW k \in DOMAIN r, HasJob(r[k])
                 PROVE  /\ r[k].job.kind = "Update" => r[k].job.id \in o.visited
                        /\ \A l \in DOMAIN r \ {k} :
                              HasJob(r[l]) => r[k].job.kind = "Update" /\ r[k].job.id # r[l].job.id
      BY DEF OneJobEach
    <2>1. k \in DOMAIN s /\ HasJob(s[k]) /\ r[k].job.kind = s[k].job.kind /\ r[k].job.id = s[k].job.id
      BY <1>7 DEF SameJob
    <2>2. \A l \in DOMAIN r : HasJob(r[l]) => l \in DOMAIN s /\ HasJob(s[l]) /\ r[l].job.id = s[l].job.id
      BY <1>7 DEF SameJob
    <2> QED BY <1>8, <2>1, <2>2 DEF OneJobEach
  <1> QED BY <1>3, <1>4, <1>6, <1>9 DEF OpOK

(* Call, of something that is about no package *)
LEMMA OpPushed ==
    ASSUME NEW rs, NEW next, NEW o, OpOK(o, rs, next), o.stack # << >>,
           NEW f \in Frame, Fits(f, rs, next), SameJob(f, Last(o.stack)),
           NEW g \in Frame, Fits(g, rs, next),
           NEW visited, o.visited \subseteq visited, visited \subseteq Nat,
           HasJob(g) => /\ g.job.kind = "Update" /\ g.job.id \in visited \ o.visited
                        /\ HasJob(Last(o.stack)) /\ Last(o.stack).job.kind = "Update"
    PROVE  OpOK([visited |-> visited, stack |-> Append(Append(Front(o.stack), f), g)], rs, next)
  <1> DEFINE s == o.stack
             r == Append(Append(Front(s), f), g)
             N == Len(s)
             p == [visited |-> visited, stack |-> r]
  <1>1. o \in [visited : SUBSET Nat, stack : Seq(Frame)] /\ s \in Seq(Frame)
    BY DEF OpOK
  <1>2. N \in Nat \ {0} /\ DOMAIN s = 1 .. N /\ Last(s) = s[N]
    BY <1>1, StackTop
  <1>3. /\ r \in Seq(Frame) /\ r # << >> /\ DOMAIN r = 1 .. N + 1
        /\ r[N + 1] = g /\ r[N] = f /\ \A k \in 1 .. N - 1 : r[k] = s[k]
    BY <1>1, TopPushed
  <1>4. p \in [visited : SUBSET Nat, stack : Seq(Frame)] /\ p.stack = r /\ p.visited = visited
    BY <1>1, <1>3
  <1> HIDE DEF p, r
  <1>5. \A k \in DOMAIN r : \/ k \in 1 .. N - 1 /\ k \in DOMAIN s /\ r[k] = s[k]
                            \/ k = N /\ k \in DOMAIN s /\ r[k] = f
                            \/ k = N + 1 /\ r[k] = g
    BY <1>2, <1>3
  <1>6. \A k \in DOMAIN r : Fits(r[k], rs, next)
    BY <1>5 DEF OpOK
  <1>7. \A k \in DOMAIN r \ {N + 1} : k \in DOMAIN s /\ SameJob(r[k], s[k])
    BY <1>2, <1>5 DEF SameJob
  <1>8. OneJobEach(o.visited, s)
    BY DEF OpOK
  <1>9. N \in DOMAIN s /\ Last(o.stack) = s[N]
    BY <1>2
  <1>10. HasJob(g) => /\ g.job.kind = "Update" /\ g.job.id \in visited \ o.visited
                      /\ HasJob(s[N]) /\ s[N].job.kind = "Update"
    BY <1>9
  <1> HIDE DEF s, N
  <1>11. ASSUME NEW k \in DOMAIN s, HasJob(s[k]), HasJob(g)
         PROVE  s[k].job.kind = "Update" /\ s[k].job.id \in o.visited
    BY <1>8, <1>9, <1>10, <1>11 DEF OneJobEach
  <1>12. OneJobEach(visited, r)
    <2> SUFFICES ASSUME NEW k \in DOMAIN r, HasJob(r[k])
                 PROVE  /\ r[k].job.kind = "Update" => r[k].job.id \in visited
                        /\ \A l \in DOMAIN r \ {k} :
                              HasJob(r[l]) => r[k].job.kind = "Update" /\ r[k].job.id # r[l].job.id
      BY DEF OneJobEach
    <2>1. \A l \in DOMAIN r \ {N + 1} : HasJob(r[l]) =>
             l \in DOMAIN s /\ HasJob(s[l]) /\ r[l].job.id = s[l].job.id /\ r[l].job.kind = s[l].job.kind
      BY <1>7 DEF SameJob
    <2>2. CASE k = N + 1
      <3>1. r[k] = g /\ HasJob(g)
        BY <1>3, <2>2
      <3>2. \A l \in DOMAIN r \ {k} : HasJob(r[l]) => r[l].job.id \in o.visited
        BY <1>11, <2>1, <2>2, <3>1
      <3> QED BY <1>10, <3>1, <3>2
    <2>3. CASE k # N + 1
      <3>1. k \in DOMAIN s /\ HasJob(s[k]) /\ r[k].job.id = s[k].job.id /\ r[k].job.kind = s[k].job.kind
        BY <2>1, <2>3
      <3>2. r[k].job.kind = "Update" => r[k].job.id \in visited
        BY <1>8, <3>1 DEF OneJobEach
      <3>3. ASSUME NEW l \in DOMAIN r \ {k}, HasJob(r[l])
            PROVE  r[k].job.kind = "Update" /\ r[k].job.id # r[l].job.id
        <4>1. CASE l = N + 1
          <5>1. r[l] = g /\ HasJob(g)
            BY <1>3, <3>3, <4>1
          <5> QED BY <1>10, <1>11, <3>1, <5>1
        <4>2. CASE l # N + 1
          BY <1>8, <2>1, <3>1, <3>3, <4>2 DEF OneJobEach
        <4> QED BY <4>1, <4>2
      <3> QED BY <3>2, <3>3
    <2> QED BY <2>2, <2>3
  <1>13. OpOK(p, rs, next)
    BY <1>3, <1>4, <1>6, <1>12 DEF OpOK
  <1> QED BY <1>13 DEF p, r, s

(* Return to the frame below *)
LEMMA OpPopped ==
    ASSUME NEW rs, NEW next, NEW o, OpOK(o, rs, next), o.stack # << >>, Len(o.stack) # 1,
           NEW p, p = [o EXCEPT !.stack = Front(@)]
    PROVE  OpOK(p, rs, next)
  <1> DEFINE s == o.stack
             r == Front(s)
  <1>1. o \in [visited : SUBSET Nat, stack : Seq(Frame)] /\ s \in Seq(Frame)
    BY DEF OpOK
  <1>2. /\ Len(s) \in Nat \ {0} /\ DOMAIN s = 1 .. Len(s)
        /\ r \in Seq(Frame) /\ Len(r) = Len(s) - 1 /\ \A k \in 1 .. Len(s) - 1 : r[k] = s[k]
    BY <1>1, StackTop
  <1> HIDE DEF r
  <1>3. DOMAIN r = 1 .. Len(s) - 1 /\ r # << >>
    <2>1. Len(s) # 1 /\ Len(<< >>) = 0
      OBVIOUS
    <2>2. Len(r) \in Nat \ {0} /\ DOMAIN r = 1 .. Len(r)
      BY <1>2, <2>1
    <2> QED BY <1>2, <2>1, <2>2
  <1>4. p \in [visited : SUBSET Nat, stack : Seq(Frame)] /\ p.stack = r /\ p.visited = o.visited
    BY <1>1, <1>2 DEF r
  <1>5. \A k \in DOMAIN r : k \in DOMAIN s /\ r[k] = s[k]
    BY <1>2, <1>3
  <1> HIDE DEF s
  <1>6. OneJobEach(o.visited, r)
    <2>1. OneJobEach(o.visited, s)
      BY DEF OpOK, s
    <2> QED BY <2>1, <1>5 DEF OneJobEach
  <1>7. \A k \in DOMAIN r : Fits(r[k], rs, next)
    BY <1>5 DEF OpOK, s
  <1> QED BY <1>3, <1>4, <1>6, <1>7 DEF OpOK

-----------------------------------------------------------------------------
(* What the operators of the model return. *)

LEMMA InPartial ==
    ASSUME NEW S, NEW T, NEW f
    PROVE  f \in Partial(S, T) <=> DOMAIN f \subseteq S /\ f \in [DOMAIN f -> T]
  BY DEF Partial

(* The greatest of finitely many naturals is one. *)
LEMMA MaxOfImage ==
    ASSUME NEW D, IsFiniteSet(D), D # {}, NEW f, \A d \in D : f[d] \in Nat
    PROVE  Max({f[d] : d \in D}) \in Nat
  <1> DEFINE T == {f[d] : d \in D}
             g == [d \in D |-> f[d]]
  <1>1. g \in Surjection(D, T)
    BY DEF Surjection
  <1>2. IsFiniteSet(T)
    BY <1>1, FS_Surjection
  <1>3. T \subseteq Nat /\ T # {}
    OBVIOUS
  <1> HIDE DEF T
  <1>4. Max(T) \in T
    BY <1>2, <1>3, MaxIsIn
  <1>5. Max(T) \in Nat
    BY <1>3, <1>4
  <1> QED BY <1>5 DEF T

LEMMA ReachWithin ==
    ASSUME NEW E, NEW S
    PROVE  /\ Reach(E, S) \subseteq S \cup {e[1] : e \in E} \cup {e[2] : e \in E}
           /\ S \subseteq Reach(E, S)
  BY DEF Reach

LEMMA DeclaredType ==
    ASSUME ReleasesOK, NEW n \in Names, NEW patched
    PROVE  Declaration(Declared(n, patched))
  <1>1. release[n] \in 1 .. Len(Releases[n])
    BY DEF ReleasesOK
  <1>2. Declaration(Patch[n]) /\ Declaration(Releases[n][release[n]])
    BY <1>1, GraphAssumption
  <1> QED BY <1>2 DEF Declared

LEMMA TrackedNames ==
    ASSUME GraphOK
    PROVE  Tracked \subseteq Names
  BY DEF GraphOK, Tracked, Row

LEMMA ProviderType ==
    ASSUME GraphOK, NEW d \in Names, NEW preferred
    PROVE  Provider(d, preferred) \in Names
  BY TrackedNames DEF Provider

LEMMA ResolveEdgesType ==
    ASSUME GraphOK, ReleasesOK, NEW n \in Names, NEW patched, NEW preferred
    PROVE  /\ ResolveEdges(n, patched, preferred) \in Partial(Names, Nat)
           /\ n \notin DOMAIN ResolveEdges(n, patched, preferred)
  <1> DEFINE declared == Declared(n, patched)
             wanted == DOMAIN declared \ Provides[n]
             bases == {Provider(d, preferred) : d \in wanted} \ {n}
             for(m) == {d \in wanted : Provider(d, preferred) = m}
             found == [m \in bases |-> Max({declared[d] : d \in for(m)})]
  <1>1. Declaration(declared)
    BY DeclaredType
  <1> HIDE DEF declared
  <1>2. wanted \subseteq Names /\ \A d \in wanted : declared[d] \in Nat
    BY <1>1 DEF Declaration
  <1>3. bases \subseteq Names
    BY <1>2, ProviderType
  <1>4. ASSUME NEW m \in bases PROVE Max({declared[d] : d \in for(m)}) \in Nat
    <2>1. for(m) # {} /\ for(m) \in SUBSET Names /\ \A d \in for(m) : declared[d] \in Nat
      BY <1>2
    <2>2. IsFiniteSet(for(m))
      <3> HIDE DEF for
      <3> QED BY <2>1, FS_Subset, GraphAssumption
    <2> HIDE DEF for
    <2> QED BY <2>1, <2>2, MaxOfImage
  <1> HIDE DEF bases, for
  <1>5. DOMAIN found = bases /\ found \in [bases -> Nat]
    BY <1>4
  <1>6. found = ResolveEdges(n, patched, preferred)
    BY DEF ResolveEdges, declared, bases, for
  <1>7. n \notin bases
    BY DEF bases
  <1> HIDE DEF found
  <1> QED BY <1>3, <1>5, <1>6, <1>7, InPartial

LEMMA PlannedType ==
    ASSUME GraphOK, ReleasesOK, NEW n \in Names, NEW root \in SUBSET Names, NEW build \in BOOLEAN
    PROVE  /\ Planned(n, root, build) \in PersistFrames
           /\ \A rs, next : Fits(Planned(n, root, build), rs, next)
  <1> DEFINE deps == [m \in Names |-> ResolveEdges(m, FALSE, {})]
             links == {e \in Names \X Names : e[1] \notin Tracked /\ e[2] \in DOMAIN deps[e[1]]}
             new == Reach(links, {n}) \ Tracked
             taken == {e \in links : e[1] \in new}
             l == [e \in taken |-> deps[e[1]][e[2]]]
             p == Planned(n, root, build)
  <1>1. \A m \in Names : deps[m] \in Partial(Names, Nat) /\ m \notin DOMAIN deps[m]
    BY ResolveEdgesType
  <1>2. \A m \in Names : \A x \in DOMAIN deps[m] : deps[m][x] \in Nat
    <2> HIDE DEF deps
    <2> QED BY <1>1, InPartial
  <1>3. p = [at |-> "Persist", roots |-> root, build |-> build, names |-> new, links |-> l]
    BY DEF Planned
  <1> HIDE DEF p, deps
  <1>4. new \subseteq Names
    <2>1. links \subseteq Names \X Names
      OBVIOUS
    <2> HIDE DEF links
    <2> QED BY <2>1, ReachWithin
  <1>5. /\ taken \subseteq Names \X Names
        /\ \A e \in taken : e[1] \in new /\ e[1] \in Names /\ e[2] \in DOMAIN deps[e[1]]
    OBVIOUS
  <1> HIDE DEF links, new, taken
  <1>6. l \in Partial(Names \X Names, Nat)
    <2>1. DOMAIN l = taken /\ l \in [taken -> Nat]
      BY <1>2, <1>5
    <2> HIDE DEF l
    <2> QED BY <1>5, <2>1, InPartial
  <1>7. \A e \in DOMAIN l : e[1] \in new /\ e[1] # e[2]
    BY <1>1, <1>5
  <1> HIDE DEF l
  <1>8. p \in PersistFrames
    BY <1>3, <1>4, <1>6 DEF PersistFrames
  <1>9. \A rs, next : Fits(p, rs, next)
    BY <1>3, <1>7 DEF Fits, HasJob, HasDeps
  <1> QED BY <1>8, <1>9 DEF p

LEMMA JobType ==
    ASSUME GraphOK, ReleasesOK, NEW i \in DOMAIN rows, NEW kind, NEW force \in BOOLEAN
    PROVE  /\ Job(kind, i, force) \in Jobs({kind}) /\ Job(kind, i, force).kind = kind
           /\ Job(kind, i, force).id = i /\ Job(kind, i, force).name = rows[i].name
           /\ Named(i, rows[i].name, rows, nextId) /\ rows[i].name \in Names /\ i \in Nat
  <1>1. rows[i] \in Row /\ i \in 1 .. nextId - 1 /\ nextId \in Nat
    BY DEF GraphOK
  <1>2. rows[i].name \in Names /\ rows[i].patched \in BOOLEAN
    BY <1>1 DEF Row
  <1>3. release[rows[i].name] \in Nat
    BY <1>2 DEF ReleasesOK
  <1>4. Job(kind, i, force) \in Jobs({kind})
    BY <1>1, <1>2, <1>3 DEF Job, Jobs
  <1> QED BY <1>1, <1>2, <1>4 DEF Job, Named

LEMMA UnforcedJobType ==
    ASSUME GraphOK, ReleasesOK, NEW i \in DOMAIN rows, NEW kind, NEW job, job = Job(kind, i, FALSE)
    PROVE  /\ job \in Jobs({kind}) /\ job.kind = kind /\ job.name = rows[i].name
           /\ Named(job.id, job.name, rows, nextId) /\ i \in Nat
  <1>1. \A b \in BOOLEAN : LET j == Job(kind, i, b)
                           IN  /\ j \in Jobs({kind}) /\ j.kind = kind /\ j.name = rows[i].name
                               /\ Named(j.id, j.name, rows, nextId) /\ i \in Nat
    BY JobType
  <1>2. FALSE \in BOOLEAN
    OBVIOUS
  <1> QED BY <1>1, <1>2, Zenon

-----------------------------------------------------------------------------
(* How a task goes on. *)

(* The graph's part of a step. *)
GraphStep == GraphOK' /\ ReleasesOK' /\ Later(rows, nextId, rows', nextId')

LEMMA NothingChanges ==
    ASSUME TypeInv, UNCHANGED <<graph, release, promoting>>
    PROVE  GraphStep
  <1>1. rows' = rows /\ edges' = edges /\ nextId' = nextId /\ release' = release /\ promoting' = promoting
    BY DEF graph
  <1>2. GraphOK' /\ ReleasesOK'
    BY <1>1 DEF TypeInv, GraphOK, ReleasesOK
  <1>3. nextId \in Nat
    BY DEF TypeInv, GraphOK
  <1> QED BY <1>1, <1>2, <1>3 DEF GraphStep, Later

(* Rows change in place and keep their names. *)
LEMMA RowsChange ==
    ASSUME TypeInv, DOMAIN rows' = DOMAIN rows,
           \A i \in DOMAIN rows : rows'[i] \in Row /\ rows'[i].name = rows[i].name,
           UNCHANGED <<edges, nextId, release>>, DOMAIN promoting' \subseteq DOMAIN rows
    PROVE  GraphStep
  <1>1. nextId \in Nat /\ GraphOK /\ ReleasesOK
    BY DEF TypeInv, GraphOK
  <1>2. GraphOK'
    BY <1>1 DEF GraphOK
  <1>3. ReleasesOK'
    BY <1>1 DEF ReleasesOK
  <1>4. Later(rows, nextId, rows', nextId')
    BY <1>1 DEF Later
  <1> QED BY <1>2, <1>3, <1>4 DEF GraphStep

(* One task moves to what it is at now, the others stay where they are. *)
LEMMA TaskMoves ==
    ASSUME TypeInv, GraphStep, NEW t \in Tasks, NEW o, ops' = [ops EXCEPT ![t] = o],
           OpOK(o, rows, nextId)
    PROVE  TypeInv'
  <1>1. nextId \in Nat /\ nextId' \in Nat
    BY DEF TypeInv, GraphStep, GraphOK
  <1>2. \A u \in Tasks : OpOK(ops'[u], rows, nextId)
    BY DEF TypeInv
  <1>3. \A u \in Tasks : OpOK(ops'[u], rows', nextId')
    BY <1>1, <1>2, LaterOp DEF GraphStep
  <1> QED BY <1>3 DEF TypeInv, GraphStep

LEMMA TopFits ==
    ASSUME TypeInv, NEW t \in Tasks, NEW step, At(t, step)
    PROVE  /\ ops[t].stack # << >> /\ ops[t].stack \in Seq(Frame)
           /\ Top(t) = Last(ops[t].stack) /\ Top(t) \in Frame
           /\ Top(t).at = step /\ Fits(Top(t), rows, nextId) /\ OpOK(ops[t], rows, nextId)
  <1>1. OpOK(ops[t], rows, nextId) /\ ops[t] # Idle
    BY DEF TypeInv, At, Busy
  <1>2. ops[t].stack # << >> /\ ops[t].stack \in Seq(Frame)
    BY <1>1 DEF OpOK
  <1>3. Top(t) = Last(ops[t].stack) /\ Top(t).at = step
    BY DEF At, Top
  <1>4. LET s == ops[t].stack
        IN  Len(s) \in DOMAIN s /\ Last(s) = s[Len(s)] /\ Last(s) \in Frame
    BY <1>2, StackTop
  <1>5. Fits(Top(t), rows, nextId)
    BY <1>1, <1>3, <1>4 DEF OpOK
  <1> QED BY <1>1, <1>2, <1>3, <1>4, <1>5

LEMMA Becomes ==
    ASSUME TypeInv, GraphStep, NEW t \in Tasks, NEW step, At(t, step), NEW f \in Frame,
           Become(t, f), Fits(f, rows, nextId), SameJob(f, Top(t))
    PROVE  TypeInv'
  <1>1. ops[t].stack # << >> /\ Top(t) = Last(ops[t].stack) /\ OpOK(ops[t], rows, nextId)
    BY TopFits
  <1> DEFINE o == [ops[t] EXCEPT !.stack = Append(Front(@), f)]
  <1>2. OpOK(o, rows, nextId)
    BY <1>1, OpReplaced
  <1>3. ops' = [ops EXCEPT ![t] = o]
    BY DEF Become
  <1> HIDE DEF o
  <1> QED BY <1>2, <1>3, TaskMoves

LEMMA Calls ==
    ASSUME TypeInv, GraphStep, NEW t \in Tasks, NEW step, At(t, step), NEW f \in Frame, NEW g \in Frame,
           Call(t, f, g), Fits(f, rows, nextId), SameJob(f, Top(t)), Fits(g, rows, nextId), ~HasJob(g)
    PROVE  TypeInv'
  <1>1. ops[t].stack # << >> /\ Top(t) = Last(ops[t].stack) /\ OpOK(ops[t], rows, nextId)
    BY TopFits
  <1> DEFINE o == [visited |-> ops[t].visited, stack |-> Append(Append(Front(ops[t].stack), f), g)]
  <1>2. ops[t] \in [visited : SUBSET Nat, stack : Seq(Frame)]
    BY <1>1 DEF OpOK
  <1>3. SameJob(f, Last(ops[t].stack)) /\ ops[t].visited \subseteq Nat
    BY <1>1, <1>2
  <1>4. OpOK(o, rows, nextId)
    BY <1>1, <1>3, OpPushed
  <1>5. o = [ops[t] EXCEPT !.stack = Append(Append(Front(@), f), g)]
    <2>1. \A q : [visited |-> ops[t].visited, stack |-> q] = [ops[t] EXCEPT !.stack = q]
      BY <1>2
    <2> QED BY <2>1
  <1>6. ops' = [ops EXCEPT ![t] = o]
    BY <1>5 DEF Call
  <1> HIDE DEF o
  <1> QED BY <1>4, <1>6, TaskMoves

LEMMA Fails ==
    ASSUME TypeInv, GraphStep, NEW t \in Tasks, Fail(t)
    PROVE  TypeInv'
  BY IdleOK, TaskMoves DEF Fail

LEMMA Returns ==
    ASSUME TypeInv, GraphStep, NEW t \in Tasks, NEW step, At(t, step), Return(t)
    PROVE  TypeInv'
  <1>1. CASE Len(ops[t].stack) = 1
    BY <1>1, Fails DEF Return
  <1>2. CASE Len(ops[t].stack) # 1
    <2>1. ops[t].stack # << >> /\ OpOK(ops[t], rows, nextId)
      BY TopFits
    <2> DEFINE o == [ops[t] EXCEPT !.stack = Front(@)]
    <2>2. OpOK(o, rows, nextId)
      BY <1>2, <2>1, OpPopped
    <2>3. ops' = [ops EXCEPT ![t] = o]
      BY <1>2 DEF Return
    <2> HIDE DEF o
    <2> QED BY <2>2, <2>3, TaskMoves
  <1> QED BY <1>1, <1>2

(* A request starts with one frame, or with one and what has to come first. *)
LEMMA Begins ==
    ASSUME TypeInv, GraphStep, NEW t \in Tasks, NEW kind, NEW visited \in SUBSET Nat, NEW stack,
           Begin(t, kind, visited, stack), NEW f \in Frame, Fits(f, rows, nextId),
           HasJob(f) /\ f.job.kind = "Update" => f.job.id \in visited,
           \/ stack = << f >>
           \/ \E g \in Frame : stack = << f, g >> /\ Fits(g, rows, nextId) /\ ~HasJob(g)
    PROVE  TypeInv'
  <1> DEFINE o == [visited |-> visited, stack |-> stack]
  <1>1. stack \in Seq(Frame) /\ stack # << >>
    <2>1. CASE stack = << f >>
      BY <2>1
    <2>2. CASE \E g \in Frame : stack = << f, g >>
      BY <2>2
    <2> QED BY <2>1, <2>2
  <1>2. \A k \in DOMAIN stack : \/ k = 1 /\ stack[k] = f
                                \/ Fits(stack[k], rows, nextId) /\ ~HasJob(stack[k])
    <2>1. CASE stack = << f >>
      BY <2>1
    <2>2. ASSUME NEW g, stack = << f, g >>, Fits(g, rows, nextId), ~HasJob(g)
          PROVE  \A k \in DOMAIN stack : \/ k = 1 /\ stack[k] = f
                                         \/ Fits(stack[k], rows, nextId) /\ ~HasJob(stack[k])
      <3>1. DOMAIN stack = {1, 2} /\ stack[1] = f /\ stack[2] = g
        BY <2>2
      <3> QED BY <2>2, <3>1
    <2> QED BY <2>1, <2>2
  <1>3. OneJobEach(visited, stack)
    BY <1>2 DEF OneJobEach
  <1>4. OpOK(o, rows, nextId)
    BY <1>1, <1>2, <1>3 DEF OpOK
  <1>5. ops' = [ops EXCEPT ![t] = o]
    BY DEF Begin
  <1> HIDE DEF o
  <1> QED BY <1>4, <1>5, TaskMoves

-----------------------------------------------------------------------------
(* One lemma per operation: it keeps the invariant. *)

(* Rows rs2 are the rows rs with something else about their builds. *)
SameRows(rs, rs2) ==
    DOMAIN rs2 = DOMAIN rs /\ \A i \in DOMAIN rs : rs2[i] \in Row /\ rs2[i].name = rs[i].name

LEMMA RowsMoved ==
    ASSUME NEW rs, \A i \in DOMAIN rs : rs[i] \in Row, NEW j, NEW from,
           NEW to \in {"None", "Waiting", "Enqueued"}
    PROVE  SameRows(rs, Moved(rs, j, from, to)) /\ SameRows(rs, Queued(rs, j, to))
  BY DEF SameRows, Moved, Queued, Row

LEMMA RowsStep ==
    ASSUME TypeInv, SameRows(rows, rows'), UNCHANGED <<edges, nextId, release, promoting>>
    PROVE  GraphStep
  BY RowsChange DEF SameRows, TypeInv, GraphOK

LEMMA AddKeeps ==
    ASSUME TypeInv, NEW t \in Tasks, NEW n \in Names, Add(t, n)
    PROVE  TypeInv'
  <1> DEFINE f == IF n \in Tracked THEN [at |-> "Request", name |-> n] ELSE Planned(n, {n}, TRUE)
  <1>1. GraphStep /\ GraphOK /\ ReleasesOK
    BY NothingChanges DEF Add, Begin, TypeInv
  <1>2. f \in RequestFrames \cup PersistFrames
    BY <1>1, PlannedType DEF RequestFrames
  <1>3. Fits(f, rows, nextId)
    BY <1>1, PlannedType DEF Fits, HasJob, HasDeps
  <1>4. f \in Frame /\ ~HasJob(f)
    BY <1>2, FrameJobs DEF Frame
  <1>5. Begin(t, "Add", {}, << f >>)
    BY DEF Add
  <1> HIDE DEF f
  <1> QED BY <1>1, <1>3, <1>4, <1>5, Begins

LEMMA SetRequestedKeeps ==
    ASSUME TypeInv, NEW t \in Tasks, SetRequested(t)
    PROVE  TypeInv'
  <1>1. SameRows(rows, rows')
    <2>1. \A i \in DOMAIN rows : rows[i] \in Row
      BY DEF TypeInv, GraphOK
    <2> QED BY <2>1 DEF SetRequested, SameRows, Row
  <1>2. GraphStep
    BY <1>1, RowsStep DEF SetRequested, Step
  <1> QED BY <1>2, Returns DEF SetRequested

LEMMA DecideInitialKeeps ==
    ASSUME TypeInv, NEW t \in Tasks, DecideInitial(t)
    PROVE  TypeInv'
  <1>1. GraphStep /\ At(t, "Initial")
    BY NothingChanges DEF DecideInitial, Step
  <1>2. Top(t) \in InitialFrames
    BY <1>1, TopFits, FrameAt
  <1>3. CASE Return(t)
    BY <1>1, <1>3, Returns
  <1>4. ASSUME NEW i \in Top(t).todo, NEW as \in {"Enqueued", "Waiting"},
               Become(t, [at |-> "QueueInitial", id |-> i, leaf |-> Top(t).leaf,
                          todo |-> Top(t).todo \ {i}, as |-> as])
        PROVE  TypeInv'
    <2> DEFINE f == [at |-> "QueueInitial", id |-> i, leaf |-> Top(t).leaf,
                     todo |-> Top(t).todo \ {i}, as |-> as]
    <2>1. f \in QueueInitialFrames
      BY <1>2, <1>4 DEF InitialFrames, QueueInitialFrames
    <2>2. Fits(f, rows, nextId)
      BY DEF Fits, HasJob, HasDeps
    <2>3. f \in Frame /\ SameJob(f, Top(t))
      BY <2>1, FrameJobs DEF Frame, SameJob
    <2> HIDE DEF f
    <2> QED BY <1>1, <1>4, <2>2, <2>3, Becomes DEF f
  <1>5. Return(t) \/ \E i \in Top(t).todo : \E as \in {"Enqueued", "Waiting"} :
           Become(t, [at |-> "QueueInitial", id |-> i, leaf |-> Top(t).leaf,
                      todo |-> Top(t).todo \ {i}, as |-> as])
    BY DEF DecideInitial
  <1> QED BY <1>3, <1>4, <1>5

LEMMA QueueInitialKeeps ==
    ASSUME TypeInv, NEW t \in Tasks, QueueInitial(t)
    PROVE  TypeInv'
  <1>1. At(t, "QueueInitial") /\ UNCHANGED <<edges, nextId, release, promoting>>
    BY DEF QueueInitial, Step
  <1>2. Top(t) \in QueueInitialFrames /\ \A i \in DOMAIN rows : rows[i] \in Row
    BY <1>1, TopFits, FrameAt DEF TypeInv, GraphOK
  <1>3. CASE Fail(t) /\ UNCHANGED rows
    <2>1. GraphStep
      BY <1>1, <1>3, NothingChanges DEF graph
    <2> QED BY <1>3, <2>1, Fails
  <1>4. CASE /\ rows' = Queued(rows, Top(t).id, Top(t).as)
             /\ Become(t, [at |-> "Initial", todo |-> Top(t).todo, leaf |-> Top(t).leaf])
    <2> DEFINE f == [at |-> "Initial", todo |-> Top(t).todo, leaf |-> Top(t).leaf]
    <2>1. SameRows(rows, rows')
      <3>1. Top(t).as \in {"None", "Waiting", "Enqueued"}
        BY <1>2 DEF QueueInitialFrames
      <3> QED BY <1>2, <1>4, <3>1, RowsMoved
    <2>2. GraphStep
      BY <1>1, <2>1, RowsStep
    <2>3. f \in InitialFrames
      BY <1>2 DEF InitialFrames, QueueInitialFrames
    <2>4. Fits(f, rows, nextId)
      BY DEF Fits, HasJob, HasDeps
    <2>5. f \in Frame /\ SameJob(f, Top(t))
      BY <2>3, FrameJobs DEF Frame, SameJob
    <2> HIDE DEF f
    <2> QED BY <1>1, <1>4, <2>2, <2>4, <2>5, Becomes DEF f
  <1> QED BY <1>3, <1>4 DEF QueueInitial

NamesUnique == \A i, j \in DOMAIN rows : rows[i].name = rows[j].name => i = j

(* rs2 and F are the rows rs and the edges E with plan f carried out: a row  *)
(* for each of its names, an edge for each of its links, and nothing more.   *)
Planted(f, rs, E, rs2, F) ==
    /\ DOMAIN rs \subseteq DOMAIN rs2 /\ \A i \in DOMAIN rs : rs2[i] = rs[i]
    /\ \A i \in DOMAIN rs2 \ DOMAIN rs : /\ rs2[i].name \in f.names
                                          /\ rs2[i].requested = (rs2[i].name \in f.roots)
    /\ \A n \in f.names : \E i \in DOMAIN rs2 : rs2[i].name = n
    /\ E \subseteq F /\ \A e \in F : e \in E \/ e[1] \in DOMAIN rs2 \ DOMAIN rs
    /\ \A e \in F : e[2] \in DOMAIN rs2
    /\ \A e \in DOMAIN f.links :
          /\ e[1] \in f.names
          /\ \A i, j \in DOMAIN rs2 : rs2[i].name = e[1] /\ rs2[j].name = e[2] => <<i, j>> \in F

LEMMA PersistGraph ==
    ASSUME TypeInv, NEW t \in Tasks, Persist(t), Top(t).names \cap Tracked = {}
    PROVE  /\ GraphStep
           /\ NamesUnique => NamesUnique' /\ Planted(Top(t), rows, DOMAIN edges, rows', DOMAIN edges')
           /\ \/ ~Top(t).build /\ Return(t)
              \/ \E todo, leaf \in SUBSET Nat :
                    /\ Top(t).build /\ todo \subseteq DOMAIN rows'
                    /\ Become(t, [at |-> "Initial", todo |-> todo, leaf |-> leaf])
  <1> DEFINE f == Top(t)
             order == SetToSeq(f.names)
             ids == nextId .. nextId + Len(order) - 1
             all == [i \in DOMAIN rows \cup ids |->
                        IF i \in ids THEN LET n == order[i - nextId + 1]
                                          IN  NewRow(n, n \in f.roots)
                                     ELSE rows[i]]
             id(n) == CHOOSE i \in DOMAIN all : all[i].name = n
             found == {e \in DOMAIN f.links : \E i \in DOMAIN all : all[i].name = e[2]}
             added == {<<id(e[1]), id(e[2])>> : e \in found}
             linked == [e \in DOMAIN edges \cup added |->
                           IF e \in added THEN f.links[<<all[e[1]].name, all[e[2]].name>>]
                                          ELSE edges[e]]
             leaves == {i \in ids : \A e \in added : e[1] # i}
  <1>1. f \in PersistFrames /\ Fits(f, rows, nextId)
    BY TopFits, FrameAt DEF Persist
  <1>2. /\ rows' = all /\ edges' = linked /\ nextId' = nextId + Len(order)
        /\ release' = release /\ promoting' = promoting
        /\ \/ ~f.build /\ Return(t)
           \/ f.build /\ Become(t, [at |-> "Initial", todo |-> ids, leaf |-> leaves])
    BY DEF Persist, Step
  <1>3. f.names \subseteq Names /\ f.links \in Partial(Names \X Names, Nat)
    BY <1>1 DEF PersistFrames
  <1>4. \A e \in DOMAIN f.links : /\ e \in Names \X Names /\ f.links[e] \in Nat
                                  /\ e[1] \in f.names /\ e[1] # e[2]
    <2>1. \A e \in DOMAIN f.links : e[1] \in f.names /\ e[1] # e[2]
      <3>1. f.at = "Persist"
        BY <1>1 DEF PersistFrames
      <3> HIDE DEF f
      <3> QED BY <1>1, <3>1 DEF Fits
    <2> HIDE DEF f
    <2> QED BY <1>3, <2>1, InPartial
  <1> HIDE DEF f
  <1>5. /\ order \in Seq(f.names) /\ Len(order) \in Nat /\ DOMAIN order = 1 .. Len(order)
        /\ \A x \in f.names : \E k \in 1 .. Len(order) : order[k] = x
        /\ \A k, l \in 1 .. Len(order) : order[k] = order[l] => k = l
    <2>1. IsFiniteSet(f.names)
      BY <1>3, FS_Subset, GraphAssumption
    <2> QED BY <2>1, SetToSeqHasAll
  <1> HIDE DEF order
  <1>6. /\ nextId \in Nat \ {0} /\ DOMAIN rows \subseteq 1 .. nextId - 1
        /\ (\A i \in DOMAIN rows : rows[i] \in Row) /\ DOMAIN promoting \subseteq DOMAIN rows
        /\ \A e \in DOMAIN edges :
              e[1] \in DOMAIN rows /\ e[2] \in DOMAIN rows /\ e[1] # e[2] /\ edges[e] \in Nat
    BY DEF TypeInv, GraphOK
  <1>7. \A i \in DOMAIN rows : i \notin ids
    BY <1>5, <1>6
  <1>8. \A i \in ids : i \in Nat /\ i - nextId + 1 \in 1 .. Len(order)
    BY <1>5, <1>6
  <1>9. \A i \in ids : order[i - nextId + 1] \in f.names
    BY <1>5, <1>8
  <1>10. \A n \in Names : /\ NewRow(n, n \in f.roots) \in Row /\ NewRow(n, n \in f.roots).name = n
                           /\ NewRow(n, n \in f.roots).requested = (n \in f.roots)
    BY DEF NewRow, Row
  <1>11. /\ DOMAIN all = DOMAIN rows \cup ids
         /\ \A i \in DOMAIN rows : all[i] = rows[i]
         /\ \A i \in ids : /\ all[i] \in Row /\ all[i].name = order[i - nextId + 1]
                            /\ all[i].requested = (all[i].name \in f.roots)
    <2>1. \A i \in ids : all[i] = NewRow(order[i - nextId + 1], order[i - nextId + 1] \in f.roots)
      OBVIOUS
    <2>2. \A i \in DOMAIN rows : all[i] = rows[i]
      BY <1>7
    <2> HIDE DEF ids
    <2> QED BY <1>3, <1>9, <1>10, <2>1, <2>2
  <1> HIDE DEF all
  <1>12. \A n \in f.names : \E i \in DOMAIN all : all[i].name = n
    <2> TAKE n \in f.names
    <2>1. PICK k \in 1 .. Len(order) : order[k] = n
      BY <1>5
    <2>2. nextId + k - 1 \in ids /\ (nextId + k - 1) - nextId + 1 = k
      BY <1>5, <1>6
    <2> HIDE DEF ids
    <2> QED BY <1>11, <2>1, <2>2
  <1>13. \A n : (\E i \in DOMAIN all : all[i].name = n) => id(n) \in DOMAIN all /\ all[id(n)].name = n
    OBVIOUS
  <1>14. ASSUME NamesUnique
          PROVE  \A i, j \in DOMAIN all : all[i].name = all[j].name => i = j
    <2>1. \A i \in DOMAIN rows : all[i].name \notin f.names
      BY <1>11 DEF Tracked, f
    <2>2. \A i \in ids : all[i].name \in f.names
      BY <1>9, <1>11
    <2>3. \A i, j \in ids : all[i].name = all[j].name => i = j
      <3> TAKE i, j \in ids
      <3>1. all[i].name = all[j].name => i - nextId + 1 = j - nextId + 1
        BY <1>5, <1>8, <1>11
      <3> QED BY <1>6, <1>8, <3>1
    <2> HIDE DEF ids
    <2> QED BY <1>11, <1>14, <2>1, <2>2, <2>3 DEF NamesUnique
  <1>15. ASSUME NamesUnique, NEW e \in DOMAIN f.links, NEW i \in DOMAIN all, NEW j \in DOMAIN all,
                 all[i].name = e[1], all[j].name = e[2]
          PROVE  <<i, j>> \in added
    <2>1. e \in found /\ id(e[1]) = i /\ id(e[2]) = j
      BY <1>13, <1>14, <1>15
    <2> QED BY <2>1
  <1> HIDE DEF id
  <1>16. \A e \in added : e[1] \in ids
    <2> SUFFICES ASSUME NEW g \in found PROVE id(g[1]) \in ids
      OBVIOUS
    <2>1. g[1] \in f.names
      BY <1>4
    <2>2. id(g[1]) \in DOMAIN all /\ all[id(g[1])].name \in f.names
      BY <1>12, <1>13, <2>1
    <2>3. \A i \in DOMAIN rows : all[i].name \notin f.names
      BY <1>11 DEF Tracked, f
    <2> QED BY <1>11, <2>2, <2>3
  <1>17. \A e \in added : /\ e[1] \in DOMAIN all /\ e[2] \in DOMAIN all /\ e[1] # e[2]
                          /\ f.links[<<all[e[1]].name, all[e[2]].name>>] \in Nat
    <2> SUFFICES ASSUME NEW g \in found, NEW e, e = <<id(g[1]), id(g[2])>>
                 PROVE  /\ e[1] \in DOMAIN all /\ e[2] \in DOMAIN all /\ e[1] # e[2]
                        /\ f.links[<<all[e[1]].name, all[e[2]].name>>] \in Nat
      OBVIOUS
    <2>1. g \in DOMAIN f.links /\ \E i \in DOMAIN all : all[i].name = g[2]
      OBVIOUS
    <2>2. g = <<g[1], g[2]>> /\ g[1] \in f.names /\ g[1] # g[2] /\ f.links[g] \in Nat
      BY <1>4, <2>1
    <2>3. id(g[1]) \in DOMAIN all /\ all[id(g[1])].name = g[1]
      BY <1>12, <1>13, <2>2
    <2>4. id(g[2]) \in DOMAIN all /\ all[id(g[2])].name = g[2]
      BY <1>13, <2>1
    <2>5. e[1] = id(g[1]) /\ e[2] = id(g[2])
      OBVIOUS
    <2> QED BY <2>2, <2>3, <2>4, <2>5
  <1> HIDE DEF added
  <1>18. \A e \in DOMAIN linked :
            e[1] \in DOMAIN all /\ e[2] \in DOMAIN all /\ e[1] # e[2] /\ linked[e] \in Nat
    <2>1. \A e \in DOMAIN edges : e[1] \in DOMAIN all /\ e[2] \in DOMAIN all
      BY <1>6, <1>11
    <2> QED BY <1>6, <1>17, <2>1
  <1> HIDE DEF linked
  <1>19. DOMAIN all \subseteq 1 .. nextId' - 1 /\ nextId' \in Nat \ {0}
    BY <1>2, <1>5, <1>6, <1>11
  <1>20. GraphOK'
    <2>1. \A i \in DOMAIN all : all[i] \in Row
      BY <1>6, <1>11
    <2> HIDE DEF ids
    <2> QED BY <1>2, <1>6, <1>11, <1>18, <1>19, <2>1 DEF GraphOK
  <1>21. Later(rows, nextId, rows', nextId')
    <2>1. \A i \in DOMAIN all : i < nextId => i \in DOMAIN rows
      BY <1>5, <1>6, <1>11
    <2>2. nextId <= nextId'
      BY <1>2, <1>5, <1>6
    <2> HIDE DEF ids
    <2> QED BY <1>2, <1>11, <2>1, <2>2 DEF Later
  <1>22. ReleasesOK'
    BY <1>2 DEF TypeInv, ReleasesOK
  <1>23. ids \in SUBSET Nat /\ leaves \in SUBSET Nat
    BY <1>8
  <1> HIDE DEF ids, leaves, found
  <1>24. ids \subseteq DOMAIN all /\ DOMAIN linked = DOMAIN edges \cup added
    BY <1>11 DEF linked
  <1>25. NamesUnique => Planted(f, rows, DOMAIN edges, rows', DOMAIN edges')
    <2>1. DOMAIN edges' = DOMAIN edges \cup added /\ \A e \in DOMAIN edges' : e[2] \in DOMAIN all
      BY <1>2, <1>18, <1>24
    <2>2. \A i \in DOMAIN all \ DOMAIN rows : all[i].name \in f.names /\ i \in ids
      BY <1>9, <1>11
    <2>3. \A e \in added : e[1] \in DOMAIN all \ DOMAIN rows
      BY <1>7, <1>11, <1>16
    <2> QED BY <1>2, <1>4, <1>11, <1>12, <1>15, <2>1, <2>2, <2>3 DEF Planted
  <1>26. NamesUnique => NamesUnique'
    BY <1>2, <1>14 DEF NamesUnique
  <1> QED BY <1>2, <1>20, <1>21, <1>22, <1>23, <1>24, <1>25, <1>26 DEF GraphStep, f

LEMMA PersistTypes ==
    ASSUME TypeInv, NEW t \in Tasks, Persist(t)
    PROVE  TypeInv'
  <1>1. At(t, "Persist")
    BY DEF Persist
  <1>2. CASE Top(t).names \cap Tracked # {}
    <2>1. Fail(t) /\ GraphStep
      BY <1>2, NothingChanges DEF Persist, Step
    <2> QED BY <1>1, <2>1, Fails
  <1>3. CASE Top(t).names \cap Tracked = {}
    <2>1. GraphStep
      BY <1>3, PersistGraph
    <2>2. CASE Return(t)
      BY <1>1, <2>1, <2>2, Returns
    <2>3. ASSUME NEW todo \in SUBSET Nat, NEW leaf \in SUBSET Nat,
                 Become(t, [at |-> "Initial", todo |-> todo, leaf |-> leaf])
          PROVE  TypeInv'
      <3> DEFINE f == [at |-> "Initial", todo |-> todo, leaf |-> leaf]
      <3>1. f \in InitialFrames
        BY DEF InitialFrames
      <3>2. Fits(f, rows, nextId)
        BY DEF Fits, HasJob, HasDeps
      <3>3. f \in Frame /\ SameJob(f, Top(t))
        BY <3>1, FrameJobs DEF Frame, SameJob
      <3> HIDE DEF f
      <3> QED BY <1>1, <2>1, <2>3, <3>2, <3>3, Becomes DEF f
    <2> QED BY <1>3, <2>2, <2>3, PersistGraph
  <1> QED BY <1>2, <1>3

LEMMA UpdateKeeps ==
    ASSUME TypeInv, NEW t \in Tasks, NEW i \in DOMAIN rows, NEW force \in BOOLEAN,
           Update(t, i, force) \/ Edit(t, i)
    PROVE  TypeInv'
  <1>1. GraphStep /\ GraphOK /\ ReleasesOK
    BY NothingChanges DEF Update, Edit, Begin, TypeInv
  <1>2. ASSUME NEW kind \in {"Update", "Edit"}, NEW forced \in BOOLEAN, NEW visited \in SUBSET Nat,
               kind = "Update" => i \in visited,
               Begin(t, kind, visited, << [at |-> "Resolve", job |-> Job(kind, i, forced)] >>)
        PROVE  TypeInv'
    <2> DEFINE f == [at |-> "Resolve", job |-> Job(kind, i, forced)]
    <2>1. /\ Job(kind, i, forced) \in Jobs({kind}) /\ Job(kind, i, forced).kind = kind
          /\ Named(Job(kind, i, forced).id, Job(kind, i, forced).name, rows, nextId)
          /\ Job(kind, i, forced).id = i
      BY <1>1, JobType
    <2>2. f \in ResolveFrames
      BY <2>1 DEF ResolveFrames, Jobs
    <2>3. Fits(f, rows, nextId)
      BY <2>1 DEF Fits, HasJob, HasDeps
    <2>4. f \in Frame /\ f.job.kind = kind /\ f.job.id = i
      BY <2>1, <2>2 DEF Frame
    <2> HIDE DEF f
    <2> QED BY <1>1, <1>2, <2>3, <2>4, Begins DEF f
  <1>3. i \in Nat
    BY <1>1, JobType
  <1>4. CASE Update(t, i, force)
    BY <1>2, <1>3, <1>4 DEF Update
  <1>5. CASE Edit(t, i)
    <2>1. Begin(t, "Edit", {}, << [at |-> "Resolve", job |-> Job("Edit", i, FALSE)] >>)
      BY <1>5 DEF Edit
    <2>2. {} \in SUBSET Nat /\ FALSE \in BOOLEAN /\ "Edit" \in {"Update", "Edit"} /\ "Edit" # "Update"
      OBVIOUS
    <2> QED BY <1>2, <2>1, <2>2, Zenon
  <1> QED BY <1>4, <1>5

LEMMA ResolveKeeps ==
    ASSUME TypeInv, NEW t \in Tasks, Resolve(t)
    PROVE  TypeInv'
  <1> DEFINE job == [Top(t).job EXCEPT !.version = release[Top(t).job.name]]
             former == Dependees(job.id)
             p == IF job.kind = "Edit" THEN ~job.patched ELSE job.patched
             found == ResolveEdges(job.name, p, {rows[j].name : j \in former})
             f == [at |-> "Insert", job |-> job, former |-> former, found |-> found,
                   todo |-> DOMAIN found \ Tracked]
  <1>1. GraphStep /\ GraphOK /\ ReleasesOK /\ At(t, "Resolve")
    BY NothingChanges DEF Resolve, Step, TypeInv
  <1>2. Top(t) \in ResolveFrames /\ Fits(Top(t), rows, nextId) /\ HasJob(Top(t))
    BY <1>1, TopFits, FrameAt, FrameJobs
  <1>3. Top(t).job \in Jobs({"Update", "Edit"})
    BY <1>2 DEF ResolveFrames
  <1>4. Top(t).job.name \in Names /\ release[Top(t).job.name] \in Nat
    BY <1>1, <1>3 DEF Jobs, ReleasesOK
  <1>5. /\ job \in Jobs({"Update", "Edit"}) /\ job.id = Top(t).job.id /\ job.kind = Top(t).job.kind
        /\ job.name = Top(t).job.name
    BY <1>3, <1>4 DEF Jobs
  <1>6. Become(t, f)
    BY DEF Resolve
  <1> HIDE DEF job
  <1>7. former \subseteq Nat
    BY <1>1 DEF Dependees, GraphOK
  <1> HIDE DEF former
  <1>8. found \in Partial(Names, Nat) /\ job.name \notin DOMAIN found
    BY <1>1, <1>4, <1>5, ResolveEdgesType
  <1> HIDE DEF found
  <1>9. DOMAIN found \subseteq Names
    BY <1>8, InPartial
  <1>10. f \in InsertFrames
    BY <1>5, <1>7, <1>8, <1>9 DEF InsertFrames
  <1>11. Fits(f, rows, nextId)
    <2>1. Named(job.id, job.name, rows, nextId)
      BY <1>2, <1>5 DEF Fits
    <2> QED BY <1>8, <2>1 DEF Fits, HasJob, HasDeps
  <1>12. f \in Frame /\ SameJob(f, Top(t))
    BY <1>2, <1>5, <1>10 DEF Frame, SameJob
  <1> HIDE DEF f
  <1> QED BY <1>1, <1>6, <1>11, <1>12, Becomes

LEMMA InsertKeeps ==
    ASSUME TypeInv, NEW t \in Tasks, Insert(t)
    PROVE  TypeInv'
  <1>1. GraphStep /\ GraphOK /\ ReleasesOK /\ At(t, "Insert")
    BY NothingChanges DEF Insert, Step, TypeInv
  <1>2. Top(t) \in InsertFrames /\ Fits(Top(t), rows, nextId)
    BY <1>1, TopFits, FrameAt
  <1>3. PICK n \in Top(t).todo : Call(t, [Top(t) EXCEPT !.todo = @ \ {n}], Planned(n, {}, FALSE))
    BY DEF Insert
  <1> DEFINE f == [Top(t) EXCEPT !.todo = @ \ {n}]
             g == Planned(n, {}, FALSE)
  <1>4. n \in Names
    BY <1>2 DEF InsertFrames
  <1>5. f \in InsertFrames /\ f.job = Top(t).job /\ f.found = Top(t).found /\ f.at = Top(t).at
    BY <1>2 DEF InsertFrames
  <1>6. Top(t) \in Frame /\ HasJob(Top(t)) /\ f \in Frame /\ HasJob(f) /\ ~HasDeps(f) /\ f.at = "Insert"
    BY <1>2, <1>5, FrameJobs DEF Frame, InsertFrames
  <1>7. SameJob(f, Top(t))
    BY <1>5, <1>6 DEF SameJob
  <1> HIDE DEF f
  <1>8. Fits(f, rows, nextId)
    BY <1>2, <1>5, <1>6 DEF Fits
  <1>9. g \in PersistFrames /\ Fits(g, rows, nextId)
    BY <1>1, <1>4, PlannedType
  <1> HIDE DEF g
  <1>10. g \in Frame /\ ~HasJob(g)
    BY <1>9, FrameJobs DEF Frame
  <1> QED BY <1>1, <1>3, <1>6, <1>7, <1>8, <1>9, <1>10, Calls DEF f, g

(* Frames are about rows that have been there. *)
LEMMA RowNamed ==
    ASSUME GraphOK, NEW i \in DOMAIN rows
    PROVE  Named(i, rows[i].name, rows, nextId) /\ i \in Nat /\ rows[i] \in Row
  BY DEF GraphOK, Named

LEMMA LinkTypes ==
    ASSUME TypeInv, NEW t \in Tasks, Link(t)
    PROVE  TypeInv'
  <1> DEFINE f == Top(t)
             i == f.job.id
             edit == f.job.kind = "Edit"
             to == {IdOf(n) : n \in DOMAIN f.found}
             linked == [e \in {e \in DOMAIN edges : e[1] # i} \cup {<<i, j>> : j \in to} |->
                           IF e[1] = i THEN f.found[rows[e[2]].name] ELSE edges[e]]
             written == IF edit THEN [rows EXCEPT ![i].patched = ~@] ELSE rows
             dep(j) == [least |-> linked[<<i, j>>], name |-> rows[j].name,
                        patched |-> rows[j].patched,
                        failed |-> rows[j].pending = "None" /\ rows[j].last = "Failed"]
             g == [at |-> "LiveCheck", job |-> f.job, from |-> f.former, deps |-> [j \in to |-> dep(j)]]
  <1>1. GraphOK /\ At(t, "Insert") /\ release' = release /\ promoting' = promoting
    BY DEF Link, TypeInv, Step
  <1>2. f \in InsertFrames /\ Fits(f, rows, nextId) /\ HasJob(f) /\ f.at = "Insert"
    BY <1>1, TopFits, FrameAt, FrameJobs
  <1>3. CASE Fail(t) /\ UNCHANGED graph
    <2>1. GraphStep
      BY <1>1, <1>3, NothingChanges
    <2> QED BY <1>3, <2>1, Fails
  <1>4. CASE /\ i \in DOMAIN rows /\ DOMAIN f.found \subseteq Tracked
             /\ edges' = linked /\ rows' = Resynced(written, linked, i) /\ nextId' = nextId
             /\ Become(t, g)
    <2>1. /\ f.job \in Jobs({"Update", "Edit"}) /\ f.former \subseteq Nat
          /\ f.found \in Partial(Names, Nat)
      BY <1>2 DEF InsertFrames
    <2>2. /\ rows[i].name = f.job.name /\ f.job.name \notin DOMAIN f.found
          /\ Named(i, f.job.name, rows, nextId)
      <3> HIDE DEF f
      <3> QED BY <1>2, <1>4 DEF Fits, Named
    <2>3. \A n \in DOMAIN f.found : /\ IdOf(n) \in DOMAIN rows /\ rows[IdOf(n)].name = n
                                    /\ f.found[n] \in Nat /\ IdOf(n) # i
      <3> HIDE DEF f
      <3> QED BY <1>4, <2>1, <2>2, IdOfTracked, InPartial
    <2> HIDE DEF f, i
    <2>4. \A j \in to : j \in DOMAIN rows /\ j # i /\ f.found[rows[j].name] \in Nat
      BY <2>3
    <2> HIDE DEF to
    <2>5. \A e \in DOMAIN linked :
             e[1] \in DOMAIN rows /\ e[2] \in DOMAIN rows /\ e[1] # e[2] /\ linked[e] \in Nat
      BY <1>1, <1>4, <2>4 DEF GraphOK
    <2>6. \A j \in to : <<i, j>> \in DOMAIN linked
      OBVIOUS
    <2> HIDE DEF linked
    <2>7. SameRows(rows, written)
      BY <1>1 DEF GraphOK, SameRows, Row
    <2> HIDE DEF written
    <2>8. SameRows(written, rows')
      <3>1. \A j \in DOMAIN written : written[j] \in Row
        BY <2>7 DEF SameRows
      <3>2. \/ rows' = Moved(written, i, "Waiting", "Enqueued")
            \/ rows' = Moved(written, i, "Enqueued", "Waiting")
        BY <1>4 DEF Resynced
      <3> QED BY <3>1, <3>2, RowsMoved
    <2>9. SameRows(rows, rows')
      BY <2>7, <2>8 DEF SameRows
    <2>10. GraphStep
      <3>1. GraphOK'
        BY <1>1, <1>4, <2>5, <2>9 DEF GraphOK, SameRows
      <3>2. ReleasesOK'
        BY <1>1 DEF TypeInv, ReleasesOK
      <3>3. Later(rows, nextId, rows', nextId')
        BY <1>1, <1>4, <2>9 DEF Later, SameRows, GraphOK
      <3> QED BY <3>1, <3>2, <3>3 DEF GraphStep
    <2>11. \A j \in to : dep(j) \in Dep /\ dep(j).name = rows[j].name
      <3> TAKE j \in to
      <3>1. rows[j] \in Row /\ linked[<<i, j>>] \in Nat
        BY <1>1, <2>4, <2>5, <2>6 DEF GraphOK
      <3> QED BY <3>1 DEF Dep, Row
    <2>12. to \subseteq Nat /\ \A j \in to : Named(j, rows[j].name, rows, nextId)
      BY <1>1, <2>4, RowNamed
    <2> HIDE DEF dep
    <2>13. g.deps \in Partial(Nat, Dep) /\ DOMAIN g.deps = to /\ \A j \in to : g.deps[j] = dep(j)
      <3>1. DOMAIN g.deps = to /\ g.deps \in [to -> Dep] /\ \A j \in to : g.deps[j] = dep(j)
        BY <2>11
      <3> HIDE DEF g
      <3> QED BY <2>12, <3>1, InPartial
    <2>14. g \in LinkedFrames
      BY <2>1, <2>13 DEF LinkedFrames
    <2>15. g.job = f.job /\ g.at = "LiveCheck"
      OBVIOUS
    <2> HIDE DEF g
    <2>16. Fits(g, rows, nextId)
      BY <2>2, <2>11, <2>12, <2>13, <2>15 DEF Fits, i
    <2>17. g \in Frame /\ SameJob(g, f)
      BY <1>2, <2>14, <2>15 DEF Frame, SameJob
    <2> QED BY <1>1, <1>4, <2>10, <2>16, <2>17, Becomes DEF f
  <1>5. \/ Fail(t) /\ UNCHANGED graph
        \/ /\ i \in DOMAIN rows /\ DOMAIN f.found \subseteq Tracked
           /\ edges' = linked /\ rows' = Resynced(written, linked, i) /\ nextId' = nextId
           /\ Become(t, g)
    BY DEF Link
  <1> QED BY <1>3, <1>4, <1>5

LEMMA PrepareKeeps ==
    ASSUME TypeInv, NEW t \in Tasks, Prepare(t)
    PROVE  TypeInv'
  <1>1. GraphStep /\ At(t, "Prepare")
    BY NothingChanges DEF Prepare, Step
  <1>2. Top(t) \in PrepareFrames /\ Fits(Top(t), rows, nextId) /\ HasJob(Top(t)) /\ Top(t).at = "Prepare"
    BY <1>1, TopFits, FrameAt, FrameJobs
  <1>3. PICK j \in Top(t).todo : \/ Become(t, [Top(t) EXCEPT !.todo = @ \ {j}])
                                 \/ Become(t, [[Top(t) EXCEPT !.todo = @ \ {j}] EXCEPT
                                                  !.at = "Pending", !.dep = j, !.waits = TRUE])
    BY DEF Prepare
  <1>4. ASSUME NEW f, f \in PrepareFrames, f.deps = Top(t).deps, f.job = Top(t).job,
               f.todo \subseteq Top(t).todo, f.at = "Pending" => f.dep \in Top(t).todo, Become(t, f)
        PROVE  TypeInv'
    <2>1. HasJob(f) /\ HasDeps(f) /\ HasDeps(Top(t)) /\ f \in Frame
      BY <1>2, <1>4, FrameJobs DEF Frame
    <2>2. f.at \in {"Prepare", "Pending"}
      BY <1>4 DEF PrepareFrames
    <2>3. Fits(f, rows, nextId)
      BY <1>2, <1>4, <2>1, <2>2 DEF Fits
    <2>4. SameJob(f, Top(t))
      BY <1>2, <1>4 DEF SameJob
    <2> QED BY <1>1, <1>4, <2>1, <2>3, <2>4, Becomes
  <1> DEFINE f == [Top(t) EXCEPT !.todo = @ \ {j}]
             g == [f EXCEPT !.at = "Pending", !.dep = j, !.waits = TRUE]
  <1>5. /\ f \in PrepareFrames /\ f.deps = Top(t).deps /\ f.job = Top(t).job /\ f.at = "Prepare"
        /\ f.todo \subseteq Top(t).todo
    BY <1>2 DEF PrepareFrames
  <1>6. /\ g \in PrepareFrames /\ g.deps = Top(t).deps /\ g.job = Top(t).job /\ g.dep = j
        /\ g.todo \subseteq Top(t).todo
    BY <1>2 DEF PrepareFrames
  <1>7. Become(t, f) \/ Become(t, g)
    BY <1>3
  <1> HIDE DEF f, g
  <1> QED BY <1>4, <1>5, <1>6, <1>7

LEMMA UpdateDependencyKeeps ==
    ASSUME TypeInv, NEW t \in Tasks, UpdateDependency(t)
    PROVE  TypeInv'
  <1> DEFINE f == [Top(t) EXCEPT !.at = "Prepare"]
             j == f.dep
             d == f.deps[j]
             job == [f.job EXCEPT !.id = j, !.name = d.name, !.patched = d.patched, !.force = TRUE]
             g == [at |-> "Resolve", job |-> job]
  <1>1. GraphStep /\ At(t, "Pending")
    BY NothingChanges DEF UpdateDependency, Step
  <1>2. Top(t) \in PrepareFrames /\ Fits(Top(t), rows, nextId) /\ HasJob(Top(t)) /\ Top(t).at = "Pending"
    BY <1>1, TopFits, FrameAt, FrameJobs
  <1>3. /\ f \in PrepareFrames /\ f.deps = Top(t).deps /\ f.job = Top(t).job /\ f.at = "Prepare"
        /\ f.todo = Top(t).todo /\ f.dep = Top(t).dep
    BY <1>2 DEF PrepareFrames
  <1> HIDE DEF f
  <1>4. HasJob(f) /\ HasDeps(f) /\ HasDeps(Top(t)) /\ f \in Frame
    BY <1>2, <1>3, FrameJobs DEF Frame
  <1>5. Fits(f, rows, nextId) /\ SameJob(f, Top(t))
    BY <1>2, <1>3, <1>4 DEF Fits, SameJob
  <1>6. CASE Become(t, f)
    BY <1>1, <1>4, <1>5, <1>6, Becomes
  <1>7. CASE /\ j \notin ops[t].visited
             /\ ops' = [ops EXCEPT ![t] = [visited |-> @.visited \cup {j},
                                          stack |-> Append(Append(Front(@.stack), f), g)]]
    <2>1. f.job \in Jobs({"Update"}) /\ f.deps \in Partial(Nat, Dep) /\ j \in Nat
      BY <1>3 DEF PrepareFrames
    <2>2. j \in DOMAIN f.deps /\ Named(j, d.name, rows, nextId)
      BY <1>2, <1>3, <1>4 DEF Fits
    <2>3. d \in Dep
      BY <2>1, <2>2, InPartial
    <2> HIDE DEF d, j
    <2>4. job \in Jobs({"Update"}) /\ job.id = j /\ job.name = d.name /\ job.kind = "Update"
      BY <2>1, <2>3 DEF Jobs, Dep
    <2> HIDE DEF job
    <2>5. g \in ResolveFrames /\ g.job = job /\ g.at = "Resolve"
      BY <2>4 DEF ResolveFrames, Jobs
    <2> HIDE DEF g
    <2>6. g \in Frame /\ HasJob(g) /\ ~HasDeps(g)
      BY <2>5, FrameJobs DEF Frame
    <2>7. Fits(g, rows, nextId)
      BY <2>2, <2>4, <2>5, <2>6 DEF Fits
    <2>8. /\ ops[t].stack # << >> /\ Top(t) = Last(ops[t].stack) /\ OpOK(ops[t], rows, nextId)
          /\ ops[t] \in [visited : SUBSET Nat, stack : Seq(Frame)]
      BY <1>1, TopFits DEF OpOK
    <2> DEFINE o == [visited |-> ops[t].visited \cup {j},
                     stack |-> Append(Append(Front(ops[t].stack), f), g)]
    <2>9. /\ g.job.kind = "Update" /\ g.job.id \in (ops[t].visited \cup {j}) \ ops[t].visited
          /\ HasJob(Last(ops[t].stack)) /\ Last(ops[t].stack).job.kind = "Update"
          /\ ops[t].visited \cup {j} \subseteq Nat /\ ops[t].visited \subseteq ops[t].visited \cup {j}
          /\ SameJob(f, Last(ops[t].stack))
      BY <1>2, <1>3, <1>5, <1>7, <2>1, <2>4, <2>5, <2>8 DEF Jobs
    <2>10. OpOK(o, rows, nextId)
      BY <1>4, <1>5, <2>6, <2>7, <2>8, <2>9, OpPushed
    <2>11. ops' = [ops EXCEPT ![t] = o]
      BY <1>7
    <2> HIDE DEF o
    <2> QED BY <1>1, <2>10, <2>11, TaskMoves
  <1>8. \/ Become(t, f)
        \/ /\ j \notin ops[t].visited
           /\ ops' = [ops EXCEPT ![t] = [visited |-> @.visited \cup {j},
                                        stack |-> Append(Append(Front(@.stack), f), g)]]
    BY DEF UpdateDependency, f
  <1> QED BY <1>6, <1>7, <1>8

LEMMA EnqueueKeeps ==
    ASSUME TypeInv, NEW t \in Tasks, Enqueue(t)
    PROVE  TypeInv'
  <1> DEFINE i == Top(t).job.id
             f == [at |-> "Put", id |-> i]
  <1>1. At(t, "Prepare") /\ UNCHANGED <<edges, nextId, release, promoting>>
    BY DEF Enqueue, Step
  <1>2. Top(t) \in PrepareFrames /\ \A k \in DOMAIN rows : rows[k] \in Row
    BY <1>1, TopFits, FrameAt DEF TypeInv, GraphOK
  <1>3. CASE /\ rows' = Queued(rows, i, "Waiting") \/ rows' = Moved(rows, i, "Waiting", "Enqueued")
             /\ Return(t)
    <2>1. SameRows(rows, rows')
      BY <1>2, <1>3, RowsMoved
    <2> QED BY <1>1, <1>3, <2>1, RowsStep, Returns
  <1>4. CASE Become(t, f) /\ UNCHANGED rows
    <2>1. GraphStep
      BY <1>1, <1>4, NothingChanges DEF graph
    <2>2. f \in PutFrames
      BY <1>2 DEF PrepareFrames, PutFrames, Jobs
    <2>3. Fits(f, rows, nextId)
      BY DEF Fits, HasJob, HasDeps
    <2>4. f \in Frame /\ SameJob(f, Top(t))
      BY <2>2, FrameJobs DEF Frame, SameJob
    <2> HIDE DEF f
    <2> QED BY <1>1, <1>4, <2>1, <2>3, <2>4, Becomes
  <1>5. CASE Fail(t) /\ UNCHANGED rows
    <2>1. GraphStep
      BY <1>1, <1>5, NothingChanges DEF graph
    <2> QED BY <1>5, <2>1, Fails
  <1>6. \/ /\ rows' = Queued(rows, i, "Waiting") \/ rows' = Moved(rows, i, "Waiting", "Enqueued")
           /\ Return(t)
        \/ Become(t, f) /\ UNCHANGED rows
        \/ Fail(t) /\ UNCHANGED rows
    BY DEF Enqueue
  <1> QED BY <1>3, <1>4, <1>5, <1>6

LEMMA PutKeeps ==
    ASSUME TypeInv, NEW t \in Tasks, Put(t)
    PROVE  TypeInv'
  <1>1. At(t, "Put") /\ UNCHANGED <<edges, nextId, release, promoting>>
    BY DEF Put, Step
  <1>2. \A k \in DOMAIN rows : rows[k] \in Row
    BY DEF TypeInv, GraphOK
  <1>3. CASE rows' = Queued(rows, Top(t).id, "Enqueued") /\ Return(t)
    <2>1. SameRows(rows, rows')
      BY <1>2, <1>3, RowsMoved
    <2> QED BY <1>1, <1>3, <2>1, RowsStep, Returns
  <1>4. CASE Fail(t) /\ UNCHANGED rows
    <2>1. GraphStep
      BY <1>1, <1>4, NothingChanges DEF graph
    <2> QED BY <1>4, <2>1, Fails
  <1> QED BY <1>3, <1>4 DEF Put

LEMMA ReplaceKeeps ==
    ASSUME TypeInv, NEW t \in Tasks, NEW i, NEW j, NEW n \in Names, Replace(t, i, j, n)
    PROVE  TypeInv'
  <1> DEFINE job == Job("Replace", i, FALSE)
             f == [at |-> "Repoint", job |-> job, old |-> j, new |-> n]
             g == Planned(n, {}, TRUE)
  <1>1. GraphStep /\ GraphOK /\ ReleasesOK
    BY NothingChanges DEF Replace, Begin, TypeInv
  <1>2. <<i, j>> \in DOMAIN edges /\ n # rows[i].name
    BY DEF Replace
  <1>3. i \in DOMAIN rows /\ j \in DOMAIN rows /\ j \in Nat
    BY <1>1, <1>2 DEF GraphOK
  <1>4. /\ job \in Jobs({"Replace"}) /\ job.kind = "Replace" /\ job.name = rows[i].name
        /\ Named(job.id, job.name, rows, nextId)
    <2>1. GraphOK /\ ReleasesOK /\ i \in DOMAIN rows
      BY <1>1, <1>3
    <2> QED BY <2>1, UnforcedJobType
  <1>5. Begin(t, "Replace", {}, << f >>) \/ Begin(t, "Replace", {}, << f, g >>)
    BY DEF Replace
  <1> HIDE DEF job
  <1>6. f \in RepointFrames
    BY <1>3, <1>4 DEF RepointFrames
  <1>7. Fits(f, rows, nextId)
    BY <1>2, <1>4 DEF Fits, HasJob, HasDeps
  <1>8. f \in Frame /\ f.job.kind # "Update"
    BY <1>4, <1>6 DEF Frame
  <1>9. g \in PersistFrames /\ Fits(g, rows, nextId)
    BY <1>1, PlannedType
  <1> HIDE DEF f, g
  <1>10. g \in Frame /\ ~HasJob(g)
    BY <1>9, FrameJobs DEF Frame
  <1>11. CASE Begin(t, "Replace", {}, << f >>)
    BY <1>1, <1>7, <1>8, <1>11, Begins
  <1>12. CASE Begin(t, "Replace", {}, << f, g >>)
    <2>1. \E h \in Frame : << f, g >> = << f, h >> /\ Fits(h, rows, nextId) /\ ~HasJob(h)
      BY <1>9, <1>10
    <2>2. {} \in SUBSET Nat
      OBVIOUS
    <2> QED BY <1>1, <1>7, <1>8, <1>12, <2>1, <2>2, Begins, Zenon
  <1> QED BY <1>5, <1>11, <1>12

LEMMA DropTypes ==
    ASSUME TypeInv, NEW t \in Tasks, NEW i, NEW j, Drop(t, i, j)
    PROVE  TypeInv'
  <1> DEFINE job == Job("Replace", i, FALSE)
             f == [at |-> "Resync", job |-> job, old |-> j]
  <1>1. /\ GraphOK /\ ReleasesOK /\ <<i, j>> \in DOMAIN edges
        /\ edges' = Restrict(edges, DOMAIN edges \ {<<i, j>>}) /\ rows' = rows /\ nextId' = nextId
        /\ release' = release /\ promoting' = promoting /\ Begin(t, "Replace", {}, << f >>)
    BY DEF Drop, Begin, TypeInv
  <1>2. i \in DOMAIN rows /\ j \in Nat
    BY <1>1 DEF GraphOK
  <1>3. GraphStep
    <2>1. DOMAIN edges' \subseteq DOMAIN edges /\ \A e \in DOMAIN edges' : edges'[e] = edges[e]
      BY <1>1 DEF Restrict
    <2>2. GraphOK'
      BY <1>1, <2>1 DEF GraphOK
    <2>3. ReleasesOK'
      BY <1>1 DEF ReleasesOK
    <2>4. Later(rows, nextId, rows', nextId')
      BY <1>1 DEF Later, GraphOK
    <2> QED BY <2>2, <2>3, <2>4 DEF GraphStep
  <1>4. /\ job \in Jobs({"Replace"}) /\ job.kind = "Replace"
        /\ Named(job.id, job.name, rows, nextId)
    BY <1>1, <1>2, UnforcedJobType
  <1> HIDE DEF job
  <1>5. f \in ResyncFrames
    BY <1>2, <1>4 DEF ResyncFrames
  <1>6. Fits(f, rows, nextId)
    BY <1>4 DEF Fits, HasJob, HasDeps
  <1>7. f \in Frame /\ f.job.kind # "Update"
    BY <1>4, <1>5 DEF Frame
  <1> HIDE DEF f
  <1> QED BY <1>1, <1>3, <1>6, <1>7, Begins

LEMMA PackageRemoveKeeps ==
    ASSUME TypeInv, NEW t \in Tasks, NEW i, PackageRemove(t, i)
    PROVE  TypeInv'
  <1> DEFINE job == Job("Remove", i, FALSE)
             f == [at |-> "LiveCheck", job |-> job, from |-> {i}]
  <1>1. /\ GraphOK /\ ReleasesOK /\ i \in DOMAIN rows
        /\ rows' = [rows EXCEPT ![i].requested = FALSE]
        /\ UNCHANGED <<edges, nextId, release, promoting>> /\ Begin(t, "Remove", {}, << f >>)
    BY DEF PackageRemove, Begin, TypeInv
  <1>2. GraphStep
    <2>1. SameRows(rows, rows')
      BY <1>1 DEF SameRows, Row, GraphOK
    <2> QED BY <1>1, <2>1, RowsStep
  <1>3. /\ job \in Jobs({"Remove"}) /\ job.kind = "Remove" /\ i \in Nat
        /\ Named(job.id, job.name, rows, nextId)
    BY <1>1, UnforcedJobType
  <1> HIDE DEF job
  <1>4. f \in LooseFrames
    BY <1>3 DEF LooseFrames, Jobs
  <1>5. Fits(f, rows, nextId)
    BY <1>3 DEF Fits, HasJob, HasDeps
  <1>6. f \in Frame /\ f.job.kind # "Update"
    BY <1>3, <1>4 DEF Frame
  <1> HIDE DEF f
  <1> QED BY <1>1, <1>2, <1>5, <1>6, Begins

LEMMA RepointTypes ==
    ASSUME TypeInv, NEW t \in Tasks, Repoint(t)
    PROVE  TypeInv'
  <1> DEFINE f == Top(t)
             i == f.job.id
             was == <<i, f.old>>
             now == <<i, IdOf(f.new)>>
             rest == DOMAIN edges \ {was}
             merged == [e \in rest \cup {now} |-> IF e \in rest THEN edges[e] ELSE edges[was]]
             g == [at |-> "Resync", job |-> f.job, old |-> f.old]
  <1>1. /\ GraphOK /\ At(t, "Repoint") /\ rows' = rows /\ nextId' = nextId /\ release' = release
        /\ promoting' = promoting
    BY DEF Repoint, Step, TypeInv
  <1>2. f \in RepointFrames /\ Fits(f, rows, nextId) /\ HasJob(f) /\ f.at = "Repoint"
    BY <1>1, TopFits, FrameAt, FrameJobs
  <1>3. CASE Fail(t) /\ UNCHANGED edges
    <2>1. GraphStep
      BY <1>1, <1>3, NothingChanges DEF graph
    <2> QED BY <1>3, <2>1, Fails
  <1>4. CASE /\ f.new \in Tracked /\ (now \in rest \/ was \in DOMAIN edges)
             /\ edges' = merged /\ Become(t, g)
    <2>1. f.job \in Jobs({"Replace"}) /\ f.old \in Nat
      BY <1>2 DEF RepointFrames
    <2>2. f.new # f.job.name /\ Named(i, f.job.name, rows, nextId)
      <3> HIDE DEF f
      <3> QED BY <1>2 DEF Fits, i
    <2>3. g \in ResyncFrames /\ g.job = f.job /\ g.at = "Resync"
      BY <2>1 DEF ResyncFrames
    <2>4. Fits(g, rows, nextId)
      BY <2>2 DEF Fits, HasJob, HasDeps
    <2>5. g \in Frame /\ SameJob(g, f)
      BY <1>2, <2>3 DEF Frame, SameJob
    <2> HIDE DEF f, g, i
    <2>6. IdOf(f.new) \in DOMAIN rows /\ rows[IdOf(f.new)].name = f.new
      BY <1>4, IdOfTracked
    <2>7. i \in DOMAIN rows
      BY <1>1, <1>4 DEF GraphOK
    <2>8. i # IdOf(f.new)
      BY <2>2, <2>6, <2>7 DEF Named
    <2>9. now \notin rest => edges[was] \in Nat
      BY <1>1, <1>4 DEF GraphOK
    <2>10. \A e \in DOMAIN merged :
              e[1] \in DOMAIN rows /\ e[2] \in DOMAIN rows /\ e[1] # e[2] /\ merged[e] \in Nat
      BY <1>1, <2>6, <2>7, <2>8, <2>9 DEF GraphOK
    <2> HIDE DEF merged
    <2>11. GraphStep
      <3>1. GraphOK'
        BY <1>1, <1>4, <2>10 DEF GraphOK
      <3>2. ReleasesOK'
        BY <1>1 DEF TypeInv, ReleasesOK
      <3>3. Later(rows, nextId, rows', nextId')
        BY <1>1 DEF Later, GraphOK
      <3> QED BY <3>1, <3>2, <3>3 DEF GraphStep
    <2> QED BY <1>1, <1>4, <2>4, <2>5, <2>11, Becomes DEF f
  <1>5. \/ Fail(t) /\ UNCHANGED edges
        \/ /\ f.new \in Tracked /\ (now \in rest \/ was \in DOMAIN edges)
           /\ edges' = merged /\ Become(t, g)
    BY DEF Repoint
  <1> QED BY <1>3, <1>4, <1>5

LEMMA ResyncKeeps ==
    ASSUME TypeInv, NEW t \in Tasks, Resync(t)
    PROVE  TypeInv'
  <1>1. GraphStep /\ At(t, "Resync")
    BY NothingChanges DEF Resync, Step
  <1>2. Top(t) \in ResyncFrames /\ Fits(Top(t), rows, nextId) /\ HasJob(Top(t))
    BY <1>1, TopFits, FrameAt, FrameJobs
  <1>3. PICK move \in {"None", "Waiting", "Enqueued"} \X {"None", "Waiting", "Enqueued"} :
           Become(t, [at |-> "Settle", job |-> Top(t).job, old |-> Top(t).old, move |-> move])
    <2> DEFINE i == Top(t).job.id
               now == IF i \in DOMAIN rows THEN rows[i].pending ELSE "None"
               move == CASE now = "Waiting" /\ Satisfied(i) -> <<"Waiting", "Enqueued">>
                         [] now = "Enqueued" /\ ~Satisfied(i) -> <<"Enqueued", "Waiting">>
                         [] OTHER -> <<"None", "None">>
    <2>1. move \in {"None", "Waiting", "Enqueued"} \X {"None", "Waiting", "Enqueued"}
      <3> HIDE DEF now
      <3>1. CASE now = "Waiting" /\ Satisfied(i)
        BY <3>1
      <3>2. CASE now = "Enqueued" /\ ~Satisfied(i)
        BY <3>2
      <3>3. CASE ~(now = "Waiting" /\ Satisfied(i)) /\ ~(now = "Enqueued" /\ ~Satisfied(i))
        BY <3>3
      <3> QED BY <3>1, <3>2, <3>3
    <2>2. Become(t, [at |-> "Settle", job |-> Top(t).job, old |-> Top(t).old, move |-> move])
      BY DEF Resync
    <2> HIDE DEF move
    <2> QED BY <2>1, <2>2
  <1> DEFINE f == [at |-> "Settle", job |-> Top(t).job, old |-> Top(t).old, move |-> move]
  <1>4. f \in SettleFrames
    BY <1>2 DEF ResyncFrames, SettleFrames
  <1>5. Fits(f, rows, nextId)
    BY <1>2 DEF Fits, HasJob, HasDeps
  <1>6. f \in Frame /\ SameJob(f, Top(t))
    BY <1>2, <1>4 DEF Frame, SameJob
  <1> HIDE DEF f
  <1> QED BY <1>1, <1>3, <1>5, <1>6, Becomes DEF f

LEMMA SettleKeeps ==
    ASSUME TypeInv, NEW t \in Tasks, Settle(t)
    PROVE  TypeInv'
  <1> DEFINE f == Top(t)
             g == [at |-> "LiveCheck", job |-> f.job, from |-> {f.old}]
  <1>1. At(t, "Settle") /\ UNCHANGED <<edges, nextId, release, promoting>> /\ Become(t, g)
    BY DEF Settle, Step
  <1>2. f \in SettleFrames /\ Fits(f, rows, nextId) /\ HasJob(f)
    BY <1>1, TopFits, FrameAt, FrameJobs
  <1>3. SameRows(rows, rows')
    <2>1. \A k \in DOMAIN rows : rows[k] \in Row
      BY DEF TypeInv, GraphOK
    <2>2. f.move[2] \in {"None", "Waiting", "Enqueued"}
      BY <1>2 DEF SettleFrames
    <2>3. rows' = Moved(rows, f.job.id, f.move[1], f.move[2]) \/ rows' = rows
      BY DEF Settle
    <2>4. CASE rows' = rows
      BY <2>1, <2>4 DEF SameRows
    <2> HIDE DEF f
    <2> QED BY <2>1, <2>2, <2>3, <2>4, RowsMoved
  <1>4. GraphStep
    BY <1>1, <1>3, RowsStep
  <1>5. g \in LooseFrames
    BY <1>2 DEF SettleFrames, LooseFrames, Jobs
  <1>6. Fits(g, rows, nextId)
    BY <1>2 DEF Fits, HasJob, HasDeps
  <1>7. g \in Frame /\ SameJob(g, f)
    BY <1>2, <1>5 DEF Frame, SameJob
  <1> HIDE DEF g
  <1> QED BY <1>1, <1>4, <1>6, <1>7, Becomes

LEMMA OrphanedRows ==
    ASSUME GraphOK, NEW from \in SUBSET Nat, NEW hold
    PROVE  Orphaned(from, hold) \subseteq Nat
  <1>1. Reach(DOMAIN edges, from) \subseteq from \cup {e[1] : e \in DOMAIN edges} \cup {e[2] : e \in DOMAIN edges}
    BY ReachWithin
  <1>2. \A e \in DOMAIN edges : e[1] \in Nat /\ e[2] \in Nat
    BY DEF GraphOK
  <1> QED BY <1>1, <1>2 DEF Orphaned

LEMMA LiveCheckKeeps ==
    ASSUME TypeInv, NEW t \in Tasks, LiveCheck(t)
    PROVE  TypeInv'
  <1>1. GraphStep /\ GraphOK /\ At(t, "LiveCheck")
    BY NothingChanges DEF LiveCheck, Step, TypeInv
  <1>2. /\ Top(t) \in LinkedFrames \/ Top(t) \in LooseFrames
        /\ Fits(Top(t), rows, nextId) /\ HasJob(Top(t))
    BY <1>1, TopFits, FrameAt, FrameJobs
  <1>3. PICK from : /\ from \subseteq Nat
                    /\ Become(t, [Top(t) EXCEPT !.at = "Delete", !.from = from])
    <2> DEFINE hold == IF Top(t).job.kind \in {"Update", "Edit"} THEN {Top(t).job.id} ELSE {}
    <2>1. Become(t, [Top(t) EXCEPT !.at = "Delete", !.from = Orphaned(Top(t).from, hold)])
      BY DEF LiveCheck
    <2>2. Top(t).from \in SUBSET Nat
      BY <1>2 DEF LinkedFrames, LooseFrames
    <2>3. Orphaned(Top(t).from, hold) \subseteq Nat
      <3> HIDE DEF hold
      <3> QED BY <1>1, <2>2, OrphanedRows
    <2> QED BY <2>1, <2>3
  <1> DEFINE f == [Top(t) EXCEPT !.at = "Delete", !.from = from]
  <1>4. /\ f.job = Top(t).job /\ f.at = "Delete" /\ HasJob(f)
        /\ \/ f \in LinkedFrames /\ Top(t) \in LinkedFrames /\ f.deps = Top(t).deps
           \/ f \in LooseFrames
    <2>1. CASE Top(t) \in LinkedFrames
      BY <1>3, <2>1 DEF LinkedFrames, HasJob
    <2>2. CASE Top(t) \in LooseFrames
      BY <1>3, <2>2 DEF LooseFrames, HasJob
    <2> QED BY <1>2, <2>1, <2>2
  <1> HIDE DEF f
  <1>5. HasDeps(f) => HasDeps(Top(t)) /\ f.deps = Top(t).deps
    BY <1>4, FrameJobs
  <1>6. Fits(f, rows, nextId)
    BY <1>2, <1>4, <1>5 DEF Fits
  <1>7. f \in Frame /\ SameJob(f, Top(t))
    BY <1>2, <1>4 DEF Frame, SameJob
  <1> QED BY <1>1, <1>3, <1>6, <1>7, Becomes DEF f

LEMMA CollectedKeeps ==
    ASSUME TypeInv, GraphStep, NEW t \in Tasks, At(t, "Delete"), Collected(t, Top(t))
    PROVE  TypeInv'
  <1> DEFINE f == Top(t)
             g == [at |-> "Prepare", job |-> f.job, deps |-> f.deps, todo |-> DOMAIN f.deps,
                   dep |-> f.job.id, waits |-> FALSE]
  <1>1. f \in LinkedFrames \/ f \in LooseFrames
    BY TopFits, FrameAt
  <1>2. CASE Return(t)
    BY <1>2, Returns
  <1>3. CASE Fail(t)
    BY <1>3, Fails
  <1>4. CASE f.job.kind = "Update" /\ Become(t, g)
    <2>1. f \in LinkedFrames
      BY <1>1, <1>4 DEF LooseFrames, Jobs
    <2>2. /\ f.job \in Jobs({"Update", "Edit"}) /\ f.deps \in Partial(Nat, Dep)
          /\ HasJob(f) /\ HasDeps(f) /\ Fits(f, rows, nextId)
      BY <2>1, TopFits, FrameJobs DEF LinkedFrames
    <2>3. f.job \in Jobs({"Update"}) /\ f.job.id \in Nat
      BY <1>4, <2>2 DEF Jobs
    <2> HIDE DEF f
    <2>4. DOMAIN f.deps \subseteq Nat
      BY <2>2, InPartial
    <2>5. g \in PrepareFrames
      BY <2>2, <2>3, <2>4 DEF PrepareFrames
    <2>6. Fits(g, rows, nextId)
      BY <2>2 DEF Fits, HasJob, HasDeps
    <2>7. g \in Frame /\ SameJob(g, f)
      BY <2>2, <2>5 DEF Frame, SameJob
    <2> HIDE DEF g
    <2> QED BY <1>4, <2>6, <2>7, Becomes DEF f
  <1>5. Return(t) \/ Fail(t) \/ (f.job.kind = "Update" /\ Become(t, g))
    BY DEF Collected
  <1> QED BY <1>2, <1>3, <1>4, <1>5

LEMMA DeleteTypes ==
    ASSUME TypeInv, NEW t \in Tasks, Delete(t)
    PROVE  TypeInv'
  <1> DEFINE gone == Top(t).from \cap DOMAIN rows
             kept == {e \in DOMAIN edges : e[1] \notin gone /\ e[2] \notin gone}
  <1>1. At(t, "Delete") /\ release' = release
    BY DEF Delete
  <1>2. CASE UNCHANGED <<graph, promoting>> /\ (Return(t) \/ Fail(t))
    <2>1. GraphStep
      BY <1>1, <1>2, NothingChanges
    <2> QED BY <1>1, <1>2, <2>1, Returns, Fails
  <1>3. CASE /\ rows' = Restrict(rows, DOMAIN rows \ gone) /\ edges' = Restrict(edges, kept)
             /\ promoting' = Restrict(promoting, DOMAIN promoting \ gone) /\ nextId' = nextId
             /\ Collected(t, Top(t))
    <2> HIDE DEF gone
    <2>1. DOMAIN rows' = DOMAIN rows \ gone /\ \A i \in DOMAIN rows' : rows'[i] = rows[i]
      BY <1>3 DEF Restrict
    <2>2. DOMAIN edges' = kept /\ \A e \in DOMAIN edges' : edges'[e] = edges[e]
      BY <1>3 DEF Restrict
    <2>3. DOMAIN promoting' = DOMAIN promoting \ gone
      BY <1>3 DEF Restrict
    <2>4. GraphOK'
      BY <1>3, <2>1, <2>2, <2>3 DEF TypeInv, GraphOK
    <2>5. ReleasesOK'
      BY <1>1 DEF TypeInv, ReleasesOK
    <2>6. Later(rows, nextId, rows', nextId')
      <3>1. nextId' = nextId /\ nextId \in Nat
        BY <1>3 DEF TypeInv, GraphOK
      <3> QED BY <2>1, <3>1 DEF Later
    <2>7. GraphStep
      BY <2>4, <2>5, <2>6 DEF GraphStep
    <2> QED BY <1>1, <1>3, <2>7, CollectedKeeps
  <1>4. \/ UNCHANGED <<graph, promoting>> /\ (Return(t) \/ Fail(t))
        \/ /\ rows' = Restrict(rows, DOMAIN rows \ gone) /\ edges' = Restrict(edges, kept)
           /\ promoting' = Restrict(promoting, DOMAIN promoting \ gone) /\ nextId' = nextId
           /\ Collected(t, Top(t))
    BY DEF Delete
  <1> QED BY <1>2, <1>3, <1>4

(* Steps that are no task's. *)
LEMMA NoTaskMoves ==
    ASSUME TypeInv, GraphStep, ops' = ops
    PROVE  TypeInv'
  <1>1. nextId \in Nat /\ nextId' \in Nat
    BY DEF TypeInv, GraphStep, GraphOK
  <1>2. \A u \in Tasks : OpOK(ops'[u], rows', nextId')
    BY <1>1, LaterOp DEF GraphStep, TypeInv
  <1> QED BY <1>2 DEF TypeInv, GraphStep

LEMMA ReleaseKeeps ==
    ASSUME TypeInv, NEW n \in Names, Release(n)
    PROVE  TypeInv'
  <1>1. /\ rows' = rows /\ edges' = edges /\ nextId' = nextId /\ promoting' = promoting /\ ops' = ops
        /\ release[n] < Len(Releases[n]) /\ release' = [release EXCEPT ![n] = @ + 1]
        /\ GraphOK /\ ReleasesOK
    BY DEF Release, Env, graph, TypeInv
  <1>2. GraphOK'
    BY <1>1 DEF GraphOK
  <1>3. ReleasesOK'
    <2>1. Len(Releases[n]) \in Nat
      BY GraphAssumption
    <2> QED BY <1>1, <2>1 DEF ReleasesOK
  <1>4. Later(rows, nextId, rows', nextId')
    BY <1>1 DEF Later, GraphOK
  <1> QED BY <1>1, <1>2, <1>3, <1>4, NoTaskMoves DEF GraphStep

LEMMA BuildKeeps ==
    ASSUME TypeInv, NEW i \in DOMAIN rows, Claim(i) \/ EndBuild(i) \/ Publish(i)
    PROVE  TypeInv'
  <1>1. /\ edges' = edges /\ nextId' = nextId /\ release' = release /\ ops' = ops
        /\ DOMAIN promoting' \subseteq DOMAIN rows
    BY DEF Claim, EndBuild, Publish, Env, TypeInv, GraphOK
  <1>2. \A j \in DOMAIN rows : rows[j] \in Row
    BY DEF TypeInv, GraphOK
  <1>3. SameRows(rows, rows')
    <2>1. CASE Claim(i)
      <3>1. release[rows[i].name] \in Nat
        BY <1>2 DEF TypeInv, ReleasesOK, Row
      <3> QED BY <1>2, <2>1, <3>1 DEF Claim, SameRows, Row
    <2>2. CASE EndBuild(i)
      BY <1>2, <2>2 DEF EndBuild, SameRows, Row
    <2>3. CASE Publish(i)
      BY <1>2, <2>3 DEF Publish, SameRows, Row
    <2> QED BY <2>1, <2>2, <2>3
  <1>4. GraphStep
    BY <1>1, <1>3, RowsChange DEF SameRows
  <1> QED BY <1>1, <1>4, NoTaskMoves

LEMMA PromotionKeeps ==
    ASSUME TypeInv, NEW i \in DOMAIN promoting, Promotion(i)
    PROVE  TypeInv'
  <1>1. \A j \in DOMAIN rows : rows[j] \in Row
    BY DEF TypeInv, GraphOK
  <1>2. /\ edges' = edges /\ nextId' = nextId /\ release' = release /\ ops' = ops
        /\ DOMAIN promoting' \subseteq DOMAIN promoting
    <2>1. CASE LoadDependents(i)
      BY <2>1 DEF LoadDependents, Env, graph
    <2>2. CASE TriggerDependent(i)
      BY <2>2 DEF TriggerDependent, Env
    <2>3. CASE EndPromotion(i)
      BY <2>3 DEF EndPromotion, Env, graph, Restrict
    <2> QED BY <2>1, <2>2, <2>3 DEF Promotion
  <1>3. SameRows(rows, rows')
    <2>1. CASE rows' = rows
      BY <1>1, <2>1 DEF SameRows
    <2>2. ASSUME NEW j, rows' = Moved(rows, j, "Waiting", "Enqueued") PROVE SameRows(rows, rows')
      BY <1>1, <2>2, RowsMoved
    <2>3. rows' = rows \/ \E j : rows' = Moved(rows, j, "Waiting", "Enqueued")
      BY DEF Promotion, LoadDependents, TriggerDependent, EndPromotion, graph
    <2> QED BY <2>1, <2>2, <2>3
  <1>4. DOMAIN promoting' \subseteq DOMAIN rows
    BY <1>2 DEF TypeInv, GraphOK
  <1>5. GraphStep
    BY <1>2, <1>3, <1>4, RowsChange DEF SameRows
  <1> QED BY <1>2, <1>5, NoTaskMoves

LEMMA RestartKeeps ==
    ASSUME TypeInv, Restart
    PROVE  TypeInv'
  <1>1. /\ edges' = edges /\ nextId' = nextId /\ release' = release /\ ops' = [t \in Tasks |-> Idle]
        /\ DOMAIN promoting' = DOMAIN promoting /\ rows' = [i \in DOMAIN rows |-> Scanned(i)]
    BY DEF Restart
  <1>2. \A i \in DOMAIN rows : Scanned(i) \in Row /\ Scanned(i).name = rows[i].name
    <2> TAKE i \in DOMAIN rows
    <2>1. rows[i] \in Row
      BY DEF TypeInv, GraphOK
    <2>2. \/ Scanned(i) = [rows[i] EXCEPT !.pending = "Enqueued"]
          \/ Scanned(i) = [rows[i] EXCEPT !.pending = "Waiting"]
          \/ Scanned(i) = rows[i]
      BY DEF Scanned
    <2> QED BY <2>1, <2>2 DEF Row
  <1>3. GraphStep
    <2>1. DOMAIN promoting' \subseteq DOMAIN rows
      BY <1>1 DEF TypeInv, GraphOK
    <2> QED BY <1>1, <1>2, <2>1, RowsChange
  <1>4. DOMAIN ops' = Tasks /\ \A t \in Tasks : OpOK(ops'[t], rows', nextId')
    BY <1>1, IdleOK
  <1> QED BY <1>3, <1>4 DEF TypeInv, GraphStep

-----------------------------------------------------------------------------
(* The invariant and the theorem. *)

LEMMA InitTypes == Init => TypeInv
  <1> SUFFICES ASSUME Init PROVE TypeInv
    OBVIOUS
  <1> DEFINE deps == [n \in Names |-> DOMAIN Releases[n][1] \ Provides[n]]
             pairs == {e \in Names \X Names : e[2] \in deps[e[1]]}
             order == SetToSeq(Reach(pairs, Installed))
             ids == DOMAIN order
  <1>1. /\ rows = [i \in ids |-> [NewRow(order[i], order[i] \in Installed) EXCEPT
                        !.pending = IF deps[order[i]] = {} THEN "Enqueued" ELSE "Waiting"]]
        /\ edges = [e \in {e \in ids \X ids : order[e[2]] \in deps[order[e[1]]]} |->
                          Releases[order[e[1]]][1][order[e[2]]]]
        /\ nextId = Len(order) + 1
    BY DEF Init
  <1>2. /\ release = [n \in Names |-> 1] /\ ops = [t \in Tasks |-> Idle] /\ promoting = << >>
    BY DEF Init
  <1>3. \A n \in Names : Declaration(Releases[n][1]) /\ n \in Provides[n]
    BY GraphAssumption
  <1>4. Reach(pairs, Installed) \subseteq Names
    <2>1. pairs \subseteq Names \X Names
      OBVIOUS
    <2> HIDE DEF pairs
    <2> QED BY <2>1, ReachWithin, GraphAssumption
  <1>5. order \in Seq(Names) /\ Len(order) \in Nat /\ ids = 1 .. Len(order)
    <2>1. IsFiniteSet(Reach(pairs, Installed))
      <3> HIDE DEF pairs
      <3> QED BY <1>4, FS_Subset, GraphAssumption
    <2> HIDE DEF pairs
    <2> QED BY <1>4, <2>1, SetToSeqHasAll
  <1> HIDE DEF order
  <1>6. \A i \in ids : order[i] \in Names
    BY <1>5
  <1> HIDE DEF ids
  <1>7. \A i \in DOMAIN rows : rows[i] \in Row
    <2>1. ASSUME NEW n \in Names, NEW r \in BOOLEAN, NEW p \in {"Enqueued", "Waiting"}
          PROVE  [NewRow(n, r) EXCEPT !.pending = p] \in Row
      BY DEF NewRow, Row
    <2>2. ASSUME NEW i \in ids PROVE rows[i] \in Row
      <3>1. PICK p \in {"Enqueued", "Waiting"} :
               rows[i] = [NewRow(order[i], order[i] \in Installed) EXCEPT !.pending = p]
        BY <1>1, <2>2
      <3>2. (order[i] \in Installed) \in BOOLEAN
        OBVIOUS
      <3>3. order[i] \in Names
        BY <1>6, <2>2
      <3> QED BY <2>1, <3>1, <3>2, <3>3, Zenon
    <2> QED BY <1>1, <2>2
  <1>8. \A e \in DOMAIN edges :
           e[1] \in DOMAIN rows /\ e[2] \in DOMAIN rows /\ e[1] # e[2] /\ edges[e] \in Nat
    <2> SUFFICES ASSUME NEW e \in DOMAIN edges
                 PROVE  e[1] \in DOMAIN rows /\ e[2] \in DOMAIN rows /\ e[1] # e[2] /\ edges[e] \in Nat
      OBVIOUS
    <2>1. /\ e[1] \in ids /\ e[2] \in ids /\ order[e[2]] \in deps[order[e[1]]]
          /\ edges[e] = Releases[order[e[1]]][1][order[e[2]]]
      BY <1>1
    <2>2. order[e[1]] \in Names
      BY <1>6, <2>1
    <2>3. order[e[2]] \in DOMAIN Releases[order[e[1]]][1] \ Provides[order[e[1]]]
      BY <2>1, <2>2
    <2>4. order[e[1]] # order[e[2]] /\ edges[e] \in Nat
      BY <1>3, <2>1, <2>2, <2>3 DEF Declaration
    <2> QED BY <1>1, <2>1, <2>4
  <1>9. GraphOK
    <2>1. DOMAIN rows = 1 .. Len(order)
      BY <1>1, <1>5
    <2>2. nextId \in Nat \ {0} /\ DOMAIN rows \subseteq 1 .. nextId - 1
      BY <1>1, <1>5, <2>1
    <2>3. DOMAIN promoting = {}
      BY <1>2
    <2> QED BY <1>7, <1>8, <2>2, <2>3 DEF GraphOK
  <1>10. ReleasesOK
    <2>1. \A n \in Names : Len(Releases[n]) \in Nat \ {0}
      BY GraphAssumption
    <2> QED BY <1>2, <2>1 DEF ReleasesOK
  <1> QED BY <1>2, <1>9, <1>10, IdleOK DEF TypeInv

LEMMA NextTypes ==
    ASSUME TypeInv, [Next]_vars
    PROVE  TypeInv'
  <1>1. ASSUME NEW t \in Tasks, Ask(t) PROVE TypeInv'
    BY <1>1, AddKeeps, UpdateKeeps, PackageRemoveKeeps, DropTypes, ReplaceKeeps DEF Ask
  <1>2. ASSUME NEW t \in Tasks, Advance(t) PROVE TypeInv'
    BY <1>2, SetRequestedKeeps, PersistTypes, DecideInitialKeeps, QueueInitialKeeps, ResolveKeeps,
       InsertKeeps, LinkTypes, PrepareKeeps, UpdateDependencyKeeps, EnqueueKeeps, PutKeeps,
       RepointTypes, ResyncKeeps, SettleKeeps, LiveCheckKeeps, DeleteTypes DEF Advance
  <1>3. CASE UNCHANGED vars
    <2>1. GraphStep
      BY <1>3, NothingChanges DEF vars, graph
    <2> QED BY <1>3, <2>1, NoTaskMoves DEF vars
  <1> QED BY <1>1, <1>2, <1>3, ReleaseKeeps, BuildKeeps, PromotionKeeps, RestartKeeps DEF Next

(* For any packages, releases and patches over finitely many names, and any  *)
(* requests in hand: rows, edges and builds keep their types, an edge joins  *)
(* two rows, and no request updates a package it is already updating, so     *)
(* that update.rs comes to an end on a cycle of dependencies.                *)
THEOREM GraphTypes == Spec => []TypeOK
  <1>1. Spec => []TypeInv
    BY InitTypes, NextTypes, PTL DEF Spec
  <1>2. TypeInv => TypeOK
    <2> SUFFICES ASSUME TypeInv PROVE TypeOK
      OBVIOUS
    <2>1. ASSUME NEW t \in Tasks, NEW k \in DOMAIN ops[t].stack, NEW l \in DOMAIN ops[t].stack, k # l,
                 "job" \in DOMAIN ops[t].stack[k], "job" \in DOMAIN ops[t].stack[l]
          PROVE  ops[t].stack[k].job.id # ops[t].stack[l].job.id
      <3>1. OneJobEach(ops[t].visited, ops[t].stack)
        BY DEF TypeInv, OpOK
      <3> QED BY <2>1, <3>1 DEF OneJobEach, HasJob
    <2> QED BY <2>1 DEF TypeInv, GraphOK, ReleasesOK, TypeOK
  <1> QED BY <1>1, <1>2, PTL

-----------------------------------------------------------------------------
(* Reachability. *)

(* Whatever has the start in it and is closed under the edges has all that   *)
(* is reached.                                                               *)
LEMMA ReachLeast ==
    ASSUME NEW E, NEW S, NEW T, S \subseteq T, \A e \in E : e[1] \in T => e[2] \in T
    PROVE  Reach(E, S) \subseteq T
  <1> DEFINE nodes == S \cup {e[1] : e \in E} \cup {e[2] : e \in E}
             closed == {U \in SUBSET nodes : S \subseteq U /\ \A e \in E : e[1] \in U => e[2] \in U}
  <1>1. T \cap nodes \in closed
    OBVIOUS
  <1>2. Reach(E, S) = {x \in nodes : \A U \in closed : x \in U}
    BY DEF Reach
  <1> HIDE DEF closed, nodes
  <1> QED BY <1>1, <1>2

LEMMA ReachClosed ==
    ASSUME NEW E, NEW S
    PROVE  /\ S \subseteq Reach(E, S)
           /\ \A e \in E : e[1] \in Reach(E, S) => e[2] \in Reach(E, S)
  BY DEF Reach

LEMMA ReachGrows ==
    ASSUME NEW E, NEW F, E \subseteq F, NEW S, NEW T, S \subseteq T
    PROVE  Reach(E, S) \subseteq Reach(F, T)
  <1>1. T \subseteq Reach(F, T) /\ \A e \in F : e[1] \in Reach(F, T) => e[2] \in Reach(F, T)
    BY ReachClosed
  <1> HIDE DEF Reach
  <1> QED BY <1>1, ReachLeast

(* What is reached already adds nothing to what is reached. *)
LEMMA ReachFrom ==
    ASSUME NEW E, NEW S, NEW X, X \subseteq Reach(E, S)
    PROVE  Reach(E, S \cup X) = Reach(E, S)
  <1>1. Reach(E, S) \subseteq Reach(E, S \cup X)
    BY ReachGrows
  <1>2. S \cup X \subseteq Reach(E, S) /\ \A e \in E : e[1] \in Reach(E, S) => e[2] \in Reach(E, S)
    BY ReachClosed
  <1>3. Reach(E, S \cup X) \subseteq Reach(E, S)
    <2> HIDE DEF Reach
    <2> QED BY <1>2, ReachLeast
  <1> QED BY <1>1, <1>3

(* A package is reached without its own edges. *)
LEMMA StaysReached ==
    ASSUME NEW E, NEW F, NEW S, NEW i, i \in Reach(E, S), \A e \in E : e[1] # i => e \in F
    PROVE  i \in Reach(F, S)
  <1> SUFFICES ASSUME i \notin Reach(F, S) PROVE FALSE
    OBVIOUS
  <1>1. S \subseteq Reach(F, S) /\ \A e \in F : e[1] \in Reach(F, S) => e[2] \in Reach(F, S)
    BY ReachClosed
  <1>2. \A e \in E : e[1] \in Reach(F, S) => e[2] \in Reach(F, S)
    BY <1>1
  <1>3. Reach(E, S) \subseteq Reach(F, S)
    <2> HIDE DEF Reach
    <2> QED BY <1>1, <1>2, ReachLeast
  <1> QED BY <1>3

-----------------------------------------------------------------------------
(* What a request owes while no other is in hand. *)

Asked(rs) == {i \in DOMAIN rs : rs[i].requested}
Called(rs, N) == {i \in DOMAIN rs : rs[i].name \in N}
Held(rs) == {rs[i].name : i \in DOMAIN rs}

(* The rows are what the requested packages need, and what X needs: X is     *)
(* what a request has inserted and not linked yet, or has let go of and not  *)
(* collected yet.                                                            *)
Spans(rs, E, X) == DOMAIN rs = Reach(E, Asked(rs) \cup X)

(* The row of the job is there, as the request read it. *)
Current(job, rs) ==
    job.id \in DOMAIN rs /\ (job.kind = "Edit" => rs[job.id].patched = job.patched)

Linked(f, rs, E) == f.job.id \in DOMAIN rs /\ \A j \in DOMAIN f.deps : <<f.job.id, j>> \in E

(* What is planned is new, and a name in N leads to all of it. *)
Grows(f, rs, N) ==
    /\ f.names \cap Held(rs) = {}
    /\ f.names = {} \/ \E n \in N \cap f.names : f.names \subseteq Reach(DOMAIN f.links, {n})

Inserting(f, rs, E) ==
    /\ Current(f.job, rs) /\ f.job.id \in Reach(E, Asked(rs))
    /\ f.former = {e[2] : e \in {e \in E : e[1] = f.job.id}}
    /\ f.todo \subseteq DOMAIN f.found /\ Spans(rs, E, Called(rs, DOMAIN f.found))

Repointing(f, rs, E) ==
    /\ <<f.job.id, f.old>> \in E /\ f.job.id \in Reach(E, Asked(rs))
    /\ Spans(rs, E, Called(rs, {f.new}))

(* Steps at which a request owes nothing. *)
Even == {"Request", "Persist", "Initial", "QueueInitial", "Resolve", "Prepare", "Pending", "Put"}

(* Frame f on its own. *)
Runs(f, rs, E) ==
    /\ f.at \in Even => Spans(rs, E, {})
    /\ f.at = "Persist" => Grows(f, rs, f.roots)
    /\ f.at = "Resolve" => Current(f.job, rs)
    /\ f.at \in {"Prepare", "Pending"} => Linked(f, rs, E)
    /\ f.at = "Insert" => Inserting(f, rs, E) /\ DOMAIN f.found \subseteq Held(rs) \cup f.todo
    /\ f.at = "Repoint" => Repointing(f, rs, E) /\ f.new \in Held(rs)
    /\ f.at \in {"Resync", "Settle"} => f.old \in DOMAIN rs /\ Spans(rs, E, {f.old})
    /\ f.at = "LiveCheck" => f.from \subseteq DOMAIN rs /\ Spans(rs, E, f.from)
    /\ f.at = "Delete" => f.from = DOMAIN rs \ Reach(E, Asked(rs))
    /\ f.at \in {"LiveCheck", "Delete"} /\ HasDeps(f) =>
          f.job.id \in Reach(E, Asked(rs)) /\ Linked(f, rs, E)

(* Frame f inserts what frame g under it needs. *)
Serves(f, g, rs, E) ==
    /\ f.at \in {"Persist", "Initial", "QueueInitial"} /\ g.at \in {"Insert", "Repoint"}
    /\ g.at = "Insert" =>
          /\ f.at = "Persist" /\ ~f.build /\ Grows(f, rs, DOMAIN g.found)
          /\ Inserting(g, rs, E) /\ DOMAIN g.found \subseteq Held(rs) \cup g.todo \cup f.names
    /\ g.at = "Repoint" =>
          /\ Repointing(g, rs, E)
          /\ f.at = "Persist" => Grows(f, rs, {g.new}) /\ g.new \in f.names
          /\ f.at # "Persist" => g.new \in Held(rs) /\ f.todo \subseteq DOMAIN rs
          /\ f.at = "QueueInitial" => f.id \in DOMAIN rs

(* The first k frames are updates that wait for one of a dependency. *)
Waits(s, k, rs, E) == \A l \in 1 .. k : s[l].at = "Prepare" /\ Linked(s[l], rs, E)

Owes(s, rs, E) ==
    \/ Waits(s, Len(s) - 1, rs, E) /\ Runs(s[Len(s)], rs, E)
    \/ Len(s) > 1 /\ Waits(s, Len(s) - 2, rs, E) /\ Serves(s[Len(s)], s[Len(s) - 1], rs, E)

Settled(o, rs, E) == IF o = Idle THEN Spans(rs, E, {}) ELSE Owes(o.stack, rs, E)

CalmInv ==
    calm => /\ Quiet => Spans(rows, DOMAIN edges, {})
            /\ \A t \in Tasks : Busy(t) => /\ \A u \in Tasks \ {t} : ~Busy(u)
                                           /\ Owes(ops[t].stack, rows, DOMAIN edges)

GraphInv == TypeInv /\ NamesUnique /\ CalmInv

(* Rows that differ in their builds only. *)
SamePackages(rs, rs2) ==
    /\ DOMAIN rs2 = DOMAIN rs
    /\ \A i \in DOMAIN rs : /\ rs2[i].name = rs[i].name
                            /\ rs2[i].requested = rs[i].requested
                            /\ rs2[i].patched = rs[i].patched

LEMMA SameOwed ==
    ASSUME NEW rs, NEW rs2, SamePackages(rs, rs2), NEW E
    PROVE  /\ \A X : Spans(rs, E, X) => Spans(rs2, E, X)
           /\ \A f : Runs(f, rs, E) => Runs(f, rs2, E)
           /\ \A f, g : Serves(f, g, rs, E) => Serves(f, g, rs2, E)
           /\ \A s, k : Waits(s, k, rs, E) => Waits(s, k, rs2, E)
           /\ \A s : Owes(s, rs, E) => Owes(s, rs2, E)
  <1>1. DOMAIN rs2 = DOMAIN rs /\ Asked(rs2) = Asked(rs) /\ Held(rs2) = Held(rs)
    BY DEF SamePackages, Asked, Held
  <1>2. \A N : Called(rs2, N) = Called(rs, N)
    BY DEF SamePackages, Called
  <1>3. \A X : Spans(rs, E, X) <=> Spans(rs2, E, X)
    BY <1>1 DEF Spans
  <1>4. \A job : Current(job, rs) => Current(job, rs2)
    BY DEF Current, SamePackages
  <1>5. \A f : Linked(f, rs, E) <=> Linked(f, rs2, E)
    BY <1>1 DEF Linked
  <1>6. \A f, N : Grows(f, rs, N) <=> Grows(f, rs2, N)
    BY <1>1 DEF Grows
  <1>7. \A f : Inserting(f, rs, E) => Inserting(f, rs2, E)
    BY <1>1, <1>2, <1>3, <1>4 DEF Inserting
  <1>8. \A f : Repointing(f, rs, E) => Repointing(f, rs2, E)
    BY <1>1, <1>2, <1>3 DEF Repointing
  <1>9. \A f : Runs(f, rs, E) => Runs(f, rs2, E)
    BY <1>1, <1>3, <1>4, <1>5, <1>6, <1>7, <1>8 DEF Runs
  <1>10. \A f, g : Serves(f, g, rs, E) => Serves(f, g, rs2, E)
    BY <1>1, <1>6, <1>7, <1>8 DEF Serves
  <1>11. \A s, k : Waits(s, k, rs, E) => Waits(s, k, rs2, E)
    BY <1>5 DEF Waits
  <1>12. \A s : Owes(s, rs, E) => Owes(s, rs2, E)
    BY <1>9, <1>10, <1>11 DEF Owes
  <1> QED BY <1>3, <1>9, <1>10, <1>11, <1>12

(* It is enough to reach every row. *)
LEMMA SpansWhen ==
    ASSUME NEW rs, NEW E, \A e \in E : e[2] \in DOMAIN rs, NEW X, X \subseteq DOMAIN rs,
           DOMAIN rs \subseteq Reach(E, Asked(rs) \cup X)
    PROVE  Spans(rs, E, X)
  <1>1. Asked(rs) \cup X \subseteq DOMAIN rs
    BY DEF Asked
  <1>2. Reach(E, Asked(rs) \cup X) \subseteq DOMAIN rs
    BY <1>1, ReachLeast
  <1> QED BY <1>2 DEF Spans

(* Anything that is a row may be owed on top. *)
LEMMA SpansMore ==
    ASSUME NEW rs, NEW E, Spans(rs, E, {}), NEW X, X \subseteq DOMAIN rs
    PROVE  Spans(rs, E, X) /\ Reach(E, Asked(rs)) = DOMAIN rs
  <1>1. Reach(E, Asked(rs)) = DOMAIN rs
    <2>1. Asked(rs) \cup {} = Asked(rs)
      OBVIOUS
    <2> QED BY <2>1 DEF Spans
  <1>2. Reach(E, Asked(rs) \cup X) = Reach(E, Asked(rs))
    BY <1>1, ReachFrom
  <1> QED BY <1>1, <1>2 DEF Spans

-----------------------------------------------------------------------------
(* How a task that is alone goes on. *)

LEMMA WaitsKept ==
    ASSUME NEW s, NEW k, NEW rs, NEW E, NEW rs2, NEW F, Waits(s, k, rs, E),
           \A l \in 1 .. k : s[l].job.id \in DOMAIN rs2,
           \A l \in 1 .. k : \A j : <<s[l].job.id, j>> \in E => <<s[l].job.id, j>> \in F
    PROVE  Waits(s, k, rs2, F)
  BY DEF Waits, Linked

(* Rows and edges are added, none go. *)
LEMMA WaitsLonger ==
    ASSUME NEW s, NEW k, NEW rs, NEW E, NEW rs2, NEW F, Waits(s, k, rs, E),
           DOMAIN rs \subseteq DOMAIN rs2, E \subseteq F
    PROVE  Waits(s, k, rs2, F)
  BY DEF Waits, Linked

(* The stack with another top. *)
OwesWith(s, f, rs, E) ==
    \/ Waits(s, Len(s) - 1, rs, E) /\ Runs(f, rs, E)
    \/ Len(s) > 1 /\ Waits(s, Len(s) - 2, rs, E) /\ Serves(f, s[Len(s) - 1], rs, E)

LEMMA ReplacedOwes ==
    ASSUME NEW s \in Seq(Frame), s # << >>, NEW f, NEW rs, NEW E, OwesWith(s, f, rs, E)
    PROVE  Owes(Append(Front(s), f), rs, E)
  <1> DEFINE r == Append(Front(s), f)
  <1>1. /\ Len(r) = Len(s) /\ r[Len(s)] = f /\ \A k \in 1 .. Len(s) - 1 : r[k] = s[k]
        /\ Len(s) \in Nat \ {0}
    <2>1. s \in Seq(Frame \cup {f}) /\ f \in Frame \cup {f}
      OBVIOUS
    <2> QED BY <2>1, TopReplaced, StackTop
  <1> HIDE DEF r
  <1>2. CASE Waits(s, Len(s) - 1, rs, E) /\ Runs(f, rs, E)
    BY <1>1, <1>2 DEF Owes, Waits, r
  <1>3. CASE Len(s) > 1 /\ Waits(s, Len(s) - 2, rs, E) /\ Serves(f, s[Len(s) - 1], rs, E)
    <2>1. Len(s) - 1 \in 1 .. Len(s) - 1 /\ \A k \in 1 .. Len(s) - 2 : k \in 1 .. Len(s) - 1
      BY <1>1, <1>3
    <2>2. r[Len(r) - 1] = s[Len(s) - 1] /\ \A k \in 1 .. Len(s) - 2 : r[k] = s[k]
      BY <1>1, <2>1
    <2>3. Waits(r, Len(r) - 2, rs, E)
      BY <1>1, <1>3, <2>2 DEF Waits
    <2> QED BY <1>1, <1>3, <2>2, <2>3 DEF Owes, r
  <1> QED BY <1>2, <1>3 DEF OwesWith

(* ... with a frame on top of another top. *)
LEMMA PushedOwes ==
    ASSUME NEW s \in Seq(Frame), s # << >>, NEW f, NEW g, NEW rs, NEW E,
           Waits(s, Len(s) - 1, rs, E),
           \/ f.at = "Prepare" /\ Linked(f, rs, E) /\ Runs(g, rs, E)
           \/ Serves(g, f, rs, E)
    PROVE  Owes(Append(Append(Front(s), f), g), rs, E)
  <1> DEFINE r == Append(Append(Front(s), f), g)
  <1>1. /\ Len(r) = Len(s) + 1 /\ r[Len(s) + 1] = g /\ r[Len(s)] = f
        /\ (\A k \in 1 .. Len(s) - 1 : r[k] = s[k]) /\ Len(s) \in Nat \ {0}
    <2>1. s \in Seq(Frame \cup {f, g}) /\ f \in Frame \cup {f, g} /\ g \in Frame \cup {f, g}
      OBVIOUS
    <2> QED BY <2>1, TopPushed, StackTop
  <1> HIDE DEF r
  <1>2. Waits(r, Len(s) - 1, rs, E)
    BY <1>1 DEF Waits
  <1>3. CASE f.at = "Prepare" /\ Linked(f, rs, E) /\ Runs(g, rs, E)
    <2>1. \A k \in 1 .. Len(s) : k = Len(s) \/ k \in 1 .. Len(s) - 1
      BY <1>1
    <2>2. Waits(r, Len(s), rs, E)
      BY <1>1, <1>2, <1>3, <2>1 DEF Waits
    <2> QED BY <1>1, <1>3, <2>2 DEF Owes, r
  <1>4. CASE Serves(g, f, rs, E)
    BY <1>1, <1>2, <1>4 DEF Owes, r
  <1> QED BY <1>3, <1>4

(* ... and without its top. *)
OwesWithout(s, rs, E) ==
    \/ Waits(s, Len(s) - 1, rs, E) /\ Spans(rs, E, {})
    \/ Len(s) > 1 /\ Waits(s, Len(s) - 2, rs, E) /\ Runs(s[Len(s) - 1], rs, E)

LEMMA PoppedOwes ==
    ASSUME NEW s \in Seq(Frame), Len(s) > 1, NEW rs, NEW E, OwesWithout(s, rs, E)
    PROVE  Owes(Front(s), rs, E)
  <1> DEFINE r == Front(s)
  <1>1. /\ Len(r) = Len(s) - 1 /\ (\A k \in 1 .. Len(s) - 1 : r[k] = s[k]) /\ Len(s) \in Nat
    BY StackTop
  <1> HIDE DEF r
  <1>2. r[Len(r)] = s[Len(s) - 1] /\ \A k \in 1 .. Len(s) - 2 : k \in 1 .. Len(s) - 1 /\ r[k] = s[k]
    BY <1>1
  <1>3. CASE Waits(s, Len(s) - 1, rs, E) /\ Spans(rs, E, {})
    <2>1. Len(s) - 1 \in 1 .. Len(s) - 1
      BY <1>1
    <2>2. Waits(r, Len(r) - 1, rs, E)
      <3>1. Len(r) - 1 = Len(s) - 2
        BY <1>1
      <3> QED BY <1>2, <1>3, <3>1 DEF Waits
    <2>3. s[Len(s) - 1].at = "Prepare" /\ Linked(s[Len(s) - 1], rs, E)
      BY <1>3, <2>1 DEF Waits
    <2>4. Runs(s[Len(s) - 1], rs, E)
      BY <1>3, <2>3 DEF Runs
    <2> QED BY <1>2, <2>2, <2>4 DEF Owes, r
  <1>4. CASE Waits(s, Len(s) - 2, rs, E) /\ Runs(s[Len(s) - 1], rs, E)
    <2>1. Waits(r, Len(r) - 1, rs, E)
      BY <1>1, <1>2, <1>4 DEF Waits
    <2> QED BY <1>2, <1>4, <2>1 DEF Owes, r
  <1> QED BY <1>3, <1>4 DEF OwesWithout

LEMMA PushedNotEmpty ==
    ASSUME NEW s \in Seq(Frame), s # << >>, NEW f, NEW g
    PROVE  Append(Front(s), f) # << >> /\ Append(Append(Front(s), f), g) # << >>
  <1>1. s \in Seq(Frame \cup {f, g}) /\ f \in Frame \cup {f, g} /\ g \in Frame \cup {f, g}
    OBVIOUS
  <1> QED BY <1>1, TopReplaced, TopPushed

LEMMA Alone ==
    ASSUME GraphInv, NEW t \in Tasks, NEW step, At(t, step), calm
    PROVE  /\ \A u \in Tasks \ {t} : ~Busy(u)
           /\ OwesWith(ops[t].stack, Top(t), rows, DOMAIN edges)
  <1>1. Busy(t)
    BY DEF At
  <1>2. (\A u \in Tasks \ {t} : ~Busy(u)) /\ Owes(ops[t].stack, rows, DOMAIN edges)
    BY <1>1 DEF GraphInv, CalmInv
  <1>3. LET s == ops[t].stack IN Top(t) = s[Len(s)]
    BY TopFits, StackTop DEF GraphInv
  <1> QED BY <1>2, <1>3 DEF Owes, OwesWith

LEMMA AloneMoves ==
    ASSUME GraphInv, NEW t \in Tasks, NEW o, ops' = [ops EXCEPT ![t] = o],
           calm' => \A u \in Tasks \ {t} : ~Busy(u),
           calm' => Settled(o, rows', DOMAIN edges')
    PROVE  CalmInv'
  <1>1. ops'[t] = o /\ \A u \in Tasks \ {t} : ops'[u] = ops[u]
    BY DEF GraphInv, TypeInv
  <1> SUFFICES ASSUME calm'
               PROVE  /\ Quiet' => Spans(rows', DOMAIN edges', {})
                      /\ \A u \in Tasks : ops'[u] # Idle =>
                            /\ \A v \in Tasks \ {u} : ops'[v] = Idle
                            /\ Owes(ops'[u].stack, rows', DOMAIN edges')
    BY DEF CalmInv, Busy
  <1>2. \A u \in Tasks \ {t} : ops'[u] = Idle
    BY <1>1 DEF Busy
  <1>3. Quiet' => o = Idle
    BY <1>1 DEF Quiet, Busy
  <1> QED BY <1>1, <1>2, <1>3 DEF Settled

LEMMA CalmBecomes ==
    ASSUME GraphInv, NEW t \in Tasks, NEW step, At(t, step), NEW f, Become(t, f),
           calm' => calm, calm' => OwesWith(ops[t].stack, f, rows', DOMAIN edges')
    PROVE  CalmInv'
  <1>1. ops[t].stack # << >> /\ ops[t].stack \in Seq(Frame) /\ OpOK(ops[t], rows, nextId)
    BY TopFits DEF GraphInv
  <1> DEFINE r == Append(Front(ops[t].stack), f)
             o == [ops[t] EXCEPT !.stack = r]
  <1>2. ops' = [ops EXCEPT ![t] = o]
    BY DEF Become
  <1>3. calm' => Owes(r, rows', DOMAIN edges')
    BY <1>1, ReplacedOwes
  <1>4. r # << >>
    BY <1>1, PushedNotEmpty
  <1> HIDE DEF r
  <1>5. o.stack = r /\ o # Idle
    BY <1>1, <1>4 DEF Idle, OpOK
  <1> HIDE DEF o
  <1>6. calm' => Settled(o, rows', DOMAIN edges')
    BY <1>3, <1>5 DEF Settled
  <1> QED BY <1>2, <1>6, Alone, AloneMoves

LEMMA CalmPushes ==
    ASSUME GraphInv, NEW t \in Tasks, NEW step, At(t, step), NEW f, NEW g, NEW visited,
           ops' = [ops EXCEPT ![t] = [visited |-> visited,
                                      stack |-> Append(Append(Front(ops[t].stack), f), g)]],
           calm' => calm, calm' => Waits(ops[t].stack, Len(ops[t].stack) - 1, rows', DOMAIN edges'),
           calm' => \/ f.at = "Prepare" /\ Linked(f, rows', DOMAIN edges') /\ Runs(g, rows', DOMAIN edges')
                    \/ Serves(g, f, rows', DOMAIN edges')
    PROVE  CalmInv'
  <1>1. ops[t].stack # << >> /\ ops[t].stack \in Seq(Frame)
    BY TopFits DEF GraphInv
  <1> DEFINE r == Append(Append(Front(ops[t].stack), f), g)
             o == [visited |-> visited, stack |-> r]
  <1>2. calm' => Owes(r, rows', DOMAIN edges')
    BY <1>1, PushedOwes
  <1>3. r # << >>
    BY <1>1, PushedNotEmpty
  <1>4. ops' = [ops EXCEPT ![t] = o]
    OBVIOUS
  <1> HIDE DEF r
  <1>5. o.stack = r /\ o # Idle
    BY <1>3 DEF Idle
  <1> HIDE DEF o
  <1>6. calm' => Settled(o, rows', DOMAIN edges')
    BY <1>2, <1>5 DEF Settled
  <1> QED BY <1>4, <1>6, Alone, AloneMoves

LEMMA CalmFails ==
    ASSUME GraphInv, NEW t \in Tasks, NEW step, At(t, step), Fail(t),
           calm' => calm, calm' => Spans(rows', DOMAIN edges', {})
    PROVE  CalmInv'
  BY Alone, AloneMoves DEF Fail, Settled

LEMMA CalmReturns ==
    ASSUME GraphInv, NEW t \in Tasks, NEW step, At(t, step), Return(t), calm' => calm,
           calm' => OwesWithout(ops[t].stack, rows', DOMAIN edges')
    PROVE  CalmInv'
  <1>1. ops[t].stack # << >> /\ ops[t].stack \in Seq(Frame) /\ OpOK(ops[t], rows, nextId)
    BY TopFits DEF GraphInv
  <1>2. Len(ops[t].stack) \in Nat \ {0}
    BY <1>1, StackTop
  <1>3. CASE Len(ops[t].stack) = 1
    <2>1. Fail(t) /\ (calm' => Spans(rows', DOMAIN edges', {}))
      BY <1>3 DEF Return, OwesWithout
    <2> QED BY <2>1, CalmFails
  <1>4. CASE Len(ops[t].stack) # 1
    <2> DEFINE r == Front(ops[t].stack)
               o == [ops[t] EXCEPT !.stack = r]
    <2>1. ops' = [ops EXCEPT ![t] = o]
      BY <1>4 DEF Return
    <2>2. Len(ops[t].stack) > 1
      <3>1. \A s \in Seq(Frame) : s # << >> /\ Len(s) # 1 => Len(s) > 1
        OBVIOUS
      <3> QED BY <1>1, <1>4, <3>1
    <2>3. calm' => Owes(r, rows', DOMAIN edges')
      BY <1>1, <2>2, PoppedOwes
    <2>4. r # << >>
      <3>1. r \in Seq(Frame) /\ Len(r) > 0
        BY <1>1, <2>2, StackTop
      <3> HIDE DEF r
      <3> QED BY <3>1
    <2> HIDE DEF r
    <2>5. o.stack = r /\ o # Idle
      BY <1>1, <2>4 DEF Idle, OpOK
    <2> HIDE DEF o
    <2>6. calm' => Settled(o, rows', DOMAIN edges')
      BY <2>3, <2>5 DEF Settled
    <2>7. calm' => \A u \in Tasks \ {t} : ~Busy(u)
      BY Alone
    <2> QED BY <2>1, <2>6, <2>7, AloneMoves
  <1> QED BY <1>3, <1>4

LEMMA CalmBegins ==
    ASSUME GraphInv, NEW t \in Tasks, NEW kind, NEW visited, NEW stack,
           Begin(t, kind, visited, stack)
    PROVE  /\ calm' => Spans(rows, DOMAIN edges, {})
           /\ (stack # << >> /\ (calm' => Owes(stack, rows', DOMAIN edges'))) => CalmInv'
  <1> DEFINE o == [visited |-> visited, stack |-> stack]
  <1>1. calm' => calm /\ Quiet
    BY DEF Begin, Quiet
  <1>2. ops' = [ops EXCEPT ![t] = o]
    BY DEF Begin
  <1>3. o.stack = stack /\ (stack # << >> => o # Idle)
    BY DEF Idle
  <1> HIDE DEF o
  <1>4. calm' => Spans(rows, DOMAIN edges, {})
    BY <1>1 DEF GraphInv, CalmInv
  <1>5. ASSUME stack # << >>, calm' => Owes(stack, rows', DOMAIN edges') PROVE CalmInv'
    <2>1. calm' => Settled(o, rows', DOMAIN edges')
      BY <1>3, <1>5 DEF Settled
    <2>2. calm' => \A u \in Tasks \ {t} : ~Busy(u)
      BY <1>1 DEF Quiet
    <2> QED BY <1>2, <2>1, <2>2, AloneMoves
  <1> QED BY <1>4, <1>5

(* A request starts with one frame, or with one and what has to come first. *)
LEMMA FirstOwes ==
    ASSUME NEW f, NEW g, NEW rs, NEW E
    PROVE  /\ Runs(f, rs, E) => Owes(<< f >>, rs, E)
           /\ Serves(g, f, rs, E) => Owes(<< f, g >>, rs, E)
  <1>1. Len(<< f >>) = 1 /\ << f >>[1] = f /\ Len(<< f, g >>) = 2
        /\ << f, g >>[1] = f /\ << f, g >>[2] = g
    OBVIOUS
  <1>2. \A s : Waits(s, 0, rs, E)
    BY DEF Waits
  <1> QED BY <1>1, <1>2 DEF Owes

-----------------------------------------------------------------------------
(* One lemma per step of a request: what it owes afterwards. *)

(* Builds are queued and moved, packages stay as they are. *)
LEMMA BuildsMoved ==
    ASSUME NEW rs, \A i \in DOMAIN rs : rs[i] \in Row, NEW j, NEW from, NEW to
    PROVE  /\ SamePackages(rs, rs)
           /\ SamePackages(rs, Moved(rs, j, from, to)) /\ SamePackages(rs, Queued(rs, j, to))
  BY DEF SamePackages, Moved, Queued, Row

LEMMA RowsTyped ==
    ASSUME GraphInv
    PROVE  \A i \in DOMAIN rows : rows[i] \in Row
  BY DEF GraphInv, TypeInv, GraphOK

(* ... so the request owes what it did. *)
LEMMA StillOwed ==
    ASSUME GraphInv, NEW t \in Tasks, NEW step, At(t, step), SamePackages(rows, rows'),
           edges' = edges, calm
    PROVE  OwesWith(ops[t].stack, Top(t), rows', DOMAIN edges')
  <1>1. OwesWith(ops[t].stack, Top(t), rows, DOMAIN edges)
    BY Alone
  <1> QED BY <1>1, SameOwed DEF OwesWith

(* Only a frame that inserts packages serves another. *)
LEMMA RunsAlone ==
    ASSUME NEW s, NEW f, NEW rs, NEW E, OwesWith(s, f, rs, E),
           f.at \notin {"Persist", "Initial", "QueueInitial"}
    PROVE  Waits(s, Len(s) - 1, rs, E) /\ Runs(f, rs, E)
  BY DEF OwesWith, Serves

LEMMA DecideInitialCalm ==
    ASSUME GraphInv, NEW t \in Tasks, DecideInitial(t)
    PROVE  CalmInv'
  <1>1. At(t, "Initial") /\ rows' = rows /\ edges' = edges /\ calm' = calm
    BY DEF DecideInitial, Step, graph
  <1>2. Top(t) \in InitialFrames /\ Top(t).at = "Initial"
    BY <1>1, TopFits, FrameAt DEF GraphInv
  <1>3. calm => OwesWith(ops[t].stack, Top(t), rows', DOMAIN edges')
    BY <1>1, RowsTyped, BuildsMoved, StillOwed
  <1>4. CASE Return(t)
    <2>1. calm => OwesWithout(ops[t].stack, rows', DOMAIN edges')
      BY <1>2, <1>3 DEF OwesWith, OwesWithout, Runs, Serves, Even
    <2> QED BY <1>1, <1>4, <2>1, CalmReturns
  <1>5. ASSUME NEW i \in Top(t).todo, NEW as,
               Become(t, [at |-> "QueueInitial", id |-> i, leaf |-> Top(t).leaf,
                          todo |-> Top(t).todo \ {i}, as |-> as])
        PROVE  CalmInv'
    <2> DEFINE f == [at |-> "QueueInitial", id |-> i, leaf |-> Top(t).leaf,
                     todo |-> Top(t).todo \ {i}, as |-> as]
    <2>1. f.at = "QueueInitial" /\ f.id = i /\ f.todo \subseteq Top(t).todo
      OBVIOUS
    <2> HIDE DEF f
    <2>2. Runs(Top(t), rows', DOMAIN edges') => Runs(f, rows', DOMAIN edges')
      BY <1>2, <2>1 DEF Runs, Even
    <2>3. \A g : Serves(Top(t), g, rows', DOMAIN edges') => Serves(f, g, rows', DOMAIN edges')
      BY <1>2, <2>1 DEF Serves
    <2>4. calm => OwesWith(ops[t].stack, f, rows', DOMAIN edges')
      BY <1>3, <2>2, <2>3 DEF OwesWith
    <2> QED BY <1>1, <1>5, <2>4, CalmBecomes DEF f
  <1> QED BY <1>4, <1>5 DEF DecideInitial

LEMMA QueueInitialCalm ==
    ASSUME GraphInv, NEW t \in Tasks, QueueInitial(t)
    PROVE  CalmInv'
  <1>1. At(t, "QueueInitial") /\ edges' = edges /\ calm' = calm
    BY DEF QueueInitial, Step
  <1>2. Top(t).at = "QueueInitial"
    BY <1>1, TopFits DEF GraphInv
  <1>3. SamePackages(rows, rows')
    BY RowsTyped, BuildsMoved DEF QueueInitial
  <1>4. calm => OwesWith(ops[t].stack, Top(t), rows', DOMAIN edges')
    BY <1>1, <1>3, StillOwed
  <1>5. CASE Top(t).id \notin DOMAIN rows
    <2>1. Fail(t) /\ DOMAIN rows' = DOMAIN rows
      BY <1>3, <1>5 DEF QueueInitial, SamePackages
    <2>2. calm => Spans(rows', DOMAIN edges', {})
      BY <1>2, <1>4, <1>5, <2>1 DEF OwesWith, Runs, Serves, Even
    <2> QED BY <1>1, <2>1, <2>2, CalmFails
  <1>6. CASE Top(t).id \in DOMAIN rows
    <2> DEFINE f == [at |-> "Initial", todo |-> Top(t).todo, leaf |-> Top(t).leaf]
    <2>1. Become(t, f) /\ f.at = "Initial" /\ f.todo = Top(t).todo
      BY <1>6 DEF QueueInitial
    <2> HIDE DEF f
    <2>2. Runs(Top(t), rows', DOMAIN edges') => Runs(f, rows', DOMAIN edges')
      BY <1>2, <2>1 DEF Runs, Even
    <2>3. \A g : Serves(Top(t), g, rows', DOMAIN edges') => Serves(f, g, rows', DOMAIN edges')
      BY <1>2, <2>1 DEF Serves
    <2>4. calm => OwesWith(ops[t].stack, f, rows', DOMAIN edges')
      BY <1>4, <2>2, <2>3 DEF OwesWith
    <2> QED BY <1>1, <2>1, <2>4, CalmBecomes
  <1> QED BY <1>5, <1>6

LEMMA ResolveCalm ==
    ASSUME GraphInv, NEW t \in Tasks, Resolve(t)
    PROVE  CalmInv'
  <1> DEFINE job == [Top(t).job EXCEPT !.version = release[Top(t).job.name]]
             former == Dependees(job.id)
             p == IF job.kind = "Edit" THEN ~job.patched ELSE job.patched
             found == ResolveEdges(job.name, p, {rows[j].name : j \in former})
             f == [at |-> "Insert", job |-> job, former |-> former, found |-> found,
                   todo |-> DOMAIN found \ Tracked]
  <1>1. At(t, "Resolve") /\ rows' = rows /\ edges' = edges /\ calm' = calm
    BY DEF Resolve, Step, graph
  <1>2. Top(t) \in ResolveFrames /\ Top(t).at = "Resolve"
    BY <1>1, TopFits, FrameAt DEF GraphInv
  <1>3. job.id = Top(t).job.id /\ job.kind = Top(t).job.kind /\ job.patched = Top(t).job.patched
    <2>1. Top(t).job \in Jobs({"Update", "Edit"})
      BY <1>2 DEF ResolveFrames
    <2> QED BY <2>1 DEF Jobs
  <1>4. Become(t, f)
    BY DEF Resolve
  <1>5. calm => Waits(ops[t].stack, Len(ops[t].stack) - 1, rows, DOMAIN edges)
                  /\ Runs(Top(t), rows, DOMAIN edges)
    BY <1>1, <1>2, Alone, RunsAlone
  <1> HIDE DEF job, found
  <1>6. /\ f.at = "Insert" /\ f.job = job /\ f.found = found /\ f.todo = DOMAIN found \ Tracked
        /\ f.former = {e[2] : e \in {e \in DOMAIN edges : e[1] = job.id}}
    BY DEF Dependees
  <1> HIDE DEF f
  <1>7. ASSUME calm PROVE Runs(f, rows, DOMAIN edges)
    <2>1. Spans(rows, DOMAIN edges, {}) /\ Current(Top(t).job, rows)
      BY <1>2, <1>5, <1>7 DEF Runs, Even
    <2>2. Called(rows, DOMAIN found) \subseteq DOMAIN rows
      BY DEF Called
    <2>3. /\ Spans(rows, DOMAIN edges, Called(rows, DOMAIN found))
          /\ Reach(DOMAIN edges, Asked(rows)) = DOMAIN rows
      BY <2>1, <2>2, SpansMore
    <2>4. Current(job, rows)
      BY <1>3, <2>1 DEF Current
    <2>5. Inserting(f, rows, DOMAIN edges)
      BY <1>6, <2>3, <2>4 DEF Inserting, Current
    <2>6. DOMAIN f.found \subseteq Held(rows) \cup f.todo
      BY <1>6 DEF Held, Tracked
    <2> QED BY <1>6, <2>5, <2>6 DEF Runs, Even
  <1>8. calm => OwesWith(ops[t].stack, f, rows', DOMAIN edges')
    BY <1>1, <1>5, <1>7 DEF OwesWith
  <1> QED BY <1>1, <1>4, <1>8, CalmBecomes

(* A plan starts from the name it was made for. *)
LEMMA PlannedGrows ==
    ASSUME GraphInv, NEW n \in Names, NEW root, NEW build, NEW N, n \in N
    PROVE  /\ Grows(Planned(n, root, build), rows, N)
           /\ n \in Planned(n, root, build).names \cup Tracked
           /\ Planned(n, root, build).at = "Persist"
           /\ Planned(n, root, build).build = build /\ Planned(n, root, build).roots = root
  <1> DEFINE deps == [m \in Names |-> ResolveEdges(m, FALSE, {})]
             links == {e \in Names \X Names : e[1] \notin Tracked /\ e[2] \in DOMAIN deps[e[1]]}
             new == Reach(links, {n}) \ Tracked
             taken == {e \in links : e[1] \in new}
             l == [e \in taken |-> deps[e[1]][e[2]]]
             p == Planned(n, root, build)
  <1>1. p = [at |-> "Persist", roots |-> root, build |-> build, names |-> new, links |-> l]
    BY DEF Planned
  <1>2. /\ p.at = "Persist" /\ p.roots = root /\ p.build = build /\ p.names = new
        /\ DOMAIN p.links = taken
    BY <1>1
  <1> HIDE DEF p, deps, l
  <1>3. \A e \in links : e[1] \notin Tracked
    OBVIOUS
  <1> HIDE DEF links
  <1>4. {n} \subseteq Reach(links, {n})
    BY ReachClosed
  <1>5. CASE n \in Tracked
    <2>1. Reach(links, {n}) \subseteq {n}
      BY <1>3, <1>5, ReachLeast
    <2>2. new = {}
      BY <1>5, <2>1
    <2> QED BY <1>2, <1>5, <2>2 DEF Grows, p
  <1>6. CASE n \notin Tracked
    <2>1. n \in new
      BY <1>4, <1>6
    <2>2. Reach(links, {n}) \subseteq Reach(taken, {n})
      <3>1. /\ {n} \subseteq Reach(taken, {n})
            /\ \A e \in taken : e[1] \in Reach(taken, {n}) => e[2] \in Reach(taken, {n})
        BY ReachClosed
      <3>2. Reach(taken, {n}) \subseteq Reach(links, {n})
        <4>1. taken \subseteq links /\ {n} \subseteq {n}
          OBVIOUS
        <4> HIDE DEF taken
        <4> QED BY <4>1, ReachGrows
      <3>3. \A e \in links : e[1] \in Reach(taken, {n}) => e[2] \in Reach(taken, {n})
        BY <1>3, <3>1, <3>2
      <3> HIDE DEF taken
      <3> QED BY <3>1, <3>3, ReachLeast
    <2>3. new \subseteq Reach(taken, {n}) /\ new \cap Held(rows) = {}
      BY <2>2 DEF Held, Tracked
    <2> HIDE DEF new, taken
    <2>4. Grows(p, rows, N)
      BY <1>2, <2>1, <2>3 DEF Grows
    <2> QED BY <1>2, <2>1, <2>4 DEF p
  <1> QED BY <1>5, <1>6

LEMMA InsertCalm ==
    ASSUME GraphInv, NEW t \in Tasks, Insert(t)
    PROVE  CalmInv'
  <1>1. At(t, "Insert") /\ rows' = rows /\ edges' = edges /\ calm' = calm
    BY DEF Insert, Step, graph
  <1>2. Top(t) \in InsertFrames /\ Top(t).at = "Insert" /\ OpOK(ops[t], rows, nextId)
    BY <1>1, TopFits, FrameAt DEF GraphInv
  <1>3. PICK n \in Top(t).todo : Call(t, [Top(t) EXCEPT !.todo = @ \ {n}], Planned(n, {}, FALSE))
    BY DEF Insert
  <1> DEFINE f == [Top(t) EXCEPT !.todo = @ \ {n}]
             g == Planned(n, {}, FALSE)
             r == Append(Append(Front(ops[t].stack), f), g)
  <1>4. n \in Names
    BY <1>2 DEF InsertFrames
  <1>5. /\ f.job = Top(t).job /\ f.found = Top(t).found /\ f.at = "Insert" /\ f.former = Top(t).former
        /\ f.todo = Top(t).todo \ {n}
    BY <1>2 DEF InsertFrames
  <1>6. ops' = [ops EXCEPT ![t] = [visited |-> ops[t].visited, stack |-> r]]
    <2>1. ops[t] \in [visited : SUBSET Nat, stack : Seq(Frame)]
      BY <1>2 DEF OpOK
    <2>2. \A q : [visited |-> ops[t].visited, stack |-> q] = [ops[t] EXCEPT !.stack = q]
      BY <2>1
    <2>3. ops' = [ops EXCEPT ![t] = [ops[t] EXCEPT !.stack = r]]
      BY <1>3 DEF Call
    <2> HIDE DEF r
    <2> QED BY <2>2, <2>3
  <1> HIDE DEF f
  <1>7. calm => Waits(ops[t].stack, Len(ops[t].stack) - 1, rows, DOMAIN edges)
                  /\ Runs(Top(t), rows, DOMAIN edges)
    BY <1>1, <1>2, Alone, RunsAlone
  <1>8. ASSUME calm PROVE Serves(g, f, rows, DOMAIN edges)
    <2>1. /\ Inserting(Top(t), rows, DOMAIN edges)
          /\ DOMAIN Top(t).found \subseteq Held(rows) \cup Top(t).todo
      BY <1>2, <1>7, <1>8 DEF Runs
    <2>2. Inserting(f, rows, DOMAIN edges)
      BY <1>5, <2>1 DEF Inserting
    <2>3. n \in DOMAIN f.found
      BY <1>5, <2>1 DEF Inserting
    <2>4. /\ Grows(g, rows, DOMAIN f.found) /\ n \in g.names \cup Tracked
          /\ g.at = "Persist" /\ g.build = FALSE
      <3>1. \A b : LET p == Planned(n, {}, b)
                   IN  /\ Grows(p, rows, DOMAIN f.found) /\ n \in p.names \cup Tracked
                       /\ p.at = "Persist" /\ p.build = b
        BY <1>4, <2>3, PlannedGrows
      <3> QED BY <3>1, Zenon
    <2> HIDE DEF g
    <2>5. Tracked = Held(rows)
      BY DEF Tracked, Held
    <2>6. DOMAIN f.found \subseteq Held(rows) \cup f.todo \cup g.names
      BY <1>5, <2>1, <2>4, <2>5
    <2> QED BY <1>5, <2>2, <2>4, <2>6 DEF Serves
  <1> HIDE DEF g
  <1>9. calm => Serves(g, f, rows', DOMAIN edges')
    BY <1>1, <1>8
  <1>10. calm => Waits(ops[t].stack, Len(ops[t].stack) - 1, rows', DOMAIN edges')
    BY <1>1, <1>7
  <1> QED BY <1>1, <1>6, <1>9, <1>10, CalmPushes

LEMMA PrepareCalm ==
    ASSUME GraphInv, NEW t \in Tasks, Prepare(t)
    PROVE  CalmInv'
  <1>1. At(t, "Prepare") /\ rows' = rows /\ edges' = edges /\ calm' = calm
    BY DEF Prepare, Step, graph
  <1>2. Top(t) \in PrepareFrames /\ Top(t).at = "Prepare"
    BY <1>1, TopFits, FrameAt DEF GraphInv
  <1>3. calm => Waits(ops[t].stack, Len(ops[t].stack) - 1, rows, DOMAIN edges)
                  /\ Runs(Top(t), rows, DOMAIN edges)
    BY <1>1, <1>2, Alone, RunsAlone
  <1>4. ASSUME NEW f, Become(t, f), f.at \in {"Prepare", "Pending"}, f.job = Top(t).job,
               f.deps = Top(t).deps
        PROVE  CalmInv'
    <2>1. calm => Runs(f, rows, DOMAIN edges)
      BY <1>2, <1>3, <1>4 DEF Runs, Even, Linked
    <2>2. calm => OwesWith(ops[t].stack, f, rows', DOMAIN edges')
      BY <1>1, <1>3, <2>1 DEF OwesWith
    <2> QED BY <1>1, <1>4, <2>2, CalmBecomes
  <1>5. PICK j \in Top(t).todo :
            LET f == [Top(t) EXCEPT !.todo = @ \ {j}]
            IN  Become(t, f) \/ Become(t, [f EXCEPT !.at = "Pending", !.dep = j, !.waits = TRUE])
    BY DEF Prepare
  <1> DEFINE f == [Top(t) EXCEPT !.todo = @ \ {j}]
             g == [f EXCEPT !.at = "Pending", !.dep = j, !.waits = TRUE]
  <1>6. f.at = "Prepare" /\ f.job = Top(t).job /\ f.deps = Top(t).deps
    BY <1>2 DEF PrepareFrames
  <1>7. g.at = "Pending" /\ g.job = Top(t).job /\ g.deps = Top(t).deps
    BY <1>2 DEF PrepareFrames
  <1>8. Become(t, f) \/ Become(t, g)
    BY <1>5
  <1> HIDE DEF f, g
  <1> QED BY <1>4, <1>6, <1>7, <1>8

LEMMA UpdateDependencyCalm ==
    ASSUME GraphInv, NEW t \in Tasks, UpdateDependency(t)
    PROVE  CalmInv'
  <1> DEFINE f == [Top(t) EXCEPT !.at = "Prepare"]
             j == f.dep
             d == f.deps[j]
             job == [f.job EXCEPT !.id = j, !.name = d.name, !.patched = d.patched, !.force = TRUE]
             g == [at |-> "Resolve", job |-> job]
  <1>1. At(t, "Pending") /\ rows' = rows /\ edges' = edges /\ calm' = calm
    BY DEF UpdateDependency, Step, graph
  <1>2. Top(t) \in PrepareFrames /\ Top(t).at = "Pending" /\ Fits(Top(t), rows, nextId)
    BY <1>1, TopFits, FrameAt DEF GraphInv
  <1>3. calm => Waits(ops[t].stack, Len(ops[t].stack) - 1, rows, DOMAIN edges)
                  /\ Runs(Top(t), rows, DOMAIN edges)
    BY <1>1, <1>2, Alone, RunsAlone
  <1>4. /\ f.at = "Prepare" /\ f.job = Top(t).job /\ f.deps = Top(t).deps
        /\ j \in DOMAIN f.deps
    <2>1. Top(t).dep \in DOMAIN Top(t).deps
      BY <1>2 DEF Fits
    <2> QED BY <1>2, <2>1 DEF PrepareFrames
  <1>5. g.at = "Resolve" /\ g.job.id = j /\ g.job.kind = "Update"
    <2>1. f.job \in Jobs({"Update"})
      BY <1>2, <1>4 DEF PrepareFrames
    <2>2. job.id = j /\ job.kind = f.job.kind
      BY <2>1 DEF Jobs
    <2>3. f.job.kind = "Update"
      BY <2>1 DEF Jobs
    <2> HIDE DEF job, j
    <2> QED BY <2>2, <2>3
  <1>6. \/ Become(t, f)
        \/ ops' = [ops EXCEPT ![t] =
                     [visited |-> ops[t].visited \cup {j},
                      stack |-> Append(Append(Front(ops[t].stack), f), g)]]
    BY DEF UpdateDependency
  <1> HIDE DEF f, g, j
  <1>7. calm => Spans(rows, DOMAIN edges, {}) /\ Linked(f, rows, DOMAIN edges)
    BY <1>2, <1>3, <1>4 DEF Runs, Even, Linked
  <1>8. CASE Become(t, f)
    <2>1. calm => Runs(f, rows, DOMAIN edges)
      BY <1>4, <1>7 DEF Runs, Even
    <2>2. calm => OwesWith(ops[t].stack, f, rows', DOMAIN edges')
      BY <1>1, <1>3, <2>1 DEF OwesWith
    <2> QED BY <1>1, <1>8, <2>2, CalmBecomes
  <1>9. CASE ~Become(t, f)
    <2>1. ASSUME calm PROVE j \in DOMAIN rows
      <3>1. <<f.job.id, j>> \in DOMAIN edges
        BY <1>4, <1>7, <2>1 DEF Linked
      <3>2. \A e \in DOMAIN edges : e[2] \in DOMAIN rows
        BY DEF GraphInv, TypeInv, GraphOK
      <3> QED BY <3>1, <3>2
    <2>2. calm => Runs(g, rows, DOMAIN edges)
      BY <1>5, <1>7, <2>1 DEF Runs, Even, Current
    <2>3. /\ calm => Waits(ops[t].stack, Len(ops[t].stack) - 1, rows', DOMAIN edges')
          /\ calm => Linked(f, rows', DOMAIN edges') /\ Runs(g, rows', DOMAIN edges')
      BY <1>1, <1>3, <1>7, <2>2
    <2> QED BY <1>1, <1>4, <1>6, <1>9, <2>3, CalmPushes
  <1> QED BY <1>8, <1>9

LEMMA EnqueueCalm ==
    ASSUME GraphInv, NEW t \in Tasks, Enqueue(t) \/ Put(t)
    PROVE  CalmInv'
  <1>1. PICK step \in {"Prepare", "Put"} : At(t, step)
    BY DEF Enqueue, Put
  <1>2. edges' = edges /\ calm' = calm
    BY DEF Enqueue, Put, Step
  <1>3. Top(t).at \in {"Prepare", "Put"}
    BY <1>1, TopFits DEF GraphInv
  <1>4. SamePackages(rows, rows')
    BY RowsTyped, BuildsMoved DEF Enqueue, Put
  <1>5. calm => OwesWith(ops[t].stack, Top(t), rows', DOMAIN edges')
    BY <1>1, <1>2, <1>4, StillOwed
  <1>6. calm => Waits(ops[t].stack, Len(ops[t].stack) - 1, rows', DOMAIN edges')
                  /\ Spans(rows', DOMAIN edges', {})
    BY <1>3, <1>5, RunsAlone DEF Runs, Even
  <1>7. CASE Return(t)
    <2>1. calm => OwesWithout(ops[t].stack, rows', DOMAIN edges')
      BY <1>6 DEF OwesWithout
    <2> QED BY <1>1, <1>2, <1>7, <2>1, CalmReturns
  <1>8. CASE Fail(t)
    BY <1>1, <1>2, <1>6, <1>8, CalmFails
  <1>9. ASSUME NEW i, Become(t, [at |-> "Put", id |-> i]) PROVE CalmInv'
    <2> DEFINE f == [at |-> "Put", id |-> i]
    <2>1. f.at = "Put"
      OBVIOUS
    <2> HIDE DEF f
    <2>2. calm => OwesWith(ops[t].stack, f, rows', DOMAIN edges')
      BY <1>6, <2>1 DEF OwesWith, Runs, Even
    <2> QED BY <1>1, <1>2, <1>9, <2>2, CalmBecomes DEF f
  <1> QED BY <1>7, <1>8, <1>9 DEF Enqueue, Put

LEMMA ResyncCalm ==
    ASSUME GraphInv, NEW t \in Tasks, Resync(t)
    PROVE  CalmInv'
  <1>1. At(t, "Resync") /\ rows' = rows /\ edges' = edges /\ calm' = calm
    BY DEF Resync, Step, graph
  <1>2. Top(t).at = "Resync"
    BY <1>1, TopFits DEF GraphInv
  <1>3. calm => Waits(ops[t].stack, Len(ops[t].stack) - 1, rows, DOMAIN edges)
                  /\ Runs(Top(t), rows, DOMAIN edges)
    BY <1>1, <1>2, Alone, RunsAlone
  <1>4. PICK move : Become(t, [at |-> "Settle", job |-> Top(t).job, old |-> Top(t).old, move |-> move])
    BY DEF Resync
  <1> DEFINE f == [at |-> "Settle", job |-> Top(t).job, old |-> Top(t).old, move |-> move]
  <1>5. f.at = "Settle" /\ f.old = Top(t).old
    OBVIOUS
  <1> HIDE DEF f
  <1>6. calm => Runs(f, rows, DOMAIN edges)
    BY <1>2, <1>3, <1>5 DEF Runs, Even
  <1>7. calm => OwesWith(ops[t].stack, f, rows', DOMAIN edges')
    BY <1>1, <1>3, <1>6 DEF OwesWith
  <1> QED BY <1>1, <1>4, <1>7, CalmBecomes DEF f

LEMMA SettleCalm ==
    ASSUME GraphInv, NEW t \in Tasks, Settle(t)
    PROVE  CalmInv'
  <1> DEFINE f == [at |-> "LiveCheck", job |-> Top(t).job, from |-> {Top(t).old}]
  <1>1. At(t, "Settle") /\ edges' = edges /\ calm' = calm /\ Become(t, f)
    BY DEF Settle, Step
  <1>2. Top(t).at = "Settle"
    BY <1>1, TopFits DEF GraphInv
  <1>3. SamePackages(rows, rows')
    BY RowsTyped, BuildsMoved DEF Settle
  <1>4. calm => OwesWith(ops[t].stack, Top(t), rows', DOMAIN edges')
    BY <1>1, <1>3, StillOwed
  <1>5. calm => Waits(ops[t].stack, Len(ops[t].stack) - 1, rows', DOMAIN edges')
                  /\ Runs(Top(t), rows', DOMAIN edges')
    BY <1>2, <1>4, RunsAlone
  <1>6. f.at = "LiveCheck" /\ f.from = {Top(t).old} /\ ~HasDeps(f)
    BY DEF HasDeps
  <1> HIDE DEF f
  <1>7. calm => Runs(f, rows', DOMAIN edges')
    BY <1>2, <1>5, <1>6 DEF Runs, Even
  <1>8. calm => OwesWith(ops[t].stack, f, rows', DOMAIN edges')
    BY <1>5, <1>7 DEF OwesWith
  <1> QED BY <1>1, <1>8, CalmBecomes

(* What a request starts with. *)
LEMMA AddCalm ==
    ASSUME GraphInv, NEW t \in Tasks, NEW n \in Names, Add(t, n)
    PROVE  CalmInv'
  <1> DEFINE f == IF n \in Tracked THEN [at |-> "Request", name |-> n] ELSE Planned(n, {n}, TRUE)
  <1>1. Begin(t, "Add", {}, << f >>) /\ rows' = rows /\ edges' = edges
    BY DEF Add, graph
  <1>2. calm' => Spans(rows, DOMAIN edges, {})
    BY <1>1, CalmBegins
  <1>3. \/ f.at = "Request"
        \/ f.at = "Persist" /\ Grows(f, rows, f.roots)
    <2>1. CASE n \in Tracked
      BY <2>1
    <2>2. CASE n \notin Tracked
      <3>1. \A b : LET p == Planned(n, {n}, b)
                   IN  Grows(p, rows, {n}) /\ p.at = "Persist" /\ p.roots = {n}
        BY PlannedGrows
      <3>2. LET p == Planned(n, {n}, TRUE)
            IN  Grows(p, rows, {n}) /\ p.at = "Persist" /\ p.roots = {n}
        BY <3>1, Zenon
      <3>3. f = Planned(n, {n}, TRUE)
        BY <2>2
      <3> HIDE DEF f
      <3> QED BY <3>2, <3>3
    <2> QED BY <2>1, <2>2
  <1> HIDE DEF f
  <1>4. calm' => Runs(f, rows, DOMAIN edges)
    BY <1>2, <1>3 DEF Runs, Even
  <1>5. calm' => Owes(<< f >>, rows', DOMAIN edges')
    BY <1>1, <1>4, FirstOwes
  <1>6. << f >> # << >>
    OBVIOUS
  <1> QED BY <1>1, <1>5, <1>6, CalmBegins

LEMMA UpdateCalm ==
    ASSUME GraphInv, NEW t \in Tasks, NEW i \in DOMAIN rows, NEW force \in BOOLEAN,
           Update(t, i, force) \/ Edit(t, i)
    PROVE  CalmInv'
  <1>1. rows' = rows /\ edges' = edges
    BY DEF Update, Edit, graph
  <1>2. ASSUME NEW kind, NEW visited, NEW f, Begin(t, kind, visited, << f >>),
               f.at = "Resolve", f.job.id = i, f.job.patched = rows[i].patched
        PROVE  CalmInv'
    <2>1. calm' => Spans(rows, DOMAIN edges, {})
      BY <1>2, CalmBegins
    <2>2. calm' => Runs(f, rows, DOMAIN edges)
      BY <1>2, <2>1 DEF Runs, Even, Current
    <2>3. calm' => Owes(<< f >>, rows', DOMAIN edges')
      BY <1>1, <2>2, FirstOwes
    <2>4. << f >> # << >>
      OBVIOUS
    <2> QED BY <1>2, <2>3, <2>4, CalmBegins
  <1>3. CASE Update(t, i, force)
    <2> DEFINE f == [at |-> "Resolve", job |-> Job("Update", i, force)]
    <2>1. f.at = "Resolve" /\ f.job.id = i /\ f.job.patched = rows[i].patched
      BY DEF Job
    <2>2. Begin(t, "Update", {i}, << f >>)
      BY <1>3 DEF Update
    <2> HIDE DEF f
    <2> QED BY <1>2, <2>1, <2>2
  <1>4. CASE Edit(t, i)
    <2> DEFINE f == [at |-> "Resolve", job |-> Job("Edit", i, FALSE)]
    <2>1. f.at = "Resolve" /\ f.job.id = i /\ f.job.patched = rows[i].patched
      BY DEF Job
    <2>2. Begin(t, "Edit", {}, << f >>)
      BY <1>4 DEF Edit
    <2> HIDE DEF f
    <2> QED BY <1>2, <2>1, <2>2
  <1> QED BY <1>3, <1>4

LEMMA EdgesJoinRows ==
    ASSUME GraphInv
    PROVE  \A e \in DOMAIN edges : e[1] \in DOMAIN rows /\ e[2] \in DOMAIN rows
  BY DEF GraphInv, TypeInv, GraphOK

LEMMA ReplaceCalm ==
    ASSUME GraphInv, NEW t \in Tasks, NEW i, NEW j, NEW n \in Names, Replace(t, i, j, n)
    PROVE  CalmInv'
  <1> DEFINE f == [at |-> "Repoint", job |-> Job("Replace", i, FALSE), old |-> j, new |-> n]
             g == Planned(n, {}, TRUE)
             stack == IF n \in Tracked THEN << f >> ELSE << f, g >>
  <1>1. Begin(t, "Replace", {}, stack) /\ rows' = rows /\ edges' = edges /\ <<i, j>> \in DOMAIN edges
    BY DEF Replace, graph
  <1>2. calm' => Spans(rows, DOMAIN edges, {})
    BY <1>1, CalmBegins
  <1>3. f.at = "Repoint" /\ f.job.id = i /\ f.old = j /\ f.new = n
    BY DEF Job
  <1> HIDE DEF f
  <1>4. calm' => Repointing(f, rows, DOMAIN edges)
    <2>1. Called(rows, {n}) \subseteq DOMAIN rows /\ i \in DOMAIN rows
      BY <1>1, EdgesJoinRows DEF Called
    <2>2. calm' => Spans(rows, DOMAIN edges, Called(rows, {n}))
                     /\ Reach(DOMAIN edges, Asked(rows)) = DOMAIN rows
      BY <1>2, <2>1, SpansMore
    <2> QED BY <1>1, <1>3, <2>1, <2>2 DEF Repointing
  <1>5. CASE n \in Tracked
    <2>1. calm' => Runs(f, rows, DOMAIN edges)
      BY <1>3, <1>4, <1>5 DEF Runs, Even, Held, Tracked
    <2>2. calm' => Owes(<< f >>, rows', DOMAIN edges')
      BY <1>1, <2>1, FirstOwes
    <2>3. << f >> # << >> /\ stack = << f >>
      BY <1>5
    <2> QED BY <1>1, <2>2, <2>3, CalmBegins
  <1>6. CASE n \notin Tracked
    <2>1. Grows(g, rows, {n}) /\ n \in g.names /\ g.at = "Persist"
      <3>1. \A b : LET p == Planned(n, {}, b)
                   IN  Grows(p, rows, {n}) /\ p.at = "Persist" /\ n \in p.names \cup Tracked
        BY PlannedGrows
      <3>2. Grows(g, rows, {n}) /\ g.at = "Persist" /\ n \in g.names \cup Tracked
        BY <3>1, Zenon
      <3> HIDE DEF g
      <3> QED BY <1>6, <3>2
    <2>2. stack = << f, g >>
      BY <1>6
    <2> HIDE DEF g, stack
    <2>3. calm' => Serves(g, f, rows, DOMAIN edges)
      BY <1>3, <1>4, <2>1 DEF Serves
    <2>4. calm' => Owes(<< f, g >>, rows', DOMAIN edges')
      BY <1>1, <2>3, FirstOwes
    <2>5. << f, g >> # << >>
      OBVIOUS
    <2> QED BY <1>1, <2>2, <2>4, <2>5, CalmBegins
  <1> QED BY <1>5, <1>6

(* An edge goes, and its target is owed until it was looked at. *)
LEMMA DropCalm ==
    ASSUME GraphInv, NEW t \in Tasks, NEW i, NEW j, Drop(t, i, j)
    PROVE  CalmInv'
  <1> DEFINE f == [at |-> "Resync", job |-> Job("Replace", i, FALSE), old |-> j]
             F == DOMAIN edges \ {<<i, j>>}
  <1>1. Begin(t, "Replace", {}, << f >>) /\ rows' = rows /\ DOMAIN edges' = F /\ <<i, j>> \in DOMAIN edges
    BY DEF Drop, Restrict
  <1>2. calm' => Spans(rows, DOMAIN edges, {})
    BY <1>1, CalmBegins
  <1>3. f.at = "Resync" /\ f.old = j /\ j \in DOMAIN rows
    BY <1>1, EdgesJoinRows
  <1> HIDE DEF f
  <1>4. ASSUME calm' PROVE Spans(rows, F, {j})
    <2> DEFINE U == Reach(F, Asked(rows) \cup {j})
    <2>1. Asked(rows) \cup {j} \subseteq U /\ \A e \in F : e[1] \in U => e[2] \in U
      BY ReachClosed
    <2> HIDE DEF U
    <2>2. \A e \in DOMAIN edges : e \in F \/ e[2] = j
      OBVIOUS
    <2>3. \A e \in DOMAIN edges : e[1] \in U => e[2] \in U
      BY <2>1, <2>2
    <2>4. Reach(DOMAIN edges, Asked(rows) \cup {}) \subseteq U
      BY <2>1, <2>3, ReachLeast
    <2>5. DOMAIN rows \subseteq U
      BY <1>2, <1>4, <2>4 DEF Spans
    <2>6. (\A e \in F : e[2] \in DOMAIN rows) /\ {j} \subseteq DOMAIN rows
      BY <1>3, EdgesJoinRows
    <2> HIDE DEF F
    <2> QED BY <2>5, <2>6, SpansWhen DEF U
  <1> HIDE DEF F
  <1>5. calm' => Runs(f, rows, F)
    BY <1>3, <1>4 DEF Runs, Even
  <1>6. calm' => Owes(<< f >>, rows', DOMAIN edges')
    BY <1>1, <1>5, FirstOwes
  <1>7. << f >> # << >>
    OBVIOUS
  <1> QED BY <1>1, <1>6, <1>7, CalmBegins

(* A package that is no longer asked for is owed. *)
LEMMA PackageRemoveCalm ==
    ASSUME GraphInv, NEW t \in Tasks, NEW i \in DOMAIN rows, PackageRemove(t, i)
    PROVE  CalmInv'
  <1> DEFINE f == [at |-> "LiveCheck", job |-> Job("Remove", i, FALSE), from |-> {i}]
  <1>1. /\ Begin(t, "Remove", {}, << f >>) /\ edges' = edges
        /\ rows' = [rows EXCEPT ![i].requested = FALSE]
    BY DEF PackageRemove
  <1>2. calm' => Spans(rows, DOMAIN edges, {})
    BY <1>1, CalmBegins
  <1>3. f.at = "LiveCheck" /\ f.from = {i} /\ ~HasDeps(f)
    BY DEF HasDeps
  <1> HIDE DEF f
  <1>4. DOMAIN rows' = DOMAIN rows /\ Asked(rows) \subseteq Asked(rows') \cup {i}
    <2>1. \A k \in DOMAIN rows : k # i => rows'[k] = rows[k]
      BY <1>1
    <2>2. DOMAIN rows' = DOMAIN rows
      BY <1>1
    <2> QED BY <2>1, <2>2 DEF Asked
  <1>5. ASSUME calm' PROVE Spans(rows', DOMAIN edges, {i})
    <2>1. Reach(DOMAIN edges, Asked(rows) \cup {}) \subseteq Reach(DOMAIN edges, Asked(rows') \cup {i})
      <3>1. DOMAIN edges \subseteq DOMAIN edges /\ Asked(rows) \cup {} \subseteq Asked(rows') \cup {i}
        BY <1>4
      <3> QED BY <3>1, ReachGrows
    <2>2. DOMAIN rows' \subseteq Reach(DOMAIN edges, Asked(rows') \cup {i})
      BY <1>2, <1>4, <1>5, <2>1 DEF Spans
    <2> QED BY <1>4, <2>2, EdgesJoinRows, SpansWhen
  <1>6. calm' => Runs(f, rows', DOMAIN edges)
    BY <1>3, <1>4, <1>5 DEF Runs, Even
  <1>7. calm' => Owes(<< f >>, rows', DOMAIN edges')
    BY <1>1, <1>6, FirstOwes
  <1>8. << f >> # << >> /\ Begin(t, "Remove", {}, << f >>)
    BY <1>1
  <1> QED BY <1>7, <1>8, CalmBegins

LEMMA SetRequestedCalm ==
    ASSUME GraphInv, NEW t \in Tasks, SetRequested(t)
    PROVE  CalmInv'
  <1>1. At(t, "Request") /\ edges' = edges /\ calm' = calm /\ Return(t)
    BY DEF SetRequested, Step
  <1>2. Top(t).at = "Request"
    BY <1>1, TopFits DEF GraphInv
  <1>3. calm => Waits(ops[t].stack, Len(ops[t].stack) - 1, rows, DOMAIN edges)
                  /\ Spans(rows, DOMAIN edges, {})
    BY <1>1, <1>2, Alone, RunsAlone DEF Runs, Even
  <1>4. DOMAIN rows' = DOMAIN rows /\ Asked(rows) \subseteq Asked(rows')
    <2>1. /\ DOMAIN rows' = DOMAIN rows
          /\ \A i \in DOMAIN rows :
                rows'[i] = [rows[i] EXCEPT !.requested = @ \/ rows[i].name = Top(t).name]
      BY DEF SetRequested
    <2>2. \A i \in DOMAIN rows : rows[i] \in Row
      BY RowsTyped
    <2>3. \A i \in DOMAIN rows : rows[i].requested => rows'[i].requested
      BY <2>1, <2>2 DEF Row
    <2> QED BY <2>1, <2>3 DEF Asked
  <1>5. ASSUME calm PROVE Spans(rows', DOMAIN edges, {})
    <2>1. Reach(DOMAIN edges, Asked(rows) \cup {}) \subseteq Reach(DOMAIN edges, Asked(rows') \cup {})
      <3>1. DOMAIN edges \subseteq DOMAIN edges /\ Asked(rows) \cup {} \subseteq Asked(rows') \cup {}
        BY <1>4
      <3> QED BY <3>1, ReachGrows
    <2>2. DOMAIN rows' \subseteq Reach(DOMAIN edges, Asked(rows') \cup {})
      BY <1>3, <1>4, <1>5, <2>1 DEF Spans
    <2> QED BY <1>4, <2>2, EdgesJoinRows, SpansWhen
  <1>6. calm => Waits(ops[t].stack, Len(ops[t].stack) - 1, rows', DOMAIN edges)
    BY <1>3, <1>4, WaitsLonger
  <1>7. calm => OwesWithout(ops[t].stack, rows', DOMAIN edges')
    BY <1>1, <1>5, <1>6 DEF OwesWithout
  <1> QED BY <1>1, <1>7, CalmReturns

(* The updates under a request are of other packages than its own. *)
LEMMA OthersWait ==
    ASSUME GraphInv, NEW t \in Tasks, NEW step, At(t, step), HasJob(Top(t)), NEW rs, NEW F,
           Waits(ops[t].stack, Len(ops[t].stack) - 1, rows, DOMAIN edges),
           DOMAIN rows \subseteq DOMAIN rs, \A e \in DOMAIN edges : e[1] # Top(t).job.id => e \in F
    PROVE  Waits(ops[t].stack, Len(ops[t].stack) - 1, rs, F)
  <1> DEFINE s == ops[t].stack
  <1>1. s \in Seq(Frame) /\ s # << >> /\ Top(t) = Last(s) /\ OneJobEach(ops[t].visited, s)
    BY TopFits DEF GraphInv, OpOK
  <1> HIDE DEF s
  <1>2. Len(s) \in Nat \ {0} /\ DOMAIN s = 1 .. Len(s) /\ Top(t) = s[Len(s)]
    BY <1>1, StackTop
  <1>3. ASSUME NEW l \in 1 .. Len(s) - 1
        PROVE  s[l].job.id \in DOMAIN rows /\ s[l].job.id # Top(t).job.id
    <2>1. s[l].at = "Prepare" /\ s[l].job.id \in DOMAIN rows
      BY <1>3 DEF Waits, Linked, s
    <2>2. l \in DOMAIN s /\ Len(s) \in DOMAIN s /\ l # Len(s) /\ s[l] \in Frame
      BY <1>1, <1>2
    <2>3. HasJob(s[l])
      BY <2>1, <2>2, FrameAt, FrameJobs
    <2>4. s[l].job.id # s[Len(s)].job.id
      BY <1>1, <1>2, <2>2, <2>3 DEF OneJobEach
    <2> QED BY <1>2, <2>1, <2>4
  <1>4. \A l \in 1 .. Len(s) - 1 : s[l].job.id \in DOMAIN rs
    BY <1>3
  <1>5. \A l \in 1 .. Len(s) - 1 :
           \A j : <<s[l].job.id, j>> \in DOMAIN edges => <<s[l].job.id, j>> \in F
    BY <1>3
  <1> QED BY <1>4, <1>5, WaitsKept DEF s

(* Once found is linked, what the package depended on before is owed. *)
LEMMA LinkSpans ==
    ASSUME NEW rs, NEW E, NEW F, NEW i, NEW X, NEW former,
           \A e \in E : e[1] \in DOMAIN rs /\ e[2] \in DOMAIN rs,
           X \subseteq DOMAIN rs, Spans(rs, E, X), i \in Reach(E, Asked(rs)),
           former = {e[2] : e \in {e \in E : e[1] = i}},
           F = {e \in E : e[1] # i} \cup {<<i, j>> : j \in X}
    PROVE  /\ former \subseteq DOMAIN rs /\ Spans(rs, F, former)
           /\ i \in Reach(F, Asked(rs))
  <1>1. i \in Reach(F, Asked(rs))
    <2>1. \A e \in E : e[1] # i => e \in F
      OBVIOUS
    <2> QED BY <2>1, StaysReached
  <1> DEFINE U == Reach(F, Asked(rs) \cup former)
  <1>2. Asked(rs) \cup former \subseteq U /\ \A e \in F : e[1] \in U => e[2] \in U
    BY ReachClosed
  <1>3. i \in U
    <2>1. Reach(F, Asked(rs)) \subseteq Reach(F, Asked(rs) \cup former)
      BY ReachGrows
    <2> QED BY <1>1, <2>1
  <1> HIDE DEF U
  <1>4. X \subseteq U
    <2> SUFFICES ASSUME NEW j \in X PROVE j \in U
      OBVIOUS
    <2>1. <<i, j>> \in F /\ <<i, j>>[1] = i /\ <<i, j>>[2] = j
      OBVIOUS
    <2> QED BY <1>2, <1>3, <2>1
  <1>5. \A e \in E : e[1] \in U => e[2] \in U
    <2>1. \A e \in E : e[1] = i => e[2] \in former
      OBVIOUS
    <2>2. \A e \in E : e[1] # i => e \in F
      OBVIOUS
    <2> QED BY <1>2, <2>1, <2>2
  <1>6. Reach(E, Asked(rs) \cup X) \subseteq U
    BY <1>2, <1>4, <1>5, ReachLeast
  <1>7. former \subseteq DOMAIN rs
    OBVIOUS
  <1>8. \A e \in F : e[2] \in DOMAIN rs
    OBVIOUS
  <1>9. DOMAIN rs \subseteq U
    BY <1>6 DEF Spans
  <1>10. Spans(rs, F, former)
    BY <1>7, <1>8, <1>9, SpansWhen DEF U
  <1> QED BY <1>1, <1>7, <1>10

(* Names are unique, so a name found is one row. *)
LEMMA CalledIds ==
    ASSUME GraphInv, NEW N, N \subseteq Tracked
    PROVE  {IdOf(n) : n \in N} = Called(rows, N)
  <1>1. \A n \in N : IdOf(n) \in DOMAIN rows /\ rows[IdOf(n)].name = n
    BY IdOfTracked
  <1>2. \A i \in Called(rows, N) : i = IdOf(rows[i].name) /\ rows[i].name \in N
    <2> TAKE i \in Called(rows, N)
    <2>1. i \in DOMAIN rows /\ rows[i].name \in N
      BY DEF Called
    <2>2. IdOf(rows[i].name) \in DOMAIN rows /\ rows[IdOf(rows[i].name)].name = rows[i].name
      BY <1>1, <2>1
    <2> QED BY <2>1, <2>2 DEF GraphInv, NamesUnique
  <1> HIDE DEF IdOf
  <1> QED BY <1>1, <1>2 DEF Called

LEMMA LinkCalm ==
    ASSUME GraphInv, NEW t \in Tasks, Link(t)
    PROVE  CalmInv'
  <1> DEFINE f == Top(t)
             i == f.job.id
             edit == f.job.kind = "Edit"
             to == {IdOf(n) : n \in DOMAIN f.found}
             F == {e \in DOMAIN edges : e[1] # i} \cup {<<i, j>> : j \in to}
             linked == [e \in F |-> IF e[1] = i THEN f.found[rows[e[2]].name] ELSE edges[e]]
             written == IF edit THEN [rows EXCEPT ![i].patched = ~@] ELSE rows
             deps == [j \in to |->
                        [least |-> linked[<<i, j>>], name |-> rows[j].name,
                         patched |-> rows[j].patched,
                         failed |-> rows[j].pending = "None" /\ rows[j].last = "Failed"]]
             g == [at |-> "LiveCheck", job |-> f.job, from |-> f.former, deps |-> deps]
             fails == \/ i \notin DOMAIN rows \/ ~(DOMAIN f.found \subseteq Tracked)
                      \/ edit /\ rows[i].patched # f.job.patched
  <1>1. At(t, "Insert") /\ f.todo = {} /\ calm' = calm
    BY DEF Link, Step
  <1>2. f.at = "Insert" /\ HasJob(f)
    BY <1>1, TopFits, FrameAt, FrameJobs DEF GraphInv
  <1>3. IF fails THEN Fail(t)
        ELSE edges' = linked /\ rows' = Resynced(written, linked, i) /\ Become(t, g)
    BY DEF Link
  <1>4. DOMAIN linked = F
    OBVIOUS
  <1>5. g.at = "LiveCheck" /\ g.job = f.job /\ g.from = f.former /\ DOMAIN g.deps = to
    OBVIOUS
  <1> HIDE DEF f, g, linked, fails
  <1>6. calm => Waits(ops[t].stack, Len(ops[t].stack) - 1, rows, DOMAIN edges)
                  /\ Runs(f, rows, DOMAIN edges)
    BY <1>1, <1>2, Alone, RunsAlone DEF f
  <1>7. calm => Inserting(f, rows, DOMAIN edges) /\ DOMAIN f.found \subseteq Tracked
    BY <1>1, <1>2, <1>6 DEF Runs, Held, Tracked
  <1>8. calm => ~fails
    BY <1>7 DEF fails, Inserting, Current
  <1>9. CASE fails
    BY <1>1, <1>3, <1>8, <1>9, CalmFails
  <1>10. CASE ~fails
    <2>1. edges' = linked /\ rows' = Resynced(written, linked, i) /\ Become(t, g)
      BY <1>3, <1>10
    <2>2. DOMAIN rows' = DOMAIN rows /\ Asked(rows') = Asked(rows)
      <3>1. \A k \in DOMAIN rows : rows[k] \in Row
        BY RowsTyped
      <3>2. /\ DOMAIN written = DOMAIN rows
            /\ \A k \in DOMAIN rows : written[k] \in Row /\ written[k].requested = rows[k].requested
        BY <3>1 DEF Row
      <3> HIDE DEF written
      <3>3. \A from, tto : SamePackages(written, Moved(written, i, from, tto))
        BY <3>2, BuildsMoved
      <3>4. SamePackages(written, rows')
        BY <2>1, <3>3 DEF Resynced
      <3> QED BY <3>2, <3>4 DEF SamePackages, Asked
    <2> HIDE DEF written
    <2>3. ASSUME calm PROVE OwesWith(ops[t].stack, g, rows', DOMAIN edges')
      <3>1. to = Called(rows, DOMAIN f.found)
        BY <1>7, <2>3, CalledIds
      <3>2. /\ i \in DOMAIN rows /\ i \in Reach(DOMAIN edges, Asked(rows))
            /\ f.former = {e[2] : e \in {e \in DOMAIN edges : e[1] = i}}
            /\ Spans(rows, DOMAIN edges, to)
        BY <1>7, <2>3, <3>1 DEF Inserting, Current
      <3>3. to \subseteq DOMAIN rows
        BY <3>1 DEF Called
      <3> HIDE DEF to
      <3>4. /\ f.former \subseteq DOMAIN rows /\ Spans(rows, F, f.former)
            /\ i \in Reach(F, Asked(rows))
        <4>1. F = {e \in DOMAIN edges : e[1] # i} \cup {<<i, j>> : j \in to}
          OBVIOUS
        <4>2. \A e \in DOMAIN edges : e[1] \in DOMAIN rows /\ e[2] \in DOMAIN rows
          BY EdgesJoinRows
        <4> HIDE DEF F, i
        <4> QED BY <3>2, <3>3, <4>1, <4>2, LinkSpans
      <3>5. Spans(rows', F, f.former)
        BY <2>2, <3>4 DEF Spans
      <3>6. Linked(g, rows', F)
        BY <1>5, <2>2, <3>2 DEF Linked
      <3>7. Runs(g, rows', F)
        BY <1>5, <2>2, <3>4, <3>5, <3>6 DEF Runs, Even
      <3>8. Waits(ops[t].stack, Len(ops[t].stack) - 1, rows', F)
        <4>1. /\ DOMAIN rows \subseteq DOMAIN rows'
              /\ \A e \in DOMAIN edges : e[1] # Top(t).job.id => e \in F
          BY <2>2 DEF f
        <4>2. HasJob(Top(t)) /\ Waits(ops[t].stack, Len(ops[t].stack) - 1, rows, DOMAIN edges)
          BY <1>2, <1>6, <2>3 DEF f
        <4> HIDE DEF F
        <4> QED BY <1>1, <4>1, <4>2, OthersWait
      <3> HIDE DEF F
      <3> QED BY <1>4, <2>1, <3>7, <3>8 DEF OwesWith
    <2> QED BY <1>1, <2>1, <2>3, CalmBecomes
  <1> QED BY <1>9, <1>10

(* Once the edge leads elsewhere, what it led to is owed. *)
LEMMA RepointSpans ==
    ASSUME NEW rs, NEW E, NEW F, NEW i, NEW j, NEW k,
           \A e \in E : e[1] \in DOMAIN rs /\ e[2] \in DOMAIN rs,
           k \in DOMAIN rs, <<i, j>> \in E, i \in Reach(E, Asked(rs)), Spans(rs, E, {k}),
           F = (E \ {<<i, j>>}) \cup {<<i, k>>}
    PROVE  j \in DOMAIN rs /\ Spans(rs, F, {j})
  <1>1. i \in Reach(F, Asked(rs))
    <2>1. \A e \in E : e[1] # i => e \in F
      OBVIOUS
    <2> QED BY <2>1, StaysReached
  <1> DEFINE U == Reach(F, Asked(rs) \cup {j})
  <1>2. Asked(rs) \cup {j} \subseteq U /\ \A e \in F : e[1] \in U => e[2] \in U
    BY ReachClosed
  <1>3. i \in U
    <2>1. Reach(F, Asked(rs)) \subseteq Reach(F, Asked(rs) \cup {j})
      BY ReachGrows
    <2> QED BY <1>1, <2>1
  <1> HIDE DEF U
  <1>4. k \in U
    <2>1. <<i, k>> \in F /\ <<i, k>>[1] = i /\ <<i, k>>[2] = k
      OBVIOUS
    <2> QED BY <1>2, <1>3, <2>1
  <1>5. \A e \in E : e[1] \in U => e[2] \in U
    <2>1. \A e \in E : e \in F \/ e[2] = j
      OBVIOUS
    <2> QED BY <1>2, <2>1
  <1>6. Reach(E, Asked(rs) \cup {k}) \subseteq U
    BY <1>2, <1>4, <1>5, ReachLeast
  <1>7. j \in DOMAIN rs /\ \A e \in F : e[2] \in DOMAIN rs
    OBVIOUS
  <1>8. DOMAIN rs \subseteq U
    BY <1>6 DEF Spans
  <1> QED BY <1>7, <1>8, SpansWhen DEF U

LEMMA RepointCalm ==
    ASSUME GraphInv, NEW t \in Tasks, Repoint(t)
    PROVE  CalmInv'
  <1> DEFINE f == Top(t)
             i == f.job.id
             k == IdOf(f.new)
             was == <<i, f.old>>
             now == <<i, k>>
             rest == DOMAIN edges \ {was}
             F == rest \cup {now}
             fails == f.new \notin Tracked \/ (now \notin rest /\ was \notin DOMAIN edges)
             g == [at |-> "Resync", job |-> f.job, old |-> f.old]
  <1>1. At(t, "Repoint") /\ rows' = rows /\ calm' = calm
    BY DEF Repoint, Step
  <1>2. f.at = "Repoint" /\ HasJob(f)
    BY <1>1, TopFits, FrameAt, FrameJobs DEF GraphInv
  <1>3. IF fails THEN Fail(t) ELSE DOMAIN edges' = F /\ Become(t, g)
    BY DEF Repoint
  <1>4. g.at = "Resync" /\ g.old = f.old
    OBVIOUS
  <1> HIDE DEF f, g
  <1>5. calm => Waits(ops[t].stack, Len(ops[t].stack) - 1, rows, DOMAIN edges)
                  /\ Runs(f, rows, DOMAIN edges)
    BY <1>1, <1>2, Alone, RunsAlone DEF f
  <1>6. calm => Repointing(f, rows, DOMAIN edges) /\ f.new \in Tracked
    BY <1>2, <1>5 DEF Runs, Held, Tracked
  <1>7. calm => ~fails
    BY <1>6 DEF Repointing
  <1> HIDE DEF fails
  <1>8. CASE fails
    BY <1>1, <1>3, <1>7, <1>8, CalmFails
  <1>9. CASE ~fails
    <2>1. DOMAIN edges' = F /\ Become(t, g)
      BY <1>3, <1>9
    <2>2. ASSUME calm PROVE OwesWith(ops[t].stack, g, rows', DOMAIN edges')
      <3>1. Called(rows, {f.new}) = {k} /\ k \in DOMAIN rows
        <4>1. {f.new} \subseteq Tracked
          BY <1>6, <2>2
        <4>2. {IdOf(n) : n \in {f.new}} = Called(rows, {f.new})
          BY <4>1, CalledIds
        <4>3. Called(rows, {f.new}) \subseteq DOMAIN rows
          BY DEF Called
        <4> QED BY <4>2, <4>3
      <3>2. /\ was \in DOMAIN edges /\ i \in Reach(DOMAIN edges, Asked(rows))
            /\ Spans(rows, DOMAIN edges, {k})
        BY <1>6, <2>2, <3>1 DEF Repointing
      <3>3. f.old \in DOMAIN rows /\ Spans(rows, F, {f.old})
        <4>1. F = (DOMAIN edges \ {<<i, f.old>>}) \cup {<<i, k>>}
          OBVIOUS
        <4>2. \A e \in DOMAIN edges : e[1] \in DOMAIN rows /\ e[2] \in DOMAIN rows
          BY EdgesJoinRows
        <4>3. <<i, f.old>> \in DOMAIN edges
          BY <3>2
        <4> HIDE DEF F, i, k
        <4> QED BY <3>1, <3>2, <4>1, <4>2, <4>3, RepointSpans
      <3>4. Runs(g, rows, F)
        BY <1>4, <3>3 DEF Runs, Even
      <3>5. Waits(ops[t].stack, Len(ops[t].stack) - 1, rows, F)
        <4>1. \A e \in DOMAIN edges : e[1] # Top(t).job.id => e \in F
          BY DEF f
        <4>2. HasJob(Top(t)) /\ Waits(ops[t].stack, Len(ops[t].stack) - 1, rows, DOMAIN edges)
          BY <1>2, <1>5, <2>2 DEF f
        <4> HIDE DEF F
        <4> QED BY <1>1, <4>1, <4>2, OthersWait
      <3> HIDE DEF F
      <3> QED BY <1>1, <2>1, <3>4, <3>5 DEF OwesWith
    <2> QED BY <1>1, <2>1, <2>2, CalmBecomes
  <1> QED BY <1>8, <1>9

LEMMA ReachJoined ==
    ASSUME NEW E, NEW S, NEW X
    PROVE  Reach(E, S \cup X) = Reach(E, S) \cup Reach(E, X)
  <1> DEFINE U == Reach(E, S) \cup Reach(E, X)
  <1>1. /\ S \subseteq Reach(E, S) /\ X \subseteq Reach(E, X)
        /\ \A e \in E : e[1] \in Reach(E, S) => e[2] \in Reach(E, S)
        /\ \A e \in E : e[1] \in Reach(E, X) => e[2] \in Reach(E, X)
    BY ReachClosed
  <1>2. S \cup X \subseteq U /\ \A e \in E : e[1] \in U => e[2] \in U
    BY <1>1
  <1>3. Reach(E, S \cup X) \subseteq U
    <2> HIDE DEF U
    <2> QED BY <1>2, ReachLeast
  <1>4. Reach(E, S) \subseteq Reach(E, S \cup X) /\ Reach(E, X) \subseteq Reach(E, S \cup X)
    BY ReachGrows
  <1> QED BY <1>3, <1>4

(* live_check finds everything that the requested packages do not need. *)
LEMMA LiveCheckCalm ==
    ASSUME GraphInv, NEW t \in Tasks, LiveCheck(t)
    PROVE  CalmInv'
  <1> DEFINE f == Top(t)
             hold == IF f.job.kind \in {"Update", "Edit"} THEN {f.job.id} ELSE {}
             from == Orphaned(f.from, hold)
             g == [f EXCEPT !.at = "Delete", !.from = from]
             A == Asked(rows)
             E == DOMAIN edges
  <1>1. At(t, "LiveCheck") /\ rows' = rows /\ edges' = edges /\ calm' = calm /\ Become(t, g)
    BY DEF LiveCheck, Step, graph
  <1>2. f.at = "LiveCheck" /\ (f \in LinkedFrames \/ f \in LooseFrames)
    BY <1>1, TopFits, FrameAt DEF GraphInv
  <1>3. calm => Waits(ops[t].stack, Len(ops[t].stack) - 1, rows, E) /\ Runs(f, rows, E)
    BY <1>1, <1>2, Alone, RunsAlone
  <1>4. /\ g.at = "Delete" /\ g.from = from /\ g.job = f.job
        /\ HasDeps(g) => HasDeps(f) /\ g.deps = f.deps
    BY <1>2 DEF LinkedFrames, LooseFrames, HasDeps
  <1>5. f.job.kind \in {"Update", "Edit"} => HasDeps(f)
    BY <1>2, FrameJobs DEF LooseFrames, Jobs
  <1> HIDE DEF f, g
  <1>6. ASSUME calm PROVE from = DOMAIN rows \ Reach(E, A)
    <2>1. /\ Spans(rows, E, f.from)
          /\ HasDeps(f) => f.job.id \in Reach(E, A)
      BY <1>2, <1>3, <1>6 DEF Runs
    <2>2. hold \subseteq Reach(E, A)
      BY <1>5, <2>1
    <2> HIDE DEF hold
    <2>3. Reach(E, A \cup hold) = Reach(E, A)
      BY <2>2, ReachFrom
    <2>4. DOMAIN rows = Reach(E, A) \cup Reach(E, f.from)
      BY <2>1, ReachJoined DEF Spans
    <2>5. from = Reach(E, f.from) \ Reach(E, A \cup hold)
      BY DEF Orphaned, Requested, Asked
    <2> HIDE DEF A, E, from
    <2> QED BY <2>3, <2>4, <2>5
  <1>7. calm => Runs(g, rows, E)
    BY <1>2, <1>3, <1>4, <1>6 DEF Runs, Even, Linked
  <1>8. calm => OwesWith(ops[t].stack, g, rows', DOMAIN edges')
    BY <1>1, <1>3, <1>7 DEF OwesWith
  <1> QED BY <1>1, <1>8, CalmBecomes

(* What nothing needs is gone, and nothing else. *)
LEMMA DeleteSpans ==
    ASSUME NEW rs, NEW rs2, NEW E, NEW F, NEW L,
           \A e \in E : e[1] \in DOMAIN rs /\ e[2] \in DOMAIN rs,
           L = Reach(E, Asked(rs)), L \subseteq DOMAIN rs,
           DOMAIN rs2 = L, \A i \in L : rs2[i] = rs[i],
           F = {e \in E : e[1] \in L /\ e[2] \in L}
    PROVE  /\ Asked(rs2) = Asked(rs) /\ Spans(rs2, F, {}) /\ Reach(F, Asked(rs2)) = L
           /\ \A e \in E : e[1] \in L => e \in F
  <1>1. Asked(rs) \subseteq L /\ \A e \in E : e[1] \in L => e[2] \in L
    BY ReachClosed
  <1>2. Asked(rs2) = Asked(rs)
    BY <1>1 DEF Asked
  <1>3. \A e \in E : e[1] \in L => e \in F
    BY <1>1
  <1> DEFINE U == Reach(F, Asked(rs))
  <1>4. Asked(rs) \subseteq U /\ \A e \in F : e[1] \in U => e[2] \in U
    BY ReachClosed
  <1>5. U \subseteq L
    <2>1. F \subseteq E /\ Asked(rs) \subseteq Asked(rs)
      OBVIOUS
    <2> QED BY <2>1, ReachGrows
  <1> HIDE DEF U
  <1>6. \A e \in E : e[1] \in U => e[2] \in U
    BY <1>3, <1>4, <1>5
  <1>7. L \subseteq U
    BY <1>4, <1>6, ReachLeast
  <1>8. U = L
    BY <1>5, <1>7
  <1>9. Spans(rs2, F, {})
    <2>1. Asked(rs2) \cup {} = Asked(rs)
      BY <1>2
    <2> QED BY <1>8, <2>1 DEF Spans, U
  <1> QED BY <1>2, <1>3, <1>8, <1>9 DEF U

LEMMA DeleteCalm ==
    ASSUME GraphInv, NEW t \in Tasks, Delete(t)
    PROVE  CalmInv'
  <1> DEFINE f == Top(t)
             s == ops[t].stack
             gone == f.from \cap DOMAIN rows
             kept == {e \in DOMAIN edges : e[1] \notin gone /\ e[2] \notin gone}
             L == Reach(DOMAIN edges, Asked(rows))
             g == [at |-> "Prepare", job |-> f.job, deps |-> f.deps, todo |-> DOMAIN f.deps,
                   dep |-> f.job.id, waits |-> FALSE]
  <1>1. At(t, "Delete") /\ (calm' => calm)
    BY DEF Delete
  <1>2. /\ f.at = "Delete" /\ (f \in LinkedFrames \/ f \in LooseFrames)
        /\ s \in Seq(Frame) /\ s # << >>
    BY <1>1, TopFits, FrameAt DEF GraphInv
  <1>3. calm => Waits(s, Len(s) - 1, rows, DOMAIN edges) /\ Runs(f, rows, DOMAIN edges)
    BY <1>1, <1>2, Alone, RunsAlone
  <1>4. \/ StillNeeded(gone) /\ (Return(t) \/ Fail(t))
        \/ /\ rows' = Restrict(rows, DOMAIN rows \ gone) /\ edges' = Restrict(edges, kept)
           /\ calm' = (calm /\ ~Undermines(t, gone)) /\ Collected(t, f)
    BY DEF Delete
  <1>5. /\ g.at = "Prepare" /\ g.job = f.job /\ g.deps = f.deps
        /\ f.job.kind = "Update" => HasDeps(f)
    BY <1>2, FrameJobs DEF LooseFrames, Jobs
  <1>6. Return(t) \/ Fail(t) \/ (f.job.kind = "Update" /\ Become(t, g))
    <2>1. Collected(t, f) => Return(t) \/ Fail(t) \/ (f.job.kind = "Update" /\ Become(t, g))
      BY DEF Collected
    <2> HIDE DEF g
    <2> QED BY <1>4, <2>1
  <1> HIDE DEF f, g, s
  <1>7. L \subseteq DOMAIN rows
    <2>1. Asked(rows) \subseteq DOMAIN rows
      BY DEF Asked
    <2> QED BY <2>1, EdgesJoinRows, ReachLeast
  <1>8. calm => f.from = DOMAIN rows \ L
    BY <1>2, <1>3 DEF Runs
  <1>9. \A e \in DOMAIN edges : e[1] \in L => e[2] \in L
    BY ReachClosed
  <1> HIDE DEF L
  <1>10. calm => \A i \in DOMAIN rows : i \in gone <=> i \notin L
    BY <1>8
  <1>11. calm => ~StillNeeded(gone)
    BY <1>9, <1>10, EdgesJoinRows DEF StillNeeded
  <1>12. ASSUME calm'
         PROVE  /\ Waits(s, Len(s) - 1, rows', DOMAIN edges') /\ Spans(rows', DOMAIN edges', {})
                /\ f.job.kind = "Update" => Linked(f, rows', DOMAIN edges')
    <2>1. calm /\ ~StillNeeded(gone)
      BY <1>1, <1>11, <1>12
    <2>2. /\ rows' = Restrict(rows, DOMAIN rows \ gone) /\ edges' = Restrict(edges, kept)
          /\ ~Undermines(t, gone)
      BY <1>4, <1>12, <2>1
    <2>3. DOMAIN rows' = L /\ \A i \in L : rows'[i] = rows[i]
      <3>1. DOMAIN rows' = DOMAIN rows \ gone /\ \A i \in DOMAIN rows' : rows'[i] = rows[i]
        BY <2>2 DEF Restrict
      <3>2. DOMAIN rows \ gone = L
        BY <1>7, <1>10, <2>1
      <3> QED BY <3>1, <3>2
    <2>4. DOMAIN edges' = {e \in DOMAIN edges : e[1] \in L /\ e[2] \in L}
      <3>1. DOMAIN edges' = kept
        BY <2>2 DEF Restrict
      <3>2. \A e \in DOMAIN edges : e \in kept <=> e[1] \in L /\ e[2] \in L
        BY <1>10, <2>1, EdgesJoinRows
      <3> QED BY <3>1, <3>2
    <2>5. /\ Spans(rows', DOMAIN edges', {})
          /\ \A e \in DOMAIN edges : e[1] \in L => e \in DOMAIN edges'
      <3>1. \A e \in DOMAIN edges : e[1] \in DOMAIN rows /\ e[2] \in DOMAIN rows
        BY EdgesJoinRows
      <3>2. L = Reach(DOMAIN edges, Asked(rows))
        BY DEF L
      <3> QED BY <1>7, <2>3, <2>4, <3>1, <3>2, DeleteSpans
    <2>6. ASSUME NEW l \in 1 .. Len(s) - 1
          PROVE  s[l].job.id \in L
      <3>1. s[l].at = "Prepare" /\ s[l].job.id \in DOMAIN rows
        BY <1>3, <2>1, <2>6 DEF Waits, Linked
      <3>2. s[l] \in Frame
        BY <1>2, <2>6, StackTop
      <3>3. HasJob(s[l])
        BY <3>1, <3>2, FrameAt, FrameJobs
      <3>4. s[l].job.id \notin gone
        BY <2>2, <2>6, <3>3 DEF Undermines, HasJob, s
      <3> QED BY <1>10, <2>1, <3>1, <3>4
    <2>7. Waits(s, Len(s) - 1, rows', DOMAIN edges')
      <3>1. \A l \in 1 .. Len(s) - 1 : s[l].job.id \in DOMAIN rows'
        BY <2>3, <2>6
      <3>2. \A l \in 1 .. Len(s) - 1 :
               \A j : <<s[l].job.id, j>> \in DOMAIN edges => <<s[l].job.id, j>> \in DOMAIN edges'
        BY <2>5, <2>6
      <3> QED BY <1>3, <2>1, <3>1, <3>2, WaitsKept
    <2>8. f.job.kind = "Update" => Linked(f, rows', DOMAIN edges')
      <3> SUFFICES ASSUME f.job.kind = "Update" PROVE Linked(f, rows', DOMAIN edges')
        OBVIOUS
      <3>1. f.job.id \in L /\ Linked(f, rows, DOMAIN edges)
        BY <1>2, <1>3, <1>5, <2>1 DEF Runs, L
      <3> QED BY <2>3, <2>5, <3>1 DEF Linked
    <2> QED BY <2>5, <2>7, <2>8
  <1>13. CASE Return(t)
    <2>1. calm' => OwesWithout(ops[t].stack, rows', DOMAIN edges')
      BY <1>12 DEF OwesWithout, s
    <2> QED BY <1>1, <1>13, <2>1, CalmReturns
  <1>14. CASE Fail(t)
    BY <1>1, <1>12, <1>14, CalmFails
  <1>15. CASE f.job.kind = "Update" /\ Become(t, g)
    <2>1. calm' => Runs(g, rows', DOMAIN edges')
      BY <1>5, <1>12, <1>15 DEF Runs, Even, Linked
    <2>2. calm' => OwesWith(ops[t].stack, g, rows', DOMAIN edges')
      BY <1>12, <2>1 DEF OwesWith, s
    <2> QED BY <1>1, <1>15, <2>2, CalmBecomes
  <1> QED BY <1>6, <1>13, <1>14, <1>15

(* What a plan adds is reached from the name it starts from. *)
LEMMA PersistSpans ==
    ASSUME NEW f, NEW rs, NEW E, NEW rs2, NEW F, Planted(f, rs, E, rs2, F),
           NEW W, Spans(rs, E, Called(rs, W)), NEW N, Grows(f, rs, N), N \subseteq W \cup f.roots
    PROVE  Spans(rs2, F, Called(rs2, W))
  <1> DEFINE L == DOMAIN f.links
             U == Reach(F, Asked(rs2) \cup Called(rs2, W))
  <1>1. Asked(rs2) \cup Called(rs2, W) \subseteq U /\ \A e \in F : e[1] \in U => e[2] \in U
    BY ReachClosed
  <1> HIDE DEF U
  <1>2. DOMAIN rs \subseteq U
    <2>1. Asked(rs) \subseteq Asked(rs2) /\ Called(rs, W) \subseteq Called(rs2, W) /\ E \subseteq F
      BY DEF Planted, Asked, Called
    <2>2. Asked(rs) \cup Called(rs, W) \subseteq U /\ \A e \in E : e[1] \in U => e[2] \in U
      BY <1>1, <2>1
    <2> QED BY <2>2, ReachLeast DEF Spans
  <1>3. DOMAIN rs2 \subseteq U
    <2> SUFFICES ASSUME NEW i \in DOMAIN rs2 \ DOMAIN rs PROVE i \in U
      BY <1>2
    <2>1. rs2[i].name \in f.names
      BY DEF Planted
    <2>2. PICK n \in N \cap f.names : f.names \subseteq Reach(L, {n})
      BY <2>1 DEF Grows
    <2> DEFINE T == {m \in Reach(L, {n}) : \A j \in DOMAIN rs2 : rs2[j].name = m => j \in U}
    <2>3. {n} \subseteq Reach(L, {n}) /\ \A e \in L : e[1] \in Reach(L, {n}) => e[2] \in Reach(L, {n})
      BY ReachClosed
    <2>4. n \in T
      <3> SUFFICES ASSUME NEW j \in DOMAIN rs2, rs2[j].name = n PROVE j \in U
        BY <2>3
      <3>1. CASE j \in DOMAIN rs
        BY <1>2, <3>1
      <3>2. CASE j \notin DOMAIN rs
        BY <1>1, <3>2 DEF Planted, Asked, Called
      <3> QED BY <3>1, <3>2
    <2>5. \A e \in L : e[1] \in T => e[2] \in T
      <3> SUFFICES ASSUME NEW e \in L, e[1] \in T, NEW j \in DOMAIN rs2, rs2[j].name = e[2]
                   PROVE  j \in U
        BY <2>3
      <3>1. PICK k \in DOMAIN rs2 : rs2[k].name = e[1]
        BY DEF Planted
      <3>2. <<k, j>> \in F /\ k \in U
        BY <3>1 DEF Planted
      <3>3. <<k, j>>[1] = k /\ <<k, j>>[2] = j
        OBVIOUS
      <3> QED BY <1>1, <3>2, <3>3
    <2>6. Reach(L, {n}) \subseteq T
      <3> HIDE DEF T, L
      <3> QED BY <2>4, <2>5, ReachLeast
    <2> QED BY <2>1, <2>2, <2>6
  <1>4. Called(rs2, W) \subseteq DOMAIN rs2 /\ \A e \in F : e[2] \in DOMAIN rs2
    BY DEF Called, Planted
  <1> QED BY <1>3, <1>4, SpansWhen DEF U

LEMMA PersistCalm ==
    ASSUME GraphInv, NEW t \in Tasks, Persist(t)
    PROVE  CalmInv'
  <1> DEFINE f == Top(t)
             s == ops[t].stack
             E == DOMAIN edges
             F == DOMAIN edges'
  <1>1. At(t, "Persist") /\ calm' = calm
    BY DEF Persist, Step
  <1>2. f.at = "Persist" /\ TypeInv /\ NamesUnique
    BY <1>1, TopFits DEF GraphInv
  <1> SUFFICES ASSUME calm PROVE CalmInv'
    BY <1>1 DEF CalmInv
  <1>3. OwesWith(s, f, rows, E)
    BY <1>1, Alone
  <1>4. \E N : Grows(f, rows, N)
    BY <1>2, <1>3 DEF OwesWith, Runs, Serves
  <1>5. f.names \cap Tracked = {}
    BY <1>4 DEF Grows, Held, Tracked
  <1>6. /\ Planted(f, rows, E, rows', F)
        /\ \/ ~f.build /\ Return(t)
           \/ \E todo, leaf \in SUBSET Nat :
                 /\ f.build /\ todo \subseteq DOMAIN rows'
                 /\ Become(t, [at |-> "Initial", todo |-> todo, leaf |-> leaf])
    BY <1>2, <1>5, PersistGraph
  <1> HIDE DEF f
  <1>7. /\ DOMAIN rows \subseteq DOMAIN rows' /\ E \subseteq F
        /\ \A k : Waits(s, k, rows, E) => Waits(s, k, rows', F)
    BY <1>6, WaitsLonger DEF Planted
  <1>8. ASSUME Waits(s, Len(s) - 1, rows, E), Runs(f, rows, E)
        PROVE  CalmInv'
    <2>1. Spans(rows', F, {})
      <3>1. Called(rows, {}) = {} /\ Called(rows', {}) = {}
        BY DEF Called
      <3>2. Spans(rows, E, Called(rows, {})) /\ Grows(f, rows, f.roots)
        BY <1>2, <1>8, <3>1 DEF Runs, Even
      <3>3. f.roots \subseteq {} \cup f.roots
        OBVIOUS
      <3>4. Spans(rows', F, Called(rows', {}))
        BY <1>6, <3>2, <3>3, PersistSpans
      <3> QED BY <3>1, <3>4
    <2>2. Waits(s, Len(s) - 1, rows', F)
      BY <1>7, <1>8
    <2>3. CASE Return(t)
      BY <1>1, <2>1, <2>2, <2>3, CalmReturns DEF OwesWithout
    <2>4. ASSUME NEW g, g.at = "Initial", Become(t, g) PROVE CalmInv'
      <3>1. OwesWith(s, g, rows', F)
        BY <2>1, <2>2, <2>4 DEF OwesWith, Runs, Even
      <3> QED BY <1>1, <2>4, <3>1, CalmBecomes
    <2> QED BY <1>6, <2>3, <2>4
  <1>9. ASSUME Len(s) > 1, Waits(s, Len(s) - 2, rows, E), Serves(f, s[Len(s) - 1], rows, E)
        PROVE  CalmInv'
    <2> DEFINE g == s[Len(s) - 1]
    <2>1. Waits(s, Len(s) - 2, rows', F) /\ Serves(f, g, rows, E)
      BY <1>7, <1>9
    <2>2. \A i : i \in Reach(E, Asked(rows)) => i \in Reach(F, Asked(rows'))
      <3>1. Asked(rows) \subseteq Asked(rows') /\ E \subseteq F
        BY <1>6 DEF Planted, Asked
      <3> QED BY <3>1, ReachGrows
    <2>3. Held(rows') = Held(rows) \cup f.names
      BY <1>6 DEF Planted, Held
    <2>4. CASE g.at = "Insert"
      <3>1. /\ ~f.build /\ Grows(f, rows, DOMAIN g.found) /\ Inserting(g, rows, E)
            /\ DOMAIN g.found \subseteq Held(rows) \cup g.todo \cup f.names
        BY <2>1, <2>4 DEF Serves
      <3> HIDE DEF g
      <3>2. Spans(rows', F, Called(rows', DOMAIN g.found))
        <4>1. Spans(rows, E, Called(rows, DOMAIN g.found)) /\ DOMAIN g.found \subseteq DOMAIN g.found \cup f.roots
          BY <3>1 DEF Inserting
        <4> QED BY <1>6, <3>1, <4>1, PersistSpans
      <3>3. Current(g.job, rows') /\ g.job.id \in Reach(F, Asked(rows'))
        BY <1>6, <2>2, <3>1 DEF Inserting, Current, Planted
      <3>4. g.former = {e[2] : e \in {e \in F : e[1] = g.job.id}}
        <4>1. {e \in F : e[1] = g.job.id} = {e \in E : e[1] = g.job.id}
          BY <1>6, <3>1 DEF Inserting, Current, Planted
        <4> QED BY <3>1, <4>1 DEF Inserting
      <3>5. Runs(g, rows', F)
        BY <2>3, <2>4, <3>1, <3>2, <3>3, <3>4 DEF Runs, Inserting, Even
      <3>6. OwesWithout(s, rows', F)
        BY <1>9, <2>1, <3>5 DEF OwesWithout, g
      <3> QED BY <1>1, <1>6, <3>1, <3>6, CalmReturns
    <2>5. CASE g.at = "Repoint"
      <3>1. Grows(f, rows, {g.new}) /\ g.new \in f.names /\ Repointing(g, rows, E)
        BY <1>2, <2>1, <2>5 DEF Serves
      <3> HIDE DEF g
      <3>2. Spans(rows', F, Called(rows', {g.new}))
        <4>1. Spans(rows, E, Called(rows, {g.new})) /\ {g.new} \subseteq {g.new} \cup f.roots
          BY <3>1 DEF Repointing
        <4> QED BY <1>6, <3>1, <4>1, PersistSpans
      <3>3. Repointing(g, rows', F) /\ g.new \in Held(rows')
        BY <1>7, <2>2, <2>3, <3>1, <3>2 DEF Repointing
      <3>4. CASE Return(t)
        <4>1. Runs(g, rows', F)
          BY <2>5, <3>3 DEF Runs, Even
        <4>2. OwesWithout(s, rows', F)
          BY <1>9, <2>1, <4>1 DEF OwesWithout, g
        <4> QED BY <1>1, <3>4, <4>2, CalmReturns
      <3>5. ASSUME NEW todo, NEW leaf, todo \subseteq DOMAIN rows',
                   Become(t, [at |-> "Initial", todo |-> todo, leaf |-> leaf])
            PROVE  CalmInv'
        <4> DEFINE h == [at |-> "Initial", todo |-> todo, leaf |-> leaf]
        <4>1. h.at = "Initial" /\ h.todo = todo
          OBVIOUS
        <4> HIDE DEF h
        <4>2. Serves(h, g, rows', F)
          BY <2>5, <3>3, <3>5, <4>1 DEF Serves
        <4>3. OwesWith(s, h, rows', F)
          BY <1>9, <2>1, <4>2 DEF OwesWith, g
        <4> QED BY <1>1, <3>5, <4>3, CalmBecomes DEF h
      <3> QED BY <1>6, <3>4, <3>5
    <2> QED BY <2>1, <2>4, <2>5 DEF Serves
  <1> QED BY <1>3, <1>8, <1>9 DEF OwesWith

-----------------------------------------------------------------------------
(* The other steps: rows go, and the ones that stay keep their names; builds *)
(* come and go; the server restarts.                                         *)

KeepsNames == \A i \in DOMAIN rows' : i \in DOMAIN rows /\ rows'[i].name = rows[i].name

LEMMA KeptUnique ==
    ASSUME NamesUnique, KeepsNames
    PROVE  NamesUnique'
  BY DEF NamesUnique, KeepsNames

LEMMA SameKeepsNames ==
    ASSUME NEW rs, SamePackages(rows, rs), SamePackages(rs, rows')
    PROVE  KeepsNames
  BY DEF SamePackages, KeepsNames

LEMMA AskNames ==
    ASSUME GraphInv, NEW t \in Tasks, Ask(t)
    PROVE  NamesUnique'
  <1>1. CASE rows' = rows
    BY <1>1 DEF GraphInv, NamesUnique
  <1>2. ASSUME NEW i \in DOMAIN rows, rows' = [rows EXCEPT ![i].requested = FALSE]
        PROVE  NamesUnique'
    <2>1. KeepsNames
      BY <1>2, RowsTyped DEF KeepsNames, Row
    <2> QED BY <2>1, KeptUnique DEF GraphInv
  <1>3. rows' = rows \/ \E i \in DOMAIN rows : rows' = [rows EXCEPT ![i].requested = FALSE]
    BY DEF Ask, Add, Update, Edit, PackageRemove, Drop, Replace, graph
  <1> QED BY <1>1, <1>2, <1>3

LEMMA AdvanceNames ==
    ASSUME GraphInv, NEW t \in Tasks, Advance(t)
    PROVE  NamesUnique'
  <1>1. TypeInv /\ NamesUnique /\ \A i \in DOMAIN rows : rows[i] \in Row
    BY RowsTyped DEF GraphInv
  <1>2. CASE rows' = rows
    BY <1>1, <1>2 DEF NamesUnique
  <1>3. ASSUME NEW i, NEW from, NEW to, rows' = Moved(rows, i, from, to) \/ rows' = Queued(rows, i, to)
        PROVE  NamesUnique'
    <2>1. SamePackages(rows, rows) /\ SamePackages(rows, rows')
      BY <1>1, <1>3, BuildsMoved
    <2> QED BY <1>1, <2>1, SameKeepsNames, KeptUnique
  <1>4. CASE SetRequested(t)
    <2>1. KeepsNames
      BY <1>1, <1>4 DEF SetRequested, KeepsNames, Row
    <2> QED BY <1>1, <2>1, KeptUnique
  <1>5. CASE Persist(t)
    <2>1. CASE Top(t).names \cap Tracked = {}
      BY <1>1, <1>5, <2>1, PersistGraph
    <2>2. CASE Top(t).names \cap Tracked # {}
      <3>1. rows' = rows
        BY <1>5, <2>2 DEF Persist, graph
      <3> QED BY <1>2, <3>1
    <2> QED BY <2>1, <2>2
  <1>6. CASE Link(t)
    <2> DEFINE i == Top(t).job.id
               written == IF Top(t).job.kind = "Edit" THEN [rows EXCEPT ![i].patched = ~@] ELSE rows
    <2>1. \/ rows' = rows
          \/ rows' = Moved(written, i, "Waiting", "Enqueued")
          \/ rows' = Moved(written, i, "Enqueued", "Waiting")
      BY <1>6 DEF Link, graph, Resynced
    <2>2. /\ DOMAIN written = DOMAIN rows
          /\ \A j \in DOMAIN rows : written[j] \in Row /\ written[j].name = rows[j].name
      BY <1>1 DEF Row
    <2> HIDE DEF written, i
    <2>3. rows' = rows \/ KeepsNames
      <3>1. \A j \in DOMAIN written : written[j] \in Row
        BY <2>2
      <3>2. rows' = rows \/ SamePackages(written, rows')
        BY <2>1, <3>1, BuildsMoved
      <3> QED BY <2>2, <3>2 DEF SamePackages, KeepsNames
    <2> QED BY <1>1, <1>2, <2>3, KeptUnique
  <1>7. CASE Delete(t)
    <2>1. rows' = rows \/ \E S \in SUBSET DOMAIN rows : rows' = Restrict(rows, S)
      BY <1>7 DEF Delete, graph
    <2>2. rows' = rows \/ KeepsNames
      BY <2>1 DEF Restrict, KeepsNames
    <2> QED BY <1>1, <1>2, <2>2, KeptUnique
  <1>8. CASE QueueInitial(t)
    BY <1>2, <1>3, <1>8 DEF QueueInitial
  <1>9. CASE Enqueue(t)
    BY <1>2, <1>3, <1>9 DEF Enqueue
  <1>10. CASE Put(t)
    BY <1>2, <1>3, <1>10 DEF Put
  <1>11. CASE Settle(t)
    BY <1>2, <1>3, <1>11 DEF Settle
  <1>12. CASE \/ DecideInitial(t) \/ Resolve(t) \/ Insert(t) \/ Prepare(t) \/ UpdateDependency(t)
              \/ Repoint(t) \/ Resync(t) \/ LiveCheck(t)
    <2>1. rows' = rows
      BY <1>12 DEF DecideInitial, Resolve, Insert, Prepare, UpdateDependency, Repoint, Resync, LiveCheck, graph
    <2> QED BY <1>2, <2>1
  <1> QED BY <1>4, <1>5, <1>6, <1>7, <1>8, <1>9, <1>10, <1>11, <1>12 DEF Advance

LEMMA NoTaskOwes ==
    ASSUME GraphInv, SamePackages(rows, rows'), edges' = edges, ops' = ops, calm' = calm
    PROVE  NamesUnique' /\ CalmInv'
  <1>1. KeepsNames
    BY DEF SamePackages, KeepsNames
  <1>2. /\ Spans(rows, DOMAIN edges, {}) => Spans(rows', DOMAIN edges', {})
        /\ \A s : Owes(s, rows, DOMAIN edges) => Owes(s, rows', DOMAIN edges')
    BY SameOwed
  <1>3. /\ Quiet' <=> Quiet
        /\ \A t \in Tasks : Busy(t)' <=> Busy(t)
    BY DEF Quiet, Busy
  <1>4. ASSUME calm'
        PROVE  /\ Quiet' => Spans(rows', DOMAIN edges', {})
               /\ \A t \in Tasks : ops'[t] # Idle => /\ \A u \in Tasks \ {t} : ops'[u] = Idle
                                                     /\ Owes(ops'[t].stack, rows', DOMAIN edges')
    BY <1>2, <1>3, <1>4 DEF GraphInv, CalmInv, Busy
  <1> QED BY <1>1, <1>4, KeptUnique DEF GraphInv, CalmInv, Busy

LEMMA BuildsCalm ==
    ASSUME GraphInv,
           \/ \E n \in Names : Release(n)
           \/ \E i \in DOMAIN rows : Claim(i) \/ EndBuild(i) \/ Publish(i)
           \/ \E i \in DOMAIN promoting : Promotion(i)
           \/ UNCHANGED vars
    PROVE  NamesUnique' /\ CalmInv'
  <1>1. \A i \in DOMAIN rows : rows[i] \in Row
    BY RowsTyped
  <1>2. edges' = edges /\ ops' = ops /\ calm' = calm
    BY DEF Release, Claim, EndBuild, Publish, Promotion, LoadDependents, TriggerDependent,
           EndPromotion, Env, graph, vars
  <1>3. SamePackages(rows, rows')
    <2>1. CASE rows' = rows
      BY <2>1 DEF SamePackages
    <2>2. ASSUME NEW i \in DOMAIN rows, Claim(i) PROVE SamePackages(rows, rows')
      BY <1>1, <2>2 DEF Claim, SamePackages, Row
    <2>3. ASSUME NEW i \in DOMAIN rows, EndBuild(i) PROVE SamePackages(rows, rows')
      BY <1>1, <2>3 DEF EndBuild, SamePackages, Row
    <2>4. ASSUME NEW i \in DOMAIN rows, Publish(i) PROVE SamePackages(rows, rows')
      BY <1>1, <2>4 DEF Publish, SamePackages, Row
    <2>5. ASSUME NEW j, rows' = Moved(rows, j, "Waiting", "Enqueued") PROVE SamePackages(rows, rows')
      BY <1>1, <2>5, BuildsMoved
    <2>6. \A i : Promotion(i) => rows' = rows \/ \E j : rows' = Moved(rows, j, "Waiting", "Enqueued")
      BY DEF Promotion, LoadDependents, TriggerDependent, EndPromotion, graph
    <2>7. (\E n \in Names : Release(n)) \/ UNCHANGED vars => rows' = rows
      BY DEF Release, graph, vars
    <2> QED BY <2>1, <2>2, <2>3, <2>4, <2>5, <2>6, <2>7
  <1> QED BY <1>2, <1>3, NoTaskOwes

LEMMA RestartCalm ==
    ASSUME GraphInv, Restart
    PROVE  NamesUnique' /\ CalmInv'
  <1>1. /\ calm' => calm /\ Quiet
        /\ edges' = edges /\ rows' = [i \in DOMAIN rows |-> Scanned(i)]
        /\ ops' = [t \in Tasks |-> Idle]
    BY DEF Restart, Quiet
  <1>2. SamePackages(rows, rows')
    <2>1. ASSUME NEW i \in DOMAIN rows
          PROVE  /\ Scanned(i).name = rows[i].name /\ Scanned(i).requested = rows[i].requested
                 /\ Scanned(i).patched = rows[i].patched
      <3>1. rows[i] \in Row
        BY RowsTyped
      <3>2. \/ Scanned(i) = [rows[i] EXCEPT !.pending = "Enqueued"]
            \/ Scanned(i) = [rows[i] EXCEPT !.pending = "Waiting"]
            \/ Scanned(i) = rows[i]
        BY DEF Scanned
      <3> QED BY <3>1, <3>2 DEF Row
    <2> QED BY <1>1, <2>1 DEF SamePackages
  <1>3. KeepsNames
    BY <1>2 DEF SamePackages, KeepsNames
  <1>4. calm' => Spans(rows', DOMAIN edges', {})
    <2>1. calm' => Spans(rows, DOMAIN edges, {})
      BY <1>1 DEF GraphInv, CalmInv
    <2> QED BY <1>1, <1>2, <2>1, SameOwed
  <1>5. \A t \in Tasks : ops'[t] = Idle
    BY <1>1
  <1> QED BY <1>3, <1>4, <1>5, KeptUnique DEF GraphInv, CalmInv, Busy

-----------------------------------------------------------------------------
(* The invariant and the theorem. *)

LEMMA InitGraph == Init => GraphInv
  <1> SUFFICES ASSUME Init PROVE NamesUnique /\ CalmInv
    BY InitTypes DEF GraphInv
  <1> DEFINE deps == [n \in Names |-> DOMAIN Releases[n][1] \ Provides[n]]
             pairs == {e \in Names \X Names : e[2] \in deps[e[1]]}
             R == Reach(pairs, Installed)
             order == SetToSeq(R)
             ids == DOMAIN order
  <1>1. /\ rows = [i \in ids |-> [NewRow(order[i], order[i] \in Installed) EXCEPT
                        !.pending = IF deps[order[i]] = {} THEN "Enqueued" ELSE "Waiting"]]
        /\ DOMAIN edges = {e \in ids \X ids : order[e[2]] \in deps[order[e[1]]]}
        /\ ops = [t \in Tasks |-> Idle]
    BY DEF Init
  <1>2. \A e \in pairs : e[2] \in deps[e[1]]
    OBVIOUS
  <1> HIDE DEF deps
  <1>3. R \subseteq Names
    <2>1. pairs \subseteq Names \X Names
      OBVIOUS
    <2> HIDE DEF pairs
    <2> QED BY <2>1, ReachWithin, GraphAssumption
  <1> HIDE DEF pairs
  <1>4. Installed \subseteq R /\ \A e \in pairs : e[1] \in R => e[2] \in R
    BY ReachClosed
  <1> HIDE DEF R
  <1>5. /\ order \in Seq(R) /\ ids = 1 .. Len(order)
        /\ \A x \in R : \E k \in ids : order[k] = x
        /\ \A k, l \in ids : order[k] = order[l] => k = l
    <2>1. IsFiniteSet(R)
      BY <1>3, FS_Subset, GraphAssumption
    <2> QED BY <2>1, SetToSeqHasAll
  <1> HIDE DEF order
  <1>6. \A i \in ids : order[i] \in R
    BY <1>5
  <1> HIDE DEF ids
  <1>7. /\ DOMAIN rows = ids
        /\ \A i \in ids : rows[i].name = order[i] /\ rows[i].requested = (order[i] \in Installed)
    <2>1. \A n, r, p : /\ [NewRow(n, r) EXCEPT !.pending = p].name = n
                       /\ [NewRow(n, r) EXCEPT !.pending = p].requested = r
      BY DEF NewRow
    <2>2. ASSUME NEW i \in ids
          PROVE  rows[i].name = order[i] /\ rows[i].requested = (order[i] \in Installed)
      <3> DEFINE p == IF deps[order[i]] = {} THEN "Enqueued" ELSE "Waiting"
                 r == order[i] \in Installed
      <3>1. rows[i] = [NewRow(order[i], r) EXCEPT !.pending = p]
        BY <1>1
      <3> HIDE DEF p, r
      <3>2. rows[i].name = order[i] /\ rows[i].requested = r
        BY <2>1, <3>1
      <3> QED BY <3>2 DEF r
    <2> QED BY <1>1, <2>2
  <1>8. NamesUnique
    BY <1>5, <1>7 DEF NamesUnique
  <1>9. Spans(rows, DOMAIN edges, {})
    <2> DEFINE F == DOMAIN edges
               U == Reach(F, Asked(rows))
               T == {n \in R : \A k \in ids : order[k] = n => k \in U}
    <2>1. Asked(rows) \subseteq U /\ \A e \in F : e[1] \in U => e[2] \in U
      BY ReachClosed
    <2> HIDE DEF U
    <2>2. Installed \subseteq T
      BY <1>4, <1>7, <2>1 DEF Asked
    <2>3. \A e \in pairs : e[1] \in T => e[2] \in T
      <3> SUFFICES ASSUME NEW e \in pairs, e[1] \in T, NEW k \in ids, order[k] = e[2]
                   PROVE  k \in U
        BY <1>4
      <3>1. PICK j \in ids : order[j] = e[1]
        BY <1>5
      <3>2. <<j, k>> \in F /\ <<j, k>>[1] = j /\ <<j, k>>[2] = k
        BY <1>1, <1>2, <3>1
      <3> QED BY <2>1, <3>1, <3>2
    <2>4. R \subseteq T
      <3> HIDE DEF T
      <3> QED BY <2>2, <2>3, ReachLeast DEF R
    <2>5. DOMAIN rows \subseteq Reach(F, Asked(rows) \cup {})
      <3>1. DOMAIN rows \subseteq U
        BY <1>6, <1>7, <2>4
      <3>2. Asked(rows) \cup {} = Asked(rows)
        OBVIOUS
      <3> QED BY <3>1, <3>2 DEF U
    <2>6. \A e \in F : e[2] \in DOMAIN rows
      BY <1>1, <1>7
    <2> QED BY <2>5, <2>6, SpansWhen
  <1>10. \A t \in Tasks : ~Busy(t)
    BY <1>1 DEF Busy
  <1> QED BY <1>8, <1>9, <1>10 DEF CalmInv

LEMMA NextCalm ==
    ASSUME GraphInv, [Next]_vars
    PROVE  GraphInv'
  <1>1. TypeInv'
    BY NextTypes DEF GraphInv
  <1>2. ASSUME NEW t \in Tasks, Ask(t) PROVE CalmInv'
    BY <1>2, AddCalm, UpdateCalm, PackageRemoveCalm, DropCalm, ReplaceCalm DEF Ask
  <1>3. ASSUME NEW t \in Tasks, Advance(t) PROVE CalmInv'
    BY <1>3, SetRequestedCalm, PersistCalm, DecideInitialCalm, QueueInitialCalm, ResolveCalm,
       InsertCalm, LinkCalm, PrepareCalm, UpdateDependencyCalm, EnqueueCalm, RepointCalm,
       ResyncCalm, SettleCalm, LiveCheckCalm, DeleteCalm DEF Advance
  <1>4. NamesUnique' /\ CalmInv'
    BY <1>2, <1>3, AskNames, AdvanceNames, BuildsCalm, RestartCalm DEF Next
  <1> QED BY <1>1, <1>4 DEF GraphInv

(* For any packages, releases, patches and requests: as long as requests     *)
(* come one at a time and none is cut short, the packages tracked between    *)
(* them are those the requested ones need.  What live_check.rs collects is   *)
(* all that an update, an edit, a replaced or dropped dependency or a        *)
(* removal lets go, chains and cycles with it, and nothing else.             *)
THEOREM CollectedExactlyHolds == Spec => []CollectedExactly
  <1>1. Spec => []GraphInv
    BY InitGraph, NextCalm, PTL DEF Spec
  <1>2. GraphInv => CollectedExactly
    <2> SUFFICES ASSUME GraphInv, calm, Quiet PROVE DOMAIN rows = Reach(DOMAIN edges, Requested)
      BY DEF CollectedExactly
    <2>1. Asked(rows) \cup {} = Requested
      BY DEF Asked, Requested
    <2> QED BY <2>1 DEF GraphInv, CalmInv, Spans
  <1> QED BY <1>1, <1>2, PTL

=============================================================================
