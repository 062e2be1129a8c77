------------------------- MODULE BuildQueueProofs -------------------------
(***************************************************************************)
(* Proofs about the build queue, for any number of workers, packages,      *)
(* platforms and rows.                                                     *)
(***************************************************************************)
EXTENDS BuildQueue, WellFoundedInduction, TLAPS

----------------------------------------------------------------------------
(* The inductive invariant. *)

\* What is true of one row on its own.
RowOK(row) ==
    /\ row.status = "Absent" => row = NoRow
    /\ row.status # "Absent" => row.pkg \in Pkgs /\ row.platform \in Platforms
    /\ (row.lease # Null) <=> (row.status = "Active")
    /\ row.status = "Active" => row.worker \in Workers
    /\ row.status \in {"Enqueued", "WaitingForDeps"} => row.worker = Null
    /\ row.reason # Null => row.status = "Failed"

\* What is true of a builds table bs whose next id is n: ids are handed out
\* in order, and a package's build numbers never overtake them.
TableOK(bs, n) ==
    /\ bs \in [Ids -> Row]
    /\ n \in 1..(MaxBuilds + 1)
    /\ \A i \in Ids : /\ RowOK(bs[i])
                      /\ bs[i].number <= i
                      /\ i >= n => bs[i] = NoRow

Inv == TypeOK /\ TableOK(builds, nextId)

----------------------------------------------------------------------------
(* Least and greatest elements. *)

\* Every nonempty set of naturals has a least element.
LEMMA LeastNatural ==
  ASSUME NEW S, S \subseteq Nat, S # {}
  PROVE  \E n \in S : \A m \in S : n <= m
<1> DEFINE R == OpToRel(<, Nat)
<1>1. \A a, b \in Nat : a < b => <<a, b>> \in R
  BY DEF OpToRel
<1>2. IsWellFoundedOn(R, Nat)
  BY NatLessThanWellFounded, Zenon
<1> HIDE DEF R
<1>3. \E x \in S : \A y \in S : ~(<<y, x>> \in R)
  BY <1>2, WFMin, Zenon
<1>4. \E x \in S : \A y \in S : ~(y < x)
  BY <1>1, <1>3
<1> QED
  BY <1>4

\* Every nonempty bounded set of naturals has a greatest element, and Max
\* names it.
LEMMA MaxNatural ==
  ASSUME NEW S, S \subseteq Nat, S # {}, NEW b \in Nat, \A m \in S : m <= b
  PROVE  Max(S) \in S /\ \A m \in S : m <= Max(S)
<1> DEFINE Bounds == {n \in Nat : \A m \in S : m <= n}
<1>1. Bounds # {} /\ Bounds \subseteq Nat
  OBVIOUS
<1>2. PICK n \in Bounds : \A m \in Bounds : n <= m
  BY <1>1, LeastNatural
<1>3. n \in S
  <2>1. SUFFICES ASSUME n \notin S PROVE FALSE
    OBVIOUS
  <2>2. PICK s \in S : TRUE
    OBVIOUS
  <2>3. s < n
    BY <2>1
  <2>4. n - 1 \in Bounds
    BY <2>1, <2>3
  <2> QED
    BY <1>2, <2>4
<1>4. \A m \in S : n >= m
  BY <1>2
<1> QED
  BY <1>3, <1>4 DEF Max

\* A package's status computed from a nonempty set of build states is one.
LEMMA CombinedStatusType ==
  ASSUME NEW S, S \subseteq States, S # {}
  PROVE  CombinedStatus(S) \in States
<1> DEFINE K == {k \in 1..6 : Precedence[k] \in S}
<1>1. K # {} /\ K \subseteq Nat
  <2>1. PICK s \in S : s \in States
    OBVIOUS
  <2>2. \E k \in 1..6 : Precedence[k] = s
    <3>1. /\ Precedence[1] = "Active"   /\ Precedence[2] = "Publishing"
          /\ Precedence[3] = "Enqueued" /\ Precedence[4] = "WaitingForDeps"
          /\ Precedence[5] = "Failed"   /\ Precedence[6] = "Successful"
      BY DEF Precedence
    <3>2. 1 \in 1..6 /\ 2 \in 1..6 /\ 3 \in 1..6 /\ 4 \in 1..6 /\ 5 \in 1..6 /\ 6 \in 1..6
      OBVIOUS
    <3> QED
      BY <2>1, <3>1, <3>2, Zenon DEF States
  <2>3. K # {}
    BY <2>1, <2>2
  <2> QED
    BY <2>3
<1>2. \E n \in K : \A m \in K : n <= m
  BY <1>1, LeastNatural
<1>3. Min(K) \in K
  BY <1>2 DEF Min
<1> QED
  BY <1>3 DEF CombinedStatus

----------------------------------------------------------------------------
(* What the operations on the builds table preserve. *)

\* A new build's number is at most its id, and above the package's others.
LEMMA NextNumberBound ==
  ASSUME NEW bs, NEW n, TableOK(bs, n), NEW p
  PROVE  /\ NextNumber(bs, p) \in 1..n
         /\ \A i \in Ids : Exists(bs, i) /\ bs[i].pkg = p => bs[i].number < NextNumber(bs, p)
<1> DEFINE S == {0} \cup {bs[i].number : i \in {j \in Ids : Exists(bs, j) /\ bs[j].pkg = p}}
<1>1. n \in Nat /\ n >= 1
  BY ConstantsAssumption DEF TableOK
<1>2. \A m \in S : m \in Nat /\ m <= n - 1
  <2>1. SUFFICES ASSUME NEW i \in Ids, Exists(bs, i)
                 PROVE  bs[i].number \in Nat /\ bs[i].number <= n - 1
    BY <1>1
  <2>2. bs[i] \in Row /\ bs[i].number <= i /\ i \in Nat
    BY DEF TableOK, Ids
  <2>3. i < n
    BY <2>1, <1>1 DEF TableOK, Exists, NoRow, Ids
  <2> QED
    BY <1>1, <2>2, <2>3 DEF Row
<1>3. Max(S) \in S /\ \A m \in S : m <= Max(S)
  BY <1>1, <1>2, MaxNatural, n - 1 \in Nat
<1>4. NextNumber(bs, p) = Max(S) + 1
  BY DEF NextNumber
<1>5. \A i \in Ids : Exists(bs, i) /\ bs[i].pkg = p => bs[i].number \in S
  OBVIOUS
<1> HIDE DEF S
<1> QED
  BY <1>1, <1>2, <1>3, <1>4, <1>5

\* The states refresh_package_status reads are states of rows.
LEMMA NewestStatesType ==
  ASSUME NEW bs \in [Ids -> Row], NEW p
  PROVE  NewestStates(bs, p) \subseteq States
BY DEF NewestStates, Newest, RowsOf, Exists, Row

LEMMA RefreshType ==
  ASSUME pkgStatus \in [Pkgs -> States], builds' \in [Ids -> Row], NEW p,
         RefreshPackageStatus(p)
  PROVE  pkgStatus' \in [Pkgs -> States]
<1>1. NewestStates(builds', p) \subseteq States
  BY NewestStatesType
<1>2. CASE NewestStates(builds', p) = {}
  BY <1>2 DEF RefreshPackageStatus
<1>3. CASE NewestStates(builds', p) # {}
  BY <1>1, <1>3, CombinedStatusType DEF RefreshPackageStatus
<1> QED
  BY <1>2, <1>3

\* Writing a well-formed row over an existing one.
LEMMA PutRow ==
  ASSUME NEW bs, NEW n, TableOK(bs, n), NEW i \in Ids, i < n,
         NEW row \in Row, RowOK(row), row.number <= i,
         NEW new, new = [bs EXCEPT ![i] = row]
  PROVE  TableOK(new, n)
<1>1. bs \in [Ids -> Row] /\ i \in Int /\ n \in Int /\ n \in 1..(MaxBuilds + 1)
  BY ConstantsAssumption DEF TableOK, Ids
<1>2. new \in [Ids -> Row]
  BY <1>1
<1>3. \A j \in Ids : /\ RowOK(new[j])
                     /\ new[j].number <= j
                     /\ j >= n => new[j] = NoRow
  <2>1. SUFFICES ASSUME NEW j \in Ids
                 PROVE  RowOK(new[j]) /\ new[j].number <= j /\ (j >= n => new[j] = NoRow)
    OBVIOUS
  <2>2. CASE j = i
    BY <1>1, <2>2
  <2>3. CASE j # i
    BY <1>1, <2>3 DEF TableOK
  <2> QED
    BY <2>2, <2>3
<1> QED
  BY <1>1, <1>2, <1>3 DEF TableOK

\* Failing a row is writing it over.
LEMMA FailedTable ==
  ASSUME NEW bs, NEW n, TableOK(bs, n), NEW i \in Ids, bs[i].status = "Active",
         NEW reason \in EndReasons
  PROVE  TableOK(Failed(bs, i, reason), n)
<1> DEFINE row == [bs[i] EXCEPT !.status = "Failed", !.lease = Null, !.reason = reason]
<1>1. bs \in [Ids -> Row] /\ bs[i] \in Row /\ RowOK(bs[i]) /\ bs[i].number <= i
  BY DEF TableOK
<1>2. i < n
  BY ConstantsAssumption DEF TableOK, NoRow, Ids
<1>3. row \in Row
  BY <1>1 DEF Row, States
<1>4. RowOK(row)
  BY <1>1 DEF RowOK, Row
<1>5. row.number <= i
  BY <1>1 DEF Row
<1>6. Failed(bs, i, reason) = [bs EXCEPT ![i] = row]
  BY <1>1 DEF Failed, Row
<1> HIDE DEF row
<1> QED
  BY <1>2, <1>3, <1>4, <1>5, <1>6, PutRow

\* Inserting a row, or finding one pending.
LEMMA EnqueueTable ==
  ASSUME NEW bs, TableOK(bs, nextId), now \in Nat,
         NEW p \in Pkgs, NEW pl \in Platforms,
         NEW state \in {"Enqueued", "WaitingForDeps"}, NEW trigger \in Triggers,
         EnqueueBuildIfMissing(bs, p, pl, state, trigger)
  PROVE  TableOK(builds', nextId')
<1>1. CASE Pending(bs, p, pl)
  BY <1>1 DEF EnqueueBuildIfMissing
<1>2. CASE ~Pending(bs, p, pl)
  <2> DEFINE row == [status |-> state, pkg |-> p, platform |-> pl,
                     number |-> NextNumber(bs, p), trigger |-> trigger,
                     worker |-> Null, lease |-> Null, start |-> now, reason |-> Null]
  <2>1. /\ nextId \in Ids
        /\ builds' = [bs EXCEPT ![nextId] = row]
        /\ nextId' = nextId + 1
    BY <1>2 DEF EnqueueBuildIfMissing
  <2>2. nextId \in Nat /\ nextId' \in 1..(MaxBuilds + 1) /\ nextId < nextId'
    BY <2>1, ConstantsAssumption DEF Ids
  <2>3. NextNumber(bs, p) \in Nat /\ NextNumber(bs, p) <= nextId
    BY <2>2, NextNumberBound
  <2>4. row \in Row /\ row.number <= nextId
    BY <2>3 DEF Row, States
  <2>5. RowOK(row)
    BY NullAssumption DEF RowOK
  <2>6. TableOK(bs, nextId')
    BY <2>2, ConstantsAssumption DEF TableOK, Ids
  <2> HIDE DEF row
  <2> QED
    BY <2>1, <2>2, <2>4, <2>5, <2>6, PutRow
<1> QED
  BY <1>1, <1>2

\* Abandoning a build: failing its row and perhaps queueing a retry.
LEMMA AbandonTable ==
  ASSUME Inv, NEW o \in Observation, NEW reason \in EndReasons, AbandonBuild(o, reason)
  PROVE  TableOK(builds', nextId') /\ pkgStatus' \in [Pkgs -> States]
<1>1. CASE ~StillHeld(o)
  BY <1>1 DEF AbandonBuild, rows, Inv, TypeOK
<1>2. CASE StillHeld(o)
  <2> DEFINE p == builds[o.id].pkg
             pl == builds[o.id].platform
             failed == Failed(builds, o.id, reason)
  <2>1. o.id \in Ids /\ builds[o.id].status = "Active" /\ now \in Nat
    BY <1>2 DEF StillHeld, Observation, Inv, TypeOK, Time
  <2>2. p \in Pkgs /\ pl \in Platforms
    BY <2>1 DEF Inv, TableOK, RowOK
  <2>3. TableOK(failed, nextId)
    BY <2>1, FailedTable DEF Inv
  <2>4. \/ EnqueueBuildIfMissing(failed, p, pl, "Enqueued", "TimeoutRetry")
        \/ builds' = failed /\ nextId' = nextId
    BY <1>2 DEF AbandonBuild
  <2>5. RefreshPackageStatus(p)
    BY <1>2 DEF AbandonBuild
  <2> HIDE DEF failed, p, pl
  <2>6. TableOK(builds', nextId')
    <3>1. CASE builds' = failed /\ nextId' = nextId
      BY <2>3, <3>1
    <3>2. CASE EnqueueBuildIfMissing(failed, p, pl, "Enqueued", "TimeoutRetry")
      BY <2>1, <2>2, <2>3, <3>2, EnqueueTable DEF Triggers
    <3> QED
      BY <2>4, <3>1, <3>2
  <2>7. pkgStatus' \in [Pkgs -> States]
    BY <2>5, <2>6, RefreshType DEF TableOK, Inv, TypeOK
  <2> QED
    BY <2>6, <2>7
<1> QED
  BY <1>1, <1>2

\* Moving a row by transition().
LEMMA TransitionTable ==
  ASSUME Inv, NEW i \in Ids, NEW from, "Absent" \notin from, NEW new \in Row,
         RowOK(new), new.number <= i, Transition(i, from, new)
  PROVE  TableOK(builds', nextId') /\ pkgStatus' \in [Pkgs -> States]
<1>1. /\ builds[i].status \in from
      /\ builds' = [builds EXCEPT ![i] = new]
      /\ nextId' = nextId
      /\ RefreshPackageStatus(builds[i].pkg)
  BY DEF Transition
<1>2. TableOK(builds, nextId)
  BY DEF Inv
<1>3. i < nextId
  BY <1>1, <1>2, ConstantsAssumption DEF TableOK, NoRow, Ids
<1>4. TableOK(builds', nextId')
  BY <1>1, <1>2, <1>3, PutRow
<1>5. builds' \in [Ids -> Row]
  BY <1>4 DEF TableOK
<1> QED
  BY <1>1, <1>4, <1>5, RefreshType DEF Inv, TypeOK

----------------------------------------------------------------------------
(* The invariant is inductive. *)

\* An action that leaves the rest of the state alone, or changes it within
\* its types, preserves Inv once it keeps the rows in order.
LEMMA RowsSuffice ==
  ASSUME TypeOK, TableOK(builds', nextId'), pkgStatus' \in [Pkgs -> States],
         UNCHANGED <<now, restarts, fleet, handlers>>
  PROVE  Inv'
BY DEF Inv, TypeOK, TableOK, fleet, handlers, operators

LEMMA InitInv == Init => Inv
<1> SUFFICES ASSUME Init PROVE Inv
  OBVIOUS
<1>1. NoRow \in Row /\ RowOK(NoRow)
  BY DEF NoRow, Row, RowOK
<1>2. builds \in [Ids -> Row] /\ nextId \in 1..(MaxBuilds + 1)
  BY <1>1, ConstantsAssumption DEF Init
<1>3. TableOK(builds, nextId)
  <2>1. \A i \in Ids : builds[i] = NoRow /\ NoRow.number <= i
    BY DEF Init, NoRow, Ids
  <2> QED
    BY <1>1, <1>2, <2>1 DEF TableOK
<1>4. IdleRevocation \in Revocation
  BY DEF IdleRevocation, Revocation
<1>5. TypeOK
  BY <1>2, <1>4, ConstantsAssumption DEF Init, TypeOK, Time, States
<1> QED
  BY <1>3, <1>5 DEF Inv

LEMMA EnqueueInv ==
  ASSUME Inv, NEW p \in Pkgs, NEW pl \in Platforms,
         NEW state \in {"Enqueued", "WaitingForDeps"}, NEW trigger \in Requesters,
         Enqueue(p, pl, state, trigger)
  PROVE  Inv'
<1>1. now \in Nat /\ trigger \in Triggers
  BY ConstantsAssumption DEF Inv, TypeOK, Time, Triggers
<1>2. TableOK(builds', nextId')
  BY <1>1, EnqueueTable DEF Enqueue, Inv
<1>3. pkgStatus' \in [Pkgs -> States]
  BY <1>2, RefreshType DEF Enqueue, TableOK, Inv, TypeOK
<1> QED
  BY <1>2, <1>3, RowsSuffice DEF Enqueue, Inv

\* Each action that is one transition() of a row.
LEMMA PromoteInv ==
  ASSUME Inv, NEW p \in Pkgs, NEW pl \in Platforms, PromoteWaitingBuild(p, pl)
  PROVE  Inv'
<1>1. PICK i \in Ids :
        Transition(i, {"WaitingForDeps"}, [builds[i] EXCEPT !.status = "Enqueued"])
  BY DEF PromoteWaitingBuild, RowsOf
<1> DEFINE new == [builds[i] EXCEPT !.status = "Enqueued"]
<1>2. /\ builds[i] \in Row /\ RowOK(builds[i]) /\ builds[i].number <= i
      /\ builds[i].status = "WaitingForDeps"
  BY <1>1 DEF Transition, Inv, TableOK
<1>3. new \in Row /\ RowOK(new) /\ new.number <= i
  BY <1>2 DEF Row, RowOK, States
<1> HIDE DEF new
<1>4. TableOK(builds', nextId') /\ pkgStatus' \in [Pkgs -> States]
  BY <1>1, <1>3, TransitionTable DEF new
<1> QED
  BY <1>4, RowsSuffice DEF PromoteWaitingBuild, Inv

LEMMA DemoteInv ==
  ASSUME Inv, NEW p \in Pkgs, NEW pl \in Platforms, DemoteEnqueuedBuild(p, pl)
  PROVE  Inv'
<1>1. PICK i \in Ids :
        Transition(i, {"Enqueued"}, [builds[i] EXCEPT !.status = "WaitingForDeps"])
  BY DEF DemoteEnqueuedBuild, RowsOf
<1> DEFINE new == [builds[i] EXCEPT !.status = "WaitingForDeps"]
<1>2. /\ builds[i] \in Row /\ RowOK(builds[i]) /\ builds[i].number <= i
      /\ builds[i].status = "Enqueued"
  BY <1>1 DEF Transition, Inv, TableOK
<1>3. new \in Row /\ RowOK(new) /\ new.number <= i
  BY <1>2 DEF Row, RowOK, States
<1> HIDE DEF new
<1>4. TableOK(builds', nextId') /\ pkgStatus' \in [Pkgs -> States]
  BY <1>1, <1>3, TransitionTable DEF new
<1> QED
  BY <1>4, RowsSuffice DEF DemoteEnqueuedBuild, Inv

LEMMA PublishSettleInv ==
  ASSUME Inv, NEW i \in Ids, PublishSettle(i)
  PROVE  Inv'
<1> DEFINE new == [builds[i] EXCEPT !.status = "Successful"]
<1>1. Transition(i, {"Publishing"}, new)
  BY DEF PublishSettle
<1>2. /\ builds[i] \in Row /\ RowOK(builds[i]) /\ builds[i].number <= i
      /\ builds[i].status = "Publishing"
  BY <1>1 DEF Transition, Inv, TableOK
<1>3. new \in Row /\ RowOK(new) /\ new.number <= i
  BY <1>2 DEF Row, RowOK, States
<1> HIDE DEF new
<1>4. TableOK(builds', nextId') /\ pkgStatus' \in [Pkgs -> States]
  BY <1>1, <1>3, TransitionTable
<1> QED
  BY <1>4, RowsSuffice DEF PublishSettle, Inv

LEMMA PublishFailInv ==
  ASSUME Inv, NEW i \in Ids, PublishFail(i)
  PROVE  Inv'
<1> DEFINE new == [builds[i] EXCEPT !.status = "Failed"]
<1>1. Transition(i, {"Publishing"}, new)
  BY DEF PublishFail
<1>2. /\ builds[i] \in Row /\ RowOK(builds[i]) /\ builds[i].number <= i
      /\ builds[i].status = "Publishing"
  BY <1>1 DEF Transition, Inv, TableOK
<1>3. new \in Row /\ RowOK(new) /\ new.number <= i
  BY <1>2 DEF Row, RowOK, States
<1> HIDE DEF new
<1>4. TableOK(builds', nextId') /\ pkgStatus' \in [Pkgs -> States]
  BY <1>1, <1>3, TransitionTable
<1> QED
  BY <1>4, RowsSuffice DEF PublishFail, Inv

LEMMA CancelInv ==
  ASSUME Inv, NEW i \in Ids, CancelBuild(i)
  PROVE  Inv'
<1> DEFINE new == [builds[i] EXCEPT !.status = "Failed", !.reason = "Canceled", !.lease = Null]
<1>1. Transition(i, {"Active", "Enqueued", "WaitingForDeps"}, new)
  BY DEF CancelBuild
<1>2. /\ builds[i] \in Row /\ RowOK(builds[i]) /\ builds[i].number <= i
      /\ builds[i].status \in {"Active", "Enqueued", "WaitingForDeps"}
  BY <1>1 DEF Transition, Inv, TableOK
<1>3. new \in Row /\ RowOK(new) /\ new.number <= i
  BY <1>2 DEF Row, RowOK, States, EndReasons
<1> HIDE DEF new
<1>4. TableOK(builds', nextId') /\ pkgStatus' \in [Pkgs -> States]
  BY <1>1, <1>3, TransitionTable
<1> QED
  BY <1>4, RowsSuffice DEF CancelBuild, Inv

\* Every request refreshes its worker's last_seen.
LEMMA TouchType ==
  ASSUME TypeOK, NEW w \in Workers, TouchLastSeen(w)
  PROVE  lastSeen' \in [Workers -> Time]
BY DEF TypeOK, TouchLastSeen

LEMMA ClaimJobInv ==
  ASSUME Inv, NEW w \in Workers, ClaimJob(w)
  PROVE  Inv'
<1>1. PICK i \in Ids :
        Transition(i, {"Enqueued"},
            [builds[i] EXCEPT !.status = "Active", !.worker = w,
                              !.lease = now + LeaseTtl, !.start = now])
  BY DEF ClaimJob, Offered
<1> DEFINE new == [builds[i] EXCEPT !.status = "Active", !.worker = w,
                                    !.lease = now + LeaseTtl, !.start = now]
<1>2. /\ builds[i] \in Row /\ RowOK(builds[i]) /\ builds[i].number <= i
      /\ builds[i].status = "Enqueued"
  BY <1>1 DEF Transition, Inv, TableOK
<1>3. now \in Nat /\ now + LeaseTtl \in Nat
  BY ConstantsAssumption DEF Inv, TypeOK, Time
<1>4. new \in Row /\ RowOK(new) /\ new.number <= i
  <2>1. now + LeaseTtl # Null
    BY <1>3, NullAssumption
  <2>2. new \in Row
    BY <1>2, <1>3 DEF Row, States
  <2> QED
    BY <1>2, <2>1, <2>2 DEF Row, RowOK
<1> HIDE DEF new
<1>5. TableOK(builds', nextId') /\ pkgStatus' \in [Pkgs -> States]
  BY <1>1, <1>4, TransitionTable DEF new
<1>6. lastSeen' \in [Workers -> Time]
  BY TouchType DEF ClaimJob, Inv
<1> QED
  BY <1>5, <1>6 DEF ClaimJob, Inv, TypeOK, TableOK, handlers, operators

LEMMA ClaimNothingInv ==
  ASSUME Inv, NEW w \in Workers, ClaimNothing(w)
  PROVE  Inv'
<1>1. lastSeen' \in [Workers -> Time]
  BY TouchType DEF ClaimNothing, Inv
<1> QED
  BY <1>1 DEF ClaimNothing, Inv, TypeOK, TableOK, rows, handlers, operators

\* What a handler remembers of a row is an observation of it.
LEMMA ObserveType ==
  ASSUME builds \in [Ids -> Row], NEW i \in Ids
  PROVE  Observe(i) \in Observation
BY DEF Observe, Observation, Row

LEMMA HeartbeatBeginInv ==
  ASSUME Inv, NEW w \in Workers, NEW reported, HeartbeatBegin(w, reported)
  PROVE  Inv'
<1> DEFINE late == {j \in Owned(w) \ reported : builds[j].start <= now - LeaseTtl}
           beat == [at |-> now, renew |-> Owned(w) \cap reported,
                    drop |-> {Observe(i) : i \in late}]
<1>1. Owned(w) \subseteq Ids
  BY DEF Owned
<1>2. {Observe(i) : i \in late} \subseteq Observation
  BY <1>1, ObserveType DEF Inv, TypeOK
<1>3. beat \in Beat
  BY <1>1, <1>2 DEF Beat, Inv, TypeOK
<1>4. beating' = [beating EXCEPT ![w] = beat]
  BY DEF HeartbeatBegin
<1> HIDE DEF beat
<1>5. beating' \in [Workers -> Beat \cup {Null}]
  BY <1>3, <1>4 DEF Inv, TypeOK
<1>6. lastSeen' \in [Workers -> Time]
  BY TouchType DEF HeartbeatBegin, Inv
<1> QED
  BY <1>5, <1>6 DEF HeartbeatBegin, Inv, TypeOK, TableOK, rows, operators

LEMMA HeartbeatDropInv ==
  ASSUME Inv, NEW w \in Workers, HeartbeatDrop(w)
  PROVE  Inv'
<1>1. PICK o \in beating[w].drop :
        AbandonBuild(o, "Dropped") /\ beating' = [beating EXCEPT ![w].drop = @ \ {o}]
  BY DEF HeartbeatDrop
<1>2. beating[w] \in Beat
  BY DEF HeartbeatDrop, Inv, TypeOK
<1>3. o \in Observation /\ "Dropped" \in EndReasons
  BY <1>1, <1>2 DEF Beat, EndReasons
<1>4. TableOK(builds', nextId') /\ pkgStatus' \in [Pkgs -> States]
  BY <1>1, <1>3, AbandonTable
<1>5. beating' \in [Workers -> Beat \cup {Null}]
  <2>1. [beating[w] EXCEPT !.drop = @ \ {o}] \in Beat
    BY <1>2 DEF Beat
  <2>2. beating' = [beating EXCEPT ![w] = [beating[w] EXCEPT !.drop = @ \ {o}]]
    BY <1>1, <1>2 DEF Beat, Inv, TypeOK
  <2> QED
    BY <2>1, <2>2 DEF Inv, TypeOK
<1> QED
  BY <1>4, <1>5 DEF HeartbeatDrop, Inv, TypeOK, TableOK, fleet, operators

\* Renewing a lease touches nothing but the lease of rows that are ACTIVE.
LEMMA HeartbeatRenewInv ==
  ASSUME Inv, NEW w \in Workers, HeartbeatRenew(w)
  PROVE  Inv'
<1> DEFINE lease == beating[w].at + LeaseTtl
<1>1. beating[w] \in Beat
  BY DEF HeartbeatRenew, Inv, TypeOK
<1>2. lease \in Nat /\ lease # Null
  BY <1>1, ConstantsAssumption, NullAssumption DEF Beat, Time
<1>3. builds' = [i \in Ids |-> IF i \in beating[w].renew /\ i \in Owned(w)
                               THEN [builds[i] EXCEPT !.lease = lease] ELSE builds[i]]
  BY DEF HeartbeatRenew
<1> HIDE DEF lease
<1>4. \A i \in Ids : /\ builds[i] \in Row /\ RowOK(builds[i]) /\ builds[i].number <= i
                     /\ i >= nextId => builds[i] = NoRow
  BY DEF Inv, TableOK
<1>5. \A i \in Ids : /\ builds'[i] \in Row /\ RowOK(builds'[i]) /\ builds'[i].number <= i
                     /\ i >= nextId => builds'[i] = NoRow
  <2>1. SUFFICES ASSUME NEW i \in Ids
                 PROVE  /\ builds'[i] \in Row /\ RowOK(builds'[i]) /\ builds'[i].number <= i
                        /\ i >= nextId => builds'[i] = NoRow
    OBVIOUS
  <2>2. CASE i \in beating[w].renew /\ i \in Owned(w)
    <3>1. builds'[i] = [builds[i] EXCEPT !.lease = lease] /\ builds[i].status = "Active"
      BY <1>3, <2>2 DEF Owned
    <3>2. builds'[i] \in Row
      BY <1>2, <1>4, <3>1 DEF Row
    <3>3. RowOK(builds'[i]) /\ builds'[i].number <= i
      BY <1>2, <1>4, <3>1 DEF Row, RowOK
    <3>4. ~(i >= nextId)
      BY <1>4, <3>1 DEF NoRow
    <3> QED
      BY <3>2, <3>3, <3>4
  <2>3. CASE ~(i \in beating[w].renew /\ i \in Owned(w))
    BY <1>3, <1>4, <2>3
  <2> QED
    BY <2>2, <2>3
<1>6. builds' \in [Ids -> Row]
  BY <1>3, <1>5
<1>7. nextId' = nextId /\ TableOK(builds', nextId')
  BY <1>5, <1>6 DEF HeartbeatRenew, TableOK, Inv
<1>8. beating' \in [Workers -> Beat \cup {Null}]
  BY DEF HeartbeatRenew, Inv, TypeOK
<1> QED
  BY <1>7, <1>8 DEF HeartbeatRenew, Inv, TypeOK, TableOK, fleet, operators

LEMMA CompleteBeginInv ==
  ASSUME Inv, NEW w \in Workers, NEW i \in Ids, NEW outcome \in Outcomes,
         CompleteBegin(w, i, outcome)
  PROVE  Inv'
<1>1. [seen |-> Observe(i), outcome |-> outcome] \in Report
  BY ObserveType DEF Report, Inv, TypeOK
<1>2. completing' \subseteq Report
  BY <1>1 DEF CompleteBegin, Inv, TypeOK
<1>3. lastSeen' \in [Workers -> Time]
  BY TouchType DEF CompleteBegin, Inv
<1> QED
  BY <1>2, <1>3 DEF CompleteBegin, Inv, TypeOK, TableOK, rows, operators

LEMMA ReleaseTable ==
  ASSUME Inv, NEW o \in Observation, NEW state \in {"Publishing", "Failed"},
         Release(o, state)
  PROVE  TableOK(builds', nextId') /\ pkgStatus' \in [Pkgs -> States]
<1>1. CASE o.id \notin Owned(o.worker)
  BY <1>1 DEF Release, rows, Inv, TypeOK
<1>2. CASE o.id \in Owned(o.worker)
  <2> DEFINE new == [builds[o.id] EXCEPT !.status = state, !.lease = Null]
  <2>1. o.id \in Ids /\ Transition(o.id, {"Active"}, new)
    BY <1>2 DEF Release, Observation
  <2>2. /\ builds[o.id] \in Row /\ RowOK(builds[o.id]) /\ builds[o.id].number <= o.id
        /\ builds[o.id].status = "Active"
    BY <2>1 DEF Transition, Inv, TableOK
  <2>3. new \in Row /\ RowOK(new) /\ new.number <= o.id
    BY <2>2 DEF Row, RowOK, States
  <2> HIDE DEF new
  <2> QED
    BY <2>1, <2>3, TransitionTable
<1> QED
  BY <1>1, <1>2

LEMMA CompleteCommitInv ==
  ASSUME Inv, NEW r \in completing, CompleteCommit(r)
  PROVE  Inv'
<1>1. r \in Report
  BY DEF Inv, TypeOK
<1>2. r.seen \in Observation /\ "Interrupted" \in EndReasons
  BY <1>1 DEF Report, EndReasons
<1>3. TableOK(builds', nextId') /\ pkgStatus' \in [Pkgs -> States]
  <2>1. CASE Release(r.seen, "Publishing")
    BY <1>2, <2>1, ReleaseTable
  <2>2. CASE Release(r.seen, "Failed")
    BY <1>2, <2>2, ReleaseTable
  <2>3. CASE AbandonBuild(r.seen, "Interrupted")
    BY <1>2, <2>3, AbandonTable
  <2> QED
    BY <2>1, <2>2, <2>3 DEF CompleteCommit
<1> QED
  BY <1>3 DEF CompleteCommit, Inv, TypeOK, TableOK, fleet, operators

LEMMA ReapSelectInv ==
  ASSUME Inv, ReapSelect
  PROVE  Inv'
<1>1. reaping' \subseteq Reap
  BY ObserveType DEF ReapSelect, Reap, EndReasons, Inv, TypeOK
<1> QED
  BY <1>1 DEF ReapSelect, Inv, TypeOK, TableOK, rows, fleet, operators

LEMMA ReapOneInv ==
  ASSUME Inv, ReapOne
  PROVE  Inv'
<1>1. PICK r \in reaping : AbandonBuild(r.seen, r.reason) /\ reaping' = reaping \ {r}
  BY DEF ReapOne
<1>2. r.seen \in Observation /\ r.reason \in EndReasons
  BY DEF Inv, TypeOK, Reap
<1>3. TableOK(builds', nextId') /\ pkgStatus' \in [Pkgs -> States]
  BY <1>1, <1>2, AbandonTable
<1>4. reaping' \subseteq Reap
  BY <1>1 DEF Inv, TypeOK
<1> QED
  BY <1>3, <1>4 DEF ReapOne, Inv, TypeOK, TableOK, fleet, operators

LEMMA DeleteBuildInv ==
  ASSUME Inv, NEW i \in Ids, DeleteBuild(i)
  PROVE  Inv'
<1>1. NoRow \in Row /\ RowOK(NoRow) /\ NoRow.number <= i
  BY DEF NoRow, Row, RowOK, Ids
<1>2. TableOK(builds', nextId')
  <2>1. builds' = [builds EXCEPT ![i] = NoRow] /\ nextId' = nextId
    BY DEF DeleteBuild
  <2>2. CASE i < nextId
    BY <1>1, <2>1, <2>2, PutRow DEF Inv
  <2>3. CASE ~(i < nextId)
    <3>1. builds[i] = NoRow
      BY <2>3, ConstantsAssumption DEF Inv, TableOK, Ids
    <3>2. builds' = builds
      BY <2>1, <3>1 DEF Inv, TableOK
    <3> QED
      BY <2>1, <3>2 DEF Inv
  <2> QED
    BY <2>2, <2>3
<1>3. pkgStatus' \in [Pkgs -> States]
  BY <1>2, RefreshType DEF DeleteBuild, TableOK, Inv, TypeOK
<1> QED
  BY <1>2, <1>3 DEF DeleteBuild, Inv, TypeOK, TableOK, fleet

\* The requests that touch no row, and the environment.
LEMMA OperatorInv ==
  ASSUME Inv,
         \/ \E i \in Ids : DeleteCheck(i)
         \/ \E w \in Workers : ApproveWorker(w)
         \/ \E w \in Workers, value \in BOOLEAN : PauseCheck(w, value)
         \/ \E r \in pausing : SetPaused(r)
  PROVE  Inv'
<1>1. CASE \E i \in Ids : DeleteCheck(i)
  BY <1>1 DEF DeleteCheck, Inv, TypeOK, TableOK, rows, fleet
<1>2. CASE \E w \in Workers : ApproveWorker(w)
  BY <1>2 DEF ApproveWorker, Inv, TypeOK, TableOK, rows, handlers, operators
<1>3. CASE \E w \in Workers, value \in BOOLEAN : PauseCheck(w, value)
  BY <1>3 DEF PauseCheck, Inv, TypeOK, TableOK, rows, fleet
<1>4. CASE \E r \in pausing : SetPaused(r)
  <2>1. PICK r \in pausing : SetPaused(r)
    BY <1>4
  <2>2. r.worker \in Workers /\ r.value \in BOOLEAN
    BY DEF Inv, TypeOK
  <2>3. paused' \in [Workers -> BOOLEAN]
    BY <2>1, <2>2, Zenon DEF SetPaused, Inv, TypeOK
  <2> QED
    BY <2>1, <2>3 DEF SetPaused, Inv, TypeOK, TableOK, rows
<1> QED
  BY <1>1, <1>2, <1>3, <1>4

LEMMA RevokeMarkInv ==
  ASSUME Inv, NEW w \in Workers, RevokeMark(w)
  PROVE  Inv'
<1>1. revoking' \in [Workers -> Revocation]
  BY DEF RevokeMark, Revocation, Inv, TypeOK
<1>2. approval' \in [Workers -> {"Approved", "Revoked"}]
  BY DEF RevokeMark, Inv, TypeOK
<1>3. paused' \in [Workers -> BOOLEAN]
  BY DEF RevokeMark, Inv, TypeOK
<1> QED
  BY <1>1, <1>2, <1>3 DEF RevokeMark, Inv, TypeOK, TableOK, rows

LEMMA RevokeReadInv ==
  ASSUME Inv, NEW w \in Workers, RevokeRead(w)
  PROVE  Inv'
<1>1. {Observe(i) : i \in Owned(w)} \subseteq Observation
  BY ObserveType DEF Owned, Inv, TypeOK
<1>2. revoking' \in [Workers -> Revocation]
  BY <1>1 DEF RevokeRead, Revocation, IdleRevocation, Inv, TypeOK
<1> QED
  BY <1>2 DEF RevokeRead, Inv, TypeOK, TableOK, rows, fleet

LEMMA RevokeOneInv ==
  ASSUME Inv, NEW w \in Workers, RevokeOne(w)
  PROVE  Inv'
<1>1. PICK o \in revoking[w].left :
        /\ AbandonBuild(o, "WorkerRevoked")
        /\ revoking' = [revoking EXCEPT ![w] =
               IF revoking[w].left = {o} THEN IdleRevocation
               ELSE [stage |-> "Taking", left |-> revoking[w].left \ {o}]]
  BY DEF RevokeOne
<1>2. revoking[w].left \subseteq Observation /\ "WorkerRevoked" \in EndReasons
  BY DEF Revocation, EndReasons, Inv, TypeOK
<1>3. TableOK(builds', nextId') /\ pkgStatus' \in [Pkgs -> States]
  BY <1>1, <1>2, AbandonTable
<1>4. revoking' \in [Workers -> Revocation]
  BY <1>1, <1>2 DEF Revocation, IdleRevocation, Inv, TypeOK
<1> QED
  BY <1>3, <1>4 DEF RevokeOne, Inv, TypeOK, TableOK, fleet

LEMMA EnvironmentInv ==
  ASSUME Inv, Restart \/ Tick
  PROVE  Inv'
<1>1. CASE Restart
  BY <1>1 DEF Restart, Revocation, IdleRevocation, Inv, TypeOK, TableOK, rows, fleet
<1>2. CASE Tick
  BY <1>2, ConstantsAssumption
     DEF Tick, Time, Inv, TypeOK, TableOK, rows, fleet, handlers, operators
<1> QED
  BY <1>1, <1>2

LEMMA NextInv == Inv /\ [Next]_vars => Inv'
<1> SUFFICES ASSUME Inv, [Next]_vars PROVE Inv'
  OBVIOUS
<1>1. CASE \E w \in Workers : WorkerStep(w)
  <2>1. PICK w \in Workers : WorkerStep(w)
    BY <1>1
  <2> QED
    BY <2>1, ClaimJobInv, ClaimNothingInv, HeartbeatBeginInv, HeartbeatDropInv,
       HeartbeatRenewInv, CompleteBeginInv, Zenon DEF WorkerStep
<1>2. CASE QueueStep
  BY <1>2, EnqueueInv, PromoteInv, DemoteInv, CompleteCommitInv, PublishSettleInv,
     PublishFailInv, ReapSelectInv, ReapOneInv, Zenon DEF QueueStep
<1>3. CASE OperatorStep
  BY <1>3, CancelInv, DeleteBuildInv, OperatorInv, RevokeMarkInv, RevokeReadInv,
     RevokeOneInv, Zenon DEF OperatorStep
<1>4. CASE Restart \/ Tick
  BY <1>4, EnvironmentInv
<1>5. CASE UNCHANGED vars
  BY <1>5 DEF vars, rows, fleet, handlers, operators, Inv, TypeOK, TableOK
<1> QED
  BY <1>1, <1>2, <1>3, <1>4, <1>5 DEF Next

THEOREM InvHolds == Spec => []Inv
BY InitInv, NextInv, PTL DEF Spec

\* Every table cell and every handler's memory keeps its kind, whatever the
\* handlers interleave.
THEOREM TypesHold == Spec => []TypeOK
<1>1. Inv => TypeOK
  BY DEF Inv
<1> QED
  BY <1>1, InvHolds, PTL

\* A lease is on a row exactly while it is ACTIVE, and an ACTIVE row names
\* its worker.
THEOREM LeasesHold == Spec => []LeaseExactlyWhileActive
<1>1. Inv => LeaseExactlyWhileActive
  BY NullAssumption DEF Inv, TableOK, RowOK, LeaseExactlyWhileActive
<1> QED
  BY <1>1, InvHolds, PTL

----------------------------------------------------------------------------
(* The queue implements BuildLifecycle. *)

AbstractStep == Lifecycle!Next \/ Attempts' = Attempts

\* A row written over an existing one, for the same package and platform, is
\* one attempt changed.
LEMMA MovedAttempt ==
  ASSUME Inv, Inv', NEW i \in Ids, Exists(builds, i), NEW new, new.status # "Absent",
         new.pkg = builds[i].pkg, new.platform = builds[i].platform,
         builds' = [builds EXCEPT ![i] = new], nextId' = nextId
  PROVE  /\ Attempts[i] = [status |-> builds[i].status,
                           subject |-> <<builds[i].pkg, builds[i].platform>>,
                           worker |-> builds[i].worker]
         /\ Attempts' = [Attempts EXCEPT ![i] =
               [status |-> new.status, subject |-> Attempts[i].subject,
                worker |-> new.worker]]
<1>1. builds \in [Ids -> Row]
  BY DEF Inv, TypeOK
<1>2. Attempts[i] = [status |-> builds[i].status,
                     subject |-> <<builds[i].pkg, builds[i].platform>>,
                     worker |-> builds[i].worker]
  BY DEF Attempts, Attempt
<1>3. Attempts'[i] = [status |-> new.status, subject |-> Attempts[i].subject,
                      worker |-> new.worker]
  BY <1>1, <1>2 DEF Attempts, Attempt, Exists
<1>4. \A j \in Ids : j # i => Attempts'[j] = Attempts[j]
  BY <1>1 DEF Attempts, Attempt, Exists
<1> QED
  BY <1>2, <1>3, <1>4 DEF Attempts

\* Moving a row by transition() is the abstract step the two states name.
LEMMA TransitionStep ==
  ASSUME Inv, Inv', NEW i \in Ids, NEW from, from \subseteq InProgress, NEW new,
         Transition(i, from, new),
         new.pkg = builds[i].pkg, new.platform = builds[i].platform,
         \/ builds[i].status = "Enqueued" /\ new.status = "WaitingForDeps"
         \/ builds[i].status = "WaitingForDeps" /\ new.status = "Enqueued"
         \/ builds[i].status = "Active" /\ new.status = "Publishing"
         \/ builds[i].status = "Publishing" /\ new.status = "Successful"
         \/ new.status = "Failed",
         new.worker = builds[i].worker
  PROVE  AbstractStep
<1>1. /\ builds[i].status \in InProgress /\ Exists(builds, i)
      /\ builds' = [builds EXCEPT ![i] = new] /\ nextId' = nextId
  BY DEF Transition, Exists, InProgress
<1>2. new.status # "Absent"
  OBVIOUS
<1>3. /\ Attempts[i] = [status |-> builds[i].status,
                        subject |-> <<builds[i].pkg, builds[i].platform>>,
                        worker |-> builds[i].worker]
      /\ Attempts' = [Attempts EXCEPT ![i] =
            [status |-> new.status, subject |-> Attempts[i].subject,
             worker |-> new.worker]]
  BY <1>1, <1>2, MovedAttempt
<1>4. Attempts' = [Attempts EXCEPT ![i] = Lifecycle!Moved(i, new.status)]
  <2>1. Lifecycle!Moved(i, new.status) =
          [status |-> new.status, subject |-> Attempts[i].subject, worker |-> new.worker]
    BY <1>3 DEF Lifecycle!Moved
  <2> QED
    BY <1>3, <2>1
<1>5. Attempts[i].status = builds[i].status
  BY <1>3
<1>6. CASE new.status = "Failed"
  BY <1>1, <1>4, <1>5, <1>6
     DEF AbstractStep, Lifecycle!Next, Lifecycle!Fail, Lifecycle!UnderWay, InProgress
<1>7. CASE new.status # "Failed"
  BY <1>4, <1>5, <1>7
     DEF AbstractStep, Lifecycle!Next, Lifecycle!Hold, Lifecycle!Unhold, Lifecycle!Accept,
         Lifecycle!Publish
<1> QED
  BY <1>6, <1>7

\* A row inserted for a package with none pending is a request.
LEMMA EnqueueStep ==
  ASSUME Inv, Inv', NEW p \in Pkgs, NEW pl \in Platforms,
         NEW state \in {"Enqueued", "WaitingForDeps"}, NEW trigger,
         Enqueue(p, pl, state, trigger)
  PROVE  AbstractStep
<1>1. /\ nextId \in Ids
      /\ ~Pending(builds, p, pl)
      /\ builds' = [builds EXCEPT ![nextId] =
            [status |-> state, pkg |-> p, platform |-> pl,
             number |-> NextNumber(builds, p), trigger |-> trigger,
             worker |-> Null, lease |-> Null, start |-> now, reason |-> Null]]
      /\ nextId' = nextId + 1
  BY DEF Enqueue, EnqueueBuildIfMissing
<1>2. builds \in [Ids -> Row] /\ Ids \subseteq Int /\ nextId \in Int
  BY <1>1, ConstantsAssumption DEF Inv, TypeOK, Ids
<1>3. Attempts[nextId] = Lifecycle!Unused
  BY <1>1, <1>2 DEF Attempts, Attempt, Exists, Lifecycle!Unused, Inv, TableOK, NoRow
<1>4. Attempts'[nextId] = Lifecycle!Fresh(<<p, pl>>, state)
  BY <1>1, <1>2 DEF Attempts, Attempt, Exists, Lifecycle!Fresh
<1>5. \A j \in Ids : j # nextId => Attempts'[j] = Attempts[j]
  BY <1>1, <1>2 DEF Attempts, Attempt, Exists
<1>6. Attempts' = [Attempts EXCEPT ![nextId] = Lifecycle!Fresh(<<p, pl>>, state)]
  BY <1>4, <1>5 DEF Attempts
<1>7. Lifecycle!Idle(<<p, pl>>)
  <2>1. SUFFICES ASSUME NEW j \in Ids, Attempts[j].subject = <<p, pl>>,
                        Attempts[j].status \in Lifecycle!UnderWay
                 PROVE  FALSE
    BY DEF Lifecycle!Idle
  <2>2. Exists(builds, j)
    BY <2>1 DEF Attempts, Attempt, Lifecycle!UnderWay
  <2>3. /\ builds[j].status \in InProgress
        /\ <<builds[j].pkg, builds[j].platform>> = <<p, pl>>
    BY <2>1, <2>2 DEF Attempts, Attempt, Lifecycle!UnderWay, InProgress
  <2>4. j \in RowsOf(builds, p, pl)
    BY <2>2, <2>3 DEF RowsOf
  <2> QED
    BY <1>1, <2>3, <2>4 DEF Pending
<1>8. Lifecycle!Request(nextId, <<p, pl>>, state)
  BY <1>3, <1>6, <1>7 DEF Lifecycle!Request
<1> QED
  BY <1>1, <1>8 DEF AbstractStep, Lifecycle!Next

\* An abandoned build ends, alone or with a retry queued in the same step.
LEMMA AbandonStep ==
  ASSUME Inv, Inv', NEW o \in Observation, NEW reason \in EndReasons,
         AbandonBuild(o, reason)
  PROVE  AbstractStep
<1>1. CASE ~StillHeld(o)
  BY <1>1 DEF AbandonBuild, rows, AbstractStep, Attempts, Attempt, Exists
<1>2. CASE StillHeld(o)
  <2> DEFINE i == o.id
             p == builds[i].pkg
             pl == builds[i].platform
             row == [builds[i] EXCEPT !.status = "Failed", !.lease = Null, !.reason = reason]
             failed == Failed(builds, i, reason)
  <2>1. i \in Ids /\ builds[i].status = "Active" /\ Exists(builds, i)
    BY <1>2 DEF StillHeld, Observation, Exists
  <2>2. builds \in [Ids -> Row] /\ Ids \subseteq Int /\ nextId \in Int
    BY ConstantsAssumption DEF Inv, TypeOK, Ids
  <2>3. failed = [builds EXCEPT ![i] = row]
    BY <2>1, <2>2 DEF Failed, Row
  <2>4. /\ row.status = "Failed" /\ row.pkg = p /\ row.platform = pl
        /\ row.worker = builds[i].worker
    BY <2>1, <2>2 DEF Row
  <2>5. \/ EnqueueBuildIfMissing(failed, p, pl, "Enqueued", "TimeoutRetry")
        \/ builds' = failed /\ nextId' = nextId
    BY <1>2 DEF AbandonBuild
  <2>6. Attempts[i] = [status |-> "Active", subject |-> <<p, pl>>,
                       worker |-> builds[i].worker]
    BY <2>1 DEF Attempts, Attempt
  <2> HIDE DEF failed, row
  <2>7. Lifecycle!Moved(i, "Failed") =
          [status |-> "Failed", subject |-> Attempts[i].subject, worker |-> builds[i].worker]
    BY <2>6 DEF Lifecycle!Moved
  <2>8. CASE builds' = failed /\ nextId' = nextId
    <3>1. Attempts' = [Attempts EXCEPT ![i] =
             [status |-> row.status, subject |-> Attempts[i].subject,
              worker |-> row.worker]]
      BY <2>1, <2>3, <2>4, <2>8, MovedAttempt
    <3>2. Attempts' = [Attempts EXCEPT ![i] = Lifecycle!Moved(i, "Failed")]
      BY <2>4, <2>7, <3>1
    <3>3. Lifecycle!Fail(i)
      BY <2>6, <3>2 DEF Lifecycle!Fail, Lifecycle!UnderWay
    <3> QED
      BY <2>1, <3>3 DEF AbstractStep, Lifecycle!Next
  <2>9. CASE ~(builds' = failed /\ nextId' = nextId)
    <3> DEFINE new == [status |-> "Enqueued", pkg |-> p, platform |-> pl,
                       number |-> NextNumber(failed, p), trigger |-> "TimeoutRetry",
                       worker |-> Null, lease |-> Null, start |-> now, reason |-> Null]
    <3>1. /\ nextId \in Ids /\ nextId' = nextId + 1
          /\ builds' = [failed EXCEPT ![nextId] = new]
      BY <2>5, <2>9 DEF EnqueueBuildIfMissing
    <3>2. builds[nextId] = NoRow
      BY <2>2, <3>1 DEF Inv, TableOK
    <3>3. i # nextId
      BY <2>1, <3>2 DEF NoRow
    <3>4. Attempts[nextId] = Lifecycle!Unused
      BY <2>2, <3>1, <3>2 DEF Attempts, Attempt, Exists, Lifecycle!Unused, NoRow
    <3>5. Attempts'[i] = Lifecycle!Moved(i, "Failed")
      <4>1. builds'[i] = row
        BY <2>1, <2>2, <2>3, <3>1, <3>3
      <4>2. Attempts'[i] = [status |-> "Failed", subject |-> <<p, pl>>,
                            worker |-> builds[i].worker]
        BY <2>1, <2>4, <4>1 DEF Attempts, Attempt, Exists
      <4> QED
        BY <2>6, <2>7, <4>2
    <3>6. Attempts'[nextId] = Lifecycle!Fresh(<<p, pl>>, "Enqueued")
      BY <2>2, <2>3, <3>1 DEF Attempts, Attempt, Exists, Lifecycle!Fresh
    <3>7. \A j \in Ids : j # i /\ j # nextId => Attempts'[j] = Attempts[j]
      BY <2>2, <2>3, <3>1 DEF Attempts, Attempt, Exists
    <3>8. Attempts' = [Attempts EXCEPT ![i] = Lifecycle!Moved(i, "Failed"),
                          ![nextId] = Lifecycle!Fresh(Attempts[i].subject, "Enqueued")]
      BY <2>1, <2>6, <3>1, <3>3, <3>5, <3>6, <3>7 DEF Attempts
    <3>9. Lifecycle!Retry(i, nextId)
      BY <2>6, <3>4, <3>8 DEF Lifecycle!Retry
    <3> QED
      BY <2>1, <3>1, <3>9 DEF AbstractStep, Lifecycle!Next
  <2> QED
    BY <2>8, <2>9
<1> QED
  BY <1>1, <1>2

\* A step that leaves the table alone, or renews leases, is no abstract step.
LEMMA Stutter ==
  ASSUME UNCHANGED rows
  PROVE  AbstractStep
BY DEF rows, AbstractStep, Attempts, Attempt, Exists

LEMMA RenewStep ==
  ASSUME Inv, NEW w \in Workers, HeartbeatRenew(w)
  PROVE  AbstractStep
<1>1. \A i \in Ids : /\ builds'[i].status = builds[i].status
                     /\ builds'[i].pkg = builds[i].pkg
                     /\ builds'[i].platform = builds[i].platform
                     /\ builds'[i].worker = builds[i].worker
  BY DEF HeartbeatRenew, Inv, TypeOK, Row
<1>2. nextId' = nextId
  BY DEF HeartbeatRenew
<1>3. Attempts' = Attempts
  BY <1>1, <1>2 DEF Attempts, Attempt, Exists
<1> QED
  BY <1>3 DEF AbstractStep

LEMMA ClaimStep ==
  ASSUME Inv, Inv', NEW w \in Workers, ClaimJob(w)
  PROVE  AbstractStep
<1>1. PICK i \in Ids :
        Transition(i, {"Enqueued"},
            [builds[i] EXCEPT !.status = "Active", !.worker = w,
                              !.lease = now + LeaseTtl, !.start = now])
  BY DEF ClaimJob, Offered
<1> DEFINE new == [builds[i] EXCEPT !.status = "Active", !.worker = w,
                                    !.lease = now + LeaseTtl, !.start = now]
<1>2. /\ builds[i].status = "Enqueued" /\ Exists(builds, i) /\ builds[i] \in Row
      /\ builds' = [builds EXCEPT ![i] = new] /\ nextId' = nextId
  BY <1>1 DEF Transition, Exists, Inv, TypeOK
<1>3. /\ new.status = "Active" /\ new.worker = w
      /\ new.pkg = builds[i].pkg /\ new.platform = builds[i].platform
  BY <1>2 DEF Row
<1> HIDE DEF new
<1>4. /\ Attempts[i] = [status |-> builds[i].status,
                        subject |-> <<builds[i].pkg, builds[i].platform>>,
                        worker |-> builds[i].worker]
      /\ Attempts' = [Attempts EXCEPT ![i] =
            [status |-> new.status, subject |-> Attempts[i].subject,
             worker |-> new.worker]]
  BY <1>2, <1>3, MovedAttempt
<1>5. builds[i].worker = Null
  BY <1>2 DEF Inv, TableOK, RowOK
<1>6. [Lifecycle!Moved(i, "Active") EXCEPT !.worker = w] =
        [status |-> "Active", subject |-> Attempts[i].subject, worker |-> w]
  <2>1. Lifecycle!Moved(i, "Active") =
          [status |-> "Active", subject |-> Attempts[i].subject, worker |-> Null]
    BY <1>4, <1>5 DEF Lifecycle!Moved
  <2> QED
    BY <2>1
<1>7. Lifecycle!Take(i, w)
  <2>1. Attempts[i].status = "Enqueued" /\ Attempts[i].worker = Null
    BY <1>2, <1>4, <1>5
  <2>2. Attempts' = [Attempts EXCEPT ![i] =
           [status |-> "Active", subject |-> Attempts[i].subject, worker |-> w]]
    BY <1>3, <1>4
  <2>3. Attempts' = [Attempts EXCEPT ![i] =
           [Lifecycle!Moved(i, "Active") EXCEPT !.worker = w]]
    BY <1>6, <2>2, Zenon
  <2> QED
    BY <2>1, <2>3, Zenon DEF Lifecycle!Take
<1> QED
  BY <1>7 DEF AbstractStep, Lifecycle!Next

LEMMA ReleaseStep ==
  ASSUME Inv, Inv', NEW o \in Observation, NEW state \in {"Publishing", "Failed"},
         Release(o, state)
  PROVE  AbstractStep
<1>1. CASE o.id \notin Owned(o.worker)
  BY <1>1, Stutter DEF Release
<1>2. CASE o.id \in Owned(o.worker)
  <2> DEFINE i == o.id
             new == [builds[i] EXCEPT !.status = state, !.lease = Null]
  <2>1. i \in Ids /\ builds[i].status = "Active" /\ Transition(i, {"Active"}, new)
    BY <1>2 DEF Release, Owned, Observation
  <2>2. /\ new.status = state /\ new.pkg = builds[i].pkg
        /\ new.platform = builds[i].platform /\ new.worker = builds[i].worker
    BY <2>1 DEF Inv, TypeOK, Row
  <2> HIDE DEF new
  <2> QED
    BY <2>1, <2>2, TransitionStep DEF InProgress
<1> QED
  BY <1>1, <1>2

LEMMA DeleteStep ==
  ASSUME Inv, NEW i \in Ids, DeleteBuild(i)
  PROVE  AbstractStep
<1>1. /\ builds' = [builds EXCEPT ![i] = NoRow] /\ nextId' = nextId
      /\ builds \in [Ids -> Row]
  BY DEF DeleteBuild, Inv, TypeOK
<1>2. \A j \in Ids : j # i => Attempts'[j] = Attempts[j]
  BY <1>1 DEF Attempts, Attempt, Exists
<1>3. CASE i < nextId
  <2>1. Attempts'[i] = Lifecycle!Gone
    BY <1>1, <1>3 DEF Attempts, Attempt, Exists, NoRow, Lifecycle!Gone
  <2>2. Attempts[i].status # "Unused"
    BY <1>3 DEF Attempts, Attempt, Inv, TableOK, Row, States
  <2>3. Attempts' = [Attempts EXCEPT ![i] = Lifecycle!Gone]
    BY <1>2, <2>1 DEF Attempts
  <2> QED
    BY <2>2, <2>3 DEF AbstractStep, Lifecycle!Next, Lifecycle!Delete
<1>4. CASE ~(i < nextId)
  <2>1. builds[i] = NoRow
    BY <1>4, ConstantsAssumption DEF Inv, TableOK, Ids
  <2>2. builds' = builds
    BY <1>1, <2>1
  <2> QED
    BY <1>1, <2>2 DEF AbstractStep, Attempts, Attempt, Exists
<1> QED
  BY <1>3, <1>4

\* Every step of the queue is a step of the lifecycle or none.
LEMMA NextStep == Inv /\ Inv' /\ [Next]_vars => AbstractStep
<1> SUFFICES ASSUME Inv, Inv', [Next]_vars PROVE AbstractStep
  OBVIOUS
<1>1. ASSUME NEW w \in Workers, WorkerStep(w) PROVE AbstractStep
  <2>1. CASE ClaimJob(w)
    BY <2>1, ClaimStep
  <2>2. CASE HeartbeatRenew(w)
    BY <2>2, RenewStep
  <2>3. CASE HeartbeatDrop(w)
    <3>1. PICK o \in beating[w].drop : AbandonBuild(o, "Dropped")
      BY <2>3 DEF HeartbeatDrop
    <3>2. o \in Observation
      BY <2>3, <3>1 DEF HeartbeatDrop, Inv, TypeOK, Beat
    <3> QED
      BY <3>1, <3>2, AbandonStep DEF EndReasons
  <2>4. CASE \/ ClaimNothing(w)
             \/ \E reported \in SUBSET Reportable(w) : HeartbeatBegin(w, reported)
             \/ \E i \in Ids, outcome \in Outcomes : CompleteBegin(w, i, outcome)
    BY <2>4, Stutter DEF ClaimNothing, HeartbeatBegin, CompleteBegin
  <2> QED
    BY <1>1, <2>1, <2>2, <2>3, <2>4 DEF WorkerStep
<1>2. CASE QueueStep
  <2>1. ASSUME NEW p \in Pkgs, NEW pl \in Platforms, NEW trigger,
               NEW state \in {"Enqueued", "WaitingForDeps"}, Enqueue(p, pl, state, trigger)
        PROVE  AbstractStep
    BY <2>1, EnqueueStep
  <2>2. ASSUME NEW p \in Pkgs, NEW pl \in Platforms, PromoteWaitingBuild(p, pl)
        PROVE  AbstractStep
    <3>1. PICK i \in Ids :
            Transition(i, {"WaitingForDeps"}, [builds[i] EXCEPT !.status = "Enqueued"])
      BY <2>2 DEF PromoteWaitingBuild, RowsOf
    <3> DEFINE new == [builds[i] EXCEPT !.status = "Enqueued"]
    <3>2. /\ new.status = "Enqueued" /\ new.pkg = builds[i].pkg
          /\ new.platform = builds[i].platform /\ new.worker = builds[i].worker
          /\ builds[i].status = "WaitingForDeps"
      BY <3>1 DEF Transition, Inv, TypeOK, Row
    <3>3. Transition(i, {"WaitingForDeps"}, new)
      BY <3>1
    <3> HIDE DEF new
    <3> QED
      BY <3>2, <3>3, TransitionStep DEF InProgress
  <2>3. ASSUME NEW p \in Pkgs, NEW pl \in Platforms, DemoteEnqueuedBuild(p, pl)
        PROVE  AbstractStep
    <3>1. PICK i \in Ids :
            Transition(i, {"Enqueued"}, [builds[i] EXCEPT !.status = "WaitingForDeps"])
      BY <2>3 DEF DemoteEnqueuedBuild, RowsOf
    <3> DEFINE new == [builds[i] EXCEPT !.status = "WaitingForDeps"]
    <3>2. /\ new.status = "WaitingForDeps" /\ new.pkg = builds[i].pkg
          /\ new.platform = builds[i].platform /\ new.worker = builds[i].worker
          /\ builds[i].status = "Enqueued"
      BY <3>1 DEF Transition, Inv, TypeOK, Row
    <3>3. Transition(i, {"Enqueued"}, new)
      BY <3>1
    <3> HIDE DEF new
    <3> QED
      BY <3>2, <3>3, TransitionStep DEF InProgress
  <2>4. ASSUME NEW r \in completing, CompleteCommit(r) PROVE AbstractStep
    <3>1. r.seen \in Observation
      BY DEF Inv, TypeOK, Report
    <3> QED
      BY <2>4, <3>1, ReleaseStep, AbandonStep DEF CompleteCommit, EndReasons
  <2>5. ASSUME NEW i \in Ids, PublishSettle(i) PROVE AbstractStep
    <3> DEFINE new == [builds[i] EXCEPT !.status = "Successful"]
    <3>1. Transition(i, {"Publishing"}, new) /\ builds[i].status = "Publishing"
      BY <2>5 DEF PublishSettle, Transition
    <3>2. /\ new.status = "Successful" /\ new.pkg = builds[i].pkg
          /\ new.platform = builds[i].platform /\ new.worker = builds[i].worker
      BY DEF Inv, TypeOK, Row
    <3> HIDE DEF new
    <3> QED
      BY <3>1, <3>2, TransitionStep DEF InProgress
  <2>6. ASSUME NEW i \in Ids, PublishFail(i) PROVE AbstractStep
    <3> DEFINE new == [builds[i] EXCEPT !.status = "Failed"]
    <3>1. Transition(i, {"Publishing"}, new)
      BY <2>6 DEF PublishFail
    <3>2. /\ new.status = "Failed" /\ new.pkg = builds[i].pkg
          /\ new.platform = builds[i].platform /\ new.worker = builds[i].worker
      BY DEF Inv, TypeOK, Row
    <3> HIDE DEF new
    <3> QED
      BY <3>1, <3>2, TransitionStep DEF InProgress
  <2>7. CASE ReapSelect
    BY <2>7, Stutter DEF ReapSelect
  <2>8. CASE ReapOne
    <3>1. PICK r \in reaping : AbandonBuild(r.seen, r.reason)
      BY <2>8 DEF ReapOne
    <3>2. r.seen \in Observation /\ r.reason \in EndReasons
      BY DEF Inv, TypeOK, Reap
    <3> QED
      BY <3>1, <3>2, AbandonStep
  <2> QED
    BY <1>2, <2>1, <2>2, <2>3, <2>4, <2>5, <2>6, <2>7, <2>8, Zenon DEF QueueStep
<1>3. CASE OperatorStep
  <2>1. ASSUME NEW i \in Ids, CancelBuild(i) PROVE AbstractStep
    <3> DEFINE new == [builds[i] EXCEPT !.status = "Failed", !.reason = "Canceled",
                                        !.lease = Null]
               from == {"Active", "Enqueued", "WaitingForDeps"}
    <3>1. Transition(i, from, new) /\ from \subseteq InProgress
      BY <2>1 DEF CancelBuild, InProgress
    <3>2. /\ new.status = "Failed" /\ new.pkg = builds[i].pkg
          /\ new.platform = builds[i].platform /\ new.worker = builds[i].worker
      BY DEF Inv, TypeOK, Row
    <3> HIDE DEF new, from
    <3> QED
      BY <3>1, <3>2, TransitionStep
  <2>2. ASSUME NEW w \in Workers, RevokeOne(w) PROVE AbstractStep
    <3>1. PICK o \in revoking[w].left : AbandonBuild(o, "WorkerRevoked")
      BY <2>2 DEF RevokeOne
    <3>2. o \in Observation
      BY <3>1 DEF Inv, TypeOK, Revocation
    <3> QED
      BY <3>1, <3>2, AbandonStep DEF EndReasons
  <2>3. ASSUME NEW i \in Ids, DeleteBuild(i) PROVE AbstractStep
    BY <2>3, DeleteStep
  <2>4. CASE \/ \E i \in Ids : DeleteCheck(i)
             \/ \E w \in Workers : ApproveWorker(w)
             \/ \E w \in Workers, value \in BOOLEAN : PauseCheck(w, value)
             \/ \E r \in pausing : SetPaused(r)
             \/ \E w \in Workers : RevokeMark(w)
             \/ \E w \in Workers : RevokeRead(w)
    BY <2>4, Stutter
       DEF DeleteCheck, ApproveWorker, PauseCheck, SetPaused, RevokeMark, RevokeRead
  <2> QED
    BY <1>3, <2>1, <2>2, <2>3, <2>4, Zenon DEF OperatorStep
<1>4. CASE Restart \/ Tick \/ UNCHANGED vars
  BY <1>4, Stutter DEF Restart, Tick, vars
<1> QED
  BY <1>1, <1>2, <1>3, <1>4 DEF Next

\* The queue, with its leases, races and restarts, implements the lifecycle
\* of builds.
THEOREM ImplementsLifecycle == Spec => LifecycleSpec
<1>1. Init => Lifecycle!Init
  BY ConstantsAssumption
     DEF Init, Lifecycle!Init, Lifecycle!Unused, Attempts, Attempt, Exists, NoRow, Ids
<1>2. Inv /\ Inv' /\ [Next]_vars => [Lifecycle!Next]_Attempts
  BY NextStep DEF AbstractStep
<1> QED
  BY <1>1, <1>2, InvHolds, PTL DEF Spec, LifecycleSpec, Lifecycle!Spec

============================================================================
