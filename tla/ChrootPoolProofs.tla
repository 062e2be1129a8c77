--------------------------- MODULE ChrootPoolProofs ---------------------------
(* Proofs about ChrootPool: the volumes of a build, the chroots kept for its     *)
(* inspection and the generations of the base, for any builds, processes,        *)
(* failing commands and deaths.                                                  *)
EXTENDS ChrootPool, TLAPS

\* Where a build stands that works on the base, has no volumes yet, or has settled.
RefreshStages == {"Recover", "Create", "Fill", "Charge", "Snapshot", "Upgrade", "Exchange", "Retire"}
Unleased == {"Queued", "Gate", "Acquire", "Room"} \cup RefreshStages

\* refresh.lock: whoever works on the base holds it.
HeldByOne == \A b \in Ids : stage[b] \in RefreshStages => flock = b

\* Builds of the worker are under way only while it takes work: its death ends them.
BuildsNeedWorker == \A b \in Builds : stage[b] \notin {"Queued", "Ended"} => worker = "Up"

HasNone(b) == parts[b] \cap JobParts = {}

\* Which volumes a build of the worker has at each point, and which a build that is
\* over may have left: none while the worker takes work, what the sweep has read
\* and not cleared while it sweeps.
VolumesAt(b) ==
    /\ stage[b] \in Unleased \cup {"KeepTree", "Private"} => HasNone(b)
    /\ stage[b] = "Data" => "Job" \in parts[b]
    /\ stage[b] \in {"Running", "Touch", "KeepChroot"} => JobParts \subseteq parts[b]
    /\ stage[b] = "KeepData" => "Job" \notin parts[b]
    /\ stage[b] = "Ended" => \/ HasNone(b)
                             \/ worker = "Down"
                             \/ worker = "Sweep" /\ b \in sweeping
VolumesInStep == \A b \in Builds : VolumesAt(b)

\* A kept chroot carries an mtime no earlier than the failure it is kept for.
Stamped(b) == failedAt[b] # Null /\ failedAt[b] <= touched[b]
KeptAt(b) ==
    /\ "Kept" \in parts[b] => stage[b] \in {"KeepData", "KeepTree", "Private", "Ended"} /\ Stamped(b)
    /\ stage[b] = "Touch" => failedAt[b] # Null /\ failedAt[b] <= now
    /\ stage[b] = "KeepChroot" => Stamped(b)
KeptInStep == \A b \in Builds : KeptAt(b)

\* The generations of the base: no two are snapshots of each other, and where the
\* refresh that holds the lock has brought them.
NoCycle == root # Null /\ next # Null => ~(next.parent = root.id /\ root.parent = next.id)
BaseAt(b) ==
    /\ stage[b] = "Snapshot" => next = Null
    /\ stage[b] \in {"Upgrade", "Exchange"} => root # Null /\ next # Null /\ next.parent = root.id
    /\ stage[b] = "Retire" => root # Null /\ next # Null /\ root.parent = next.id
BaseInStep == NoCycle /\ \A b \in Ids : BaseAt(b)

Inv == TypeOK /\ HeldByOne /\ BuildsNeedWorker /\ VolumesInStep /\ KeptInStep /\ BaseInStep

-----------------------------------------------------------------------------
(* Types. *)

\* Three volumes name six UUIDs at most, which leaves one of seven free.
LEMMA NewUuidIsNew ==
    NewUuid \in Uuids /\ \A v \in Named : NewUuid # v.id /\ NewUuid # v.parent
  <1> DEFINE Free(u) == /\ u # root.id /\ u # root.parent
                        /\ u # next.id /\ u # next.parent
                        /\ u # prev.id /\ u # prev.parent
  <1>1. \E u \in Uuids : Free(u)
    <2>1. Free(1) \/ Free(2) \/ Free(3) \/ Free(4) \/ Free(5) \/ Free(6) \/ Free(7)
      OBVIOUS
    <2>2. {1, 2, 3, 4, 5, 6, 7} \subseteq Uuids
      BY DEF Uuids
    <2> HIDE DEF Free
    <2> QED BY <2>1, <2>2
  <1>2. \E u \in Uuids : \A v \in Named : u # v.id /\ u # v.parent
    BY <1>1 DEF Named
  <1> QED BY <1>2 DEF NewUuid

LEMMA NullIsNone ==
    /\ Null \notin Uuids /\ Null \notin Times /\ Null \notin Ids
    /\ Worker \notin Ids /\ Worker # Null
    /\ Times \subseteq Nat /\ 0 \in Times /\ KeepFor \in Nat
  BY PoolAssumption DEF Uuids, Times

LEMMA ProcessesOf == \A b \in Ids : ProcessOf(b) \in Processes
  BY DEF ProcessOf, Processes, Ids

\* A volume has the fields of one, whatever its UUIDs.
LEMMA VolumeTypes ==
    ASSUME NEW v \in Volume
    PROVE  /\ v.id \in Uuids /\ v.parent \in Uuids \cup {Null} /\ v.state \in BaseStates
           /\ \A s \in BaseStates : [v EXCEPT !.state = s] \in Volume
  BY DEF Volume

\* The generations of the base, and what is not one of them.
Base == Volume \cup {Null}
BaseTyped == root \in Base /\ next \in Base /\ prev \in Base
RestTyped ==
    /\ gate \in [Processes -> Ids \cup {Null}]
    /\ last \in [Processes -> Times \cup {Null}]
    /\ flock \in Ids \cup {Worker, Null}
    /\ stage \in [Ids -> Stages]
    /\ parts \in [Ids -> SUBSET (JobParts \cup KeptParts)]
    /\ touched \in [Ids -> Times]
    /\ failedAt \in [Ids -> Times \cup {Null}]
    /\ worker \in {"Down", "Sweep", "SweepBase", "Up"}
    /\ sweeping \subseteq Ids
    /\ oversized \in BOOLEAN
    /\ now \in Times
    /\ faults \in 0 .. MaxFaults

LEMMA TypeSplits == TypeOK <=> BaseTyped /\ RestTyped
  BY DEF TypeOK, BaseTyped, RestTyped, Base

LEMMA TypeSplitsNext == TypeOK' <=> BaseTyped' /\ RestTyped'
  BY DEF TypeOK, BaseTyped, RestTyped, Base

LEMMA FaultTypes ==
    RestTyped /\ (Fault \/ NoFault) => (faults \in 0 .. MaxFaults)'
  BY PoolAssumption DEF RestTyped, Fault, NoFault

LEMMA LockTypes ==
    ASSUME RestTyped, NEW b \in Ids, LetGo(b)
    PROVE  (gate \in [Processes -> Ids \cup {Null}])' /\ (flock \in Ids \cup {Worker, Null})'
  BY ProcessesOf DEF RestTyped, LetGo

LEMMA EndTypes ==
    ASSUME RestTyped, NEW b \in Ids, EndRefresh(b) \/ AbortRefresh(b)
    PROVE  /\ (gate \in [Processes -> Ids \cup {Null}])' /\ (flock \in Ids \cup {Worker, Null})'
           /\ (last \in [Processes -> Times \cup {Null}])'
           /\ (stage \in [Ids -> Stages])'
  <1>1. LetGo(b)
    BY DEF EndRefresh, AbortRefresh
  <1>2. (last \in [Processes -> Times \cup {Null}])'
    BY ProcessesOf DEF RestTyped, EndRefresh, AbortRefresh
  <1>3. (stage \in [Ids -> Stages])'
    BY DEF RestTyped, EndRefresh, AbortRefresh, Goto, Stages
  <1> QED BY <1>1, <1>2, <1>3, LockTypes

LEMMA RecoverTypes == BaseTyped /\ RecoverStep => BaseTyped'
  BY DEF BaseTyped, RecoverStep, Base

LEMMA RefreshTypes ==
    ASSUME TypeOK, NEW b \in Ids, Refresh(b)
    PROVE  TypeOK'
  <1> USE DEF base, locks, entries, bounds, process
  <1>t. BaseTyped /\ RestTyped
    BY TypeSplits
  <1>n. NewUuid \in Uuids
    BY NewUuidIsNew
  <1>1. CASE Start(b)
    <2>1. (stage \in [Ids -> Stages])'
      BY <1>1, <1>t DEF Start, Goto, RestTyped, Stages
    <2> QED BY <1>1, <2>1, <1>t, TypeSplitsNext DEF Start, RestTyped, BaseTyped
  <1>2. CASE SkipGate(b)
    <2>1. (stage \in [Ids -> Stages])'
      BY <1>2, <1>t DEF SkipGate, Goto, RestTyped, Stages
    <2> QED BY <1>2, <2>1, <1>t, TypeSplitsNext DEF SkipGate, RestTyped, BaseTyped
  <1>3. CASE EnterGate(b)
    <2>1. (stage \in [Ids -> Stages])'
      BY <1>3, <1>t DEF EnterGate, Goto, RestTyped, Stages
    <2>2. (gate \in [Processes -> Ids \cup {Null}])' /\ (flock \in Ids \cup {Worker, Null})'
      BY <1>3, <1>t, ProcessesOf DEF EnterGate, RestTyped
    <2> QED BY <1>3, <2>1, <2>2, <1>t, TypeSplitsNext DEF EnterGate, RestTyped, BaseTyped
  <1>4. CASE Recover(b)
    <2>1. BaseTyped'
      BY <1>4, <1>t, RecoverTypes DEF Recover, BaseTyped
    <2>2. (faults \in 0 .. MaxFaults)'
      BY <1>4, <1>t, FaultTypes DEF Recover
    <2>3. \/ EndRefresh(b)
          \/ \E s \in Stages : Goto(b, s) /\ UNCHANGED <<locks, last>>
          \/ UNCHANGED <<stage, locks, last>>
      BY <1>4 DEF Recover, Stages
    <2>4. (stage \in [Ids -> Stages])' /\ (last \in [Processes -> Times \cup {Null}])'
          /\ (gate \in [Processes -> Ids \cup {Null}])' /\ (flock \in Ids \cup {Worker, Null})'
      <3>1. CASE EndRefresh(b)
        BY <3>1, <1>t, EndTypes
      <3>2. CASE \E s \in Stages : Goto(b, s) /\ UNCHANGED <<locks, last>>
        BY <3>2, <1>t DEF Goto, RestTyped
      <3>3. CASE UNCHANGED <<stage, locks, last>>
        BY <3>3, <1>t DEF RestTyped
      <3> QED BY <2>3, <3>1, <3>2, <3>3
    <2> QED BY <1>4, <2>1, <2>2, <2>4, <1>t, TypeSplitsNext DEF Recover, RestTyped
  <1>5. CASE CreateBase(b)
    <2>1. root' \in Base
      <3>1. NewBase \in Volume
        BY <1>n DEF NewBase, Volume, BaseStates
      <3>2. root # Null => root \in Volume
        BY <1>t DEF BaseTyped, Base
      <3>3. root # Null => \A s \in BaseStates : [root EXCEPT !.state = s] \in Volume
        BY <3>2, VolumeTypes
      <3>4. \/ root' = Null \/ root' = NewBase
            \/ root # Null /\ root' = [root EXCEPT !.state = "Partial"]
            \/ root # Null /\ root' = [root EXCEPT !.state = "Whole"]
        BY <1>5 DEF CreateBase, NewBase, Goto
      <3> QED BY <3>1, <3>3, <3>4 DEF Base, BaseStates
    <2>2. (stage \in [Ids -> Stages])'
      BY <1>5, <1>t DEF CreateBase, Goto, RestTyped, Stages
    <2> QED BY <1>5, <2>1, <2>2, <1>t, TypeSplitsNext DEF CreateBase, RestTyped, BaseTyped
  <1>6. CASE CreateFails(b)
    <2>1. AbortRefresh(b) /\ Fault
      BY <1>6 DEF CreateFails
    <2> QED BY <1>6, <2>1, EndTypes, FaultTypes, <1>t, TypeSplitsNext DEF CreateFails, RestTyped, BaseTyped, Base
  <1>7. CASE ChargeBase(b)
    <2>1. (EndRefresh(b) \/ AbortRefresh(b)) /\ (Fault \/ NoFault)
      BY <1>7 DEF ChargeBase
    <2> QED BY <1>7, <2>1, EndTypes, FaultTypes, <1>t, TypeSplitsNext DEF ChargeBase, RestTyped, BaseTyped
  <1>8. CASE SnapshotNext(b)
    <2>1. next' \in Base
      <3>1. root.id \in Uuids
        BY <1>8, <1>t, VolumeTypes DEF SnapshotNext, BaseTyped, Base
      <3> QED BY <3>1, <1>8, <1>n DEF SnapshotNext, Base, Volume, BaseStates
    <2>2. (stage \in [Ids -> Stages])'
      BY <1>8, <1>t DEF SnapshotNext, Goto, RestTyped, Stages
    <2> QED BY <1>8, <2>1, <2>2, <1>t, TypeSplitsNext DEF SnapshotNext, RestTyped, BaseTyped
  <1>9. CASE UpgradeNext(b)
    <2>1. next' \in Base
      <3>1. next \in Volume /\ "Whole" \in BaseStates
        BY <1>9, <1>t DEF UpgradeNext, BaseTyped, Base, BaseStates
      <3> QED BY <3>1, <1>9, VolumeTypes DEF UpgradeNext, Base
    <2>2. (stage \in [Ids -> Stages])'
      BY <1>9, <1>t DEF UpgradeNext, Goto, RestTyped, Stages
    <2> QED BY <1>9, <2>1, <2>2, <1>t, TypeSplitsNext DEF UpgradeNext, RestTyped, BaseTyped
  <1>10. CASE ExchangeRoot(b)
    <2>2. (stage \in [Ids -> Stages])'
      BY <1>10, <1>t DEF ExchangeRoot, Goto, RestTyped, Stages
    <2> QED BY <1>10, <2>2, <1>t, TypeSplitsNext DEF ExchangeRoot, RestTyped, BaseTyped
  <1>11. CASE RetirePrev(b)
    <2>1. BaseTyped'
      BY <1>11, <1>t DEF RetirePrev, BaseTyped, Base
    <2>2. (faults \in 0 .. MaxFaults)'
      BY <1>11, <1>t, FaultTypes DEF RetirePrev
    <2>3. EndRefresh(b) \/ UNCHANGED <<stage, locks, last>>
      BY <1>11 DEF RetirePrev
    <2>4. (stage \in [Ids -> Stages])' /\ (last \in [Processes -> Times \cup {Null}])'
          /\ (gate \in [Processes -> Ids \cup {Null}])' /\ (flock \in Ids \cup {Worker, Null})'
      <3>1. CASE EndRefresh(b)
        BY <3>1, <1>t, EndTypes
      <3>2. CASE UNCHANGED <<stage, locks, last>>
        BY <3>2, <1>t DEF RestTyped
      <3> QED BY <2>3, <3>1, <3>2
    <2> QED BY <1>11, <2>1, <2>2, <2>4, <1>t, TypeSplitsNext DEF RetirePrev, RestTyped
  <1>12. CASE FailCandidate(b)
    <2>1. EndRefresh(b) /\ Fault
      BY <1>12 DEF FailCandidate
    <2> QED BY <1>12, <2>1, EndTypes, FaultTypes, <1>t, TypeSplitsNext DEF FailCandidate, RestTyped, BaseTyped, Base
  <1> QED
    BY <1>1, <1>2, <1>3, <1>4, <1>5, <1>6, <1>7, <1>8, <1>9, <1>10, <1>11, <1>12 DEF Refresh

LEMMA LeaseTypes ==
    ASSUME TypeOK, NEW b \in Ids, Lease(b) \/ Settle(b)
    PROVE  TypeOK'
  <1> USE DEF base, locks, entries, bounds, process
  <1>t. BaseTyped /\ RestTyped
    BY TypeSplits
  <1>1. CASE Cancelled(b)
    <2>1. Goto(b, "Ended")
      BY <1>1 DEF Cancelled
    <2>2. (stage \in [Ids -> Stages])'
      BY <2>1, <1>t DEF Goto, RestTyped, Stages
    <2> QED BY <1>1, <2>2, <1>t, TypeSplitsNext DEF Cancelled, RestTyped, BaseTyped
  <1>2. CASE ExpireKept(b)
    <2>1. (stage \in [Ids -> Stages])'
      BY <1>2, <1>t DEF ExpireKept, Goto, RestTyped, Stages
    <2>2. (parts \in [Ids -> SUBSET (JobParts \cup KeptParts)])'
      BY <1>2, <1>t DEF ExpireKept, ExpireOne, KeptBuilds, Remove, RestTyped
    <2> QED BY <1>2, <2>1, <2>2, <1>t, TypeSplitsNext DEF ExpireKept, RestTyped, BaseTyped
  <1>3. CASE ReclaimKept(b)
    <2>1. (parts \in [Ids -> SUBSET (JobParts \cup KeptParts)])'
      BY <1>3, <1>t DEF ReclaimKept, OldestKept, KeptBuilds, Remove, RestTyped
    <2> QED BY <1>3, <2>1, <1>t, TypeSplitsNext DEF ReclaimKept, RestTyped, BaseTyped
  <1>4. CASE ReclaimPrev(b)
    BY <1>4, <1>t, TypeSplitsNext DEF ReclaimPrev, RestTyped, BaseTyped, Base
  <1>5. CASE EnterLease(b)
    <2>1. (stage \in [Ids -> Stages])'
      BY <1>5, <1>t DEF EnterLease, Goto, RestTyped, Stages
    <2>2. (parts \in [Ids -> SUBSET (JobParts \cup KeptParts)])'
      BY <1>5, <1>t DEF EnterLease, Remove, RestTyped
    <2> QED BY <1>5, <2>1, <2>2, <1>t, TypeSplitsNext DEF EnterLease, RestTyped, BaseTyped
  <1>6. CASE LeaseChroot(b)
    <2>1. (stage \in [Ids -> Stages])'
      BY <1>6, <1>t DEF LeaseChroot, Goto, RestTyped, Stages
    <2>2. (parts \in [Ids -> SUBSET (JobParts \cup KeptParts)])'
      BY <1>6, <1>t DEF LeaseChroot, RestTyped, JobParts
    <2>3. (touched \in [Ids -> Times])'
      BY <1>6, <1>t, NullIsNone DEF LeaseChroot, RestTyped
    <2> QED BY <1>6, <2>1, <2>2, <2>3, <1>t, TypeSplitsNext DEF LeaseChroot, RestTyped, BaseTyped
  <1>7. CASE LeaseData(b)
    <2>1. (stage \in [Ids -> Stages])'
      BY <1>7, <1>t DEF LeaseData, Goto, RestTyped, Stages
    <2>2. (parts \in [Ids -> SUBSET (JobParts \cup KeptParts)])'
      BY <1>7, <1>t DEF LeaseData, RestTyped, JobParts
    <2> QED BY <1>7, <2>1, <2>2, <1>t, TypeSplitsNext DEF LeaseData, RestTyped, BaseTyped
  <1>8. CASE LeaseFails(b)
    <2>1. (stage \in [Ids -> Stages])'
      BY <1>8, <1>t DEF LeaseFails, Goto, RestTyped, Stages
    <2>2. (parts \in [Ids -> SUBSET (JobParts \cup KeptParts)])'
      BY <1>8, <1>t DEF LeaseFails, Remove, RestTyped
    <2>3. (faults \in 0 .. MaxFaults)'
      BY <1>8, <1>t, FaultTypes DEF LeaseFails
    <2> QED BY <1>8, <2>1, <2>2, <2>3, <1>t, TypeSplitsNext DEF LeaseFails, RestTyped, BaseTyped
  <1>9. CASE EndBuild(b)
    <2>1. (stage \in [Ids -> Stages])'
      BY <1>9, <1>t DEF EndBuild, Goto, RestTyped, Stages
    <2> QED BY <1>9, <2>1, <1>t, TypeSplitsNext DEF EndBuild, RestTyped, BaseTyped
  <1>10. CASE Release(b)
    <2>1. (stage \in [Ids -> Stages])'
      BY <1>10, <1>t DEF Release, Goto, RestTyped, Stages
    <2>2. (parts \in [Ids -> SUBSET (JobParts \cup KeptParts)])'
      BY <1>10, <1>t DEF Release, Remove, RestTyped
    <2> QED BY <1>10, <2>1, <2>2, <1>t, TypeSplitsNext DEF Release, RestTyped, BaseTyped
  <1>11. CASE FailBuild(b)
    <2>1. (stage \in [Ids -> Stages])'
      BY <1>11, <1>t DEF FailBuild, Goto, RestTyped, Stages
    <2>2. (failedAt \in [Ids -> Times \cup {Null}])'
      BY <1>11, <1>t DEF FailBuild, RestTyped
    <2> QED BY <1>11, <2>1, <2>2, <1>t, TypeSplitsNext DEF FailBuild, RestTyped, BaseTyped
  <1>12. CASE TouchChroot(b)
    <2>1. (stage \in [Ids -> Stages])'
      BY <1>12, <1>t DEF TouchChroot, Goto, RestTyped, Stages
    <2>2. (touched \in [Ids -> Times])'
      BY <1>12, <1>t DEF TouchChroot, RestTyped
    <2> QED BY <1>12, <2>1, <2>2, <1>t, TypeSplitsNext DEF TouchChroot, RestTyped, BaseTyped
  <1>13. CASE KeepChroot(b)
    <2>1. (stage \in [Ids -> Stages])'
      BY <1>13, <1>t DEF KeepChroot, Goto, RestTyped, Stages
    <2>2. (parts \in [Ids -> SUBSET (JobParts \cup KeptParts)])'
      BY <1>13, <1>t DEF KeepChroot, RestTyped, KeptParts
    <2> QED BY <1>13, <2>1, <2>2, <1>t, TypeSplitsNext DEF KeepChroot, RestTyped, BaseTyped
  <1>14. CASE KeepData(b)
    <2>1. (stage \in [Ids -> Stages])'
      BY <1>14, <1>t DEF KeepData, Goto, RestTyped, Stages
    <2>2. (parts \in [Ids -> SUBSET (JobParts \cup KeptParts)])'
      BY <1>14, <1>t DEF KeepData, RestTyped, KeptParts
    <2> QED BY <1>14, <2>1, <2>2, <1>t, TypeSplitsNext DEF KeepData, RestTyped, BaseTyped
  <1>15. CASE KeepTree(b)
    <2>1. (stage \in [Ids -> Stages])'
      BY <1>15, <1>t DEF KeepTree, Goto, RestTyped, Stages
    <2>2. (parts \in [Ids -> SUBSET (JobParts \cup KeptParts)])'
      BY <1>15, <1>t DEF KeepTree, RestTyped, KeptParts
    <2> QED BY <1>15, <2>1, <2>2, <1>t, TypeSplitsNext DEF KeepTree, RestTyped, BaseTyped
  <1>16. CASE MakePrivate(b)
    <2>1. (stage \in [Ids -> Stages])'
      BY <1>16, <1>t DEF MakePrivate, Goto, RestTyped, Stages
    <2> QED BY <1>16, <2>1, <1>t, TypeSplitsNext DEF MakePrivate, RestTyped, BaseTyped
  <1>17. CASE KeepFails(b)
    <2>1. (stage \in [Ids -> Stages])'
      BY <1>17, <1>t DEF KeepFails, Goto, RestTyped, Stages
    <2>2. (parts \in [Ids -> SUBSET (JobParts \cup KeptParts)])'
      BY <1>17, <1>t DEF KeepFails, Remove, RestTyped
    <2>3. (faults \in 0 .. MaxFaults)'
      BY <1>17, <1>t, FaultTypes DEF KeepFails
    <2> QED BY <1>17, <2>1, <2>2, <2>3, <1>t, TypeSplitsNext DEF KeepFails, RestTyped, BaseTyped
  <1> QED
    BY <1>1, <1>2, <1>3, <1>4, <1>5, <1>6, <1>7, <1>8, <1>9, <1>10, <1>11, <1>12, <1>13, <1>14,
       <1>15, <1>16, <1>17 DEF Lease, Settle

LEMMA WorkerTypes ==
    ASSUME TypeOK,
           \/ WorkerStarts \/ SweepOne \/ SweepBase \/ LowerTotal \/ RemakePool \/ Tick
           \/ \E p \in Processes : Die(p)
    PROVE  TypeOK'
  <1> USE DEF base, locks, entries, bounds, process
  <1>t. BaseTyped /\ RestTyped
    BY TypeSplits
  <1>1. CASE WorkerStarts
    BY <1>1, <1>t, TypeSplitsNext DEF WorkerStarts, LiveBuilds, RestTyped, BaseTyped
  <1>2. CASE SweepOne
    <2>1. (parts \in [Ids -> SUBSET (JobParts \cup KeptParts)])'
      BY <1>2, <1>t DEF SweepOne, ExpireOne, KeptBuilds, Remove, RestTyped
    <2>2. (sweeping \subseteq Ids)' /\ (worker \in {"Down", "Sweep", "SweepBase", "Up"})'
      BY <1>2, <1>t DEF SweepOne, RestTyped
    <2> QED BY <1>2, <2>1, <2>2, <1>t, TypeSplitsNext DEF SweepOne, RestTyped, BaseTyped
  <1>3. CASE SweepBase
    <2>1. BaseTyped'
      BY <1>3, <1>t, RecoverTypes DEF SweepBase, BaseTyped
    <2>2. (faults \in 0 .. MaxFaults)'
      BY <1>3, <1>t, FaultTypes DEF SweepBase
    <2>3. (flock \in Ids \cup {Worker, Null})' /\ (worker \in {"Down", "Sweep", "SweepBase", "Up"})'
      BY <1>3, <1>t DEF SweepBase, RestTyped
    <2> QED BY <1>3, <2>1, <2>2, <2>3, <1>t, TypeSplitsNext DEF SweepBase, RestTyped
  <1>4. CASE LowerTotal
    <2>1. (faults \in 0 .. MaxFaults)'
      BY <1>4, <1>t, FaultTypes DEF LowerTotal
    <2> QED BY <1>4, <2>1, <1>t, TypeSplitsNext DEF LowerTotal, RestTyped, BaseTyped
  <1>5. CASE RemakePool
    <2>1. BaseTyped'
      BY <1>5 DEF RemakePool, BaseTyped, Base
    <2>2. (parts \in [Ids -> SUBSET (JobParts \cup KeptParts)])'
          /\ (last \in [Processes -> Times \cup {Null}])'
      BY <1>5, <1>t DEF RemakePool, RestTyped, Processes
    <2> QED BY <1>5, <2>1, <2>2, <1>t, TypeSplitsNext DEF RemakePool, RestTyped
  <1>6. CASE Tick
    <2>1. (now \in Times)'
      BY <1>6, <1>t, PoolAssumption DEF Tick, RestTyped, Times
    <2> QED BY <1>6, <2>1, <1>t, TypeSplitsNext DEF Tick, RestTyped, BaseTyped
  <1>7. ASSUME NEW p \in Processes, Die(p)
        PROVE  TypeOK'
    <2>1. (faults \in 0 .. MaxFaults)'
      BY <1>7, <1>t, FaultTypes DEF Die
    <2>2. (stage \in [Ids -> Stages])'
      BY <1>7, <1>t DEF Die, RestTyped, Stages
    <2>3. (gate \in [Processes -> Ids \cup {Null}])' /\ (last \in [Processes -> Times \cup {Null}])'
          /\ (flock \in Ids \cup {Worker, Null})'
      BY <1>7, <1>t DEF Die, RestTyped
    <2>4. (oversized \in BOOLEAN)' /\ (sweeping \subseteq Ids)'
          /\ (worker \in {"Down", "Sweep", "SweepBase", "Up"})'
      BY <1>7, <1>t DEF Die, RestTyped
    <2> QED BY <1>7, <2>1, <2>2, <2>3, <2>4, <1>t, TypeSplitsNext DEF Die, RestTyped, BaseTyped
  <1> QED BY <1>1, <1>2, <1>3, <1>4, <1>5, <1>6, <1>7

LEMMA TypeInit == Init => TypeOK
  <1> SUFFICES ASSUME Init
               PROVE  TypeOK
    OBVIOUS
  <1>1. BaseTyped
    BY DEF Init, BaseTyped, Base
  <1>2. faults \in 0 .. MaxFaults /\ now \in Times
    BY PoolAssumption DEF Init, Times
  <1>3. RestTyped
    BY <1>2, NullIsNone DEF Init, RestTyped, Stages
  <1> QED BY <1>1, <1>3, TypeSplits

LEMMA TypeStep == TypeOK /\ [Next]_vars => TypeOK'
  <1> SUFFICES ASSUME TypeOK, [Next]_vars
               PROVE  TypeOK'
    OBVIOUS
  <1>1. CASE UNCHANGED vars
    BY <1>1 DEF TypeOK, vars, base, locks, entries, process, bounds
  <1>2. ASSUME NEW b \in Ids, Refresh(b) \/ Lease(b) \/ Settle(b)
        PROVE  TypeOK'
    BY <1>2, RefreshTypes, LeaseTypes
  <1> QED BY <1>1, <1>2, WorkerTypes DEF Next

\* The pool has its types: a generation is a volume or none, whatever was killed
\* while it was made, and the bounded supply of UUIDs never runs out.
THEOREM PoolTypes == Spec => []TypeOK
  BY TypeInit, TypeStep, PTL DEF Spec

-----------------------------------------------------------------------------
(* What a step of a build leaves alone. *)

\* A refresh touches the base, under refresh.lock, and no entry of any build.
LEMMA RefreshFrame ==
    ASSUME TypeOK, HeldByOne, BuildsNeedWorker, NEW b \in Ids, Refresh(b)
    PROVE  /\ UNCHANGED <<parts, touched, failedAt, worker, sweeping, now>>
           /\ \A c \in Ids \ {b} : stage'[c] = stage[c]
           /\ stage[b] \in {"Queued", "Gate"} \cup RefreshStages
           /\ stage'[b] \in {"Gate", "Acquire", "Ended"} \cup RefreshStages
           /\ b \in Builds => worker = "Up"
           /\ HeldByOne'
  <1> USE DEF base, locks, entries, bounds, process
  <1>t. stage \in [Ids -> Stages]
    BY DEF TypeOK
  <1>1. UNCHANGED <<parts, touched, failedAt, worker, sweeping, now>>
    BY DEF Refresh, Start, SkipGate, EnterGate, Recover, CreateBase, CreateFails, ChargeBase,
           SnapshotNext, UpgradeNext, ExchangeRoot, RetirePrev, FailCandidate
  <1>g. ASSUME NEW s \in Stages, Goto(b, s)
        PROVE  stage'[b] = s /\ \A c \in Ids \ {b} : stage'[c] = stage[c]
    BY <1>g, <1>t DEF Goto
  <1>u. ASSUME UNCHANGED stage
        PROVE  stage'[b] = stage[b] /\ \A c \in Ids \ {b} : stage'[c] = stage[c]
    BY <1>u
  <1>n. Null \notin Ids
    BY NullIsNone
  <1>2. CASE Start(b) \/ SkipGate(b)
    <2>1. /\ \A c \in Ids \ {b} : stage'[c] = stage[c]
          /\ stage[b] \in {"Queued", "Gate"} /\ stage'[b] \in {"Gate", "Acquire"}
          /\ flock' = flock
      BY <1>2, <1>g DEF Start, SkipGate, Stages
    <2>2. b \in Builds => worker = "Up"
      BY <1>2 DEF Start, SkipGate, BuildsNeedWorker
    <2>3. HeldByOne'
      BY <2>1 DEF HeldByOne, RefreshStages
    <2> QED BY <1>1, <2>1, <2>2, <2>3
  <1>3. CASE EnterGate(b)
    <2>1. /\ \A c \in Ids \ {b} : stage'[c] = stage[c]
          /\ stage[b] = "Gate"
          /\ \/ stage'[b] = "Acquire" /\ flock' = flock
             \/ stage'[b] = "Recover" /\ flock = Null /\ flock' = b
      BY <1>3, <1>g DEF EnterGate, Stages
    <2>2. b \in Builds => worker = "Up"
      BY <2>1 DEF BuildsNeedWorker
    <2>3. HeldByOne'
      BY <2>1, <1>n DEF HeldByOne, RefreshStages
    <2> QED BY <1>1, <2>1, <2>2, <2>3 DEF RefreshStages
  <1>4. CASE \/ Recover(b) \/ CreateBase(b) \/ CreateFails(b) \/ ChargeBase(b) \/ SnapshotNext(b)
             \/ UpgradeNext(b) \/ ExchangeRoot(b) \/ RetirePrev(b) \/ FailCandidate(b)
    <2>1. stage[b] \in RefreshStages
      BY <1>4 DEF Recover, CreateBase, CreateFails, ChargeBase, SnapshotNext, UpgradeNext,
                  ExchangeRoot, RetirePrev, FailCandidate, RefreshStages
    <2>2. \/ EndRefresh(b) \/ AbortRefresh(b)
          \/ UNCHANGED <<stage, flock>>
          \/ \E s \in RefreshStages : Goto(b, s) /\ flock' = flock
      BY <1>4 DEF Recover, CreateBase, CreateFails, ChargeBase, SnapshotNext, UpgradeNext,
                  ExchangeRoot, RetirePrev, FailCandidate, RefreshStages
    <2>3. /\ \A c \in Ids \ {b} : stage'[c] = stage[c]
          /\ \/ stage'[b] \in RefreshStages /\ flock' = flock
             \/ stage'[b] \in {"Acquire", "Ended"} /\ flock' = IF flock = b THEN Null ELSE flock
      <3>1. CASE EndRefresh(b) \/ AbortRefresh(b)
        BY <3>1, <1>g DEF EndRefresh, AbortRefresh, LetGo, Stages
      <3>2. CASE UNCHANGED <<stage, flock>>
        BY <3>2, <2>1
      <3>3. CASE \E s \in RefreshStages : Goto(b, s) /\ flock' = flock
        BY <3>3, <1>g DEF RefreshStages, Stages
      <3> QED BY <2>2, <3>1, <3>2, <3>3
    <2>4. flock = b
      BY <2>1 DEF HeldByOne
    <2>5. b \in Builds => worker = "Up"
      BY <2>1 DEF BuildsNeedWorker, RefreshStages
    <2>6. HeldByOne'
      BY <2>3, <2>4 DEF HeldByOne, RefreshStages
    <2> QED BY <1>1, <2>1, <2>3, <2>5, <2>6
  <1> QED BY <1>2, <1>3, <1>4 DEF Refresh

Leased == {"Lease", "Data", "Running", "Release", "Touch", "KeepChroot", "KeepData", "KeepTree", "Private"}

\* What follows a refresh leaves the locks, the base and what follows it in use alone.
LEMMA LeaseFrame ==
    ASSUME TypeOK, NEW b \in Ids, Lease(b) \/ Settle(b)
    PROVE  /\ UNCHANGED <<root, next, gate, flock, worker, sweeping, now>>
           /\ \A c \in Ids \ {b} : stage'[c] = stage[c]
           /\ stage[b] \in {"Acquire", "Room"} \cup Leased
           /\ stage'[b] \in {"Acquire", "Room", "Ended"} \cup Leased
  <1> USE DEF base, locks, entries, bounds, process
  <1>t. stage \in [Ids -> Stages]
    BY DEF TypeOK
  <1>1. UNCHANGED <<root, next, gate, flock, worker, sweeping, now>>
    BY DEF Lease, Settle, Cancelled, ExpireKept, ReclaimKept, ReclaimPrev, EnterLease, LeaseChroot,
           LeaseData, LeaseFails, EndBuild, Release, FailBuild, TouchChroot, KeepChroot, KeepData,
           KeepTree, MakePrivate, KeepFails
  <1>2. stage[b] \in {"Acquire", "Room"} \cup Leased
    BY DEF Lease, Settle, Cancelled, ExpireKept, ReclaimKept, ReclaimPrev, EnterLease, LeaseChroot,
           LeaseData, LeaseFails, EndBuild, Release, FailBuild, TouchChroot, KeepChroot, KeepData,
           KeepTree, MakePrivate, KeepFails, Leased
  <1>3. UNCHANGED stage \/ \E s \in {"Room", "Ended"} \cup Leased : Goto(b, s)
    BY DEF Lease, Settle, Cancelled, ExpireKept, ReclaimKept, ReclaimPrev, EnterLease, LeaseChroot,
           LeaseData, LeaseFails, EndBuild, Release, FailBuild, TouchChroot, KeepChroot, KeepData,
           KeepTree, MakePrivate, KeepFails, Leased
  <1>4. CASE UNCHANGED stage
    BY <1>1, <1>2, <1>4
  <1>5. ASSUME NEW s \in {"Room", "Ended"} \cup Leased, Goto(b, s)
        PROVE  stage'[b] = s /\ \A c \in Ids \ {b} : stage'[c] = stage[c]
    BY <1>5, <1>t DEF Goto
  <1> QED BY <1>1, <1>2, <1>3, <1>4, <1>5

LEMMA LocksStep ==
    ASSUME TypeOK, HeldByOne, BuildsNeedWorker, [Next]_vars
    PROVE  HeldByOne' /\ BuildsNeedWorker'
  <1> USE DEF base, locks, entries, bounds, process
  <1>t. stage \in [Ids -> Stages]
    BY DEF TypeOK
  <1>i. Builds \subseteq Ids
    BY DEF Ids
  <1>1. ASSUME NEW b \in Ids, Refresh(b)
        PROVE  HeldByOne' /\ BuildsNeedWorker'
    <2>1. BuildsNeedWorker'
      BY <1>1, <1>i, RefreshFrame DEF BuildsNeedWorker
    <2> QED BY <1>1, <2>1, RefreshFrame
  <1>2. ASSUME NEW b \in Ids, Lease(b) \/ Settle(b)
        PROVE  HeldByOne' /\ BuildsNeedWorker'
    <2>1. HeldByOne'
      BY <1>2, LeaseFrame DEF HeldByOne, RefreshStages, Leased
    <2>2. BuildsNeedWorker'
      BY <1>2, <1>i, LeaseFrame DEF BuildsNeedWorker, Leased
    <2> QED BY <2>1, <2>2
  <1>3. CASE UNCHANGED vars
    BY <1>3 DEF HeldByOne, BuildsNeedWorker, vars
  <1>4. CASE WorkerStarts \/ SweepOne \/ LowerTotal \/ RemakePool \/ Tick
    <2>1. UNCHANGED <<stage, flock>> /\ (worker = "Up" => worker' = "Up")
      BY <1>4 DEF WorkerStarts, SweepOne, LowerTotal, RemakePool, Tick
    <2> QED BY <2>1 DEF HeldByOne, BuildsNeedWorker
  <1>5. CASE SweepBase
    <2>1. stage' = stage /\ worker = "SweepBase" /\ (flock' = flock \/ flock \notin Ids)
      BY <1>5, NullIsNone DEF SweepBase
    <2>2. HeldByOne'
      BY <2>1 DEF HeldByOne
    <2> QED BY <2>1, <2>2 DEF BuildsNeedWorker
  <1>6. ASSUME NEW p \in Processes, Die(p)
        PROVE  HeldByOne' /\ BuildsNeedWorker'
    <2>1. \A b \in Ids : \/ stage'[b] = stage[b] /\ (ProcessOf(b) # p \/ stage[b] = "Queued")
                         \/ stage'[b] \in {"Ended", "Queued"} /\ ProcessOf(b) = p
      BY <1>6 DEF Die
    <2>2. HeldByOne'
      <3> SUFFICES ASSUME NEW b \in Ids, stage'[b] \in RefreshStages
                   PROVE  flock' = b
        BY DEF HeldByOne
      <3>1. stage'[b] = stage[b] /\ ProcessOf(b) # p
        BY <2>1 DEF RefreshStages
      <3>2. flock = b
        BY <3>1 DEF HeldByOne
      <3>3. b # p
        BY <3>1, PoolAssumption DEF ProcessOf, Processes, Ids
      <3> QED BY <1>6, <3>1, <3>2, <3>3 DEF Die
    <2>3. BuildsNeedWorker'
      BY <2>1, <1>6, <1>i DEF BuildsNeedWorker, Die, ProcessOf
    <2> QED BY <2>2, <2>3
  <1> QED BY <1>1, <1>2, <1>3, <1>4, <1>5, <1>6 DEF Next

-----------------------------------------------------------------------------
(* The volumes of a build. *)

\* A build nothing was done to, whose kept entries may have gone.
LEMMA VolumesFrame ==
    ASSUME NEW c \in Builds, VolumesAt(c), stage'[c] = stage[c],
           parts'[c] \cap JobParts = parts[c] \cap JobParts,
           worker' = worker, sweeping' = sweeping
    PROVE  VolumesAt(c)'
  <1>1. HasNone(c)' <=> HasNone(c)
    BY DEF HasNone
  <1>2. ("Job" \in parts[c])' <=> "Job" \in parts[c]
    BY DEF JobParts
  <1>3. (JobParts \subseteq parts[c])' <=> JobParts \subseteq parts[c]
    BY DEF JobParts
  <1> QED BY <1>1, <1>2, <1>3 DEF VolumesAt, Unleased, RefreshStages

\* Expiring a kept build deletes one of its entries, and nothing of a running one.
LEMMA ExpireFrame ==
    ASSUME TypeOK, ExpireOne
    PROVE  \E k \in KeptBuilds : \E e \in KeptParts :
              /\ ~Fresh(k)
              /\ parts' = [parts EXCEPT ![k] = @ \ {e}]
  <1>1. PICK k \in KeptBuilds : ~Fresh(k) /\ Remove(k, {FirstKept(k)})
    BY DEF ExpireOne
  <1>2. FirstKept(k) \in KeptParts
    BY DEF FirstKept, KeptParts
  <1> QED BY <1>1, <1>2 DEF Remove

\* Only entries of kept builds go.
OnlyKeptGo ==
    \A c \in Ids : /\ parts'[c] \subseteq parts[c]
                   /\ parts'[c] \cap JobParts = parts[c] \cap JobParts

LEMMA ExpireOnlyKept == TypeOK /\ ExpireOne => OnlyKeptGo
  <1> SUFFICES ASSUME TypeOK, ExpireOne
               PROVE  OnlyKeptGo
    OBVIOUS
  <1>1. PICK k \in KeptBuilds : \E e \in KeptParts : parts' = [parts EXCEPT ![k] = @ \ {e}]
    BY ExpireFrame
  <1>2. parts \in [Ids -> SUBSET (JobParts \cup KeptParts)] /\ k \in Ids
    BY DEF TypeOK, KeptBuilds
  <1> QED BY <1>1, <1>2 DEF OnlyKeptGo, JobParts, KeptParts

LEMMA ReclaimOnlyKept ==
    ASSUME TypeOK, NEW b \in Ids, ReclaimKept(b)
    PROVE  OnlyKeptGo
  <1>1. PICK k \in OldestKept : parts' = [parts EXCEPT ![k] = @ \ KeptParts]
    BY DEF ReclaimKept, Remove
  <1>2. parts \in [Ids -> SUBSET (JobParts \cup KeptParts)] /\ k \in Ids
    BY DEF TypeOK, KeptBuilds, OldestKept
  <1> QED BY <1>1, <1>2 DEF OnlyKeptGo, JobParts, KeptParts

LEMMA RefreshVolumes ==
    ASSUME TypeOK, HeldByOne, BuildsNeedWorker, VolumesInStep, NEW b \in Ids, Refresh(b)
    PROVE  VolumesInStep'
  <1> SUFFICES ASSUME NEW c \in Builds
               PROVE  VolumesAt(c)'
    BY DEF VolumesInStep
  <1>1. VolumesAt(c) /\ c \in Ids
    BY DEF VolumesInStep, Ids
  <1>2. UNCHANGED <<parts, worker, sweeping>>
    BY RefreshFrame
  <1>3. CASE c # b
    <2>1. stage'[c] = stage[c]
      BY <1>1, <1>3, RefreshFrame
    <2> QED BY <1>1, <1>2, <2>1, VolumesFrame
  <1>4. CASE c = b
    <2>1. stage[c] \in Unleased /\ stage'[c] \in Unleased \cup {"Ended"}
      BY <1>4, RefreshFrame DEF Unleased
    <2>2. HasNone(c)
      BY <1>1, <2>1 DEF VolumesAt
    <2>3. HasNone(c)'
      BY <1>2, <2>2 DEF HasNone
    <2> QED BY <2>1, <2>3 DEF VolumesAt, Unleased, RefreshStages
  <1> QED BY <1>3, <1>4

LEMMA LeaseVolumes ==
    ASSUME TypeOK, VolumesInStep, NEW b \in Ids, Lease(b)
    PROVE  VolumesInStep'
  <1> USE DEF base, locks, entries, bounds, process
  <1> SUFFICES ASSUME NEW c \in Builds
               PROVE  VolumesAt(c)'
    BY DEF VolumesInStep
  <1>1. VolumesAt(c) /\ c \in Ids
    BY DEF VolumesInStep, Ids
  <1>2. UNCHANGED <<worker, sweeping>> /\ (c # b => stage'[c] = stage[c])
    BY <1>1, LeaseFrame
  <1>t. parts \in [Ids -> SUBSET (JobParts \cup KeptParts)] /\ stage \in [Ids -> Stages]
    BY DEF TypeOK
  <1>g. ASSUME NEW s, Goto(b, s)
        PROVE  stage'[b] = s
    BY <1>g, <1>t DEF Goto
  <1>3. CASE c # b
    <2>1. parts'[c] \cap JobParts = parts[c] \cap JobParts
      <3>1. CASE ExpireKept(b) \/ ReclaimKept(b)
        BY <3>1, <1>1, ExpireOnlyKept, ReclaimOnlyKept DEF ExpireKept, OnlyKeptGo
      <3>2. CASE ~(ExpireKept(b) \/ ReclaimKept(b))
        BY <3>2, <1>1, <1>3, <1>t
           DEF Lease, Cancelled, ReclaimPrev, EnterLease, LeaseChroot, LeaseData, LeaseFails, Remove
      <3> QED BY <3>1, <3>2
    <2> QED BY <1>1, <1>2, <1>3, <2>1, VolumesFrame
  <1>4. CASE c = b
    <2>1. CASE Cancelled(b)
      <3>1. stage[c] \in Unleased /\ stage'[c] = "Ended" /\ parts' = parts
        BY <2>1, <1>4, <1>g DEF Cancelled, Unleased
      <3>2. HasNone(c)'
        BY <3>1, <1>1 DEF VolumesAt, HasNone
      <3> QED BY <3>1, <3>2 DEF VolumesAt, Unleased, RefreshStages
    <2>2. CASE ExpireKept(b)
      <3>1. stage[c] \in Unleased /\ stage'[c] \in {"Acquire", "Room"}
        BY <2>2, <1>4, <1>g DEF ExpireKept, Unleased
      <3>2. parts'[c] \cap JobParts = parts[c] \cap JobParts
        BY <2>2, <1>1, ExpireOnlyKept DEF ExpireKept, OnlyKeptGo
      <3>3. HasNone(c)'
        BY <3>1, <3>2, <1>1 DEF VolumesAt, HasNone
      <3> QED BY <3>1, <3>3 DEF VolumesAt
    <2>3. CASE ReclaimKept(b)
      <3>1. stage'[c] = stage[c]
        BY <2>3 DEF ReclaimKept
      <3>2. parts'[c] \cap JobParts = parts[c] \cap JobParts
        BY <2>3, <1>1, ReclaimOnlyKept DEF OnlyKeptGo
      <3> QED BY <3>1, <3>2, <1>1, <1>2, VolumesFrame
    <2>4. CASE ReclaimPrev(b)
      BY <2>4, <1>1, VolumesFrame DEF ReclaimPrev
    <2>5. CASE EnterLease(b)
      <3>1. stage[c] \in Unleased /\ stage'[c] \in {"Lease", "Ended"}
        BY <2>5, <1>4, <1>g DEF EnterLease, Unleased
      <3>2. HasNone(c)
        BY <3>1, <1>1 DEF VolumesAt
      <3>3. HasNone(c)'
        BY <2>5, <3>2, <1>t, <1>4 DEF EnterLease, HasNone, Remove
      <3> QED BY <3>1, <3>3 DEF VolumesAt, Unleased, RefreshStages
    <2>6. CASE LeaseChroot(b)
      <3>1. stage'[c] = "Data" /\ "Job" \in parts'[c]
        BY <2>6, <1>4, <1>g, <1>t DEF LeaseChroot
      <3> QED BY <3>1 DEF VolumesAt, Unleased, RefreshStages
    <2>7. CASE LeaseData(b)
      <3>1. stage[c] = "Data" /\ stage'[c] = "Running"
        BY <2>7, <1>4, <1>g DEF LeaseData
      <3>2. "Job" \in parts[c]
        BY <3>1, <1>1 DEF VolumesAt
      <3>3. JobParts \subseteq parts'[c]
        BY <2>7, <3>2, <1>t, <1>4 DEF LeaseData, JobParts
      <3> QED BY <3>1, <3>3 DEF VolumesAt, Unleased, RefreshStages
    <2>8. CASE LeaseFails(b)
      <3>1. stage'[c] = "Ended" /\ HasNone(c)'
        BY <2>8, <1>4, <1>g, <1>t DEF LeaseFails, Remove, HasNone
      <3> QED BY <3>1 DEF VolumesAt, Unleased, RefreshStages
    <2> QED BY <2>1, <2>2, <2>3, <2>4, <2>5, <2>6, <2>7, <2>8 DEF Lease
  <1> QED BY <1>3, <1>4

LEMMA SettleVolumes ==
    ASSUME TypeOK, VolumesInStep, NEW b \in Ids, Settle(b)
    PROVE  VolumesInStep'
  <1> USE DEF base, locks, entries, bounds, process
  <1> SUFFICES ASSUME NEW c \in Builds
               PROVE  VolumesAt(c)'
    BY DEF VolumesInStep
  <1>1. VolumesAt(c) /\ c \in Ids
    BY DEF VolumesInStep, Ids
  <1>2. UNCHANGED <<worker, sweeping>> /\ (c # b => stage'[c] = stage[c])
    BY <1>1, LeaseFrame
  <1>t. parts \in [Ids -> SUBSET (JobParts \cup KeptParts)] /\ stage \in [Ids -> Stages]
    BY DEF TypeOK
  <1>g. ASSUME NEW s, Goto(b, s)
        PROVE  stage'[b] = s
    BY <1>g, <1>t DEF Goto
  <1>3. CASE c # b
    <2>1. parts'[c] = parts[c]
      BY <1>1, <1>3, <1>t DEF Settle, EndBuild, Release, FailBuild, TouchChroot, KeepChroot, KeepData,
                              KeepTree, MakePrivate, KeepFails, Remove
    <2> QED BY <1>1, <1>2, <1>3, <2>1, VolumesFrame
  <1>4. CASE c = b
    <2>1. CASE EndBuild(b)
      <3>1. stage'[c] = "Release"
        BY <2>1, <1>4, <1>g DEF EndBuild
      <3> QED BY <3>1 DEF VolumesAt, Unleased, RefreshStages
    <2>2. CASE Release(b)
      <3>1. stage'[c] = "Release" \/ (stage'[c] = "Ended" /\ HasNone(c)')
        BY <2>2, <1>4, <1>g, <1>t DEF Release, Remove, HasNone, JobParts
      <3> QED BY <3>1 DEF VolumesAt, Unleased, RefreshStages
    <2>3. CASE FailBuild(b) \/ TouchChroot(b)
      <3>1. /\ stage[c] \in {"Running", "Touch"} /\ stage'[c] \in {"Touch", "KeepChroot"}
            /\ parts'[c] = parts[c]
        BY <2>3, <1>4, <1>g DEF FailBuild, TouchChroot
      <3> QED BY <3>1, <1>1 DEF VolumesAt, Unleased, RefreshStages
    <2>4. CASE KeepChroot(b)
      <3>1. stage'[c] = "KeepData" /\ "Job" \notin parts'[c]
        BY <2>4, <1>4, <1>g, <1>t DEF KeepChroot
      <3> QED BY <3>1 DEF VolumesAt, Unleased, RefreshStages
    <2>5. CASE KeepData(b)
      <3>1. stage[c] = "KeepData" /\ stage'[c] = "KeepTree"
        BY <2>5, <1>4, <1>g DEF KeepData
      <3>2. "Job" \notin parts[c]
        BY <3>1, <1>1 DEF VolumesAt
      <3>3. HasNone(c)'
        BY <2>5, <3>2, <1>4, <1>t DEF KeepData, HasNone, JobParts
      <3> QED BY <3>1, <3>3 DEF VolumesAt, Unleased, RefreshStages
    <2>6. CASE KeepTree(b)
      <3>1. stage[c] = "KeepTree" /\ stage'[c] = "Private"
        BY <2>6, <1>4, <1>g DEF KeepTree
      <3>2. HasNone(c)
        BY <3>1, <1>1 DEF VolumesAt
      <3>3. HasNone(c)'
        BY <2>6, <3>2, <1>4, <1>t DEF KeepTree, HasNone, JobParts
      <3> QED BY <3>1, <3>3 DEF VolumesAt, Unleased, RefreshStages
    <2>7. CASE MakePrivate(b)
      <3>1. stage[c] = "Private" /\ stage'[c] = "Ended" /\ parts' = parts
        BY <2>7, <1>4, <1>g DEF MakePrivate
      <3>2. HasNone(c)'
        BY <3>1, <1>1 DEF VolumesAt, HasNone
      <3> QED BY <3>1, <3>2 DEF VolumesAt, Unleased, RefreshStages
    <2>8. CASE KeepFails(b)
      <3>1. stage'[c] = "Ended" /\ HasNone(c)'
        BY <2>8, <1>4, <1>g, <1>t DEF KeepFails, Remove, HasNone
      <3> QED BY <3>1 DEF VolumesAt, Unleased, RefreshStages
    <2> QED BY <2>1, <2>2, <2>3, <2>4, <2>5, <2>6, <2>7, <2>8 DEF Settle
  <1> QED BY <1>3, <1>4

LEMMA WorkerVolumes ==
    ASSUME TypeOK, BuildsNeedWorker, VolumesInStep,
           \/ WorkerStarts \/ SweepOne \/ SweepBase \/ LowerTotal \/ RemakePool \/ Tick
           \/ \E p \in Processes : Die(p)
    PROVE  VolumesInStep'
  <1> USE DEF base, locks, entries, bounds, process
  <1> SUFFICES ASSUME NEW c \in Builds
               PROVE  VolumesAt(c)'
    BY DEF VolumesInStep
  <1>1. VolumesAt(c) /\ c \in Ids
    BY DEF VolumesInStep, Ids
  <1>t. parts \in [Ids -> SUBSET (JobParts \cup KeptParts)] /\ stage \in [Ids -> Stages]
    BY DEF TypeOK
  <1>i. ASSUME worker # "Up"
        PROVE  stage[c] \in {"Queued", "Ended"} /\ (stage[c] = "Queued" => HasNone(c))
    BY <1>i, <1>1 DEF BuildsNeedWorker, VolumesAt, Unleased
  <1>2. CASE WorkerStarts
    <2>1. /\ worker = "Down" /\ worker' = "Sweep" /\ sweeping' = LiveBuilds
          /\ stage' = stage /\ parts' = parts
      BY <1>2 DEF WorkerStarts
    <2>2. stage[c] \in {"Queued", "Ended"} /\ (stage[c] = "Queued" => HasNone(c))
      BY <2>1, <1>i
    <2>3. HasNone(c) \/ c \in LiveBuilds
      BY <1>1 DEF HasNone, LiveBuilds
    <2>4. HasNone(c)' <=> HasNone(c)
      BY <2>1 DEF HasNone
    <2> QED BY <2>1, <2>2, <2>3, <2>4 DEF VolumesAt, Unleased, RefreshStages
  <1>3. CASE SweepOne
    <2>1. worker = "Sweep" /\ stage' = stage
      BY <1>3 DEF SweepOne
    <2>2. stage[c] \in {"Queued", "Ended"} /\ (stage[c] = "Queued" => HasNone(c))
      BY <2>1, <1>i
    <2>3. ASSUME NEW d \in sweeping, Remove(d, JobParts), sweeping' = sweeping \ {d}, UNCHANGED worker
          PROVE  VolumesAt(c)'
      <3>1. (c = d \/ HasNone(c)) => HasNone(c)'
        BY <2>3, <1>1, <1>t DEF Remove, HasNone
      <3>2. c # d /\ c \in sweeping => c \in sweeping'
        BY <2>3
      <3> QED BY <1>1, <2>1, <2>2, <2>3, <3>1, <3>2 DEF VolumesAt, Unleased, RefreshStages
    <2>4. CASE sweeping = {} /\ ExpireOne /\ UNCHANGED process
      <3>1. parts'[c] \cap JobParts = parts[c] \cap JobParts
        BY <2>4, <1>1, ExpireOnlyKept DEF OnlyKeptGo
      <3> QED BY <1>1, <2>1, <2>4, <3>1, VolumesFrame
    <2>5. CASE sweeping = {} /\ worker' = "SweepBase" /\ UNCHANGED <<sweeping, parts>>
      <3>1. HasNone(c)
        BY <1>1, <2>1, <2>2, <2>5 DEF VolumesAt
      <3>2. HasNone(c)'
        BY <3>1, <2>5 DEF HasNone
      <3> QED BY <2>1, <2>2, <3>2 DEF VolumesAt, Unleased, RefreshStages
    <2> QED BY <1>3, <2>3, <2>4, <2>5 DEF SweepOne
  <1>4. CASE SweepBase
    <2>1. worker = "SweepBase" /\ UNCHANGED <<stage, parts>>
      BY <1>4 DEF SweepBase
    <2>2. stage[c] \in {"Queued", "Ended"} /\ HasNone(c)
      BY <2>1, <1>i, <1>1 DEF VolumesAt
    <2>3. HasNone(c)'
      BY <2>1, <2>2 DEF HasNone
    <2> QED BY <2>1, <2>2, <2>3 DEF VolumesAt, Unleased, RefreshStages
  <1>5. CASE LowerTotal \/ Tick
    BY <1>5, <1>1, VolumesFrame DEF LowerTotal, Tick
  <1>6. CASE RemakePool
    <2>1. stage'[c] \in {"Queued", "Ended"} /\ HasNone(c)'
      BY <1>6, <1>1 DEF RemakePool, HasNone
    <2> QED BY <2>1 DEF VolumesAt, Unleased, RefreshStages
  <1>7. ASSUME NEW p \in Processes, Die(p)
        PROVE  VolumesAt(c)'
    <2>1. parts' = parts
      BY <1>7 DEF Die
    <2>2. CASE p = Worker
      <3>1. /\ worker' = "Down"
            /\ stage'[c] = "Ended" \/ (stage'[c] = "Queued" /\ stage[c] = "Queued")
        BY <1>7, <2>2, <1>1 DEF Die, ProcessOf
      <3>2. stage[c] = "Queued" => HasNone(c)'
        BY <1>1, <2>1 DEF VolumesAt, Unleased, HasNone
      <3> QED BY <3>1, <3>2 DEF VolumesAt, Unleased, RefreshStages
    <2>3. CASE p # Worker
      <3>1. UNCHANGED <<worker, sweeping>> /\ stage'[c] = stage[c]
        BY <1>7, <2>3, <1>1 DEF Die, ProcessOf
      <3> QED BY <1>1, <2>1, <3>1, VolumesFrame
    <2> QED BY <2>2, <2>3
  <1> QED BY <1>2, <1>3, <1>4, <1>5, <1>6, <1>7

LEMMA VolumesStep ==
    ASSUME TypeOK, HeldByOne, BuildsNeedWorker, VolumesInStep, [Next]_vars
    PROVE  VolumesInStep'
  <1>1. CASE UNCHANGED vars
    BY <1>1 DEF VolumesInStep, VolumesAt, HasNone, vars, entries, process
  <1>2. ASSUME NEW b \in Ids, Refresh(b) \/ Lease(b) \/ Settle(b)
        PROVE  VolumesInStep'
    BY <1>2, RefreshVolumes, LeaseVolumes, SettleVolumes
  <1> QED BY <1>1, <1>2, WorkerVolumes DEF Next

-----------------------------------------------------------------------------
(* The chroots kept for inspection. *)

LEMMA KeptFrame ==
    ASSUME TypeOK, TypeOK', NEW c \in Builds, KeptAt(c), stage'[c] = stage[c],
           "Kept" \in parts'[c] => "Kept" \in parts[c],
           touched'[c] = touched[c], failedAt'[c] = failedAt[c], now <= now'
    PROVE  KeptAt(c)'
  <1>1. c \in Ids
    BY DEF Ids
  <1>2. failedAt[c] # Null => failedAt[c] \in Nat
    BY <1>1, NullIsNone DEF TypeOK
  <1>3. now \in Nat /\ now' \in Nat
    BY NullIsNone DEF TypeOK
  <1>4. (stage[c] = "Touch" => failedAt[c] # Null /\ failedAt[c] <= now)'
    BY <1>2, <1>3 DEF KeptAt
  <1>5. Stamped(c) <=> Stamped(c)'
    BY DEF Stamped
  <1> QED BY <1>4, <1>5 DEF KeptAt

LEMMA RefreshKept ==
    ASSUME TypeOK, TypeOK', HeldByOne, BuildsNeedWorker, KeptInStep, NEW b \in Ids, Refresh(b)
    PROVE  KeptInStep'
  <1> SUFFICES ASSUME NEW c \in Builds
               PROVE  KeptAt(c)'
    BY DEF KeptInStep
  <1>1. KeptAt(c) /\ c \in Ids
    BY DEF KeptInStep, Ids
  <1>2. UNCHANGED <<parts, touched, failedAt, now>>
    BY RefreshFrame
  <1>n. now \in Nat
    BY NullIsNone DEF TypeOK
  <1>3. CASE c # b
    <2>1. stage'[c] = stage[c]
      BY <1>1, <1>3, RefreshFrame
    <2> QED BY <1>1, <1>2, <1>n, <2>1, KeptFrame
  <1>4. CASE c = b
    <2>1. /\ stage[c] \in {"Queued", "Gate"} \cup RefreshStages
          /\ stage'[c] \in {"Gate", "Acquire", "Ended"} \cup RefreshStages
      BY <1>4, RefreshFrame
    <2>2. "Kept" \notin parts'[c]
      BY <1>1, <1>2, <2>1 DEF KeptAt, RefreshStages
    <2> QED BY <2>1, <2>2 DEF KeptAt, RefreshStages
  <1> QED BY <1>3, <1>4

LEMMA LeaseKept ==
    ASSUME TypeOK, TypeOK', KeptInStep, NEW b \in Ids, Lease(b)
    PROVE  KeptInStep'
  <1> USE DEF base, locks, entries, bounds, process
  <1> SUFFICES ASSUME NEW c \in Builds
               PROVE  KeptAt(c)'
    BY DEF KeptInStep
  <1>1. KeptAt(c) /\ c \in Ids
    BY DEF KeptInStep, Ids
  <1>2. now' = now /\ now \in Nat /\ (c # b => stage'[c] = stage[c])
    BY <1>1, LeaseFrame, NullIsNone DEF TypeOK
  <1>t. /\ parts \in [Ids -> SUBSET (JobParts \cup KeptParts)] /\ stage \in [Ids -> Stages]
        /\ touched \in [Ids -> Times]
    BY DEF TypeOK
  <1>3. "Kept" \in parts'[c] => "Kept" \in parts[c]
    <2>1. CASE ExpireKept(b) \/ ReclaimKept(b)
      BY <2>1, <1>1, ExpireOnlyKept, ReclaimOnlyKept DEF ExpireKept, OnlyKeptGo
    <2>2. CASE ~(ExpireKept(b) \/ ReclaimKept(b))
      BY <2>2, <1>1, <1>t
         DEF Lease, Cancelled, ReclaimPrev, EnterLease, LeaseChroot, LeaseData, LeaseFails, Remove
    <2> QED BY <2>1, <2>2
  <1>4. failedAt' = failedAt /\ (c # b => touched'[c] = touched[c])
    BY <1>1, <1>t DEF Lease, Cancelled, ExpireKept, ReclaimKept, ReclaimPrev, EnterLease, LeaseChroot,
                      LeaseData, LeaseFails
  <1>5. CASE c # b
    BY <1>1, <1>2, <1>3, <1>4, <1>5, KeptFrame
  <1>6. CASE c = b
    <2>1. stage[c] \in {"Acquire", "Room", "Lease", "Data"}
      BY <1>6 DEF Lease, Cancelled, ExpireKept, ReclaimKept, ReclaimPrev, EnterLease, LeaseChroot,
                  LeaseData, LeaseFails
    <2>2. "Kept" \notin parts'[c]
      BY <1>1, <1>3, <2>1 DEF KeptAt
    <2>3. UNCHANGED stage \/ \E s \in {"Room", "Lease", "Data", "Running", "Ended"} : Goto(b, s)
      BY DEF Lease, Cancelled, ExpireKept, ReclaimKept, ReclaimPrev, EnterLease, LeaseChroot,
             LeaseData, LeaseFails
    <2>4. stage'[c] \notin {"Touch", "KeepChroot"}
      BY <1>6, <1>t, <2>1, <2>3 DEF Goto
    <2> QED BY <2>2, <2>4 DEF KeptAt
  <1> QED BY <1>5, <1>6

LEMMA SettleKept ==
    ASSUME TypeOK, TypeOK', KeptInStep, NEW b \in Ids, Settle(b)
    PROVE  KeptInStep'
  <1> USE DEF base, locks, entries, bounds, process
  <1> SUFFICES ASSUME NEW c \in Builds
               PROVE  KeptAt(c)'
    BY DEF KeptInStep
  <1>1. KeptAt(c) /\ c \in Ids
    BY DEF KeptInStep, Ids
  <1>2. now' = now /\ now \in Nat /\ (c # b => stage'[c] = stage[c])
    BY <1>1, LeaseFrame, NullIsNone DEF TypeOK
  <1>t. /\ parts \in [Ids -> SUBSET (JobParts \cup KeptParts)] /\ stage \in [Ids -> Stages]
        /\ touched \in [Ids -> Times] /\ failedAt \in [Ids -> Times \cup {Null}]
        /\ now \in Times
    BY DEF TypeOK
  <1>g. ASSUME NEW s, Goto(b, s)
        PROVE  stage'[b] = s
    BY <1>g, <1>t DEF Goto
  <1>3. CASE c # b
    <2>1. parts'[c] = parts[c] /\ touched'[c] = touched[c] /\ failedAt'[c] = failedAt[c]
      BY <1>1, <1>3, <1>t DEF Settle, EndBuild, Release, FailBuild, TouchChroot, KeepChroot, KeepData,
                              KeepTree, MakePrivate, KeepFails, Remove
    <2> QED BY <1>1, <1>2, <1>3, <2>1, KeptFrame
  <1>4. CASE c = b
    <2>1. CASE EndBuild(b)
      <3>1. stage[c] = "Running" /\ stage'[c] = "Release" /\ parts' = parts
        BY <2>1, <1>4, <1>g DEF EndBuild
      <3> QED BY <3>1, <1>1 DEF KeptAt
    <2>2. CASE Release(b)
      <3>1. stage[c] = "Release" /\ stage'[c] \in {"Release", "Ended"}
        BY <2>2, <1>4, <1>g DEF Release
      <3>2. "Kept" \notin parts'[c]
        BY <2>2, <3>1, <1>1, <1>4, <1>t DEF Release, Remove, KeptAt
      <3> QED BY <3>1, <3>2 DEF KeptAt
    <2>3. CASE FailBuild(b)
      <3>1. stage[c] = "Running" /\ stage'[c] = "Touch" /\ parts' = parts /\ failedAt'[c] = now
        BY <2>3, <1>4, <1>g, <1>t DEF FailBuild
      <3>2. now # Null /\ now <= now'
        BY <1>t, <1>2, NullIsNone
      <3> QED BY <3>1, <3>2, <1>1, <1>2 DEF KeptAt
    <2>4. CASE TouchChroot(b)
      <3>1. /\ stage[c] = "Touch" /\ stage'[c] = "KeepChroot" /\ parts' = parts
            /\ failedAt' = failedAt /\ touched'[c] = now
        BY <2>4, <1>4, <1>g, <1>t DEF TouchChroot
      <3>2. Stamped(c)'
        BY <3>1, <1>1 DEF KeptAt, Stamped
      <3> QED BY <3>1, <3>2, <1>1 DEF KeptAt
    <2>5. CASE KeepChroot(b)
      <3>1. /\ stage[c] = "KeepChroot" /\ stage'[c] = "KeepData"
            /\ failedAt' = failedAt /\ touched' = touched
        BY <2>5, <1>4, <1>g DEF KeepChroot
      <3>2. Stamped(c)'
        BY <3>1, <1>1 DEF KeptAt, Stamped
      <3> QED BY <3>1, <3>2 DEF KeptAt
    <2>6. CASE KeepData(b) \/ KeepTree(b) \/ MakePrivate(b)
      <3>1. /\ stage'[c] \in {"KeepTree", "Private", "Ended"}
            /\ failedAt' = failedAt /\ touched' = touched
        BY <2>6, <1>4, <1>g DEF KeepData, KeepTree, MakePrivate
      <3>2. "Kept" \in parts'[c] => "Kept" \in parts[c]
        BY <2>6, <1>4, <1>t DEF KeepData, KeepTree, MakePrivate
      <3>3. Stamped(c)' <=> Stamped(c)
        BY <3>1 DEF Stamped
      <3> QED BY <3>1, <3>2, <3>3, <1>1 DEF KeptAt
    <2>7. CASE KeepFails(b)
      <3>1. stage'[c] = "Ended" /\ "Kept" \notin parts'[c]
        BY <2>7, <1>4, <1>g, <1>t DEF KeepFails, Remove, KeptParts
      <3> QED BY <3>1 DEF KeptAt
    <2> QED BY <2>1, <2>2, <2>3, <2>4, <2>5, <2>6, <2>7 DEF Settle
  <1> QED BY <1>3, <1>4

LEMMA WorkerKept ==
    ASSUME TypeOK, TypeOK', KeptInStep,
           \/ WorkerStarts \/ SweepOne \/ SweepBase \/ LowerTotal \/ RemakePool \/ Tick
           \/ \E p \in Processes : Die(p)
    PROVE  KeptInStep'
  <1> USE DEF base, locks, entries, bounds, process
  <1> SUFFICES ASSUME NEW c \in Builds
               PROVE  KeptAt(c)'
    BY DEF KeptInStep
  <1>1. KeptAt(c) /\ c \in Ids
    BY DEF KeptInStep, Ids
  <1>t. /\ parts \in [Ids -> SUBSET (JobParts \cup KeptParts)] /\ stage \in [Ids -> Stages]
        /\ now \in Nat
    BY NullIsNone DEF TypeOK
  <1>2. UNCHANGED <<touched, failedAt>> /\ now <= now'
    BY <1>t DEF WorkerStarts, SweepOne, SweepBase, LowerTotal, RemakePool, Tick, Die
  <1>3. "Kept" \in parts'[c] => "Kept" \in parts[c]
    <2>1. CASE SweepOne
      <3>1. CASE ExpireOne
        BY <3>1, <1>1, ExpireOnlyKept DEF OnlyKeptGo
      <3>2. CASE ~ExpireOne
        <4>1. parts' = parts \/ \E d \in sweeping : Remove(d, JobParts)
          BY <2>1, <3>2 DEF SweepOne
        <4> QED BY <4>1, <1>1, <1>t DEF Remove
      <3> QED BY <3>1, <3>2
    <2>2. CASE ~SweepOne
      BY <2>2, <1>1, <1>t DEF WorkerStarts, SweepBase, LowerTotal, RemakePool, Tick, Die
    <2> QED BY <2>1, <2>2
  <1>4. \/ stage'[c] = stage[c]
        \/ stage[c] # "Queued" /\ stage'[c] = "Ended"
    BY <1>1 DEF WorkerStarts, SweepOne, SweepBase, LowerTotal, RemakePool, Tick, Die, ProcessOf
  <1>5. CASE stage'[c] = stage[c]
    BY <1>1, <1>2, <1>3, <1>5, KeptFrame
  <1>6. CASE stage[c] # "Queued" /\ stage'[c] = "Ended"
    <2>1. Stamped(c)' <=> Stamped(c)
      BY <1>2 DEF Stamped
    <2> QED BY <1>1, <1>3, <1>6, <2>1 DEF KeptAt
  <1> QED BY <1>4, <1>5, <1>6

LEMMA KeptStep ==
    ASSUME TypeOK, HeldByOne, BuildsNeedWorker, KeptInStep, [Next]_vars
    PROVE  KeptInStep'
  <1>t. TypeOK'
    BY TypeStep
  <1>1. CASE UNCHANGED vars
    BY <1>1 DEF KeptInStep, KeptAt, Stamped, vars, entries, bounds
  <1>2. ASSUME NEW b \in Ids, Refresh(b) \/ Lease(b) \/ Settle(b)
        PROVE  KeptInStep'
    BY <1>2, <1>t, RefreshKept, LeaseKept, SettleKept
  <1> QED BY <1>1, <1>2, <1>t, WorkerKept DEF Next

-----------------------------------------------------------------------------
(* The generations of the base. *)

\* Whoever does not hold the lock is at no step that relies on the base.
LEMMA BaseFrame ==
    ASSUME NEW c \in Ids, BaseAt(c), stage'[c] = stage[c],
           UNCHANGED <<root, next>> \/ stage[c] \notin RefreshStages
    PROVE  BaseAt(c)'
  BY DEF BaseAt, RefreshStages

LEMMA RecoverNoCycle ==
    ASSUME NoCycle, RecoverStep
    PROVE  NoCycle' /\ root' = root /\ (next' = next \/ next' = Null)
  BY DEF NoCycle, RecoverStep

\* A refresh: the one at it holds the lock, so the others' BaseAt says nothing.
LEMMA RefreshBase ==
    ASSUME TypeOK, HeldByOne, BuildsNeedWorker, BaseInStep, NEW b \in Ids, Refresh(b)
    PROVE  BaseInStep'
  <1> USE DEF base, locks, entries, bounds, process
  <1>t. /\ stage \in [Ids -> Stages] /\ root \in Base /\ next \in Base
        /\ Null \notin Uuids
    BY TypeSplits, NullIsNone DEF BaseTyped, TypeOK
  <1>v. /\ root # Null => root \in Volume /\ root.id \in Uuids
        /\ next # Null => next \in Volume /\ next.id \in Uuids
    BY <1>t, VolumeTypes DEF Base
  <1>c. NoCycle /\ BaseAt(b)
    BY DEF BaseInStep
  <1>g. ASSUME NEW s, Goto(b, s)
        PROVE  stage'[b] = s
    BY <1>g, <1>t DEF Goto
  <1>1. \A c \in Ids \ {b} : BaseAt(c)'
    <2> SUFFICES ASSUME NEW c \in Ids \ {b}
                 PROVE  BaseAt(c)'
      OBVIOUS
    <2>1. BaseAt(c) /\ stage'[c] = stage[c]
      BY RefreshFrame DEF BaseInStep
    <2>2. CASE stage[b] \in RefreshStages
      BY <2>1, <2>2, BaseFrame DEF HeldByOne
    <2>3. CASE stage[b] \notin RefreshStages
      <3>1. UNCHANGED <<root, next>>
        BY <2>3 DEF Refresh, Start, SkipGate, EnterGate, Recover, CreateBase, CreateFails, ChargeBase,
                    SnapshotNext, UpgradeNext, ExchangeRoot, RetirePrev, FailCandidate, RefreshStages
      <3> QED BY <2>1, <3>1, BaseFrame
    <2> QED BY <2>2, <2>3
  <1>q. ASSUME NoCycle', BaseAt(b)'
        PROVE  BaseInStep'
    BY <1>1, <1>q DEF BaseInStep
  <1>2. CASE Start(b) \/ SkipGate(b) \/ EnterGate(b) \/ ChargeBase(b)
    <2>1. UNCHANGED <<root, next>> /\ stage'[b] \in {"Gate", "Acquire", "Recover", "Ended"}
      BY <1>2, <1>g DEF Start, SkipGate, EnterGate, ChargeBase, EndRefresh, AbortRefresh
    <2> QED BY <1>c, <1>q, <2>1 DEF NoCycle, BaseAt
  <1>3. CASE Recover(b)
    <2>1. CASE RecoverStep /\ UNCHANGED stage
      BY <1>3, <2>1, <1>c, <1>q, RecoverNoCycle DEF BaseAt, Recover
    <2>2. CASE UNCHANGED base /\ stage'[b] \in {"Acquire", "Create"}
      BY <2>2, <1>c, <1>q DEF NoCycle, BaseAt
    <2>3. CASE UNCHANGED base /\ next = Null /\ stage'[b] \in {"Snapshot", "Create"}
      BY <2>3, <1>c, <1>q DEF NoCycle, BaseAt
    <2> QED BY <1>3, <1>g, <2>1, <2>2, <2>3 DEF Recover, EndRefresh
  <1>4. CASE CreateBase(b)
    <2>1. stage'[b] \in {"Create", "Fill", "Charge"} /\ next' = next
      BY <1>4, <1>g DEF CreateBase
    <2>2. \/ root' = Null \/ root' = NewBase
          \/ root # Null /\ root'.id = root.id /\ root'.parent = root.parent
      <3>1. \/ root' = Null \/ root' = NewBase
            \/ root # Null /\ root' = [root EXCEPT !.state = "Partial"]
            \/ root # Null /\ root' = [root EXCEPT !.state = "Whole"]
        BY <1>4 DEF CreateBase
      <3> QED BY <3>1, <1>v DEF Volume
    <2>3. NewBase.parent = Null
      BY DEF NewBase
    <2>4. NoCycle'
      BY <1>c, <1>t, <1>v, <2>1, <2>2, <2>3 DEF NoCycle
    <2> QED BY <1>q, <2>1, <2>4 DEF BaseAt
  <1>5. CASE CreateFails(b)
    <2>1. stage'[b] = "Ended" /\ next' = next /\ root' \in {Null, root}
      BY <1>5, <1>g DEF CreateFails, AbortRefresh
    <2> QED BY <1>c, <1>q, <2>1 DEF NoCycle, BaseAt
  <1>6. CASE SnapshotNext(b)
    <2>1. /\ stage'[b] = "Upgrade" /\ root' = root /\ root # Null
          /\ next' = [id |-> NewUuid, parent |-> root.id, state |-> "Candidate"]
      BY <1>6, <1>g DEF SnapshotNext
    <2>2. next'.id = NewUuid /\ next'.parent = root.id /\ next' # Null
      <3>1. [id |-> NewUuid, parent |-> root.id, state |-> "Candidate"] \in Volume
        BY <1>v, <2>1, NewUuidIsNew DEF Volume, BaseStates
      <3> QED BY <2>1, <3>1, NullIsNoVolume
    <2>3. root.parent # NewUuid
      BY <2>1, NewUuidIsNew DEF Named
    <2> QED BY <1>q, <2>1, <2>2, <2>3 DEF NoCycle, BaseAt
  <1>7. CASE UpgradeNext(b)
    <2>1. stage[b] = "Upgrade" /\ stage'[b] = "Exchange" /\ root' = root /\ next # Null
      BY <1>7, <1>g DEF UpgradeNext
    <2>2. next' = [next EXCEPT !.state = "Whole"]
      BY <1>7 DEF UpgradeNext
    <2>3. next' \in Volume
      BY <2>1, <2>2, <1>v, VolumeTypes DEF BaseStates
    <2>4. next'.id = next.id /\ next'.parent = next.parent /\ next' # Null
      BY <2>1, <2>2, <2>3, <1>v, NullIsNoVolume DEF Volume
    <2> QED BY <1>c, <1>q, <2>1, <2>4 DEF NoCycle, BaseAt
  <1>8. CASE ExchangeRoot(b)
    <2>1. stage[b] = "Exchange" /\ stage'[b] = "Retire" /\ root' = next /\ next' = root
      BY <1>8, <1>g DEF ExchangeRoot
    <2> QED BY <1>c, <1>q, <2>1 DEF NoCycle, BaseAt
  <1>9. CASE RetirePrev(b)
    <2>1. /\ root' = root /\ (next' = next \/ next' = Null)
          /\ stage'[b] = "Acquire" \/ (stage'[b] = "Retire" /\ next' = next /\ stage[b] = "Retire")
      BY <1>9, <1>g DEF RetirePrev, EndRefresh
    <2> QED BY <1>c, <1>q, <2>1 DEF NoCycle, BaseAt
  <1>10. CASE FailCandidate(b)
    <2>1. root' = root /\ next' \in {Null, next} /\ stage'[b] = "Acquire"
      BY <1>10, <1>g DEF FailCandidate, EndRefresh
    <2> QED BY <1>c, <1>q, <2>1 DEF NoCycle, BaseAt
  <1> QED BY <1>2, <1>3, <1>4, <1>5, <1>6, <1>7, <1>8, <1>9, <1>10 DEF Refresh

LEMMA BaseStep ==
    ASSUME TypeOK, HeldByOne, BuildsNeedWorker, BaseInStep, [Next]_vars
    PROVE  BaseInStep'
  <1> USE DEF base, locks, entries, bounds, process
  <1>c. NoCycle
    BY DEF BaseInStep
  <1>f. ASSUME UNCHANGED <<root, next>>, \A c \in Ids : stage'[c] = stage[c] \/ stage'[c] \notin RefreshStages
        PROVE  BaseInStep'
    <2>1. NoCycle'
      BY <1>c, <1>f DEF NoCycle
    <2>2. \A c \in Ids : BaseAt(c)'
      BY <1>f DEF BaseInStep, BaseAt, RefreshStages
    <2> QED BY <2>1, <2>2 DEF BaseInStep
  <1>1. CASE UNCHANGED vars
    BY <1>1, <1>f DEF vars
  <1>2. ASSUME NEW b \in Ids, Refresh(b)
        PROVE  BaseInStep'
    BY <1>2, RefreshBase
  <1>3. ASSUME NEW b \in Ids, Lease(b) \/ Settle(b)
        PROVE  BaseInStep'
    BY <1>3, <1>f, LeaseFrame DEF Leased, RefreshStages
  <1>4. CASE WorkerStarts \/ SweepOne \/ LowerTotal \/ Tick
    BY <1>4, <1>f DEF WorkerStarts, SweepOne, LowerTotal, Tick
  <1>5. CASE SweepBase
    <2>1. CASE UNCHANGED base
      BY <1>5, <2>1, <1>f DEF SweepBase
    <2>2. CASE flock = Worker /\ RecoverStep
      <3>1. NoCycle' /\ root' = root
        BY <2>2, <1>c, RecoverNoCycle
      <3>2. \A c \in Ids : stage'[c] = stage[c] /\ stage[c] \notin RefreshStages
        BY <1>5, <2>2, NullIsNone DEF HeldByOne, SweepBase
      <3> QED BY <3>1, <3>2 DEF BaseInStep, BaseAt, RefreshStages
    <2> QED BY <1>5, <2>1, <2>2 DEF SweepBase
  <1>6. CASE RemakePool
    <2>1. \A c \in Ids : stage'[c] \in {"Queued", "Ended"}
      BY <1>6 DEF RemakePool, Ids
    <2>2. root' = Null
      BY <1>6 DEF RemakePool
    <2> QED BY <2>1, <2>2 DEF BaseInStep, BaseAt, NoCycle
  <1>7. ASSUME NEW p \in Processes, Die(p)
        PROVE  BaseInStep'
    <2>1. \A c \in Ids : stage'[c] = stage[c] \/ stage'[c] \in {"Ended", "Queued"}
      BY <1>7 DEF Die
    <2> QED BY <1>7, <2>1, <1>f DEF Die, RefreshStages
  <1> QED BY <1>1, <1>2, <1>3, <1>4, <1>5, <1>6, <1>7 DEF Next

-----------------------------------------------------------------------------
(* The theorems. *)

LEMMA InvInit == Init => Inv
  <1> SUFFICES ASSUME Init
               PROVE  Inv
    OBVIOUS
  <1>1. TypeOK
    BY TypeInit
  <1>2. HeldByOne /\ BuildsNeedWorker
    BY DEF Init, HeldByOne, BuildsNeedWorker, RefreshStages, Ids
  <1>3. VolumesInStep /\ KeptInStep
    BY DEF Init, VolumesInStep, VolumesAt, HasNone, KeptInStep, KeptAt, Ids
  <1>4. BaseInStep
    BY DEF Init, BaseInStep, NoCycle, BaseAt
  <1> QED BY <1>1, <1>2, <1>3, <1>4 DEF Inv

LEMMA InvStep == Inv /\ [Next]_vars => Inv'
  BY TypeStep, LocksStep, VolumesStep, KeptStep, BaseStep DEF Inv

\* The inductive invariant: one holder of refresh.lock works on the base, a build of
\* the worker is under way only while it is up, and volumes, kept chroots and
\* generations are where each stage says.
THEOREM PoolInvariant == Spec => []Inv
  BY InvInit, InvStep, PTL DEF Spec

\* pool.rs, lease and settle_build_lease: a running build has both its volumes
\* whatever other builds, the sweep and dying processes do, and one that is over has
\* none once the worker takes work.
THEOREM VolumesHold == Spec => []VolumesExactlyWhileLeased
  <1>1. Inv => VolumesExactlyWhileLeased
    BY DEF Inv, VolumesInStep, VolumesAt, HasNone, VolumesExactlyWhileLeased
  <1> QED BY <1>1, PoolInvariant, PTL

\* An entry that expires belongs to a keep whose time is over, counted from the
\* failure: the mtime that expire_kept reads was set at or after it.
LEMMA ExpiredIsOver ==
    ASSUME Inv, ExpireOne, NEW b \in Builds, "Kept" \in parts[b], "Kept" \notin parts'[b]
    PROVE  failedAt[b] + KeepFor <= now
  <1>1. PICK k \in KeptBuilds : \E e \in KeptParts :
              ~Fresh(k) /\ parts' = [parts EXCEPT ![k] = @ \ {e}]
    BY ExpireFrame DEF Inv
  <1>2. parts \in [Ids -> SUBSET (JobParts \cup KeptParts)] /\ b \in Ids
    BY DEF Inv, TypeOK, Ids
  <1>3. k = b
    BY <1>1, <1>2
  <1>4. ~(touched[b] + KeepFor > now)
    BY <1>1, <1>3 DEF Fresh
  <1>5. Stamped(b)
    BY DEF Inv, KeptInStep, KeptAt
  <1>6. failedAt[b] \in Nat /\ touched[b] \in Nat /\ now \in Nat /\ KeepFor \in Nat
    BY <1>2, <1>5, NullIsNone DEF Inv, TypeOK, Stamped
  <1> QED BY <1>4, <1>5, <1>6 DEF Stamped

\* pool.rs, keep_build and expire_kept: a kept chroot is never taken by the expiry
\* before WORKER_KEEP_FAILED has passed since the build failed.
THEOREM KeptForItsTimeHolds == Spec => KeptForItsTime
  <1> DEFINE Step == \A b \in Builds : "Kept" \in parts[b] /\ "Kept" \notin parts'[b] =>
                        \/ failedAt[b] + KeepFor <= now
                        \/ KeepFails(b) \/ RemakePool \/ \E c \in Ids : ReclaimKept(c)
  <1> USE DEF base, locks, entries, bounds, process
  <1>1. Inv /\ [Next]_vars => [Step]_vars
    <2> SUFFICES ASSUME Inv, Next, NEW b \in Builds, "Kept" \in parts[b], "Kept" \notin parts'[b]
                 PROVE  \/ failedAt[b] + KeepFor <= now
                        \/ KeepFails(b) \/ RemakePool \/ \E c \in Ids : ReclaimKept(c)
      OBVIOUS
    <2>t. /\ parts \in [Ids -> SUBSET (JobParts \cup KeptParts)] /\ b \in Ids
          /\ TypeOK /\ HeldByOne /\ BuildsNeedWorker
      BY DEF Inv, TypeOK, Ids
    <2>1. ASSUME NEW c \in Ids, Refresh(c)
          PROVE  FALSE
      BY <2>1, <2>t, RefreshFrame
    <2>2. ASSUME NEW c \in Ids, Lease(c)
          PROVE  failedAt[b] + KeepFor <= now \/ ReclaimKept(c)
      <3>1. CASE ExpireKept(c)
        BY <3>1, ExpiredIsOver DEF ExpireKept
      <3>2. CASE ~ExpireKept(c) /\ ~ReclaimKept(c)
        <4>1. parts' = parts \/ (parts' = [parts EXCEPT ![c] = @ \ JobParts])
              \/ (parts' = [parts EXCEPT ![c] = @ \cup {"Job"}])
              \/ (parts' = [parts EXCEPT ![c] = @ \cup {"JobData"}])
          BY <2>2, <3>2 DEF Lease, Cancelled, ReclaimPrev, EnterLease, LeaseChroot, LeaseData,
                            LeaseFails, Remove
        <4> QED BY <4>1, <2>t DEF JobParts
      <3> QED BY <3>1, <3>2
    <2>3. ASSUME NEW c \in Ids, Settle(c)
          PROVE  KeepFails(b)
      <3>1. CASE KeepFails(c)
        BY <3>1, <2>t DEF KeepFails, Remove
      <3>2. CASE ~KeepFails(c)
        BY <3>2, <2>3, <2>t DEF Settle, EndBuild, Release, FailBuild, TouchChroot, KeepChroot, KeepData,
                                KeepTree, MakePrivate, Remove
      <3> QED BY <3>1, <3>2
    <2>4. CASE SweepOne
      <3>1. CASE ExpireOne
        BY <3>1, ExpiredIsOver
      <3>2. CASE ~ExpireOne
        <4>1. parts' = parts \/ \E d \in sweeping : Remove(d, JobParts)
          BY <2>4, <3>2 DEF SweepOne
        <4> QED BY <4>1, <2>t DEF Remove, JobParts
      <3> QED BY <3>1, <3>2
    <2>5. CASE \/ WorkerStarts \/ SweepBase \/ LowerTotal \/ Tick
               \/ \E p \in Processes : Die(p)
      BY <2>5 DEF WorkerStarts, SweepBase, LowerTotal, Tick, Die
    <2> QED BY <2>1, <2>2, <2>3, <2>4, <2>5 DEF Next
  <1> QED BY <1>1, PoolInvariant, PTL DEF Spec, KeptForItsTime

\* What the base was a snapshot of, when it is still there under either name.
Generations == {v.id : v \in {next, prev} \ {Null}}

LEMMA RecoverKeeps ==
    ASSUME NoCycle, RecoverStep, root # Null, root.parent \in Generations
    PROVE  root.parent \in Generations'
  <1>1. root.parent = next.id \/ (prev # Null /\ root.parent = prev.id)
    BY DEF Generations
  <1>2. CASE next' = Null /\ prev' = prev /\ ClassifyNext # "Previous"
    <2>1. root.parent # next.id
      BY <1>2 DEF ClassifyNext, NoCycle, RecoverStep
    <2> QED BY <1>1, <1>2, <2>1 DEF Generations
  <1>3. CASE ClassifyNext = "Previous" /\ (next' = next \/ prev' = next)
    <2>1. root.parent = next.id /\ next # Null
      BY <1>3 DEF ClassifyNext, RecoverStep
    <2> QED BY <1>3, <2>1 DEF Generations
  <1> QED BY <1>2, <1>3 DEF RecoverStep

\* pool.rs, recover_refresh and refresh: what the base replaced is there to roll back
\* to as long as the base is, whoever died where; only want of room takes it.
THEOREM RollbackKeptHolds == Spec => RollbackKept
  <1> DEFINE Step == root # Null /\ root' = root /\ root.parent \in Generations
                        => root.parent \in Generations' \/ \E b \in Ids : ReclaimPrev(b)
  <1> USE DEF base, locks, entries, bounds, process
  <1>1. Inv /\ [Next]_vars => [Step]_vars
    <2> SUFFICES ASSUME Inv, Next, root # Null, root' = root, root.parent \in Generations
                 PROVE  root.parent \in Generations' \/ \E b \in Ids : ReclaimPrev(b)
      BY DEF vars
    <2>t. /\ TypeOK /\ NoCycle /\ \A b \in Ids : BaseAt(b)
          /\ root \in Volume /\ next \in Base
      BY TypeSplits DEF Inv, BaseInStep, BaseTyped, Base
    <2>g. root.parent = next.id \/ (prev # Null /\ root.parent = prev.id)
      BY DEF Generations
    <2>u. ASSUME UNCHANGED <<next, prev>>
          PROVE  root.parent \in Generations'
      BY <2>u DEF Generations
    <2>1. ASSUME NEW b \in Ids, Refresh(b)
          PROVE  root.parent \in Generations'
      <3>b. BaseAt(b)
        BY <2>t
      <3>1. CASE Start(b) \/ SkipGate(b) \/ EnterGate(b) \/ CreateBase(b) \/ CreateFails(b) \/ ChargeBase(b)
        BY <3>1, <2>u DEF Start, SkipGate, EnterGate, CreateBase, CreateFails, ChargeBase
      <3>2. CASE Recover(b)
        BY <3>2, <2>t, <2>u, RecoverKeeps DEF Recover
      <3>3. CASE SnapshotNext(b) \/ UpgradeNext(b) \/ FailCandidate(b)
        <4>1. stage[b] \in {"Snapshot", "Upgrade", "Exchange"} /\ prev' = prev
          BY <3>3 DEF SnapshotNext, UpgradeNext, FailCandidate
        <4>2. prev # Null /\ root.parent = prev.id
          BY <4>1, <3>b, <2>t, <2>g DEF BaseAt, NoCycle, Generations
        <4> QED BY <4>1, <4>2 DEF Generations
      <3>4. CASE ExchangeRoot(b)
        <4>1. root' = next /\ next' = root /\ root.id = next.parent
          BY <3>4, <3>b DEF ExchangeRoot, BaseAt
        <4> QED BY <4>1 DEF Generations
      <3>5. CASE RetirePrev(b)
        <4>1. next # Null /\ root.parent = next.id
          BY <3>5, <3>b DEF RetirePrev, BaseAt
        <4>2. next' = next \/ prev' = next
          BY <3>5 DEF RetirePrev
        <4> QED BY <4>1, <4>2 DEF Generations
      <3> QED BY <2>1, <3>1, <3>2, <3>3, <3>4, <3>5 DEF Refresh
    <2>2. ASSUME NEW b \in Ids, Lease(b)
          PROVE  root.parent \in Generations' \/ ReclaimPrev(b)
      BY <2>2, <2>u DEF Lease, Cancelled, ExpireKept, ReclaimKept, EnterLease, LeaseChroot,
                        LeaseData, LeaseFails
    <2>3. ASSUME NEW b \in Ids, Settle(b)
          PROVE  root.parent \in Generations'
      BY <2>3, <2>u DEF Settle, EndBuild, Release, FailBuild, TouchChroot, KeepChroot, KeepData,
                        KeepTree, MakePrivate, KeepFails
    <2>4. CASE SweepBase
      BY <2>4, <2>t, <2>u, RecoverKeeps DEF SweepBase
    <2>5. CASE \/ WorkerStarts \/ SweepOne \/ LowerTotal \/ RemakePool \/ Tick
               \/ \E p \in Processes : Die(p)
      BY <2>5, <2>u DEF WorkerStarts, SweepOne, LowerTotal, RemakePool, Tick, Die
    <2> QED BY <2>1, <2>2, <2>3, <2>4, <2>5 DEF Next
  <1>2. [][Step]_vars => RollbackKept
    BY DEF RollbackKept, Generations
  <1> QED BY <1>1, <1>2, PoolInvariant, PTL DEF Spec

=============================================================================
