------------------------- MODULE BuildQueueSafety -------------------------
(***************************************************************************)
(* Safety of the build queue, from the invariant and the refinement of     *)
(* BuildQueueProofs.                                                       *)
(***************************************************************************)
EXTENDS BuildQueueProofs, FiniteSetTheorems

----------------------------------------------------------------------------
(* One build under way per package and platform. *)

\* Every step of the lifecycle keeps at most one attempt under way: a request
\* finds the subject idle, and a retry replaces the attempt that was running.
LEMMA AbstractStepKeepsOne ==
  ASSUME Lifecycle!AtMostOneUnderWay, AbstractStep
  PROVE  Lifecycle!AtMostOneUnderWay'
<1> DEFINE A == Attempts
           B == Attempts'
           Up == Lifecycle!UnderWay
<1>1. A = [i \in Ids |-> A[i]] /\ B = [i \in Ids |-> B[i]]
  BY DEF Attempts
<1>2. \A i, j \in Ids : A[i].status \in Up /\ A[j].status \in Up
                          /\ A[i].subject = A[j].subject => i = j
  BY DEF Lifecycle!AtMostOneUnderWay
<1>3. SUFFICES \A i, j \in Ids : B[i].status \in Up /\ B[j].status \in Up
                                   /\ B[i].subject = B[j].subject => i = j
  BY DEF Lifecycle!AtMostOneUnderWay
<1> HIDE DEF A, B
<1>4. CASE B = A
  BY <1>2, <1>4
\* A step that only moves an attempt that was under way, or ends it.
<1>5. ASSUME NEW i \in Ids, NEW a, B = [A EXCEPT ![i] = a],
             a.status \in Up => A[i].status \in Up /\ a.subject = A[i].subject
      PROVE  \A k, j \in Ids : B[k].status \in Up /\ B[j].status \in Up
                                 /\ B[k].subject = B[j].subject => k = j
  <2>1. \A k \in Ids : B[k].status \in Up
                        => A[k].status \in Up /\ B[k].subject = A[k].subject
    BY <1>1, <1>5
  <2> QED
    BY <1>2, <2>1
<1>6. CASE Lifecycle!Next
  <2>1. ASSUME NEW i \in Ids,
               Lifecycle!Hold(i) \/ Lifecycle!Unhold(i) \/ Lifecycle!Accept(i)
                 \/ Lifecycle!Publish(i) \/ Lifecycle!Fail(i)
        PROVE  \E a : /\ B = [A EXCEPT ![i] = a]
                      /\ a.status \in Up => A[i].status \in Up /\ a.subject = A[i].subject
    <3>1. PICK state : B = [A EXCEPT ![i] = Lifecycle!Moved(i, state)] /\ A[i].status \in Up
      BY <2>1 DEF Lifecycle!Hold, Lifecycle!Unhold, Lifecycle!Accept, Lifecycle!Publish,
                  Lifecycle!Fail, Lifecycle!UnderWay, A, B
    <3>2. Lifecycle!Moved(i, state).subject = A[i].subject
      BY DEF Lifecycle!Moved, A, Attempts, Attempt
    <3> QED
      BY <3>1, <3>2
  <2>2. ASSUME NEW i \in Ids, NEW w \in Workers, Lifecycle!Take(i, w)
        PROVE  \E a : /\ B = [A EXCEPT ![i] = a]
                      /\ a.status \in Up => A[i].status \in Up /\ a.subject = A[i].subject
    <3> DEFINE a == [Lifecycle!Moved(i, "Active") EXCEPT !.worker = w]
    <3>1. B = [A EXCEPT ![i] = a] /\ A[i].status \in Up
      BY <2>2 DEF Lifecycle!Take, Lifecycle!UnderWay, A, B
    <3>2. a.subject = A[i].subject
      BY DEF Lifecycle!Moved, A, Attempts, Attempt
    <3> QED
      BY <3>1, <3>2
  <2>3. ASSUME NEW i \in Ids, Lifecycle!Delete(i)
        PROVE  \E a : /\ B = [A EXCEPT ![i] = a]
                      /\ a.status \in Up => A[i].status \in Up /\ a.subject = A[i].subject
    <3>1. B = [A EXCEPT ![i] = Lifecycle!Gone] /\ Lifecycle!Gone.status \notin Up
      BY <2>3 DEF Lifecycle!Delete, Lifecycle!Gone, Lifecycle!UnderWay, A, B
    <3> QED
      BY <3>1
  <2>4. ASSUME NEW i \in Ids, NEW s, NEW state, Lifecycle!Request(i, s, state)
        PROVE  \A k, j \in Ids : B[k].status \in Up /\ B[j].status \in Up
                                   /\ B[k].subject = B[j].subject => k = j
    <3>1. /\ B = [A EXCEPT ![i] = Lifecycle!Fresh(s, state)]
          /\ \A k \in Ids : A[k].subject = s => A[k].status \notin Up
          /\ Lifecycle!Fresh(s, state).subject = s
      BY <2>4 DEF Lifecycle!Request, Lifecycle!Idle, Lifecycle!Fresh, A, B
    <3> HIDE DEF Up
    <3> QED
      BY <1>1, <1>2, <3>1
  <2>5. ASSUME NEW i \in Ids, NEW j \in Ids, Lifecycle!Retry(i, j)
        PROVE  \A k, l \in Ids : B[k].status \in Up /\ B[l].status \in Up
                                   /\ B[k].subject = B[l].subject => k = l
    <3> DEFINE ended == Lifecycle!Moved(i, "Failed")
               fresh == Lifecycle!Fresh(A[i].subject, "Enqueued")
    <3>1. /\ A[i].status = "Active" /\ A[j] = Lifecycle!Unused
          /\ B = [A EXCEPT ![i] = ended, ![j] = fresh]
      BY <2>5 DEF Lifecycle!Retry, A, B
    <3>2. i # j
      BY <3>1 DEF Lifecycle!Unused
    <3>3. ended.status \notin Up /\ fresh.subject = A[i].subject /\ A[i].status \in Up
      BY <3>1 DEF Lifecycle!Moved, Lifecycle!Fresh, Lifecycle!UnderWay, A, Attempts, Attempt
    <3> HIDE DEF ended, fresh, Up
    <3>4. \A k \in Ids : B[k].status \in Up =>
             \/ k = j /\ B[k].subject = A[i].subject
             \/ k # j /\ k # i /\ A[k].status \in Up /\ B[k].subject = A[k].subject
      BY <1>1, <3>1, <3>2, <3>3
    <3> QED
      BY <1>2, <3>3, <3>4
  <2>6. ASSUME NEW i \in Ids,
               \E a : /\ B = [A EXCEPT ![i] = a]
                      /\ a.status \in Up => A[i].status \in Up /\ a.subject = A[i].subject
        PROVE  \A k, j \in Ids : B[k].status \in Up /\ B[j].status \in Up
                                   /\ B[k].subject = B[j].subject => k = j
    BY <1>5, <2>6
  <2> QED
    BY <1>6, <2>1, <2>2, <2>3, <2>4, <2>5, <2>6 DEF Lifecycle!Next
<1> QED
  BY <1>4, <1>6 DEF AbstractStep, A, B

\* The queue's rows and the attempts they stand for.
LEMMA OneAsAttempts ==
  ASSUME Inv
  PROVE  OneInProgress <=> Lifecycle!AtMostOneUnderWay
<1>1. \A i \in Ids : (builds[i].status \in InProgress)
                       <=> (Attempts[i].status \in Lifecycle!UnderWay)
  BY DEF Attempts, Attempt, Exists, InProgress, Lifecycle!UnderWay
<1>2. \A i \in Ids : builds[i].status \in InProgress
                       => Attempts[i].subject = <<builds[i].pkg, builds[i].platform>>
  BY DEF Attempts, Attempt, Exists, InProgress
<1> QED
  BY <1>1, <1>2 DEF OneInProgress, Lifecycle!AtMostOneUnderWay

\* A package has at most one build under way per platform, in every behaviour.
THEOREM OneInProgressHolds == Spec => []OneInProgress
<1>1. Init => OneInProgress
  BY DEF Init, OneInProgress, NoRow, InProgress
<1>2. Inv /\ Inv' /\ OneInProgress /\ [Next]_vars => OneInProgress'
  <2> SUFFICES ASSUME Inv, Inv', OneInProgress, [Next]_vars PROVE OneInProgress'
    OBVIOUS
  <2>1. Lifecycle!AtMostOneUnderWay /\ AbstractStep
    BY OneAsAttempts, NextStep
  <2>2. Lifecycle!AtMostOneUnderWay'
    BY <2>1, AbstractStepKeepsOne
  <2>3. (OneInProgress <=> Lifecycle!AtMostOneUnderWay)'
    BY OneAsAttempts, PTL
  <2> QED
    BY <2>2, <2>3
<1> QED
  BY <1>1, <1>2, InvHolds, PTL DEF Spec

----------------------------------------------------------------------------
(* What one step may do to a row. *)

\* The rows the operations on the table leave alone, and what they write.
LEMMA TransitionFrame ==
  ASSUME Inv, NEW i \in Ids, NEW from, NEW new, Transition(i, from, new)
  PROVE  /\ \A j \in Ids : j # i => builds'[j] = builds[j]
         /\ builds'[i] = new /\ builds[i].status \in from
BY DEF Transition, Inv, TypeOK

LEMMA EnqueueFrame ==
  ASSUME Inv, NEW p, NEW pl, NEW state, NEW trigger, Enqueue(p, pl, state, trigger)
  PROVE  \A j \in Ids : builds'[j] = builds[j] \/ builds[j] = NoRow
<1>1. nextId \in Ids /\ nextId \in Int /\ builds[nextId] = NoRow
  BY ConstantsAssumption DEF Enqueue, Inv, TableOK, Ids
<1>2. \E row : builds' = [builds EXCEPT ![nextId] = row]
  BY DEF Enqueue, EnqueueBuildIfMissing
<1> QED
  BY <1>1, <1>2 DEF Inv, TypeOK

\* An abandonment changes the row it observed, if that row is still as it was
\* observed, and at most one unused row.
LEMMA AbandonFrame ==
  ASSUME Inv, NEW o \in Observation, NEW reason \in EndReasons, AbandonBuild(o, reason)
  PROVE  \A j \in Ids :
           \/ builds'[j] = builds[j]
           \/ builds[j] = NoRow
           \/ j = o.id /\ StillHeld(o) /\ builds'[j].reason = reason
<1>1. CASE ~StillHeld(o)
  BY <1>1 DEF AbandonBuild, rows
<1>2. CASE StillHeld(o)
  <2> DEFINE i == o.id
             p == builds[i].pkg
             pl == builds[i].platform
             failed == Failed(builds, i, reason)
  <2>1. i \in Ids /\ builds \in [Ids -> Row] /\ builds[i].status = "Active"
    BY <1>2 DEF Observation, Inv, TypeOK, StillHeld
  <2>2. /\ failed \in [Ids -> Row]
        /\ failed[i].reason = reason
        /\ \A j \in Ids : j # i => failed[j] = builds[j]
    <3>1. TableOK(failed, nextId)
      BY <2>1, FailedTable DEF Inv
    <3>2. failed \in [Ids -> Row]
      BY <3>1 DEF TableOK
    <3> QED
      BY <2>1, <3>2 DEF Failed, Row
  <2>3. \/ EnqueueBuildIfMissing(failed, p, pl, "Enqueued", "TimeoutRetry")
        \/ builds' = failed
    BY <1>2 DEF AbandonBuild
  <2> HIDE DEF failed
  <2>4. \/ builds' = failed
        \/ nextId \in Ids /\ \E row : builds' = [failed EXCEPT ![nextId] = row]
    BY <2>3 DEF EnqueueBuildIfMissing
  <2>5. nextId \in Ids => builds[nextId] = NoRow
    BY ConstantsAssumption DEF Inv, TableOK, Ids
  <2>6. nextId \in Ids => nextId # i
    BY <2>1, <2>5 DEF NoRow
  <2> QED
    BY <1>2, <2>1, <2>2, <2>4, <2>5, <2>6
<1> QED
  BY <1>1, <1>2

LEMMA RenewFrame ==
  ASSUME Inv, NEW w, HeartbeatRenew(w)
  PROVE  \A j \in Ids :
           \/ builds'[j] = builds[j]
           \/ builds[j].status = "Active" /\ builds'[j].reason = builds[j].reason
BY DEF HeartbeatRenew, Owned, Inv, TypeOK, Row

\* Whatever the step, a row is left alone, deleted, inserted where none was,
\* or was under way; and only the reaper ends an ACTIVE row for silence, on
\* the revision of it that it read.
RowStep(j) ==
    \/ builds'[j] = builds[j]
    \/ builds'[j] = NoRow
    \/ builds[j] = NoRow
    \/ /\ builds[j].status \in InProgress
       /\ \/ builds'[j].reason # "LeaseExpired"
          \/ \E r \in reaping : /\ r.reason = "LeaseExpired"
                                /\ r.seen.id = j
                                /\ StillHeld(r.seen)

LEMMA AbandonRowStep ==
  ASSUME Inv, NEW o \in Observation, NEW reason \in EndReasons, AbandonBuild(o, reason),
         \/ reason # "LeaseExpired"
         \/ \E r \in reaping : r.reason = reason /\ r.seen = o
  PROVE  \A j \in Ids : RowStep(j)
BY AbandonFrame DEF RowStep, StillHeld, InProgress

LEMMA TransitionRowStep ==
  ASSUME Inv, NEW i \in Ids, NEW from, from \subseteq InProgress, NEW new,
         new.reason # "LeaseExpired", Transition(i, from, new)
  PROVE  \A j \in Ids : RowStep(j)
BY TransitionFrame DEF RowStep

\* A row under way has no end reason yet.
LEMMA NoReasonYet ==
  ASSUME Inv, NEW i \in Ids, builds[i].status \in InProgress
  PROVE  builds[i].reason = Null /\ Null # "LeaseExpired" /\ builds[i] \in Row
<1>1. builds[i] \in Row /\ RowOK(builds[i])
  BY DEF Inv, TableOK
<1>2. builds[i].reason = Null
  BY <1>1 DEF RowOK, InProgress
<1>3. Null # "LeaseExpired"
  BY NullAssumption DEF EndReasons
<1> QED
  BY <1>1, <1>2, <1>3

LEMMA NextRowStep ==
  ASSUME Inv, [Next]_vars
  PROVE  \A j \in Ids : RowStep(j)
<1>1. CASE UNCHANGED builds
  BY <1>1 DEF RowStep
<1>2. ASSUME NEW w \in Workers, ClaimJob(w) PROVE \A j \in Ids : RowStep(j)
  <2>1. PICK i \in Ids :
          Transition(i, {"Enqueued"},
              [builds[i] EXCEPT !.status = "Active", !.worker = w,
                                !.lease = now + LeaseTtl, !.start = now])
    BY <1>2 DEF ClaimJob, Offered
  <2>2. builds[i].status \in InProgress /\ {"Enqueued"} \subseteq InProgress
    BY <2>1 DEF Transition, InProgress
  <2> DEFINE new == [builds[i] EXCEPT !.status = "Active", !.worker = w,
                                      !.lease = now + LeaseTtl, !.start = now]
  <2>3. new.reason # "LeaseExpired" /\ Transition(i, {"Enqueued"}, new)
    BY <2>1, <2>2, NoReasonYet DEF Row
  <2> HIDE DEF new
  <2> QED
    BY <2>2, <2>3, TransitionRowStep
<1>3. ASSUME NEW w \in Workers, HeartbeatDrop(w) PROVE \A j \in Ids : RowStep(j)
  <2>1. PICK o \in beating[w].drop : AbandonBuild(o, "Dropped")
    BY <1>3 DEF HeartbeatDrop
  <2>2. o \in Observation
    BY <1>3, <2>1 DEF HeartbeatDrop, Inv, TypeOK, Beat
  <2> QED
    BY <2>1, <2>2, AbandonRowStep DEF EndReasons
<1>4. ASSUME NEW w \in Workers, HeartbeatRenew(w) PROVE \A j \in Ids : RowStep(j)
  BY <1>4, RenewFrame, NoReasonYet DEF RowStep, InProgress
<1>5. ASSUME NEW p, NEW pl, NEW state, NEW trigger, Enqueue(p, pl, state, trigger)
      PROVE  \A j \in Ids : RowStep(j)
  BY <1>5, EnqueueFrame DEF RowStep
<1>6. ASSUME NEW i \in Ids, NEW from, from \subseteq InProgress, NEW state,
             Transition(i, from, [builds[i] EXCEPT !.status = state])
      PROVE  \A j \in Ids : RowStep(j)
  <2> DEFINE new == [builds[i] EXCEPT !.status = state]
  <2>1. builds[i].status \in InProgress
    BY <1>6 DEF Transition
  <2>2. new.reason # "LeaseExpired" /\ Transition(i, from, new)
    BY <1>6, <2>1, NoReasonYet DEF Row
  <2> HIDE DEF new
  <2> QED
    BY <1>6, <2>2, TransitionRowStep
<1>7. ASSUME NEW o \in Observation, NEW state, Release(o, state)
      PROVE  \A j \in Ids : RowStep(j)
  <2>1. CASE o.id \notin Owned(o.worker)
    BY <1>7, <2>1 DEF Release, rows, RowStep
  <2>2. CASE o.id \in Owned(o.worker)
    <3> DEFINE new == [builds[o.id] EXCEPT !.status = state, !.lease = Null]
    <3>1. o.id \in Ids /\ builds[o.id].status \in InProgress
      BY <2>2 DEF Owned, InProgress
    <3>2. new.reason # "LeaseExpired" /\ Transition(o.id, {"Active"}, new)
      BY <1>7, <2>2, <3>1, NoReasonYet DEF Release, Row
    <3> HIDE DEF new
    <3> QED
      BY <3>1, <3>2, TransitionRowStep DEF InProgress
  <2> QED
    BY <2>1, <2>2
<1>8. ASSUME NEW r \in completing, CompleteCommit(r) PROVE \A j \in Ids : RowStep(j)
  <2>1. r.seen \in Observation
    BY DEF Inv, TypeOK, Report
  <2>2. CASE AbandonBuild(r.seen, "Interrupted")
    BY <2>1, <2>2, AbandonRowStep DEF EndReasons
  <2> QED
    BY <1>7, <1>8, <2>1, <2>2 DEF CompleteCommit
<1>9. ASSUME NEW i \in Ids, CancelBuild(i) PROVE \A j \in Ids : RowStep(j)
  <2> DEFINE new == [builds[i] EXCEPT !.status = "Failed", !.reason = "Canceled",
                                      !.lease = Null]
             from == {"Active", "Enqueued", "WaitingForDeps"}
  <2>1. new.reason # "LeaseExpired" /\ Transition(i, from, new) /\ from \subseteq InProgress
    BY <1>9 DEF CancelBuild, InProgress, Inv, TypeOK, Row
  <2> HIDE DEF new, from
  <2> QED
    BY <2>1, TransitionRowStep
<1>10. ASSUME NEW i \in Ids, DeleteBuild(i) PROVE \A j \in Ids : RowStep(j)
  BY <1>10 DEF DeleteBuild, RowStep, Inv, TypeOK
<1>11. CASE ReapOne
  <2>1. PICK r \in reaping : AbandonBuild(r.seen, r.reason)
    BY <1>11 DEF ReapOne
  <2>2. r.seen \in Observation /\ r.reason \in EndReasons
    BY DEF Inv, TypeOK, Reap
  <2> QED
    BY <2>1, <2>2, AbandonRowStep
<1>12. ASSUME NEW w \in Workers, RevokeOne(w) PROVE \A j \in Ids : RowStep(j)
  <2>1. PICK o \in revoking[w].left : AbandonBuild(o, "WorkerRevoked")
    BY <1>12 DEF RevokeOne
  <2>2. o \in Observation
    BY <2>1 DEF Inv, TypeOK, Revocation
  <2> QED
    BY <2>1, <2>2, AbandonRowStep DEF EndReasons
<1>13. CASE \E w \in Workers : WorkerStep(w)
  BY <1>1, <1>2, <1>3, <1>4, <1>13
     DEF WorkerStep, ClaimNothing, HeartbeatBegin, CompleteBegin, rows
<1>14. CASE QueueStep
  <2>1. CASE \/ \E p \in Pkgs, pl \in Platforms : PromoteWaitingBuild(p, pl)
             \/ \E p \in Pkgs, pl \in Platforms : DemoteEnqueuedBuild(p, pl)
             \/ \E i \in Ids : PublishSettle(i)
             \/ \E i \in Ids : PublishFail(i)
    <3>1. /\ {"WaitingForDeps"} \subseteq InProgress /\ {"Enqueued"} \subseteq InProgress
          /\ {"Publishing"} \subseteq InProgress
          /\ \A p, pl : RowsOf(builds, p, pl) \subseteq Ids
      BY DEF InProgress, RowsOf
    <3> QED
      BY <1>6, <2>1, <3>1, Zenon
         DEF PromoteWaitingBuild, DemoteEnqueuedBuild, PublishSettle, PublishFail
  <2>2. CASE ReapSelect
    BY <1>1, <2>2 DEF ReapSelect, rows
  <2> QED
    BY <1>5, <1>8, <1>11, <1>14, <2>1, <2>2, Zenon DEF QueueStep
<1>15. CASE OperatorStep
  BY <1>1, <1>9, <1>10, <1>12, <1>15
     DEF OperatorStep, DeleteCheck, ApproveWorker, PauseCheck, SetPaused, RevokeMark,
         RevokeRead, rows
<1>16. CASE Restart \/ Tick \/ UNCHANGED vars
  BY <1>1, <1>16 DEF Restart, Tick, vars, rows
<1> QED
  BY <1>13, <1>14, <1>15, <1>16 DEF Next

\* No late report, cancel, reap or promotion rewrites a build that ended.
THEOREM SettledIsFinalHolds == Spec => SettledIsFinal
<1>1. Inv /\ [Next]_vars =>
        [\A i \in Ids : builds[i].status \in Settled => builds'[i] \in {builds[i], NoRow}]_vars
  BY NextRowStep DEF RowStep, Settled, InProgress, NoRow
<1> QED
  BY <1>1, InvHolds, PTL DEF Spec, SettledIsFinal

----------------------------------------------------------------------------
(* The reaper. *)

\* What the reaper selected for silence was silent, and stays so.
SelectedWereSilent ==
    \A r \in reaping :
        r.reason = "LeaseExpired" => r.seen.lease = Null \/ r.seen.lease < now

LEMMA SelectedStep ==
  ASSUME Inv, SelectedWereSilent, [Next]_vars
  PROVE  SelectedWereSilent'
<1>1. \A r \in reaping : r.seen.lease \in Nat \cup {Null}
  BY DEF Inv, TypeOK, Reap, Observation
<1>2. now \in Nat
  BY DEF Inv, TypeOK, Time
<1>3. CASE ReapSelect
  <2>1. SUFFICES ASSUME NEW r \in reaping', r.reason = "LeaseExpired"
                 PROVE  r.seen.lease = Null \/ r.seen.lease < now
    BY <1>3 DEF SelectedWereSilent, ReapSelect
  <2>2. PICK i \in Ids :
          /\ builds[i].status = "Active" /\ (Overdue(i) \/ LeaseLost(i))
          /\ r = [seen |-> Observe(i),
                  reason |-> IF Overdue(i) THEN "MaxDuration" ELSE "LeaseExpired"]
    BY <1>3, <2>1 DEF ReapSelect
  <2>3. ~Overdue(i)
    BY <2>1, <2>2
  <2>4. r.seen.lease = builds[i].lease
    BY <2>2 DEF Observe
  <2> QED
    BY <2>2, <2>3, <2>4 DEF LeaseLost
<1>4. CASE reaping' \subseteq reaping /\ now' = now
  BY <1>4 DEF SelectedWereSilent
<1>5. CASE Tick
  <2>1. reaping' = reaping /\ now' = now + 1
    BY <1>5 DEF Tick, handlers
  <2> QED
    BY <1>1, <1>2, <2>1, NullAssumption DEF SelectedWereSilent
<1>6. ASSUME NEW w \in Workers, WorkerStep(w) PROVE reaping' \subseteq reaping /\ now' = now
  BY <1>6 DEF WorkerStep, ClaimJob, ClaimNothing, HeartbeatBegin, HeartbeatDrop,
              HeartbeatRenew, CompleteBegin, handlers
<1>7. CASE QueueStep /\ ~ReapSelect
  BY <1>4, <1>7 DEF QueueStep, Enqueue, PromoteWaitingBuild, DemoteEnqueuedBuild,
              CompleteCommit, PublishSettle, PublishFail, ReapOne, handlers
<1>8. CASE OperatorStep
  BY <1>4, <1>8 DEF OperatorStep, CancelBuild, DeleteCheck, DeleteBuild, ApproveWorker,
              PauseCheck, SetPaused, RevokeMark, RevokeRead, RevokeOne, handlers
<1>9. CASE Restart \/ UNCHANGED vars
  BY <1>4, <1>9 DEF Restart, vars, handlers
<1> QED
  BY <1>3, <1>4, <1>5, <1>6, <1>7, <1>8, <1>9 DEF Next

\* The reaper never fails for silence a build whose lease has been renewed
\* since it looked.
THEOREM ReapedOnlyWhenExpiredHolds == Spec => ReapedOnlyWhenExpired
<1>1. Init => SelectedWereSilent
  BY DEF Init, SelectedWereSilent
<1>2. Inv /\ SelectedWereSilent /\ [Next]_vars => SelectedWereSilent'
  BY SelectedStep
<1>3. Inv /\ SelectedWereSilent /\ [Next]_vars =>
        [\A i \in Ids :
            builds[i].status = "Active" /\ builds'[i].reason = "LeaseExpired"
                => builds[i].lease < now]_vars
  <2> SUFFICES ASSUME Inv, SelectedWereSilent, [Next]_vars, NEW i \in Ids,
                      builds[i].status = "Active", builds'[i].reason = "LeaseExpired"
               PROVE  builds[i].lease < now
    OBVIOUS
  <2>1. RowStep(i)
    BY NextRowStep
  <2>2. builds[i].reason = Null /\ Null # "LeaseExpired"
    BY NoReasonYet DEF InProgress
  <2>3. PICK r \in reaping : r.reason = "LeaseExpired" /\ r.seen.id = i /\ StillHeld(r.seen)
    BY <2>1, <2>2 DEF RowStep, NoRow
  <2>4. builds[i].lease # Null
    BY DEF Inv, TableOK, RowOK
  <2> QED
    BY <2>3, <2>4 DEF SelectedWereSilent, StillHeld
<1> QED
  BY <1>1, <1>2, <1>3, InvHolds, PTL DEF Spec, ReapedOnlyWhenExpired

----------------------------------------------------------------------------
(* What one step does to the table. *)

\* The columns that number, status and budget of a package are computed from.
SameBuild(r, s) ==
    /\ r.status = s.status /\ r.pkg = s.pkg /\ r.platform = s.platform
    /\ r.number = s.number /\ r.trigger = s.trigger /\ r.reason = s.reason

\* Nothing but leases.
Renews ==
    /\ \A j \in Ids : SameBuild(builds'[j], builds[j])
    /\ UNCHANGED <<nextId, pkgStatus>>

\* A build under way becomes new, without spending a retry.
Moves(i, new) ==
    /\ builds[i].status \in InProgress
    /\ builds' = [builds EXCEPT ![i] = new]
    /\ new.pkg = builds[i].pkg /\ new.platform = builds[i].platform
    /\ new.number = builds[i].number /\ new.trigger = builds[i].trigger
    /\ new.status \in States /\ new.reason \notin SpendsRetry
    /\ nextId' = nextId
    /\ RefreshPackageStatus(builds[i].pkg)

Inserts(p, pl, state, trigger) ==
    /\ trigger # "TimeoutRetry"
    /\ EnqueueBuildIfMissing(builds, p, pl, state, trigger)
    /\ RefreshPackageStatus(p)

Deletes(i) ==
    /\ i \in deleting
    /\ builds' = [builds EXCEPT ![i] = NoRow]
    /\ IF Exists(builds, i) THEN RefreshPackageStatus(builds[i].pkg) ELSE UNCHANGED pkgStatus
    /\ nextId' = nextId

TableStep ==
    \/ Renews
    \/ \E i \in Ids : \E new \in Row : Moves(i, new)
    \/ \E p \in Pkgs, pl \in Platforms, state \in {"Enqueued", "WaitingForDeps"},
          trigger \in Triggers : Inserts(p, pl, state, trigger)
    \/ \E o \in Observation, reason \in EndReasons : AbandonBuild(o, reason)
    \/ \E i \in Ids : Deletes(i)

\* A transition that keeps what the build is, from a state of a build under way.
LEMMA TransitionMoves ==
  ASSUME Inv, NEW i \in Ids, NEW from, from \subseteq InProgress, NEW new \in Row,
         new.pkg = builds[i].pkg, new.platform = builds[i].platform,
         new.number = builds[i].number, new.trigger = builds[i].trigger,
         new.status \in States, new.reason \notin SpendsRetry, Transition(i, from, new)
  PROVE  TableStep
<1>1. Moves(i, new)
  BY DEF Moves, Transition
<1> QED
  BY <1>1 DEF TableStep

LEMMA NullSpendsNothing == Null \notin SpendsRetry /\ "Canceled" \notin SpendsRetry
BY NullAssumption DEF SpendsRetry, EndReasons

LEMMA NextTableStep ==
  ASSUME Inv, [Next]_vars
  PROVE  TableStep
<1>1. CASE UNCHANGED rows
  BY <1>1 DEF TableStep, Renews, SameBuild, rows
<1>2. ASSUME NEW i \in Ids, builds[i].status \in InProgress
      PROVE  builds[i] \in Row /\ builds[i].reason \notin SpendsRetry
  BY <1>2, NoReasonYet, NullSpendsNothing
<1>3. ASSUME NEW w \in Workers, ClaimJob(w) PROVE TableStep
  <2>1. PICK i \in Ids :
          Transition(i, {"Enqueued"},
              [builds[i] EXCEPT !.status = "Active", !.worker = w,
                                !.lease = now + LeaseTtl, !.start = now])
    BY <1>3 DEF ClaimJob, Offered
  <2>2. builds[i] \in Row /\ builds[i].reason \notin SpendsRetry
    BY <1>2, <2>1 DEF Transition, InProgress
  <2>3. now \in Nat /\ now + LeaseTtl \in Nat
    BY ConstantsAssumption DEF Inv, TypeOK, Time
  <2> DEFINE new == [builds[i] EXCEPT !.status = "Active", !.worker = w,
                                      !.lease = now + LeaseTtl, !.start = now]
  <2>4. /\ new \in Row /\ new.status = "Active" /\ new.reason = builds[i].reason
        /\ new.pkg = builds[i].pkg /\ new.platform = builds[i].platform
        /\ new.number = builds[i].number /\ new.trigger = builds[i].trigger
    <3> DEFINE lease == now + LeaseTtl
    <3>1. builds[i] \in Row /\ lease \in Nat /\ now \in Nat
      BY <2>2, <2>3
    <3> HIDE DEF lease
    <3>2. new = [builds[i] EXCEPT !.status = "Active", !.worker = w, !.lease = lease, !.start = now]
      BY DEF lease
    <3> HIDE DEF new
    <3> QED
      BY <3>1, <3>2 DEF Row, States
  <2>5. Transition(i, {"Enqueued"}, new)
    BY <2>1
  <2> HIDE DEF new
  <2> QED
    BY <2>2, <2>4, <2>5, TransitionMoves DEF InProgress, States
<1>4. ASSUME NEW w \in Workers, HeartbeatDrop(w) PROVE TableStep
  <2>1. PICK o \in beating[w].drop : AbandonBuild(o, "Dropped")
    BY <1>4 DEF HeartbeatDrop
  <2>2. o \in Observation
    BY <1>4, <2>1 DEF HeartbeatDrop, Inv, TypeOK, Beat
  <2> QED
    BY <2>1, <2>2 DEF TableStep, EndReasons
<1>5. ASSUME NEW w \in Workers, HeartbeatRenew(w) PROVE TableStep
  <2>1. \A j \in Ids : SameBuild(builds'[j], builds[j])
    <3> SUFFICES ASSUME NEW j \in Ids PROVE SameBuild(builds'[j], builds[j])
      OBVIOUS
    <3>1. builds[j] \in Row
      BY DEF Inv, TypeOK
    <3>2. \/ builds'[j] = builds[j]
          \/ builds'[j] = [builds[j] EXCEPT !.lease = beating[w].at + LeaseTtl]
      BY <1>5 DEF HeartbeatRenew
    <3> QED
      BY <3>1, <3>2 DEF SameBuild, Row
  <2> QED
    BY <1>5, <2>1 DEF HeartbeatRenew, TableStep, Renews
<1>6. ASSUME NEW p \in Pkgs, NEW pl \in Platforms, NEW state \in {"Enqueued", "WaitingForDeps"},
             NEW trigger \in Requesters, Enqueue(p, pl, state, trigger)
      PROVE  TableStep
  <2>1. trigger \in Triggers /\ trigger # "TimeoutRetry"
    BY ConstantsAssumption DEF Triggers
  <2>2. Inserts(p, pl, state, trigger)
    BY <1>6, <2>1 DEF Enqueue, Inserts
  <2> QED
    BY <2>1, <2>2 DEF TableStep
<1>7. ASSUME NEW i \in Ids, NEW from, from \subseteq InProgress, NEW state \in States,
             Transition(i, from, [builds[i] EXCEPT !.status = state])
      PROVE  TableStep
  <2> DEFINE new == [builds[i] EXCEPT !.status = state]
  <2>1. builds[i] \in Row /\ builds[i].reason \notin SpendsRetry
    BY <1>2, <1>7 DEF Transition
  <2>2. /\ new \in Row /\ new.status = state /\ new.reason = builds[i].reason
        /\ new.pkg = builds[i].pkg /\ new.platform = builds[i].platform
        /\ new.number = builds[i].number /\ new.trigger = builds[i].trigger
    BY <2>1 DEF Row
  <2>3. Transition(i, from, new)
    BY <1>7
  <2> HIDE DEF new
  <2> QED
    BY <1>7, <2>1, <2>2, <2>3, TransitionMoves
<1>8. ASSUME NEW o \in Observation, NEW state \in States, Release(o, state)
      PROVE  TableStep
  <2>1. CASE o.id \notin Owned(o.worker)
    BY <1>1, <1>8, <2>1 DEF Release
  <2>2. CASE o.id \in Owned(o.worker)
    <3> DEFINE i == o.id
               new == [builds[i] EXCEPT !.status = state, !.lease = Null]
    <3>1. i \in Ids /\ builds[i].status \in InProgress
      BY <2>2 DEF Owned, InProgress
    <3>2. builds[i] \in Row /\ builds[i].reason \notin SpendsRetry
      BY <1>2, <3>1
    <3>3. /\ new \in Row /\ new.status = state /\ new.reason = builds[i].reason
          /\ new.pkg = builds[i].pkg /\ new.platform = builds[i].platform
          /\ new.number = builds[i].number /\ new.trigger = builds[i].trigger
      BY <3>2 DEF Row
    <3>4. Transition(i, {"Active"}, new)
      BY <1>8, <2>2 DEF Release
    <3> HIDE DEF new, i
    <3> QED
      BY <3>1, <3>2, <3>3, <3>4, TransitionMoves DEF InProgress
  <2> QED
    BY <2>1, <2>2
<1>9. ASSUME NEW r \in completing, CompleteCommit(r) PROVE TableStep
  <2>1. r.seen \in Observation
    BY DEF Inv, TypeOK, Report
  <2>2. CASE AbandonBuild(r.seen, "Interrupted")
    BY <2>1, <2>2 DEF TableStep, EndReasons
  <2>3. CASE Release(r.seen, "Publishing") \/ Release(r.seen, "Failed")
    BY <1>8, <2>1, <2>3 DEF States
  <2> QED
    BY <1>9, <2>2, <2>3 DEF CompleteCommit
<1>10. ASSUME NEW i \in Ids, CancelBuild(i) PROVE TableStep
  <2> DEFINE new == [builds[i] EXCEPT !.status = "Failed", !.reason = "Canceled",
                                      !.lease = Null]
             from == {"Active", "Enqueued", "WaitingForDeps"}
  <2>1. builds[i] \in Row
    BY DEF Inv, TypeOK
  <2>2. /\ new \in Row /\ new.status = "Failed" /\ new.reason = "Canceled"
        /\ new.pkg = builds[i].pkg /\ new.platform = builds[i].platform
        /\ new.number = builds[i].number /\ new.trigger = builds[i].trigger
    BY <2>1 DEF Row, States, EndReasons
  <2>3. Transition(i, from, new) /\ from \subseteq InProgress
    BY <1>10 DEF CancelBuild, InProgress
  <2> HIDE DEF new, from
  <2> QED
    BY <2>2, <2>3, TransitionMoves, NullSpendsNothing DEF States
<1>11. ASSUME NEW i \in Ids, DeleteBuild(i) PROVE TableStep
  BY <1>11 DEF DeleteBuild, TableStep, Deletes
<1>12. CASE ReapOne
  <2>1. PICK r \in reaping : AbandonBuild(r.seen, r.reason)
    BY <1>12 DEF ReapOne
  <2>2. r.seen \in Observation /\ r.reason \in EndReasons
    BY DEF Inv, TypeOK, Reap
  <2> QED
    BY <2>1, <2>2 DEF TableStep
<1>13. ASSUME NEW w \in Workers, RevokeOne(w) PROVE TableStep
  <2>1. PICK o \in revoking[w].left : AbandonBuild(o, "WorkerRevoked")
    BY <1>13 DEF RevokeOne
  <2>2. o \in Observation
    BY <2>1 DEF Inv, TypeOK, Revocation
  <2> QED
    BY <2>1, <2>2 DEF TableStep, EndReasons
<1>14. CASE \E w \in Workers : WorkerStep(w)
  BY <1>1, <1>3, <1>4, <1>5, <1>14 DEF WorkerStep, ClaimNothing, HeartbeatBegin, CompleteBegin
<1>15. CASE QueueStep
  <2>1. CASE \/ \E p \in Pkgs, pl \in Platforms : PromoteWaitingBuild(p, pl)
             \/ \E p \in Pkgs, pl \in Platforms : DemoteEnqueuedBuild(p, pl)
             \/ \E i \in Ids : PublishSettle(i)
             \/ \E i \in Ids : PublishFail(i)
    <3>1. /\ {"WaitingForDeps"} \subseteq InProgress /\ {"Enqueued"} \subseteq InProgress
          /\ {"Publishing"} \subseteq InProgress
          /\ \A p, pl : RowsOf(builds, p, pl) \subseteq Ids
          /\ "WaitingForDeps" \in States /\ "Enqueued" \in States
          /\ "Successful" \in States /\ "Failed" \in States
      BY DEF InProgress, RowsOf, States
    <3> QED
      BY <1>7, <2>1, <3>1, Zenon
         DEF PromoteWaitingBuild, DemoteEnqueuedBuild, PublishSettle, PublishFail
  <2>2. CASE ReapSelect
    BY <1>1, <2>2 DEF ReapSelect
  <2> QED
    BY <1>6, <1>9, <1>12, <1>15, <2>1, <2>2, Zenon DEF QueueStep
<1>16. CASE OperatorStep
  BY <1>1, <1>10, <1>11, <1>13, <1>16
     DEF OperatorStep, DeleteCheck, ApproveWorker, PauseCheck, SetPaused, RevokeMark, RevokeRead
<1>17. CASE Restart \/ Tick \/ UNCHANGED vars
  BY <1>1, <1>17 DEF Restart, Tick, vars
<1> QED
  BY <1>14, <1>15, <1>16, <1>17 DEF Next

----------------------------------------------------------------------------
(* The status of a package. *)

\* Rows that are no build of the package, before and after.
NotOf(q, row) == row.status = "Absent" \/ row.pkg # q

\* The builds of a package that no one touched have the states they had.
LEMMA NewestUnaffected ==
  ASSUME NEW bs, NEW cs, NEW q,
         \A j \in Ids : SameBuild(cs[j], bs[j]) \/ (NotOf(q, bs[j]) /\ NotOf(q, cs[j]))
  PROVE  NewestStates(cs, q) = NewestStates(bs, q)
<1>1. \A pl : RowsOf(cs, q, pl) = RowsOf(bs, q, pl)
  BY DEF RowsOf, Exists, SameBuild, NotOf
<1>2. \A pl : \A i \in RowsOf(bs, q, pl) :
         cs[i].status = bs[i].status /\ cs[i].number = bs[i].number
  BY DEF RowsOf, Exists, SameBuild, NotOf
<1>3. \A pl : Newest(cs, q, pl) = Newest(bs, q, pl) /\ Newest(bs, q, pl) \subseteq RowsOf(bs, q, pl)
  BY <1>1, <1>2 DEF Newest
<1> DEFINE All == UNION {Newest(bs, q, pl) : pl \in Platforms}
<1>4. UNION {Newest(cs, q, pl) : pl \in Platforms} = All
  BY <1>3
<1>5. \A i \in All : cs[i].status = bs[i].status
  BY <1>2, <1>3
<1> HIDE DEF All
<1>6. {cs[i].status : i \in All} = {bs[i].status : i \in All}
  BY <1>5
<1> QED
  BY <1>4, <1>6 DEF NewestStates, All

\* A step that touches builds of one package and refreshes its status.
LEMMA RefreshFollows ==
  ASSUME Inv, StatusFollowsBuilds, NEW p, RefreshPackageStatus(p),
         \A j \in Ids : \/ builds'[j] = builds[j]
                        \/ \A q : q # p => NotOf(q, builds[j]) /\ NotOf(q, builds'[j])
  PROVE  StatusFollowsBuilds'
<1>t. pkgStatus \in [Pkgs -> States]
  BY DEF Inv, TypeOK
<1> SUFFICES ASSUME NEW q \in Pkgs, NewestStates(builds', q) # {}
             PROVE  pkgStatus'[q] = CombinedStatus(NewestStates(builds', q))
  BY DEF StatusFollowsBuilds
<1>1. CASE q = p
  BY <1>t, <1>1 DEF RefreshPackageStatus
<1>2. CASE q # p
  <2>1. NewestStates(builds', q) = NewestStates(builds, q)
    <3>1. \A j \in Ids : SameBuild(builds'[j], builds[j])
                          \/ (NotOf(q, builds[j]) /\ NotOf(q, builds'[j]))
      BY <1>2 DEF SameBuild
    <3> QED
      BY <3>1, NewestUnaffected
  <2>2. pkgStatus[q] = CombinedStatus(NewestStates(builds, q))
    BY <2>1 DEF StatusFollowsBuilds
  <2>3. pkgStatus'[q] = pkgStatus[q]
    BY <1>t, <1>2 DEF RefreshPackageStatus
  <2> QED
    BY <2>1, <2>2, <2>3
<1> QED
  BY <1>1, <1>2

LEMMA StatusStep ==
  ASSUME Inv, StatusFollowsBuilds, [Next]_vars
  PROVE  StatusFollowsBuilds'
<1>t. builds \in [Ids -> Row]
  BY DEF Inv, TypeOK
<1>1. CASE Renews
  <2>1. \A q : NewestStates(builds', q) = NewestStates(builds, q)
    BY <1>1, NewestUnaffected DEF Renews
  <2> QED
    BY <1>1, <2>1 DEF Renews, StatusFollowsBuilds
<1>2. ASSUME NEW i \in Ids, NEW new \in Row, Moves(i, new)
      PROVE  StatusFollowsBuilds'
  <2>1. \A j \in Ids : \/ builds'[j] = builds[j]
                       \/ j = i /\ builds'[j].pkg = builds[i].pkg
    BY <1>t, <1>2 DEF Moves
  <2> QED
    BY <1>2, <2>1, RefreshFollows DEF Moves, NotOf
<1>3. ASSUME NEW bs, NEW p \in Pkgs, NEW pl \in Platforms, NEW state, NEW trigger,
             TableOK(bs, nextId), EnqueueBuildIfMissing(bs, p, pl, state, trigger)
      PROVE  \A j \in Ids : \/ builds'[j] = bs[j]
                            \/ \A q : q # p => NotOf(q, bs[j]) /\ NotOf(q, builds'[j])
  <2>1. CASE builds' = bs
    BY <2>1
  <2>2. CASE nextId \in Ids /\ \E row : row.pkg = p /\ builds' = [bs EXCEPT ![nextId] = row]
    <3>1. bs[nextId] = NoRow
      BY <1>3, <2>2, ConstantsAssumption DEF TableOK, Ids
    <3> QED
      BY <1>3, <2>2, <3>1 DEF TableOK, NotOf, NoRow
  <2> QED
    BY <1>3, <2>1, <2>2 DEF EnqueueBuildIfMissing
<1>4. ASSUME NEW p \in Pkgs, NEW pl \in Platforms, NEW state, NEW trigger,
             Inserts(p, pl, state, trigger)
      PROVE  StatusFollowsBuilds'
  BY <1>3, <1>4, RefreshFollows DEF Inserts, Inv
<1>5. ASSUME NEW o \in Observation, NEW reason \in EndReasons, AbandonBuild(o, reason)
      PROVE  StatusFollowsBuilds'
  <2>1. CASE ~StillHeld(o)
    BY <1>5, <2>1 DEF AbandonBuild, rows, StatusFollowsBuilds
  <2>2. CASE StillHeld(o)
    <3> DEFINE i == o.id
               p == builds[i].pkg
               pl == builds[i].platform
               failed == Failed(builds, i, reason)
    <3>1. i \in Ids /\ builds[i].status = "Active" /\ builds[i] \in Row
      BY <1>t, <2>2 DEF Observation, StillHeld
    <3>2. p \in Pkgs /\ pl \in Platforms
      BY <3>1 DEF Inv, TableOK, RowOK
    <3>3. TableOK(failed, nextId)
      BY <3>1, FailedTable DEF Inv
    <3>4. \A j \in Ids : \/ failed[j] = builds[j]
                         \/ j = i /\ failed[j].pkg = p
      BY <1>t, <3>1 DEF Failed, Row
    <3>5. \/ EnqueueBuildIfMissing(failed, p, pl, "Enqueued", "TimeoutRetry")
          \/ builds' = failed
      BY <1>5, <2>2 DEF AbandonBuild
    <3>6. RefreshPackageStatus(p)
      BY <1>5, <2>2 DEF AbandonBuild
    <3> HIDE DEF failed
    <3>7. \A j \in Ids : \/ builds'[j] = failed[j]
                         \/ \A q : q # p => NotOf(q, failed[j]) /\ NotOf(q, builds'[j])
      BY <1>3, <3>2, <3>3, <3>5
    <3>8. \A j \in Ids : \/ builds'[j] = builds[j]
                         \/ \A q : q # p => NotOf(q, builds[j]) /\ NotOf(q, builds'[j])
      BY <3>4, <3>7 DEF NotOf
    <3> HIDE DEF p
    <3> QED
      BY <3>6, <3>8, RefreshFollows
  <2> QED
    BY <2>1, <2>2
<1>6. ASSUME NEW i \in Ids, Deletes(i)
      PROVE  StatusFollowsBuilds'
  <2>1. \A j \in Ids : \/ builds'[j] = builds[j]
                       \/ j = i /\ builds'[j] = NoRow
    BY <1>t, <1>6 DEF Deletes
  <2>2. CASE Exists(builds, i)
    BY <1>6, <2>1, <2>2, RefreshFollows DEF Deletes, NotOf, NoRow
  <2>3. CASE ~Exists(builds, i)
    <3>1. \A q : NewestStates(builds', q) = NewestStates(builds, q)
      <4>1. \A q : \A j \in Ids : SameBuild(builds'[j], builds[j])
                       \/ (NotOf(q, builds[j]) /\ NotOf(q, builds'[j]))
        BY <2>1, <2>3 DEF SameBuild, NotOf, NoRow, Exists
      <4> QED
        BY <4>1, NewestUnaffected
    <3> QED
      BY <1>6, <2>3, <3>1 DEF Deletes, StatusFollowsBuilds
  <2> QED
    BY <2>2, <2>3
<1> QED
  BY <1>1, <1>2, <1>4, <1>5, <1>6, NextTableStep DEF TableStep

\* packages.status is what the newest builds make it, after every handler: no
\* handler writes a row of one package and refreshes another's status, or none.
THEOREM StatusFollowsBuildsHolds == Spec => []StatusFollowsBuilds
<1>1. Init => StatusFollowsBuilds
  BY DEF Init, StatusFollowsBuilds, NewestStates, Newest, RowsOf, Exists, NoRow
<1> QED
  BY <1>1, StatusStep, InvHolds, PTL DEF Spec

\* When waiting_reasons() explains why a build waits, no worker that is up is
\* offered it: the explanation and the claim apply the same routing rules.
THEOREM ExplainedMeansUnclaimableHolds == Spec => []ExplainedMeansUnclaimable
<1>1. ExplainedMeansUnclaimable
  BY DEF ExplainedMeansUnclaimable, WaitingReason, Offered
<1> QED
  BY <1>1, PTL

----------------------------------------------------------------------------
(* The retry budget. *)

\* A row that is a build of the package on the platform.
Of(row, p, pl) == row.status # "Absent" /\ row.pkg = p /\ row.platform = pl

\* Builds of a package are numbered in the order of their ids, and one under way
\* is the newest of its package and platform.
InOrder(bs) ==
    \A i, j \in Ids : Exists(bs, i) /\ Exists(bs, j) /\ i < j /\ bs[i].pkg = bs[j].pkg =>
        /\ bs[i].number < bs[j].number
        /\ bs[i].platform = bs[j].platform => bs[i].status \notin InProgress

\* The futile retries in a row that came right before the build i.
Below(bs, p, pl, i) ==
    {k \in RowsOf(bs, p, pl) :
        k < i /\ \A j \in RowsOf(bs, p, pl) : k <= j /\ j < i => Futile(bs[j])}

\* A retry under way still fits the budget if it fails too.
WithinBudget(bs) ==
    \A i \in Ids : bs[i].status \in InProgress /\ bs[i].trigger = "TimeoutRetry" =>
        Cardinality(Below(bs, bs[i].pkg, bs[i].platform, i)) < MaxAttempts

RunsWithin(bs) ==
    \A p \in Pkgs, pl \in Platforms : Cardinality(FutileRun(bs, p, pl)) <= MaxAttempts

Budget(bs) == InOrder(bs) /\ WithinBudget(bs) /\ RunsWithin(bs)

BudgetInv == Deletable = {} => deleting = {} /\ Budget(builds)

LEMMA RowsOfOf ==
  ASSUME NEW bs, NEW p, NEW pl
  PROVE  RowsOf(bs, p, pl) = {i \in Ids : Of(bs[i], p, pl)}
BY DEF RowsOf, Of, Exists

LEMMA CardinalityOfIds ==
  ASSUME NEW S, S \subseteq Ids
  PROVE  /\ IsFiniteSet(S) /\ Cardinality(S) \in Nat
         /\ \A T \in SUBSET S : Cardinality(T) <= Cardinality(S)
<1>1. IsFiniteSet(Ids)
  BY ConstantsAssumption, FS_Interval DEF Ids
<1>2. IsFiniteSet(S)
  BY <1>1, FS_Subset
<1> QED
  BY <1>2, FS_CardinalityType, FS_Subset

\* Rows that agree on whose builds they are, their order and whether they were
\* futile have the same runs.
AgreeOn(bs, cs, p, pl) ==
    \A j \in Ids : /\ Of(cs[j], p, pl) <=> Of(bs[j], p, pl)
                   /\ Of(bs[j], p, pl) => /\ cs[j].number = bs[j].number
                                          /\ Futile(cs[j]) <=> Futile(bs[j])

LEMMA RunsUnaffected ==
  ASSUME NEW bs, NEW cs, NEW p, NEW pl, AgreeOn(bs, cs, p, pl)
  PROVE  /\ FutileRun(cs, p, pl) = FutileRun(bs, p, pl)
         /\ \A i : Below(cs, p, pl, i) = Below(bs, p, pl, i)
<1>1. RowsOf(cs, p, pl) = RowsOf(bs, p, pl)
  BY RowsOfOf DEF AgreeOn
<1>2. \A j \in RowsOf(bs, p, pl) : /\ cs[j].number = bs[j].number
                                   /\ Futile(cs[j]) <=> Futile(bs[j])
  BY RowsOfOf DEF AgreeOn
<1> HIDE DEF Futile
<1> QED
  BY <1>1, <1>2 DEF FutileRun, Below

\* A step that spends no retry: rows keep their number, and none becomes futile,
\* stops being so, or comes to be under way.
LEMMA KeptBudget ==
  ASSUME NEW bs, NEW cs, Budget(bs),
         \A j \in Ids : /\ \A p, pl : Of(cs[j], p, pl) <=> Of(bs[j], p, pl)
                        /\ cs[j].pkg = bs[j].pkg /\ cs[j].platform = bs[j].platform
                        /\ cs[j].number = bs[j].number /\ cs[j].trigger = bs[j].trigger
                        /\ Futile(cs[j]) <=> Futile(bs[j])
                        /\ cs[j].status \in InProgress => bs[j].status \in InProgress
                        /\ Exists(cs, j) <=> Exists(bs, j)
  PROVE  Budget(cs)
<1>1. \A p, pl : /\ FutileRun(cs, p, pl) = FutileRun(bs, p, pl)
                 /\ \A i : Below(cs, p, pl, i) = Below(bs, p, pl, i)
  <2>1. \A p, pl : AgreeOn(bs, cs, p, pl)
    BY DEF AgreeOn
  <2> QED
    BY <2>1, RunsUnaffected
<1>2. RunsWithin(cs)
  BY <1>1 DEF Budget, RunsWithin
<1>3. WithinBudget(cs)
  BY <1>1 DEF Budget, WithinBudget
<1>4. InOrder(cs)
  BY DEF Budget, InOrder
<1> QED
  BY <1>2, <1>3, <1>4 DEF Budget

\* A new build is the newest of its package and platform and ends the run: a retry
\* has it below, and was queued because it was short of the budget.
LEMMA InsertedBudget ==
  ASSUME NEW bs, TableOK(bs, nextId), Budget(bs), nextId \in Ids,
         NEW p \in Pkgs, NEW pl \in Platforms, ~Pending(bs, p, pl),
         NEW row, Of(row, p, pl), row.number = NextNumber(bs, p), row.reason = Null,
         row.trigger = "TimeoutRetry" => Cardinality(FutileRun(bs, p, pl)) < MaxAttempts,
         NEW cs, cs[nextId] = row, \A j \in Ids : j # nextId => cs[j] = bs[j]
  PROVE  Budget(cs)
<1> DEFINE n == nextId
<1>1. /\ cs[n] = row /\ ~Futile(cs[n])
      /\ \A j \in Ids : j # n => cs[j] = bs[j]
  BY NullSpendsNothing DEF Futile
<1>2. n \in Nat /\ Ids \subseteq Nat /\ ~Exists(bs, n) /\ \A j \in Ids : Exists(bs, j) => j < n
  <2>1. n \in Nat /\ Ids \subseteq Nat
    BY ConstantsAssumption DEF Ids
  <2>2. \A j \in Ids : j >= n => bs[j] = NoRow
    BY DEF TableOK
  <2>3. \A j \in Ids : j >= n => ~Exists(bs, j)
    BY <2>2 DEF Exists, NoRow
  <2>4. n >= n /\ \A j \in Ids : ~(j >= n) => j < n
    BY <2>1
  <2> QED
    BY <2>1, <2>3, <2>4
<1>3. \A j \in Ids : Exists(bs, j) => bs[j].number \in Nat
  BY DEF TableOK, Row
<1>4. row.number \in Nat /\ \A j \in Ids : Exists(bs, j) /\ bs[j].pkg = p => bs[j].number < row.number
  BY <1>2, NextNumberBound
<1>5. \A j \in Ids : Of(bs[j], p, pl) => bs[j].status \notin InProgress
  BY RowsOfOf DEF Pending
<1> HIDE DEF n
<1>6. InOrder(cs)
  <2> SUFFICES ASSUME NEW i \in Ids, NEW j \in Ids, Exists(cs, i), Exists(cs, j), i < j,
                      cs[i].pkg = cs[j].pkg
               PROVE  /\ cs[i].number < cs[j].number
                      /\ cs[i].platform = cs[j].platform => cs[i].status \notin InProgress
    BY DEF InOrder
  <2>1. i # n
    <3>1. j # n => j < n
      BY <1>1, <1>2 DEF Exists
    <3> QED
      BY <1>2, <3>1
  <2>2. CASE j = n
    BY <1>1, <1>4, <1>5, <2>1, <2>2 DEF Exists, Of
  <2>3. CASE j # n
    BY <1>1, <2>1, <2>3 DEF Budget, InOrder, Exists
  <2> QED
    BY <2>2, <2>3
<1>7. ASSUME NEW q, NEW ql, q # p \/ ql # pl
      PROVE  /\ FutileRun(cs, q, ql) = FutileRun(bs, q, ql)
             /\ \A i : Below(cs, q, ql, i) = Below(bs, q, ql, i)
  <2>1. ~Of(cs[n], q, ql) /\ ~Of(bs[n], q, ql)
    BY <1>1, <1>2, <1>7 DEF Of, Exists
  <2>2. AgreeOn(bs, cs, q, ql)
    BY <1>1, <2>1 DEF AgreeOn
  <2> QED
    BY <2>2, RunsUnaffected
<1>8. RunsWithin(cs)
  <2>1. FutileRun(cs, p, pl) = {}
    <3>1. n \in RowsOf(cs, p, pl)
      BY <1>1, RowsOfOf DEF n
    <3>2. \A i \in RowsOf(cs, p, pl) : cs[n].number >= cs[i].number
      <4> SUFFICES ASSUME NEW i \in Ids, Of(cs[i], p, pl)
                   PROVE  cs[n].number >= cs[i].number
        BY RowsOfOf
      <4>1. CASE i = n
        BY <1>1, <1>4, <4>1
      <4>2. CASE i # n
        BY <1>1, <1>3, <1>4, <4>2 DEF Of, Exists
      <4> QED
        BY <4>1, <4>2
    <3> QED
      BY <1>1, <3>1, <3>2 DEF FutileRun
  <2>2. Cardinality({}) <= MaxAttempts
    BY FS_EmptySet, ConstantsAssumption
  <2>3. ASSUME NEW q \in Pkgs, NEW ql \in Platforms, q # p \/ ql # pl
        PROVE  Cardinality(FutileRun(cs, q, ql)) <= MaxAttempts
    <3>1. FutileRun(cs, q, ql) = FutileRun(bs, q, ql)
      BY <1>7, <2>3
    <3> QED
      BY <3>1 DEF Budget, RunsWithin
  <2> QED
    BY <2>1, <2>2, <2>3, Zenon DEF RunsWithin
<1>9. WithinBudget(cs)
  <2> SUFFICES ASSUME NEW i \in Ids, cs[i].status \in InProgress, cs[i].trigger = "TimeoutRetry"
               PROVE  Cardinality(Below(cs, cs[i].pkg, cs[i].platform, i)) < MaxAttempts
    BY DEF WithinBudget
  <2>1. CASE i = n
    <3>1. Below(cs, p, pl, n) \subseteq FutileRun(bs, p, pl)
      <4> SUFFICES ASSUME NEW k \in Below(cs, p, pl, n)
                   PROVE  k \in FutileRun(bs, p, pl)
        OBVIOUS
      <4>1. /\ k \in Ids /\ Of(cs[k], p, pl) /\ k < n
            /\ \A j \in RowsOf(cs, p, pl) : k <= j /\ j < n => Futile(cs[j])
        BY RowsOfOf DEF Below
      <4>2. k # n /\ k \in RowsOf(bs, p, pl)
        <5>1. k # n
          BY <1>2, <4>1
        <5> QED
          BY <1>1, <4>1, <5>1, RowsOfOf
      <4>3. ASSUME NEW j \in RowsOf(bs, p, pl), bs[j].number >= bs[k].number
            PROVE  Futile(bs[j])
        <5>1. j \in Ids /\ Of(bs[j], p, pl) /\ Of(bs[k], p, pl)
          BY <4>2, RowsOfOf
        <5>2. j < n /\ j # n
          BY <1>2, <5>1 DEF Of, Exists
        <5>3. ~(j < k)
          BY <1>3, <4>1, <4>3, <5>1 DEF Budget, InOrder, Of, Exists
        <5>4. j \in RowsOf(cs, p, pl)
          BY <1>1, <5>1, <5>2, RowsOfOf
        <5>5. k <= j
          BY <1>2, <4>1, <5>1, <5>3
        <5> QED
          BY <1>1, <4>1, <5>1, <5>2, <5>4, <5>5
      <4> QED
        BY <4>2, <4>3 DEF FutileRun
    <3>2. FutileRun(bs, p, pl) \subseteq Ids
      BY RowsOfOf DEF FutileRun
    <3>3. /\ Cardinality(Below(cs, p, pl, n)) <= Cardinality(FutileRun(bs, p, pl))
          /\ Cardinality(Below(cs, p, pl, n)) \in Nat /\ Cardinality(FutileRun(bs, p, pl)) \in Nat
      BY <3>1, <3>2, CardinalityOfIds
    <3>4. cs[i].pkg = p /\ cs[i].platform = pl /\ row.trigger = "TimeoutRetry"
      BY <1>1, <2>1 DEF Of
    <3> QED
      BY <2>1, <3>3, <3>4, ConstantsAssumption
  <2>2. CASE i # n
    <3>1. cs[i] = bs[i]
      BY <1>1, <2>2
    <3>2. cs[i].pkg # p \/ cs[i].platform # pl
      BY <1>5, <3>1 DEF Of, InProgress
    <3>3. Below(cs, bs[i].pkg, bs[i].platform, i) = Below(bs, bs[i].pkg, bs[i].platform, i)
      <4>1. bs[i].pkg # p \/ bs[i].platform # pl
        BY <3>1, <3>2
      <4> QED
        BY <1>7, <4>1
    <3> QED
      BY <3>1, <3>3 DEF Budget, WithinBudget
  <2> QED
    BY <2>1, <2>2
<1> QED
  BY <1>6, <1>8, <1>9 DEF Budget

\* Failing a build ends a run of at most what was below it, and itself; if it was no
\* retry, the run is over.
LEMMA FailedBudget ==
  ASSUME NEW bs, NEW m, TableOK(bs, m), Budget(bs), NEW i \in Ids, bs[i].status = "Active",
         NEW reason \in EndReasons
  PROVE  Budget(Failed(bs, i, reason))
<1> DEFINE cs == Failed(bs, i, reason)
           p == bs[i].pkg
           pl == bs[i].platform
<1>1. bs[i] \in Row /\ bs \in [Ids -> Row]
  BY DEF TableOK
<1>2. /\ cs[i].pkg = p /\ cs[i].platform = pl /\ cs[i].number = bs[i].number
      /\ cs[i].trigger = bs[i].trigger /\ cs[i].status = "Failed"
      /\ \A j \in Ids : j # i => cs[j] = bs[j]
  BY <1>1 DEF Failed, Row
<1>3. p \in Pkgs /\ pl \in Platforms /\ Ids \subseteq Nat
  BY ConstantsAssumption DEF TableOK, RowOK, Ids
<1>4. \A j \in Ids : bs[j].number \in Nat
  BY DEF TableOK, Row
<1> HIDE DEF cs
<1>5. InOrder(cs)
  BY <1>2 DEF Budget, InOrder, Exists, InProgress
<1>6. ASSUME NEW q, NEW ql, q # p \/ ql # pl
      PROVE  /\ FutileRun(cs, q, ql) = FutileRun(bs, q, ql)
             /\ \A k : Below(cs, q, ql, k) = Below(bs, q, ql, k)
  <2>1. ~Of(cs[i], q, ql) /\ ~Of(bs[i], q, ql)
    BY <1>2, <1>6 DEF Of
  <2>2. AgreeOn(bs, cs, q, ql)
    BY <1>2, <2>1 DEF AgreeOn
  <2> QED
    BY <2>2, RunsUnaffected
\* The build is the newest of its package and platform.
<1>7. \A k \in RowsOf(cs, p, pl) : k \in Ids /\ k \in RowsOf(bs, p, pl) /\ k <= i
  <2> SUFFICES ASSUME NEW k \in Ids, Of(cs[k], p, pl)
               PROVE  Of(bs[k], p, pl) /\ k <= i
    BY RowsOfOf
  <2>1. Of(bs[k], p, pl)
    BY <1>2 DEF Of
  <2>2. ~(i < k)
    BY <2>1 DEF Budget, InOrder, Of, Exists, InProgress
  <2> QED
    BY <1>3, <2>1, <2>2
<1>8. WithinBudget(cs)
  <2> SUFFICES ASSUME NEW k \in Ids, cs[k].status \in InProgress, cs[k].trigger = "TimeoutRetry"
               PROVE  Cardinality(Below(cs, cs[k].pkg, cs[k].platform, k)) < MaxAttempts
    BY DEF WithinBudget
  <2>1. k # i /\ cs[k] = bs[k]
    BY <1>2 DEF InProgress
  <2>2. cs[k].pkg # p \/ cs[k].platform # pl
    <3> SUFFICES ASSUME cs[k].pkg = p, cs[k].platform = pl PROVE FALSE
      OBVIOUS
    <3>1. Exists(bs, k) /\ Exists(bs, i) /\ bs[k].status \in InProgress /\ bs[i].status \in InProgress
      BY <2>1 DEF Exists, InProgress
    <3>2. k < i \/ i < k
      BY <1>3, <2>1
    <3> QED
      BY <2>1, <3>1, <3>2 DEF Budget, InOrder
  <2> QED
    BY <1>6, <2>1, <2>2 DEF Budget, WithinBudget
<1>9. RunsWithin(cs)
  <2> DEFINE run == FutileRun(cs, p, pl)
  <2>1. Cardinality(run) <= MaxAttempts
    <3>1. i \in RowsOf(cs, p, pl)
      BY <1>2, RowsOfOf DEF Of
    <3>2. \A k \in RowsOf(cs, p, pl) : cs[i].number >= cs[k].number
      <4> SUFFICES ASSUME NEW k \in RowsOf(cs, p, pl)
                   PROVE  cs[i].number >= cs[k].number
        OBVIOUS
      <4>1. k \in Ids /\ Of(bs[k], p, pl) /\ k <= i
        BY <1>7, RowsOfOf
      <4>2. CASE k = i
        BY <1>2, <1>4, <4>2
      <4>3. CASE k # i
        <5>1. k < i
          BY <1>3, <4>1, <4>3
        <5>2. bs[k].number < bs[i].number
          BY <4>1, <5>1 DEF Budget, InOrder, Of, Exists
        <5> QED
          BY <1>2, <1>4, <4>1, <4>3, <5>2
      <4> QED
        BY <4>2, <4>3
    <3>3. CASE ~Futile(cs[i])
      <4>1. run = {}
        BY <3>1, <3>2, <3>3 DEF FutileRun
      <4> QED
        BY <4>1, FS_EmptySet, ConstantsAssumption
    <3>4. CASE Futile(cs[i])
      <4> DEFINE below == Below(bs, p, pl, i)
      <4>1. run \subseteq below \cup {i}
        <5> SUFFICES ASSUME NEW k \in run, k # i
                     PROVE  k \in below
          OBVIOUS
        <5>1. /\ k \in RowsOf(cs, p, pl)
              /\ \A j \in RowsOf(cs, p, pl) : cs[j].number >= cs[k].number => Futile(cs[j])
          BY DEF FutileRun
        <5>2. k \in Ids /\ k \in RowsOf(bs, p, pl) /\ k < i
          <6>1. k \in Ids /\ k \in RowsOf(bs, p, pl) /\ k <= i /\ k \in Nat /\ i \in Nat
            BY <1>3, <1>7, <5>1
          <6> QED
            BY <6>1
        <5>3. ASSUME NEW j \in RowsOf(bs, p, pl), k <= j, j < i
              PROVE  Futile(bs[j])
          <6>1. j \in Ids /\ Of(bs[j], p, pl) /\ Of(bs[k], p, pl) /\ j # i
            BY <1>3, <5>2, <5>3, RowsOfOf
          <6>2. cs[j] = bs[j] /\ cs[k] = bs[k] /\ j \in RowsOf(cs, p, pl)
            BY <1>2, <5>2, <6>1, RowsOfOf
          <6>3. bs[j].number >= bs[k].number
            BY <1>3, <1>4, <5>2, <5>3, <6>1 DEF Budget, InOrder, Of, Exists
          <6> QED
            BY <5>1, <6>2, <6>3
        <5> QED
          BY <5>2, <5>3 DEF Below
      <4>2. Cardinality(below) < MaxAttempts
        BY <1>2, <3>4 DEF Futile, Budget, WithinBudget, InProgress
      <4>3. below \subseteq Ids /\ below \cup {i} \subseteq Ids
        BY RowsOfOf DEF Below
      <4> HIDE DEF run, below
      <4>4. IsFiniteSet(below) /\ Cardinality(below) \in Nat
        BY <4>3, CardinalityOfIds
      <4>5. /\ Cardinality(below \cup {i}) <= Cardinality(below) + 1
            /\ Cardinality(below \cup {i}) \in Nat
        <5>1. \/ Cardinality(below \cup {i}) = Cardinality(below)
              \/ Cardinality(below \cup {i}) = Cardinality(below) + 1
          BY <4>4, FS_AddElement, Zenon
        <5> QED
          BY <4>4, <5>1
      <4>6. Cardinality(run) <= Cardinality(below \cup {i}) /\ Cardinality(run) \in Nat
        BY <4>1, <4>3, CardinalityOfIds
      <4> QED
        BY <4>2, <4>4, <4>5, <4>6, ConstantsAssumption
    <3> QED
      BY <3>3, <3>4
  <2> HIDE DEF run
  <2> QED
    BY <1>6, <2>1 DEF Budget, RunsWithin, run
<1> QED
  BY <1>5, <1>8, <1>9 DEF Budget, cs

\* Queueing a build, of any trigger, keeps the budget.
LEMMA EnqueuedBudget ==
  ASSUME NEW bs, TableOK(bs, nextId), Budget(bs), NEW p \in Pkgs, NEW pl \in Platforms,
         NEW state \in {"Enqueued", "WaitingForDeps"}, NEW trigger,
         trigger = "TimeoutRetry" => Cardinality(FutileRun(bs, p, pl)) < MaxAttempts,
         EnqueueBuildIfMissing(bs, p, pl, state, trigger)
  PROVE  Budget(builds')
<1>1. CASE Pending(bs, p, pl)
  BY <1>1 DEF EnqueueBuildIfMissing
<1>2. CASE ~Pending(bs, p, pl)
  <2> DEFINE row == [status |-> state, pkg |-> p, platform |-> pl,
                     number |-> NextNumber(bs, p), trigger |-> trigger,
                     worker |-> Null, lease |-> Null, start |-> now, reason |-> Null]
  <2>1. nextId \in Ids /\ builds' = [bs EXCEPT ![nextId] = row]
    BY <1>2 DEF EnqueueBuildIfMissing
  <2>2. /\ Of(row, p, pl) /\ row.number = NextNumber(bs, p) /\ row.reason = Null
        /\ row.trigger = trigger
    BY DEF Of
  <2> HIDE DEF row
  <2>3. row.trigger = "TimeoutRetry" => Cardinality(FutileRun(bs, p, pl)) < MaxAttempts
    BY <2>2
  <2> DEFINE cs == builds'
  <2>4. cs[nextId] = row /\ \A j \in Ids : j # nextId => cs[j] = bs[j]
    BY <2>1 DEF TableOK
  <2> HIDE DEF cs
  <2>5. Budget(cs)
    BY <1>2, <2>1, <2>2, <2>3, <2>4, InsertedBudget
  <2> QED
    BY <2>5 DEF cs
<1> QED
  BY <1>1, <1>2

LEMMA BudgetStep ==
  ASSUME Inv, BudgetInv, [Next]_vars
  PROVE  BudgetInv'
<1> SUFFICES ASSUME Deletable = {}
             PROVE  deleting' = {} /\ Budget(builds')
  BY DEF BudgetInv, Budget
<1>1. deleting = {} /\ Budget(builds)
  BY DEF BudgetInv
<1>t. builds \in [Ids -> Row] /\ TableOK(builds, nextId)
  BY DEF Inv, TypeOK
<1>2. deleting' = {}
  <2>1. CASE \E w \in Workers : WorkerStep(w)
    BY <1>1, <2>1 DEF WorkerStep, ClaimJob, ClaimNothing, HeartbeatBegin, HeartbeatDrop,
                HeartbeatRenew, CompleteBegin, handlers, operators
  <2>2. CASE QueueStep
    BY <1>1, <2>2 DEF QueueStep, Enqueue, PromoteWaitingBuild, DemoteEnqueuedBuild, CompleteCommit,
                PublishSettle, PublishFail, ReapSelect, ReapOne, handlers, operators
  <2>3. CASE OperatorStep
    BY <1>1, <2>3 DEF OperatorStep, CancelBuild, DeleteCheck, DeleteBuild, ApproveWorker,
                PauseCheck, SetPaused, RevokeMark, RevokeRead, RevokeOne, handlers, operators
  <2>4. CASE Restart \/ Tick \/ UNCHANGED vars
    BY <1>1, <2>4 DEF Restart, Tick, vars, handlers, operators
  <2> QED
    BY <2>1, <2>2, <2>3, <2>4 DEF Next
<1>3. CASE Renews
  <2>1. \A j \in Ids : SameBuild(builds'[j], builds[j])
    BY <1>3 DEF Renews
  <2>2. \A j \in Ids : /\ \A p, pl : Of(builds'[j], p, pl) <=> Of(builds[j], p, pl)
                       /\ builds'[j].pkg = builds[j].pkg /\ builds'[j].platform = builds[j].platform
                       /\ builds'[j].number = builds[j].number
                       /\ builds'[j].trigger = builds[j].trigger
                       /\ Futile(builds'[j]) <=> Futile(builds[j])
                       /\ builds'[j].status \in InProgress => builds[j].status \in InProgress
                       /\ Exists(builds', j) <=> Exists(builds, j)
    BY <2>1 DEF SameBuild, Of, Futile, Exists
  <2> QED
    BY <1>1, <1>2, <2>2, KeptBudget
<1>4. ASSUME NEW i \in Ids, NEW new \in Row, Moves(i, new) PROVE Budget(builds')
  <2>1. builds[i].reason = Null /\ Null \notin SpendsRetry
    BY <1>4, NoReasonYet, NullSpendsNothing DEF Moves
  <2>2. builds'[i] = new /\ \A j \in Ids : j # i => builds'[j] = builds[j]
    BY <1>4, <1>t DEF Moves
  <2>3. new.status # "Absent" /\ builds[i].status # "Absent"
    BY <1>4 DEF Moves, States, InProgress
  <2>4. ASSUME NEW j \in Ids
        PROVE  /\ \A p, pl : Of(builds'[j], p, pl) <=> Of(builds[j], p, pl)
               /\ builds'[j].pkg = builds[j].pkg /\ builds'[j].platform = builds[j].platform
               /\ builds'[j].number = builds[j].number /\ builds'[j].trigger = builds[j].trigger
               /\ Futile(builds'[j]) <=> Futile(builds[j])
               /\ builds'[j].status \in InProgress => builds[j].status \in InProgress
               /\ Exists(builds', j) <=> Exists(builds, j)
    <3>1. CASE j = i
      BY <1>4, <2>1, <2>2, <2>3, <3>1 DEF Moves, Of, Futile, Exists
    <3>2. CASE j # i
      BY <2>2, <3>2 DEF Exists
    <3> QED
      BY <3>1, <3>2
  <2> QED
    BY <1>1, <2>4, KeptBudget
<1>5. ASSUME NEW p \in Pkgs, NEW pl \in Platforms, NEW state \in {"Enqueued", "WaitingForDeps"},
             NEW trigger \in Triggers, Inserts(p, pl, state, trigger)
      PROVE  Budget(builds')
  BY <1>1, <1>t, <1>5, EnqueuedBudget DEF Inserts
<1>6. ASSUME NEW o \in Observation, NEW reason \in EndReasons, AbandonBuild(o, reason)
      PROVE  Budget(builds')
  <2>1. CASE ~StillHeld(o)
    BY <1>1, <1>6, <2>1 DEF AbandonBuild, rows
  <2>2. CASE StillHeld(o)
    <3> DEFINE i == o.id
               p == builds[i].pkg
               pl == builds[i].platform
               failed == Failed(builds, i, reason)
    <3>1. i \in Ids /\ builds[i].status = "Active"
      BY <2>2 DEF Observation, StillHeld
    <3>2. p \in Pkgs /\ pl \in Platforms
      BY <1>t, <3>1 DEF TableOK, RowOK
    <3>3. TableOK(failed, nextId) /\ Budget(failed)
      BY <1>1, <1>t, <3>1, FailedTable, FailedBudget
    <3>4. \/ /\ Cardinality(FutileRun(failed, p, pl)) < MaxAttempts
             /\ EnqueueBuildIfMissing(failed, p, pl, "Enqueued", "TimeoutRetry")
          \/ builds' = failed
      BY <1>6, <2>2 DEF AbandonBuild
    <3> HIDE DEF failed, p, pl
    <3> QED
      BY <3>2, <3>3, <3>4, EnqueuedBudget
  <2> QED
    BY <2>1, <2>2
<1>7. ASSUME NEW i \in Ids, Deletes(i) PROVE FALSE
  BY <1>1, <1>7 DEF Deletes
<1> QED
  BY <1>2, <1>3, <1>4, <1>5, <1>6, <1>7, NextTableStep DEF TableStep

\* abandon_build, step 3: the newest builds of a package on a platform never hold
\* more futile retries in a row than the budget, for any budget and any
\* interleaving of abandonments, requests, reports and cancels.
THEOREM RetryBudgetHolds == Spec => []RetryBudgetRespected
<1>1. Init => BudgetInv
  <2> SUFFICES ASSUME Init PROVE deleting = {} /\ Budget(builds)
    BY DEF BudgetInv
  <2>1. \A i \in Ids : builds[i].status = "Absent"
    BY DEF Init, NoRow
  <2>2. \A p, pl : FutileRun(builds, p, pl) = {}
    BY <2>1 DEF FutileRun, RowsOf, Exists
  <2>3. Cardinality({}) <= MaxAttempts
    BY FS_EmptySet, ConstantsAssumption
  <2>4. RunsWithin(builds)
    BY <2>2, <2>3 DEF RunsWithin
  <2>5. InOrder(builds) /\ WithinBudget(builds)
    BY <2>1 DEF InOrder, WithinBudget, Exists, InProgress
  <2> QED
    BY <2>4, <2>5 DEF Budget, Init
<1>2. Inv /\ BudgetInv /\ [Next]_vars => BudgetInv'
  BY BudgetStep
<1>3. BudgetInv => RetryBudgetRespected
  BY DEF BudgetInv, Budget, RunsWithin, RetryBudgetRespected
<1> QED
  BY <1>1, <1>2, <1>3, InvHolds, PTL DEF Spec

============================================================================
