-------------------------- MODULE BuildLifecycle --------------------------
(***************************************************************************)
(* What the build queue promises about builds, with no word of leases,     *)
(* heartbeats, clocks, restarts or the handlers in flight: a row is one    *)
(* attempt at one package on one platform, handed to at most one worker,   *)
(* with at most one attempt per package and platform under way; an attempt *)
(* that ended stays ended, and an id is never used again.                  *)
(***************************************************************************)

CONSTANTS Ids, Subjects, Workers, Nobody

VARIABLE attempts     \* [Ids -> attempt]

Unused == [status |-> "Unused", subject |-> Nobody, worker |-> Nobody]
Gone == [status |-> "Gone", subject |-> Nobody, worker |-> Nobody]

UnderWay == {"WaitingForDeps", "Enqueued", "Active", "Publishing"}

Idle(s) == \A i \in Ids : attempts[i].subject = s => attempts[i].status \notin UnderWay

Fresh(s, state) == [status |-> state, subject |-> s, worker |-> Nobody]

Moved(i, state) == [attempts[i] EXCEPT !.status = state]

----------------------------------------------------------------------------

Init == attempts = [i \in Ids |-> Unused]

\* Someone asks for a build of s.
Request(i, s, state) ==
    /\ attempts[i] = Unused
    /\ Idle(s)
    /\ state \in {"Enqueued", "WaitingForDeps"}
    /\ attempts' = [attempts EXCEPT ![i] = Fresh(s, state)]

\* Its dependencies become ready, or stop being so.
Hold(i) ==
    /\ attempts[i].status = "Enqueued"
    /\ attempts' = [attempts EXCEPT ![i] = Moved(i, "WaitingForDeps")]

Unhold(i) ==
    /\ attempts[i].status = "WaitingForDeps"
    /\ attempts' = [attempts EXCEPT ![i] = Moved(i, "Enqueued")]

\* A worker takes it.
Take(i, w) ==
    /\ attempts[i].status = "Enqueued"
    /\ attempts[i].worker = Nobody
    /\ attempts' = [attempts EXCEPT ![i] = [Moved(i, "Active") EXCEPT !.worker = w]]

\* The worker is done and the server publishes the result.
Accept(i) ==
    /\ attempts[i].status = "Active"
    /\ attempts' = [attempts EXCEPT ![i] = Moved(i, "Publishing")]

Publish(i) ==
    /\ attempts[i].status = "Publishing"
    /\ attempts' = [attempts EXCEPT ![i] = Moved(i, "Successful")]

\* It fails, is cancelled or is abandoned.
Fail(i) ==
    /\ attempts[i].status \in UnderWay
    /\ attempts' = [attempts EXCEPT ![i] = Moved(i, "Failed")]

\* It is abandoned and tried again: another attempt, queued as this one ends.
Retry(i, j) ==
    /\ attempts[i].status = "Active"
    /\ attempts[j] = Unused
    /\ attempts' = [attempts EXCEPT ![i] = Moved(i, "Failed"),
                                    ![j] = Fresh(attempts[i].subject, "Enqueued")]

\* Its row is deleted.
Delete(i) ==
    /\ attempts[i].status # "Unused"
    /\ attempts' = [attempts EXCEPT ![i] = Gone]

Next ==
    \/ \E i \in Ids, s \in Subjects, state \in {"Enqueued", "WaitingForDeps"} :
          Request(i, s, state)
    \/ \E i \in Ids : Hold(i) \/ Unhold(i)
    \/ \E i \in Ids, w \in Workers : Take(i, w)
    \/ \E i \in Ids : Accept(i) \/ Publish(i) \/ Fail(i) \/ Delete(i)
    \/ \E i, j \in Ids : Retry(i, j)

Spec == Init /\ [][Next]_attempts

\* No two attempts at the same package and platform are under way.
AtMostOneUnderWay ==
    \A i, j \in Ids :
        /\ attempts[i].status \in UnderWay
        /\ attempts[j].status \in UnderWay
        /\ attempts[i].subject = attempts[j].subject
        => i = j

============================================================================
