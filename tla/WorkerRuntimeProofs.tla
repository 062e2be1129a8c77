-------------------------- MODULE WorkerRuntimeProofs --------------------------
(* Proofs about WorkerRuntime: no place under the concurrency limit leaks.    *)
EXTENDS WorkerRuntime, FiniteSetTheorems, TLAPS

\* A build that is still queued has no task; the one a claim's answer carries has
\* left the queue, and its task is not started yet.
QueuedIdle == \A b \in Builds : build[b] = "Queued" => task[b].at = "None"
ReplyFresh ==
    loop.at = "Reply" =>
       /\ loop.got \in Builds
       /\ task[loop.got].at = "None"
       /\ build[loop.got] # "Queued"

Inv == TypeOK /\ EveryPlaceIsHeld /\ QueuedIdle /\ ReplyFresh

\* What the place in the loop's hands counts for.
InHand == IF loop.at \in {"Ready", "Reply"} THEN 1 ELSE 0

\* The types of the parts a step changes.
TaskType == [at : {"None", "Running", "Report", "Reply"}, stop : {"No", "Asked", "Alone"},
             outcome : Outcomes, attempt : 1 .. Attempts, ok : BOOLEAN]
LoopType == [at : {"Start", "Enter", "Check", "Wait", "Ready", "Reply"},
             woken : BOOLEAN, got : Builds \cup {Unset}]
GateType == [target : Nat \ {0}, running : Nat]
BeatType == [at : {"Idle", "Sent", "Reply", "Sync"}, ids : SUBSET Builds,
             report : Config \cup {Unset}, rev : Maybe(Snapshots), cancel : SUBSET Builds,
             config : Maybe(Snapshots)]
RenewalType == [at : {"No", "Sent", "Taken"}, n : Values]

LEMMA Constants ==
    /\ NoTask \in TaskType
    /\ NoRenewal \in RenewalType
    /\ NoBeat \in BeatType
    /\ Entering \in LoopType
    /\ [Entering EXCEPT !.at = "Start"] \in LoopType
    /\ \A n \in Values : AtLeastOne(n) \in Nat \ {0}
    /\ [n |-> Own, rev |-> <<>>] \in Config
    /\ 0 \in 0 .. LeaseTtl + 1 /\ 0 \in 0 .. LeaseTtl /\ 0 \in 0 .. MaxEvents
  <1> USE RuntimeAssumption
  <1>1. NoTask \in TaskType
    BY DEF NoTask, TaskType, Outcomes
  <1>2. NoRenewal \in RenewalType
    BY DEF NoRenewal, RenewalType, Values
  <1>3. <<>> \in Maybe(Snapshots)
    BY DEF Maybe
  <1>4. NoBeat \in BeatType
    BY <1>3 DEF NoBeat, BeatType
  <1>5. Entering \in LoopType /\ [Entering EXCEPT !.at = "Start"] \in LoopType
    BY DEF Entering, LoopType
  <1>6. \A n \in Values : AtLeastOne(n) \in Nat \ {0}
    BY DEF Values, AtLeastOne
  <1>7. [n |-> Own, rev |-> <<>>] \in Config
    BY <1>3 DEF Config, Values
  <1>8. 0 \in 0 .. LeaseTtl + 1 /\ 0 \in 0 .. LeaseTtl /\ 0 \in 0 .. MaxEvents
    OBVIOUS
  <1> QED BY <1>1, <1>2, <1>4, <1>5, <1>6, <1>7, <1>8

LEMMA ActiveFinite == IsFiniteSet(Active) /\ Cardinality(Active) \in Nat
  <1>1. Active \subseteq Builds
    BY DEF Active
  <1> QED BY <1>1, RuntimeAssumption, FS_Subset, FS_CardinalityType

\* Whoever leaves active leaves one less, whoever enters one more.
LEMMA ActiveLess ==
    ASSUME NEW b \in Active, Active' = Active \ {b}
    PROVE  Cardinality(Active') = Cardinality(Active) - 1
  BY ActiveFinite, FS_RemoveElement

LEMMA ActiveMore ==
    ASSUME NEW b, b \notin Active, Active' = Active \cup {b}
    PROVE  Cardinality(Active') = Cardinality(Active) + 1
  BY ActiveFinite, FS_AddElement

LEMMA InitInv == Init => Inv
  <1> SUFFICES ASSUME Init PROVE Inv
    OBVIOUS
  <1>1. Active = {}
    BY DEF Init, Active, NoTask
  <1>2. EveryPlaceIsHeld
    BY <1>1, FS_EmptySet DEF Init, EveryPlaceIsHeld, Entering
  <1>3. TypeOK
    <2>1. Own \in Values /\ Unset \in Snapshots /\ "Queued" \in BuildStates
      BY DEF Values, Snapshots, BuildStates
    <2> QED BY <2>1, Constants
            DEF Init, TypeOK, TaskType, LoopType, BeatType, RenewalType
  <1>4. QueuedIdle /\ ReplyFresh
    BY DEF Init, QueuedIdle, ReplyFresh, NoTask, Entering
  <1> QED BY <1>2, <1>3, <1>4 DEF Inv

-----------------------------------------------------------------------------
\* The three parts of Inv beside the types.
Places == EveryPlaceIsHeld /\ QueuedIdle /\ ReplyFresh

\* A step that starts and ends no task, hands out no build and takes no place.
SamePlaces ==
    /\ \A b \in Builds : task'[b].at = "None" <=> task[b].at = "None"
    /\ \A b \in Builds : build'[b] = "Queued" => build[b] = "Queued"
    /\ loop'.at = "Reply" => loop.at = "Reply" /\ loop'.got = loop.got
    /\ InHand' = InHand
    /\ gate'.running = gate.running

LEMMA SamePlacesKeep ==
    ASSUME Inv, SamePlaces
    PROVE  Places'
  <1>1. Active' = Active
    BY DEF SamePlaces, Active
  <1>2. EveryPlaceIsHeld'
    <2>1. gate.running = Cardinality(Active) + InHand
      BY DEF Inv, EveryPlaceIsHeld, InHand
    <2>2. gate'.running = Cardinality(Active') + InHand'
      BY <1>1, <2>1 DEF SamePlaces
    <2> QED BY <2>2 DEF EveryPlaceIsHeld, InHand
  <1>3. QueuedIdle'
    BY DEF SamePlaces, Inv, QueuedIdle
  <1>4. ReplyFresh'
    BY DEF SamePlaces, Inv, ReplyFresh
  <1> QED BY <1>2, <1>3, <1>4 DEF Places

\* The loop takes a place, gives one back, or starts a task in it.
LEMMA LoopKeeps ==
    ASSUME Inv, LoopStep \/ NotReady \/ ClaimFails
    PROVE  Places'
  <1> USE DEF Inv
  <1>0. /\ Cardinality(Active) \in Nat
        /\ gate.running = Cardinality(Active) + InHand
        /\ gate \in GateType /\ loop \in LoopType
    BY ActiveFinite DEF EveryPlaceIsHeld, InHand, TypeOK, GateType, LoopType
  <1>1. CASE GateEnter \/ GateWake
    <2>1. SamePlaces
      BY <1>1, <1>0 DEF GateEnter, GateWake, SamePlaces, server, Entering, InHand, LoopType
    <2> QED BY <2>1, SamePlacesKeep
  <1>2. CASE GateCheck
    <2>1. CASE loop' = [loop EXCEPT !.at = "Wait"] /\ gate' = gate
      <3>1. SamePlaces
        BY <1>2, <2>1, <1>0 DEF GateCheck, SamePlaces, server, InHand, LoopType
      <3> QED BY <3>1, SamePlacesKeep
    <2>2. CASE gate' = [gate EXCEPT !.running = @ + 1] /\ loop' = [Entering EXCEPT !.at = "Ready"]
      <3>1. loop.at = "Check" /\ task' = task /\ build' = build /\ Active' = Active
        BY <1>2 DEF GateCheck, server, Active
      <3>2. EveryPlaceIsHeld'
        BY <3>1, <2>2, <1>0 DEF EveryPlaceIsHeld, InHand, GateType, Entering
      <3>3. QueuedIdle' /\ ReplyFresh'
        BY <3>1, <2>2 DEF QueuedIdle, ReplyFresh, Entering
      <3> QED BY <3>2, <3>3 DEF Places
    <2> QED BY <1>2, <2>1, <2>2 DEF GateCheck
  <1>3. ASSUME loop.at \in {"Ready", "Reply"}, GiveBack, task' = task, build' = build
        PROVE  Places'
    <2>1. Active' = Active
      BY <1>3 DEF Active
    <2>2. EveryPlaceIsHeld'
      BY <1>3, <2>1, <1>0 DEF GiveBack, EveryPlaceIsHeld, InHand, GateType, Entering
    <2>3. QueuedIdle' /\ ReplyFresh'
      BY <1>3 DEF GiveBack, QueuedIdle, ReplyFresh, Entering
    <2> QED BY <2>2, <2>3 DEF Places
  <1>4. CASE NotReady \/ ClaimFails
    BY <1>3, <1>4 DEF NotReady, ClaimFails, server
  <1>5. CASE ServeClaim
    <2>1. task' = task /\ loop.at = "Ready"
      BY <1>5 DEF ServeClaim
    <2>2. CASE loop' = loop /\ gate' = gate /\ build' = build
      <3>1. SamePlaces
        BY <2>1, <2>2 DEF SamePlaces, InHand
      <3> QED BY <3>1, SamePlacesKeep
    <2>3. ASSUME NEW b \in Builds, build[b] = "Queued", build' = [build EXCEPT ![b] = "Active"],
                 loop' = [loop EXCEPT !.at = "Reply", !.got = b], gate' = gate
          PROVE  Places'
      <3>1. task[b].at = "None" /\ Active' = Active
        BY <2>1, <2>3 DEF QueuedIdle, Active
      <3>2. loop'.at = "Reply" /\ loop'.got = b
        BY <2>3, <1>0 DEF LoopType
      <3>3. EveryPlaceIsHeld'
        BY <3>1, <3>2, <2>1, <2>3, <1>0 DEF EveryPlaceIsHeld, InHand
      <3>4. build \in [Builds -> BuildStates]
        BY DEF TypeOK
      <3>5. QueuedIdle' /\ ReplyFresh'
        BY <3>1, <3>2, <3>4, <2>1, <2>3 DEF QueuedIdle, ReplyFresh
      <3> QED BY <3>3, <3>5 DEF Places
    <2>4. CASE GiveBack /\ build' = build
      BY <2>1, <2>4, <1>3
    <2> QED BY <1>5, <2>2, <2>3, <2>4 DEF ServeClaim
  <1>6. CASE ReceiveClaim
    <2>1. /\ loop.at = "Reply" /\ loop.got \in Builds /\ task[loop.got].at = "None"
          /\ build[loop.got] # "Queued" /\ build' = build /\ gate' = gate /\ loop' = Entering
          /\ task' = [b \in Builds |-> IF b = loop.got THEN [NoTask EXCEPT !.at = "Running"] ELSE task[b]]
      BY <1>6 DEF ReceiveClaim, ReplyFresh, server
    <2>2. loop.got \notin Active /\ Active' = Active \cup {loop.got}
      BY <2>1 DEF Active, NoTask
    <2>3. Cardinality(Active') = Cardinality(Active) + 1
      BY <2>2, ActiveMore
    <2>4. EveryPlaceIsHeld'
      BY <2>1, <2>3, <1>0 DEF EveryPlaceIsHeld, InHand, Entering
    <2>5. QueuedIdle' /\ ReplyFresh'
      BY <2>1 DEF QueuedIdle, ReplyFresh, Entering
    <2> QED BY <2>4, <2>5 DEF Places
  <1> QED BY <1>1, <1>2, <1>4, <1>5, <1>6 DEF LoopStep

\* A job that ends and its report: the place goes with the task.
LEMMA ReportKeeps ==
    ASSUME Inv, NEW b \in Builds, JobEnds(b) \/ ReportStep(b) \/ CompleteFails(b)
    PROVE  Places'
  <1> USE DEF Inv
  <1>0. /\ Cardinality(Active) \in Nat
        /\ gate.running = Cardinality(Active) + InHand
        /\ gate \in GateType /\ loop \in LoopType
        /\ task \in [Builds -> TaskType]
        /\ build \in [Builds -> BuildStates]
    BY ActiveFinite DEF EveryPlaceIsHeld, InHand, TypeOK, GateType, LoopType, TaskType
  <1>1. ASSUME task[b].at # "None", EndTask(b), build' = build
        PROVE  Places'
    <2>1. b \in Active /\ Active' = Active \ {b}
      BY <1>0, <1>1 DEF EndTask, Active, NoTask
    <2>2. Cardinality(Active') = Cardinality(Active) - 1
      BY <2>1, ActiveLess
    <2>3. /\ loop'.at = loop.at /\ loop'.got = loop.got
          /\ gate'.running = gate.running - 1
      BY <1>0, <1>1 DEF EndTask, Woken, LoopType, GateType
    <2>4. EveryPlaceIsHeld'
      BY <2>2, <2>3, <1>0 DEF EveryPlaceIsHeld, InHand, GateType
    <2>5. QueuedIdle' /\ ReplyFresh'
      BY <1>0, <1>1, <2>3 DEF EndTask, QueuedIdle, ReplyFresh, NoTask
    <2> QED BY <2>4, <2>5 DEF Places
  <1>2. ASSUME \A c \in Builds : task'[c].at = "None" <=> task[c].at = "None",
               loop' = loop, gate' = gate,
               \A c \in Builds : build'[c] = "Queued" => build[c] = "Queued"
        PROVE  Places'
    <2>1. SamePlaces
      BY <1>2 DEF SamePlaces, InHand
    <2> QED BY <2>1, SamePlacesKeep
  <1>3. CASE JobEnds(b)
    <2>1. \A c \in Builds : task'[c].at = "None" <=> task[c].at = "None"
      BY <1>0, <1>3 DEF JobEnds, TaskType
    <2> QED BY <1>2, <1>3, <2>1 DEF JobEnds, server
  <1>4. CASE ServeComplete(b)
    <2>1. \A c \in Builds : task'[c].at = "None" <=> task[c].at = "None"
      BY <1>0, <1>4 DEF ServeComplete, TaskType
    <2>2. \A c \in Builds : build'[c] = "Queued" => build[c] = "Queued"
      BY <1>0, <1>4 DEF ServeComplete, Completed, BuildStates
    <2>3. loop' = loop /\ gate' = gate
      BY <1>4 DEF ServeComplete
    <2> QED BY <1>2, <2>1, <2>2, <2>3
  <1>5. CASE ReceiveComplete(b)
    BY <1>1, <1>5 DEF ReceiveComplete, server
  <1>6. CASE CompleteFails(b)
    <2>1. CASE EndTask(b)
      BY <1>1, <1>6, <2>1 DEF CompleteFails, server
    <2>2. CASE /\ task' = [task EXCEPT ![b].at = "Report", ![b].attempt = @ + 1]
               /\ gate' = gate /\ loop' = loop
      <3>1. \A c \in Builds : task'[c].at = "None" <=> task[c].at = "None"
        BY <1>0, <1>6, <2>2 DEF CompleteFails, TaskType
      <3> QED BY <1>2, <1>6, <2>2, <3>1 DEF CompleteFails, server
    <2> QED BY <1>6, <2>1, <2>2 DEF CompleteFails
  <1> QED BY <1>3, <1>4, <1>5, <1>6 DEF ReportStep

\* Telling tasks to stop ends none.
LEMMA StoppedSame ==
    ASSUME TypeOK, NEW s, NEW why
    PROVE  \A b \in Builds : Stopped(s, why)[b].at = "None" <=> task[b].at = "None"
  <1>1. task \in [Builds -> TaskType]
    BY DEF TypeOK, TaskType
  <1> QED BY <1>1 DEF Stopped, TaskType

\* The heartbeat stops tasks, moves the limit and wakes the loop.
LEMMA BeatKeeps ==
    ASSUME Inv, BeatStep \/ BeatFails
    PROVE  Places'
  <1> USE DEF Inv
  <1>0. gate \in GateType /\ loop \in LoopType /\ build \in [Builds -> BuildStates]
    BY DEF TypeOK, GateType, LoopType
  <1> SUFFICES SamePlaces
    BY SamePlacesKeep
  <1>1. CASE BeatBegin
    BY <1>1 DEF BeatBegin, server, SamePlaces, InHand
  <1>2. CASE ServeBeat
    <2>1. \A b \in Builds : build'[b] = "Queued" => build[b] = "Queued"
      BY <1>2 DEF ServeBeat
    <2> QED BY <1>2, <2>1 DEF ServeBeat, SamePlaces, InHand
  <1>3. CASE ReceiveBeat
    <2>1. task' = Stopped(beat.cancel, "Asked") /\ build' = build
      BY <1>3 DEF ReceiveBeat, server
    <2>2. /\ InHand' = InHand
          /\ loop'.at = "Reply" => loop.at = "Reply" /\ loop'.got = loop.got
      BY <1>0, <1>3 DEF ReceiveBeat, Started, Roused, Woken, Entering, LoopType, InHand
    <2>3. gate'.running = gate.running
      BY <1>0, <1>3 DEF ReceiveBeat, GateType
    <2> QED BY <2>1, <2>2, <2>3, StoppedSame DEF SamePlaces
  <1>4. CASE ReceiveSync \/ BeatFails
    <2>1. EndBeat /\ build' = build /\ gate' = gate
      BY <1>4 DEF ReceiveSync, BeatFails, server
    <2>2. \A b \in Builds : task'[b].at = "None" <=> task[b].at = "None"
      BY <2>1, StoppedSame DEF EndBeat
    <2>3. /\ InHand' = InHand
          /\ loop'.at = "Reply" => loop.at = "Reply" /\ loop'.got = loop.got
      BY <1>0, <2>1 DEF EndBeat, Started, Entering, LoopType, InHand
    <2> QED BY <2>1, <2>2, <2>3 DEF SamePlaces
  <1> QED BY <1>1, <1>2, <1>3, <1>4 DEF BeatStep

\* What happens on the server alone, registrations and time touch no place; a new
\* process starts with none taken.
LEMMA OthersKeep ==
    ASSUME Inv,
           \/ \E b \in Builds : Cancel(b) \/ Reap(b)
           \/ \E c \in Callers : RegisterStep(c)
           \/ \E v \in Snapshots : ChangeSetting(v)
           \/ RestartServer \/ RestartWorker \/ Tick
           \/ UNCHANGED vars
    PROVE  Places'
  <1> USE DEF Inv
  <1>1. ASSUME task' = task, loop' = loop, gate' = gate,
               \A b \in Builds : build'[b] = "Queued" => build[b] = "Queued"
        PROVE  Places'
    <2>1. SamePlaces
      BY <1>1 DEF SamePlaces, InHand
    <2> QED BY <2>1, SamePlacesKeep
  <1>2. ASSUME NEW b \in Builds, Cancel(b) \/ Reap(b) PROVE Places'
    <2>1. \A c \in Builds : build'[c] = "Queued" => build[c] = "Queued"
      BY <1>2 DEF Cancel, Reap, TypeOK
    <2> QED BY <1>1, <1>2, <2>1 DEF Cancel, Reap
  <1>3. ASSUME NEW c \in Callers, RegisterStep(c) PROVE Places'
    BY <1>1, <1>3 DEF RegisterStep, ServeRegister, ReceiveRegister, server
  <1>4. CASE (\E v \in Snapshots : ChangeSetting(v)) \/ RestartServer \/ Tick \/ UNCHANGED vars
    BY <1>1, <1>4 DEF ChangeSetting, RestartServer, Tick, vars, server
  <1>5. CASE RestartWorker
    <2>1. Active' = {}
      BY <1>5 DEF RestartWorker, Active, NoTask
    <2>2. EveryPlaceIsHeld'
      BY <1>5, <2>1, FS_EmptySet DEF RestartWorker, EveryPlaceIsHeld, Entering
    <2>3. QueuedIdle' /\ ReplyFresh'
      BY <1>5 DEF RestartWorker, QueuedIdle, ReplyFresh, NoTask, Entering
    <2> QED BY <2>2, <2>3 DEF Places
  <1> QED BY <1>2, <1>3, <1>4, <1>5

-----------------------------------------------------------------------------
(* Types. *)

\* A place that is given back was taken: the gate never goes below none.
LEMMA TakenAtLeastOne ==
    ASSUME Inv, Active # {} \/ loop.at \in {"Ready", "Reply"}
    PROVE  gate.running - 1 \in Nat
  <1>1. Active # {} => Cardinality(Active) # 0
    BY ActiveFinite, FS_EmptySet
  <1> QED BY <1>1, ActiveFinite DEF Inv, EveryPlaceIsHeld, TypeOK

\* TypeOK with the names of the types.
Typed ==
    /\ build \in [Builds -> BuildStates]
    /\ lease \in [Builds -> 0 .. LeaseTtl + 1]
    /\ age \in [Builds -> 0 .. LeaseTtl]
    /\ setting \in Snapshots
    /\ row \in Values
    /\ known \in Config \cup {Unset}
    /\ agreed \in BOOLEAN
    /\ loop \in LoopType
    /\ gate \in GateType
    /\ task \in [Builds -> TaskType]
    /\ beat \in BeatType
    /\ silence \in 0 .. LeaseTtl + 1
    /\ cfg \in Config
    /\ reported \in Config \cup {Unset}
    /\ registered \in Values
    /\ remembered \in Values
    /\ renewal \in [Callers -> RenewalType]
    /\ events \in 0 .. MaxEvents

LEMMA TypedIs == (TypeOK <=> Typed) /\ (TypeOK' <=> Typed')
  BY DEF TypeOK, Typed, LoopType, GateType, TaskType, BeatType, RenewalType

\* What every request may do to the registrations.
LEMMA RenewalTypes ==
    ASSUME Typed, NEW c, AskToRegister(c) \/ Unanswered(c)
    PROVE  renewal' \in [Callers -> RenewalType]
  <1>1. [at |-> "Sent", n |-> remembered] \in RenewalType
    BY DEF Typed, RenewalType
  <1>2. renewal \in [Callers -> RenewalType]
    BY DEF Typed
  <1> QED BY <1>1, <1>2, Constants DEF AskToRegister, Unanswered

LEMMA EventTypes ==
    ASSUME Typed, Event
    PROVE  events' \in 0 .. MaxEvents
  BY RuntimeAssumption DEF Typed, Event

LEMMA LoopTypes ==
    ASSUME Inv, LoopStep \/ NotReady \/ ClaimFails
    PROVE  TypeOK'
  <1> SUFFICES Typed'
    BY TypedIs
  <1>0. Typed
    BY TypedIs DEF Inv
  <1>a. loop \in LoopType /\ gate \in GateType /\ task \in [Builds -> TaskType]
    BY <1>0 DEF Typed
  <1>1. CASE GateEnter \/ GateCheck \/ GateWake
    <2>1. loop' \in LoopType /\ gate' \in GateType
      <3>1. CASE GateEnter
        BY <3>1, <1>a, Constants DEF GateEnter, LoopType, Entering
      <3>2. CASE GateCheck
        <4>1. gate' \in GateType
          BY <3>2, <1>a DEF GateCheck, GateType
        <4>2. [Entering EXCEPT !.at = "Ready"] \in LoopType /\ [loop EXCEPT !.at = "Wait"] \in LoopType
          BY <1>a, Constants DEF LoopType, Entering
        <4> QED BY <3>2, <4>1, <4>2 DEF GateCheck
      <3>3. CASE GateWake
        BY <3>3, <1>a, Constants DEF GateWake
      <3> QED BY <1>1, <3>1, <3>2, <3>3
    <2> QED BY <1>0, <1>1, <2>1 DEF GateEnter, GateCheck, GateWake, Typed, server, config
  <1>2. ASSUME loop.at \in {"Ready", "Reply"}, GiveBack
        PROVE  gate' \in GateType /\ loop' \in LoopType
    BY <1>a, <1>2, TakenAtLeastOne, Constants DEF GiveBack, GateType
  <1>3. CASE NotReady
    BY <1>0, <1>2, <1>3 DEF NotReady, Typed, server, config
  <1>4. CASE ClaimFails
    <2>1. renewal' \in [Callers -> RenewalType] /\ events' \in 0 .. MaxEvents
      BY <1>0, <1>4, RenewalTypes, EventTypes DEF ClaimFails, Lost
    <2> QED BY <1>0, <1>2, <1>4, <2>1 DEF ClaimFails, Typed, server, config
  <1>5. CASE ServeClaim
    <2>1. renewal' \in [Callers -> RenewalType]
      BY <1>0, <1>5, RenewalTypes DEF ServeClaim, Typed
    <2>2. gate' \in GateType /\ loop' \in LoopType
      BY <1>a, <1>2, <1>5 DEF ServeClaim, LoopType
    <2>3. build' \in [Builds -> BuildStates]
      BY <1>0, <1>5 DEF ServeClaim, Typed, BuildStates
    <2>4. /\ lease' \in [Builds -> 0 .. LeaseTtl + 1] /\ age' \in [Builds -> 0 .. LeaseTtl]
          /\ silence' \in 0 .. LeaseTtl + 1
      <3>1. /\ lease \in [Builds -> 0 .. LeaseTtl + 1] /\ age \in [Builds -> 0 .. LeaseTtl]
            /\ silence \in 0 .. LeaseTtl + 1
        BY <1>0 DEF Typed
      <3>2. silence' \in 0 .. LeaseTtl + 1
        BY <3>1, <1>5, Constants DEF ServeClaim
      <3>3. \/ lease' = lease /\ age' = age
            \/ \E b \in Builds : lease' = [lease EXCEPT ![b] = 0] /\ age' = [age EXCEPT ![b] = 0]
        BY <1>5 DEF ServeClaim
      <3> QED BY <3>1, <3>2, <3>3, Constants
    <2> QED BY <1>0, <1>5, <2>1, <2>2, <2>3, <2>4 DEF ServeClaim, Typed, config
  <1>6. CASE ReceiveClaim
    <2>1. task' \in [Builds -> TaskType] /\ loop' \in LoopType
      BY <1>a, <1>6, Constants DEF ReceiveClaim, TaskType
    <2>2. silence' \in 0 .. LeaseTtl + 1
      BY <1>6, Constants DEF ReceiveClaim
    <2> QED BY <1>0, <1>6, <2>1, <2>2 DEF ReceiveClaim, Typed, server, config
  <1> QED BY <1>1, <1>3, <1>4, <1>5, <1>6 DEF LoopStep

LEMMA ReportTypes ==
    ASSUME Inv, NEW b \in Builds, JobEnds(b) \/ ReportStep(b) \/ CompleteFails(b)
    PROVE  TypeOK'
  <1> SUFFICES Typed'
    BY TypedIs
  <1>0. Typed
    BY TypedIs DEF Inv
  <1>a. loop \in LoopType /\ gate \in GateType /\ task \in [Builds -> TaskType]
    BY <1>0 DEF Typed
  <1>1. ASSUME task[b].at # "None", EndTask(b)
        PROVE  task' \in [Builds -> TaskType] /\ gate' \in GateType /\ loop' \in LoopType
    <2>1. Active # {}
      BY <1>1 DEF Active
    <2>2. gate' \in GateType
      BY <1>a, <1>1, <2>1, TakenAtLeastOne DEF EndTask, GateType
    <2>3. loop' \in LoopType
      BY <1>a, <1>1 DEF EndTask, Woken, LoopType
    <2> QED BY <1>a, <1>1, <2>2, <2>3, Constants DEF EndTask
  <1>2. CASE JobEnds(b)
    <2>1. task' \in [Builds -> TaskType]
      <3>1. PICK o \in Outcomes : task' = [task EXCEPT ![b].at = "Report", ![b].outcome = o]
        BY <1>2 DEF JobEnds
      <3>2. task[b] \in TaskType
        BY <1>a
      <3>3. [task[b] EXCEPT !.at = "Report", !.outcome = o] \in TaskType
        BY <3>2 DEF TaskType
      <3>4. task' = [task EXCEPT ![b] = [task[b] EXCEPT !.at = "Report", !.outcome = o]]
        BY <1>a, <3>1 DEF TaskType
      <3> QED BY <1>a, <3>3, <3>4
    <2> QED BY <1>0, <1>2, <2>1 DEF JobEnds, Typed, server, config
  <1>3. CASE ServeComplete(b)
    <2>1. renewal' \in [Callers -> RenewalType]
      BY <1>0, <1>3, RenewalTypes DEF ServeComplete, Typed
    <2>2. build' \in [Builds -> BuildStates]
      BY <1>0, <1>3 DEF ServeComplete, Typed, BuildStates, Completed
    <2>3. task' \in [Builds -> TaskType]
      <3>1. (Repeat(b) \/ build[b] = "Active") \in BOOLEAN
        OBVIOUS
      <3> QED BY <1>a, <1>3, <3>1 DEF ServeComplete, TaskType
    <2> QED BY <1>0, <1>3, <2>1, <2>2, <2>3 DEF ServeComplete, Typed, config
  <1>4. CASE ReceiveComplete(b)
    <2>1. silence' \in 0 .. LeaseTtl + 1
      BY <1>0, <1>4, Constants DEF ReceiveComplete, Typed
    <2> QED BY <1>0, <1>1, <1>4, <2>1 DEF ReceiveComplete, Typed, server, config
  <1>5. CASE CompleteFails(b)
    <2>1. renewal' \in [Callers -> RenewalType]
      BY <1>0, <1>5, RenewalTypes DEF CompleteFails
    <2>2. CASE EndTask(b)
      BY <1>0, <1>1, <1>5, <2>1, <2>2 DEF CompleteFails, Typed, server, config
    <2>3. CASE /\ task[b].attempt < Attempts
               /\ task' = [task EXCEPT ![b].at = "Report", ![b].attempt = @ + 1]
               /\ gate' = gate /\ loop' = loop
      <3>1. task' \in [Builds -> TaskType]
        BY <1>a, <2>3, RuntimeAssumption DEF TaskType
      <3> QED BY <1>0, <1>5, <2>1, <2>3, <3>1 DEF CompleteFails, Typed, server, config
    <2> QED BY <1>5, <2>2, <2>3 DEF CompleteFails
  <1> QED BY <1>2, <1>3, <1>4, <1>5 DEF ReportStep

LEMMA StoppedTypes ==
    ASSUME Typed, NEW s, NEW why \in {"No", "Asked", "Alone"}
    PROVE  Stopped(s, why) \in [Builds -> TaskType]
  <1>1. task \in [Builds -> TaskType]
    BY DEF Typed
  <1> QED BY <1>1 DEF Stopped, TaskType

\* Settings a worker is given are ones an operator may set, or its own.
LEMMA DeliveredTypes ==
    ASSUME Typed
    PROVE  Delivered \in Config /\ Delivered.n \in Values
  <1>1. cfg \in Config /\ beat.config \in Maybe(Snapshots)
    BY DEF Typed, BeatType
  <1>2. \A v \in Snapshots : Resolve(v) \in Config
    BY DEF Resolve, Config, Snapshots, Values, Maybe
  <1>3. Delivered \in Config
    <2>1. CASE beat.config = <<>>
      BY <1>1, <2>1 DEF Delivered
    <2>2. ASSUME NEW v \in Snapshots, beat.config = <<v>>
          PROVE  Delivered \in Config
      BY <1>2, <2>2 DEF Delivered
    <2> QED BY <1>1, <2>1, <2>2 DEF Maybe
  <1> QED BY <1>3 DEF Config

LEMMA BeatTypes ==
    ASSUME Inv, BeatStep \/ BeatFails
    PROVE  TypeOK'
  <1> SUFFICES Typed'
    BY TypedIs
  <1>0. Typed
    BY TypedIs DEF Inv
  <1>a. loop \in LoopType /\ gate \in GateType /\ task \in [Builds -> TaskType] /\ beat \in BeatType
    BY <1>0 DEF Typed
  <1>1. CASE BeatBegin
    <2>1. /\ Active \subseteq Builds
          /\ cfg.rev \in Maybe(Snapshots)
          /\ (IF reported = cfg THEN Unset ELSE cfg) \in Config \cup {Unset}
      BY <1>0 DEF Active, Typed, Config
    <2>2. beat' \in BeatType
      BY <1>1, <2>1, Constants DEF BeatBegin, BeatType
    <2> QED BY <1>0, <1>1, <2>2 DEF BeatBegin, Typed, server, config
  <1>2. CASE ServeBeat
    <2>1. renewal' \in [Callers -> RenewalType]
      BY <1>0, <1>2, RenewalTypes DEF ServeBeat, Typed
    <2>2. build' \in [Builds -> BuildStates]
      BY <1>0, <1>2 DEF ServeBeat, Typed, BuildStates
    <2>3. lease' \in [Builds -> 0 .. LeaseTtl + 1]
      <3>1. lease \in [Builds -> 0 .. LeaseTtl + 1]
        BY <1>0 DEF Typed
      <3> QED BY <3>1, <1>2, Constants DEF ServeBeat
    <2>4. known' \in Config \cup {Unset}
      BY <1>0, <1>a, <1>2 DEF ServeBeat, Typed, BeatType
    <2>5. beat' \in BeatType
      <3>1. Refused \subseteq Builds
        BY <1>a DEF Refused, BeatType
      <3>2. Snapshot \in Maybe(Snapshots) /\ <<>> \in Maybe(Snapshots)
        BY <1>0 DEF Snapshot, Maybe, Typed
      <3> QED BY <1>a, <1>2, <3>1, <3>2 DEF ServeBeat, BeatType
    <2> QED BY <1>0, <1>2, <2>1, <2>2, <2>3, <2>4, <2>5 DEF ServeBeat, Typed, config
  <1>3. CASE ReceiveBeat
    <2>1. silence' \in 0 .. LeaseTtl + 1
      BY <1>3, Constants DEF ReceiveBeat
    <2>2. reported' \in Config \cup {Unset}
      BY <1>0, <1>a, <1>3 DEF ReceiveBeat, Typed, BeatType
    <2>3. task' \in [Builds -> TaskType]
      BY <1>0, <1>3, StoppedTypes DEF ReceiveBeat
    <2>4. cfg' \in Config
      BY <1>0, <1>3, DeliveredTypes DEF ReceiveBeat
    <2>5. gate' \in GateType
      BY <1>0, <1>a, <1>3, DeliveredTypes, Constants DEF ReceiveBeat, GateType
    <2>6. Roused \in LoopType /\ Started(Roused) \in LoopType
      BY <1>a, Constants DEF Roused, Woken, Started, LoopType
    <2>7. beat' \in BeatType
      BY <1>a, <1>3, Constants DEF ReceiveBeat, BeatType
    <2>8. renewal' \in [Callers -> RenewalType]
      <3>1. [at |-> "Sent", n |-> Delivered.n] \in RenewalType
        BY <1>0, DeliveredTypes DEF RenewalType
      <3>2. renewal \in [Callers -> RenewalType]
        BY <1>0 DEF Typed
      <3> QED BY <3>1, <3>2, <1>3 DEF ReceiveBeat
    <2> QED BY <1>0, <1>3, <2>1, <2>2, <2>3, <2>4, <2>5, <2>6, <2>7, <2>8 DEF ReceiveBeat, Typed, server
  <1>4. ASSUME EndBeat
        PROVE  task' \in [Builds -> TaskType] /\ beat' \in BeatType /\ loop' \in LoopType
    BY <1>0, <1>a, <1>4, StoppedTypes, Constants DEF EndBeat, Started
  <1>5. CASE ReceiveSync
    <2>1. renewal' \in [Callers -> RenewalType]
      BY <1>0, <1>5, RenewalTypes DEF ReceiveSync, Unanswered
    <2>2. registered' \in Values /\ remembered' \in Values
      BY <1>0, <1>5 DEF ReceiveSync, Typed, RenewalType, Callers
    <2> QED BY <1>0, <1>4, <1>5, <2>1, <2>2 DEF ReceiveSync, Typed, server
  <1>6. CASE BeatFails
    <2>1. renewal' \in [Callers -> RenewalType] /\ events' \in 0 .. MaxEvents
      BY <1>0, <1>6, RenewalTypes, EventTypes DEF BeatFails, Lost
    <2> QED BY <1>0, <1>4, <1>6, <2>1 DEF BeatFails, Typed, server, config
  <1> QED BY <1>1, <1>2, <1>3, <1>5, <1>6 DEF BeatStep

LEMMA OtherTypes ==
    ASSUME Inv,
           \/ \E b \in Builds : Cancel(b) \/ Reap(b)
           \/ \E c \in Callers : RegisterStep(c)
           \/ \E v \in Snapshots : ChangeSetting(v)
           \/ RestartServer \/ RestartWorker \/ Tick
           \/ UNCHANGED vars
    PROVE  TypeOK'
  <1> SUFFICES Typed'
    BY TypedIs
  <1>0. Typed
    BY TypedIs DEF Inv
  <1>1. ASSUME NEW b \in Builds, Cancel(b) \/ Reap(b) PROVE Typed'
    <2>1. build' \in [Builds -> BuildStates]
      BY <1>0, <1>1 DEF Cancel, Reap, Typed, BuildStates
    <2> QED BY <1>0, <1>1, <2>1 DEF Cancel, Reap, Typed, config
  <1>2. ASSUME NEW c \in Callers, RegisterStep(c) PROVE Typed'
    <2>1. renewal \in [Callers -> RenewalType] /\ renewal[c].n \in Values
      BY <1>0 DEF Typed, RenewalType
    <2>2. renewal' \in [Callers -> RenewalType]
      BY <2>1, <1>2, Constants DEF RegisterStep, ServeRegister, ReceiveRegister, RenewalType
    <2> QED BY <1>0, <1>2, <2>1, <2>2
            DEF RegisterStep, ServeRegister, ReceiveRegister, Typed, server, config
  <1>3. ASSUME NEW v \in Snapshots, ChangeSetting(v) PROVE Typed'
    BY <1>0, <1>3, EventTypes DEF ChangeSetting, Typed, config
  <1>4. CASE RestartServer
    BY <1>0, <1>4, EventTypes DEF RestartServer, Typed, config
  <1>5. CASE RestartWorker
    <2>1. events' \in 0 .. MaxEvents
      BY <1>0, <1>5, EventTypes DEF RestartWorker
    <2>2. Own \in Values /\ gate' \in GateType
      BY <1>5, Constants DEF RestartWorker, GateType, Values
    <2>3. /\ task' \in [Builds -> TaskType] /\ renewal' \in [Callers -> RenewalType]
          /\ beat' \in BeatType /\ loop' \in LoopType /\ cfg' \in Config
          /\ silence' \in 0 .. LeaseTtl + 1
      BY <1>5, Constants DEF RestartWorker
    <2> QED BY <1>0, <1>5, <2>1, <2>2, <2>3 DEF RestartWorker, Typed
  <1>6. CASE Tick
    <2>1. \A n \in 0 .. LeaseTtl + 1 : Sooner(n, LeaseTtl + 1) \in 0 .. LeaseTtl + 1
      BY RuntimeAssumption DEF Sooner
    <2>2. \A n \in 0 .. LeaseTtl : Sooner(n, LeaseTtl) \in 0 .. LeaseTtl
      BY RuntimeAssumption DEF Sooner
    <2>3. lease' \in [Builds -> 0 .. LeaseTtl + 1] /\ silence' \in 0 .. LeaseTtl + 1
      BY <1>0, <1>6, <2>1 DEF Tick, Typed
    <2>4. age' \in [Builds -> 0 .. LeaseTtl]
      BY <1>0, <1>6, <2>2 DEF Tick, Typed
    <2> QED BY <1>0, <1>6, <2>3, <2>4 DEF Tick, Typed, config
  <1>7. CASE UNCHANGED vars
    BY <1>0, <1>7 DEF vars, server, config, Typed
  <1> QED BY <1>1, <1>2, <1>3, <1>4, <1>5, <1>6, <1>7

LEMMA StepInv == Inv /\ [Next]_vars => Inv'
  <1> SUFFICES ASSUME Inv, [Next]_vars PROVE TypeOK' /\ Places'
    BY DEF Inv, Places
  <1>1. CASE LoopStep \/ NotReady \/ ClaimFails
    BY <1>1, LoopKeeps, LoopTypes
  <1>2. CASE BeatStep \/ BeatFails
    BY <1>2, BeatKeeps, BeatTypes
  <1>3. ASSUME NEW b \in Builds, JobEnds(b) \/ ReportStep(b) \/ CompleteFails(b)
        PROVE  TypeOK' /\ Places'
    BY <1>3, ReportKeeps, ReportTypes
  <1>4. CASE \/ \E b \in Builds : Cancel(b) \/ Reap(b)
             \/ \E c \in Callers : RegisterStep(c)
             \/ \E v \in Snapshots : ChangeSetting(v)
             \/ RestartServer \/ RestartWorker \/ Tick
             \/ UNCHANGED vars
    BY <1>4, OthersKeep, OtherTypes
  <1> QED BY <1>1, <1>2, <1>3, <1>4 DEF Next

\* The loops, the gate, the tasks and what the server knows keep their types: the
\* gate's count never goes below none, a report is never tried once too often.
THEOREM WorkerTypes == Spec => []TypeOK
  <1>1. Inv => TypeOK
    BY DEF Inv
  <1> QED BY <1>1, InitInv, StepInv, PTL DEF Spec

\* However claims, jobs, reports, heartbeats, settings and restarts interleave, and
\* for any number of builds and any limit, every place is held by a build or by the
\* claim loop.
THEOREM PlacesAreHeld == Spec => []EveryPlaceIsHeld
  <1>1. Inv => EveryPlaceIsHeld
    BY DEF Inv
  <1> QED BY <1>1, InitInv, StepInv, PTL DEF Spec
=============================================================================
