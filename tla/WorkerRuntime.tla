---------------------------- MODULE WorkerRuntime ----------------------------
(***************************************************************************)
(* The loop of one worker process (runner.rs, gate.rs): it claims builds    *)
(* up to its concurrency, runs each in a task of its own, reports how each  *)
(* ended, and beats: renews its leases, learns what to stop, takes in the   *)
(* settings made for it on the server.                                      *)
(*                                                                          *)
(* Claims, heartbeats and reports are under way at the same time, each a    *)
(* request the server serves and an answer that comes back, or does not.    *)
(* The server is what these requests meet: the builds it handed to this     *)
(* worker, their leases, the worker's row.  BuildQueue has its other side.  *)
(* A server that has forgotten the worker's protocol answers 428, and       *)
(* whichever request met that registers first and is sent again.            *)
(***************************************************************************)
EXTENDS Naturals, FiniteSets

CONSTANTS
    Builds,       \* the builds the server has for this worker
    Settings,     \* concurrencies an operator may set for the worker
    Own,          \* the concurrency of the worker's environment
    LeaseTtl,     \* lease_ttl, in ticks
    Attempts,     \* COMPLETION_ATTEMPTS
    MaxEvents,    \* bound: requests lost, settings changed and restarts, in all
    Cancelable,   \* bound: builds an operator may cancel
    Unset         \* no value

ASSUME RuntimeAssumption ==
    /\ IsFiniteSet(Builds)
    /\ Settings \subseteq Nat
    /\ Own \in Nat
    /\ Unset \notin Nat \cup Builds
    /\ Attempts \in Nat \ {0}
    /\ {LeaseTtl, MaxEvents} \subseteq Nat

\* What a worker runs at once when it was given n: ConcurrencyGate allows one.
AtLeastOne(n) == IF n = 0 THEN 1 ELSE n

Values == Settings \cup {Own}

\* What a snapshot carries: its revision is a digest of the values, so the value
\* stands for it too.
Snapshots == Settings \cup {Unset}

\* At most one snapshot: the one a worker holds, or the one an answer carries.
Maybe(S) == {<<>>} \cup {<<v>> : v \in S}

VARIABLES
    build,      \* server: how far each build is
    lease,      \* server: ticks since the lease was given or renewed
    age,        \* server: ticks since the claim
    setting,    \* server: the concurrency set for the worker, or Unset
    row,        \* server: the concurrency in the worker's row
    known,      \* server: the configuration the worker reported
    agreed,     \* server: AgreedProtocols has the worker
    loop,       \* the claim loop of run
    gate,       \* ConcurrencyGate: target and running
    task,       \* run_one of each claimed build; its key is in active
    beat,       \* the heartbeat under way
    silence,    \* ticks since mark_contact
    cfg,        \* Live<CoreConfig>: the concurrency and the revision it came with
    reported,   \* reported_config
    registered, \* Routing the server last accepted
    remembered, \* the registration the client sends again
    renewal,    \* the re-registration each caller waits for
    events      \* requests lost, settings changed and restarts so far

server == <<build, lease, age, setting, row, known, agreed>>
config == <<cfg, reported, registered, remembered>>
vars == <<server, loop, gate, task, beat, silence, config, renewal, events>>

Config == [n : Values, rev : Maybe(Snapshots)]

BuildStates == {"Queued", "Active", "Publishing", "Failed", "Canceled", "Abandoned"}

Outcomes == {"Succeeded", "Failed", "Canceled", "Interrupted"}

Callers == {"Loop", "Beat"} \cup Builds

TypeOK ==
    /\ build \in [Builds -> BuildStates]
    /\ lease \in [Builds -> 0 .. LeaseTtl + 1]
    /\ age \in [Builds -> 0 .. LeaseTtl]
    /\ setting \in Snapshots
    /\ row \in Values
    /\ known \in Config \cup {Unset}
    /\ agreed \in BOOLEAN
    /\ loop \in [at : {"Start", "Enter", "Check", "Wait", "Ready", "Reply"},
                 woken : BOOLEAN, got : Builds \cup {Unset}]
    /\ gate \in [target : Nat \ {0}, running : Nat]
    /\ task \in [Builds -> [at : {"None", "Running", "Report", "Reply"}, stop : {"No", "Asked", "Alone"},
                            outcome : Outcomes, attempt : 1 .. Attempts, ok : BOOLEAN]]
    /\ beat \in [at : {"Idle", "Sent", "Reply", "Sync"}, ids : SUBSET Builds,
                 report : Config \cup {Unset}, rev : Maybe(Snapshots), cancel : SUBSET Builds,
                 config : Maybe(Snapshots)]
    /\ silence \in 0 .. LeaseTtl + 1
    /\ cfg \in Config
    /\ reported \in Config \cup {Unset}
    /\ registered \in Values
    /\ remembered \in Values
    /\ renewal \in [Callers -> [at : {"No", "Sent", "Taken"}, n : Values]]
    /\ events \in 0 .. MaxEvents

Active == {b \in Builds : task[b].at # "None"}

NoTask == [at |-> "None", stop |-> "No", outcome |-> "Failed", attempt |-> 1, ok |-> FALSE]
NoRenewal == [at |-> "No", n |-> Own]
NoBeat == [at |-> "Idle", ids |-> {}, report |-> Unset, rev |-> <<>>, cancel |-> {}, config |-> <<>>]
Entering == [at |-> "Enter", woken |-> FALSE, got |-> Unset]

\* Enrollment has registered the worker with its own configuration.
Init ==
    /\ build = [b \in Builds |-> "Queued"]
    /\ lease = [b \in Builds |-> 0]
    /\ age = [b \in Builds |-> 0]
    /\ setting = Unset
    /\ row = Own
    /\ known = Unset
    /\ agreed = TRUE
    /\ loop = [Entering EXCEPT !.at = "Start"]
    /\ gate = [target |-> AtLeastOne(Own), running |-> 0]
    /\ task = [b \in Builds |-> NoTask]
    /\ beat = NoBeat
    /\ silence = 0
    /\ cfg = [n |-> Own, rev |-> <<>>]
    /\ reported = Unset
    /\ registered = Own
    /\ remembered = Own
    /\ renewal = [c \in Callers |-> NoRenewal]
    /\ events = 0

-----------------------------------------------------------------------------
(* exchange: a request on the authenticated plane. *)

\* The caller's request may be served: no registration of its own is under way.
Due(c) == renewal[c].at = "No"

\* 428: the caller takes the registration the client holds and sends it.
AskToRegister(c) ==
    /\ Due(c)
    /\ ~agreed
    /\ renewal' = [renewal EXCEPT ![c] = [at |-> "Sent", n |-> remembered]]

\* The server takes a registration: the row has the concurrency it names.
ServeRegister(c) ==
    /\ renewal[c].at = "Sent"
    /\ row' = renewal[c].n
    /\ agreed' = TRUE
    /\ renewal' = [renewal EXCEPT ![c].at = "Taken"]
    /\ UNCHANGED <<build, lease, age, setting, known, loop, gate, task, beat, silence, config, events>>

\* Its answer: the client remembers what was accepted, the request goes out again.
ReceiveRegister(c) ==
    /\ renewal[c].at = "Taken"
    /\ ~(c = "Beat" /\ beat.at = "Sync")
    /\ remembered' = renewal[c].n
    /\ renewal' = [renewal EXCEPT ![c] = NoRenewal]
    /\ UNCHANGED <<server, loop, gate, task, beat, silence, cfg, reported, registered, events>>

\* The bound on what happens besides the loops.
Event == events < MaxEvents /\ events' = events + 1

\* The caller gets no answer.
Unanswered(c) == renewal' = [renewal EXCEPT ![c] = NoRenewal]

\* The request, or the answer, or the registration before it, is lost.
Lost(c) ==
    /\ Event
    /\ Unanswered(c)

-----------------------------------------------------------------------------
(* The gate and the claim loop. *)

\* notify_waiters reaches a loop that has registered for it.
Woken == [loop EXCEPT !.woken = @ \/ loop.at \in {"Check", "Wait"}]

\* acquire: register for the notification, then look.
GateEnter ==
    /\ loop.at = "Enter"
    /\ loop' = [Entering EXCEPT !.at = "Check"]
    /\ UNCHANGED <<server, gate, task, beat, silence, config, renewal, events>>

GateCheck ==
    /\ loop.at = "Check"
    /\ IF gate.running < gate.target
         THEN /\ gate' = [gate EXCEPT !.running = @ + 1]
              /\ loop' = [Entering EXCEPT !.at = "Ready"]
         ELSE /\ loop' = [loop EXCEPT !.at = "Wait"]
              /\ UNCHANGED gate
    /\ UNCHANGED <<server, task, beat, silence, config, renewal, events>>

GateWake ==
    /\ loop.at = "Wait"
    /\ loop.woken
    /\ loop' = Entering
    /\ UNCHANGED <<server, gate, task, beat, silence, config, renewal, events>>

\* The loop gives its place back and starts over, after its poll interval.
GiveBack ==
    /\ gate' = [gate EXCEPT !.running = @ - 1]
    /\ loop' = Entering

\* Mutant of NotReady: the place is kept.
NotReadyKeeps ==
    /\ loop.at = "Ready"
    /\ loop' = Entering
    /\ UNCHANGED <<server, gate, task, beat, silence, config, renewal, events>>

\* The executor is asked first, and is not ready for another build.
NotReady ==
    /\ loop.at = "Ready"
    /\ Due("Loop")
    /\ GiveBack
    /\ UNCHANGED <<server, task, beat, silence, config, renewal, events>>

\* The claim: the server hands out a build, or answers that it has none, upon which
\* the loop gives its place back.
ServeClaim ==
    /\ loop.at = "Ready"
    /\ \/ /\ AskToRegister("Loop")
          /\ UNCHANGED <<build, lease, age, loop, gate, silence>>
       \/ /\ Due("Loop")
          /\ agreed
          /\ \/ \E b \in Builds :
                  /\ build[b] = "Queued"
                  /\ build' = [build EXCEPT ![b] = "Active"]
                  /\ lease' = [lease EXCEPT ![b] = 0]
                  /\ age' = [age EXCEPT ![b] = 0]
                  /\ loop' = [loop EXCEPT !.at = "Reply", !.got = b]
                  /\ UNCHANGED <<gate, silence>>
             \/ /\ GiveBack
                /\ silence' = 0
                /\ UNCHANGED <<build, lease, age>>
          /\ UNCHANGED renewal
    /\ UNCHANGED <<setting, row, known, agreed, task, beat, config, events>>

\* A job is entered in active and its task started, which keeps the place.
ReceiveClaim ==
    /\ loop.at = "Reply"
    /\ silence' = 0
    /\ task' = [b \in Builds |-> IF b = loop.got THEN [NoTask EXCEPT !.at = "Running"] ELSE task[b]]
    /\ loop' = Entering
    /\ UNCHANGED <<server, gate, beat, config, renewal, events>>

ClaimFails ==
    /\ loop.at \in {"Ready", "Reply"}
    /\ Lost("Loop")
    /\ GiveBack
    /\ UNCHANGED <<server, task, beat, silence, config>>

-----------------------------------------------------------------------------
(* A job, and the report of how it ended. *)

\* run_job ends.  A stop is one way to end, and one that is met by each executor.
JobEnds(b) ==
    /\ task[b].at = "Running"
    /\ \E o \in Outcomes :
         /\ o = "Canceled" => task[b].stop # "No"
         /\ task' = [task EXCEPT ![b].at = "Report", ![b].outcome = o]
    /\ UNCHANGED <<server, loop, gate, beat, silence, config, renewal, events>>

\* worker_complete::repeat: a report the server already took, or one that a build
\* was stopped after it had left the worker.
Repeat(b) ==
    \/ /\ build[b] \in {"Failed", "Canceled", "Abandoned"}
       /\ task[b].outcome \in {"Canceled", "Interrupted"}
    \/ /\ build[b] \in {"Publishing", "Failed"}
       /\ task[b].outcome = "Succeeded"

\* What an accepted report makes of the build.
Completed(outcome) ==
    CASE outcome = "Succeeded" -> "Publishing"
      [] outcome = "Interrupted" -> "Abandoned"
      [] OTHER -> "Failed"

ServeComplete(b) ==
    /\ task[b].at = "Report"
    /\ \/ /\ AskToRegister(b)
          /\ UNCHANGED <<build, task>>
       \/ /\ Due(b)
          /\ agreed
          /\ task' = [task EXCEPT ![b].at = "Reply", ![b].ok = Repeat(b) \/ build[b] = "Active"]
          /\ build' = IF build[b] = "Active"
                        THEN [build EXCEPT ![b] = Completed(task[b].outcome)]
                        ELSE build
          /\ UNCHANGED renewal
    /\ UNCHANGED <<lease, age, setting, row, known, agreed, loop, gate, beat, silence, config, events>>

\* The id leaves active and the place is given back.
EndTask(b) ==
    /\ task' = [task EXCEPT ![b] = NoTask]
    /\ gate' = [gate EXCEPT !.running = @ - 1]
    /\ loop' = Woken

\* Accepted, or refused for good: the worker is done with the build either way.
ReceiveComplete(b) ==
    /\ task[b].at = "Reply"
    /\ EndTask(b)
    /\ silence' = IF task[b].ok THEN 0 ELSE silence
    /\ UNCHANGED <<server, beat, config, renewal, events>>

\* Mutant of CompleteFails: one attempt more than there are.
CompleteFailsOnceMore(b) ==
    /\ task[b].at \in {"Report", "Reply"}
    /\ Unanswered(b)
    /\ IF task[b].attempt <= Attempts
         THEN /\ task' = [task EXCEPT ![b].at = "Report", ![b].attempt = @ + 1]
              /\ UNCHANGED <<gate, loop>>
         ELSE EndTask(b)
    /\ UNCHANGED <<server, beat, silence, config, events>>

\* after_failure: sent again until the attempts are spent, which is its bound.
CompleteFails(b) ==
    /\ task[b].at \in {"Report", "Reply"}
    /\ Unanswered(b)
    /\ IF task[b].attempt < Attempts
         THEN /\ task' = [task EXCEPT ![b].at = "Report", ![b].attempt = @ + 1]
              /\ UNCHANGED <<gate, loop>>
         ELSE EndTask(b)
    /\ UNCHANGED <<server, beat, silence, config, events>>

-----------------------------------------------------------------------------
(* The heartbeat. *)

\* Mutant of BeatBegin: told is told, whether or not the heartbeat arrives.
BeatBeginTold ==
    /\ beat.at = "Idle"
    /\ beat' = [NoBeat EXCEPT !.at = "Sent", !.ids = Active, !.rev = cfg.rev,
                              !.report = IF reported = cfg THEN Unset ELSE cfg]
    /\ reported' = cfg
    /\ UNCHANGED <<server, loop, gate, task, silence, cfg, registered, remembered, renewal, events>>

\* Mutant of BeatBegin: what was claimed is listed for good.
BeatBeginEver ==
    /\ beat.at = "Idle"
    /\ beat' = [NoBeat EXCEPT !.at = "Sent", !.ids = {b \in Builds : build[b] # "Queued"}, !.rev = cfg.rev,
                              !.report = IF reported = cfg THEN Unset ELSE cfg]
    /\ UNCHANGED <<server, loop, gate, task, silence, config, renewal, events>>

\* The builds are listed, and what the worker runs if the server was not told.
BeatBegin ==
    /\ beat.at = "Idle"
    /\ beat' = [NoBeat EXCEPT !.at = "Sent", !.ids = Active, !.rev = cfg.rev,
                              !.report = IF reported = cfg THEN Unset ELSE cfg]
    /\ UNCHANGED <<server, loop, gate, task, silence, config, renewal, events>>

\* Builds of this worker that the heartbeat does not list, past their first lease:
\* an answer to a claim may still be on its way before that.
Dropped == {b \in Builds \ beat.ids : build[b] = "Active" /\ age[b] >= LeaseTtl}

Renewed == {b \in beat.ids : build[b] = "Active"}

\* Mutant of Refused: only what an operator canceled is named.
RefusedCanceled == {b \in beat.ids : build[b] = "Canceled"}

\* The abort list: whatever is listed and no longer this worker's to run.
Refused == beat.ids \ Renewed

\* snapshot_for: the settings, unless the worker holds that revision.
Snapshot == IF beat.rev = <<setting>> THEN <<>> ELSE <<setting>>

ServeBeat ==
    /\ beat.at = "Sent"
    /\ \/ /\ AskToRegister("Beat")
          /\ UNCHANGED <<build, lease, known, beat>>
       \/ /\ Due("Beat")
          /\ agreed
          /\ known' = IF beat.report = Unset THEN known ELSE beat.report
          /\ build' = [b \in Builds |-> IF b \in Dropped THEN "Abandoned" ELSE build[b]]
          /\ lease' = [b \in Builds |-> IF b \in Renewed THEN 0 ELSE lease[b]]
          /\ beat' = [beat EXCEPT !.at = "Reply", !.rev = <<>>, !.cancel = Refused, !.config = Snapshot]
          /\ UNCHANGED renewal
    /\ UNCHANGED <<age, setting, row, agreed, loop, gate, task, silence, config, events>>

\* The builds of s are told to stop.
Stopped(s, why) ==
    [b \in Builds |-> IF b \in s /\ task[b].at # "None" THEN [task[b] EXCEPT !.stop = why] ELSE task[b]]

\* with_snapshot: the server's value, or the environment's when there is none.
Resolve(v) == [n |-> IF v = Unset THEN Own ELSE v, rev |-> <<v>>]

\* What the worker runs after the answer.
Delivered == IF beat.config = <<>> THEN cfg ELSE Resolve(beat.config[1])

\* Mutant of Roused: the loop finds out about a raised target by itself.
RousedNever == loop

\* set_target: a raised target wakes the loop.
Roused == IF Delivered.n > gate.target THEN Woken ELSE loop

\* The claim loop starts after the first beat of the process, however that went.
Started(l) == IF l.at = "Start" THEN Entering ELSE l

\* The answer: contact, the report taken, builds to stop, settings to apply, and
\* registering again if that changed what the server schedules by.
ReceiveBeat ==
    /\ beat.at = "Reply"
    /\ silence' = 0
    /\ reported' = IF beat.report = Unset THEN reported ELSE beat.report
    /\ task' = Stopped(beat.cancel, "Asked")
    /\ cfg' = Delivered
    /\ gate' = [gate EXCEPT !.target = AtLeastOne(Delivered.n)]
    /\ IF registered = Delivered.n
         THEN /\ beat' = NoBeat
              /\ loop' = Started(Roused)
              /\ UNCHANGED renewal
         ELSE /\ beat' = [NoBeat EXCEPT !.at = "Sync", !.ids = beat.ids]
              /\ loop' = Roused
              /\ renewal' = [renewal EXCEPT !["Beat"] = [at |-> "Sent", n |-> Delivered.n]]
    /\ UNCHANGED <<server, registered, remembered, events>>

\* The end of a beat.  One that had builds to list, out of contact past the lease,
\* stops everything.
EndBeat ==
    /\ task' = IF beat.ids # {} /\ silence > LeaseTtl
                 THEN Stopped(Builds, "Alone")
                 ELSE task
    /\ beat' = NoBeat
    /\ loop' = Started(loop)

\* sync_registration: registered again.
ReceiveSync ==
    /\ beat.at = "Sync"
    /\ renewal["Beat"].at = "Taken"
    /\ registered' = renewal["Beat"].n
    /\ remembered' = renewal["Beat"].n
    /\ renewal' = [renewal EXCEPT !["Beat"] = NoRenewal]
    /\ EndBeat
    /\ UNCHANGED <<server, gate, silence, cfg, reported, events>>

BeatFails ==
    /\ beat.at \in {"Sent", "Reply", "Sync"}
    /\ Lost("Beat")
    /\ EndBeat
    /\ UNCHANGED <<server, gate, silence, config>>

-----------------------------------------------------------------------------
(* What else happens. *)

\* An operator cancels a build.
Cancel(b) ==
    /\ b \in Cancelable
    /\ build[b] = "Active"
    /\ build' = [build EXCEPT ![b] = "Canceled"]
    /\ UNCHANGED <<lease, age, setting, row, known, agreed, loop, gate, task, beat, silence,
                   config, renewal, events>>

\* The reaper takes a build whose lease ran out.
Reap(b) ==
    /\ build[b] = "Active"
    /\ lease[b] > LeaseTtl
    /\ build' = [build EXCEPT ![b] = "Abandoned"]
    /\ UNCHANGED <<lease, age, setting, row, known, agreed, loop, gate, task, beat, silence,
                   config, renewal, events>>

\* An operator sets, changes or removes the worker's concurrency.
ChangeSetting(v) ==
    /\ v # setting
    /\ Event
    /\ setting' = v
    /\ UNCHANGED <<build, lease, age, row, known, agreed, loop, gate, task, beat, silence,
                   config, renewal>>

\* The agreements are in memory.  A request that was under way is lost with it, or
\* as good as sent afterwards.
RestartServer ==
    /\ Event
    /\ agreed' = FALSE
    /\ UNCHANGED <<build, lease, age, setting, row, known, loop, gate, task, beat, silence,
                   config, renewal>>

\* The worker's process starts anew, and enrolls.
RestartWorker ==
    /\ Event
    /\ row' = Own
    /\ agreed' = TRUE
    /\ loop' = [Entering EXCEPT !.at = "Start"]
    /\ gate' = [target |-> AtLeastOne(Own), running |-> 0]
    /\ task' = [b \in Builds |-> NoTask]
    /\ beat' = NoBeat
    /\ silence' = 0
    /\ cfg' = [n |-> Own, rev |-> <<>>]
    /\ reported' = Unset
    /\ registered' = Own
    /\ remembered' = Own
    /\ renewal' = [c \in Callers |-> NoRenewal]
    /\ UNCHANGED <<build, lease, age, setting, known>>

Sooner(n, limit) == IF n < limit THEN n + 1 ELSE n

\* Time is told only as far as the lease.
Tick ==
    /\ silence' = Sooner(silence, LeaseTtl + 1)
    /\ lease' = [b \in Builds |-> IF build[b] = "Active" THEN Sooner(lease[b], LeaseTtl + 1) ELSE lease[b]]
    /\ age' = [b \in Builds |-> IF build[b] = "Active" THEN Sooner(age[b], LeaseTtl) ELSE age[b]]
    /\ UNCHANGED <<build, setting, row, known, agreed, loop, gate, task, beat, config, renewal, events>>

LoopStep == GateEnter \/ GateCheck \/ GateWake \/ ServeClaim \/ ReceiveClaim
BeatStep == BeatBegin \/ ServeBeat \/ ReceiveBeat \/ ReceiveSync
RegisterStep(c) == ServeRegister(c) \/ ReceiveRegister(c)
ReportStep(b) == ServeComplete(b) \/ ReceiveComplete(b)

Next ==
    \/ LoopStep
    \/ NotReady
    \/ ClaimFails
    \/ BeatStep
    \/ BeatFails
    \/ \E b \in Builds : JobEnds(b) \/ ReportStep(b) \/ CompleteFails(b) \/ Cancel(b) \/ Reap(b)
    \/ \E c \in Callers : RegisterStep(c)
    \/ \E v \in Snapshots : ChangeSetting(v)
    \/ RestartServer
    \/ RestartWorker
    \/ Tick

Spec == Init /\ [][Next]_vars

\* The loops go on, requests that are not lost are served and answered, time
\* passes and the reaper runs.  Nothing makes a build end that nobody stops.
Fairness ==
    /\ WF_vars(LoopStep)
    /\ WF_vars(BeatStep)
    /\ WF_vars(Tick)
    /\ \A c \in Callers : WF_vars(RegisterStep(c))
    /\ \A b \in Builds : WF_vars(ReportStep(b)) /\ WF_vars(Reap(b))

LiveSpec == Spec /\ Fairness

-----------------------------------------------------------------------------
(* Properties. *)

\* Every place under the limit is held by a build in active or by the claim loop:
\* none leaks on any way out of a claim or a job, so a worker never shrinks.
EveryPlaceIsHeld ==
    gate.running = Cardinality(Active)
                     + (IF loop.at \in {"Ready", "Reply"} THEN 1 ELSE 0)

\* A loop waiting at the gate is woken once a place is free, whether a build ended
\* or the limit was raised (Notify keeps nothing for whoever registers late).
FreePlaceWakesLoop ==
    (loop.at = "Wait" /\ gate.running < gate.target) ~> (loop.at # "Wait")

\* A build the server took back, or that was canceled, is told to stop on the
\* worker: by the abort list of a heartbeat or by the worker's own watch.
LostBuildsStop ==
    \A b \in Builds :
      (task[b].at = "Running" /\ build[b] # "Active")
        ~> (task[b].stop # "No" \/ task[b].at # "Running")

\* What the server counts as running on this worker is run there, or leaves that
\* state: a claim whose answer was lost, a report that was given up, a process
\* that came back empty leave nothing behind.
HeldBuildsAreRun ==
    \A b \in Builds : build[b] = "Active" ~> (build[b] # "Active" \/ task[b].at = "Running")

\* Once nobody changes the setting, the worker runs it and the server knows.
SettingArrives ==
    <>[](cfg.rev = <<setting>> /\ known = cfg)

\* A build the worker stopped for want of contact is "abandoned and queued afresh"
\* by the server, not failed for good.
SelfAbortIsRetried ==
    [][\A b \in Builds :
         build[b] = "Active" /\ build'[b] = "Failed"
           => ~(task[b].stop = "Alone" /\ task[b].outcome = "Canceled")]_vars

=============================================================================
