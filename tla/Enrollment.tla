----------------------------- MODULE Enrollment -----------------------------
(***************************************************************************)
(* How a worker becomes one the server takes requests from: registration,  *)
(* the certificate the server's CA signs, approval by policy or operator,  *)
(* and the enrollment loop of the worker.                                  *)
(*                                                                         *)
(* worker_enroll::register runs several statements outside a transaction,  *)
(* so it is split at every one of them; what it read lives in its request  *)
(* (a member of regs).  Operators, other registrations, a restart of the   *)
(* server and a restart of the worker come in between.  The worker's side  *)
(* is enroll.rs: register at every start, poll until approved, keep the    *)
(* certificate on disk, recover from a CA that was replaced.               *)
(***************************************************************************)
EXTENDS Naturals, Sequences, FiniteSets

CONSTANTS
    Workers,      \* the machines
    Embedded,     \* the machine that shares a container with the server, if any
    Pinned,       \* workers configured with the fingerprint of the server's CA
    AutoApproved, \* keys some mode of the enrollment policy approves
    MaxKeys,      \* bound: keys one machine ever generates
    MaxCa,        \* bound: CAs the server ever has
    MaxRestarts,  \* bound: restarts of the server and of workers
    MaxLost,      \* bound: answers that are lost or come too late
    MaxInFlight,  \* bound: registrations of one worker under way at once
    Revocable,    \* bound: machines an operator may revoke
    Null          \* no value

ASSUME EnrollmentAssumption ==
    /\ \A v, w \in Embedded : v = w
    /\ Embedded \subseteq Workers
    /\ Pinned \subseteq Workers
    /\ Revocable \subseteq Workers
    /\ {MaxKeys, MaxCa, MaxRestarts, MaxLost, MaxInFlight} \subseteq Nat

\* The n-th key pair a machine generated.  Its fingerprint is the identity.
Keys == Workers \X Nat

Certs == [key : Keys, ca : Nat]

ASSUME NullAssumption == Null \notin Keys \cup Certs \cup Nat

Statuses == {"Pending", "Approved", "Revoked"}

VARIABLES
    rows,     \* the workers table; rows are never deleted
    ca,       \* the CA of this server process
    agreed,   \* AgreedProtocols: keys a protocol was negotiated with; in memory
    speaks,   \* workers whose protocol range meets the server's
    regs,     \* registrations under way or answered
    key,      \* the machine's key pair, on its disk
    cert,     \* worker-cert.pem
    pin,      \* ca-cert.pem
    proc,     \* the worker's process
    restarts, \* restarts so far
    lost      \* answers lost so far

server == <<rows, ca, agreed>>
worker == <<key, cert, pin, proc>>
budget == <<speaks, restarts, lost>>
vars == <<server, regs, worker, budget>>

Row == [key : Keys, status : Statuses, cert : Certs \cup {Null}, embedded : BOOLEAN]

\* wanted: the worker still waits for the answer.
Registration ==
    [w : Workers, key : Keys, path : {"Enrolled", "Recover", "Fresh", "Again"},
     wanted : BOOLEAN,
     stage : {"Arrived", "Rekey", "Upsert", "Read", "Mark", "Cert", "Approve",
              "Answer", "Answered"},
     id : Nat, status : Statuses, cert : Certs \cup {Null}]

\* trust and cert are what the HTTP client was built with.
Process ==
    [at : {"Down", "Trying", "Waiting", "Polling", "Running", "Renewing", "Exited"},
     trust : Nat \cup {Null}, cert : Certs \cup {Null}]

TypeOK ==
    /\ rows \in Seq(Row)
    /\ ca \in Nat
    /\ agreed \subseteq Keys
    /\ speaks \subseteq Workers
    /\ regs \subseteq Registration
    /\ key \in [Workers -> Keys]
    /\ cert \in [Workers -> Certs \cup {Null}]
    /\ pin \in [Workers -> Nat \cup {Null}]
    /\ proc \in [Workers -> Process]
    /\ restarts \in Nat
    /\ lost \in Nat

Idle(at) == [at |-> at, trust |-> Null, cert |-> Null]

Init ==
    /\ rows = <<>>
    /\ ca = 0
    /\ agreed = {}
    /\ speaks = Workers
    /\ regs = {}
    /\ key = [w \in Workers |-> <<w, 0>>]
    /\ cert = [w \in Workers |-> Null]
    /\ pin = [w \in Workers |-> Null]
    /\ proc = [w \in Workers |-> Idle("Down")]
    /\ restarts = 0
    /\ lost = 0

-----------------------------------------------------------------------------
(* The server: worker_enroll::register and the routes around it. *)

\* find_worker_by_fingerprint: at most one row, by the unique index.
RowsOf(k) == {i \in DOMAIN rows : rows[i].key = k}

\* The request r reaches its next stage.
To(r, next) == regs' = (regs \ {r}) \cup {next}

\* No protocol in common: nothing is recorded, the worker is told (426).
Refuse(r) ==
    /\ r.stage = "Arrived"
    /\ r.w \notin speaks
    /\ regs' = regs \ {r}
    /\ proc' = IF r.wanted
                 THEN [proc EXCEPT ![r.w] =
                         IF r.path = "Again" THEN [@ EXCEPT !.at = "Running"] ELSE Idle("Trying")]
                 ELSE proc
    /\ UNCHANGED <<server, key, cert, pin, budget>>

\* Mutant of FindEmbedded: a new key is a new worker.
FindNoEmbedded(r) ==
    /\ r.stage = "Arrived"
    /\ r.w \in speaks
    /\ To(r, [r EXCEPT !.stage = "Upsert"])
    /\ UNCHANGED <<server, worker, budget>>

\* rekey_embedded, its reads: a key no row holds, and a row marked embedded.
FindEmbedded(r) ==
    /\ r.stage = "Arrived"
    /\ r.w \in speaks
    /\ IF r.w \in Embedded /\ RowsOf(r.key) = {}
         THEN \/ \E i \in DOMAIN rows :
                   rows[i].embedded /\ To(r, [r EXCEPT !.stage = "Rekey", !.id = i])
              \/ /\ \A i \in DOMAIN rows : ~rows[i].embedded
                 /\ To(r, [r EXCEPT !.stage = "Upsert"])
         ELSE To(r, [r EXCEPT !.stage = "Upsert"])
    /\ UNCHANGED <<server, worker, budget>>

\* Mutant of RekeyEmbedded: the certificate of the old key stays.
RekeyKeepsCert(r) ==
    /\ r.stage = "Rekey"
    /\ rows' = [rows EXCEPT ![r.id].key = r.key]
    /\ To(r, [r EXCEPT !.stage = "Upsert"])
    /\ UNCHANGED <<ca, agreed, worker, budget>>

\* rekey_embedded, its write: the row takes the key and loses the certificate of
\* the old one; approval, settings and history stay.
RekeyEmbedded(r) ==
    /\ r.stage = "Rekey"
    /\ rows' = [rows EXCEPT ![r.id].key = r.key, ![r.id].cert = Null]
    /\ To(r, [r EXCEPT !.stage = "Upsert"])
    /\ UNCHANGED <<ca, agreed, worker, budget>>

\* register_worker: insert a pending row, or refresh the one that holds the key
\* and leave its approval alone.
RegisterWorker(r) ==
    /\ r.stage = "Upsert"
    /\ rows' = IF RowsOf(r.key) = {}
                 THEN Append(rows, [key |-> r.key, status |-> "Pending",
                                    cert |-> Null, embedded |-> FALSE])
                 ELSE rows
    /\ To(r, [r EXCEPT !.stage = "Read"])
    /\ UNCHANGED <<ca, agreed, worker, budget>>

\* The row as register_worker returns it; everything below is decided from it.
ReadRow(r) ==
    /\ r.stage = "Read"
    /\ \E i \in RowsOf(r.key) :
         To(r, [r EXCEPT !.stage = IF r.w \in Embedded /\ ~rows[i].embedded THEN "Mark" ELSE "Cert",
                         !.id = i, !.status = rows[i].status, !.cert = rows[i].cert])
    /\ UNCHANGED <<server, worker, budget>>

\* mark_embedded: this row and no other.
MarkEmbedded(r) ==
    /\ r.stage = "Mark"
    /\ rows' = [i \in DOMAIN rows |-> [rows[i] EXCEPT !.embedded = (i = r.id)]]
    /\ To(r, [r EXCEPT !.stage = "Cert"])
    /\ UNCHANGED <<ca, agreed, worker, budget>>

\* Mutant of NeedsCert: a certificate once issued is handed out for ever.
NeedsFirstCert(r) == r.cert = Null

\* A row without a certificate, or with one another CA signed.
NeedsCert(r) == r.cert = Null \/ r.cert.ca # ca

\* store_signed_cert, by id.
StoreSignedCert(r) ==
    /\ r.stage = "Cert"
    /\ rows' = IF NeedsCert(r)
                 THEN [rows EXCEPT ![r.id].cert = [key |-> r.key, ca |-> ca]]
                 ELSE rows
    /\ To(r, [r EXCEPT !.stage = "Approve"])
    /\ UNCHANGED <<ca, agreed, worker, budget>>

\* EnrollmentPolicy::approves: only a pending worker.
Approves(status, k) == status = "Pending" /\ k \in AutoApproved

\* The policy is asked about the status read earlier; the write is by id.
AutoApprove(r) ==
    /\ r.stage = "Approve"
    /\ rows' = IF Approves(r.status, r.key)
                 THEN [rows EXCEPT ![r.id].status = "Approved"]
                 ELSE rows
    /\ To(r, [r EXCEPT !.stage = "Answer"])
    /\ UNCHANGED <<ca, agreed, worker, budget>>

\* register_status_for: the certificate is released to an approved worker only.
Released(i) == IF rows[i].status = "Approved" THEN rows[i].cert ELSE Null

\* Mutant of Answer: the agreement is noted under the worker's name.
AnswerByName(r) ==
    /\ r.stage = "Answer"
    /\ agreed' = agreed \cup {r.w}
    /\ \E i \in RowsOf(r.key) :
         IF r.wanted
           THEN To(r, [r EXCEPT !.stage = "Answered", !.status = rows[i].status,
                                !.cert = Released(i)])
           ELSE regs' = regs \ {r}
    /\ UNCHANGED <<rows, ca, worker, budget>>

\* The protocol is noted and the answer sent, to whoever still waits.
Answer(r) ==
    /\ r.stage = "Answer"
    /\ agreed' = agreed \cup {r.key}
    /\ \E i \in RowsOf(r.key) :
         IF r.wanted
           THEN To(r, [r EXCEPT !.stage = "Answered", !.status = rows[i].status,
                                !.cert = Released(i)])
           ELSE regs' = regs \ {r}
    /\ UNCHANGED <<rows, ca, worker, budget>>

Handle(r) ==
    \/ Refuse(r)
    \/ FindEmbedded(r)
    \/ RekeyEmbedded(r)
    \/ RegisterWorker(r)
    \/ ReadRow(r)
    \/ MarkEmbedded(r)
    \/ StoreSignedCert(r)
    \/ AutoApprove(r)
    \/ Answer(r)

\* An operator approves a worker.  Nothing is asked of its status.
ApproveWorker(i) ==
    /\ rows' = [rows EXCEPT ![i].status = "Approved"]
    /\ UNCHANGED <<ca, agreed, regs, worker, budget>>

\* An operator revokes a worker; its builds are the build queue's matter.
RevokeWorker(i) ==
    /\ rows[i].key[1] \in Revocable
    /\ rows' = [rows EXCEPT ![i].status = "Revoked"]
    /\ UNCHANGED <<ca, agreed, regs, worker, budget>>

-----------------------------------------------------------------------------
(* The worker: enroll.rs, identity.rs and the re-registration of client.rs. *)

IsEnrolled(w) == cert[w] # Null /\ pin[w] # Null

\* Which way ensure_enrolled goes.  A pinned CA that does not verify the server
\* is given up only for one that has the configured fingerprint.
Path(w) ==
    IF ~IsEnrolled(w) THEN "Fresh"
    ELSE IF pin[w] = ca THEN "Enrolled" ELSE "Recover"

\* A registration is sent over a connection that trusts the pinned or fetched CA.
Send(w, path) ==
    /\ Cardinality({r \in regs : r.w = w}) < MaxInFlight
    /\ regs' = regs \cup {[w |-> w, key |-> key[w], path |-> path, wanted |-> TRUE,
                           stage |-> "Arrived", id |-> 0, status |-> "Pending",
                           cert |-> Null]}

\* ensure_enrolled, up to its first answer.
EnsureEnrolled(w) ==
    /\ proc[w].at = "Trying"
    /\ Path(w) = "Recover" => w \in Pinned
    /\ Send(w, Path(w))
    /\ proc' = [proc EXCEPT ![w] = [at |-> "Waiting", trust |-> ca, cert |-> Null]]
    /\ UNCHANGED <<server, key, cert, pin, budget>>

\* try_finish_enrollment with a certificate: persist it, build the client.
Finish(w, c) ==
    /\ cert' = [cert EXCEPT ![w] = c]
    /\ pin' = [pin EXCEPT ![w] = proc[w].trust]
    /\ proc' = [proc EXCEPT ![w] = [at |-> "Running", trust |-> proc[w].trust, cert |-> c]]

\* Without one: where the worker goes on.
Continue(w, p) ==
    /\ proc' = [proc EXCEPT ![w] = p]
    /\ UNCHANGED <<cert, pin>>

\* The answer to a registration, on each of the paths it was sent from.
Receive(r) ==
    /\ r.stage = "Answered"
    /\ r.wanted
    /\ regs' = regs \ {r}
    /\ CASE r.path = "Again" -> Continue(r.w, [proc[r.w] EXCEPT !.at = "Running"])
         [] r.path # "Again" /\ r.cert # Null -> Finish(r.w, r.cert)
         [] r.path = "Enrolled" /\ r.cert = Null ->
              Continue(r.w, IF r.status = "Revoked" THEN Idle("Exited")
                            ELSE [at |-> "Running", trust |-> pin[r.w], cert |-> cert[r.w]])
         [] r.path = "Recover" /\ r.cert = Null -> Continue(r.w, Idle("Trying"))
         [] r.path = "Fresh" /\ r.cert = Null ->
              Continue(r.w, IF r.status = "Revoked" THEN Idle("Exited")
                            ELSE [proc[r.w] EXCEPT !.at = "Polling"])
    /\ UNCHANGED <<server, key, budget>>

\* Mutant of Poll: a failed connection is just asked again.
PollOn(w) ==
    /\ proc[w].at = "Polling"
    /\ proc[w].trust = ca
    /\ \E i \in RowsOf(key[w]) :
         IF Released(i) # Null
           THEN Finish(w, Released(i))
           ELSE Continue(w, IF rows[i].status = "Revoked" THEN Idle("Exited") ELSE proc[w])
    /\ UNCHANGED <<server, regs, key, budget>>

\* register_status, asked every poll interval by a worker that is not approved yet.
\* A connection that trusts another CA fails, and enrollment starts over.
Poll(w) ==
    /\ proc[w].at = "Polling"
    /\ IF proc[w].trust # ca
         THEN Continue(w, Idle("Trying"))
         ELSE \E i \in RowsOf(key[w]) :
                IF Released(i) # Null
                  THEN Finish(w, Released(i))
                  ELSE Continue(w, IF rows[i].status = "Revoked" THEN Idle("Exited") ELSE proc[w])
    /\ UNCHANGED <<server, regs, key, budget>>

\* The guard WorkerAuth lets a request of w through, or asks it to register first.
Authenticated(w) ==
    /\ proc[w].at = "Running"
    /\ proc[w].trust = ca
    /\ proc[w].cert.ca = ca
    /\ \E i \in RowsOf(proc[w].cert.key) : rows[i].status = "Approved"

\* exchange: answered 428, the client sends its registration again.
Exchange(w) ==
    /\ Authenticated(w)
    /\ proc[w].cert.key \notin agreed
    /\ Send(w, "Again")
    /\ proc' = [proc EXCEPT ![w].at = "Renewing"]
    /\ UNCHANGED <<server, key, cert, pin, budget>>

\* The process of w after a request of its got no answer.
Unanswered(w) ==
    CASE proc[w].at = "Renewing" -> [proc[w] EXCEPT !.at = "Running"]
      [] proc[w].at = "Waiting" -> Idle("Trying")
      [] OTHER -> proc[w]

\* The connection breaks or times out; the server goes on.
LoseAnswer(r) ==
    /\ r.wanted
    /\ lost < MaxLost
    /\ lost' = lost + 1
    /\ IF r.stage = "Answered"
         THEN regs' = regs \ {r}
         ELSE To(r, [r EXCEPT !.wanted = FALSE])
    /\ proc' = [proc EXCEPT ![r.w] = Unanswered(r.w)]
    /\ UNCHANGED <<server, key, cert, pin, speaks, restarts>>

-----------------------------------------------------------------------------
(* Restarts. *)

\* What w asked for, with nobody waiting for it any more.
Abandoned(w) ==
    {IF r.w = w THEN [r EXCEPT !.wanted = FALSE] ELSE r :
       r \in {q \in regs : ~(q.w = w /\ q.stage = "Answered")}}

Restarting == restarts < MaxRestarts /\ restarts' = restarts + 1

\* A worker starts, for the first time or again, perhaps another version of it.
StartWorker(w) ==
    /\ IF proc[w].at = "Down" THEN UNCHANGED restarts ELSE Restarting
    /\ speaks' \in {speaks, speaks \cup {w}, speaks \ {w}}
    /\ proc' = [proc EXCEPT ![w] = Idle("Trying")]
    /\ regs' = Abandoned(w)
    /\ UNCHANGED <<server, key, cert, pin, lost>>

\* A worker dies in store_signed, after the certificate and before the CA.
DieStoring(r) ==
    /\ r.stage = "Answered"
    /\ r.path # "Again"
    /\ r.cert # Null
    /\ Restarting
    /\ cert' = [cert EXCEPT ![r.w] = r.cert]
    /\ proc' = [proc EXCEPT ![r.w] = Idle("Down")]
    /\ regs' = Abandoned(r.w)
    /\ UNCHANGED <<server, key, pin, speaks, lost>>

\* The server starts again: Ca::load_or_create finds its CA or makes one, the
\* agreements and the requests under way are gone.
RestartServer ==
    /\ Restarting
    /\ ca' \in {ca, ca + 1}
    /\ ca' <= MaxCa
    /\ agreed' = {}
    /\ regs' = {}
    /\ speaks' \in SUBSET Workers
    /\ proc' = [w \in Workers |-> Unanswered(w)]
    /\ UNCHANGED <<rows, key, cert, pin, lost>>

\* The container of the server and the embedded worker is made anew: the worker's
\* volume is gone and load_or_create makes it a new key.
RecreateContainer(w) ==
    /\ Restarting
    /\ key[w][2] < MaxKeys
    /\ key' = [key EXCEPT ![w] = <<w, @[2] + 1>>]
    /\ cert' = [cert EXCEPT ![w] = Null]
    /\ pin' = [pin EXCEPT ![w] = Null]
    /\ agreed' = {}
    /\ regs' = {}
    /\ proc' = [v \in Workers |-> IF v = w THEN Idle("Down") ELSE Unanswered(v)]
    /\ UNCHANGED <<rows, ca, speaks, lost>>

Next ==
    \/ \E r \in regs : Handle(r) \/ Receive(r) \/ LoseAnswer(r) \/ DieStoring(r)
    \/ \E i \in DOMAIN rows : ApproveWorker(i) \/ RevokeWorker(i)
    \/ \E w \in Workers : EnsureEnrolled(w) \/ Poll(w) \/ Exchange(w) \/ StartWorker(w)
    \/ RestartServer
    \/ \E w \in Embedded : RecreateContainer(w)

Spec == Init /\ [][Next]_vars

\* Request handlers run to their end, and the loop of enroll keeps going.
Fairness ==
    \A w \in Workers :
      /\ WF_vars(\E r \in regs : r.w = w /\ (Handle(r) \/ Receive(r)))
      /\ WF_vars(EnsureEnrolled(w))
      /\ WF_vars(Poll(w))

LiveSpec == Spec /\ Fairness

-----------------------------------------------------------------------------
(* Properties. *)

\* A row's certificate was issued for the key the row holds, also after the
\* embedded worker came back with a new one (rekey_embedded clears it, and
\* store_signed_cert writes by id).
CertMatchesKey ==
    \A i \in DOMAIN rows : rows[i].cert # Null => rows[i].cert.key = rows[i].key

\* A certificate the server hands out is one its own CA signed, however often the
\* CA was replaced since the worker enrolled: register re-issues it.
AnswersHoldTogether ==
    \A r \in regs : r.stage = "Answered" /\ r.cert # Null => r.cert = [key |-> r.key, ca |-> ca]

\* Once a row is marked embedded, the embedded worker never gets another one,
\* whatever key it comes back with: approval and history stay with it.
EmbeddedKeepsItsRow ==
    [][(\E i \in DOMAIN rows : rows[i].embedded)
         => \A i \in DOMAIN rows' \ DOMAIN rows : rows'[i].key[1] \notin Embedded]_vars

Approved(w) == \E i \in RowsOf(key[w]) : rows[i].status = "Approved"

\* A worker nothing stands in the way of: it is up, approved and speaks the
\* protocol, and trusts, or can check, the CA the server has.
Admissible(w) ==
    /\ Approved(w)
    /\ w \in speaks
    /\ proc[w].at \notin {"Down", "Exited"}
    /\ proc[w].at \in {"Running", "Renewing"} => proc[w].trust = ca
    /\ w \in Pinned \/ pin[w] \in {Null, ca}
    \* Polling issues nothing: a registration under a new key that a restart cut
    \* short after RekeyEmbedded can leave a polling worker without a certificate.
    /\ proc[w].at = "Polling" => \E i \in RowsOf(key[w]) : rows[i].cert # Null

\* Such a worker ends up with a client the server accepts, whatever answers were
\* lost, CAs replaced and processes restarted before.
EnrollmentCompletes ==
    \A w \in Workers :
      <>[]Admissible(w)
        => <>[](proc[w].trust = ca /\ proc[w].cert = [key |-> key[w], ca |-> ca])

=============================================================================
