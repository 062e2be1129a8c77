---------------------------- MODULE EnrollmentProofs ----------------------------
(* Proofs about Enrollment: rows, keys and certificates stay together while       *)
(* registrations, operators, restarts and a replaced CA interleave.               *)
EXTENDS Enrollment, SequenceTheorems, TLAPS

\* A machine's key is its own: its fingerprint names it.
KeyOwners == \A w \in Workers : key[w][1] = w

\* The unique index over fingerprints.
RowKeysUnique == \A i, j \in DOMAIN rows : rows[i].key = rows[j].key => i = j

\* At most one row is marked, and it holds a key of the embedded worker.
OneMarked ==
    \A i \in DOMAIN rows : rows[i].embedded =>
       /\ rows[i].key[1] \in Embedded
       /\ \A j \in DOMAIN rows : rows[j].embedded => i = j

Table == RowKeysUnique /\ OneMarked /\ CertMatchesKey

\* A request names the key its machine has: a machine gets a new key only with a
\* new container, which ends every request.
HoldsKey(r) == r.key = key[r.w]

\* A request about to rekey has the marked row in hand, and no other row holds,
\* or will hold, its key.
Rekeying(r) ==
    r.stage = "Rekey" =>
       /\ r.w \in Embedded
       /\ r.id \in DOMAIN rows
       /\ rows[r.id].embedded
       /\ \A i \in DOMAIN rows : rows[i].key = r.key => i = r.id

\* The embedded worker inserts a row only while none is marked.
Upserting(r) ==
    r.stage = "Upsert" /\ r.w \in Embedded /\ (\E i \in DOMAIN rows : rows[i].embedded)
       => \E i \in DOMAIN rows : rows[i].key = r.key

\* The row a request read is still the one that holds its key.
Reading(r) ==
    r.stage \in {"Mark", "Cert", "Approve", "Answer"} =>
       /\ r.id \in DOMAIN rows
       /\ rows[r.id].key = r.key
       /\ r.stage = "Mark" => r.w \in Embedded

\* Past StoreSignedCert, or when the certificate read was of this CA, the row
\* holds none of an earlier one.
Issued(i) == rows[i].cert = Null \/ rows[i].cert.ca = ca
Issuing(r) ==
    \/ r.stage \in {"Approve", "Answer"}
    \/ r.stage \in {"Mark", "Cert"} /\ r.cert # Null /\ r.cert.ca = ca
    => Issued(r.id)

Answering(r) == r.stage = "Answered" /\ r.cert # Null => r.cert = [key |-> r.key, ca |-> ca]

RequestOK(r) ==
    HoldsKey(r) /\ Rekeying(r) /\ Upserting(r) /\ Reading(r) /\ Issuing(r) /\ Answering(r)

Inv == TypeOK /\ KeyOwners /\ Table /\ \A r \in regs : RequestOK(r)

-----------------------------------------------------------------------------
(* Types. *)

LEMMA RowsExcept ==
    ASSUME rows \in Seq(Row), NEW i \in DOMAIN rows, NEW x \in Row
    PROVE  [rows EXCEPT ![i] = x] \in Seq(Row)
  BY ExceptSeq

LEMMA InitInv == Init => Inv
  <1> SUFFICES ASSUME Init PROVE Inv
    OBVIOUS
  <1>1. TypeOK
    <2>1. \A w \in Workers : <<w, 0>> \in Keys
      BY DEF Keys
    <2>2. Idle("Down") \in Process
      BY DEF Idle, Process
    <2> QED BY <2>1, <2>2 DEF Init, TypeOK
  <1>2. KeyOwners
    BY DEF Init, KeyOwners
  <1>3. rows = <<>> /\ regs = {} /\ DOMAIN rows = {}
    BY DEF Init
  <1>4. Table /\ \A r \in regs : RequestOK(r)
    BY <1>3 DEF Table, RowKeysUnique, OneMarked, CertMatchesKey
  <1> QED BY <1>1, <1>2, <1>4 DEF Inv

LEMMA HandleTypes ==
    ASSUME Inv, NEW r \in regs, Handle(r)
    PROVE  TypeOK'
  <1> USE DEF Inv
  <1>0. /\ rows \in Seq(Row) /\ ca \in Nat /\ agreed \subseteq Keys /\ regs \subseteq Registration
        /\ r \in Registration /\ DOMAIN rows \subseteq Nat
        /\ \A i \in DOMAIN rows : rows[i] \in Row
        /\ proc \in [Workers -> Process]
    BY DEF TypeOK
  <1>a. r.w \in Workers /\ r.key \in Keys /\ r.id \in Nat /\ r.status \in Statuses
    BY <1>0 DEF Registration
  <1>1. CASE Refuse(r)
    <2>1. proc' \in [Workers -> Process]
      BY <1>0, <1>1, <1>a DEF Refuse, Process, Idle
    <2> QED BY <1>0, <1>1, <2>1 DEF Refuse, TypeOK, server, budget
  <1>2. CASE FindEmbedded(r)
    <2>1. [r EXCEPT !.stage = "Upsert"] \in Registration
      BY <1>0 DEF Registration
    <2>2. \A i \in DOMAIN rows : [r EXCEPT !.stage = "Rekey", !.id = i] \in Registration
      BY <1>0 DEF Registration
    <2>3. regs' \subseteq Registration
      BY <1>0, <1>2, <2>1, <2>2 DEF FindEmbedded, To
    <2> QED BY <1>2, <2>3 DEF FindEmbedded, TypeOK, server, worker, budget
  <1>3. CASE RekeyEmbedded(r)
    <2>1. regs' \subseteq Registration
      BY <1>0, <1>3 DEF RekeyEmbedded, To, Registration
    <2>2. r.id \in DOMAIN rows
      BY <1>3 DEF RekeyEmbedded, RequestOK, Rekeying
    <2>3. [rows[r.id] EXCEPT !.key = r.key, !.cert = Null] \in Row
      BY <1>0, <1>a, <2>2 DEF Row
    <2>4. rows' = [rows EXCEPT ![r.id] = [rows[r.id] EXCEPT !.key = r.key, !.cert = Null]]
      BY <1>0, <1>3, <2>2 DEF RekeyEmbedded, Row
    <2> QED BY <1>0, <1>3, <2>1, <2>2, <2>3, <2>4, RowsExcept DEF RekeyEmbedded, TypeOK, worker, budget
  <1>4. CASE RegisterWorker(r)
    <2>1. regs' \subseteq Registration
      BY <1>0, <1>4 DEF RegisterWorker, To, Registration
    <2>2. [key |-> r.key, status |-> "Pending", cert |-> Null, embedded |-> FALSE] \in Row
      BY <1>a DEF Row, Statuses
    <2>3. rows' \in Seq(Row)
      BY <1>0, <1>4, <2>2 DEF RegisterWorker
    <2> QED BY <1>4, <2>1, <2>3 DEF RegisterWorker, TypeOK, worker, budget
  <1>5. CASE ReadRow(r)
    <2>1. regs' \subseteq Registration
      <3>1. PICK i \in RowsOf(r.key) :
              To(r, [r EXCEPT !.stage = IF r.w \in Embedded /\ ~rows[i].embedded THEN "Mark" ELSE "Cert",
                              !.id = i, !.status = rows[i].status, !.cert = rows[i].cert])
        BY <1>5 DEF ReadRow
      <3>2. i \in Nat /\ rows[i].status \in Statuses /\ rows[i].cert \in Certs \cup {Null}
        BY <1>0 DEF RowsOf, Row
      <3> QED BY <1>0, <3>1, <3>2 DEF To, Registration
    <2> QED BY <1>5, <2>1 DEF ReadRow, TypeOK, server, worker, budget
  <1>6. CASE MarkEmbedded(r)
    <2>1. regs' \subseteq Registration
      BY <1>0, <1>6 DEF MarkEmbedded, To, Registration
    <2>2. \A i \in DOMAIN rows : [rows[i] EXCEPT !.embedded = (i = r.id)] \in Row
      BY <1>0 DEF Row
    <2>3. rows' \in Seq(Row)
      <3>1. DOMAIN rows = 1 .. Len(rows) /\ Len(rows) \in Nat
        BY <1>0
      <3>2. rows' \in [1 .. Len(rows) -> Row]
        BY <1>6, <2>2, <3>1 DEF MarkEmbedded
      <3> QED BY <3>1, <3>2
    <2> QED BY <1>6, <2>1, <2>3 DEF MarkEmbedded, TypeOK, worker, budget
  <1>7. CASE StoreSignedCert(r)
    <2>1. regs' \subseteq Registration
      BY <1>0, <1>7 DEF StoreSignedCert, To, Registration
    <2>2. r.id \in DOMAIN rows
      BY <1>7 DEF StoreSignedCert, RequestOK, Reading
    <2>3. [rows[r.id] EXCEPT !.cert = [key |-> r.key, ca |-> ca]] \in Row
      BY <1>0, <1>a, <2>2 DEF Row, Certs
    <2>4. \/ rows' = rows
          \/ rows' = [rows EXCEPT ![r.id] = [rows[r.id] EXCEPT !.cert = [key |-> r.key, ca |-> ca]]]
      BY <1>7, <2>2 DEF StoreSignedCert
    <2> QED BY <1>0, <1>7, <2>1, <2>2, <2>3, <2>4, RowsExcept DEF StoreSignedCert, TypeOK, worker, budget
  <1>8. CASE AutoApprove(r)
    <2>1. regs' \subseteq Registration
      BY <1>0, <1>8 DEF AutoApprove, To, Registration
    <2>2. r.id \in DOMAIN rows
      BY <1>8 DEF AutoApprove, RequestOK, Reading
    <2>3. [rows[r.id] EXCEPT !.status = "Approved"] \in Row
      BY <1>0, <2>2 DEF Row, Statuses
    <2>4. \/ rows' = rows
          \/ rows' = [rows EXCEPT ![r.id] = [rows[r.id] EXCEPT !.status = "Approved"]]
      BY <1>8, <2>2 DEF AutoApprove
    <2> QED BY <1>0, <1>8, <2>1, <2>2, <2>3, <2>4, RowsExcept DEF AutoApprove, TypeOK, worker, budget
  <1>9. CASE Answer(r)
    <2>1. \A i \in RowsOf(r.key) : rows[i].status \in Statuses /\ Released(i) \in Certs \cup {Null}
      BY <1>0 DEF RowsOf, Row, Released
    <2>2. regs' \subseteq Registration
      <3>1. PICK i \in RowsOf(r.key) :
              \/ To(r, [r EXCEPT !.stage = "Answered", !.status = rows[i].status, !.cert = Released(i)])
              \/ regs' = regs \ {r}
        BY <1>9 DEF Answer
      <3>2. [r EXCEPT !.stage = "Answered", !.status = rows[i].status, !.cert = Released(i)] \in Registration
        BY <1>0, <2>1 DEF Registration
      <3> QED BY <1>0, <3>1, <3>2 DEF To
    <2> QED BY <1>0, <1>a, <1>9, <2>2 DEF Answer, TypeOK, worker, budget
  <1> QED BY <1>1, <1>2, <1>3, <1>4, <1>5, <1>6, <1>7, <1>8, <1>9 DEF Handle

\* The types kept by everything that is not a handler of the server.
LEMMA UnansweredTypes ==
    ASSUME TypeOK, NEW w \in Workers PROVE Unanswered(w) \in Process
  BY DEF TypeOK, Unanswered, Process, Idle

LEMMA AbandonedTypes ==
    ASSUME TypeOK, NEW w \in Workers PROVE Abandoned(w) \subseteq Registration
  BY DEF TypeOK, Abandoned, Registration

LEMMA OperatorTypes ==
    ASSUME Inv, NEW i \in DOMAIN rows, ApproveWorker(i) \/ RevokeWorker(i) PROVE TypeOK'
  <1>1. rows \in Seq(Row) /\ rows[i] \in Row
    BY DEF Inv, TypeOK
  <1>2. PICK s \in Statuses : rows' = [rows EXCEPT ![i].status = s]
    BY DEF ApproveWorker, RevokeWorker, Statuses
  <1>3. [rows[i] EXCEPT !.status = s] \in Row
    BY <1>1 DEF Row
  <1>4. rows' \in Seq(Row)
    BY <1>1, <1>2, <1>3, RowsExcept
  <1> QED BY <1>4 DEF ApproveWorker, RevokeWorker, Inv, TypeOK, worker, budget

LEMMA FinishTypes ==
    ASSUME TypeOK, NEW w \in Workers, NEW c \in Certs, Finish(w, c)
    PROVE  /\ cert' \in [Workers -> Certs \cup {Null}]
           /\ pin' \in [Workers -> Nat \cup {Null}]
           /\ proc' \in [Workers -> Process]
  BY DEF TypeOK, Finish, Process

LEMMA ContinueTypes ==
    ASSUME TypeOK, NEW w \in Workers, NEW p \in Process, Continue(w, p)
    PROVE  /\ cert' \in [Workers -> Certs \cup {Null}]
           /\ pin' \in [Workers -> Nat \cup {Null}]
           /\ proc' \in [Workers -> Process]
  BY DEF TypeOK, Continue

LEMMA ReceiveTypes ==
    ASSUME Inv, NEW r \in regs, Receive(r) PROVE TypeOK'
  <1> USE DEF Inv
  <1>1. r.w \in Workers /\ r.cert \in Certs \cup {Null} /\ r.path \in {"Enrolled", "Recover", "Fresh", "Again"}
    BY DEF TypeOK, Registration
  <1>2. /\ proc[r.w] \in Process /\ pin[r.w] \in Nat \cup {Null} /\ cert[r.w] \in Certs \cup {Null}
    BY <1>1 DEF TypeOK
  <1>3. /\ [proc[r.w] EXCEPT !.at = "Running"] \in Process
        /\ [proc[r.w] EXCEPT !.at = "Polling"] \in Process
        /\ [at |-> "Running", trust |-> pin[r.w], cert |-> cert[r.w]] \in Process
        /\ Idle("Exited") \in Process
        /\ Idle("Trying") \in Process
    BY <1>2 DEF Process, Idle
  <1>4. \/ r.cert \in Certs /\ Finish(r.w, r.cert)
        \/ \E p \in Process : Continue(r.w, p)
    <2>1. CASE r.path = "Again"
      BY <2>1, <1>3 DEF Receive
    <2>2. CASE r.path # "Again" /\ r.cert # Null
      BY <2>2, <1>1 DEF Receive
    <2>3. CASE r.path = "Enrolled" /\ r.cert = Null
      BY <2>3, <1>3 DEF Receive
    <2>4. CASE r.path = "Recover" /\ r.cert = Null
      BY <2>4, <1>3 DEF Receive
    <2>5. CASE r.path = "Fresh" /\ r.cert = Null
      BY <2>5, <1>3 DEF Receive
    <2> QED BY <1>1, <2>1, <2>2, <2>3, <2>4, <2>5
  <1>5. /\ cert' \in [Workers -> Certs \cup {Null}]
        /\ pin' \in [Workers -> Nat \cup {Null}]
        /\ proc' \in [Workers -> Process]
    <2>1. CASE r.cert \in Certs /\ Finish(r.w, r.cert)
      BY <1>1, <2>1, FinishTypes
    <2>2. CASE \E p \in Process : Continue(r.w, p)
      BY <1>1, <2>2, ContinueTypes
    <2> QED BY <1>4, <2>1, <2>2
  <1> QED BY <1>5 DEF Receive, TypeOK, server, budget

LEMMA PollTypes ==
    ASSUME Inv, NEW w \in Workers, Poll(w) PROVE TypeOK'
  <1> USE DEF Inv
  <1>1. Idle("Exited") \in Process /\ Idle("Trying") \in Process /\ proc[w] \in Process
    BY DEF Process, Idle, TypeOK
  <1>2. \A i \in RowsOf(key[w]) : Released(i) \in Certs \cup {Null}
    <2>1. \A i \in DOMAIN rows : rows[i] \in Row
      BY DEF TypeOK
    <2>2. \A i \in DOMAIN rows : rows[i].cert \in Certs \cup {Null}
      BY <2>1 DEF Row
    <2> QED BY <2>2 DEF RowsOf, Released
  <1>3. \/ \E c \in Certs : Finish(w, c)
        \/ \E p \in Process : Continue(w, p)
    BY <1>1, <1>2 DEF Poll
  <1>4. /\ cert' \in [Workers -> Certs \cup {Null}]
        /\ pin' \in [Workers -> Nat \cup {Null}]
        /\ proc' \in [Workers -> Process]
    <2>1. CASE \E c \in Certs : Finish(w, c)
      BY <2>1, FinishTypes
    <2>2. CASE \E p \in Process : Continue(w, p)
      BY <2>2, ContinueTypes
    <2> QED BY <1>3, <2>1, <2>2
  <1> QED BY <1>4 DEF Poll, TypeOK, server, budget

LEMMA SendTypes ==
    ASSUME TypeOK, NEW w \in Workers, NEW path \in {"Enrolled", "Recover", "Fresh", "Again"}, Send(w, path)
    PROVE  regs' \subseteq Registration
  <1>1. key[w] \in Keys /\ regs \subseteq Registration
    BY DEF TypeOK
  <1>2. [w |-> w, key |-> key[w], path |-> path, wanted |-> TRUE, stage |-> "Arrived", id |-> 0,
         status |-> "Pending", cert |-> Null] \in Registration
    BY <1>1 DEF Registration, Statuses
  <1> QED BY <1>1, <1>2 DEF Send

LEMMA WorkerTypes ==
    ASSUME Inv, NEW w \in Workers, EnsureEnrolled(w) \/ Exchange(w) \/ StartWorker(w) PROVE TypeOK'
  <1> USE DEF Inv
  <1>1. CASE EnsureEnrolled(w)
    <2>1. Path(w) \in {"Enrolled", "Recover", "Fresh", "Again"}
      BY DEF Path
    <2>2. regs' \subseteq Registration
      BY <1>1, <2>1, SendTypes DEF EnsureEnrolled
    <2>3. [at |-> "Waiting", trust |-> ca, cert |-> Null] \in Process
      BY DEF TypeOK, Process
    <2> QED BY <1>1, <2>2, <2>3 DEF EnsureEnrolled, TypeOK, server, budget
  <1>2. CASE Exchange(w)
    <2>1. regs' \subseteq Registration
      BY <1>2, SendTypes DEF Exchange
    <2>2. proc' \in [Workers -> Process]
      BY <1>2 DEF Exchange, TypeOK, Process
    <2> QED BY <1>2, <2>1, <2>2 DEF Exchange, TypeOK, server, budget
  <1>3. CASE StartWorker(w)
    <2>1. proc' \in [Workers -> Process] /\ speaks' \subseteq Workers /\ restarts' \in Nat
      BY <1>3 DEF StartWorker, Restarting, TypeOK, Process, Idle
    <2> QED BY <1>3, <2>1, AbandonedTypes DEF StartWorker, TypeOK, server
  <1> QED BY <1>1, <1>2, <1>3

LEMMA FaultTypes ==
    ASSUME Inv,
           \/ \E r \in regs : LoseAnswer(r) \/ DieStoring(r)
           \/ RestartServer
           \/ \E w \in Embedded : RecreateContainer(w)
    PROVE  TypeOK'
  <1> USE DEF Inv
  <1>0. Idle("Down") \in Process
    BY DEF Process, Idle
  <1>1. ASSUME NEW r \in regs, LoseAnswer(r) PROVE TypeOK'
    <2>1. r \in Registration /\ r.w \in Workers
      BY DEF TypeOK, Registration
    <2>2. [r EXCEPT !.wanted = FALSE] \in Registration
      BY <2>1 DEF Registration
    <2>3. regs' \subseteq Registration
      BY <1>1, <2>2 DEF LoseAnswer, To, TypeOK
    <2>4. proc' \in [Workers -> Process]
      BY <1>1, <2>1, UnansweredTypes DEF LoseAnswer, TypeOK
    <2> QED BY <1>1, <2>3, <2>4 DEF LoseAnswer, TypeOK, server
  <1>2. ASSUME NEW r \in regs, DieStoring(r) PROVE TypeOK'
    <2>1. r.w \in Workers /\ r.cert \in Certs \cup {Null}
      BY DEF TypeOK, Registration
    <2>2. proc' \in [Workers -> Process] /\ cert' \in [Workers -> Certs \cup {Null}] /\ restarts' \in Nat
      BY <1>0, <1>2, <2>1 DEF DieStoring, TypeOK, Restarting
    <2> QED BY <1>2, <2>1, <2>2, AbandonedTypes DEF DieStoring, TypeOK, server
  <1>3. CASE RestartServer
    <2>1. proc' \in [Workers -> Process]
      BY <1>3, UnansweredTypes DEF RestartServer
    <2>2. ca' \in Nat /\ restarts' \in Nat
      BY <1>3 DEF RestartServer, Restarting, TypeOK
    <2> QED BY <1>3, <2>1, <2>2 DEF RestartServer, TypeOK
  <1>4. ASSUME NEW w \in Embedded, RecreateContainer(w) PROVE TypeOK'
    <2>0. w \in Workers
      BY EnrollmentAssumption
    <2>1. proc' \in [Workers -> Process]
      BY <1>0, <1>4, UnansweredTypes DEF RecreateContainer
    <2>a. key \in [Workers -> Keys] /\ key[w] \in Workers \X Nat
      BY <2>0 DEF TypeOK, Keys
    <2>2. <<w, key[w][2] + 1>> \in Keys
      BY <2>0, <2>a DEF Keys
    <2>3. key' \in [Workers -> Keys]
      BY <1>4, <2>a, <2>2 DEF RecreateContainer
    <2>4. cert' \in [Workers -> Certs \cup {Null}] /\ pin' \in [Workers -> Nat \cup {Null}]
      BY <1>4 DEF RecreateContainer, TypeOK
    <2>5. restarts' \in Nat
      BY <1>4 DEF RecreateContainer, TypeOK, Restarting
    <2> QED BY <1>4, <2>1, <2>3, <2>4, <2>5 DEF RecreateContainer, TypeOK
  <1> QED BY <1>1, <1>2, <1>3, <1>4

-----------------------------------------------------------------------------
(* The table and the requests over it. *)

\* A step that leaves keys, certificates, marks and the CA alone.
LEMMA SameTable ==
    ASSUME Inv, DOMAIN rows' = DOMAIN rows, ca' = ca, key' = key,
           \A i \in DOMAIN rows : /\ rows'[i].key = rows[i].key
                                  /\ rows'[i].cert = rows[i].cert
                                  /\ rows'[i].embedded = rows[i].embedded
    PROVE  /\ Table'
           /\ KeyOwners'
           /\ \A r : RequestOK(r) => RequestOK(r)'
  <1>1. Table' /\ KeyOwners'
    BY DEF Inv, Table, KeyOwners, RowKeysUnique, OneMarked, CertMatchesKey
  <1>2. ASSUME NEW r, RequestOK(r) PROVE RequestOK(r)'
    BY <1>2 DEF RequestOK, HoldsKey, Rekeying, Upserting, Reading, Issuing, Issued, Answering
  <1> QED BY <1>1, <1>2

\* Two requests of the embedded worker name one key, and a row whose key is that
\* of a request belongs to the machine that sent it.
LEMMA OneEmbeddedKey ==
    ASSUME Inv, NEW r \in regs, NEW q \in regs
    PROVE  /\ r.w \in Workers
           /\ r.key[1] = r.w
           /\ r.w \in Embedded /\ q.w \in Embedded => r.key = q.key
  <1>1. r.w \in Workers /\ q.w \in Workers
    BY DEF Inv, TypeOK, Registration
  <1>2. r.key = key[r.w] /\ q.key = key[q.w]
    BY DEF Inv, RequestOK, HoldsKey
  <1> QED BY <1>1, <1>2, EnrollmentAssumption DEF Inv, KeyOwners

LEMMA RekeyKeeps ==
    ASSUME Inv, NEW r \in regs, RekeyEmbedded(r)
    PROVE  Table' /\ KeyOwners' /\ \A q \in regs' : RequestOK(q)'
  <1> USE DEF Inv
  <1>1. /\ r.w \in Embedded /\ r.id \in DOMAIN rows /\ rows[r.id].embedded
        /\ \A i \in DOMAIN rows : rows[i].key = r.key => i = r.id
    BY DEF RekeyEmbedded, RequestOK, Rekeying
  <1>2. \A i \in DOMAIN rows : rows[i] \in Row
    BY DEF TypeOK
  <1>3. /\ DOMAIN rows' = DOMAIN rows /\ ca' = ca /\ key' = key
        /\ rows'[r.id].key = r.key /\ rows'[r.id].cert = Null /\ rows'[r.id].embedded
        /\ \A i \in DOMAIN rows : i # r.id => rows'[i] = rows[i]
    <2>1. rows'[r.id] = [rows[r.id] EXCEPT !.key = r.key, !.cert = Null]
      BY <1>1, <1>2 DEF RekeyEmbedded, TypeOK, Row
    <2>a. rows[r.id] \in Row
      BY <1>1, <1>2
    <2>2. /\ rows'[r.id].key = r.key /\ rows'[r.id].cert = Null
          /\ rows'[r.id].embedded = rows[r.id].embedded
      BY <2>a, <2>1 DEF Row
    <2>3. DOMAIN rows' = DOMAIN rows /\ \A i \in DOMAIN rows : i # r.id => rows'[i] = rows[i]
      BY <1>1 DEF RekeyEmbedded, TypeOK
    <2>4. ca' = ca /\ key' = key
      BY DEF RekeyEmbedded, worker
    <2> QED BY <1>1, <2>2, <2>3, <2>4
  <1>4. r.key[1] \in Embedded
    BY <1>1, OneEmbeddedKey
  <1>5. Table'
    BY <1>1, <1>3, <1>4 DEF Table, RowKeysUnique, OneMarked, CertMatchesKey
  <1>6. KeyOwners'
    BY <1>3 DEF KeyOwners
  <1>7. ASSUME NEW q \in regs PROVE RequestOK(q)'
    <2>1. q.w \in Embedded => q.key = r.key
      BY <1>1, OneEmbeddedKey
    <2>2. HoldsKey(q)' /\ Answering(q)'
      BY <1>3 DEF RequestOK, HoldsKey, Answering
    <2>3. Rekeying(q)'
      <3> SUFFICES ASSUME q.stage = "Rekey" PROVE Rekeying(q)'
        BY DEF Rekeying
      <3>1. q.w \in Embedded /\ q.id \in DOMAIN rows /\ rows[q.id].embedded
        BY DEF RequestOK, Rekeying
      <3>2. q.id = r.id
        BY <1>1, <3>1 DEF Table, OneMarked
      <3> QED BY <1>1, <1>3, <2>1, <3>1, <3>2 DEF Rekeying
    <2>4. Upserting(q)'
      BY <1>1, <1>3, <2>1 DEF Upserting
    <2>5. Reading(q)'
      <3> SUFFICES ASSUME q.stage \in {"Mark", "Cert", "Approve", "Answer"} PROVE Reading(q)'
        BY DEF Reading
      <3>1. q.id \in DOMAIN rows /\ rows[q.id].key = q.key /\ (q.stage = "Mark" => q.w \in Embedded)
        BY DEF RequestOK, Reading
      <3>2. q.id = r.id => q.w \in Embedded
        BY <1>1, <3>1, OneEmbeddedKey DEF Table, OneMarked
      <3> QED BY <1>3, <2>1, <3>1, <3>2 DEF Reading
    <2>6. Issuing(q)'
      <3> SUFFICES ASSUME \/ q.stage \in {"Approve", "Answer"}
                          \/ q.stage \in {"Mark", "Cert"} /\ q.cert # Null /\ q.cert.ca = ca'
                   PROVE  Issued(q.id)'
        BY DEF Issuing
      <3>1. Issued(q.id) /\ q.id \in DOMAIN rows
        BY <1>3 DEF RequestOK, Issuing, Reading
      <3> QED BY <1>3, <3>1 DEF Issued
    <2> QED BY <2>2, <2>3, <2>4, <2>5, <2>6 DEF RequestOK
  <1>8. ASSUME NEW q, q = [r EXCEPT !.stage = "Upsert"] PROVE RequestOK(q)'
    <2>1. q.stage = "Upsert" /\ q.key = r.key /\ q.w = r.w
      BY <1>8 DEF TypeOK, Registration
    <2> QED BY <1>1, <1>3, <2>1 DEF RequestOK, HoldsKey, Rekeying, Upserting, Reading, Issuing, Answering
  <1> QED BY <1>5, <1>6, <1>7, <1>8 DEF RekeyEmbedded, To

LEMMA RegisterKeeps ==
    ASSUME Inv, NEW r \in regs, RegisterWorker(r)
    PROVE  Table' /\ KeyOwners' /\ \A q \in regs' : RequestOK(q)'
  <1> USE DEF Inv
  <1>0. ca' = ca /\ key' = key
    BY DEF RegisterWorker, worker
  <1>1. /\ Table' /\ KeyOwners' /\ \A q \in regs : RequestOK(q)'
    <2>1. CASE rows' = rows
      BY <1>0, <2>1, SameTable
    <2>2. CASE RowsOf(r.key) = {}
      <3> DEFINE n == Len(rows) + 1
                 new == [key |-> r.key, status |-> "Pending", cert |-> Null, embedded |-> FALSE]
      <3>1. rows \in Seq(Row) /\ rows' = Append(rows, new)
        BY <2>2 DEF RegisterWorker, TypeOK
      <3>2. /\ DOMAIN rows = 1 .. Len(rows) /\ Len(rows) \in Nat
            /\ DOMAIN rows' = DOMAIN rows \cup {n} /\ n \notin DOMAIN rows
            /\ rows'[n] = new
            /\ \A i \in DOMAIN rows : rows'[i] = rows[i]
        BY <3>1
      <3>3. new.key = r.key /\ new.cert = Null /\ ~new.embedded
        OBVIOUS
      <3>4. \A i \in DOMAIN rows : rows[i].key # r.key
        BY <2>2 DEF RowsOf
      <3>5. r.w \in Embedded => \A i \in DOMAIN rows : ~rows[i].embedded
        BY <3>4 DEF RegisterWorker, RequestOK, Upserting
      <3> HIDE DEF n, new
      <3>6. Table'
        BY <3>2, <3>3, <3>4 DEF Table, RowKeysUnique, OneMarked, CertMatchesKey
      <3>7. KeyOwners'
        BY <1>0 DEF KeyOwners
      <3>8. ASSUME NEW q \in regs PROVE RequestOK(q)'
        <4>1. RequestOK(q)
          OBVIOUS
        <4>2. HoldsKey(q)' /\ Answering(q)'
          BY <1>0, <4>1 DEF RequestOK, HoldsKey, Answering
        <4>3. Rekeying(q)'
          <5> SUFFICES ASSUME q.stage = "Rekey" PROVE Rekeying(q)'
            BY DEF Rekeying
          <5>1. /\ q.w \in Embedded /\ q.id \in DOMAIN rows /\ rows[q.id].embedded
                /\ \A i \in DOMAIN rows : rows[i].key = q.key => i = q.id
            BY <4>1 DEF RequestOK, Rekeying
          <5>2. q.key # r.key
            BY <3>5, <5>1, OneEmbeddedKey
          <5> QED BY <3>2, <3>3, <5>1, <5>2 DEF Rekeying
        <4>4. Upserting(q)'
          BY <3>2, <3>3, <4>1 DEF RequestOK, Upserting
        <4>5. Reading(q)'
          BY <3>2, <4>1 DEF RequestOK, Reading
        <4>6. Issuing(q)'
          BY <1>0, <3>2, <4>1 DEF RequestOK, Reading, Issuing, Issued
        <4> QED BY <4>2, <4>3, <4>4, <4>5, <4>6 DEF RequestOK
      <3> QED BY <3>6, <3>7, <3>8
    <2> QED BY <2>1, <2>2 DEF RegisterWorker
  <1>2. ASSUME NEW q, q = [r EXCEPT !.stage = "Read"] PROVE RequestOK(q)'
    <2>1. q.stage = "Read" /\ q.key = r.key /\ q.w = r.w
      BY <1>2 DEF TypeOK, Registration
    <2> QED BY <1>0, <2>1 DEF RequestOK, HoldsKey, Rekeying, Upserting, Reading, Issuing, Answering
  <1> QED BY <1>1, <1>2 DEF RegisterWorker, To

LEMMA MarkKeeps ==
    ASSUME Inv, NEW r \in regs, MarkEmbedded(r)
    PROVE  Table' /\ KeyOwners' /\ \A q \in regs' : RequestOK(q)'
  <1> USE DEF Inv
  <1>1. r.w \in Embedded /\ r.id \in DOMAIN rows /\ rows[r.id].key = r.key /\ r.key[1] \in Embedded
    BY OneEmbeddedKey DEF MarkEmbedded, RequestOK, Reading
  <1>2. \A i \in DOMAIN rows : rows[i] \in Row
    BY DEF TypeOK
  <1>3. /\ DOMAIN rows' = DOMAIN rows /\ ca' = ca /\ key' = key
        /\ \A i \in DOMAIN rows : /\ rows'[i].key = rows[i].key
                                  /\ rows'[i].cert = rows[i].cert
                                  /\ rows'[i].embedded <=> (i = r.id)
    <2>1. \A i \in DOMAIN rows : rows'[i] = [rows[i] EXCEPT !.embedded = (i = r.id)]
      BY DEF MarkEmbedded
    <2>2. \A i \in DOMAIN rows : rows'[i].key = rows[i].key /\ rows'[i].cert = rows[i].cert
      BY <1>2, <2>1 DEF Row
    <2>3. \A i \in DOMAIN rows : rows'[i].embedded <=> (i = r.id)
      BY <1>2, <2>1 DEF Row
    <2> QED BY <2>2, <2>3 DEF MarkEmbedded, worker
  <1>4. Table' /\ KeyOwners'
    BY <1>1, <1>3 DEF Table, RowKeysUnique, OneMarked, CertMatchesKey, KeyOwners
  <1>5. ASSUME NEW q \in regs PROVE RequestOK(q)'
    <2>1. RequestOK(q) /\ (q.w \in Embedded => q.key = r.key)
      BY <1>1, OneEmbeddedKey
    <2>2. HoldsKey(q)' /\ Answering(q)' /\ Upserting(q)'
      BY <1>1, <1>3, <2>1 DEF RequestOK, HoldsKey, Answering, Upserting
    <2>3. Rekeying(q)'
      BY <1>1, <1>3, <2>1 DEF RequestOK, Rekeying
    <2>4. Reading(q)' /\ Issuing(q)'
      BY <1>3, <2>1 DEF RequestOK, Reading, Issuing, Issued
    <2> QED BY <2>2, <2>3, <2>4 DEF RequestOK
  <1>6. ASSUME NEW q, q = [r EXCEPT !.stage = "Cert"] PROVE RequestOK(q)'
    <2>1. q.stage = "Cert" /\ q.key = r.key /\ q.w = r.w /\ q.id = r.id /\ q.cert = r.cert
      BY <1>6 DEF TypeOK, Registration
    <2>2. HoldsKey(q)' /\ Reading(q)'
      BY <1>1, <1>3, <2>1 DEF RequestOK, HoldsKey, Reading
    <2>3. Rekeying(q)' /\ Upserting(q)' /\ Answering(q)'
      BY <2>1 DEF Rekeying, Upserting, Answering
    <2>4. Issuing(q)'
      BY <1>1, <1>3, <2>1 DEF MarkEmbedded, RequestOK, Issuing, Issued
    <2> QED BY <2>2, <2>3, <2>4 DEF RequestOK
  <1> QED BY <1>4, <1>5, <1>6 DEF MarkEmbedded, To

LEMMA StoreKeeps ==
    ASSUME Inv, NEW r \in regs, StoreSignedCert(r)
    PROVE  Table' /\ KeyOwners' /\ \A q \in regs' : RequestOK(q)'
  <1> USE DEF Inv
  <1>1. r.id \in DOMAIN rows /\ rows[r.id].key = r.key /\ r.stage = "Cert"
    BY DEF StoreSignedCert, RequestOK, Reading
  <1>2. /\ DOMAIN rows' = DOMAIN rows /\ ca' = ca /\ key' = key
        /\ \A i \in DOMAIN rows : rows'[i].key = rows[i].key /\ rows'[i].embedded = rows[i].embedded
        /\ \A i \in DOMAIN rows : i # r.id => rows'[i].cert = rows[i].cert
        /\ IF NeedsCert(r) THEN rows'[r.id].cert = [key |-> r.key, ca |-> ca]
                           ELSE rows'[r.id].cert = rows[r.id].cert
    <2>0. ca' = ca /\ key' = key
      BY DEF StoreSignedCert, worker
    <2>1. CASE ~NeedsCert(r)
      BY <2>0, <2>1 DEF StoreSignedCert
    <2>2. CASE NeedsCert(r)
      <3>1. \A i \in DOMAIN rows : rows[i] \in Row
        BY DEF TypeOK
      <3>2. rows'[r.id] = [rows[r.id] EXCEPT !.cert = [key |-> r.key, ca |-> ca]]
        BY <1>1, <2>2 DEF StoreSignedCert, TypeOK
      <3>3. DOMAIN rows' = DOMAIN rows /\ \A i \in DOMAIN rows : i # r.id => rows'[i] = rows[i]
        BY <1>1, <2>2 DEF StoreSignedCert, TypeOK
      <3>4. /\ rows'[r.id].cert = [key |-> r.key, ca |-> ca]
            /\ rows'[r.id].key = rows[r.id].key /\ rows'[r.id].embedded = rows[r.id].embedded
        BY <1>1, <3>1, <3>2 DEF Row
      <3> QED BY <2>0, <2>2, <3>3, <3>4
    <2> QED BY <2>1, <2>2
  <1>3. Table' /\ KeyOwners'
    BY <1>1, <1>2 DEF Table, RowKeysUnique, OneMarked, CertMatchesKey, KeyOwners
  <1>4. Issued(r.id)'
    <2>1. CASE NeedsCert(r)
      BY <1>2, <2>1 DEF Issued
    <2>2. CASE ~NeedsCert(r)
      BY <1>1, <1>2, <2>2 DEF NeedsCert, RequestOK, Issuing, Issued
    <2> QED BY <2>1, <2>2
  <1>5. ASSUME NEW q \in regs PROVE RequestOK(q)'
    <2>1. RequestOK(q)
      OBVIOUS
    <2>2. HoldsKey(q)' /\ Answering(q)' /\ Upserting(q)' /\ Rekeying(q)' /\ Reading(q)'
      BY <1>2, <2>1 DEF RequestOK, HoldsKey, Answering, Upserting, Rekeying, Reading
    <2>3. Issuing(q)'
      <3> SUFFICES ASSUME \/ q.stage \in {"Approve", "Answer"}
                          \/ q.stage \in {"Mark", "Cert"} /\ q.cert # Null /\ q.cert.ca = ca'
                   PROVE  Issued(q.id)'
        BY DEF Issuing
      <3>1. Issued(q.id) /\ q.id \in DOMAIN rows
        BY <1>2, <2>1 DEF RequestOK, Issuing, Reading
      <3> QED BY <1>2, <1>4, <3>1 DEF Issued
    <2> QED BY <2>2, <2>3 DEF RequestOK
  <1>6. ASSUME NEW q, q = [r EXCEPT !.stage = "Approve"] PROVE RequestOK(q)'
    <2>1. q.stage = "Approve" /\ q.key = r.key /\ q.w = r.w /\ q.id = r.id
      BY <1>6 DEF TypeOK, Registration
    <2> QED BY <1>1, <1>2, <1>4, <2>1 DEF RequestOK, HoldsKey, Rekeying, Upserting, Reading, Issuing, Answering
  <1> QED BY <1>3, <1>5, <1>6 DEF StoreSignedCert, To

\* An approval or a revocation.
LEMMA StatusOnly ==
    ASSUME Inv, NEW i \in DOMAIN rows, NEW s, rows' = [rows EXCEPT ![i].status = s], ca' = ca, key' = key
    PROVE  /\ Table'
           /\ KeyOwners'
           /\ \A r : RequestOK(r) => RequestOK(r)'
  <1>1. rows \in Seq(Row) /\ \A j \in DOMAIN rows : rows[j] \in Row
    BY DEF Inv, TypeOK
  <1>2. rows'[i] = [rows[i] EXCEPT !.status = s]
    BY <1>1
  <1>3. /\ rows'[i].key = rows[i].key /\ rows'[i].cert = rows[i].cert
        /\ rows'[i].embedded = rows[i].embedded
    BY <1>1, <1>2 DEF Row
  <1>4. DOMAIN rows' = DOMAIN rows /\ \A j \in DOMAIN rows : j # i => rows'[j] = rows[j]
    BY <1>1
  <1>5. \A j \in DOMAIN rows : /\ rows'[j].key = rows[j].key
                               /\ rows'[j].cert = rows[j].cert
                               /\ rows'[j].embedded = rows[j].embedded
    BY <1>3, <1>4
  <1> QED BY <1>4, <1>5, SameTable

\* Handlers that touch no key, mark or certificate: refuse, look, approve, answer.
LEMMA ReadersKeep ==
    ASSUME Inv, NEW r \in regs, Refuse(r) \/ FindEmbedded(r) \/ ReadRow(r) \/ AutoApprove(r) \/ Answer(r)
    PROVE  Table' /\ KeyOwners' /\ \A q \in regs' : RequestOK(q)'
  <1> USE DEF Inv
  <1>0. ca' = ca /\ key' = key
    BY DEF Refuse, FindEmbedded, ReadRow, AutoApprove, Answer, server, worker
  <1>1. Table' /\ KeyOwners' /\ \A q \in regs : RequestOK(q)'
    <2>1. CASE rows' = rows
      BY <1>0, <2>1, SameTable
    <2>2. CASE AutoApprove(r)
      <3>1. r.id \in DOMAIN rows
        BY <2>2 DEF AutoApprove, RequestOK, Reading
      <3>2. rows' = rows \/ rows' = [rows EXCEPT ![r.id].status = "Approved"]
        BY <2>2 DEF AutoApprove
      <3> QED BY <1>0, <2>1, <3>1, <3>2, StatusOnly
    <2> QED BY <2>1, <2>2 DEF Refuse, FindEmbedded, ReadRow, Answer, server
  <1>2. CASE Refuse(r)
    BY <1>1, <1>2 DEF Refuse
  <1>3. CASE FindEmbedded(r)
    <2>0. rows' = rows
      BY <1>3 DEF FindEmbedded, server
    <2>1. ASSUME NEW i \in DOMAIN rows, rows[i].embedded, r.w \in Embedded, RowsOf(r.key) = {},
                 NEW q, q = [r EXCEPT !.stage = "Rekey", !.id = i]
          PROVE  RequestOK(q)'
      <3>1. q.stage = "Rekey" /\ q.key = r.key /\ q.w = r.w /\ q.id = i
        BY <2>1 DEF TypeOK, Registration
      <3>2. \A j \in DOMAIN rows : rows[j].key # r.key
        BY <2>1 DEF RowsOf
      <3>3. rows[i].embedded /\ r.w \in Embedded
        BY <2>1
      <3>4. HoldsKey(q)' /\ Rekeying(q)'
        BY <1>0, <2>0, <3>1, <3>2, <3>3 DEF RequestOK, HoldsKey, Rekeying
      <3>5. Upserting(q)' /\ Reading(q)' /\ Issuing(q)' /\ Answering(q)'
        BY <3>1 DEF Upserting, Reading, Issuing, Answering
      <3> QED BY <3>4, <3>5 DEF RequestOK
    <2>2. ASSUME NEW q, q = [r EXCEPT !.stage = "Upsert"],
                 \/ r.w \notin Embedded
                 \/ RowsOf(r.key) # {}
                 \/ \A i \in DOMAIN rows : ~rows[i].embedded
          PROVE  RequestOK(q)'
      <3>1. q.stage = "Upsert" /\ q.key = r.key /\ q.w = r.w
        BY <2>2 DEF TypeOK, Registration
      <3>2. r.w \notin Embedded \/ RowsOf(r.key) # {} \/ \A i \in DOMAIN rows : ~rows[i].embedded
        BY <2>2
      <3>3. Upserting(q)'
        BY <2>0, <3>1, <3>2 DEF Upserting, RowsOf
      <3>4. HoldsKey(q)' /\ Rekeying(q)' /\ Reading(q)' /\ Issuing(q)' /\ Answering(q)'
        BY <1>0, <3>1 DEF RequestOK, HoldsKey, Rekeying, Reading, Issuing, Answering
      <3> QED BY <3>3, <3>4 DEF RequestOK
    <2> QED BY <1>1, <1>3, <2>1, <2>2 DEF FindEmbedded, To
  <1>4. CASE ReadRow(r)
    <2>0. rows' = rows
      BY <1>4 DEF ReadRow, server
    <2>1. PICK i \in RowsOf(r.key) :
            To(r, [r EXCEPT !.stage = IF r.w \in Embedded /\ ~rows[i].embedded THEN "Mark" ELSE "Cert",
                            !.id = i, !.status = rows[i].status, !.cert = rows[i].cert])
      BY <1>4 DEF ReadRow
    <2>2. ASSUME NEW q,
                 q = [r EXCEPT !.stage = IF r.w \in Embedded /\ ~rows[i].embedded THEN "Mark" ELSE "Cert",
                               !.id = i, !.status = rows[i].status, !.cert = rows[i].cert]
          PROVE  RequestOK(q)'
      <3>1. /\ q.key = r.key /\ q.w = r.w /\ q.id = i /\ q.cert = rows[i].cert
            /\ q.stage \in {"Mark", "Cert"} /\ (q.stage = "Mark" => r.w \in Embedded)
        BY <2>2 DEF TypeOK, Registration
      <3>2. i \in DOMAIN rows /\ rows[i].key = r.key
        BY DEF RowsOf
      <3> QED BY <1>0, <2>0, <3>1, <3>2
              DEF RequestOK, HoldsKey, Rekeying, Upserting, Reading, Issuing, Issued, Answering
    <2> QED BY <1>1, <2>1, <2>2 DEF To
  <1>5. CASE AutoApprove(r)
    <2>1. RequestOK(r)' /\ r.stage = "Approve"
      BY <1>1, <1>5 DEF AutoApprove
    <2>2. ASSUME NEW q, q = [r EXCEPT !.stage = "Answer"] PROVE RequestOK(q)'
      <3>1. q.stage = "Answer" /\ q.key = r.key /\ q.w = r.w /\ q.id = r.id
        BY <2>2 DEF TypeOK, Registration
      <3> QED BY <2>1, <3>1 DEF RequestOK, HoldsKey, Rekeying, Upserting, Reading, Issuing, Answering
    <2> QED BY <1>1, <1>5, <2>2 DEF AutoApprove, To
  <1>6. CASE Answer(r)
    <2>1. PICK i \in RowsOf(r.key) :
            \/ To(r, [r EXCEPT !.stage = "Answered", !.status = rows[i].status, !.cert = Released(i)])
            \/ regs' = regs \ {r}
      BY <1>6 DEF Answer
    <2>2. i \in DOMAIN rows /\ rows[i].key = r.key /\ i = r.id /\ Issued(i)
      BY <1>6 DEF Answer, RowsOf, RequestOK, Reading, Issuing, Table, RowKeysUnique
    <2>3. Released(i) # Null => Released(i) = [key |-> r.key, ca |-> ca]
      <3> SUFFICES ASSUME Released(i) # Null PROVE Released(i) = [key |-> r.key, ca |-> ca]
        OBVIOUS
      <3>1. Released(i) = rows[i].cert /\ rows[i].cert # Null
        BY DEF Released
      <3>2. rows[i].cert \in Certs
        <4>1. rows[i] \in Row
          BY <2>2 DEF TypeOK
        <4> QED BY <3>1, <4>1 DEF Row
      <3>3. rows[i].cert.key = r.key /\ rows[i].cert.ca = ca
        BY <2>2, <3>1 DEF Table, CertMatchesKey, Issued
      <3> QED BY <3>1, <3>2, <3>3 DEF Certs
    <2>4. ASSUME NEW q, q = [r EXCEPT !.stage = "Answered", !.status = rows[i].status, !.cert = Released(i)]
          PROVE  RequestOK(q)'
      <3>1. q.stage = "Answered" /\ q.key = r.key /\ q.w = r.w /\ q.cert = Released(i)
        BY <2>4 DEF TypeOK, Registration
      <3> QED BY <1>0, <2>3, <3>1 DEF RequestOK, HoldsKey, Rekeying, Upserting, Reading, Issuing, Answering
    <2> QED BY <1>1, <2>1, <2>4 DEF To
  <1> QED BY <1>2, <1>3, <1>4, <1>5, <1>6

\* A worker sends a registration.
LEMMA SendKeeps ==
    ASSUME Inv, NEW w \in Workers, NEW path, Send(w, path), UNCHANGED <<rows, ca, key>>
    PROVE  Table' /\ KeyOwners' /\ \A q \in regs' : RequestOK(q)'
  <1>1. Table' /\ KeyOwners' /\ \A q \in regs : RequestOK(q)'
    BY SameTable DEF Inv
  <1>2. ASSUME NEW q, q = [w |-> w, key |-> key[w], path |-> path, wanted |-> TRUE, stage |-> "Arrived",
                           id |-> 0, status |-> "Pending", cert |-> Null]
        PROVE  RequestOK(q)'
    <2>1. q.stage = "Arrived" /\ q.key = key[w] /\ q.w = w
      BY <1>2
    <2> QED BY <2>1 DEF RequestOK, HoldsKey, Rekeying, Upserting, Reading, Issuing, Answering
  <1> QED BY <1>1, <1>2 DEF Send

\* Nobody waits for some requests any more, and some answers are gone.
LEMMA AbandonKeeps ==
    ASSUME Inv, UNCHANGED <<rows, ca, key>>,
           \A q \in regs' : \E r \in regs : q = r \/ q = [r EXCEPT !.wanted = FALSE]
    PROVE  Table' /\ KeyOwners' /\ \A q \in regs' : RequestOK(q)'
  <1>1. Table' /\ KeyOwners' /\ \A q \in regs : RequestOK(q)'
    BY SameTable DEF Inv
  <1>2. ASSUME NEW q \in regs' PROVE RequestOK(q)'
    <2>1. PICK r \in regs : q = r \/ q = [r EXCEPT !.wanted = FALSE]
      OBVIOUS
    <2>2. r \in Registration
      BY DEF Inv, TypeOK
    <2>3. q.w = r.w /\ q.key = r.key /\ q.stage = r.stage /\ q.id = r.id /\ q.cert = r.cert
      BY <2>1, <2>2 DEF Registration
    <2>4. RequestOK(r)'
      BY <1>1
    <2> QED BY <2>3, <2>4 DEF RequestOK, HoldsKey, Rekeying, Upserting, Reading, Issuing, Issued, Answering
  <1> QED BY <1>1, <1>2

\* The server or the whole container starts again: no request is left.
LEMMA RestartKeeps ==
    ASSUME Inv, RestartServer \/ \E w \in Embedded : RecreateContainer(w)
    PROVE  Table' /\ KeyOwners' /\ \A q \in regs' : RequestOK(q)'
  <1>1. rows' = rows /\ regs' = {}
    BY DEF RestartServer, RecreateContainer
  <1>2. Table'
    BY <1>1 DEF Inv, Table, RowKeysUnique, OneMarked, CertMatchesKey
  <1>3. KeyOwners'
    <2>1. CASE RestartServer
      BY <2>1 DEF RestartServer, Inv, KeyOwners
    <2>2. ASSUME NEW w \in Embedded, RecreateContainer(w) PROVE KeyOwners'
      <3>1. key' = [key EXCEPT ![w] = <<w, key[w][2] + 1>>]
        BY <2>2 DEF RecreateContainer
      <3>2. ASSUME NEW v \in Workers PROVE key'[v][1] = v
        BY <3>1 DEF Inv, TypeOK, KeyOwners
      <3> QED BY <3>2 DEF KeyOwners
    <2> QED BY <2>1, <2>2
  <1> QED BY <1>1, <1>2, <1>3

LEMMA NextInv == Inv /\ [Next]_vars => Inv'
  <1> SUFFICES ASSUME Inv, [Next]_vars PROVE Inv'
    OBVIOUS
  <1> DEFINE Kept == Table' /\ KeyOwners' /\ \A q \in regs' : RequestOK(q)'
  <1>1. ASSUME NEW r \in regs, Handle(r) PROVE TypeOK' /\ Kept
    <2>1. Kept
      BY <1>1, RekeyKeeps, RegisterKeeps, MarkKeeps, StoreKeeps, ReadersKeep DEF Handle
    <2> QED BY <1>1, <2>1, HandleTypes
  <1>2. ASSUME NEW r \in regs, Receive(r) PROVE TypeOK' /\ Kept
    <2>1. UNCHANGED <<rows, ca, key>> /\ regs' \subseteq regs
      BY <1>2 DEF Receive, server
    <2> QED BY <1>2, <2>1, ReceiveTypes, AbandonKeeps
  <1>3. ASSUME NEW r \in regs, LoseAnswer(r) PROVE TypeOK' /\ Kept
    <2>1. UNCHANGED <<rows, ca, key>>
      BY <1>3 DEF LoseAnswer, server
    <2>2. \A q \in regs' : \E p \in regs : q = p \/ q = [p EXCEPT !.wanted = FALSE]
      BY <1>3 DEF LoseAnswer, To
    <2>3. Kept
      BY <2>1, <2>2, AbandonKeeps
    <2> QED BY <1>3, <2>3, FaultTypes
  <1>4. ASSUME NEW r \in regs, DieStoring(r) PROVE TypeOK' /\ Kept
    <2>1. UNCHANGED <<rows, ca, key>>
      BY <1>4 DEF DieStoring, server
    <2>2. \A q \in regs' : \E p \in regs : q = p \/ q = [p EXCEPT !.wanted = FALSE]
      BY <1>4 DEF DieStoring, Abandoned
    <2>3. Kept
      BY <2>1, <2>2, AbandonKeeps
    <2> QED BY <1>4, <2>3, FaultTypes
  <1>5. ASSUME NEW i \in DOMAIN rows, ApproveWorker(i) \/ RevokeWorker(i) PROVE TypeOK' /\ Kept
    <2>1. /\ ca' = ca /\ key' = key /\ regs' = regs
          /\ \E s \in Statuses : rows' = [rows EXCEPT ![i].status = s]
      BY <1>5 DEF ApproveWorker, RevokeWorker, worker, Statuses
    <2>2. /\ Table' /\ KeyOwners' /\ \A r : RequestOK(r) => RequestOK(r)'
      BY <2>1, StatusOnly
    <2> QED BY <1>5, <2>1, <2>2, OperatorTypes DEF Inv
  <1>6. ASSUME NEW w \in Workers, EnsureEnrolled(w) PROVE TypeOK' /\ Kept
    <2>1. UNCHANGED <<rows, ca, key>> /\ Send(w, Path(w))
      BY <1>6 DEF EnsureEnrolled, server
    <2> QED BY <1>6, <2>1, SendKeeps, WorkerTypes
  <1>7. ASSUME NEW w \in Workers, Exchange(w) PROVE TypeOK' /\ Kept
    <2>1. UNCHANGED <<rows, ca, key>> /\ Send(w, "Again")
      BY <1>7 DEF Exchange, server
    <2> QED BY <1>7, <2>1, SendKeeps, WorkerTypes
  <1>8. ASSUME NEW w \in Workers, Poll(w) PROVE TypeOK' /\ Kept
    <2>1. UNCHANGED <<rows, ca, key>> /\ regs' \subseteq regs
      BY <1>8 DEF Poll, server
    <2> QED BY <1>8, <2>1, PollTypes, AbandonKeeps
  <1>9. ASSUME NEW w \in Workers, StartWorker(w) PROVE TypeOK' /\ Kept
    <2>1. UNCHANGED <<rows, ca, key>>
      BY <1>9 DEF StartWorker, server
    <2>2. \A q \in regs' : \E p \in regs : q = p \/ q = [p EXCEPT !.wanted = FALSE]
      BY <1>9 DEF StartWorker, Abandoned
    <2>3. Kept
      BY <2>1, <2>2, AbandonKeeps
    <2> QED BY <1>9, <2>3, WorkerTypes
  <1>10. ASSUME RestartServer \/ \E w \in Embedded : RecreateContainer(w) PROVE TypeOK' /\ Kept
    BY <1>10, RestartKeeps, FaultTypes
  <1>11. CASE UNCHANGED vars
    <2>1. UNCHANGED <<rows, ca, key>> /\ regs' = regs
      BY <1>11 DEF vars, server, worker
    <2>2. TypeOK'
      BY <1>11 DEF Inv, TypeOK, vars, server, worker, budget
    <2>3. Kept
      BY <2>1, AbandonKeeps
    <2> QED BY <2>2, <2>3 DEF Inv
  <1>12. CASE Next
    <2>1. TypeOK' /\ Kept
      <3> HIDE DEF Kept
      <3> QED BY <1>1, <1>2, <1>3, <1>4, <1>5, <1>6, <1>7, <1>8, <1>9, <1>10, <1>12 DEF Next
    <2> QED BY <2>1 DEF Inv
  <1> QED BY <1>11, <1>12

-----------------------------------------------------------------------------
(* Theorems. *)

LEMMA InvHolds == Spec => []Inv
  BY InitInv, NextInv, PTL DEF Spec

\* Type correctness.  RekeyEmbedded and the writes by id stay inside the table
\* only because what a request read is still there: types need the whole invariant.
THEOREM EnrollmentTypes == Spec => []TypeOK
  <1>1. Inv => TypeOK
    BY DEF Inv
  <1> QED BY <1>1, InvHolds, PTL

\* For any number of machines, registrations in flight, restarts and CAs: the
\* certificate of a row (store_signed_cert, by id) is for the key the row holds
\* (rekey_embedded, by id), however the two interleave.
THEOREM CertificatesMatch == Spec => []CertMatchesKey
  <1>1. Inv => CertMatchesKey
    BY DEF Inv, Table
  <1> QED BY <1>1, InvHolds, PTL

\* A certificate register hands out is for the key that asked and signed by the CA
\* the server has.
THEOREM AnswersHold == Spec => []AnswersHoldTogether
  <1>1. Inv => AnswersHoldTogether
    BY DEF Inv, RequestOK, Answering, AnswersHoldTogether
  <1> QED BY <1>1, InvHolds, PTL

\* register_worker never gives the embedded worker a second row once one is marked:
\* rekey_embedded and register_worker are two statements, and any number of its
\* registrations interleave.
THEOREM EmbeddedRowKept == Spec => EmbeddedKeepsItsRow
  <1> DEFINE Kept == (\E i \in DOMAIN rows : rows[i].embedded)
                       => \A i \in DOMAIN rows' \ DOMAIN rows : rows'[i].key[1] \notin Embedded
  <1>1. Inv /\ [Next]_vars => [Kept]_vars
    <2> SUFFICES ASSUME Inv, Next PROVE Kept
      BY DEF vars
    <2>1. ASSUME NEW r \in regs, RegisterWorker(r) PROVE Kept
      <3> SUFFICES ASSUME RowsOf(r.key) = {}, NEW m \in DOMAIN rows, rows[m].embedded,
                          NEW i \in DOMAIN rows', i \notin DOMAIN rows
                   PROVE  rows'[i].key[1] \notin Embedded
        BY <2>1 DEF RegisterWorker
      <3>1. r.w \notin Embedded
        BY <2>1 DEF Inv, RequestOK, Upserting, RowsOf, RegisterWorker
      <3>2. rows \in Seq(Row)
            /\ rows' = Append(rows, [key |-> r.key, status |-> "Pending", cert |-> Null, embedded |-> FALSE])
        BY <2>1 DEF RegisterWorker, Inv, TypeOK
      <3>3. rows'[i] = [key |-> r.key, status |-> "Pending", cert |-> Null, embedded |-> FALSE]
        BY <3>2
      <3> QED BY <3>1, <3>3, OneEmbeddedKey
    <2>2. ASSUME NEW r \in regs, RekeyEmbedded(r) \/ MarkEmbedded(r) \/ StoreSignedCert(r) \/ AutoApprove(r)
          PROVE  DOMAIN rows' = DOMAIN rows
      BY <2>2 DEF RekeyEmbedded, MarkEmbedded, StoreSignedCert, AutoApprove, Inv, TypeOK
    <2>3. ASSUME NEW i \in DOMAIN rows, ApproveWorker(i) \/ RevokeWorker(i)
          PROVE  DOMAIN rows' = DOMAIN rows
      BY <2>3 DEF ApproveWorker, RevokeWorker, Inv, TypeOK
    <2>4. ASSUME NEW r \in regs, Refuse(r) \/ FindEmbedded(r) \/ ReadRow(r) \/ Answer(r)
                                 \/ Receive(r) \/ LoseAnswer(r) \/ DieStoring(r)
          PROVE  rows' = rows
      BY <2>4 DEF Refuse, FindEmbedded, ReadRow, Answer, Receive, LoseAnswer, DieStoring, server
    <2>5. ASSUME NEW w \in Workers, EnsureEnrolled(w) \/ Poll(w) \/ Exchange(w) \/ StartWorker(w)
          PROVE  rows' = rows
      BY <2>5 DEF EnsureEnrolled, Poll, Exchange, StartWorker, server
    <2>6. ASSUME RestartServer \/ \E w \in Embedded : RecreateContainer(w)
          PROVE  rows' = rows
      BY <2>6 DEF RestartServer, RecreateContainer
    <2>7. DOMAIN rows' = DOMAIN rows => Kept
      OBVIOUS
    <2> HIDE DEF Kept
    <2> QED BY <2>1, <2>2, <2>3, <2>4, <2>5, <2>6, <2>7 DEF Next, Handle
  <1> QED BY <1>1, InvHolds, PTL DEF Spec, EmbeddedKeepsItsRow

=============================================================================
