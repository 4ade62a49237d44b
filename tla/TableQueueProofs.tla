-------------------------- MODULE TableQueueProofs --------------------------
(***************************************************************************)
(* Theorems of TableQueue, for every number of requests, entries and       *)
(* retries and every pattern of hang-ups and deaths: types and the log, by *)
(* LogInv; then that it implements QueueLog, that its catch-ups have no    *)
(* hole, and what an answered mutation can be sure of.                     *)
(***************************************************************************)
EXTENDS TableQueueInv, FiniteSetTheorems, SequenceTheorems, TLAPS

(***************************************************************************)
(* Requests: the locals of the retry loops keep their types.               *)
(***************************************************************************)
LoopTyped ==
  /\ pc \in [Requests -> PC] /\ seen \in [Requests -> Counter]
  /\ next \in [Requests -> Int] /\ tries \in [Requests -> Nat]

LEMMA HoldType ==
  ASSUME TypeOK, NEW r \in Requests, NEW p \in PC, NEW s \in Counter,
         NEW n \in Int, NEW t \in Nat, Hold(r, p, s, n, t)
  PROVE  LoopTyped'
BY DEF TypeOK, Hold, LoopTyped

LEMMA GoType ==
  ASSUME TypeOK, NEW r \in Requests, NEW p \in PC, Go(r, p)
  PROVE  LoopTyped'
BY DEF TypeOK, Hold, Go, Zero, Counter, LoopTyped

LEMMA RetryType ==
  ASSUME TypeOK, NEW r \in Requests, NEW p \in PC, NEW n \in Int, Retry(r, p, n)
  PROVE  LoopTyped'
<1>1. "failed" \in PC BY DEF PC
<1>2. tries[r] \in Nat /\ tries[r] + 1 \in Nat BY DEF TypeOK
<1> QED BY <1>1, <1>2, GoType, HoldType DEF Retry, Zero, Counter

(* Where they lead: r to p, the others nowhere; Retry to p or to the end. *)
LoopsKept(r) ==
  \A q \in Requests \ {r} : pc'[q] = pc[q] /\ seen'[q] = seen[q] /\ next'[q] = next[q]

LEMMA HoldGoes ==
  ASSUME TypeOK, NEW r \in Requests, NEW p, NEW s, NEW n, NEW t, Hold(r, p, s, n, t)
  PROVE  LoopsKept(r) /\ pc'[r] = p /\ seen'[r] = s /\ next'[r] = n
BY DEF Hold, TypeOK, LoopsKept

LEMMA GoGoes ==
  ASSUME TypeOK, NEW r \in Requests, NEW p, Go(r, p)
  PROVE  LoopsKept(r) /\ pc'[r] = p
BY DEF Go, Hold, TypeOK, LoopsKept

LEMMA RetryGoes ==
  ASSUME TypeOK, NEW r \in Requests, NEW p, NEW n, Retry(r, p, n)
  PROVE  /\ LoopsKept(r)
         /\ (pc'[r] = p /\ next'[r] = n) \/ pc'[r] = "failed"
BY DEF Retry, Hold, Go, TypeOK, LoopsKept

(***************************************************************************)
(* The log: the numbers in use are 1 .. m for some m, and stay so when     *)
(* m + 1 is claimed.                                                       *)
(***************************************************************************)
LEMMA LogShape ==
  ASSUME LogFinite, LogGapFree
  PROVE  \E m \in Nat : DOMAIN log = 1 .. m
BY FS_CardinalityType DEF LogFinite, LogGapFree

LEMMA ShapeGapFree ==
  ASSUME NEW m \in Nat, DOMAIN log = 1 .. m
  PROVE  LogFinite /\ LogGapFree
BY FS_Interval DEF LogFinite, LogGapFree

LEMMA AppendShape ==
  ASSUME NEW m \in Nat, DOMAIN log = 1 .. m, NEW event, log' = LogWith(m + 1, event)
  PROVE  /\ DOMAIN log' = 1 .. (m + 1)
         /\ log'[m + 1] = event
         /\ \A n \in 1 .. m : log'[n] = log[n]
BY DEF LogWith

LEMMA InitLogInv == Init => LogInv
<1> SUFFICES ASSUME Init PROVE LogInv
  OBVIOUS
<1> USE TableQueueAssumption
<1>1. TypeOK
  BY DEF Init, TypeOK, Entries, Row, Counter, PC, RowStatus, QueueStatus, Absent, Zero
<1>2. CopyTyped BY DEF Init, CopyTyped, Logging
<1>3. Alone BY DEF Init, Alone, Ended
<1>4. Seeding BY DEF Init, Seeding, Present, Entries
<1>5. DOMAIN log = 1 .. 0 BY DEF Init
<1>6. LogFinite /\ LogGapFree BY <1>5, FS_Interval DEF LogFinite, LogGapFree
<1>7. HintNeverLeads BY DEF Init, HintNeverLeads, Zero
<1>8. Appenders BY DEF Init, Appenders
<1> QED BY <1>1, <1>2, <1>3, <1>4, <1>6, <1>7, <1>8 DEF LogInv

(***************************************************************************)
(* Steps that leave a part of the invariant alone.                         *)
(***************************************************************************)
LEMMA UnderWay ==
  ASSUME LogInv, NEW r \in Requests, pc[r] \notin Ended, UNCHANGED host,
         \A e \in Entries : entry[e].status # Absent => entry'[e].status # Absent
  PROVE  phase = "serving" /\ Alone' /\ Seeding'
<1>1. phase = "serving" BY DEF LogInv, Alone
<1>2. phase' = "serving" BY <1>1 DEF host
<1>3. 1 \in Entries BY TableQueueAssumption DEF Entries
<1>4. entry[1].status # Absent BY <1>1 DEF LogInv, Seeding
<1> QED BY <1>1, <1>2, <1>3, <1>4 DEF Alone, Seeding

LEMMA LogKept ==
  ASSUME LogInv, UNCHANGED <<log, hint>>
  PROVE  LogFinite' /\ LogGapFree' /\ HintNeverLeads'
BY DEF LogInv, LogFinite, LogGapFree, HintNeverLeads

(* A request that only reads disturbs its own locals and nothing else. *)
LEMMA ReaderStep ==
  ASSUME LogInv, NEW r \in Requests, pc[r] \notin Ended, UNCHANGED <<host, store>>
  PROVE  Alone' /\ Seeding' /\ LogFinite' /\ LogGapFree' /\ HintNeverLeads'
BY UnderWay, LogKept DEF store

LEMMA BootLogInv == LogInv /\ (Boot \/ Crash) => LogInv'
<1> SUFFICES ASSUME LogInv, Boot \/ Crash PROVE LogInv'
  OBVIOUS
<1> USE TableQueueAssumption DEF LogInv
<1>1. CASE Start
  <2>1. TypeOK' BY <1>1 DEF Start, TypeOK, store, job, loop, effect, answer
  <2>2. CopyTyped' BY <1>1 DEF Start, CopyTyped, job, loop
  <2>3. Alone' BY <1>1 DEF Start, Alone, loop
  <2>4. Seeding'
    <3>1. 1 \in Entries BY DEF Entries
    <3>2. Present = {} => entry[1].status = Absent BY <3>1 DEF Present
    <3>3. UNCHANGED <<stamp, entry, log>> /\ Present' = Present
      BY <1>1 DEF Start, store, Present
    <3>4. CASE Present = {}
      BY <1>1, <3>2, <3>3, <3>4 DEF Start, Seeding
    <3>5. CASE Present # {}
      BY <1>1, <3>3, <3>5 DEF Start, Seeding
    <3> QED BY <3>4, <3>5
  <2>5. Appenders' BY <1>1 DEF Start, Appenders, InUse, store, loop, answer
  <2> QED BY <1>1, <2>1, <2>2, <2>3, <2>4, <2>5, LogKept DEF Start, store
<1>2. CASE SeedEntry
  <2>1. TypeOK' BY <1>2 DEF SeedEntry, TypeOK, job, loop, effect, answer, Row,
                            RowStatus, QueueStatus, Entries, Seeding
  <2>2. CopyTyped' BY <1>2 DEF SeedEntry, CopyTyped, job, loop
  <2>3. Alone' BY <1>2 DEF SeedEntry, Alone, loop
  <2>4. Seeding'
    <3>1. stamp \in Nat /\ stamp + 1 \in Entries /\ 1 \in Entries
      BY <1>2 DEF SeedEntry, Seeding, TypeOK, Entries
    <3>2. entry'[stamp + 1].status # Absent
      BY <1>2, <3>1 DEF SeedEntry, TypeOK, Absent
    <3>3. entry'[1].status # Absent
      BY <1>2, <3>1, <3>2 DEF SeedEntry, TypeOK, Seeding
    <3> QED BY <1>2, <3>1, <3>2, <3>3 DEF SeedEntry, Seeding
  <2>5. Appenders' BY <1>2 DEF SeedEntry, Appenders, InUse, loop, answer
  <2> QED BY <1>2, <2>1, <2>2, <2>3, <2>4, <2>5, LogKept DEF SeedEntry
<1>3. CASE SeedEvent
  <2>1. /\ stamp \in 1 .. SeedEntries /\ DOMAIN log = 1 .. (stamp - 1)
        /\ entry[stamp].status # Absent /\ stamp \in Nat /\ stamp \in Entries
    BY <1>3 DEF SeedEvent, Seeding, Entries
  <2>2. DOMAIN log' = 1 .. stamp
    BY <1>3, <2>1 DEF SeedEvent, LogWith
  <2>3. TypeOK'
    <3>1. \A n \in DOMAIN log' : log'[n] \in Event(Entries)
      BY <1>3, <2>1 DEF SeedEvent, LogWith, TypeOK, Event, QueueStatus
    <3> QED BY <1>3, <3>1, <2>2 DEF SeedEvent, TypeOK, job, loop, effect, answer
  <2>4. CopyTyped' BY <1>3 DEF SeedEvent, CopyTyped, job, loop
  <2>5. Alone' BY <1>3 DEF SeedEvent, Alone, loop
  <2>6. Seeding' BY <1>3, <2>1, <2>2 DEF SeedEvent, Seeding
  <2>7. LogFinite' /\ LogGapFree' BY <2>1, <2>2, FS_Interval DEF LogFinite, LogGapFree
  <2>8. HintNeverLeads' BY <1>3 DEF SeedEvent, HintNeverLeads, LogWith
  <2>9. Appenders' BY <1>3 DEF SeedEvent, Appenders, InUse, LogWith, loop, answer
  <2> QED BY <2>3, <2>4, <2>5, <2>6, <2>7, <2>8, <2>9
<1>4. CASE Reconcile
  <2>1. Cardinality(WaitingEntries) \in Nat
    <3>1. IsFiniteSet(Entries) BY FS_Interval DEF Entries
    <3> QED BY <3>1, FS_Subset, FS_CardinalityType DEF WaitingEntries
  <2>2. PICK n \in {0} \cup DOMAIN log : IsLast(n) /\ hint' = [value |-> n, tag |-> 0]
    BY <1>4 DEF Reconcile
  <2>3. TypeOK' BY <1>4, <2>1, <2>2 DEF Reconcile, TypeOK, job, loop, answer, Counter
  <2>4. CopyTyped' BY <1>4 DEF Reconcile, CopyTyped, job, loop
  <2>5. Alone' /\ Seeding' BY <1>4 DEF Reconcile, Alone, Seeding
  <2>6. LogFinite' /\ LogGapFree' BY <1>4 DEF Reconcile, LogFinite, LogGapFree
  <2>7. HintNeverLeads' BY <1>4, <2>2 DEF Reconcile, HintNeverLeads
  <2>8. Appenders' BY <1>4 DEF Reconcile, Appenders, InUse, loop, answer
  <2> QED BY <2>3, <2>4, <2>5, <2>6, <2>7, <2>8
<1>5. CASE Crash
  <2>1. TypeOK' BY <1>5 DEF Crash, TypeOK, store, job, effect, answer, Counter, Zero, PC
  <2>2. CopyTyped' BY <1>5 DEF Crash, CopyTyped, Ended, Logging, TypeOK
  <2>3. Alone' BY <1>5 DEF Crash, Alone, Ended, TypeOK
  <2>4. Seeding' BY <1>5 DEF Crash, Seeding, store, Present
  <2>5. Appenders' BY <1>5 DEF Crash, Appenders, Ended, TypeOK
  <2> QED BY <1>5, <2>1, <2>2, <2>3, <2>4, <2>5, LogKept DEF Crash, store
<1> QED BY <1>1, <1>2, <1>3, <1>4, <1>5 DEF Boot

(***************************************************************************)
(* Arrivals.                                                               *)
(***************************************************************************)
LEMMA AcceptLogInv ==
  ASSUME LogInv, NEW r \in Requests, NEW p \in PC, NEW o, NEW e \in Entries \cup {0},
         NEW s \in RowStatus, NEW n \in Int, Accept(r, p, o, e, s, n),
         stamp' \in 0 .. MaxEntries, due' \in [Requests -> {-1, 0, 1}],
         p \in {"add", "find", "get", "latest"},
         p \in {"add", "get"} => e \in Entries, p = "add" => s \in QueueStatus
  PROVE  LogInv'
<1> USE DEF LogInv, Accept
<1>0. phase = "serving" /\ phase' = "serving" /\ UNCHANGED <<store, answer>>
  OBVIOUS
<1>1. /\ pc' = [pc EXCEPT ![r] = p] /\ ent' = [ent EXCEPT ![r] = e]
      /\ st' = [st EXCEPT ![r] = s] /\ UNCHANGED <<entry, log, hint, seq>>
      /\ \A q \in Requests \ {r} : seen'[q] = seen[q] /\ next'[q] = next[q]
  BY DEF Hold, store, answer, TypeOK
<1>2. LoopTyped' BY HoldType DEF Zero, Counter
<1>3. TypeOK' BY <1>0, <1>2 DEF TypeOK, LoopTyped, store, answer
<1>4. CopyTyped' BY <1>1 DEF CopyTyped, TypeOK, Logging
<1>5. Alone' BY <1>0 DEF Alone
<1>6. Seeding' BY <1>0, <1>1 DEF Seeding
<1>7. Appenders' BY <1>1 DEF Appenders, InUse, TypeOK
<1> QED BY <1>1, <1>3, <1>4, <1>5, <1>6, <1>7, LogKept

LEMMA AskLogInv == ASSUME LogInv, NEW r \in Requests, Ask(r) PROVE LogInv'
<1> USE TableQueueAssumption
<1>0. stamp \in 0 .. MaxEntries /\ due \in [Requests -> {-1, 0, 1}] /\ DOMAIN log \subseteq Nat
  BY DEF LogInv, TypeOK
<1>1. CASE StartCheckIn(r)
  <2>1. stamp + 1 \in Entries /\ stamp' \in 0 .. MaxEntries
    BY <1>0, <1>1 DEF StartCheckIn, Entries
  <2>2. due' \in [Requests -> {-1, 0, 1}] BY <1>0, <1>1 DEF StartCheckIn
  <2>3. Accept(r, "add", "checkIn", stamp + 1, "Waiting", 0) BY <1>1 DEF StartCheckIn
  <2>4. /\ "add" \in PC \cap {"add", "find", "get", "latest"}
        /\ "Waiting" \in RowStatus \cap QueueStatus /\ 0 \in Int
    BY DEF PC, RowStatus, QueueStatus
  <2>5. stamp + 1 \in Entries \cup {0} /\ LogInv BY <2>1
  <2> HIDE DEF LogInv
  <2> QED BY <2>1, <2>2, <2>3, <2>4, <2>5, AcceptLogInv, SMTT(30)
<1>2. CASE StartCallNext(r)
  BY <1>0, <1>2, AcceptLogInv DEF StartCallNext, PC, RowStatus
<1>3. CASE StartState(r)
  BY <1>0, <1>3, AcceptLogInv DEF StartState, PC, RowStatus
<1>4. CASE StartSince(r)
  <2>1. PICK n \in Int : Accept(r, "latest", "since", 0, Absent, n)
    BY <1>0, <1>4 DEF StartSince
  <2> QED BY <1>0, <1>4, <2>1, AcceptLogInv DEF StartSince, PC, RowStatus
<1>5. ASSUME NEW o, NEW e \in Entries, StartOnEntry(r, o, e) PROVE LogInv'
  BY <1>0, <1>5, AcceptLogInv DEF StartOnEntry, PC, RowStatus
<1> QED BY <1>1, <1>2, <1>3, <1>4, <1>5 DEF Ask

LEMMA HangUpLogInv == ASSUME LogInv, NEW r \in Requests, HangUp(r) PROVE LogInv'
<1>1. pc' = [pc EXCEPT ![r] = "failed"] /\ pc[r] \notin Ended /\ NoWrite
  BY DEF HangUp, Go, Hold
<1>2. LoopTyped' BY GoType DEF HangUp, LogInv, PC
<1>3. \A q \in Requests \ {r} : seen'[q] = seen[q] /\ next'[q] = next[q]
  BY DEF HangUp, Go, Hold, LogInv, TypeOK
<1>4. TypeOK' BY <1>2 DEF HangUp, TypeOK, LogInv, LoopTyped, NoWrite, host, store, job, effect, answer
<1>5. CopyTyped' BY <1>1 DEF HangUp, CopyTyped, LogInv, TypeOK, job, Logging
<1>6. Appenders' BY <1>1, <1>3 DEF HangUp, Appenders, InUse, LogInv, TypeOK, answer, NoWrite, store
<1> QED BY <1>1, <1>4, <1>5, <1>6, ReaderStep DEF LogInv, NoWrite

(***************************************************************************)
(* The steps of a request under way. What all of them share: the other     *)
(* requests' locals stand still, so only r's part of CopyTyped and         *)
(* Appenders has to be shown again.                                        *)
(***************************************************************************)
OthersKept(r) ==
  \A q \in Requests \ {r} :
    /\ pc'[q] = pc[q] /\ seen'[q] = seen[q] /\ next'[q] = next[q]
    /\ ent'[q] = ent[q] /\ st'[q] = st[q] /\ seq'[q] = seq[q]

CopyTypedOf(r) ==
  /\ pc[r] \in {"add", "get", "update"} \cup Logging => ent[r] \in Entries
  /\ pc[r] \in {"add", "update"} \cup Logging => st[r] \in QueueStatus

AppenderOf(r) ==
  /\ pc[r] = "addEvent" => InUse(next[r] - 1)
  /\ pc[r] = "passEvent" => next[r] \in DOMAIN log
  /\ pc[r] \in {"readSeq", "writeSeq"} => seq[r] \in DOMAIN log
  /\ pc[r] = "snapshot" => InUse(seq[r])
  /\ pc[r] = "scan" => InUse(seen[r].value) /\ next[r] \in 0 .. seen[r].value

LEMMA OthersStand ==
  ASSUME LogInv, NEW r \in Requests, OthersKept(r), DOMAIN log \subseteq DOMAIN log',
         CopyTypedOf(r)', AppenderOf(r)'
  PROVE  CopyTyped' /\ Appenders'
<1>1. CopyTyped' BY DEF LogInv, CopyTyped, OthersKept, CopyTypedOf
<1>2. ASSUME NEW q \in Requests \ {r} PROVE AppenderOf(q)'
  BY <1>2 DEF LogInv, Appenders, OthersKept, AppenderOf, InUse
<1>3. Appenders' BY <1>2 DEF Appenders, AppenderOf
<1> QED BY <1>1, <1>3

(* A request that moves on, r's locals typed and the store as it was. *)
LEMMA ReaderLogInv ==
  ASSUME LogInv, NEW r \in Requests, pc[r] \notin Ended, UNCHANGED <<host, store, wrote, pos>>,
         LoopTyped', OthersKept(r), CopyTypedOf(r)', AppenderOf(r)',
         op' = op, ent' \in [Requests -> Entries \cup {0}], st' \in [Requests -> RowStatus],
         due' \in [Requests -> {-1, 0, 1}], seq' \in [Requests -> Int]
  PROVE  LogInv'
<1>1. TypeOK' BY DEF LogInv, TypeOK, LoopTyped, host, store
<1>2. CopyTyped' /\ Appenders' BY OthersStand DEF store
<1> QED BY <1>1, <1>2, ReaderStep DEF LogInv

LEMMA FindLogInv == ASSUME LogInv, NEW r \in Requests, FindOldestWaiting(r) PROVE LogInv'
<1>1. pc[r] = "find" /\ UNCHANGED <<host, store, wrote, pos, op, seq>> /\ TypeOK
  BY DEF FindOldestWaiting, answer, LogInv
<1>2. st' = [st EXCEPT ![r] = "Serving"] BY DEF FindOldestWaiting
<1>3. CASE Go(r, "done") /\ ent' = [ent EXCEPT ![r] = 0] /\ due' = [due EXCEPT ![r] = 0]
  <2>2. LoopTyped' BY <1>3, <1>1, GoType DEF PC
  <2>3. OthersKept(r) BY <1>1, <1>2, <1>3 DEF OthersKept, Go, Hold, TypeOK
  <2>4. pc'[r] = "done" BY <1>1, <1>3 DEF Go, Hold, TypeOK
  <2>5. CopyTypedOf(r)' /\ AppenderOf(r)' BY <2>4 DEF CopyTypedOf, AppenderOf, Logging
  <2> QED BY <1>1, <1>2, <1>3, <2>2, <2>3, <2>5, ReaderLogInv DEF TypeOK, RowStatus, QueueStatus, Ended
<1>4. ASSUME NEW e \in Entries, ent' = [ent EXCEPT ![r] = e], due' = [due EXCEPT ![r] = -1],
             Hold(r, "update", [value |-> 0, tag |-> entry[e].tag], 0, tries[r])
      PROVE  LogInv'
  <2>3. LoopTyped'
    <3>1. [value |-> 0, tag |-> entry[e].tag] \in Counter BY <1>1 DEF TypeOK, Row, Counter
    <3>2. tries[r] \in Nat BY <1>1 DEF TypeOK
    <3> QED BY <1>1, <1>4, <3>1, <3>2, HoldType DEF PC
  <2>4. OthersKept(r) BY <1>1, <1>2, <1>4 DEF OthersKept, Hold, TypeOK
  <2>5. pc'[r] = "update" /\ ent'[r] = e /\ st'[r] = "Serving"
    BY <1>1, <1>2, <1>4 DEF Hold, TypeOK
  <2>6. CopyTypedOf(r)' /\ AppenderOf(r)'
    BY <2>5 DEF CopyTypedOf, AppenderOf, Logging, QueueStatus
  <2>7. ent' \in [Requests -> Entries \cup {0}] /\ due' \in [Requests -> {-1, 0, 1}]
    BY <1>1, <1>4 DEF TypeOK
  <2> QED BY <1>1, <1>2, <2>3, <2>4, <2>6, <2>7, ReaderLogInv DEF TypeOK, RowStatus, QueueStatus, Ended
<1> QED BY <1>3, <1>4 DEF FindOldestWaiting

LEMMA GetLogInv == ASSUME LogInv, NEW r \in Requests, GetEntry(r) PROVE LogInv'
<1> DEFINE row == entry[ent[r]]
<1>1. /\ pc[r] = "get" /\ UNCHANGED <<host, store, wrote, pos, op, ent, seq>> /\ TypeOK
      /\ ent[r] \in Entries /\ row \in Row
      /\ due' \in [Requests -> {-1, 0, 1}]
  BY DEF GetEntry, answer, LogInv, CopyTyped, TypeOK
<1>2. CASE op[r] = "document" /\ row.status # Absent /\ st' = [st EXCEPT ![r] = row.status]
           /\ Go(r, "readHint")
  <2>1. LoopTyped' BY <1>2, <1>1, GoType DEF PC
  <2>2. LoopsKept(r) /\ pc'[r] = "readHint" BY <1>1, <1>2, GoGoes
  <2>3. st' \in [Requests -> RowStatus] /\ row.status \in QueueStatus
    BY <1>1, <1>2 DEF TypeOK, Row, RowStatus
  <2>4. CopyTypedOf(r)' /\ AppenderOf(r)'
    BY <1>1, <1>2, <2>2, <2>3 DEF CopyTypedOf, AppenderOf, Logging, TypeOK
  <2>5. OthersKept(r) BY <1>1, <1>2, <2>2 DEF OthersKept, LoopsKept, TypeOK
  <2> QED BY <1>1, <2>1, <2>3, <2>4, <2>5, ReaderLogInv DEF TypeOK, Ended
<1>3. CASE Accepts(op[r], row.status) /\ st' = [st EXCEPT ![r] = Target(op[r])]
           /\ Hold(r, "update", [value |-> 0, tag |-> row.tag], 0, tries[r])
  <2>1. LoopTyped'
    <3>1. [value |-> 0, tag |-> row.tag] \in Counter /\ tries[r] \in Nat
      BY <1>1 DEF Row, Counter, TypeOK
    <3> QED BY <1>1, <1>3, <3>1, HoldType DEF PC
  <2>2. LoopsKept(r) /\ pc'[r] = "update" BY <1>1, <1>3, HoldGoes
  <2>3. Target(op[r]) \in QueueStatus BY <1>3 DEF Accepts, Target, QueueStatus
  <2>4. st' \in [Requests -> RowStatus] BY <1>1, <1>3, <2>3 DEF TypeOK, RowStatus
  <2>5. CopyTypedOf(r)' /\ AppenderOf(r)'
    BY <1>1, <1>3, <2>2, <2>3 DEF CopyTypedOf, AppenderOf, Logging, TypeOK
  <2>6. OthersKept(r) BY <1>1, <1>3, <2>2 DEF OthersKept, LoopsKept, TypeOK
  <2> QED BY <1>1, <2>1, <2>4, <2>5, <2>6, ReaderLogInv DEF TypeOK, Ended
<1>4. CASE Go(r, "done") /\ UNCHANGED st
  <2>1. LoopTyped' BY <1>4, <1>1, GoType DEF PC
  <2>2. LoopsKept(r) /\ pc'[r] = "done" BY <1>1, <1>4, GoGoes
  <2>3. CopyTypedOf(r)' /\ AppenderOf(r)' BY <2>2 DEF CopyTypedOf, AppenderOf, Logging
  <2>4. OthersKept(r) BY <1>1, <1>4, <2>2 DEF OthersKept, LoopsKept
  <2> QED BY <1>1, <1>4, <2>1, <2>3, <2>4, ReaderLogInv DEF TypeOK, Ended
<1> QED BY <1>2, <1>3, <1>4 DEF GetEntry

(***************************************************************************)
(* Steps that only move on.                                                *)
(***************************************************************************)
LEMMA LoopLogInv ==
  ASSUME LogInv, NEW r \in Requests, pc[r] \notin Ended, NoWrite, UNCHANGED <<job, answer>>,
         LoopTyped', LoopsKept(r), CopyTypedOf(r)', AppenderOf(r)'
  PROVE  LogInv'
<1>1. OthersKept(r) BY DEF OthersKept, LoopsKept, job, answer
<1> QED BY <1>1, ReaderLogInv DEF NoWrite, job, answer, effect, LogInv, TypeOK

LEMMA RefusedLogInv ==
  ASSUME LogInv, NEW r \in Requests, UpdateRefused(r) \/ CountRefused(r)
  PROVE  LogInv'
<1> USE DEF LogInv
<1>1. PICK p \in {"find", "get", "readCount"} :
        /\ Retry(r, p, 0)
        /\ pc[r] \in {"update", "writeCount"} /\ (p = "readCount" => pc[r] = "writeCount")
  BY DEF UpdateRefused, CountRefused
<1>2. LoopTyped' BY <1>1, RetryType DEF PC
<1>3. LoopsKept(r) /\ pc'[r] \in {p, "failed"} BY <1>1, RetryGoes
<1>4. CopyTypedOf(r)' /\ AppenderOf(r)'
  BY <1>1, <1>3 DEF UpdateRefused, CountRefused, CopyTyped, CopyTypedOf, AppenderOf, job, Logging
<1> QED BY <1>1, <1>2, <1>3, <1>4, LoopLogInv DEF UpdateRefused, CountRefused, Ended

LEMMA ReadCountLogInv == ASSUME LogInv, NEW r \in Requests, ReadCount(r) PROVE LogInv'
<1> USE DEF LogInv
<1>1. pc[r] = "readCount" /\ Hold(r, "writeCount", waiting, 0, tries[r]) BY DEF ReadCount
<1>2. LoopTyped' BY <1>1, HoldType DEF TypeOK, PC
<1>3. LoopsKept(r) /\ pc'[r] = "writeCount" BY <1>1, HoldGoes
<1>4. CopyTypedOf(r)' /\ AppenderOf(r)'
  BY <1>1, <1>3 DEF ReadCount, CopyTyped, CopyTypedOf, AppenderOf, job, Logging
<1> QED BY <1>1, <1>2, <1>3, <1>4, LoopLogInv DEF ReadCount, Ended

LEMMA ReadHintLogInv == ASSUME LogInv, NEW r \in Requests, ReadHint(r) PROVE LogInv'
<1> USE DEF LogInv
<1>1. pc[r] = "readHint" /\ Hold(r, "addEvent", Zero, hint.value + 1, 0) /\ hint.value \in Int
  BY DEF ReadHint, TypeOK, Counter
<1>2. LoopTyped' BY <1>1, HoldType DEF Zero, Counter, PC
<1>3. LoopsKept(r) /\ pc'[r] = "addEvent" /\ next'[r] = hint.value + 1 BY <1>1, HoldGoes
<1>4. InUse(next'[r] - 1) BY <1>1, <1>3 DEF InUse, HintNeverLeads
<1>5. CopyTypedOf(r)' /\ AppenderOf(r)'
  BY <1>1, <1>3, <1>4 DEF ReadHint, CopyTyped, CopyTypedOf, AppenderOf, InUse, job, NoWrite, store, Logging
<1> QED BY <1>1, <1>2, <1>3, <1>5, LoopLogInv DEF ReadHint, Ended

LEMMA EventTakenLogInv == ASSUME LogInv, NEW r \in Requests, EventTaken(r) PROVE LogInv'
<1> USE DEF LogInv
<1>1. pc[r] = "addEvent" /\ next[r] \in DOMAIN log /\ Hold(r, "passEvent", Zero, next[r], tries[r])
  BY DEF EventTaken
<1>2. LoopTyped' BY <1>1, HoldType DEF Zero, Counter, PC, TypeOK
<1>3. LoopsKept(r) /\ pc'[r] = "passEvent" /\ next'[r] = next[r] BY <1>1, HoldGoes
<1>4. CopyTypedOf(r)' /\ AppenderOf(r)'
  BY <1>1, <1>3 DEF EventTaken, CopyTyped, CopyTypedOf, AppenderOf, job, NoWrite, store, Logging
<1> QED BY <1>1, <1>2, <1>3, <1>4, LoopLogInv DEF EventTaken, Ended

LEMMA PassEventLogInv == ASSUME LogInv, NEW r \in Requests, PassEvent(r) PROVE LogInv'
<1> USE DEF LogInv
<1> DEFINE n == IF hint.value > next[r] THEN hint.value + 1 ELSE next[r] + 1
<1>1. pc[r] = "passEvent" /\ Retry(r, "addEvent", n) /\ n \in Int /\ next[r] \in DOMAIN log
  BY DEF PassEvent, TypeOK, Counter, Appenders
<1>2. LoopTyped' BY <1>1, RetryType DEF PC
<1>3. LoopsKept(r) /\ (pc'[r] = "failed" \/ (pc'[r] = "addEvent" /\ next'[r] = n))
  BY <1>1, RetryGoes
<1>4. InUse(n - 1) BY <1>1 DEF InUse, HintNeverLeads, TypeOK, Counter
<1>5. CopyTypedOf(r)' /\ AppenderOf(r)'
  BY <1>1, <1>3, <1>4 DEF PassEvent, CopyTyped, CopyTypedOf, AppenderOf, InUse, job, NoWrite, store, Logging
<1> QED BY <1>1, <1>2, <1>3, <1>5, LoopLogInv DEF PassEvent, Ended

LEMMA HintLogInv ==
  ASSUME LogInv, NEW r \in Requests, ReadSequenceRow(r) \/ HintRefused(r)
  PROVE  LogInv'
<1> USE DEF LogInv
<1>1. /\ pc[r] \in {"readSeq", "writeSeq"} /\ seq[r] \in DOMAIN log
      /\ NoWrite /\ UNCHANGED <<job, answer>>
  BY DEF ReadSequenceRow, HintRefused, Appenders
<1>2. Go(r, "snapshot") \/ Hold(r, "writeSeq", hint, 0, 0)
  BY DEF ReadSequenceRow, HintRefused
<1>3. LoopTyped' BY <1>2, GoType, HoldType DEF PC, TypeOK
<1>4. LoopsKept(r) /\ pc'[r] \in {"snapshot", "writeSeq"} BY <1>2, GoGoes, HoldGoes
<1>5. CopyTypedOf(r)' /\ AppenderOf(r)'
  BY <1>1, <1>4 DEF CopyTypedOf, AppenderOf, InUse, NoWrite, store, answer, Logging
<1> QED BY <1>1, <1>3, <1>4, <1>5, LoopLogInv DEF Ended

LEMMA LatestLogInv == ASSUME LogInv, NEW r \in Requests, ReadLatest(r) PROVE LogInv'
<1> USE DEF LogInv
<1>1. /\ pc[r] = "latest" /\ NoWrite /\ UNCHANGED <<job, pos>>
      /\ hint.value \in Int /\ next[r] \in Int /\ InUse(hint.value)
  BY DEF ReadLatest, TypeOK, Counter, HintNeverLeads, InUse
<1>2. CASE /\ next[r] >= 0 /\ next[r] <= hint.value
           /\ Hold(r, "scan", hint, next[r], 0) /\ UNCHANGED seq
  <2>1. LoopTyped' BY <1>1, <1>2, HoldType DEF PC, TypeOK
  <2>2. LoopsKept(r) /\ pc'[r] = "scan" /\ seen'[r] = hint /\ next'[r] = next[r]
    BY <1>2, HoldGoes
  <2>3. CopyTypedOf(r)' /\ AppenderOf(r)'
    BY <1>1, <1>2, <2>2 DEF CopyTypedOf, AppenderOf, InUse, NoWrite, store, Logging
  <2> QED BY <1>1, <1>2, <2>1, <2>2, <2>3, LoopLogInv DEF Ended, answer
<1>3. CASE Go(r, "snapshot") /\ seq' = [seq EXCEPT ![r] = hint.value]
  <2>1. LoopTyped' BY <1>1, <1>3, GoType DEF PC
  <2>2. LoopsKept(r) /\ pc'[r] = "snapshot" /\ seq'[r] = hint.value
    BY <1>3, GoGoes DEF TypeOK
  <2>3. CopyTypedOf(r)' /\ AppenderOf(r)'
    BY <1>1, <2>2 DEF CopyTypedOf, AppenderOf, InUse, NoWrite, store, Logging
  <2>4. OthersKept(r) BY <1>1, <1>3, <2>2 DEF OthersKept, LoopsKept, job, TypeOK
  <2> QED BY <1>1, <1>3, <2>1, <2>3, <2>4, ReaderLogInv DEF Ended, NoWrite, job, effect, TypeOK
<1> QED BY <1>2, <1>3 DEF ReadLatest

LEMMA ScanLogInv == ASSUME LogInv, NEW r \in Requests, ScanEvents(r) PROVE LogInv'
<1> USE DEF LogInv
<1>1. /\ pc[r] = "scan" /\ NoWrite /\ UNCHANGED <<job, pos>>
      /\ InUse(seen[r].value) /\ seen[r].value \in Int /\ next[r] \in Int
  BY DEF ScanEvents, TypeOK, Counter, Appenders
<1>2. PICK n \in Int, p \in {"snapshot", "done"} :
        /\ seq' = [seq EXCEPT ![r] = n] /\ Go(r, p)
        /\ p = "snapshot" => n = seen[r].value
  BY <1>1 DEF ScanEvents, Missed, TypeOK
<1>3. LoopTyped' BY <1>2, GoType DEF PC
<1>4. LoopsKept(r) /\ pc'[r] = p BY <1>2, GoGoes
<1>5. CopyTypedOf(r)' /\ AppenderOf(r)'
  BY <1>1, <1>2, <1>4 DEF CopyTypedOf, AppenderOf, InUse, NoWrite, store, Logging, TypeOK
<1>6. OthersKept(r) BY <1>1, <1>2, <1>4 DEF OthersKept, LoopsKept, job, TypeOK
<1> QED BY <1>1, <1>2, <1>3, <1>5, <1>6, ReaderLogInv DEF Ended, NoWrite, job, effect, TypeOK

LEMMA SnapshotLogInv == ASSUME LogInv, NEW r \in Requests, BuildSnapshot(r) PROVE LogInv'
<1> USE DEF LogInv
<1>1. pc[r] = "snapshot" /\ Go(r, "done") BY DEF BuildSnapshot
<1>2. LoopTyped' BY <1>1, GoType DEF PC
<1>3. LoopsKept(r) /\ pc'[r] = "done" BY <1>1, GoGoes
<1>4. CopyTypedOf(r)' /\ AppenderOf(r)' BY <1>3 DEF CopyTypedOf, AppenderOf, Logging
<1> QED BY <1>1, <1>2, <1>3, <1>4, LoopLogInv DEF BuildSnapshot, Ended

(***************************************************************************)
(* Steps that write.                                                       *)
(***************************************************************************)
LEMMA PutEntryLogInv ==
  ASSUME LogInv, NEW r \in Requests, pc[r] \in {"add", "update"}, PutEntry(r)
  PROVE  LogInv'
<1> USE DEF LogInv
<1> DEFINE p == IF due[r] = 0 THEN "readHint" ELSE "readCount"
<1>1. /\ ent[r] \in Entries /\ st[r] \in QueueStatus /\ entry \in [Entries -> Row]
      /\ UNCHANGED <<host, log, hint, waiting, op, ent, st, due, pos, seq>>
      /\ entry' = [entry EXCEPT ![ent[r]] = [status |-> st[r], tag |-> @.tag + 1]]
      /\ wrote' = [wrote EXCEPT ![r] = TRUE] /\ Go(r, p)
  BY DEF PutEntry, CopyTyped, TypeOK, job, answer
<1>2. LoopTyped' BY <1>1, GoType DEF PC
<1>3. LoopsKept(r) /\ pc'[r] = p BY <1>1, GoGoes
<1>4. entry' \in [Entries -> Row] BY <1>1 DEF Row, RowStatus
<1>5. TypeOK' BY <1>1, <1>2, <1>4 DEF TypeOK, LoopTyped, host
<1>6. CopyTypedOf(r)' /\ AppenderOf(r)'
  BY <1>1, <1>3 DEF CopyTypedOf, AppenderOf, Logging
<1>7. OthersKept(r) BY <1>1, <1>3 DEF OthersKept, LoopsKept
<1>8. CopyTyped' /\ Appenders' BY <1>1, <1>6, <1>7, OthersStand
<1>9. Alone' /\ Seeding'
  <2>1. \A e \in Entries : entry[e].status # Absent => entry'[e].status # Absent
    BY <1>1 DEF QueueStatus, Absent
  <2> QED BY <1>1, <2>1, UnderWay DEF Ended
<1> QED BY <1>1, <1>5, <1>8, <1>9, LogKept

LEMMA PutCountLogInv ==
  ASSUME LogInv, NEW r \in Requests, pc[r] = "writeCount", PutCount(r)
  PROVE  LogInv'
<1> USE DEF LogInv
<1>1. /\ UNCHANGED <<host, entry, log, hint, op, ent, st, wrote, seq>> /\ Go(r, "readHint")
  BY DEF PutCount, job
<1>2. LoopTyped' BY <1>1, GoType DEF PC
<1>3. LoopsKept(r) /\ pc'[r] = "readHint" BY <1>1, GoGoes
<1>4. /\ waiting' \in Counter /\ pos' \in [Requests -> Int]
      /\ due' \in [Requests -> {-1, 0, 1}]
  BY DEF PutCount, TypeOK, Counter
<1>5. TypeOK' BY <1>1, <1>2, <1>4 DEF TypeOK, LoopTyped, host
<1>6. CopyTypedOf(r)' /\ AppenderOf(r)'
  BY <1>1, <1>3 DEF CopyTypedOf, AppenderOf, Logging, CopyTyped
<1>7. OthersKept(r) BY <1>1, <1>3 DEF OthersKept, LoopsKept
<1>8. CopyTyped' /\ Appenders' BY <1>1, <1>6, <1>7, OthersStand
<1> QED BY <1>1, <1>5, <1>8, UnderWay, LogKept DEF Ended

LEMMA PutHintLogInv ==
  ASSUME LogInv, NEW r \in Requests, pc[r] = "writeSeq", PutHint(r, seq[r])
  PROVE  LogInv'
<1> USE DEF LogInv
<1>1. /\ UNCHANGED <<host, entry, log, waiting, op, ent, st, due, wrote, pos, seq>>
      /\ Go(r, "snapshot") /\ hint' = [value |-> seq[r], tag |-> hint.tag + 1]
      /\ seq[r] \in DOMAIN log
  BY DEF PutHint, job, effect, answer, Appenders
<1>2. LoopTyped' BY <1>1, GoType DEF PC
<1>3. LoopsKept(r) /\ pc'[r] = "snapshot" BY <1>1, GoGoes
<1>4. hint' \in Counter BY <1>1 DEF TypeOK, Counter
<1>5. TypeOK' BY <1>1, <1>2, <1>4 DEF TypeOK, LoopTyped, host
<1>6. CopyTypedOf(r)' /\ AppenderOf(r)'
  BY <1>1, <1>3 DEF CopyTypedOf, AppenderOf, InUse, Logging
<1>7. OthersKept(r) BY <1>1, <1>3 DEF OthersKept, LoopsKept
<1>8. CopyTyped' /\ Appenders' BY <1>1, <1>6, <1>7, OthersStand
<1>9. HintNeverLeads' BY <1>1 DEF HintNeverLeads
<1>10. LogFinite' /\ LogGapFree' BY <1>1 DEF LogFinite, LogGapFree
<1> QED BY <1>1, <1>5, <1>8, <1>9, <1>10, UnderWay DEF Ended

(* The number an appender claims is the next one of the log. *)
LEMMA ClaimIsNext ==
  ASSUME LogInv, NEW r \in Requests, pc[r] = "addEvent", next[r] \notin DOMAIN log,
         NEW m \in Nat, DOMAIN log = 1 .. m
  PROVE  next[r] = m + 1
<1>1. next[r] \in Int BY DEF LogInv, TypeOK
<1>2. next[r] - 1 = 0 \/ next[r] - 1 \in 1 .. m BY DEF LogInv, Appenders, InUse
<1>3. next[r] \notin 1 .. m OBVIOUS
<1> QED BY <1>1, <1>2, <1>3

LEMMA AddEventLogInv == ASSUME LogInv, NEW r \in Requests, AddEvent(r) PROVE LogInv'
<1> USE DEF LogInv
<1>1. PICK m \in Nat : DOMAIN log = 1 .. m BY LogShape
<1> DEFINE event == [entry |-> ent[r], status |-> st[r]]
<1>2. /\ pc[r] = "addEvent" /\ next[r] = m + 1 /\ log' = LogWith(m + 1, event)
      /\ event \in Event(Entries) /\ seq' = [seq EXCEPT ![r] = m + 1] /\ Go(r, "readSeq")
      /\ UNCHANGED <<host, entry, hint, waiting, op, ent, st, due, wrote, pos>>
  BY <1>1, ClaimIsNext DEF AddEvent, PutEvent, CopyTyped, Logging, Event, job, effect
<1>3. DOMAIN log' = 1 .. (m + 1) /\ log'[m + 1] = event /\ \A n \in 1 .. m : log'[n] = log[n]
  BY <1>1, <1>2, AppendShape
<1>4. LoopTyped' BY <1>2, GoType DEF PC
<1>5. LoopsKept(r) /\ pc'[r] = "readSeq" BY <1>2, GoGoes
<1>6. TypeOK'
  <2>1. ASSUME NEW n \in 1 .. (m + 1) PROVE log'[n] \in Event(Entries)
    <3>1. n = m + 1 \/ n \in 1 .. m BY <2>1
    <3>2. \A k \in 1 .. m : log[k] \in Event(Entries) BY <1>1 DEF TypeOK
    <3> QED BY <1>2, <1>3, <3>1, <3>2
  <2>2. DOMAIN log' \subseteq Nat \ {0} BY <1>3
  <2>3. seq' \in [Requests -> Int] BY <1>2 DEF TypeOK
  <2> QED BY <1>2, <1>3, <1>4, <2>1, <2>2, <2>3 DEF TypeOK, LoopTyped, host
<1>7. CopyTypedOf(r)' /\ AppenderOf(r)'
  BY <1>2, <1>3, <1>5 DEF CopyTypedOf, AppenderOf, Logging, TypeOK
<1>8. OthersKept(r) BY <1>2, <1>5 DEF OthersKept, LoopsKept, TypeOK
<1>9. CopyTyped' /\ Appenders' BY <1>1, <1>3, <1>7, <1>8, OthersStand
<1>10. LogFinite' /\ LogGapFree' BY <1>3, FS_Interval DEF LogFinite, LogGapFree
<1>11. HintNeverLeads' BY <1>1, <1>2, <1>3 DEF HintNeverLeads
<1> QED BY <1>2, <1>6, <1>9, <1>10, <1>11, UnderWay DEF Ended

LEMMA WorkLogInv == ASSUME LogInv, NEW r \in Requests, Work(r) PROVE LogInv'
BY FindLogInv, GetLogInv, RefusedLogInv, ReadCountLogInv, ReadHintLogInv, EventTakenLogInv,
   PassEventLogInv, HintLogInv, LatestLogInv, ScanLogInv, SnapshotLogInv, PutEntryLogInv,
   PutCountLogInv, PutHintLogInv, AddEventLogInv
   DEF Work, AddEntry, UpdateEntry, WriteCount, WriteSequenceRow

LEMMA NextLogInv == LogInv /\ [Next]_vars => LogInv'
<1> SUFFICES ASSUME LogInv, [Next]_vars PROVE LogInv'
  OBVIOUS
<1>1. CASE UNCHANGED vars
  BY <1>1 DEF vars, host, store, job, loop, effect, answer, LogInv, TypeOK, CopyTyped, Alone,
              Seeding, Present, LogFinite, LogGapFree, HintNeverLeads, Appenders, InUse
<1>2. CASE Next BY <1>2, BootLogInv, AskLogInv, HangUpLogInv, WorkLogInv DEF Next
<1> QED BY <1>1, <1>2

THEOREM LogInvariant == Spec => []LogInv
BY InitLogInv, NextLogInv, PTL DEF Spec

-----------------------------------------------------------------------------
(***************************************************************************)
(* The refinement of QueueLog. That the log only grows at its end is       *)
(* LogInv. That the Sequence row never goes back needs one thing more: a   *)
(* request that is about to raise it holds an ETag under which the row is  *)
(* still below its own number.                                             *)
(***************************************************************************)
HintTags ==
  \A r \in Requests : pc[r] = "writeSeq" =>
    /\ seen[r].tag <= hint.tag
    /\ seen[r].tag = hint.tag => hint.value < seq[r]

-----------------------------------------------------------------------------
(***************************************************************************)
(* HintTags is an invariant.                                               *)
(***************************************************************************)
(* What a step of r that does not bring it to "writeSeq" does to the rest. *)
Elsewhere(r) ==
  /\ \A q \in Requests \ {r} : pc'[q] = pc[q] /\ seen'[q] = seen[q] /\ seq'[q] = seq[q]
  /\ pc'[r] # "writeSeq"
  /\ hint' = hint \/ hint'.tag = hint.tag + 1

LEMMA ElsewhereTags ==
  ASSUME LogInv, HintTags, NEW r \in Requests, Elsewhere(r)
  PROVE  HintTags'
<1>1. hint.tag \in Nat /\ \A q \in Requests : seen[q].tag \in Nat
  BY DEF LogInv, TypeOK, Counter
<1>2. ASSUME NEW q \in Requests, pc'[q] = "writeSeq"
      PROVE  /\ seen'[q].tag <= hint'.tag
             /\ seen'[q].tag = hint'.tag => hint'.value < seq'[q]
  <2>1. q # r BY <1>2 DEF Elsewhere
  <2>2. pc[q] = "writeSeq" /\ seen'[q] = seen[q] /\ seq'[q] = seq[q]
    BY <1>2, <2>1 DEF Elsewhere
  <2>3. seen[q].tag <= hint.tag /\ (seen[q].tag = hint.tag => hint.value < seq[q])
    BY <2>2 DEF HintTags
  <2>4. CASE hint' = hint BY <2>2, <2>3, <2>4
  <2>5. CASE hint'.tag = hint.tag + 1 BY <1>1, <2>2, <2>3, <2>5
  <2> QED BY <2>4, <2>5 DEF Elsewhere
<1> QED BY <1>2 DEF HintTags

LEMMA AskElsewhere ==
  ASSUME LogInv, NEW r \in Requests, Ask(r) \/ HangUp(r)
  PROVE  Elsewhere(r)
<1> USE DEF LogInv
<1>1. ASSUME NEW p \in {"add", "find", "get", "latest"}, NEW o, NEW e, NEW s, NEW n,
             Accept(r, p, o, e, s, n)
      PROVE  Elsewhere(r)
  BY <1>1, HoldGoes DEF Accept, LoopsKept, Elsewhere, store, answer
<1>2. CASE HangUp(r)
  BY <1>2, GoGoes DEF HangUp, NoWrite, LoopsKept, Elsewhere, store, answer
<1>3. CASE StartCheckIn(r) BY <1>1, <1>3 DEF StartCheckIn
<1>4. CASE StartCallNext(r) BY <1>1, <1>4 DEF StartCallNext
<1>5. CASE StartState(r) BY <1>1, <1>5 DEF StartState
<1>6. CASE StartSince(r)
  <2>1. \E n : Accept(r, "latest", "since", 0, Absent, n) BY <1>6 DEF StartSince
  <2> QED BY <1>1, <2>1
<1>7. ASSUME NEW o, NEW e, StartOnEntry(r, o, e) PROVE Elsewhere(r)
  BY <1>1, <1>7 DEF StartOnEntry
<1> QED BY <1>2, <1>3, <1>4, <1>5, <1>6, <1>7 DEF Ask

LEMMA WorkElsewhere ==
  ASSUME LogInv, NEW r \in Requests, Work(r), ~ReadSequenceRow(r)
  PROVE  Elsewhere(r)
<1> USE DEF LogInv, LoopsKept, Elsewhere
<1>1. ASSUME PutEntry(r) PROVE Elsewhere(r)
  BY <1>1, GoGoes DEF PutEntry, answer
<1>2. ASSUME PutCount(r) PROVE Elsewhere(r)
  BY <1>2, GoGoes DEF PutCount
<1>3. ASSUME PutEvent(r) PROVE Elsewhere(r)
  <2>1. Go(r, "readSeq") /\ hint' = hint /\ seq' = [seq EXCEPT ![r] = next[r]]
    BY <1>3 DEF PutEvent
  <2>2. \A q \in Requests \ {r} : seq'[q] = seq[q] BY <2>1 DEF TypeOK
  <2> QED BY <2>1, <2>2, GoGoes
<1>4. ASSUME NEW n, PutHint(r, n) PROVE Elsewhere(r)
  <2>1. Go(r, "snapshot") /\ hint'.tag = hint.tag + 1 /\ seq' = seq
    BY <1>4 DEF PutHint, answer
  <2>2. LoopsKept(r) /\ pc'[r] = "snapshot" BY <2>1, GoGoes
  <2>3. hint' = hint \/ hint'.tag = hint.tag + 1 BY <2>1
  <2>4. \A q \in Requests \ {r} : seq'[q] = seq[q] BY <2>1
  <2> QED BY <2>2, <2>3, <2>4
<1>5. CASE FindOldestWaiting(r)
  <2>1. UNCHANGED <<store, answer>> BY <1>5 DEF FindOldestWaiting
  <2>2. Go(r, "done") \/ \E s, n, t : Hold(r, "update", s, n, t)
    BY <1>5 DEF FindOldestWaiting
  <2> QED BY <2>1, <2>2, GoGoes, HoldGoes DEF store, answer
<1>6. CASE GetEntry(r)
  <2>1. UNCHANGED <<store, answer>> BY <1>6 DEF GetEntry
  <2>2. Go(r, "readHint") \/ Go(r, "done") \/ \E s, n, t : Hold(r, "update", s, n, t)
    BY <1>6 DEF GetEntry
  <2> QED BY <2>1, <2>2, GoGoes, HoldGoes DEF store, answer
<1>7. ASSUME NEW p \in {"find", "get", "readCount", "addEvent"}, NEW n, Retry(r, p, n),
             NoWrite, UNCHANGED answer
      PROVE  Elsewhere(r)
  BY <1>7, RetryGoes DEF NoWrite, store, answer
<1>8. CASE UpdateRefused(r) \/ CountRefused(r) \/ PassEvent(r)
  BY <1>7, <1>8 DEF UpdateRefused, CountRefused, PassEvent
<1>9. CASE ReadCount(r) \/ ReadHint(r) \/ EventTaken(r)
  BY <1>9, HoldGoes DEF ReadCount, ReadHint, EventTaken, NoWrite, store, answer
<1>10. CASE HintRefused(r) \/ BuildSnapshot(r)
  BY <1>10, GoGoes DEF HintRefused, BuildSnapshot, NoWrite, store, answer
<1>11. CASE ReadLatest(r)
  <2>1. NoWrite /\ (Go(r, "snapshot") \/ \E s, n, t : Hold(r, "scan", s, n, t))
    BY <1>11 DEF ReadLatest
  <2>2. \A q \in Requests \ {r} : seq'[q] = seq[q] BY <1>11 DEF ReadLatest, TypeOK
  <2> QED BY <2>1, <2>2, GoGoes, HoldGoes DEF NoWrite, store
<1>12. CASE ScanEvents(r)
  <2>1. NoWrite /\ (Go(r, "snapshot") \/ Go(r, "done")) BY <1>12 DEF ScanEvents
  <2>2. \A q \in Requests \ {r} : seq'[q] = seq[q] BY <1>12 DEF ScanEvents, TypeOK
  <2> QED BY <2>1, <2>2, GoGoes DEF NoWrite, store
<1> QED BY <1>1, <1>2, <1>3, <1>4, <1>5, <1>6, <1>8, <1>9, <1>10, <1>11, <1>12
        DEF Work, AddEntry, UpdateEntry, WriteCount, AddEvent, WriteSequenceRow

LEMMA NextHintTags == LogInv /\ HintTags /\ [Next]_vars => HintTags'
<1> SUFFICES ASSUME LogInv, HintTags, [Next]_vars PROVE HintTags' OBVIOUS
<1>1. ASSUME NEW r \in Requests, Ask(r) \/ HangUp(r) PROVE HintTags'
  BY <1>1, AskElsewhere, ElsewhereTags
<1>2. ASSUME NEW r \in Requests, Work(r), ~ReadSequenceRow(r) PROVE HintTags'
  BY <1>2, WorkElsewhere, ElsewhereTags
<1>3. ASSUME NEW r \in Requests, ReadSequenceRow(r) PROVE HintTags'
  <2>0. hint.tag \in Nat /\ hint.value \in Int /\ seq[r] \in Int
    BY DEF LogInv, TypeOK, Counter
  <2>1. UNCHANGED <<hint, seq>> BY <1>3 DEF ReadSequenceRow, NoWrite, store, answer
  <2>2. CASE hint.value >= seq[r]
    <3>1. Go(r, "snapshot") BY <1>3, <2>2 DEF ReadSequenceRow
    <3>2. Elsewhere(r) BY <2>1, <3>1, GoGoes DEF Elsewhere, LoopsKept, LogInv
    <3> QED BY <3>2, ElsewhereTags
  <2>3. CASE ~(hint.value >= seq[r])
    <3>1. Hold(r, "writeSeq", hint, 0, 0) BY <1>3, <2>3 DEF ReadSequenceRow
    <3>2. LoopsKept(r) /\ seen'[r] = hint BY <3>1, HoldGoes DEF LogInv
    <3>3. hint.tag <= hint.tag /\ hint.value < seq[r] BY <2>0, <2>3
    <3>4. ASSUME NEW q \in Requests, pc'[q] = "writeSeq"
          PROVE  /\ seen'[q].tag <= hint'.tag
                 /\ seen'[q].tag = hint'.tag => hint'.value < seq'[q]
      <4>1. CASE q = r BY <2>1, <3>2, <3>3, <4>1
      <4>2. CASE q # r BY <2>1, <3>2, <3>4, <4>2 DEF LoopsKept, HintTags
      <4> QED BY <4>1, <4>2
    <3> QED BY <3>4 DEF HintTags
  <2> QED BY <2>2, <2>3
<1>4. CASE Boot
  <2>1. phase # "serving" /\ pc' = pc
    BY <1>4 DEF Boot, Start, SeedEntry, SeedEvent, Reconcile, loop
  <2> QED BY <2>1 DEF LogInv, Alone, Ended, HintTags
<1>5. CASE Crash BY <1>5 DEF Crash, Ended, HintTags
<1>6. CASE UNCHANGED vars BY <1>6 DEF vars, store, loop, answer, HintTags
<1> QED BY <1>1, <1>2, <1>3, <1>4, <1>5, <1>6 DEF Next

-----------------------------------------------------------------------------
(***************************************************************************)
(* The steps of the log and of the announced number.                       *)
(***************************************************************************)
LEMMA EventsAreLog ==
  ASSUME NEW m \in Nat, DOMAIN log = 1 .. m, \A n \in 1 .. m : log[n] \in Event(Entries)
  PROVE  /\ Events \in Seq(Event(Entries)) /\ Len(Events) = m
         /\ \A n \in 1 .. m : Events[n] = log[n]
<1>1. Cardinality(DOMAIN log) = m BY FS_Interval
<1>2. Events = [n \in 1 .. m |-> log[n]] BY <1>1 DEF Events
<1> QED BY <1>2

(* Which of the steps of a request write the log, and the Sequence row. *)
LEMMA AskWritesNothing ==
  ASSUME NEW r \in Requests, Ask(r) \/ HangUp(r)
  PROVE  UNCHANGED <<phase, store>>
BY DEF Ask, StartCheckIn, StartCallNext, StartState, StartSince, StartOnEntry, Accept, HangUp,
       NoWrite, host

LEMMA WorkWrites ==
  ASSUME NEW r \in Requests, Work(r)
  PROVE  /\ phase' = phase
         /\ AddEvent(r) \/ log' = log
         /\ WriteSequenceRow(r) \/ hint' = hint
BY DEF Work, AddEntry, UpdateEntry, PutEntry, FindOldestWaiting, GetEntry, UpdateRefused,
       ReadCount, WriteCount, PutCount, CountRefused, ReadHint, AddEvent, PutEvent, EventTaken,
       PassEvent, ReadSequenceRow, WriteSequenceRow, PutHint, HintRefused, ReadLatest,
       ScanEvents, BuildSnapshot, NoWrite, host, store

(* Only an appender and the seeding write an event, each at the next number. *)
LEMMA LogMoves ==
  ASSUME LogInv, [Next]_vars, NEW m \in Nat, DOMAIN log = 1 .. m
  PROVE  log' = log \/ \E event : log' = LogWith(m + 1, event)
<1> USE DEF LogInv
<1>1. ASSUME NEW r \in Requests, AddEvent(r) PROVE \E event : log' = LogWith(m + 1, event)
  <2>1. next[r] = m + 1 BY <1>1, ClaimIsNext DEF AddEvent
  <2> QED BY <1>1, <2>1 DEF AddEvent, PutEvent
<1>2. ASSUME SeedEvent PROVE \E event : log' = LogWith(m + 1, event)
  <2>1. stamp \in Nat \ {0} /\ 1 .. m = 1 .. (stamp - 1)
    BY <1>2, TableQueueAssumption DEF SeedEvent, Seeding
  <2>2. stamp = m + 1
    <3>1. m \in 1 .. m \/ m = 0 OBVIOUS
    <3>2. stamp - 1 \in 1 .. (stamp - 1) \/ stamp - 1 = 0 BY <2>1
    <3> QED BY <2>1, <3>1, <3>2
  <2> QED BY <1>2, <2>2 DEF SeedEvent
<1>3. ASSUME NEW r \in Requests, Ask(r) \/ HangUp(r) PROVE log' = log
  BY <1>3, AskWritesNothing DEF store
<1>4. ASSUME NEW r \in Requests, Work(r), ~AddEvent(r) PROVE log' = log
  BY <1>4, WorkWrites
<1>5. ASSUME Boot \/ Crash, ~SeedEvent PROVE log' = log
  BY <1>5 DEF Boot, Start, SeedEntry, Reconcile, Crash, store
<1>6. CASE UNCHANGED vars BY <1>6 DEF vars, store
<1> QED BY <1>1, <1>2, <1>3, <1>4, <1>5, <1>6 DEF Next

(* The Sequence row is raised under its ETag, or rebuilt from the log. *)
LEMMA HintMoves ==
  ASSUME LogInv, HintTags, [Next]_vars
  PROVE  hint'.value >= hint.value
<1> USE DEF LogInv
<1>0. hint.value \in Int /\ \A r \in Requests : seq[r] \in Int BY DEF TypeOK, Counter
<1>1. ASSUME hint' = hint PROVE hint'.value >= hint.value BY <1>0, <1>1
<1>2. ASSUME NEW r \in Requests, WriteSequenceRow(r) PROVE hint'.value >= hint.value
  <2>1. hint.value < seq[r] BY <1>2 DEF WriteSequenceRow, HintTags
  <2>2. hint'.value = seq[r] BY <1>2 DEF WriteSequenceRow, PutHint
  <2> QED BY <1>0, <2>1, <2>2
<1>3. ASSUME Reconcile PROVE hint'.value >= hint.value
  <2>1. PICK n \in {0} \cup DOMAIN log : IsLast(n) /\ hint' = [value |-> n, tag |-> 0]
    BY <1>3 DEF Reconcile
  <2>2. hint.value <= n
    <3>1. DOMAIN log \subseteq Nat \ {0} BY DEF TypeOK
    <3> QED BY <1>0, <2>1, <3>1 DEF HintNeverLeads, IsLast
  <2> QED BY <1>0, <2>1, <2>2
<1>4. ASSUME NEW r \in Requests, Ask(r) \/ HangUp(r) PROVE hint' = hint
  BY <1>4, AskWritesNothing DEF store
<1>5. ASSUME NEW r \in Requests, Work(r), ~WriteSequenceRow(r) PROVE hint' = hint
  BY <1>5, WorkWrites
<1>6. ASSUME Boot \/ Crash, ~Reconcile PROVE hint' = hint
  BY <1>6 DEF Boot, Start, SeedEntry, SeedEvent, Crash, store
<1>7. CASE UNCHANGED vars BY <1>1, <1>7 DEF vars, store
<1> QED BY <1>1, <1>2, <1>3, <1>4, <1>5, <1>6, <1>7 DEF Next

LEMMA StepRefines ==
  ASSUME LogInv, LogInv', HintTags, [Next]_vars
  PROVE  [Log!Next]_<<Events, hint.value>>
<1>1. PICK m \in Nat : DOMAIN log = 1 .. m BY LogShape DEF LogInv
<1>2. /\ Events \in Seq(Event(Entries)) /\ Len(Events) = m
      /\ \A n \in 1 .. m : Events[n] = log[n]
  BY <1>1, EventsAreLog DEF LogInv, TypeOK
<1>3. /\ hint.value \in Int /\ hint'.value \in Int /\ hint'.value >= hint.value
      /\ hint'.value = 0 \/ hint'.value \in DOMAIN log'
  BY HintMoves DEF LogInv, TypeOK, Counter, HintNeverLeads
<1>4. CASE log' = log
  <2>1. Events' = Events BY <1>4 DEF Events
  <2>2. hint'.value \in hint.value .. Len(Events') BY <1>1, <1>2, <1>3, <1>4, <2>1
  <2> QED BY <2>1, <2>2 DEF Log!Next
<1>5. ASSUME NEW event, log' = LogWith(m + 1, event) PROVE Log!Next
  <2>1. DOMAIN log' = 1 .. (m + 1) /\ log'[m + 1] = event /\ \A n \in 1 .. m : log'[n] = log[n]
    BY <1>1, <1>5, AppendShape
  <2>2. event \in Event(Entries)
    <3>1. \A n \in DOMAIN log' : log'[n] \in Event(Entries) BY DEF LogInv, TypeOK
    <3>2. m + 1 \in DOMAIN log' BY <2>1
    <3> QED BY <2>1, <3>1, <3>2
  <2>3. Events' = Append(Events, event)
    <3>1. Cardinality(DOMAIN log') = m + 1 BY <2>1, FS_Interval
    <3>2. Events' = [n \in 1 .. (m + 1) |-> log'[n]] BY <3>1 DEF Events
    <3>3. /\ Append(Events, event) \in Seq(Event(Entries))
          /\ Len(Append(Events, event)) = m + 1
          /\ \A n \in 1 .. m : Append(Events, event)[n] = Events[n]
          /\ Append(Events, event)[m + 1] = event
      BY <1>2, <2>2
    <3>4. \A n \in 1 .. (m + 1) : n = m + 1 \/ n \in 1 .. m OBVIOUS
    <3>5. /\ Events' \in Seq(Event(Entries)) /\ Len(Events') = m + 1
          /\ \A n \in 1 .. (m + 1) : Events'[n] = log'[n]
      <4>1. \A n \in 1 .. (m + 1) : log'[n] \in Event(Entries)
        BY <1>1, <1>2, <2>1, <2>2, <3>4, ElementOfSeq
      <4> QED BY <3>2, <4>1
    <3>6. \A n \in 1 .. (m + 1) : Append(Events, event)[n] = Events'[n]
      BY <1>2, <2>1, <3>3, <3>4, <3>5
    <3> QED BY <3>3, <3>5, <3>6, SeqEqual
  <2>4. Len(Events') = m + 1 BY <1>2, <2>2, <2>3
  <2>5. hint'.value \in hint.value .. Len(Events') BY <1>3, <2>1, <2>4
  <2> QED BY <2>2, <2>3, <2>5 DEF Log!Next, Log!Add
<1> QED BY <1>1, <1>4, <1>5, LogMoves

LEMMA InitRefines == Init => Log!Init
<1> SUFFICES ASSUME Init PROVE Log!Init OBVIOUS
<1>1. DOMAIN log = 1 .. 0 /\ hint.value = 0 BY DEF Init, Zero
<1>2. Events \in Seq(Event(Entries)) /\ Len(Events) = 0 BY <1>1, EventsAreLog
<1> QED BY <1>1, <1>2 DEF Log!Init

(***************************************************************************)
(* The Table Storage change log keeps the contract of QueueLog, without a  *)
(* transaction and through hang-ups, deaths and restarts.                  *)
(***************************************************************************)
THEOREM ImplementsLog == Spec => LogRefines
<1>1. Init => LogInv /\ HintTags BY InitLogInv DEF Init, HintTags
<1>2. LogInv /\ HintTags /\ [Next]_vars => (LogInv /\ HintTags)'
  BY NextLogInv, NextHintTags
<1>3. LogInv /\ LogInv' /\ HintTags /\ [Next]_vars => [Log!Next]_<<Events, hint.value>>
  BY StepRefines
<1>4. Spec => [](LogInv /\ HintTags) BY <1>1, <1>2, PTL DEF Spec
<1> QED BY <1>3, <1>4, InitRefines, PTL DEF Spec, LogRefines, Log!Spec

(***************************************************************************)
(* A catch-up diff has every number between the caller's and the one it    *)
(* announces, whatever was appended between its two reads.                 *)
(***************************************************************************)
THEOREM CatchUpHasNoHole == Spec => CatchUpContiguous
<1>1. ASSUME LogInv, NEW r \in Requests, ScanEvents(r), pc'[r] = "done"
      PROVE  Missed(next[r]) = (next[r] + 1) .. seq'[r]
  <2> USE <1>1 DEF LogInv
  <2>1. PICK m \in Nat : DOMAIN log = 1 .. m BY LogShape
  <2>2. next[r] \in 0 .. m BY <2>1 DEF Appenders, InUse, ScanEvents
  <2>3. Missed(next[r]) = (next[r] + 1) .. m BY <2>1, <2>2 DEF Missed
  <2>4. PICK last \in Missed(next[r]) \cup {next[r]} :
          (\A k \in Missed(next[r]) : k <= last) /\ seq' = [seq EXCEPT ![r] = last]
    BY GoGoes DEF ScanEvents
  <2>5. last = m
    <3>1. m \in Missed(next[r]) \/ next[r] = m BY <2>2, <2>3
    <3> QED BY <2>2, <2>3, <2>4, <3>1
  <2> QED BY <2>3, <2>4, <2>5 DEF TypeOK
<1>2. ASSUME LogInv, [Next]_vars, NEW r \in Requests, pc[r] = "scan", pc'[r] = "done"
      PROVE  ScanEvents(r)
  <2> USE <1>2 DEF LogInv
  <2>1. ASSUME NEW q \in Requests, Ask(q) \/ HangUp(q) PROVE FALSE
    <3>1. q = r BY <2>1, AskElsewhere DEF Elsewhere
    <3>2. CASE Ask(q)
      BY <3>1, <3>2 DEF Ask, StartCheckIn, StartCallNext, StartState, StartSince,
                        StartOnEntry, Accept
    <3>3. CASE HangUp(q) BY <3>1, <3>3, GoGoes DEF HangUp
    <3> QED BY <2>1, <3>2, <3>3
  <2>2. ASSUME NEW q \in Requests, Work(q) PROVE ScanEvents(r)
    <3>1. CASE q # r
      <4>1. pc'[r] = pc[r]
        <5>1. CASE ReadSequenceRow(q)
          <6>1. Go(q, "snapshot") \/ \E s, n, t : Hold(q, "writeSeq", s, n, t)
            BY <5>1 DEF ReadSequenceRow
          <6> QED BY <3>1, <6>1, GoGoes, HoldGoes DEF LoopsKept
        <5> QED BY <2>2, <3>1, <5>1, WorkElsewhere DEF Elsewhere
      <4> QED BY <4>1
    <3>2. CASE q = r
      BY <2>2, <3>2 DEF Work, AddEntry, FindOldestWaiting, GetEntry, UpdateEntry, UpdateRefused,
         ReadCount, WriteCount, CountRefused, ReadHint, AddEvent, EventTaken, PassEvent,
         ReadSequenceRow, WriteSequenceRow, HintRefused, ReadLatest, BuildSnapshot
    <3> QED BY <3>1, <3>2
  <2>3. CASE Boot
    BY <2>3 DEF Boot, Start, SeedEntry, SeedEvent, Reconcile, loop
  <2>4. CASE Crash BY <2>4 DEF Crash, Ended, TypeOK
  <2>5. CASE UNCHANGED vars BY <2>5 DEF vars, loop
  <2> QED BY <2>1, <2>2, <2>3, <2>4, <2>5 DEF Next
<1>3. LogInv /\ [Next]_vars =>
        [\A r \in Requests : pc[r] = "scan" /\ pc'[r] = "done" =>
           Missed(next[r]) = (next[r] + 1) .. seq'[r]]_vars
  BY <1>1, <1>2
<1> QED BY <1>3, LogInvariant, PTL DEF Spec, CatchUpContiguous

-----------------------------------------------------------------------------
(***************************************************************************)
(* What an answered mutation can be sure of. Until it appends, a request   *)
(* has no number; from then on it touches neither its copy nor the number, *)
(* and nobody writes a number twice.                                       *)
(***************************************************************************)
Reads == {"state", "since"}
BeforeWrite == {"idle", "add", "find", "get", "update"}

Ack(r) ==
  /\ pc[r] \in BeforeWrite \cup Logging => seq[r] = 0
  /\ pc[r] \in (BeforeWrite \cup Logging) \ {"idle"} => op[r] \notin Reads
  /\ pc[r] \in {"latest", "scan"} => op[r] \in Reads
  /\ pc[r] \in BeforeWrite \cup {"latest", "scan"} => ~wrote[r]
  /\ pc[r] \in {"readSeq", "writeSeq"} => Appended(r)
  /\ pc[r] \in {"snapshot", "done"} /\ wrote[r] => Appended(r)
  /\ Appended(r) => OwnEvent(r)

OwnNumbers ==
  \A r1, r2 \in Requests :
    Appended(r1) /\ Appended(r2) /\ seq[r1] = seq[r2] => r1 = r2

AckInv == (\A r \in Requests : Ack(r)) /\ OwnNumbers

LogGrows == \A n \in DOMAIN log : n \in DOMAIN log' /\ log'[n] = log[n]

LEMMA NextGrows == LogInv /\ [Next]_vars => LogGrows
<1> SUFFICES ASSUME LogInv, [Next]_vars PROVE LogGrows OBVIOUS
<1>1. PICK m \in Nat : DOMAIN log = 1 .. m BY LogShape DEF LogInv
<1>2. CASE log' = log BY <1>2 DEF LogGrows
<1>3. ASSUME NEW event, log' = LogWith(m + 1, event) PROVE LogGrows
  BY <1>1, <1>3, AppendShape DEF LogGrows
<1> QED BY <1>1, <1>2, <1>3, LogMoves

(* Everything Ack says of the requests other than r. *)
Apart(r) ==
  \A q \in Requests \ {r} : /\ pc'[q] = pc[q] /\ op'[q] = op[q] /\ ent'[q] = ent[q]
                            /\ st'[q] = st[q] /\ wrote'[q] = wrote[q] /\ seq'[q] = seq[q]

LEMMA AckStep ==
  ASSUME LogGrows, AckInv, NEW r \in Requests, Apart(r), Ack(r)',
         Appended(r)' => (Appended(r) /\ seq'[r] = seq[r]) \/ seq'[r] \notin DOMAIN log
  PROVE  AckInv'
<1>1. ASSUME NEW q \in Requests, q # r PROVE Ack(q)' /\ (Appended(q)' <=> Appended(q))
  <2>1. /\ pc'[q] = pc[q] /\ op'[q] = op[q] /\ ent'[q] = ent[q]
        /\ st'[q] = st[q] /\ wrote'[q] = wrote[q] /\ seq'[q] = seq[q]
    BY <1>1 DEF Apart
  <2>2. Ack(q) BY DEF AckInv
  <2>3. Appended(q)' <=> Appended(q) BY <2>1 DEF Appended
  <2>4. OwnEvent(q) => OwnEvent(q)' BY <2>1 DEF OwnEvent, LogGrows
  <2> QED BY <2>1, <2>2, <2>3, <2>4 DEF Ack
<1>2. \A q \in Requests : q # r /\ Appended(q) => seq'[q] = seq[q] /\ seq[q] \in DOMAIN log
  BY DEF Apart, AckInv, Ack, OwnEvent
<1>3. OwnNumbers'
  <2> SUFFICES ASSUME NEW r1 \in Requests, NEW r2 \in Requests, Appended(r1)', Appended(r2)',
                      seq'[r1] = seq'[r2]
               PROVE  r1 = r2
    BY DEF OwnNumbers
  <2>1. ASSUME NEW q \in Requests, q # r, Appended(q)', Appended(r)', seq'[q] = seq'[r]
        PROVE  FALSE
    <3>1. Appended(q) /\ seq'[q] = seq[q] /\ seq[q] \in DOMAIN log BY <1>1, <1>2, <2>1
    <3>2. Appended(r) /\ seq[r] = seq[q] BY <2>1, <3>1
    <3> QED BY <2>1, <3>1, <3>2 DEF AckInv, OwnNumbers
  <2>2. CASE r1 # r /\ r2 # r
    BY <1>1, <1>2, <2>2 DEF AckInv, OwnNumbers
  <2> QED BY <2>1, <2>2
<1> QED BY <1>1, <1>3 DEF AckInv

(* A step that gives r no number and leaves it the copy that it has logged. *)
LEMMA AckKept ==
  ASSUME LogInv, LogGrows, AckInv, NEW r \in Requests, LoopsKept(r),
         UNCHANGED <<op, ent, st, wrote, seq>>,
         \/ pc'[r] = "failed"
         \/ pc[r] \in BeforeWrite \cup Logging /\ pc'[r] \in (BeforeWrite \cup Logging) \ {"idle"}
              /\ pc[r] # "idle" /\ (pc'[r] \in BeforeWrite => pc[r] \in BeforeWrite)
         \/ pc[r] \in BeforeWrite /\ pc'[r] = "done"
         \/ pc[r] \in {"readSeq", "writeSeq"} /\ pc'[r] \in {"writeSeq", "snapshot"}
         \/ pc[r] = "latest" /\ pc'[r] = "scan"
         \/ pc[r] = "snapshot" /\ pc'[r] = "done"
  PROVE  AckInv'
<1>1. Apart(r) BY DEF Apart, LoopsKept
<1>2. Ack(r) BY DEF AckInv
<1>3. Appended(r)' <=> Appended(r) BY DEF Appended
<1>4. OwnEvent(r) => OwnEvent(r)' BY DEF OwnEvent, LogGrows
<1>5. Ack(r)' BY <1>2, <1>3, <1>4 DEF Ack, BeforeWrite, Logging
<1> QED BY <1>1, <1>3, <1>5, AckStep

LEMMA AckAsk ==
  ASSUME LogInv, LogGrows, AckInv, NEW r \in Requests, Ask(r) \/ HangUp(r)
  PROVE  AckInv'
<1> USE DEF LogInv
<1>1. ASSUME NEW p \in {"add", "find", "get", "latest"}, NEW o, NEW e, NEW s, NEW n,
             Accept(r, p, o, e, s, n), p = "latest" <=> o \in Reads
      PROVE  AckInv'
  <2>1. LoopsKept(r) /\ pc'[r] = p BY <1>1, HoldGoes DEF Accept
  <2>2. /\ pc[r] = "idle" /\ op' = [op EXCEPT ![r] = o] /\ ent' = [ent EXCEPT ![r] = e]
        /\ st' = [st EXCEPT ![r] = s] /\ UNCHANGED <<wrote, seq>>
    BY <1>1 DEF Accept, answer
  <2>3. Apart(r) /\ op'[r] = o BY <2>1, <2>2 DEF Apart, LoopsKept, TypeOK
  <2>4. seq'[r] = 0 /\ ~wrote'[r] BY <2>2 DEF AckInv, Ack, BeforeWrite
  <2>5. ~Appended(r)' BY <2>4 DEF Appended
  <2>6. Ack(r)' BY <1>1, <2>1, <2>3, <2>4, <2>5 DEF Ack, BeforeWrite, Logging
  <2> QED BY <2>3, <2>5, <2>6, AckStep
<1>2. CASE HangUp(r)
  BY <1>2, GoGoes, AckKept DEF HangUp, NoWrite, effect, job, answer
<1>3. CASE StartCheckIn(r) BY <1>1, <1>3 DEF StartCheckIn, Reads
<1>4. CASE StartCallNext(r) BY <1>1, <1>4 DEF StartCallNext, Reads
<1>5. CASE StartState(r) BY <1>1, <1>5 DEF StartState, Reads
<1>6. CASE StartSince(r)
  <2>1. \E n : Accept(r, "latest", "since", 0, Absent, n) BY <1>6 DEF StartSince
  <2> QED BY <1>1, <2>1 DEF Reads
<1>7. ASSUME NEW o \in {"complete", "cancel", "document"}, NEW e, StartOnEntry(r, o, e)
      PROVE  AckInv'
  BY <1>1, <1>7 DEF StartOnEntry, Reads
<1> QED BY <1>2, <1>3, <1>4, <1>5, <1>6, <1>7 DEF Ask

LEMMA AckWork ==
  ASSUME LogInv, LogGrows, AckInv, NEW r \in Requests, Work(r)
  PROVE  AckInv'
<1> USE DEF LogInv
<1>0. Ack(r) BY DEF AckInv
<1>1. ASSUME pc[r] \in {"add", "update"}, PutEntry(r) PROVE AckInv'
  <2>1. /\ LoopsKept(r) /\ pc'[r] \in {"readHint", "readCount"}
        /\ wrote' = [wrote EXCEPT ![r] = TRUE] /\ UNCHANGED <<op, ent, st, seq>>
    BY <1>1, GoGoes DEF PutEntry, job, answer
  <2>2. Apart(r) BY <2>1 DEF Apart, LoopsKept, TypeOK
  <2>3. seq'[r] = 0 /\ op'[r] \notin Reads
    BY <1>0, <1>1, <2>1 DEF Ack, BeforeWrite, Logging
  <2>4. ~Appended(r)' BY <2>3 DEF Appended
  <2>5. Ack(r)' BY <2>1, <2>3, <2>4 DEF Ack, BeforeWrite, Logging
  <2> QED BY <2>2, <2>4, <2>5, AckStep
<1>2. CASE FindOldestWaiting(r)
  <2>1. /\ UNCHANGED <<op, wrote, seq>> /\ pc[r] = "find"
        /\ \A q \in Requests \ {r} : ent'[q] = ent[q] /\ st'[q] = st[q]
    BY <1>2 DEF FindOldestWaiting, answer, TypeOK
  <2>2. LoopsKept(r) /\ pc'[r] \in {"done", "update"}
    <3>1. Go(r, "done") \/ \E s, n, t : Hold(r, "update", s, n, t)
      BY <1>2 DEF FindOldestWaiting
    <3> QED BY <3>1, GoGoes, HoldGoes
  <2>3. Apart(r) BY <2>1, <2>2 DEF Apart, LoopsKept
  <2>4. seq'[r] = 0 /\ op'[r] \notin Reads /\ ~wrote'[r]
    BY <1>0, <2>1 DEF Ack, BeforeWrite, Logging
  <2>5. ~Appended(r)' BY <2>4 DEF Appended
  <2>6. Ack(r)' BY <2>2, <2>4, <2>5 DEF Ack, BeforeWrite, Logging
  <2> QED BY <2>3, <2>5, <2>6, AckStep
<1>3. CASE GetEntry(r)
  <2>1. /\ UNCHANGED <<op, ent, wrote, seq>> /\ pc[r] = "get"
        /\ \A q \in Requests \ {r} : st'[q] = st[q]
    BY <1>3 DEF GetEntry, answer, TypeOK
  <2>2. LoopsKept(r) /\ pc'[r] \in {"done", "update", "readHint"}
    <3>1. Go(r, "readHint") \/ Go(r, "done") \/ \E s, n, t : Hold(r, "update", s, n, t)
      BY <1>3 DEF GetEntry
    <3> QED BY <3>1, GoGoes, HoldGoes
  <2>3. Apart(r) BY <2>1, <2>2 DEF Apart, LoopsKept
  <2>4. seq'[r] = 0 /\ op'[r] \notin Reads /\ ~wrote'[r]
    BY <1>0, <2>1 DEF Ack, BeforeWrite, Logging
  <2>5. ~Appended(r)' BY <2>4 DEF Appended
  <2>6. Ack(r)' BY <2>2, <2>4, <2>5 DEF Ack, BeforeWrite, Logging
  <2> QED BY <2>3, <2>5, <2>6, AckStep
<1>4. CASE UpdateRefused(r)
  <2>1. \/ pc'[r] = "failed" \/ pc'[r] \in {"find", "get"}
    BY <1>4, RetryGoes DEF UpdateRefused
  <2>2. LoopsKept(r) /\ UNCHANGED <<op, ent, st, wrote, seq>> /\ pc[r] = "update"
    BY <1>4, RetryGoes DEF UpdateRefused, NoWrite, effect, job, answer
  <2> QED BY <2>1, <2>2, AckKept DEF BeforeWrite
<1>5. CASE ReadCount(r) \/ CountRefused(r) \/ ReadHint(r) \/ EventTaken(r) \/ PassEvent(r)
  <2>1. pc'[r] = "failed" \/ pc'[r] \in Logging
    BY <1>5, RetryGoes, HoldGoes
       DEF ReadCount, CountRefused, ReadHint, EventTaken, PassEvent, Logging
  <2>2. LoopsKept(r) /\ UNCHANGED <<op, ent, st, wrote, seq>> /\ pc[r] \in Logging
    BY <1>5, RetryGoes, HoldGoes
       DEF ReadCount, CountRefused, ReadHint, EventTaken, PassEvent, Logging,
           NoWrite, effect, job, answer
  <2> QED BY <2>1, <2>2, AckKept DEF BeforeWrite, Logging
<1>6. CASE WriteCount(r)
  <2>1. /\ LoopsKept(r) /\ pc'[r] = "readHint" /\ pc[r] = "writeCount"
        /\ UNCHANGED <<op, ent, st, wrote, seq>>
    BY <1>6, GoGoes DEF WriteCount, PutCount, job
  <2> QED BY <2>1, AckKept DEF BeforeWrite, Logging
<1>7. CASE AddEvent(r)
  <2>1. /\ LoopsKept(r) /\ pc'[r] = "readSeq" /\ pc[r] = "addEvent"
        /\ UNCHANGED <<op, ent, st, wrote>> /\ seq' = [seq EXCEPT ![r] = next[r]]
        /\ log' = LogWith(next[r], [entry |-> ent[r], status |-> st[r]])
        /\ next[r] \notin DOMAIN log
    BY <1>7, GoGoes DEF AddEvent, PutEvent, job, effect
  <2>2. Apart(r) /\ seq'[r] = next[r] BY <2>1 DEF Apart, LoopsKept, TypeOK
  <2>3. PICK m \in Nat : DOMAIN log = 1 .. m BY LogShape
  <2>4. next[r] = m + 1 BY <2>1, <2>3, ClaimIsNext
  <2>5. op'[r] \notin Reads BY <1>0, <2>1 DEF Ack, BeforeWrite, Logging
  <2>6. Appended(r)' BY <2>2, <2>3, <2>4, <2>5 DEF Appended, Reads
  <2>7. OwnEvent(r)' BY <2>1, <2>2 DEF OwnEvent, LogWith
  <2>8. Ack(r)' BY <2>1, <2>6, <2>7 DEF Ack, BeforeWrite, Logging
  <2> QED BY <2>1, <2>2, <2>8, AckStep
<1>8. CASE ReadSequenceRow(r) \/ WriteSequenceRow(r) \/ HintRefused(r)
  <2>1. /\ LoopsKept(r) /\ pc'[r] \in {"writeSeq", "snapshot"}
        /\ pc[r] \in {"readSeq", "writeSeq"} /\ UNCHANGED <<op, ent, st, wrote, seq>>
    BY <1>8, GoGoes, HoldGoes
       DEF ReadSequenceRow, WriteSequenceRow, HintRefused, PutHint, NoWrite, effect, job, answer
  <2> QED BY <2>1, AckKept
<1>9. CASE ReadLatest(r) \/ ScanEvents(r)
  <2>1. /\ UNCHANGED <<op, ent, st, wrote>> /\ pc[r] \in {"latest", "scan"}
        /\ \A q \in Requests \ {r} : seq'[q] = seq[q]
    BY <1>9 DEF ReadLatest, ScanEvents, NoWrite, effect, job, TypeOK
  <2>2. LoopsKept(r) /\ pc'[r] \in {"scan", "snapshot", "done"}
    <3>1. Go(r, "snapshot") \/ Go(r, "done") \/ \E s, n, t : Hold(r, "scan", s, n, t)
      BY <1>9 DEF ReadLatest, ScanEvents
    <3> QED BY <3>1, GoGoes, HoldGoes
  <2>3. Apart(r) BY <2>1, <2>2 DEF Apart, LoopsKept
  <2>4. op'[r] \in Reads /\ ~wrote'[r] BY <1>0, <2>1 DEF Ack
  <2>5. ~Appended(r)' BY <2>4 DEF Appended, Reads
  <2>6. Ack(r)' BY <2>2, <2>4, <2>5 DEF Ack, BeforeWrite, Logging
  <2> QED BY <2>3, <2>5, <2>6, AckStep
<1>10. CASE BuildSnapshot(r)
  BY <1>10, GoGoes, AckKept DEF BuildSnapshot, NoWrite, effect, job, answer
<1> QED BY <1>1, <1>2, <1>3, <1>4, <1>5, <1>6, <1>7, <1>8, <1>9, <1>10
        DEF Work, AddEntry, UpdateEntry

LEMMA NextAck == LogInv /\ AckInv /\ [Next]_vars => AckInv'
<1> SUFFICES ASSUME LogInv, AckInv, [Next]_vars PROVE AckInv' OBVIOUS
<1>0. LogGrows BY NextGrows
<1>1. ASSUME NEW r \in Requests, Ask(r) \/ HangUp(r) PROVE AckInv' BY <1>0, <1>1, AckAsk
<1>2. ASSUME NEW r \in Requests, Work(r) PROVE AckInv' BY <1>0, <1>2, AckWork
<1>3. CASE Boot \/ Crash \/ UNCHANGED vars
  <2>1. /\ UNCHANGED <<op, ent, st, wrote, seq>>
        /\ \A r \in Requests : pc'[r] = pc[r] \/ pc'[r] = "failed"
    BY <1>3 DEF Boot, Start, SeedEntry, SeedEvent, Reconcile, Crash, vars, job, loop, effect,
                answer, LogInv, TypeOK
  <2>2. ASSUME NEW r \in Requests PROVE Ack(r)' /\ (Appended(r)' <=> Appended(r))
    <3>1. Ack(r) BY DEF AckInv
    <3>2. Appended(r)' <=> Appended(r) BY <2>1 DEF Appended
    <3>3. OwnEvent(r) => OwnEvent(r)' BY <1>0, <2>1 DEF OwnEvent, LogGrows
    <3> QED BY <2>1, <3>1, <3>2, <3>3 DEF Ack, BeforeWrite, Logging
  <2>3. OwnNumbers' BY <2>1, <2>2 DEF AckInv, OwnNumbers
  <2> QED BY <2>2, <2>3 DEF AckInv
<1> QED BY <1>1, <1>2, <1>3 DEF Next

(***************************************************************************)
(* An answered mutation is in the log under its own number, with the copy  *)
(* it wrote (TableStorageQueueRepository.cs:457): hang-ups, deaths, lost   *)
(* races and retries neither drop it nor give its number to another.       *)
(***************************************************************************)
THEOREM AnswersAreLogged == Spec => []AcknowledgedIsLogged
<1>1. Init => LogInv /\ AckInv
  BY InitLogInv DEF Init, AckInv, Ack, Appended, OwnNumbers, BeforeWrite
<1>2. AckInv => AcknowledgedIsLogged
  BY DEF AckInv, Ack, OwnNumbers, AcknowledgedIsLogged
<1> QED BY <1>1, <1>2, NextLogInv, NextAck, PTL DEF Spec

-----------------------------------------------------------------------------
(***************************************************************************)
(* How far the Sequence row lags. A number above it is of a request of     *)
(* this life of the host. Until the row is first raised after a start,     *)
(* that request is about to raise it, with the ETag of the start, or has   *)
(* ended before it could; from then on the row's own number is of one too. *)
(***************************************************************************)
Numbered(r, n) == Appended(r) /\ seq[r] = n

Raising(r) ==
  Appended(r) /\ seq[r] > hint.value =>
    /\ pc[r] \in {"readSeq", "writeSeq", "failed"}
    /\ pc[r] = "writeSeq" => seen[r].tag = 0

AboveHint == \A n \in DOMAIN log : n > hint.value => \E r \in Requests : Numbered(r, n)

Lag ==
  phase = "serving" =>
    /\ AboveHint
    /\ IF hint.tag = 0 THEN \A r \in Requests : Raising(r)
                       ELSE \E r \in Requests : Numbered(r, hint.value)

LagInv == LogInv /\ HintTags /\ AckInv /\ Lag

(* What a step of r leaves alone of the other requests. *)
Alongside(r) ==
  \A q \in Requests \ {r} : /\ pc'[q] = pc[q] /\ seen'[q] = seen[q]
                            /\ op'[q] = op[q] /\ seq'[q] = seq[q]

LEMMA AlongsideStep ==
  ASSUME LogInv, NEW r \in Requests, Ask(r) \/ HangUp(r) \/ Work(r)
  PROVE  Alongside(r)
<1> USE DEF LogInv
<1>1. ASSUME NEW q \in Requests \ {r} PROVE op'[q] = op[q]
  BY <1>1 DEF Ask, StartCheckIn, StartCallNext, StartState, StartSince, StartOnEntry, Accept,
     HangUp, Work, AddEntry, UpdateEntry, PutEntry, FindOldestWaiting, GetEntry, UpdateRefused,
     ReadCount, WriteCount, PutCount, CountRefused, ReadHint, AddEvent, PutEvent, EventTaken,
     PassEvent, ReadSequenceRow, WriteSequenceRow, PutHint, HintRefused, ReadLatest,
     ScanEvents, BuildSnapshot, job, TypeOK
<1>2. CASE Ask(r) \/ HangUp(r) BY <1>1, <1>2, AskElsewhere DEF Elsewhere, Alongside
<1>3. CASE Work(r) /\ ~ReadSequenceRow(r)
  BY <1>1, <1>3, WorkElsewhere DEF Elsewhere, Alongside
<1>4. CASE ReadSequenceRow(r)
  <2>1. Go(r, "snapshot") \/ \E s, n, t : Hold(r, "writeSeq", s, n, t)
    BY <1>4 DEF ReadSequenceRow
  <2>2. LoopsKept(r) BY <2>1, GoGoes, HoldGoes
  <2> QED BY <1>1, <1>4, <2>2 DEF ReadSequenceRow, Alongside, LoopsKept, answer
<1> QED BY <1>2, <1>3, <1>4

(* A request that has appended keeps its number, and only AddEvent gives one. *)
LEMMA NumberStays ==
  ASSUME LogInv, AckInv, NEW r \in Requests, Ask(r) \/ HangUp(r) \/ Work(r)
  PROVE  /\ Appended(r) => Appended(r)' /\ seq'[r] = seq[r]
         /\ Appended(r)' => Appended(r) \/ AddEvent(r)
<1> USE DEF LogInv
<1>0. Ack(r) BY DEF AckInv
<1>1. CASE Ask(r)
  <2>1. pc[r] = "idle" /\ seq' = seq
    BY <1>1 DEF Ask, StartCheckIn, StartCallNext, StartState, StartSince, StartOnEntry, Accept,
                answer
  <2>2. seq[r] = 0 BY <1>0, <2>1 DEF Ack, BeforeWrite
  <2> QED BY <2>1, <2>2 DEF Appended
<1>2. CASE AddEvent(r)
  <2>1. seq[r] = 0 BY <1>0, <1>2 DEF AddEvent, Ack, Logging
  <2> QED BY <1>2, <2>1 DEF Appended
<1>3. CASE ReadLatest(r) \/ ScanEvents(r)
  <2>1. op[r] \in Reads /\ op' = op
    BY <1>0, <1>3 DEF ReadLatest, ScanEvents, Ack, job
  <2> QED BY <2>1 DEF Appended, Reads
<1>4. ASSUME UNCHANGED <<op, seq>>
      PROVE  (Appended(r) <=> Appended(r)') /\ seq'[r] = seq[r]
  BY <1>4 DEF Appended
<1>5. CASE HangUp(r) \/ (Work(r) /\ ~AddEvent(r) /\ ~ReadLatest(r) /\ ~ScanEvents(r))
  <2>1. UNCHANGED <<op, seq>>
    BY <1>5 DEF HangUp, Work, AddEntry, UpdateEntry, PutEntry, FindOldestWaiting, GetEntry,
       UpdateRefused, ReadCount, WriteCount, PutCount, CountRefused, ReadHint, EventTaken,
       PassEvent, ReadSequenceRow, WriteSequenceRow, PutHint, HintRefused, BuildSnapshot,
       job, answer
  <2> QED BY <1>4, <2>1
<1> QED BY <1>1, <1>2, <1>3, <1>5

(***************************************************************************)
(* A step of r, but for the writes of the log and the row: it leaves the   *)
(* numbers where they are, and r, unless it raises the row, without one.   *)
(***************************************************************************)
LEMMA LagStands ==
  ASSUME LagInv, NEW r \in Requests, phase = "serving", phase' = phase, Alongside(r),
         Appended(r) => Appended(r)' /\ seq'[r] = seq[r],
         UNCHANGED <<log, hint>>, hint.tag = 0 => Raising(r)'
  PROVE  Lag'
<1>1. ASSUME NEW q \in Requests, NEW n, Numbered(q, n) PROVE Numbered(q, n)'
  BY <1>1 DEF Alongside, Numbered, Appended
<1>2. AboveHint' BY <1>1 DEF LagInv, Lag, AboveHint
<1>3. CASE hint.tag = 0
  <2>1. ASSUME NEW q \in Requests \ {r} PROVE Raising(q)'
    <3>1. Raising(q) BY <1>3 DEF LagInv, Lag
    <3> QED BY <3>1 DEF Raising, Appended, Alongside
  <2> QED BY <1>2, <1>3, <2>1 DEF Lag
<1>4. CASE hint.tag # 0
  <2>1. \E q \in Requests : Numbered(q, hint.value)' BY <1>1, <1>4 DEF LagInv, Lag
  <2> QED BY <1>2, <1>4, <2>1 DEF Lag, Numbered
<1> QED BY <1>3, <1>4

LEMMA LagElsewhere ==
  ASSUME LagInv, NEW r \in Requests, Ask(r) \/ Work(r), phase = "serving", phase' = phase,
         pc[r] \notin {"readSeq", "writeSeq"}, ~AddEvent(r), UNCHANGED <<log, hint>>
  PROVE  Lag'
<1>1. /\ Alongside(r)
      /\ Appended(r) => Appended(r)' /\ seq'[r] = seq[r]
      /\ Appended(r)' => Appended(r)
  BY AlongsideStep, NumberStays DEF LagInv
<1>2. pc[r] # "failed"
  BY DEF Ask, StartCheckIn, StartCallNext, StartState, StartSince, StartOnEntry, Accept,
     Work, AddEntry, UpdateEntry, FindOldestWaiting, GetEntry, UpdateRefused,
     ReadCount, WriteCount, CountRefused, ReadHint, AddEvent, EventTaken, PassEvent,
     ReadSequenceRow, WriteSequenceRow, HintRefused, ReadLatest, ScanEvents, BuildSnapshot
<1>3. hint.tag = 0 => Raising(r)'
  <2>1. hint.tag = 0 => ~(Appended(r) /\ seq[r] > hint.value) BY <1>2 DEF LagInv, Lag, Raising
  <2> QED BY <1>1, <2>1 DEF Raising
<1> QED BY <1>1, <1>3, LagStands

LEMMA LagAppends ==
  ASSUME LagInv, NEW r \in Requests, AddEvent(r), phase = "serving", phase' = phase
  PROVE  Lag'
<1> USE DEF LagInv, LogInv
<1>1. PICK m \in Nat : DOMAIN log = 1 .. m BY LogShape
<1>2. next[r] = m + 1 BY <1>1, ClaimIsNext DEF AddEvent
<1>3. /\ Go(r, "readSeq") /\ UNCHANGED <<hint, op>> /\ seq' = [seq EXCEPT ![r] = m + 1]
      /\ \E event : log' = LogWith(m + 1, event)
  BY <1>2 DEF AddEvent, PutEvent, job
<1>4. Alongside(r) BY AlongsideStep DEF Work
<1>5. pc'[r] = "readSeq" /\ seq'[r] = m + 1 /\ hint.value \in 0 .. m
  <2>1. hint.value \in 0 .. m BY <1>1 DEF HintNeverLeads
  <2> QED BY <1>3, <2>1, GoGoes DEF TypeOK
<1>6. Numbered(r, m + 1)' /\ hint.value < m + 1
  <2>1. op[r] \notin Reads BY DEF AckInv, Ack, AddEvent, BeforeWrite, Logging
  <2> QED BY <1>3, <1>5, <2>1 DEF Numbered, Appended, Reads
<1>7. ASSUME NEW q \in Requests, NEW n, Numbered(q, n) PROVE Numbered(q, n)'
  <2>1. ~Appended(r) BY DEF AckInv, Ack, AddEvent, Appended, Logging
  <2> QED BY <1>4, <1>7, <2>1 DEF Alongside, Numbered, Appended
<1>8. AboveHint'
  <2>1. DOMAIN log' = 1 .. (m + 1) BY <1>1, <1>3, AppendShape
  <2>2. ASSUME NEW n \in 1 .. (m + 1), n > hint.value PROVE \E q \in Requests : Numbered(q, n)'
    <3>1. CASE n = m + 1 BY <1>6, <3>1
    <3>2. CASE n \in 1 .. m
      <4>1. PICK q \in Requests : Numbered(q, n) BY <1>1, <2>2, <3>2 DEF Lag, AboveHint
      <4> QED BY <1>7, <4>1
    <3> QED BY <1>1, <3>1, <3>2
  <2> QED BY <1>3, <2>1, <2>2 DEF AboveHint, Numbered
<1>9. CASE hint.tag = 0
  <2>1. Raising(r)' BY <1>3, <1>5, <1>6 DEF Raising
  <2>2. ASSUME NEW q \in Requests \ {r} PROVE Raising(q)'
    <3>1. Raising(q) BY <1>9 DEF Lag
    <3> QED BY <1>3, <1>4, <3>1 DEF Raising, Appended, Alongside
  <2>3. \A q \in Requests : Raising(q)' BY <2>1, <2>2
  <2> QED BY <1>3, <1>8, <1>9, <2>3 DEF Lag
<1>10. CASE hint.tag # 0
  <2>1. PICK q \in Requests : Numbered(q, hint.value) BY <1>10 DEF Lag
  <2>2. Numbered(q, hint.value)' BY <1>3, <1>7, <2>1 DEF Numbered, Appended
  <2> QED BY <1>3, <1>8, <1>10, <2>2 DEF Lag
<1> QED BY <1>9, <1>10

LEMMA LagRaised ==
  ASSUME LagInv, NEW r \in Requests, WriteSequenceRow(r), phase = "serving", phase' = phase
  PROVE  Lag'
<1> USE DEF LagInv, LogInv
<1>1. /\ pc[r] = "writeSeq" /\ hint.tag = seen[r].tag /\ UNCHANGED <<log, op, seq>>
      /\ hint' = [value |-> seq[r], tag |-> hint.tag + 1]
  BY DEF WriteSequenceRow, PutHint, job, answer
<1>2. Numbered(r, seq[r])' BY <1>1 DEF AckInv, Ack, Numbered, Appended
<1>3. /\ hint.value < seq[r] /\ hint.value \in Int /\ seq[r] \in Int /\ DOMAIN log \subseteq Int
      /\ hint.tag \in Nat
  BY <1>1 DEF HintTags, TypeOK, Counter
<1>4. AboveHint'
  <2>1. ASSUME NEW n \in DOMAIN log, n > seq[r] PROVE \E q \in Requests : Numbered(q, n)
    BY <1>3, <2>1 DEF Lag, AboveHint
  <2> QED BY <1>1, <2>1 DEF AboveHint, Numbered, Appended
<1>5. hint'.tag # 0 /\ hint'.value = seq'[r] BY <1>1, <1>3
<1> QED BY <1>1, <1>2, <1>4, <1>5 DEF Lag, Numbered

LEMMA LagWork ==
  ASSUME LagInv, NEW r \in Requests, Work(r)
  PROVE  Lag'
<1> USE DEF LagInv, LogInv
<1>1. pc[r] \notin Ended
  BY DEF Ended, Work, AddEntry, UpdateEntry, FindOldestWaiting, GetEntry, UpdateRefused,
     ReadCount, WriteCount, CountRefused, ReadHint, AddEvent, EventTaken, PassEvent,
     ReadSequenceRow, WriteSequenceRow, HintRefused, ReadLatest, ScanEvents, BuildSnapshot
<1>2. phase = "serving" /\ phase' = phase BY <1>1, WorkWrites DEF Alone
<1>3. CASE AddEvent(r) BY <1>2, <1>3, LagAppends
<1>4. CASE WriteSequenceRow(r) BY <1>2, <1>4, LagRaised
<1>5. CASE ReadSequenceRow(r) \/ HintRefused(r)
  <2>1. UNCHANGED <<log, hint, op, seq>> /\ pc[r] \in {"readSeq", "writeSeq"}
    BY <1>5 DEF ReadSequenceRow, HintRefused, NoWrite, store, job, answer
  <2>2. Alongside(r) /\ (Appended(r) <=> Appended(r)') /\ Appended(r)
    BY <2>1, AlongsideStep DEF Work, Appended, AckInv, Ack
  <2>3. ASSUME hint.tag = 0 PROVE Raising(r)'
    <3> SUFFICES ASSUME seq[r] > hint.value PROVE Raising(r)' BY <2>1 DEF Raising
    <3>1. Raising(r) BY <1>2, <2>3 DEF Lag
    <3>2. hint.value < seq[r] /\ hint.value \in Int /\ seq[r] \in Int
          /\ (pc[r] = "writeSeq" => seen[r].tag = 0)
      BY <2>2, <3>1 DEF Raising, TypeOK, Counter
    <3>3. ~HintRefused(r) BY <2>3, <3>2 DEF HintRefused
    <3>4. ReadSequenceRow(r) /\ ~(hint.value >= seq[r]) BY <1>5, <3>2, <3>3
    <3>5. pc'[r] = "writeSeq" /\ seen'[r] = hint BY <3>4, HoldGoes DEF ReadSequenceRow
    <3> QED BY <2>1, <2>3, <3>2, <3>5 DEF Raising
  <2> QED BY <1>2, <2>1, <2>2, <2>3, LagStands
<1>6. CASE ~AddEvent(r) /\ ~WriteSequenceRow(r) /\ ~ReadSequenceRow(r) /\ ~HintRefused(r)
  <2>1. UNCHANGED <<log, hint>> BY <1>6, WorkWrites
  <2>2. pc[r] \notin {"readSeq", "writeSeq"}
    BY <1>6 DEF Work, AddEntry, UpdateEntry, FindOldestWaiting, GetEntry, UpdateRefused,
       ReadCount, WriteCount, CountRefused, ReadHint, EventTaken, PassEvent, ReadLatest,
       ScanEvents, BuildSnapshot
  <2> QED BY <1>2, <1>6, <2>1, <2>2, LagElsewhere
<1> QED BY <1>3, <1>4, <1>5, <1>6

LEMMA LagHangUp ==
  ASSUME LagInv, NEW r \in Requests, HangUp(r)
  PROVE  Lag'
<1> USE DEF LagInv, LogInv
<1>1. phase = "serving" /\ phase' = phase /\ UNCHANGED <<log, hint, op, seq>>
  BY DEF HangUp, Alone, NoWrite, host, store, job, answer
<1>2. pc'[r] = "failed" BY GoGoes DEF HangUp
<1>3. Raising(r)' BY <1>2 DEF Raising
<1> QED BY <1>1, <1>3, AlongsideStep, NumberStays, LagStands DEF Appended

LEMMA LagBoot ==
  ASSUME LagInv, Boot
  PROVE  Lag'
<1> USE DEF LagInv, LogInv
<1>1. UNCHANGED <<op, seq>>
  BY DEF Boot, Start, SeedEntry, SeedEvent, Reconcile, job, answer
<1>3. CASE phase' = "serving"
  <2>1. PICK n \in {0} \cup DOMAIN log : IsLast(n) /\ hint' = [value |-> n, tag |-> 0] /\ log' = log
    BY <1>3 DEF Boot, Start, SeedEntry, SeedEvent, Reconcile
  <2>2. \A k \in DOMAIN log' : ~(k > hint'.value)
    <3>1. DOMAIN log \subseteq Int /\ n \in Int BY DEF TypeOK
    <3> QED BY <2>1, <3>1 DEF IsLast
  <2>3. AboveHint' BY <2>2 DEF AboveHint
  <2>4. ASSUME NEW r \in Requests PROVE Raising(r)'
    <3>1. Appended(r) => seq[r] \in DOMAIN log' BY <2>1 DEF AckInv, Ack, OwnEvent
    <3> QED BY <1>1, <2>2, <3>1 DEF Raising, Appended
  <2> QED BY <1>3, <2>1, <2>3, <2>4 DEF Lag
<1>4. CASE phase' # "serving" BY <1>4 DEF Lag
<1> QED BY <1>3, <1>4

LEMMA NextLag ==
  ASSUME LagInv, [Next]_vars
  PROVE  LagInv'
<1>1. LogInv' /\ HintTags' /\ AckInv' BY NextLogInv, NextHintTags, NextAck DEF LagInv
<1>2. ASSUME Boot PROVE Lag' BY <1>2, LagBoot DEF LagInv
<1>3. ASSUME NEW r \in Requests, Ask(r) PROVE Lag'
  <2>1. phase = "serving" /\ phase' = phase /\ pc[r] = "idle"
    BY <1>3 DEF Ask, StartCheckIn, StartCallNext, StartState, StartSince, StartOnEntry, Accept
  <2>2. UNCHANGED <<log, hint>> BY <1>3, AskWritesNothing DEF store
  <2>3. ~AddEvent(r) BY <2>1 DEF AddEvent
  <2> QED BY <1>3, <2>1, <2>2, <2>3, LagElsewhere
<1>4. ASSUME NEW r \in Requests, Work(r) PROVE Lag' BY <1>4, LagWork
<1>5. ASSUME UNCHANGED vars PROVE Lag'
  <2>1. UNCHANGED <<phase, log, hint, pc, seen, op, seq>>
    BY <1>5 DEF vars, host, store, loop, job, answer
  <2>2. ASSUME NEW r \in Requests PROVE Raising(r) <=> Raising(r)'
    BY <2>1 DEF Raising, Appended
  <2>3. ASSUME NEW r \in Requests, NEW n PROVE Numbered(r, n) <=> Numbered(r, n)'
    BY <2>1 DEF Numbered, Appended
  <2>4. AboveHint <=> AboveHint' BY <2>1, <2>3 DEF AboveHint
  <2>5. (\E r \in Requests : Numbered(r, hint.value)) <=> (\E r \in Requests : Numbered(r, hint.value))'
    BY <2>1, <2>3
  <2> HIDE DEF LagInv
  <2>6. Lag BY DEF LagInv
  <2> QED BY <2>1, <2>2, <2>4, <2>5, <2>6 DEF Lag
<1>6. ASSUME Crash PROVE Lag' BY <1>6 DEF Crash, Lag
<1>7. ASSUME NEW r \in Requests, HangUp(r) PROVE Lag' BY <1>7, LagHangUp
<1>8. Lag'
  <2>1. CASE Next BY <1>2, <1>3, <1>4, <1>6, <1>7, <2>1 DEF Next
  <2> QED BY <1>5, <2>1
<1> QED BY <1>1, <1>8 DEF LagInv

LEMMA LagInvariant == Spec => []LagInv
<1>1. Init => LagInv
  BY InitLogInv DEF Init, LagInv, HintTags, AckInv, Ack, Appended, OwnNumbers, BeforeWrite, Lag
<1>2. LagInv /\ [Next]_vars => LagInv' BY NextLag
<1> QED BY <1>1, <1>2, PTL DEF Spec

(***************************************************************************)
(* The hint's lag is owed by requests in the three ways of LagIsOwed only: *)
(* of any number of requests, entries and attempts, with clients hanging   *)
(* up and the host dying anywhere.                                         *)
(***************************************************************************)
THEOREM OnlyOwedLag == Spec => []LagIsOwed
<1>1. LagInv => LagIsOwed
  <2> SUFFICES ASSUME LagInv, phase = "serving", NEW n \in DOMAIN log, n > hint.value
               PROVE  \E r \in Requests :
                        /\ Appended(r) /\ seq[r] = n
                        /\ \/ pc[r] \in {"readSeq", "writeSeq", "failed"}
                           \/ \E q \in Requests : Appended(q) /\ seq[q] = hint.value
    BY DEF LagIsOwed
  <2>1. PICK r \in Requests : Numbered(r, n) BY DEF LagInv, Lag, AboveHint
  <2> QED BY <2>1 DEF LagInv, Lag, Raising, Numbered
<1> QED BY <1>1, LagInvariant, PTL

(* Requests with a number above the hint, of which there are no fewer than numbers. *)
Ahead == {r \in Requests : Appended(r) /\ seq[r] > hint.value}

LEMMA RoomAbove ==
  ASSUME LagInv, phase = "serving", Cardinality(Ahead) < MaxAttempts
  PROVE  \E k \in 1 .. MaxAttempts : hint.value + k \notin DOMAIN log
<1> USE TableQueueAssumption DEF LagInv, LogInv
<1>1. PICK m \in Nat : DOMAIN log = 1 .. m BY LogShape
<1> DEFINE h == hint.value
<1>2. h \in 0 .. m BY <1>1 DEF HintNeverLeads
<1>3. \A n \in h + 1 .. m : \E r \in Ahead : seq[r] = n
  <2>1. ASSUME NEW n \in h + 1 .. m PROVE \E r \in Ahead : seq[r] = n
    <3>1. AboveHint BY DEF Lag
    <3>2. n \in 1 .. m /\ n > h BY <1>2
    <3> HIDE DEF LagInv, LogInv
    <3> QED BY <1>1, <3>1, <3>2 DEF AboveHint, Numbered, Ahead
  <2> QED BY <2>1
<1> DEFINE owner == [n \in h + 1 .. m |-> CHOOSE r \in Ahead : seq[r] = n]
<1>4. owner \in [h + 1 .. m -> Ahead] /\ \A n \in h + 1 .. m : seq[owner[n]] = n BY <1>3
<1>5. \A j, k \in h + 1 .. m : owner[j] = owner[k] => j = k BY <1>4
<1>6. IsFiniteSet(h + 1 .. m) /\ Cardinality(h + 1 .. m) = m - h
  <2> HIDE DEF LagInv, h, owner
  <2>1. h \in Int /\ m \in Int /\ h <= m /\ h + 1 \in Int BY <1>2
  <2>2. /\ IsFiniteSet(h + 1 .. m)
        /\ Cardinality(h + 1 .. m) = IF h + 1 > m THEN 0 ELSE m - (h + 1) + 1
    BY <2>1, FS_Interval
  <2> QED BY <2>1, <2>2
<1>7. IsFiniteSet(Ahead) /\ Cardinality(Ahead) \in Nat
  <2>1. IsFiniteSet(Ahead) BY FS_Subset DEF Ahead
  <2> QED BY <2>1, FS_CardinalityType
<1>8. ~(Cardinality(Ahead) < Cardinality(h + 1 .. m))
  <2> DEFINE numbers == h + 1 .. m
  <2>1. /\ owner \in [numbers -> Ahead] /\ IsFiniteSet(numbers)
        /\ \A j, k \in numbers : owner[j] = owner[k] => j = k
    BY <1>4, <1>5, <1>6
  <2> HIDE DEF owner, numbers
  <2>2. ~(Cardinality(Ahead) < Cardinality(numbers)) BY <1>7, <2>1, FS_PigeonHole
  <2> QED BY <2>2 DEF numbers
<1>9. m - h + 1 \in 1 .. MaxAttempts BY <1>2, <1>6, <1>7, <1>8
<1>10. hint.value + (m - h + 1) \notin DOMAIN log BY <1>1, <1>2
<1> QED BY <1>9, <1>10

(***************************************************************************)
(* An append finds a free number within its budget as long as fewer        *)
(* requests than that have a number above the hint (the loop at            *)
(* TableStorageQueueRepository.cs:461-487): with OnlyOwedLag, as long as   *)
(* fewer are raising the hint, have been hung up on before they could, or  *)
(* have lost the race to.                                                  *)
(***************************************************************************)
THEOREM RoomUnlessAhead ==
  Spec => [](phase = "serving" /\ Cardinality(Ahead) < MaxAttempts
               => \E k \in 1 .. MaxAttempts : hint.value + k \notin DOMAIN log)
<1>1. LagInv /\ phase = "serving" /\ Cardinality(Ahead) < MaxAttempts
        => \E k \in 1 .. MaxAttempts : hint.value + k \notin DOMAIN log
  BY RoomAbove
<1> QED BY <1>1, LagInvariant, PTL
=============================================================================
