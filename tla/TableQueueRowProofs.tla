------------------------ MODULE TableQueueRowProofs ------------------------
(***************************************************************************)
(* Theorems of TableQueue about the entry rows: who changes one, from      *)
(* which status, and that the log never runs ahead of them. They rest on   *)
(* TableQueueProofs, which settles the types and the log.                  *)
(***************************************************************************)
EXTENDS TableQueueProofs

(***************************************************************************)
(* The lifecycle: Reached is reflexive, closed under a legal step, and     *)
(* leads from no status to the absence of a row.                           *)
(***************************************************************************)
LEMMA ReachedStep ==
  ASSUME NEW a \in RowStatus, NEW b \in RowStatus, NEW c \in RowStatus,
         Reached(a, b), b = c \/ Legal(b, c)
  PROVE  Reached(a, c)
BY DEF Reached, Legal, RowStatus, QueueStatus, Absent

LEMMA ReachedNotAbsent ==
  ASSUME NEW a \in QueueStatus, Reached(a, Absent)
  PROVE  FALSE
BY DEF Reached, QueueStatus, Absent

LEMMA AcceptedIsLegal ==
  ASSUME NEW o, NEW s, Accepts(o, s)
  PROVE  Legal(s, Target(o)) /\ s # Absent /\ (o = "callNext" => Target(o) = "Serving")
BY DEF Accepts, Legal, Target, Absent

LEMMA InitRowInv == Init => RowInv
<1> SUFFICES ASSUME Init PROVE RowInv
  OBVIOUS
<1>1. TagsGuard BY DEF Init, TagsGuard
<1>2. StampsFresh BY DEF Init, StampsFresh
<1>3. RowsLead BY DEF Init, RowsLead, Logging
<1>4. ServedLeft /\ NoDoubleServe BY DEF Init, ServedLeft, Served, NoDoubleServe
<1> QED BY <1>1, <1>2, <1>3, <1>4 DEF RowInv

(***************************************************************************)
(* What the invariant says of one request, and of the log.                 *)
(***************************************************************************)
RowOf(r) ==
  /\ pc[r] = "update" =>
       /\ entry[ent[r]].status # Absent
       /\ seen[r].tag <= entry[ent[r]].tag
       /\ seen[r].tag = entry[ent[r]].tag => Legal(entry[ent[r]].status, st[r])
       /\ op[r] = "callNext" => st[r] = "Serving"
  /\ pc[r] = "add" =>
       /\ ent[r] <= stamp /\ st[r] = "Waiting" /\ entry[ent[r]].status = Absent
       /\ op[r] = "checkIn"
  /\ pc[r] \in Logging => Reached(st[r], entry[ent[r]].status)
  /\ Served(r) => ent[r] \in Entries /\ Reached("Serving", entry[ent[r]].status)
  /\ pc[r] \in {"idle", "add", "find", "get", "update"} => ~wrote[r]

Fresh == \A e \in Entries : e > stamp => entry[e].status = Absent

OneAdder ==
  \A r1, r2 \in Requests : pc[r1] = "add" /\ pc[r2] = "add" /\ ent[r1] = ent[r2] => r1 = r2

LogBehind == \A n \in DOMAIN log : Reached(log[n].status, entry[log[n].entry].status)

LEMMA RowInvParts ==
  ASSUME RowInv
  PROVE  (\A r \in Requests : RowOf(r)) /\ Fresh /\ OneAdder /\ LogBehind /\ NoDoubleServe
BY DEF RowInv, TagsGuard, StampsFresh, RowsLead, ServedLeft, RowOf, Fresh, OneAdder, LogBehind

LEMMA PartsRowInv ==
  ASSUME \A r \in Requests : RowOf(r)', Fresh', OneAdder', LogBehind', NoDoubleServe'
  PROVE  RowInv'
BY DEF RowInv, TagsGuard, StampsFresh, RowsLead, ServedLeft, RowOf, Fresh, OneAdder, LogBehind

(* The locals of every request but r stand still. *)
RestKept(r) ==
  \A q \in Requests \ {r} :
    /\ pc'[q] = pc[q] /\ seen'[q] = seen[q] /\ op'[q] = op[q]
    /\ ent'[q] = ent[q] /\ st'[q] = st[q] /\ wrote'[q] = wrote[q]

(***************************************************************************)
(* A step of r that changes no row and serves nobody.                      *)
(***************************************************************************)
LEMMA RowsStand ==
  ASSUME RowInv, NEW r \in Requests, UNCHANGED <<stamp, entry>>, RestKept(r),
         RowOf(r)', LogBehind', pc'[r] # "add", Served(r)' => Served(r) /\ ent'[r] = ent[r]
  PROVE  RowInv'
<1>1. ASSUME NEW q \in Requests \ {r} PROVE RowOf(q)'
  BY <1>1, RowInvParts DEF RestKept, RowOf, Served
<1>2. Fresh' BY RowInvParts DEF Fresh
<1>3. OneAdder' BY RowInvParts DEF OneAdder, RestKept
<1>4. NoDoubleServe' BY RowInvParts DEF NoDoubleServe, RestKept, Served
<1>5. \A q \in Requests : RowOf(q)' BY <1>1
<1> QED BY <1>2, <1>3, <1>4, <1>5, PartsRowInv

(***************************************************************************)
(* The one step that changes a row: r writes its copy over the entry.      *)
(***************************************************************************)
LEMMA RowMoves ==
  ASSUME LogInv, RowInv, NEW r \in Requests, pc[r] \in {"add", "update"}, PutEntry(r),
         pc[r] = "update" => entry[ent[r]].tag = seen[r].tag
  PROVE  /\ RowInv'
         /\ Legal(entry[ent[r]].status, st[r])
<1> USE DEF LogInv
<1> DEFINE row == entry[ent[r]]
           p == IF due[r] = 0 THEN "readHint" ELSE "readCount"
<1>1. /\ ent[r] \in Entries /\ st[r] \in QueueStatus /\ row \in Row /\ pc \in [Requests -> PC]
      /\ entry' = [entry EXCEPT ![ent[r]] = [status |-> st[r], tag |-> row.tag + 1]]
      /\ UNCHANGED <<stamp, log, op, ent, st>> /\ wrote' = [wrote EXCEPT ![r] = TRUE]
      /\ wrote \in [Requests -> BOOLEAN] /\ entry \in [Entries -> Row]
  BY DEF PutEntry, CopyTyped, TypeOK, host, job
<1>2. LoopsKept(r) /\ pc'[r] = p BY GoGoes DEF PutEntry
<1>3. Legal(row.status, st[r])
  <2>1. RowOf(r) BY RowInvParts
  <2> QED BY <2>1 DEF RowOf, Legal
<1>4. /\ \A e \in Entries \ {ent[r]} : entry'[e] = entry[e]
      /\ entry'[ent[r]].status = st[r] /\ entry'[ent[r]].tag = row.tag + 1
  BY <1>1
<1>5. ASSUME NEW e \in Entries, NEW s \in QueueStatus, Reached(s, entry[e].status)
      PROVE  Reached(s, entry'[e].status)
  BY <1>1, <1>3, <1>4, <1>5, ReachedStep DEF Row, RowStatus
<1>6. ASSUME NEW q \in Requests \ {r} PROVE RowOf(q)'
  <2>1. RowOf(q) BY RowInvParts
  <2>2. /\ pc'[q] = pc[q] /\ seen'[q] = seen[q] /\ wrote'[q] = wrote[q] /\ seen[q].tag \in Nat
        /\ pc[q] \in {"add", "update"} \cup Logging => ent[q] \in Entries /\ st[q] \in QueueStatus
    BY <1>1, <1>2 DEF LoopsKept, CopyTyped, TypeOK, Counter
  <2>3. CASE pc[q] = "update"
    <3>1. CASE ent[q] = ent[r]
      BY <1>1, <1>4, <2>1, <2>2, <2>3, <3>1 DEF RowOf, Row, QueueStatus, Absent, Logging, Served
    <3>2. CASE ent[q] # ent[r]
      BY <1>1, <1>4, <2>1, <2>2, <2>3, <3>2 DEF RowOf, Logging, Served
    <3> QED BY <3>1, <3>2
  <2>4. CASE pc[q] = "add"
    <3>1. ent[q] # ent[r]
      <4>1. CASE pc[r] = "add" BY <2>4, <4>1, RowInvParts DEF OneAdder
      <4>2. CASE pc[r] = "update" BY <2>1, <2>4, <4>2, RowInvParts DEF RowOf
      <4> QED BY <4>1, <4>2
    <3> QED BY <1>1, <1>4, <2>1, <2>2, <2>4, <3>1 DEF RowOf, Logging, Served
  <2>5. CASE pc[q] \notin {"add", "update"}
    <3>1. Served(q)' => Reached("Serving", entry'[ent'[q]].status) /\ ent'[q] \in Entries
      BY <1>1, <1>5, <2>1, <2>2 DEF RowOf, Served, QueueStatus
    <3>2. pc'[q] \in Logging => Reached(st'[q], entry'[ent'[q]].status)
      BY <1>1, <1>5, <2>1, <2>2 DEF RowOf
    <3>3. pc'[q] \in {"idle", "add", "find", "get", "update"} => ~wrote'[q]
      BY <2>1, <2>2 DEF RowOf
    <3> QED BY <2>2, <2>5, <3>1, <3>2, <3>3 DEF RowOf
  <2> QED BY <2>3, <2>4, <2>5
<1>7. RowOf(r)'
  <2>1. pc'[r] \in Logging BY <1>2 DEF Logging
  <2>2. Reached(st'[r], entry'[ent'[r]].status) BY <1>1, <1>4 DEF Reached
  <2>3. Served(r)' => st[r] = "Serving"
    <3>1. RowOf(r) BY RowInvParts
    <3> QED BY <1>1, <3>1 DEF Served, RowOf
  <2> QED BY <1>1, <1>2, <2>1, <2>2, <2>3 DEF RowOf, Logging
<1>8. Fresh'
  <2>1. ~ (ent[r] > stamp)
    <3>1. RowOf(r) /\ Fresh BY RowInvParts
    <3>2. CASE pc[r] = "update" BY <1>1, <3>1, <3>2 DEF RowOf, Fresh
    <3>3. CASE pc[r] = "add"
      <4>1. ent[r] \in Int /\ stamp \in Int BY <1>1 DEF TypeOK, Entries
      <4> QED BY <3>1, <3>3, <4>1 DEF RowOf
    <3> QED BY <3>2, <3>3
  <2> QED BY <1>1, <1>4, <2>1, RowInvParts DEF Fresh
<1>9. OneAdder' BY <1>1, <1>2, RowInvParts DEF OneAdder, LoopsKept
<1>10. LogBehind'
  <2>1. \A n \in DOMAIN log : log[n].entry \in Entries /\ log[n].status \in QueueStatus
    BY DEF TypeOK, Event
  <2> QED BY <1>1, <1>5, <2>1, RowInvParts DEF LogBehind
<1>11. NoDoubleServe'
  <2>1. ASSUME NEW q \in Requests \ {r}, Served(q), Served(r)', ent[q] = ent[r] PROVE FALSE
    <3>1. RowOf(q) /\ RowOf(r) BY RowInvParts
    <3>2. st[r] = "Serving" BY <1>1, <2>1, <3>1 DEF Served, RowOf
    <3>3. Reached("Serving", row.status) BY <2>1, <3>1 DEF RowOf
    <3> QED BY <1>3, <3>2, <3>3 DEF Legal, Reached, Absent
  <2>2. \A q \in Requests \ {r} : Served(q)' => Served(q)
    BY <1>1 DEF Served
  <2> QED BY <1>1, <2>1, <2>2, RowInvParts DEF NoDoubleServe
<1> QED BY <1>3, <1>6, <1>7, <1>8, <1>9, <1>10, <1>11, PartsRowInv

(***************************************************************************)
(* The steps of requests, one lemma for each kind.                         *)
(***************************************************************************)
LEMMA LogSame == ASSUME RowInv, UNCHANGED <<entry, log>> PROVE LogBehind'
BY RowInvParts DEF LogBehind

(* r moves between two awaits, and neither is one where it writes a row. *)
LEMMA MoveOn ==
  ASSUME LogInv, RowInv, NEW r \in Requests, UNCHANGED <<stamp, entry, log, wrote, op, ent, st>>,
         LoopsKept(r), pc'[r] \notin {"idle", "add", "update"},
         pc'[r] \in {"find", "get"} => ~wrote[r], pc'[r] \in Logging => pc[r] \in Logging
  PROVE  RowInv'
<1>1. RestKept(r) BY DEF RestKept, LoopsKept
<1>2. RowOf(r)' BY RowInvParts DEF RowOf, Served
<1> QED BY <1>1, <1>2, LogSame, RowsStand DEF Served

LEMMA MoveRowInv ==
  ASSUME LogInv, RowInv, NEW r \in Requests,
         \/ ReadCount(r) \/ ReadHint(r) \/ EventTaken(r) \/ ReadSequenceRow(r)
         \/ HintRefused(r) \/ BuildSnapshot(r) \/ HangUp(r) \/ ReadLatest(r) \/ ScanEvents(r)
  PROVE  RowInv'
<1> USE DEF LogInv
<1>1. UNCHANGED <<stamp, entry, log, wrote, op, ent, st>>
  BY DEF ReadCount, ReadHint, EventTaken, ReadSequenceRow, HintRefused, BuildSnapshot, HangUp,
         ReadLatest, ScanEvents, NoWrite, host, store, effect, job
<1>2. PICK p \in {"writeCount", "addEvent", "passEvent", "writeSeq", "snapshot", "done",
                  "failed", "scan"} :
        (\E s, n, t : Hold(r, p, s, n, t)) /\ (p \in Logging => pc[r] \in Logging)
  BY DEF ReadCount, ReadHint, EventTaken, ReadSequenceRow, HintRefused, BuildSnapshot, HangUp,
         ReadLatest, ScanEvents, Go, Logging
<1>3. LoopsKept(r) /\ pc'[r] = p BY <1>2, HoldGoes
<1> QED BY <1>1, <1>2, <1>3, MoveOn

LEMMA RetryRowInv ==
  ASSUME LogInv, RowInv, NEW r \in Requests, UpdateRefused(r) \/ CountRefused(r) \/ PassEvent(r)
  PROVE  RowInv'
<1> USE DEF LogInv
<1>1. UNCHANGED <<stamp, entry, log, wrote, op, ent, st>>
  BY DEF UpdateRefused, CountRefused, PassEvent, NoWrite, host, store, effect, job
<1>2. PICK p \in {"find", "get", "readCount", "addEvent"} :
        /\ \E n : Retry(r, p, n)
        /\ p \in {"find", "get"} => pc[r] = "update"
        /\ p \in Logging => pc[r] \in Logging
  BY DEF UpdateRefused, CountRefused, PassEvent, Logging
<1>3. LoopsKept(r) /\ pc'[r] \in {p, "failed"} BY <1>2, RetryGoes
<1>4. pc[r] = "update" => ~wrote[r] BY RowInvParts DEF RowOf
<1> QED BY <1>1, <1>2, <1>3, <1>4, MoveOn DEF Logging

LEMMA CounterRowInv ==
  ASSUME LogInv, RowInv, NEW r \in Requests, WriteCount(r) \/ WriteSequenceRow(r)
  PROVE  RowInv'
<1> USE DEF LogInv
<1>1. UNCHANGED <<stamp, entry, log, wrote, op, ent, st>>
  BY DEF WriteCount, WriteSequenceRow, PutCount, PutHint, host, effect, job
<1>2. PICK p \in {"readHint", "snapshot"} : Go(r, p) /\ (p \in Logging => pc[r] \in Logging)
  BY DEF WriteCount, WriteSequenceRow, PutCount, PutHint, Logging
<1>3. LoopsKept(r) /\ pc'[r] = p BY <1>2, GoGoes
<1> QED BY <1>1, <1>2, <1>3, MoveOn

LEMMA FindRowInv ==
  ASSUME LogInv, RowInv, NEW r \in Requests, FindOldestWaiting(r)
  PROVE  RowInv'
<1> USE DEF LogInv
<1>1. /\ pc[r] = "find" /\ UNCHANGED <<stamp, entry, log, wrote, op>> /\ ~wrote[r]
      /\ st' = [st EXCEPT ![r] = "Serving"] /\ entry \in [Entries -> Row]
  BY RowInvParts DEF FindOldestWaiting, host, store, RowOf, TypeOK
<1>2. CASE Go(r, "done") /\ ent' = [ent EXCEPT ![r] = 0]
  <2>1. LoopsKept(r) /\ pc'[r] = "done" BY <1>2, GoGoes
  <2>2. RestKept(r) BY <1>1, <1>2, <2>1 DEF RestKept, LoopsKept, TypeOK
  <2>3. RowOf(r)' BY <1>1, <2>1 DEF RowOf, Served, Logging
  <2> QED BY <1>1, <2>1, <2>2, <2>3, LogSame, RowsStand DEF Served
<1>3. ASSUME NEW e \in Entries, OldestWaiting(e), ent' = [ent EXCEPT ![r] = e],
             Hold(r, "update", [value |-> 0, tag |-> entry[e].tag], 0, tries[r])
      PROVE  RowInv'
  <2>1. LoopsKept(r) /\ pc'[r] = "update" /\ seen'[r].tag = entry[e].tag
    BY <1>3, HoldGoes
  <2>2. RestKept(r) BY <1>1, <1>3, <2>1 DEF RestKept, LoopsKept, TypeOK
  <2>3. entry[e].status = "Waiting" /\ entry[e].tag \in Nat
    BY <1>1, <1>3 DEF OldestWaiting, WaitingEntries, Row
  <2>4. ent'[r] = e /\ st'[r] = "Serving" BY <1>1, <1>3 DEF TypeOK
  <2>5. RowOf(r)'
    BY <1>1, <2>1, <2>3, <2>4 DEF RowOf, Served, Logging, Legal, Absent
  <2> QED BY <1>1, <2>1, <2>2, <2>5, LogSame, RowsStand DEF Served
<1> QED BY <1>2, <1>3 DEF FindOldestWaiting

LEMMA GetRowInv == ASSUME LogInv, RowInv, NEW r \in Requests, GetEntry(r) PROVE RowInv'
<1> USE DEF LogInv
<1> DEFINE row == entry[ent[r]]
<1>1. /\ pc[r] = "get" /\ UNCHANGED <<stamp, entry, log, wrote, op, ent>> /\ ~wrote[r]
      /\ ent[r] \in Entries /\ row \in Row
  BY RowInvParts DEF GetEntry, host, store, RowOf, TypeOK, CopyTyped
<1>2. PICK p \in {"readHint", "update", "done"}, s \in {st[r], row.status, Target(op[r])} :
        /\ LoopsKept(r) /\ pc'[r] = p /\ st' = [st EXCEPT ![r] = s]
        /\ p = "readHint" => s = row.status
        /\ p = "update" => /\ Accepts(op[r], row.status) /\ s = Target(op[r])
                           /\ seen'[r].tag = row.tag
  <2>1. CASE st' = [st EXCEPT ![r] = row.status] /\ Go(r, "readHint") BY <2>1, GoGoes
  <2>2. CASE /\ Accepts(op[r], row.status) /\ st' = [st EXCEPT ![r] = Target(op[r])]
             /\ Hold(r, "update", [value |-> 0, tag |-> row.tag], 0, tries[r])
    BY <2>2, HoldGoes
  <2>3. CASE Go(r, "done") /\ UNCHANGED st
    <3>1. st' = [st EXCEPT ![r] = st[r]] BY <2>3 DEF TypeOK
    <3> QED BY <2>3, <3>1, GoGoes
  <2> QED BY <2>1, <2>2, <2>3 DEF GetEntry
<1>3. RestKept(r) BY <1>1, <1>2 DEF RestKept, LoopsKept, TypeOK
<1>4. st'[r] = s BY <1>2 DEF TypeOK
<1>5. RowOf(r)'
  <2>1. CASE p = "update"
    BY <1>1, <1>2, <1>4, <2>1, AcceptedIsLegal DEF RowOf, Served, Logging, Row
  <2>2. CASE p # "update"
    BY <1>1, <1>2, <1>4, <2>2 DEF RowOf, Served, Logging, Reached
  <2> QED BY <2>1, <2>2
<1> QED BY <1>1, <1>2, <1>3, <1>5, LogSame, RowsStand DEF Served

LEMMA AddEventRowInv == ASSUME LogInv, RowInv, NEW r \in Requests, AddEvent(r) PROVE RowInv'
<1> USE DEF LogInv
<1>1. PICK m \in Nat : DOMAIN log = 1 .. m BY LogShape
<1>2. /\ pc[r] = "addEvent" /\ Go(r, "readSeq") /\ UNCHANGED <<stamp, entry, wrote, op, ent, st>>
      /\ log' = LogWith(m + 1, [entry |-> ent[r], status |-> st[r]])
  BY <1>1, ClaimIsNext DEF AddEvent, PutEvent, host, job, effect
<1>3. LoopsKept(r) /\ pc'[r] = "readSeq" BY <1>2, GoGoes
<1>4. RestKept(r) BY <1>2, <1>3 DEF RestKept, LoopsKept
<1>5. RowOf(r) BY RowInvParts
<1>6. RowOf(r)' BY <1>2, <1>3, <1>5 DEF RowOf, Served, Logging
<1>7. LogBehind'
  <2>1. Reached(st[r], entry[ent[r]].status) BY <1>2, <1>5 DEF RowOf, Logging
  <2>2. /\ DOMAIN log' = 1 .. (m + 1)
        /\ log'[m + 1] = [entry |-> ent[r], status |-> st[r]]
        /\ \A n \in 1 .. m : log'[n] = log[n]
    BY <1>1, <1>2, AppendShape
  <2>3. ASSUME NEW n \in 1 .. (m + 1)
        PROVE  Reached(log'[n].status, entry[log'[n].entry].status)
    <3>1. n = m + 1 \/ n \in 1 .. m BY <2>3
    <3>2. \A k \in 1 .. m : Reached(log[k].status, entry[log[k].entry].status)
      BY <1>1, RowInvParts DEF LogBehind
    <3> QED BY <2>1, <2>2, <3>1, <3>2
  <2> QED BY <1>2, <2>2, <2>3 DEF LogBehind
<1> QED BY <1>2, <1>3, <1>4, <1>6, <1>7, RowsStand DEF Served

LEMMA WorkRowInv == ASSUME LogInv, RowInv, NEW r \in Requests, Work(r) PROVE RowInv'
BY MoveRowInv, RetryRowInv, CounterRowInv, FindRowInv, GetRowInv, AddEventRowInv, RowMoves
   DEF Work, AddEntry, UpdateEntry

(***************************************************************************)
(* Arrivals: r was idle, so it had neither written nor served.             *)
(***************************************************************************)
LEMMA AcceptKeeps ==
  ASSUME LogInv, RowInv, NEW r \in Requests, NEW p, NEW o, NEW e, NEW s, NEW n,
         Accept(r, p, o, e, s, n)
  PROVE  /\ UNCHANGED <<entry, log, wrote>> /\ RestKept(r) /\ ~wrote[r]
         /\ pc'[r] = p /\ op'[r] = o /\ ent'[r] = e /\ st'[r] = s
<1>1. LoopsKept(r) /\ pc'[r] = p BY HoldGoes DEF Accept, LogInv
<1>2. ~wrote[r] BY RowInvParts DEF Accept, RowOf
<1> QED BY <1>1, <1>2 DEF Accept, store, RestKept, LoopsKept, LogInv, TypeOK

LEMMA AskRowInv == ASSUME LogInv, RowInv, NEW r \in Requests, Ask(r) PROVE RowInv'
<1>1. ASSUME NEW p \in {"find", "get", "latest"}, NEW o, NEW e, NEW n,
             Accept(r, p, o, e, Absent, n), stamp' = stamp
      PROVE  RowInv'
  <2>1. /\ UNCHANGED <<entry, log, wrote>> /\ RestKept(r) /\ ~wrote[r] /\ pc'[r] = p
    BY <1>1, AcceptKeeps
  <2>2. RowOf(r)' BY <2>1 DEF RowOf, Served, Logging
  <2> QED BY <1>1, <2>1, <2>2, LogSame, RowsStand DEF Served
<1>2. CASE StartCheckIn(r)
  <2>1. /\ UNCHANGED <<entry, log, wrote>> /\ RestKept(r) /\ ~wrote[r] /\ pc'[r] = "add"
        /\ op'[r] = "checkIn" /\ ent'[r] = stamp + 1 /\ st'[r] = "Waiting"
    BY <1>2, AcceptKeeps DEF StartCheckIn
  <2>2. stamp' = stamp + 1 /\ stamp \in Nat /\ stamp + 1 \in Entries
    BY <1>2, TableQueueAssumption DEF StartCheckIn, LogInv, TypeOK, Entries
  <2>3. entry[stamp + 1].status = Absent BY <2>2, RowInvParts DEF Fresh
  <2>4. RowOf(r)' BY <2>1, <2>2, <2>3 DEF RowOf, Served, Logging
  <2>5. ASSUME NEW q \in Requests \ {r} PROVE RowOf(q)' /\ ~(pc'[q] = "add" /\ ent'[q] = stamp + 1)
    <3>1. RowOf(q) BY RowInvParts
    <3>2. pc[q] = "add" => ent[q] \in Int BY DEF LogInv, CopyTyped, Entries
    <3> QED BY <2>1, <2>2, <3>1, <3>2 DEF RowOf, RestKept, Served
  <2>6. Fresh' BY <2>1, <2>2, RowInvParts DEF Fresh, Entries
  <2>7. OneAdder' BY <2>1, <2>5, RowInvParts DEF OneAdder, RestKept
  <2>8. NoDoubleServe' BY <2>1, RowInvParts DEF NoDoubleServe, RestKept, Served
  <2> QED BY <2>1, <2>4, <2>5, <2>6, <2>7, <2>8, LogSame, PartsRowInv
<1>3. CASE ~StartCheckIn(r)
  BY <1>1, <1>3 DEF Ask, StartCallNext, StartState, StartSince, StartOnEntry
<1> QED BY <1>2, <1>3

(***************************************************************************)
(* Starts and deaths: no request is under way afterwards.                  *)
(***************************************************************************)
EndedOf(r) ==
  /\ pc[r] = "idle" => ~wrote[r]
  /\ Served(r) => ent[r] \in Entries /\ Reached("Serving", entry[ent[r]].status)

LEMMA EndedRows ==
  ASSUME \A r \in Requests : (pc[r] \in Ended /\ EndedOf(r))', Fresh', LogBehind',
         NoDoubleServe'
  PROVE  RowInv'
<1>1. \A r \in Requests : RowOf(r)' BY DEF RowOf, EndedOf, Ended, Logging
<1>2. OneAdder' BY DEF OneAdder, Ended
<1> QED BY <1>1, <1>2, PartsRowInv

LEMMA BootRowInv == LogInv /\ RowInv /\ (Boot \/ Crash) => RowInv'
<1> SUFFICES ASSUME LogInv, RowInv, Boot \/ Crash PROVE RowInv'
  OBVIOUS
<1> USE TableQueueAssumption DEF LogInv
<1>0. UNCHANGED <<op, ent, wrote>>
  BY DEF Boot, Start, SeedEntry, SeedEvent, Reconcile, Crash, job, effect
<1>1. \A r \in Requests : pc'[r] \in Ended /\ (pc'[r] = "idle" => pc[r] = "idle")
  <2>1. CASE Boot
    <3>1. pc' = pc /\ phase # "serving"
      BY <2>1 DEF Boot, Start, SeedEntry, SeedEvent, Reconcile, loop
    <3> QED BY <3>1 DEF Alone
  <2>2. CASE Crash BY <2>2 DEF Crash, Ended
  <2> QED BY <2>1, <2>2
<1>2. NoDoubleServe' BY <1>0, RowInvParts DEF NoDoubleServe, Served
<1>3. ASSUME NEW r \in Requests
      PROVE  /\ pc'[r] = "idle" => ~wrote'[r]
             /\ Served(r)' => /\ ent[r] \in Entries /\ ent'[r] = ent[r]
                              /\ Reached("Serving", entry[ent[r]].status)
  BY <1>0, <1>1, RowInvParts DEF RowOf, Served
<1>4. CASE Start \/ Reconcile \/ Crash
  <2>1. UNCHANGED <<stamp, entry, log>> BY <1>4 DEF Start, Reconcile, Crash, store
  <2>2. \A r \in Requests : EndedOf(r)' BY <1>3, <2>1 DEF EndedOf
  <2>3. Fresh' BY <2>1, RowInvParts DEF Fresh
  <2> QED BY <1>1, <1>2, <2>1, <2>2, <2>3, LogSame, EndedRows
<1>5. CASE SeedEntry
  <2>1. /\ stamp \in Nat /\ stamp + 1 \in Entries /\ stamp' = stamp + 1 /\ log' = log
        /\ \A e \in Entries \ {stamp + 1} : entry'[e] = entry[e]
    BY <1>5 DEF SeedEntry, Seeding, TypeOK, Entries
  <2>2. entry[stamp + 1].status = Absent BY <2>1, RowInvParts DEF Fresh
  <2>3. ASSUME NEW e \in Entries, NEW s \in QueueStatus, Reached(s, entry[e].status)
        PROVE  entry'[e] = entry[e]
    BY <2>1, <2>2, <2>3, ReachedNotAbsent
  <2>4. \A r \in Requests : EndedOf(r)'
    BY <1>3, <2>3 DEF EndedOf, QueueStatus
  <2>5. Fresh' BY <2>1, RowInvParts DEF Fresh, Entries
  <2>6. LogBehind'
    <3>1. \A n \in DOMAIN log : log[n].entry \in Entries /\ log[n].status \in QueueStatus
      BY DEF TypeOK, Event
    <3> QED BY <2>1, <2>3, <3>1, RowInvParts DEF LogBehind
  <2> QED BY <1>1, <1>2, <2>4, <2>5, <2>6, EndedRows
<1>6. CASE SeedEvent
  <2>1. /\ stamp \in Entries /\ entry[stamp].status \in QueueStatus
        /\ UNCHANGED <<stamp, entry>>
        /\ log' = LogWith(stamp, [entry |-> stamp, status |-> "Waiting"])
    BY <1>6 DEF SeedEvent, Seeding, TypeOK, Row, RowStatus, Entries
  <2>2. \A r \in Requests : EndedOf(r)' BY <1>3, <2>1 DEF EndedOf
  <2>3. Fresh' BY <2>1, RowInvParts DEF Fresh
  <2>4. LogBehind'
    <3>1. Reached("Waiting", entry[stamp].status) BY <2>1 DEF Reached, QueueStatus, Absent
    <3>2. \A n \in DOMAIN log' : IF n = stamp THEN log'[n] = [entry |-> stamp, status |-> "Waiting"]
                                  ELSE n \in DOMAIN log /\ log'[n] = log[n]
      BY <2>1 DEF LogWith
    <3> QED BY <2>1, <3>1, <3>2, RowInvParts DEF LogBehind
  <2> QED BY <1>1, <1>2, <2>2, <2>3, <2>4, EndedRows
<1> QED BY <1>4, <1>5, <1>6 DEF Boot

LEMMA NextIInv == IInv /\ [Next]_vars => IInv'
<1> SUFFICES ASSUME LogInv, RowInv, [Next]_vars PROVE LogInv' /\ RowInv'
  BY DEF IInv
<1>1. LogInv' BY NextLogInv
<1>2. CASE UNCHANGED vars
  <2>1. UNCHANGED <<stamp, entry, log, pc, op, ent, st, seen, wrote>>
    BY <1>2 DEF vars, host, store, job, loop, effect
  <2>2. TagsGuard' /\ StampsFresh'
    <3>1. TagsGuard' BY <2>1 DEF RowInv, TagsGuard
    <3>2. StampsFresh' BY <2>1 DEF RowInv, StampsFresh
    <3> QED BY <3>1, <3>2
  <2>3. RowsLead' BY <2>1 DEF RowInv, RowsLead
  <2>4. ServedLeft' BY <2>1 DEF RowInv, ServedLeft, Served
  <2>5. NoDoubleServe' BY <2>1 DEF RowInv, Served, NoDoubleServe
  <2> QED BY <1>1, <2>2, <2>3, <2>4, <2>5 DEF RowInv
<1>3. CASE Next BY <1>1, <1>3, BootRowInv, AskRowInv, WorkRowInv, MoveRowInv DEF Next
<1> QED BY <1>1, <1>2, <1>3

THEOREM Invariant == Spec => []IInv
BY InitLogInv, InitRowInv, NextIInv, PTL DEF Spec, IInv

(***************************************************************************)
(* What follows for the reader of the code.                                *)
(***************************************************************************)
THEOREM TypeCorrect == Spec => []TypeOK
<1>1. IInv => TypeOK BY DEF IInv, LogInv
<1> QED BY <1>1, Invariant, PTL

(* The change log has no gap, whatever retries, hang-ups and deaths happen. *)
THEOREM GapFree == Spec => []LogGapFree
<1>1. IInv => LogGapFree BY DEF IInv, LogInv
<1> QED BY <1>1, Invariant, PTL

(* The Sequence counter never names a number that has no event. *)
THEOREM HintLags == Spec => []HintNeverLeads
<1>1. IInv => HintNeverLeads BY DEF IInv, LogInv
<1> QED BY <1>1, Invariant, PTL

(* No two CallNext requests are ever given the same entry. *)
THEOREM ServedOnce == Spec => []NoDoubleServe
<1>1. IInv => NoDoubleServe BY DEF IInv, RowInv
<1> QED BY <1>1, Invariant, PTL

(* A snapshot's rows show every event up to the number it goes out with. *)
THEOREM SnapshotCovers == Spec => []BaselineCovered
<1>1. ASSUME IInv PROVE BaselineCovered
  <2> USE <1>1 DEF IInv, LogInv
  <2>1. PICK m \in Nat : DOMAIN log = 1 .. m BY LogShape
  <2>2. ASSUME NEW r \in Requests, pc[r] = "snapshot", NEW n \in 1 .. seq[r]
        PROVE  n \in DOMAIN log
    <3>1. seq[r] = 0 \/ seq[r] \in 1 .. m BY <2>1, <2>2 DEF Appenders, InUse
    <3> QED BY <2>1, <2>2, <3>1
  <2> QED BY <2>2, RowInvParts DEF BaselineCovered, LogBehind
<1> QED BY <1>1, Invariant, PTL

LEMMA StatusMoves ==
  ASSUME IInv, [Next]_vars, NEW e \in Entries, entry'[e].status # entry[e].status
  PROVE  Legal(entry[e].status, entry'[e].status)
<1> USE DEF IInv, LogInv
<1>1. CASE SeedEntry
  <2>1. stamp + 1 \in Entries /\ stamp + 1 > stamp
    BY <1>1, TableQueueAssumption DEF SeedEntry, Seeding, TypeOK, Entries
  <2>2. entry[stamp + 1].status = Absent BY <2>1, RowInvParts DEF Fresh
  <2> QED BY <1>1, <2>1, <2>2 DEF SeedEntry, TypeOK, Legal
<1>2. ASSUME NEW r \in Requests, AddEntry(r) \/ UpdateEntry(r)
      PROVE  Legal(entry[e].status, entry'[e].status)
  <2>1. Legal(entry[ent[r]].status, st[r]) BY <1>2, RowMoves DEF AddEntry, UpdateEntry
  <2>2. entry' = [entry EXCEPT ![ent[r]] = [status |-> st[r], tag |-> @.tag + 1]]
    BY <1>2 DEF AddEntry, UpdateEntry, PutEntry
  <2> QED BY <2>1, <2>2 DEF TypeOK
<1>3. ASSUME entry' # entry PROVE SeedEntry \/ \E r \in Requests : AddEntry(r) \/ UpdateEntry(r)
  <2>1. Next BY <1>3 DEF vars, store
  <2>2. ASSUME NEW r \in Requests PROVE ~Ask(r) /\ ~HangUp(r)
    BY <1>3 DEF Ask, StartCheckIn, StartCallNext, StartState, StartSince, StartOnEntry, Accept,
                HangUp, NoWrite, store
  <2>3. ~Start /\ ~SeedEvent /\ ~Reconcile /\ ~Crash
    BY <1>3 DEF Start, SeedEvent, Reconcile, Crash, store
  <2>4. ASSUME NEW r \in Requests, Work(r) PROVE AddEntry(r) \/ UpdateEntry(r)
    BY <1>3, <2>4 DEF Work, FindOldestWaiting, GetEntry, UpdateRefused, ReadCount, WriteCount,
       PutCount, CountRefused, ReadHint, AddEvent, PutEvent, EventTaken, PassEvent,
       ReadSequenceRow, WriteSequenceRow, PutHint, HintRefused, ReadLatest, ScanEvents,
       BuildSnapshot, NoWrite, store
  <2> QED BY <2>1, <2>2, <2>3, <2>4 DEF Next, Boot
<1> QED BY <1>1, <1>2, <1>3

(* Every change of a row's status is a transition of QueueStatus. *)
THEOREM Lifecycle == Spec => LegalLifecycle
<1>1. IInv /\ [Next]_vars
        => [\A e \in Entries : entry'[e].status # entry[e].status =>
              Legal(entry[e].status, entry'[e].status)]_vars
  BY StatusMoves
<1> QED BY <1>1, Invariant, PTL DEF Spec, LegalLifecycle

-----------------------------------------------------------------------------
(***************************************************************************)
(* The waiting count. The ETag a request holds of an entry stands also for *)
(* whether its write takes the entry out of the line, and that of the      *)
(* counter for the value it adds to.                                       *)
(***************************************************************************)
CountOf(r) ==
  /\ pc[r] = "find" => op[r] = "callNext"
  /\ pc[r] = "get" => op[r] \in {"complete", "cancel", "document"}
  /\ pc[r] = "add" => due[r] = 1
  /\ pc[r] = "update" =>
       /\ op[r] \in {"callNext", "complete", "cancel"} /\ due[r] \in {-1, 0}
       /\ st[r] # "Waiting"
       /\ seen[r].tag = entry[ent[r]].tag
            => (due[r] = -1 <=> entry[ent[r]].status = "Waiting")
  /\ pc[r] \in {"readCount", "writeCount"} => wrote[r] /\ due[r] # 0
  /\ pc[r] = "writeCount" =>
       /\ seen[r].tag <= waiting.tag
       /\ seen[r].tag = waiting.tag => seen[r].value = waiting.value

CountInv == (\A r \in Requests : CountOf(r)) /\ CountBalanced

(* The sets counted are finite, and so is what one element more or less adds up to. *)
LEMMA Counted ==
  /\ \A d : IsFiniteSet(Owing(d)) /\ Cardinality(Owing(d)) \in Nat
  /\ IsFiniteSet(WaitingEntries) /\ Cardinality(WaitingEntries) \in Nat
<1>1. \A d : Owing(d) \subseteq Requests BY DEF Owing
<1>2. ASSUME NEW d PROVE IsFiniteSet(Owing(d)) /\ Cardinality(Owing(d)) \in Nat
  BY <1>1, TableQueueAssumption, FS_Subset, FS_CardinalityType
<1>3. IsFiniteSet(Entries) BY TableQueueAssumption, FS_Interval DEF Entries
<1>4. WaitingEntries \subseteq Entries BY DEF WaitingEntries
<1>5. IsFiniteSet(WaitingEntries) /\ Cardinality(WaitingEntries) \in Nat
  BY <1>3, <1>4, FS_Subset, FS_CardinalityType
<1> QED BY <1>2, <1>5

(* The locals of every request but r stand still, what it owes included. *)
OthersOwe(r) ==
  \A q \in Requests \ {r} :
    /\ pc'[q] = pc[q] /\ seen'[q] = seen[q] /\ op'[q] = op[q] /\ ent'[q] = ent[q]
    /\ st'[q] = st[q] /\ wrote'[q] = wrote[q] /\ due'[q] = due[q]

(* A step of r that writes neither a row nor the counter. *)
LEMMA CountStands ==
  ASSUME CountInv, NEW r \in Requests, UNCHANGED <<phase, entry, waiting>>, OthersOwe(r),
         CountOf(r)',
         (wrote'[r] = wrote[r] /\ due'[r] = due[r]) \/ (~wrote[r] /\ ~wrote'[r])
  PROVE  CountInv'
<1>1. ASSUME NEW q \in Requests \ {r} PROVE CountOf(q)'
  <2>1. CountOf(q) BY DEF CountInv
  <2> QED BY <2>1 DEF CountOf, OthersOwe
<1>2. CountBalanced'
  <2>1. \A d : Owing(d)' = Owing(d) BY DEF Owing, OthersOwe
  <2>2. WaitingEntries' = WaitingEntries BY DEF WaitingEntries
  <2> QED BY <2>1, <2>2 DEF CountInv, CountBalanced
<1>3. \A q \in Requests : CountOf(q)' BY <1>1
<1> QED BY <1>2, <1>3 DEF CountInv

(* The row is written: from here on the request owes what its write calls for. *)
LEMMA CountPutEntry ==
  ASSUME LogInv, RowInv, CountInv, NEW r \in Requests, pc[r] \in {"add", "update"}, PutEntry(r),
         pc[r] = "update" => entry[ent[r]].tag = seen[r].tag
  PROVE  CountInv'
<1> USE DEF LogInv
<1> DEFINE e == ent[r]
<1>1. /\ e \in Entries /\ entry \in [Entries -> Row] /\ entry[e].tag \in Nat
      /\ wrote \in [Requests -> BOOLEAN] /\ phase = "serving"
      /\ due[r] \in {-1, 0, 1} /\ waiting.value \in Int
  BY DEF CopyTyped, TypeOK, Row, Counter, Alone, Ended
<1>2. /\ UNCHANGED <<phase, waiting, op, ent, st, due>>
      /\ wrote' = [wrote EXCEPT ![r] = TRUE]
      /\ entry' = [entry EXCEPT ![e] = [status |-> st[r], tag |-> entry[e].tag + 1]]
  BY DEF PutEntry, host, job
<1>3. LoopsKept(r) /\ pc'[r] = IF due[r] = 0 THEN "readHint" ELSE "readCount"
  BY GoGoes DEF PutEntry
<1>4. /\ entry'[e].status = st[r] /\ entry'[e].tag = entry[e].tag + 1
      /\ \A f \in Entries \ {e} : entry'[f] = entry[f]
  BY <1>1, <1>2
<1>5. wrote'[r] /\ ~wrote[r] /\ \A q \in Requests \ {r} : wrote'[q] = wrote[q]
  BY <1>1, <1>2, RowInvParts DEF RowOf
<1>6. CountOf(r)' BY <1>2, <1>3, <1>5 DEF CountOf
<1>7. ASSUME NEW q \in Requests \ {r} PROVE CountOf(q)'
  <2>1. CountOf(q) /\ RowOf(q) BY RowInvParts DEF CountInv
  <2>2. /\ pc'[q] = pc[q] /\ seen'[q] = seen[q] /\ wrote'[q] = wrote[q]
        /\ seen[q].tag \in Nat
        /\ pc[q] = "update" => ent[q] \in Entries
    BY <1>3, <1>5 DEF LoopsKept, CopyTyped, TypeOK, Counter
  <2>3. pc[q] = "update" => (seen[q].tag = entry'[ent[q]].tag
          => (due[q] = -1 <=> entry'[ent[q]].status = "Waiting"))
    <3>1. CASE ent[q] = e BY <1>1, <1>4, <2>1, <2>2, <3>1 DEF RowOf
    <3>2. CASE ent[q] # e BY <1>4, <2>1, <2>2, <3>2 DEF CountOf
    <3> QED BY <3>1, <3>2
  <2> QED BY <1>2, <2>1, <2>2, <2>3 DEF CountOf
<1>8. CountBalanced'
  <2>0. CountOf(r) /\ RowOf(r) BY RowInvParts DEF CountInv
  <2>1. \A d : Owing(d)' = IF d = due[r] THEN Owing(d) \cup {r} ELSE Owing(d)
    BY <1>2, <1>5 DEF Owing
  <2>2. \A d : r \notin Owing(d) BY <1>5 DEF Owing
  <2>3. WaitingEntries' = IF st[r] = "Waiting" THEN WaitingEntries \cup {e}
                                               ELSE WaitingEntries \ {e}
    BY <1>1, <1>4 DEF WaitingEntries
  <2>4. /\ Cardinality(Owing(1)) \in Nat /\ Cardinality(Owing(-1)) \in Nat
        /\ Cardinality(WaitingEntries) \in Nat
        /\ waiting.value + Cardinality(Owing(1)) - Cardinality(Owing(-1))
             = Cardinality(WaitingEntries)
    BY <1>1, Counted DEF CountInv, CountBalanced
  <2>5. CASE pc[r] = "add"
    <3>1. due[r] = 1 /\ st[r] = "Waiting" /\ e \notin WaitingEntries
      BY <2>0, <2>5 DEF CountOf, RowOf, WaitingEntries, Absent
    <3>2. Cardinality(Owing(1))' = Cardinality(Owing(1)) + 1
      BY <2>1, <2>2, <3>1, Counted, FS_AddElement
    <3>3. Cardinality(Owing(-1))' = Cardinality(Owing(-1)) BY <2>1, <3>1
    <3>4. Cardinality(WaitingEntries)' = Cardinality(WaitingEntries) + 1
      BY <2>3, <3>1, Counted, FS_AddElement
    <3> QED BY <1>1, <1>2, <2>4, <3>2, <3>3, <3>4 DEF CountBalanced
  <2>6. CASE pc[r] = "update" /\ due[r] = -1
    <3>1. e \in WaitingEntries /\ st[r] # "Waiting"
      BY <1>1, <2>0, <2>6 DEF CountOf, WaitingEntries
    <3>2. Cardinality(Owing(-1))' = Cardinality(Owing(-1)) + 1
      BY <2>1, <2>2, <2>6, Counted, FS_AddElement
    <3>3. Cardinality(Owing(1))' = Cardinality(Owing(1)) BY <2>1, <2>6
    <3>4. Cardinality(WaitingEntries)' = Cardinality(WaitingEntries) - 1
      BY <2>3, <3>1, Counted, FS_RemoveElement
    <3> QED BY <1>1, <1>2, <2>4, <3>2, <3>3, <3>4 DEF CountBalanced
  <2>7. CASE pc[r] = "update" /\ due[r] = 0
    <3>1. e \notin WaitingEntries /\ st[r] # "Waiting"
      BY <1>1, <2>0, <2>7 DEF CountOf, WaitingEntries
    <3>2. Owing(1)' = Owing(1) /\ Owing(-1)' = Owing(-1) BY <2>1, <2>7
    <3>3. WaitingEntries' = WaitingEntries BY <2>3, <3>1
    <3> QED BY <1>2, <2>4, <3>2, <3>3 DEF CountBalanced
  <2> QED BY <2>0, <2>5, <2>6, <2>7 DEF CountOf
<1>9. \A q \in Requests : CountOf(q)' BY <1>6, <1>7
<1> QED BY <1>8, <1>9 DEF CountInv

(* The counter is written: the debt is paid. *)
LEMMA CountPutCount ==
  ASSUME LogInv, CountInv, NEW r \in Requests, WriteCount(r)
  PROVE  CountInv'
<1> USE DEF LogInv
<1>1. /\ pc[r] = "writeCount" /\ waiting.tag = seen[r].tag /\ UNCHANGED <<phase, entry, op, ent, st, wrote>>
      /\ waiting' = [value |-> seen[r].value + due[r], tag |-> waiting.tag + 1]
      /\ due' = [due EXCEPT ![r] = 0]
  BY DEF WriteCount, PutCount, host, job
<1>2. LoopsKept(r) /\ pc'[r] = "readHint" BY GoGoes DEF WriteCount, PutCount
<1>3. /\ wrote[r] /\ due[r] \in {-1, 1} /\ waiting'.value = waiting.value + due[r]
      /\ waiting.value \in Int /\ waiting.tag \in Nat /\ waiting'.tag = waiting.tag + 1
      /\ due'[r] = 0 /\ \A q \in Requests \ {r} : due'[q] = due[q]
  BY <1>1 DEF CountInv, CountOf, TypeOK, Counter
<1>4. ASSUME NEW q \in Requests PROVE CountOf(q)'
  <2>1. CASE q = r BY <1>2, <2>1 DEF CountOf
  <2>2. CASE q # r
    <3>1. CountOf(q) /\ seen[q].tag \in Nat BY DEF CountInv, TypeOK, Counter
    <3>2. pc'[q] = pc[q] /\ seen'[q] = seen[q] /\ due'[q] = due[q]
      BY <1>2, <1>3, <2>2 DEF LoopsKept
    <3> QED BY <1>1, <1>3, <3>1, <3>2 DEF CountOf
  <2> QED BY <2>1, <2>2
<1>5. CountBalanced'
  <2>1. \A d \in {-1, 1} : Owing(d)' = IF d = due[r] THEN Owing(d) \ {r} ELSE Owing(d)
    BY <1>1, <1>3 DEF Owing
  <2>2. r \in Owing(due[r]) BY <1>3 DEF Owing
  <2>3. WaitingEntries' = WaitingEntries BY <1>1 DEF WaitingEntries
  <2>4. /\ Cardinality(Owing(1)) \in Nat /\ Cardinality(Owing(-1)) \in Nat
        /\ phase' = "serving" => waiting.value + Cardinality(Owing(1)) - Cardinality(Owing(-1))
             = Cardinality(WaitingEntries)
    BY <1>1, Counted DEF CountInv, CountBalanced
  <2>5. CASE due[r] = 1
    <3>1. Cardinality(Owing(1))' = Cardinality(Owing(1)) - 1
      BY <2>1, <2>2, <2>5, Counted, FS_RemoveElement
    <3>2. Cardinality(Owing(-1))' = Cardinality(Owing(-1)) BY <2>1, <2>5
    <3> QED BY <1>3, <2>3, <2>4, <2>5, <3>1, <3>2 DEF CountBalanced
  <2>6. CASE due[r] = -1
    <3>1. Cardinality(Owing(-1))' = Cardinality(Owing(-1)) - 1
      BY <2>1, <2>2, <2>6, Counted, FS_RemoveElement
    <3>2. Cardinality(Owing(1))' = Cardinality(Owing(1)) BY <2>1, <2>6
    <3> QED BY <1>3, <2>3, <2>4, <2>6, <3>1, <3>2 DEF CountBalanced
  <2> QED BY <1>3, <2>5, <2>6
<1> QED BY <1>4, <1>5 DEF CountInv

LEMMA CountAsk ==
  ASSUME LogInv, RowInv, CountInv, NEW r \in Requests, Ask(r) \/ HangUp(r)
  PROVE  CountInv'
<1> USE DEF LogInv
<1>1. ASSUME NEW p \in {"add", "find", "get", "latest"}, NEW o, NEW e, NEW s, NEW n,
             Accept(r, p, o, e, s, n), \A q \in Requests \ {r} : due'[q] = due[q],
             p = "add" => due'[r] = 1, p = "find" => o = "callNext",
             p = "get" => o \in {"complete", "cancel", "document"}
      PROVE  CountInv'
  <2>1. LoopsKept(r) /\ pc'[r] = p BY <1>1, HoldGoes DEF Accept
  <2>2. /\ pc[r] = "idle" /\ op' = [op EXCEPT ![r] = o] /\ ent' = [ent EXCEPT ![r] = e]
        /\ st' = [st EXCEPT ![r] = s] /\ UNCHANGED <<phase, entry, waiting, wrote>>
    BY <1>1 DEF Accept, store
  <2>3. OthersOwe(r) /\ op'[r] = o BY <1>1, <2>1, <2>2 DEF OthersOwe, LoopsKept, TypeOK
  <2>4. ~wrote[r] /\ ~wrote'[r] BY <2>2, RowInvParts DEF RowOf
  <2>5. CountOf(r)' BY <1>1, <2>1, <2>3 DEF CountOf
  <2> QED BY <2>2, <2>3, <2>4, <2>5, CountStands
<1>2. CASE HangUp(r)
  <2>1. /\ LoopsKept(r) /\ pc'[r] = "failed"
        /\ UNCHANGED <<phase, entry, waiting, op, ent, st, wrote, due>>
    BY <1>2, GoGoes DEF HangUp, NoWrite, host, store, effect, job
  <2>2. OthersOwe(r) /\ CountOf(r)' BY <2>1 DEF OthersOwe, LoopsKept, CountOf
  <2> QED BY <2>1, <2>2, CountStands
<1>3. CASE StartCheckIn(r)
  <2>1. due'[r] = 1 /\ \A q \in Requests \ {r} : due'[q] = due[q]
    BY <1>3 DEF StartCheckIn, TypeOK
  <2> QED BY <1>1, <1>3, <2>1 DEF StartCheckIn
<1>4. CASE StartCallNext(r) BY <1>1, <1>4 DEF StartCallNext
<1>5. CASE StartState(r) BY <1>1, <1>5 DEF StartState
<1>6. CASE StartSince(r)
  <2>1. (\E n : Accept(r, "latest", "since", 0, Absent, n)) /\ due' = due
    BY <1>6 DEF StartSince
  <2> QED BY <1>1, <2>1
<1>7. ASSUME NEW o \in {"complete", "cancel", "document"}, NEW e, StartOnEntry(r, o, e)
      PROVE  CountInv'
  BY <1>1, <1>7 DEF StartOnEntry
<1> QED BY <1>2, <1>3, <1>4, <1>5, <1>6, <1>7 DEF Ask

LEMMA CountWork ==
  ASSUME LogInv, RowInv, CountInv, NEW r \in Requests, Work(r)
  PROVE  CountInv'
<1> USE DEF LogInv
<1>0. CountOf(r) /\ RowOf(r) /\ waiting.tag \in Nat
  BY RowInvParts DEF CountInv, TypeOK, Counter
<1>1. CASE AddEntry(r) \/ UpdateEntry(r) BY <1>1, CountPutEntry DEF AddEntry, UpdateEntry
<1>2. CASE WriteCount(r) BY <1>2, CountPutCount
<1>3. CASE FindOldestWaiting(r)
  <2>1. /\ pc[r] = "find" /\ UNCHANGED <<phase, entry, waiting, op, wrote>>
        /\ st' = [st EXCEPT ![r] = "Serving"]
        /\ \A q \in Requests \ {r} : ent'[q] = ent[q] /\ st'[q] = st[q] /\ due'[q] = due[q]
    BY <1>3 DEF FindOldestWaiting, host, store, TypeOK
  <2>2. ~wrote[r] /\ ~wrote'[r] BY <1>0, <2>1 DEF RowOf
  <2>3. CASE Go(r, "done")
    <3>1. LoopsKept(r) /\ pc'[r] = "done" BY <2>3, GoGoes
    <3>2. OthersOwe(r) /\ CountOf(r)' BY <2>1, <3>1 DEF OthersOwe, LoopsKept, CountOf
    <3> QED BY <2>1, <2>2, <3>2, CountStands
  <2>4. ASSUME NEW e \in Entries, OldestWaiting(e), ent' = [ent EXCEPT ![r] = e],
               due' = [due EXCEPT ![r] = -1],
               Hold(r, "update", [value |-> 0, tag |-> entry[e].tag], 0, tries[r])
        PROVE  CountInv'
    <3>1. LoopsKept(r) /\ pc'[r] = "update" BY <2>4, HoldGoes
    <3>2. /\ ent'[r] = e /\ due'[r] = -1 /\ st'[r] = "Serving" /\ op'[r] = "callNext"
          /\ entry'[e].status = "Waiting"
      BY <1>0, <2>1, <2>4 DEF TypeOK, OldestWaiting, WaitingEntries, CountOf
    <3>3. OthersOwe(r) /\ CountOf(r)' BY <2>1, <3>1, <3>2 DEF OthersOwe, LoopsKept, CountOf
    <3> QED BY <2>1, <2>2, <3>3, CountStands
  <2> QED BY <1>3, <2>3, <2>4 DEF FindOldestWaiting
<1>4. CASE GetEntry(r)
  <2> DEFINE row == entry[ent[r]]
             leaves == op[r] = "cancel" /\ row.status = "Waiting"
  <2>1. /\ pc[r] = "get" /\ UNCHANGED <<phase, entry, waiting, op, ent, wrote>>
        /\ due' = [due EXCEPT ![r] = IF leaves THEN -1 ELSE 0]
        /\ \A q \in Requests \ {r} : st'[q] = st[q]
    BY <1>4 DEF GetEntry, host, store, TypeOK
  <2>2. /\ ~wrote[r] /\ ~wrote'[r] /\ op[r] \in {"complete", "cancel", "document"}
        /\ due'[r] = IF leaves THEN -1 ELSE 0
        /\ \A q \in Requests \ {r} : due'[q] = due[q]
    BY <1>0, <2>1 DEF RowOf, CountOf, TypeOK
  <2>3. CASE Go(r, "readHint") \/ Go(r, "done")
    <3>1. LoopsKept(r) /\ pc'[r] \in {"readHint", "done"} BY <2>3, GoGoes
    <3>2. OthersOwe(r) /\ CountOf(r)' BY <2>1, <2>2, <3>1 DEF OthersOwe, LoopsKept, CountOf
    <3> QED BY <2>1, <2>2, <3>2, CountStands
  <2>4. CASE /\ Accepts(op[r], row.status) /\ st' = [st EXCEPT ![r] = Target(op[r])]
             /\ Hold(r, "update", [value |-> 0, tag |-> row.tag], 0, tries[r])
    <3>1. LoopsKept(r) /\ pc'[r] = "update" BY <2>4, HoldGoes
    <3>2. st'[r] = Target(op[r]) BY <2>4 DEF TypeOK
    <3>3. /\ op[r] \in {"complete", "cancel"} /\ st'[r] # "Waiting"
          /\ leaves <=> row.status = "Waiting"
      BY <2>2, <2>4, <3>2 DEF Accepts, Target
    <3>4. CountOf(r)' BY <2>1, <2>2, <3>1, <3>3 DEF CountOf
    <3>5. OthersOwe(r) BY <2>1, <2>2, <3>1 DEF OthersOwe, LoopsKept
    <3> QED BY <2>1, <2>2, <3>4, <3>5, CountStands
  <2> QED BY <1>4, <2>3, <2>4 DEF GetEntry
<1>5. ASSUME UNCHANGED <<phase, entry, waiting, op, ent, st, wrote, due>>, LoopsKept(r), CountOf(r)'
      PROVE  CountInv'
  <2>1. OthersOwe(r) BY <1>5 DEF OthersOwe, LoopsKept
  <2> QED BY <1>5, <2>1, CountStands
<1>6. CASE UpdateRefused(r) \/ CountRefused(r) \/ PassEvent(r)
  <2>1. UNCHANGED <<phase, entry, waiting, op, ent, st, wrote, due>>
    BY <1>6 DEF UpdateRefused, CountRefused, PassEvent, NoWrite, host, store, effect, job
  <2>2. /\ LoopsKept(r)
        /\ \/ pc'[r] \in {"failed", "addEvent"}
           \/ pc[r] = "update" /\ pc'[r] = IF op[r] = "callNext" THEN "find" ELSE "get"
           \/ pc[r] = "writeCount" /\ pc'[r] = "readCount"
    BY <1>6, RetryGoes DEF UpdateRefused, CountRefused, PassEvent
  <2>3. CountOf(r)' BY <1>0, <2>1, <2>2 DEF CountOf
  <2> QED BY <1>5, <2>1, <2>2, <2>3
<1>7. CASE ReadCount(r)
  <2>1. UNCHANGED <<phase, entry, waiting, op, ent, st, wrote, due>>
    BY <1>7 DEF ReadCount, NoWrite, host, store, effect, job
  <2>2. LoopsKept(r) /\ pc[r] = "readCount" /\ pc'[r] = "writeCount" /\ seen'[r] = waiting
    BY <1>7, HoldGoes DEF ReadCount
  <2>3. CountOf(r)' BY <1>0, <2>1, <2>2 DEF CountOf
  <2> QED BY <1>5, <2>1, <2>2, <2>3
<1>8. CASE \/ ReadHint(r) \/ AddEvent(r) \/ EventTaken(r) \/ ReadSequenceRow(r)
           \/ WriteSequenceRow(r) \/ HintRefused(r) \/ ReadLatest(r) \/ ScanEvents(r)
           \/ BuildSnapshot(r)
  <2>1. UNCHANGED <<phase, entry, waiting, op, ent, st, wrote, due>>
    BY <1>8 DEF ReadHint, AddEvent, PutEvent, EventTaken, ReadSequenceRow, WriteSequenceRow,
       PutHint, HintRefused, ReadLatest, ScanEvents, BuildSnapshot, NoWrite, host, store,
       effect, job
  <2>2. PICK p \in {"addEvent", "passEvent", "readSeq", "writeSeq", "snapshot", "done", "scan"} :
          \E s, n, t : Hold(r, p, s, n, t)
    BY <1>8 DEF ReadHint, AddEvent, PutEvent, EventTaken, ReadSequenceRow, WriteSequenceRow,
       PutHint, HintRefused, ReadLatest, ScanEvents, BuildSnapshot, Go
  <2>3. LoopsKept(r) /\ pc'[r] = p BY <2>2, HoldGoes
  <2>4. CountOf(r)' BY <2>3 DEF CountOf
  <2> QED BY <1>5, <2>1, <2>3, <2>4
<1> QED BY <1>1, <1>2, <1>3, <1>4, <1>6, <1>7, <1>8 DEF Work

LEMMA CountBoot == LogInv /\ CountInv /\ (Boot \/ Crash) => CountInv'
<1> SUFFICES ASSUME LogInv, CountInv, Boot \/ Crash PROVE CountInv' OBVIOUS
<1> USE DEF LogInv
<1>1. \A r \in Requests : pc'[r] \in Ended
  <2>1. CASE Boot
    <3>1. pc' = pc /\ phase # "serving"
      BY <2>1 DEF Boot, Start, SeedEntry, SeedEvent, Reconcile, loop
    <3> QED BY <3>1 DEF Alone
  <2>2. CASE Crash BY <2>2 DEF Crash, Ended
  <2> QED BY <2>1, <2>2
<1>2. \A r \in Requests : CountOf(r)' BY <1>1 DEF CountOf, Ended
<1>3. CASE ~Reconcile
  <2>1. phase' # "serving" BY <1>3 DEF Boot, Start, SeedEntry, SeedEvent, Crash
  <2> QED BY <1>2, <2>1 DEF CountInv, CountBalanced
<1>4. CASE Reconcile
  <2>1. /\ due' = [r \in Requests |-> 0] /\ entry' = entry
        /\ waiting' = [value |-> Cardinality(WaitingEntries), tag |-> 0]
    BY <1>4 DEF Reconcile
  <2>2. Owing(1)' = {} /\ Owing(-1)' = {} /\ WaitingEntries' = WaitingEntries
    BY <2>1 DEF Owing, WaitingEntries
  <2>3. Cardinality(Owing(1))' = 0 /\ Cardinality(Owing(-1))' = 0 BY <2>2, FS_EmptySet
  <2>4. waiting'.value = Cardinality(WaitingEntries)' /\ waiting'.value \in Nat
    BY <2>1, <2>2, Counted
  <2> QED BY <1>2, <2>3, <2>4 DEF CountInv, CountBalanced
<1> QED BY <1>3, <1>4

LEMMA NextCount == IInv /\ CountInv /\ [Next]_vars => CountInv'
<1> SUFFICES ASSUME LogInv, RowInv, CountInv, [Next]_vars PROVE CountInv' BY DEF IInv
<1>1. CASE UNCHANGED vars
  <2>1. UNCHANGED <<phase, entry, waiting, pc, seen, op, ent, st, wrote, due>>
    BY <1>1 DEF vars, host, store, job, loop, effect
  <2>2. \A r \in Requests : CountOf(r)' BY <2>1 DEF CountInv, CountOf
  <2>3. CountBalanced' BY <2>1 DEF CountInv, CountBalanced, Owing, WaitingEntries
  <2> QED BY <2>2, <2>3 DEF CountInv
<1>2. CASE Next BY <1>2, CountAsk, CountWork, CountBoot DEF Next
<1> QED BY <1>1, <1>2

(***************************************************************************)
(* WaitingCount differs from the number of Waiting rows by exactly the     *)
(* adjustments still owed (TableStorageQueueRepository.cs:371): neither a  *)
(* lost race of a cancel with a call, nor a retry, nor a restart makes the *)
(* counter forget or repeat one.                                           *)
(***************************************************************************)
THEOREM CountIsBalanced == Spec => []CountBalanced
<1>1. Init => CountInv
  BY DEF Init, CountInv, CountOf, CountBalanced
<1>2. CountInv => CountBalanced BY DEF CountInv
<1> QED BY <1>1, <1>2, NextCount, Invariant, PTL DEF Spec
-----------------------------------------------------------------------------
(***************************************************************************)
(* The positions told at check-in. While nobody has left the line, the     *)
(* counter lags the line only by check-ins that have not counted           *)
(* themselves yet, and grows with each that does: its value is a position  *)
(* nobody has been told before.                                            *)
(***************************************************************************)
HasLeft(e) == entry[e].status \notin {Absent, "Waiting"}

PlaceOf(r) ==
  /\ wrote[r] /\ due[r] = -1 => ent[r] \in Entries /\ HasLeft(ent[r])
  /\ op[r] = "checkIn" => due[r] # -1
  /\ pc[r] = "idle" => pos[r] = 0

Line ==
  Present = WaitingEntries =>
    /\ waiting.value <= Cardinality(WaitingEntries)
    /\ \A r \in Requests : Told(r) => pos[r] <= waiting.value

PlaceInv == (\A r \in Requests : PlaceOf(r)) /\ Line /\ DistinctPositions

(* Who has left the line does not come back to it. *)
LeftForGood == \A e \in Entries : HasLeft(e) => HasLeft(e)'

LEMMA NobodyReturns == IInv /\ [Next]_vars => LeftForGood
<1> SUFFICES ASSUME IInv, [Next]_vars, NEW e \in Entries, HasLeft(e) PROVE HasLeft(e)'
  BY DEF LeftForGood
<1>1. entry'[e].status # entry[e].status => Legal(entry[e].status, entry'[e].status)
  BY StatusMoves
<1> QED BY <1>1 DEF HasLeft, Legal, Absent

(* No step touches what another request owes or has been told. *)
LEMMA OthersPlace ==
  ASSUME LogInv, NEW r \in Requests, Ask(r) \/ HangUp(r) \/ Work(r), NEW q \in Requests \ {r}
  PROVE  /\ pc'[q] = pc[q] /\ op'[q] = op[q] /\ ent'[q] = ent[q] /\ wrote'[q] = wrote[q]
         /\ due'[q] = due[q] /\ pos'[q] = pos[q]
<1> USE DEF LogInv
<1>1. pc'[q] = pc[q] /\ op'[q] = op[q] BY AlongsideStep DEF Alongside
<1>2. CASE Ask(r)
  BY <1>1, <1>2 DEF Ask, StartCheckIn, StartCallNext, StartState, StartSince, StartOnEntry,
     Accept, answer, TypeOK
<1>3. CASE HangUp(r) BY <1>1, <1>3 DEF HangUp, NoWrite, effect, job, answer
<1>4. CASE AddEntry(r) \/ UpdateEntry(r) \/ WriteCount(r)
  BY <1>1, <1>4 DEF AddEntry, UpdateEntry, PutEntry, WriteCount, PutCount, job, answer, TypeOK
<1>5. CASE FindOldestWaiting(r) \/ GetEntry(r)
  BY <1>1, <1>5 DEF FindOldestWaiting, GetEntry, answer, TypeOK
<1>6. CASE Work(r) /\ ~AddEntry(r) /\ ~UpdateEntry(r) /\ ~WriteCount(r)
           /\ ~FindOldestWaiting(r) /\ ~GetEntry(r)
  BY <1>1, <1>6 DEF Work, UpdateRefused, ReadCount, CountRefused, ReadHint, AddEvent, PutEvent,
     EventTaken, PassEvent, ReadSequenceRow, WriteSequenceRow, PutHint, HintRefused, ReadLatest,
     ScanEvents, BuildSnapshot, NoWrite, effect, job, answer
<1> QED BY <1>2, <1>3, <1>4, <1>5, <1>6

(* A step of r is followed by an await, an answer or a failure of r. *)
LEMMA Begun ==
  ASSUME LogInv, NEW r \in Requests, Ask(r) \/ HangUp(r) \/ Work(r)
  PROVE  pc'[r] # "idle"
<1>1. \E p \in PC \ {"idle"} : \E s, n, t : Hold(r, p, s, n, t)
  BY DEF PC, Ask, StartCheckIn, StartCallNext, StartState, StartSince, StartOnEntry, Accept,
     HangUp, Work, AddEntry, UpdateEntry, PutEntry, FindOldestWaiting, GetEntry, UpdateRefused,
     ReadCount, WriteCount, PutCount, CountRefused, ReadHint, AddEvent, PutEvent, EventTaken,
     PassEvent, ReadSequenceRow, WriteSequenceRow, PutHint, HintRefused, ReadLatest,
     ScanEvents, BuildSnapshot, Retry, Go
<1> QED BY <1>1, HoldGoes DEF LogInv

LEMMA PlaceStep ==
  ASSUME LogInv, RowInv, CountInv, NEW r \in Requests, Ask(r) \/ HangUp(r) \/ Work(r),
         PlaceOf(r), LeftForGood
  PROVE  PlaceOf(r)'
<1> USE DEF LogInv
<1>1. pc'[r] # "idle" BY Begun
<1>2. RowOf(r) /\ CountOf(r) BY RowInvParts DEF CountInv
<1>3. CASE Ask(r)
  <2>1. pc[r] = "idle" /\ wrote' = wrote
    BY <1>3 DEF Ask, StartCheckIn, StartCallNext, StartState, StartSince, StartOnEntry, Accept
  <2>2. ~wrote'[r] BY <1>2, <2>1 DEF RowOf
  <2>3. op'[r] = "checkIn" => due'[r] = 1
    BY <1>3 DEF Ask, StartCheckIn, StartCallNext, StartState, StartSince, StartOnEntry, Accept,
                TypeOK
  <2> QED BY <1>1, <2>2, <2>3 DEF PlaceOf
<1>4. CASE UNCHANGED <<op, ent, wrote, due>> BY <1>1, <1>4 DEF PlaceOf, LeftForGood
<1>5. CASE AddEntry(r) \/ UpdateEntry(r)
  <2>1. /\ UNCHANGED <<op, ent, st, due>> /\ ent[r] \in Entries /\ st[r] \in QueueStatus
        /\ entry' = [entry EXCEPT ![ent[r]] = [status |-> st[r], tag |-> @.tag + 1]]
    BY <1>5 DEF AddEntry, UpdateEntry, PutEntry, job, CopyTyped
  <2>2. entry'[ent[r]].status = st[r] BY <2>1 DEF TypeOK
  <2>3. due[r] = -1 => st[r] # "Waiting" BY <1>2, <1>5 DEF CountOf, AddEntry, UpdateEntry
  <2>4. due[r] = -1 => ent'[r] \in Entries /\ HasLeft(ent[r])'
    BY <2>1, <2>2, <2>3 DEF HasLeft, QueueStatus, Absent
  <2> QED BY <1>1, <2>1, <2>4 DEF PlaceOf
<1>6. CASE WriteCount(r)
  <2>1. due'[r] = 0 BY <1>6 DEF WriteCount, PutCount, TypeOK
  <2> QED BY <1>1, <2>1 DEF PlaceOf
<1>7. CASE FindOldestWaiting(r) \/ GetEntry(r)
  <2>1. wrote' = wrote /\ op' = op /\ pc[r] \in {"find", "get"}
    BY <1>7 DEF FindOldestWaiting, GetEntry
  <2>2. ~wrote'[r] /\ op'[r] # "checkIn" BY <1>2, <2>1 DEF RowOf, CountOf
  <2> QED BY <1>1, <2>2 DEF PlaceOf
<1>8. CASE HangUp(r) BY <1>4, <1>8 DEF HangUp, NoWrite, effect, job
<1>9. CASE Work(r) /\ ~AddEntry(r) /\ ~UpdateEntry(r) /\ ~WriteCount(r)
           /\ ~FindOldestWaiting(r) /\ ~GetEntry(r)
  <2>1. UNCHANGED <<op, ent, wrote, due>>
    BY <1>9 DEF Work, UpdateRefused, ReadCount, CountRefused, ReadHint, AddEvent, PutEvent,
       EventTaken, PassEvent, ReadSequenceRow, WriteSequenceRow, PutHint, HintRefused, ReadLatest,
       ScanEvents, BuildSnapshot, NoWrite, effect, job
  <2> QED BY <1>4, <2>1
<1> QED BY <1>3, <1>5, <1>6, <1>7, <1>8, <1>9

LEMMA NextPlaces ==
  ASSUME LogInv, RowInv, CountInv, PlaceInv, LeftForGood, [Next]_vars, NEW q \in Requests
  PROVE  PlaceOf(q)'
<1>0. PlaceOf(q) BY DEF PlaceInv
<1>1. ASSUME NEW r \in Requests, Ask(r) \/ HangUp(r) \/ Work(r) PROVE PlaceOf(q)'
  <2>1. CASE q = r BY <1>0, <1>1, <2>1, PlaceStep
  <2>2. CASE q # r
    <3>1. /\ pc'[q] = pc[q] /\ op'[q] = op[q] /\ ent'[q] = ent[q] /\ wrote'[q] = wrote[q]
          /\ due'[q] = due[q] /\ pos'[q] = pos[q]
      BY <1>1, <2>2, OthersPlace
    <3> QED BY <1>0, <3>1 DEF PlaceOf, LeftForGood
  <2> QED BY <2>1, <2>2
<1>2. CASE UNCHANGED <<op, ent, wrote, pos>> /\ (pc'[q] = "idle" => pc[q] = "idle")
           /\ (due' = due \/ due'[q] = 0)
  BY <1>0, <1>2 DEF PlaceOf, LeftForGood
<1>3. CASE Boot
  <2>1. UNCHANGED <<pc, op, ent, wrote, pos>> /\ (due' = due \/ due' = [r \in Requests |-> 0])
    BY <1>3 DEF Boot, Start, SeedEntry, SeedEvent, Reconcile, loop, job, effect, answer
  <2> QED BY <1>2, <2>1
<1>4. CASE Crash BY <1>2, <1>4 DEF Crash, job, effect, answer
<1>5. CASE UNCHANGED vars BY <1>2, <1>5 DEF vars, loop, job, effect, answer
<1> QED BY <1>1, <1>3, <1>4, <1>5 DEF Next

(* As long as nobody has left, the line only grows. *)
LEMMA LineGrows ==
  ASSUME LeftForGood, IInv, [Next]_vars, Present' = WaitingEntries'
  PROVE  /\ Present = WaitingEntries
         /\ Cardinality(WaitingEntries) <= Cardinality(WaitingEntries)'
         /\ Cardinality(WaitingEntries)' \in Nat
<1>1. ASSUME NEW e \in Present PROVE e \in WaitingEntries
  <2>1. e \in Entries /\ (HasLeft(e) \/ e \in WaitingEntries)
    BY DEF Present, WaitingEntries, HasLeft
  <2>2. ~HasLeft(e)' BY <2>1 DEF HasLeft, Present, WaitingEntries, Absent
  <2> QED BY <2>1, <2>2 DEF LeftForGood
<1>2. WaitingEntries \subseteq Present BY DEF Present, WaitingEntries, Absent
<1>3. ASSUME NEW e \in WaitingEntries PROVE e \in WaitingEntries'
  <2>1. e \in Entries /\ entry[e].status = "Waiting" BY DEF WaitingEntries
  <2>2. entry'[e].status # Absent BY <2>1, StatusMoves DEF Legal, Absent
  <2>3. e \in Present' BY <2>1, <2>2 DEF Present
  <2> QED BY <2>3
<1>4. WaitingEntries \subseteq WaitingEntries' BY <1>3
<1>5. IsFiniteSet(WaitingEntries)'
  <2>1. WaitingEntries' \subseteq Entries BY DEF WaitingEntries
  <2>2. IsFiniteSet(Entries) BY TableQueueAssumption, FS_Interval DEF Entries
  <2> QED BY <2>1, <2>2, FS_Subset
<1> QED BY <1>1, <1>2, <1>4, <1>5, FS_Subset, FS_CardinalityType

(* Only the write of the counter tells a position, and only it or a start moves the counter. *)
LEMMA NothingTold ==
  ASSUME LogInv, PlaceInv, [Next]_vars, \A r \in Requests : ~WriteCount(r)
  PROVE  /\ \A q \in Requests : Told(q)' => Told(q) /\ pos'[q] = pos[q]
         /\ waiting' = waiting \/ Reconcile
<1> USE DEF LogInv
<1>1. ASSUME UNCHANGED <<pos, op>>
      PROVE  \A q \in Requests : Told(q)' => Told(q) /\ pos'[q] = pos[q]
  BY <1>1 DEF Told
<1>2. ASSUME NEW r \in Requests, Ask(r)
      PROVE  waiting' = waiting /\ \A q \in Requests : Told(q)' => Told(q) /\ pos'[q] = pos[q]
  <2>1. pc[r] = "idle" /\ UNCHANGED <<pos, waiting>>
    BY <1>2 DEF Ask, StartCheckIn, StartCallNext, StartState, StartSince, StartOnEntry, Accept,
                answer, store
  <2>2. pos[r] = 0 BY <2>1 DEF PlaceInv, PlaceOf
  <2>3. \A q \in Requests \ {r} : op'[q] = op[q] BY <1>2, OthersPlace
  <2> QED BY <2>1, <2>2, <2>3 DEF Told
<1>3. ASSUME NEW r \in Requests, HangUp(r) \/ Work(r) PROVE UNCHANGED <<pos, op, waiting>>
  BY <1>3 DEF HangUp, Work, AddEntry, UpdateEntry, PutEntry, FindOldestWaiting, GetEntry,
     UpdateRefused, ReadCount, CountRefused, ReadHint, AddEvent, PutEvent, EventTaken, PassEvent,
     ReadSequenceRow, WriteSequenceRow, PutHint, HintRefused, ReadLatest, ScanEvents,
     BuildSnapshot, NoWrite, job, answer, store
<1>4. CASE Boot \/ Crash
  <2>1. UNCHANGED <<pos, op>> /\ (waiting' = waiting \/ Reconcile)
    BY <1>4 DEF Boot, Start, SeedEntry, SeedEvent, Reconcile, Crash, job, answer, store
  <2> QED BY <1>1, <2>1
<1>5. CASE UNCHANGED vars
  <2>1. UNCHANGED <<pos, op, waiting>> BY <1>5 DEF vars, job, answer, store
  <2> QED BY <1>1, <2>1
<1> QED BY <1>1, <1>2, <1>3, <1>4, <1>5 DEF Next

LEMMA NextLine ==
  ASSUME IInv, CountInv, CountInv', PlaceInv, LeftForGood, [Next]_vars,
         \A q \in Requests : PlaceOf(q)'
  PROVE  Line' /\ DistinctPositions'
<1> USE DEF IInv, LogInv
<1> DEFINE line == Cardinality(WaitingEntries)
<1> SUFFICES ASSUME Present' = WaitingEntries'
             PROVE  /\ waiting'.value <= line'
                    /\ \A q \in Requests : Told(q)' => pos'[q] <= waiting'.value
                    /\ \A p, q \in Requests : Told(p)' /\ Told(q)' /\ pos'[p] = pos'[q] => p = q
  BY DEF Line, DistinctPositions
<1>1. Present = WaitingEntries /\ line <= line' /\ line' \in Nat BY LineGrows
<1>2. /\ waiting.value <= line
      /\ \A q \in Requests : Told(q) => pos[q] <= waiting.value
      /\ \A p, q \in Requests : Told(p) /\ Told(q) /\ pos[p] = pos[q] => p = q
  BY <1>1 DEF PlaceInv, Line, DistinctPositions
<1>3. /\ waiting.value \in Int /\ line \in Nat /\ line' \in Nat
      /\ \A q \in Requests : pos[q] \in Int
  BY <1>1, Counted DEF TypeOK, Counter
<1> HIDE DEF line
<1>4. CASE \A r \in Requests : ~WriteCount(r)
  <2>1. \A q \in Requests : Told(q)' => Told(q) /\ pos'[q] = pos[q] BY <1>4, NothingTold
  <2>2. waiting.value <= waiting'.value /\ waiting'.value <= line'
    <3>1. CASE waiting' = waiting BY <1>1, <1>2, <1>3, <3>1
    <3>2. CASE Reconcile
      <4>1. waiting'.value = line /\ WaitingEntries' = WaitingEntries
        BY <3>2 DEF Reconcile, line, WaitingEntries
      <4>2. line' = line BY <4>1 DEF line
      <4> QED BY <1>2, <1>3, <4>1, <4>2
    <3> QED BY <1>4, <3>1, <3>2, NothingTold
  <2>3. waiting'.value \in Int BY <1>1, NextIInv DEF Counter, TypeOK
  <2> QED BY <1>2, <1>3, <2>1, <2>2, <2>3
<1>5. ASSUME NEW r \in Requests, WriteCount(r)
      PROVE  /\ waiting'.value <= line'
             /\ \A q \in Requests : Told(q)' => pos'[q] <= waiting'.value
             /\ \A p, q \in Requests : Told(p)' /\ Told(q)' /\ pos'[p] = pos'[q] => p = q
  <2>1. /\ phase = "serving" /\ phase' = phase /\ entry' = entry /\ ent' = ent /\ wrote[r]
        /\ due[r] \in {-1, 1} /\ waiting'.value = waiting.value + due[r] /\ op' = op
        /\ pos' = [pos EXCEPT ![r] = IF op[r] = "checkIn" THEN waiting'.value ELSE @]
    BY <1>5 DEF WriteCount, PutCount, host, job, CountInv, CountOf, TypeOK, Alone, Ended
  <2>2. ASSUME NEW e \in Entries PROVE ~HasLeft(e) /\ ~HasLeft(e)'
    <3>1. ~HasLeft(e) BY <1>1 DEF HasLeft, Present, WaitingEntries
    <3> QED BY <2>1, <3>1 DEF HasLeft
  <2>3. due[r] = 1 BY <2>1, <2>2 DEF PlaceInv, PlaceOf
  <2>4. Owing(-1)' = {} BY <2>2 DEF PlaceOf, Owing
  <2>5. waiting'.value + Cardinality(Owing(1))' - 0 = line'
    BY <2>1, <2>4, FS_EmptySet DEF CountInv, CountBalanced, line
  <2>6. Cardinality(Owing(1))' \in Nat
    <3>1. Owing(1)' \subseteq Requests BY DEF Owing
    <3> QED BY <3>1, TableQueueAssumption, FS_Subset, FS_CardinalityType
  <2>7. waiting'.value = waiting.value + 1 /\ waiting'.value <= line'
    BY <1>3, <2>1, <2>3, <2>5, <2>6
  <2>8. \A q \in Requests \ {r} : pos'[q] = pos[q] /\ (Told(q)' <=> Told(q))
    BY <2>1 DEF Told, TypeOK
  <2>9. Told(r)' => pos'[r] = waiting'.value BY <2>1 DEF Told, TypeOK
  <2>10. \A q \in Requests \ {r} : Told(q)' => Told(q) /\ pos'[q] <= waiting.value
    BY <1>2, <2>8
  <2> QED BY <1>2, <1>3, <2>7, <2>8, <2>9, <2>10
<1> QED BY <1>4, <1>5

LEMMA NextPlaceInv == IInv /\ CountInv /\ PlaceInv /\ [Next]_vars => PlaceInv'
<1> SUFFICES ASSUME IInv, CountInv, PlaceInv, [Next]_vars PROVE PlaceInv' OBVIOUS
<1>1. LeftForGood BY NobodyReturns
<1>2. \A q \in Requests : PlaceOf(q)' BY <1>1, NextPlaces DEF IInv
<1>3. Line' /\ DistinctPositions' BY <1>1, <1>2, NextCount, NextLine
<1> QED BY <1>2, <1>3 DEF PlaceInv

(***************************************************************************)
(* Visitors who check in while nobody leaves the line are told distinct    *)
(* positions (TableStorageQueueRepository.cs:91): the counter's ETag       *)
(* orders them, and neither hang-ups nor a restart, which recounts, lets a *)
(* number come up twice.                                                   *)
(***************************************************************************)
THEOREM PositionsAreDistinct == Spec => []DistinctPositions
<1>1. Init => CountInv /\ PlaceInv
  <2> SUFFICES ASSUME Init PROVE CountInv /\ PlaceInv OBVIOUS
  <2>1. CountInv BY DEF Init, CountInv, CountOf, CountBalanced
  <2>2. \A r \in Requests : PlaceOf(r) /\ ~Told(r) BY DEF Init, PlaceOf, Told
  <2>3. waiting.value <= Cardinality(WaitingEntries) BY Counted DEF Init, Zero
  <2> QED BY <2>1, <2>2, <2>3 DEF PlaceInv, Line, DistinctPositions
<1>2. PlaceInv => DistinctPositions BY DEF PlaceInv
<1> QED BY <1>1, <1>2, NextCount, NextPlaceInv, Invariant, PTL DEF Spec
=============================================================================
