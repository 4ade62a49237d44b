------------------------- MODULE SqliteQueueProofs -------------------------
(***************************************************************************)
(* Theorems about SqliteQueue, for any number of requests and entries.     *)
(*                                                                         *)
(* Document changes left aside, the log and the rows always tell the same  *)
(* story, however many stale decisions are committed: this needs only that *)
(* a commit appends the very row it writes, and that a document change     *)
(* writes none. That every answer's snapshot shows what the transitions    *)
(* came to follows, given that no event is rewritten and that no number of *)
(* an earlier event becomes a document change's.                           *)
(***************************************************************************)
EXTENDS SqliteQueue, FiniteSetTheorems, SequenceTheorems, TLAPS

(* What the transitions up to number m say of e. *)
Moved(e, m, status) == Stands(log, DocumentChanges, e, m, status)

(***************************************************************************)
(* A request's locals before and after it is answered: no number is ahead  *)
(* of the log, and a document change holds a status its entry once had.    *)
(***************************************************************************)
Unanswered ==
  \A r \in Requests :
    /\ seq[r] <= Len(log)
    /\ pc[r] \in {"idle", "commit", "rows"} => sum[r] = NoSnapshot
    /\ pc[r] = "idle" => seq[r] = -1
    /\ pc[r] = "rows" => op[r] = "state"
    /\ pc[r] = "commit" =>
         /\ op[r] # "state"
         /\ op[r] = "document" => \E k \in 0 .. Len(log) : Moved(ent[r], k, st[r])

(* The invariant that is inductive: the rows carry every later answer. *)
IInv == TypeOK /\ Unanswered /\ RowsFollowLog /\ AnswersFollowLog

-----------------------------------------------------------------------------
(***************************************************************************)
(* What an append changes of what the events say.                          *)
(***************************************************************************)
(* Numbers already given out keep their meaning. *)
LEMMA StandsKept ==
  ASSUME NEW events \in Seq(Event(Entries)), NEW x \in Event(Entries), NEW others, NEW more,
         \A n \in 1 .. Len(events) : n \in more <=> n \in others,
         NEW e, NEW m \in Int, m <= Len(events), NEW status
  PROVE  Stands(Append(events, x), more, e, m, status) <=> Stands(events, others, e, m, status)
<1> DEFINE longer == Append(events, x)
           old == EventsAbout(events, e, m) \ others
           new == EventsAbout(longer, e, m) \ more
<1>1. /\ DOMAIN events = 1 .. Len(events) /\ DOMAIN longer = 1 .. Len(events) + 1
      /\ Len(events) \in Nat /\ \A k \in 1 .. Len(events) : longer[k] = events[k]
  OBVIOUS
<1> HIDE DEF longer
<1>2. new = old BY <1>1 DEF EventsAbout
<1>3. \A k \in old : longer[k] = events[k] BY <1>1 DEF EventsAbout
<1> HIDE DEF old, new
<1>4. LastSays(longer, new, status) <=> LastSays(events, old, status)
  BY <1>2, <1>3 DEF LastSays
<1> QED BY <1>4 DEF Stands, longer, old, new

(***************************************************************************)
(* The new event decides for its own entry if it is not left out, and for  *)
(* no other entry.                                                         *)
(***************************************************************************)
LEMMA StandsAdded ==
  ASSUME NEW events \in Seq(Event(Entries)), NEW x \in Event(Entries), NEW others, NEW more,
         \A n \in 1 .. Len(events) : n \in more <=> n \in others,
         NEW e, NEW status, Stands(events, others, e, Len(events), status)
  PROVE  Stands(Append(events, x), more, e, Len(events) + 1,
                IF x.entry = e /\ (Len(events) + 1) \notin more THEN x.status ELSE status)
<1> DEFINE longer == Append(events, x)
           n == Len(events) + 1
           old == EventsAbout(events, e, Len(events)) \ others
           new == EventsAbout(longer, e, n) \ more
<1>1. /\ DOMAIN events = 1 .. Len(events) /\ DOMAIN longer = 1 .. n /\ n \in Nat \ {0}
      /\ Len(events) \in Nat
      /\ \A k \in 1 .. Len(events) : longer[k] = events[k]
      /\ longer[n] = x
  OBVIOUS
<1> HIDE DEF longer
<1>2. CASE x.entry = e /\ n \notin more
  <2>1. n \in new /\ \A k \in new : k <= n BY <1>1, <1>2 DEF EventsAbout
  <2>2. LastSays(longer, new, x.status) BY <1>1, <2>1 DEF LastSays
  <2> QED BY <1>2, <2>2 DEF longer, Stands
<1>3. CASE ~(x.entry = e /\ n \notin more)
  <2>1. new = old BY <1>1, <1>3 DEF EventsAbout
  <2>2. \A k \in old : longer[k] = events[k] BY <1>1 DEF EventsAbout
  <2>3. LastSays(events, old, status) BY DEF Stands
  <2>4. LastSays(longer, new, status)
    <3> HIDE DEF old, new
    <3> QED BY <2>1, <2>2, <2>3 DEF LastSays
  <2> QED BY <1>3, <2>4 DEF longer, Stands
<1> QED BY <1>2, <1>3

-----------------------------------------------------------------------------
(***************************************************************************)
(* The initial state: the seed list and its events.                        *)
(***************************************************************************)
LEMMA InitTyped == Init => TypeOK
<1> SUFFICES ASSUME Init PROVE TypeOK OBVIOUS
<1> USE SqliteQueueAssumption DEF Init
<1>1. entry \in Statuses BY DEF Statuses, RowStatus, QueueStatus
<1>2. log \in Seq(Event(Entries)) BY DEF Event, Entries, QueueStatus
<1>3. /\ pc \in [Requests -> {"idle", "commit", "rows", "done", "failed"}]
      /\ op \in [Requests -> Operations \cup {"none"}]
      /\ ent \in [Requests -> Entries \cup {0}]
      /\ st \in [Requests -> RowStatus]
      /\ \A r \in Requests : pc[r] = "commit" => ent[r] \in Entries /\ st[r] \in QueueStatus
  BY DEF RowStatus
<1>4. /\ from \in [Requests -> Int]
      /\ seq \in [Requests -> {-1} \cup Nat]
      /\ sum \in [Requests -> Statuses \cup {NoSnapshot}]
      /\ pos \in [Requests -> 0 .. MaxEntries]
  OBVIOUS
<1> QED BY <1>1, <1>2, <1>3, <1>4 DEF TypeOK

LEMMA InitIInv == Init => IInv
<1> SUFFICES ASSUME Init PROVE IInv OBVIOUS
<1>0. TypeOK BY InitTyped
<1>1. /\ SeedEntries \in Nat /\ Len(log) = SeedEntries
      /\ DOMAIN log = 1 .. SeedEntries
      /\ \A n \in 1 .. SeedEntries : log[n] = [entry |-> n, status |-> "Waiting"]
  BY SqliteQueueAssumption DEF Init
<1>2. Unanswered BY <1>1 DEF Unanswered, Init
<1>3. DocumentChanges = {} BY DEF DocumentChanges, Init
<1>4. RowsFollowLog
  <2> SUFFICES ASSUME NEW e \in Entries
               PROVE  Stands(log, DocumentChanges, e, Len(log), entry[e])
    BY DEF RowsFollowLog, Latest
  <2>1. e \in Nat \ {0} BY SqliteQueueAssumption DEF Entries
  <2>2. CASE e <= SeedEntries
    <3>1. EventsAbout(log, e, Len(log)) \ DocumentChanges = {e}
      BY <1>1, <1>3, <2>1, <2>2 DEF EventsAbout
    <3>2. log[e].status = entry[e] BY <1>1, <2>1, <2>2 DEF Init
    <3> QED BY <2>1, <3>1, <3>2 DEF Stands, LastSays
  <2>3. CASE ~(e <= SeedEntries)
    <3>1. EventsAbout(log, e, Len(log)) \ DocumentChanges = {}
      BY <1>1, <2>1, <2>3 DEF EventsAbout
    <3>2. entry[e] = Absent BY <2>1, <2>3 DEF Init
    <3> QED BY <3>1, <3>2 DEF Stands, LastSays
  <2> QED BY <2>2, <2>3
<1>5. AnswersFollowLog BY DEF AnswersFollowLog, Init
<1> QED BY <1>0, <1>2, <1>4, <1>5 DEF IInv

-----------------------------------------------------------------------------
(***************************************************************************)
(* Type correctness. It needs no other invariant: a commit's row and event *)
(* come from locals that its own read has set.                             *)
(***************************************************************************)
(* A request that has only read so far. *)
LEMMA AskTyped ==
  ASSUME TypeOK, NEW r \in Requests, NEW o, NEW p \in {"commit", "done"}, Begin(r, o, p),
         UNCHANGED <<store, from, answer>>,
         ent' \in [Requests -> Entries \cup {0}], st' \in [Requests -> RowStatus],
         \A q \in Requests : pc'[q] = "commit" => ent'[q] \in Entries /\ st'[q] \in QueueStatus
  PROVE  TypeOK'
BY DEF TypeOK, Begin, store, answer

LEMMA NextTyped == TypeOK /\ [Next]_vars => TypeOK'
<1> SUFFICES ASSUME TypeOK, [Next]_vars PROVE TypeOK' OBVIOUS
<1> USE SqliteQueueAssumption DEF TypeOK
<1>1. ASSUME NEW r \in Requests, CheckIn(r) PROVE TypeOK'
  <2> DEFINE e == Count + 1
             rows == [entry EXCEPT ![e] = "Waiting"]
  <2>1. e \in Entries /\ "Waiting" \in QueueStatus /\ "Waiting" \in RowStatus
    BY <1>1 DEF CheckIn, QueueStatus, RowStatus
  <2>2. entry' = rows /\ rows \in Statuses BY <1>1, <2>1 DEF CheckIn, Statuses
  <2>3. log' \in Seq(Event(Entries))
    <3>1. [entry |-> e, status |-> "Waiting"] \in Event(Entries) BY <2>1 DEF Event
    <3>2. log' = Append(log, [entry |-> e, status |-> "Waiting"]) BY <1>1 DEF CheckIn
    <3> QED BY <3>1, <3>2
  <2>4. pos' \in [Requests -> 0 .. MaxEntries]
    <3>1. Waiting(rows) \subseteq 1 .. MaxEntries BY DEF Waiting, Entries
    <3>2. Cardinality(Waiting(rows)) \in 0 .. MaxEntries
      <4>1. IsFiniteSet(1 .. MaxEntries) /\ Cardinality(1 .. MaxEntries) = MaxEntries
        BY FS_Interval
      <4>2. /\ IsFiniteSet(Waiting(rows))
            /\ Cardinality(Waiting(rows)) <= Cardinality(1 .. MaxEntries)
        BY <3>1, <4>1, FS_Subset
      <4>3. Cardinality(Waiting(rows)) \in Nat BY <4>2, FS_CardinalityType
      <4> QED BY <4>1, <4>2, <4>3
    <3>3. pos' = [pos EXCEPT ![r] = Cardinality(Waiting(rows))] BY <1>1 DEF CheckIn
    <3> HIDE DEF rows
    <3> QED BY <3>2, <3>3
  <2>5. /\ pc' = [pc EXCEPT ![r] = "done"] /\ op' = [op EXCEPT ![r] = "checkIn"]
        /\ "checkIn" \in Operations
        /\ ent' = [ent EXCEPT ![r] = e] /\ st' = [st EXCEPT ![r] = "Waiting"]
        /\ from' = from /\ seq' = [seq EXCEPT ![r] = Len(log) + 1]
        /\ sum' = [sum EXCEPT ![r] = rows]
    BY <1>1 DEF CheckIn, Begin, Answer
  <2>6. Len(log) + 1 \in {-1} \cup Nat OBVIOUS
  <2> HIDE DEF rows, e
  <2>7. /\ pc' \in [Requests -> {"idle", "commit", "rows", "done", "failed"}]
        /\ op' \in [Requests -> Operations \cup {"none"}]
    BY <2>5
  <2>8. /\ ent' \in [Requests -> Entries \cup {0}] /\ st' \in [Requests -> RowStatus]
        /\ \A q \in Requests : pc'[q] = "commit" => ent'[q] \in Entries /\ st'[q] \in QueueStatus
    BY <2>1, <2>5
  <2>9. /\ from' \in [Requests -> Int] /\ seq' \in [Requests -> {-1} \cup Nat]
        /\ sum' \in [Requests -> Statuses \cup {NoSnapshot}]
    BY <2>2, <2>5, <2>6
  <2> QED BY <2>2, <2>3, <2>4, <2>7, <2>8, <2>9
<1>2. ASSUME NEW r \in Requests, CallNext(r) PROVE TypeOK'
  <2>1. UNCHANGED <<store, from, answer>> BY <1>2 DEF CallNext
  <2>2. \E p \in {"commit", "done"} : Begin(r, "callNext", p) BY <1>2 DEF CallNext
  <2>3. /\ ent' \in [Requests -> Entries \cup {0}] /\ st' \in [Requests -> RowStatus]
        /\ \A q \in Requests : pc'[q] = "commit" => ent'[q] \in Entries /\ st'[q] \in QueueStatus
    <3>0. {"Waiting", "Serving"} \subseteq QueueStatus /\ QueueStatus \subseteq RowStatus
      BY DEF QueueStatus, RowStatus
    <3>1. CASE pc' = [pc EXCEPT ![r] = "done"] /\ UNCHANGED <<ent, st>> BY <3>1
    <3>2. CASE /\ \A q \in Requests \ {r} : pc'[q] = pc[q]
               /\ st' = [st EXCEPT ![r] = "Serving"]
               /\ \E e \in Entries : ent' = [ent EXCEPT ![r] = e]
      BY <3>0, <3>2
    <3> QED BY <1>2, <3>1, <3>2 DEF CallNext, Begin, Waiting
  <2> QED BY <2>1, <2>2, <2>3, AskTyped
<1>3. ASSUME NEW r \in Requests, NEW o \in {"complete", "cancel", "document"},
             NEW e \in Entries, OnEntry(r, o, e)
      PROVE  TypeOK'
  <2>1. UNCHANGED <<store, from, answer>> BY <1>3 DEF OnEntry
  <2>2. \E p \in {"commit", "done"} : Begin(r, o, p) BY <1>3 DEF OnEntry
  <2>3. \/ /\ entry[e] # Absent /\ ent' = [ent EXCEPT ![r] = e]
           /\ st' = [st EXCEPT ![r] = IF o = "document" THEN entry[e] ELSE Target(o)]
        \/ pc' = [pc EXCEPT ![r] = "done"] /\ UNCHANGED <<ent, st>>
    BY <1>3 DEF OnEntry, Begin
  <2>4. entry[e] # Absent
          => (IF o = "document" THEN entry[e] ELSE Target(o)) \in QueueStatus
    BY DEF Target, QueueStatus, Statuses, RowStatus
  <2>5. \A q \in Requests \ {r} : pc'[q] = pc[q] BY <2>2 DEF Begin
  <2>6. QueueStatus \subseteq RowStatus BY DEF RowStatus
  <2>7. /\ ent' \in [Requests -> Entries \cup {0}] /\ st' \in [Requests -> RowStatus]
        /\ \A q \in Requests : pc'[q] = "commit" => ent'[q] \in Entries /\ st'[q] \in QueueStatus
    <3>1. CASE entry[e] # Absent /\ ent' = [ent EXCEPT ![r] = e]
               /\ st' = [st EXCEPT ![r] = IF o = "document" THEN entry[e] ELSE Target(o)]
      <4> DEFINE s == IF o = "document" THEN entry[e] ELSE Target(o)
      <4>1. s \in QueueStatus /\ st' = [st EXCEPT ![r] = s] BY <2>4, <3>1
      <4> HIDE DEF s
      <4> QED BY <2>5, <2>6, <3>1, <4>1
    <3>2. CASE pc' = [pc EXCEPT ![r] = "done"] /\ UNCHANGED <<ent, st>> BY <3>2
    <3> QED BY <2>3, <3>1, <3>2
  <2> QED BY <2>1, <2>2, <2>7, AskTyped
<1>4. ASSUME NEW r \in Requests, NEW n \in -1 .. Latest + 1, GetChangesSince(r, n)
      PROVE  TypeOK'
  <2> DEFINE rows == IF (n >= 0 /\ n <= Latest) /\ Latest - n <= MaxCatchUp
                     THEN NoSnapshot ELSE entry
  <2>1. /\ op' = [op EXCEPT ![r] = "since"] /\ pc' = [pc EXCEPT ![r] = "done"]
        /\ "since" \in Operations /\ from' = [from EXCEPT ![r] = n]
        /\ seq' = [seq EXCEPT ![r] = Latest] /\ sum' = [sum EXCEPT ![r] = rows]
        /\ UNCHANGED <<entry, log, ent, st, pos>>
    BY <1>4 DEF GetChangesSince, Begin, Answer, store
  <2>2. rows \in Statuses \cup {NoSnapshot} /\ Latest \in Nat /\ n \in Int BY DEF Latest
  <2> HIDE DEF rows
  <2> QED BY <2>1, <2>2
<1>5. ASSUME NEW r \in Requests, Commit(r) PROVE TypeOK'
  <2>1. ent[r] \in Entries /\ st[r] \in QueueStatus /\ st[r] \in RowStatus
    BY <1>5 DEF Commit, RowStatus
  <2>2. [entry EXCEPT ![ent[r]] = st[r]] \in Statuses BY <2>1 DEF Statuses
  <2>3. [entry |-> ent[r], status |-> st[r]] \in Event(Entries) BY <2>1 DEF Event
  <2>4. log' \in Seq(Event(Entries)) BY <1>5, <2>3 DEF Commit
  <2> QED BY <1>5, <2>2, <2>4 DEF Commit, Answer
<1>6. ASSUME NEW r \in Requests, GetState(r) PROVE TypeOK'
  <2>1. Latest \in Nat /\ entry \in Statuses \cup {NoSnapshot} BY DEF Latest
  <2>2. /\ \E p \in {"rows", "done"} : pc' = [pc EXCEPT ![r] = p]
        /\ \/ op' = [op EXCEPT ![r] = "state"] /\ "state" \in Operations
           \/ op' = op
        /\ seq' = [seq EXCEPT ![r] = Latest] \/ seq' = seq
        /\ sum' = [sum EXCEPT ![r] = entry] \/ sum' = sum
        /\ UNCHANGED <<entry, log, ent, st, from, pos>>
    BY <1>6 DEF GetState, Begin, store
  <2>3. op' \in [Requests -> Operations \cup {"none"}] BY <2>2
  <2>4. seq' \in [Requests -> {-1} \cup Nat] BY <2>1, <2>2
  <2>5. sum' \in [Requests -> Statuses \cup {NoSnapshot}]
    <3>1. CASE sum' = [sum EXCEPT ![r] = entry] BY <2>1, <3>1
    <3> QED BY <2>2, <3>1
  <2>6. pc' \in [Requests -> {"idle", "commit", "rows", "done", "failed"}] BY <2>2
  <2>7. \A q \in Requests : pc'[q] = "commit" => ent'[q] \in Entries /\ st'[q] \in QueueStatus
    <3>1. PICK p \in {"rows", "done"} : pc' = [pc EXCEPT ![r] = p] BY <2>2
    <3>2. \A q \in Requests : pc'[q] = "commit" => pc[q] = "commit" BY <3>1
    <3> QED BY <2>2, <3>2
  <2> QED BY <2>2, <2>3, <2>4, <2>5, <2>6, <2>7
<1>7. ASSUME NEW r \in Requests, HangUp(r) PROVE TypeOK'
  BY <1>7 DEF HangUp, store, answer
<1>8. CASE UNCHANGED vars BY <1>8 DEF vars, store, answer
<1> QED BY <1>1, <1>2, <1>3, <1>4, <1>5, <1>6, <1>7, <1>8 DEF Next, Ask

(***************************************************************************)
(* Type correctness of SqliteQueueRepository's tables and requests: no     *)
(* commit is made for a row that is not there.                             *)
(***************************************************************************)
THEOREM TypeCorrect == Spec => []TypeOK
BY InitTyped, NextTyped, PTL DEF Spec

-----------------------------------------------------------------------------
(***************************************************************************)
(* What commits and reads do to the invariant.                             *)
(***************************************************************************)
(***************************************************************************)
(* A step that leaves the log alone or adds one event to it, by a request  *)
(* r that had not answered: the numbers of document changes already in the *)
(* log stay as they are, and what its transitions say of an entry too.     *)
(***************************************************************************)
Grows(r) ==
  /\ log' = log \/ \E x \in Event(Entries) : log' = Append(log, x)
  /\ pc[r] # "done"
  /\ pc'[r] = "done" /\ op'[r] = "document" => seq'[r] = -1 \/ seq'[r] > Len(log)
  /\ \A q \in Requests \ {r} : pc'[q] = pc[q] /\ op'[q] = op[q] /\ seq'[q] = seq[q]

LEMMA DocumentChangesKept ==
  ASSUME TypeOK, TypeOK', NEW r \in Requests, Grows(r)
  PROVE  \A n \in 1 .. Len(log) : n \in DocumentChanges' <=> n \in DocumentChanges
<1> TAKE n \in 1 .. Len(log)
<1>1. Len(log) \in Nat BY DEF TypeOK
<1>2. ASSUME NEW q \in Requests, op[q] = "document", pc[q] = "done", n = seq[q]
      PROVE  n \in DocumentChanges'
  BY <1>2 DEF Grows, DocumentChanges
<1>3. ASSUME NEW q \in Requests, op'[q] = "document", pc'[q] = "done", n = seq'[q]
      PROVE  n \in DocumentChanges
  <2>1. q # r BY <1>1, <1>3 DEF Grows
  <2> QED BY <1>3, <2>1 DEF Grows, DocumentChanges
<1> QED BY <1>2, <1>3 DEF DocumentChanges

LEMMA MovedKept ==
  ASSUME TypeOK, TypeOK', NEW r \in Requests, Grows(r), NEW e, NEW m \in Int, m <= Len(log),
         NEW status, Moved(e, m, status)
  PROVE  Stands(log', DocumentChanges', e, m, status)
<1>1. \A n \in 1 .. Len(log) : n \in DocumentChanges' <=> n \in DocumentChanges
  BY DocumentChangesKept
<1>2. log \in Seq(Event(Entries)) BY DEF TypeOK
<1>3. Stands(log, DocumentChanges, e, m, status) BY DEF Moved
<1>4. CASE log' = log
  <2>1. EventsAbout(log, e, m) \ DocumentChanges' = EventsAbout(log, e, m) \ DocumentChanges
    BY <1>1, <1>2 DEF EventsAbout
  <2> QED BY <1>3, <1>4, <2>1 DEF Stands
<1>5. CASE \E x \in Event(Entries) : log' = Append(log, x)
  BY <1>1, <1>2, <1>3, <1>5, StandsKept
<1> QED BY <1>4, <1>5 DEF Grows

(* The old answers, and the copies that document changes hold, stay right. *)
LEMMA OthersKept ==
  ASSUME IInv, TypeOK', NEW r \in Requests, Grows(r), NEW q \in Requests \ {r},
         sum'[q] = sum[q], ent'[q] = ent[q], st'[q] = st[q]
  PROVE  /\ pc'[q] = "done" /\ sum'[q] # NoSnapshot =>
              \E m \in seq'[q] .. Len(log') :
                /\ op'[q] # "state" => m = seq'[q]
                /\ \A e \in Entries :
                     \/ Stands(log', DocumentChanges', e, m, sum'[q][e])
                     \/ /\ op'[q] = "document" /\ e = ent'[q]
                        /\ \E k \in 0 .. m : Stands(log', DocumentChanges', e, k, sum'[q][e])
         /\ /\ seq'[q] <= Len(log')
            /\ pc'[q] \in {"idle", "commit", "rows"} => sum'[q] = NoSnapshot
            /\ pc'[q] = "idle" => seq'[q] = -1
            /\ pc'[q] = "rows" => op'[q] = "state"
            /\ pc'[q] = "commit" =>
                 /\ op'[q] # "state"
                 /\ op'[q] = "document" =>
                      \E k \in 0 .. Len(log') :
                        Stands(log', DocumentChanges', ent'[q], k, st'[q])
<1> USE DEF IInv
<1>1. /\ Len(log) \in Nat /\ Len(log') \in Nat /\ Len(log) <= Len(log')
      /\ seq[q] \in Int /\ pc'[q] = pc[q] /\ op'[q] = op[q] /\ seq'[q] = seq[q]
  BY DEF Grows, TypeOK
<1>2. \A e, status : \A m \in Int :
        m <= Len(log) /\ Stands(log, DocumentChanges, e, m, status)
          => Stands(log', DocumentChanges', e, m, status)
  BY MovedKept DEF Moved
<1>3. ASSUME pc'[q] = "done", sum'[q] # NoSnapshot
      PROVE  \E m \in seq'[q] .. Len(log') :
                /\ op'[q] # "state" => m = seq'[q]
                /\ \A e \in Entries :
                     \/ Stands(log', DocumentChanges', e, m, sum'[q][e])
                     \/ /\ op'[q] = "document" /\ e = ent'[q]
                        /\ \E k \in 0 .. m : Stands(log', DocumentChanges', e, k, sum'[q][e])
  <2>1. PICK m \in seq[q] .. Len(log) :
          /\ op[q] # "state" => m = seq[q]
          /\ \A e \in Entries :
               \/ Stands(log, DocumentChanges, e, m, sum[q][e])
               \/ /\ op[q] = "document" /\ e = ent[q]
                  /\ \E k \in 0 .. m : Stands(log, DocumentChanges, e, k, sum[q][e])
    BY <1>1, <1>3 DEF AnswersFollowLog, Latest
  <2>2. m \in Int /\ m <= Len(log) /\ m \in seq'[q] .. Len(log') BY <1>1
  <2>3. ASSUME NEW e \in Entries
        PROVE  \/ Stands(log', DocumentChanges', e, m, sum'[q][e])
               \/ /\ op'[q] = "document" /\ e = ent'[q]
                  /\ \E k \in 0 .. m : Stands(log', DocumentChanges', e, k, sum'[q][e])
    <3>1. CASE Stands(log, DocumentChanges, e, m, sum[q][e]) BY <1>2, <2>2, <3>1
    <3>2. CASE op[q] = "document" /\ e = ent[q]
               /\ \E k \in 0 .. m : Stands(log, DocumentChanges, e, k, sum[q][e])
      <4>1. PICK k \in 0 .. m : Stands(log, DocumentChanges, e, k, sum[q][e]) BY <3>2
      <4>2. k \in Int /\ k <= Len(log) BY <1>1, <2>2
      <4> QED BY <1>1, <1>2, <3>2, <4>1, <4>2
    <3> QED BY <2>1, <3>1, <3>2
  <2> QED BY <1>1, <2>1, <2>2, <2>3
<1>4. /\ seq'[q] <= Len(log')
      /\ pc'[q] \in {"idle", "commit", "rows"} => sum'[q] = NoSnapshot
      /\ pc'[q] = "idle" => seq'[q] = -1
      /\ pc'[q] = "rows" => op'[q] = "state"
      /\ pc'[q] = "commit" => op'[q] # "state"
  <2>1. seq[q] <= Len(log) BY DEF Unanswered
  <2> QED BY <1>1, <2>1 DEF Unanswered
<1>5. ASSUME pc'[q] = "commit", op'[q] = "document"
      PROVE  \E k \in 0 .. Len(log') : Stands(log', DocumentChanges', ent'[q], k, st'[q])
  <2>1. PICK k \in 0 .. Len(log) : Stands(log, DocumentChanges, ent[q], k, st[q])
    BY <1>1, <1>5 DEF Unanswered, Moved
  <2>2. k \in Int /\ k <= Len(log) /\ k \in 0 .. Len(log') BY <1>1
  <2> QED BY <1>2, <2>1, <2>2
<1> QED BY <1>3, <1>4, <1>5

(***************************************************************************)
(* A commit: an event is appended; unless it is a document change's, the   *)
(* row is written with it. The snapshot is read from the new rows, with    *)
(* the entity as the request tracks it.                                    *)
(***************************************************************************)
LEMMA CommitIInv ==
  ASSUME IInv, TypeOK', NEW r \in Requests, pc[r] # "done",
         NEW x \in Event(Entries), NEW o, o # "state",
         log' = Append(log, x), seq' = [seq EXCEPT ![r] = Len(log) + 1],
         pc' = [pc EXCEPT ![r] = "done"], op' = [op EXCEPT ![r] = o],
         \A q \in Requests \ {r} : ent'[q] = ent[q] /\ st'[q] = st[q],
         sum' = [sum EXCEPT ![r] = [entry EXCEPT ![x.entry] = x.status]],
         o # "document" => entry' = [entry EXCEPT ![x.entry] = x.status],
         o = "document" => /\ entry' = entry /\ ent'[r] = x.entry
                           /\ \E k \in 0 .. Len(log) : Moved(x.entry, k, x.status)
  PROVE  IInv'
<1> USE DEF IInv
<1>0. /\ entry \in Statuses /\ log \in Seq(Event(Entries)) /\ Len(log) \in Nat
      /\ Len(log') = Len(log) + 1 /\ x.entry \in Entries
      /\ DOMAIN pc = Requests /\ DOMAIN seq = Requests
      /\ DOMAIN sum = Requests /\ DOMAIN op = Requests
  BY DEF TypeOK, Event
<1>1. /\ Grows(r) /\ pc'[r] = "done" /\ op'[r] = o /\ seq'[r] = Len(log')
      /\ sum'[r] = [entry EXCEPT ![x.entry] = x.status]
  BY <1>0 DEF Grows
<1>2. \A n \in 1 .. Len(log) : n \in DocumentChanges' <=> n \in DocumentChanges
  BY <1>1, DocumentChangesKept
<1>3. Len(log') \in DocumentChanges' <=> o = "document"
  <2>1. \A q \in Requests \ {r} : seq'[q] <= Len(log)
    BY <1>0 DEF Unanswered
  <2>2. \A q \in Requests \ {r} : seq'[q] # Len(log')
    <3>1. \A q \in Requests : seq'[q] \in Int BY DEF TypeOK
    <3> QED BY <1>0, <2>1, <3>1
  <2> QED BY <1>1, <2>2 DEF DocumentChanges
<1>4. \A e \in Entries :
        Stands(log', DocumentChanges', e, Len(log'),
               IF x.entry = e /\ o # "document" THEN x.status ELSE entry[e])
  <2> TAKE e \in Entries
  <2>1. Stands(log, DocumentChanges, e, Len(log), entry[e]) BY DEF RowsFollowLog, Latest
  <2>2. Stands(Append(log, x), DocumentChanges', e, Len(log) + 1,
               IF x.entry = e /\ (Len(log) + 1) \notin DocumentChanges'
               THEN x.status ELSE entry[e])
    BY <1>0, <1>2, <2>1, StandsAdded
  <2> QED BY <1>0, <1>3, <2>2
<1>5. RowsFollowLog'
  <2> SUFFICES ASSUME NEW e \in Entries
               PROVE  Stands(log', DocumentChanges', e, Len(log'), entry'[e])
    BY DEF RowsFollowLog, Latest
  <2>1. entry'[e] = IF x.entry = e /\ o # "document" THEN x.status ELSE entry[e]
    BY <1>0 DEF Statuses
  <2> QED BY <1>4, <2>1
<1>6. \A e \in Entries :
        \/ Stands(log', DocumentChanges', e, Len(log'), sum'[r][e])
        \/ /\ op'[r] = "document" /\ e = ent'[r]
           /\ \E k \in 0 .. Len(log') : Stands(log', DocumentChanges', e, k, sum'[r][e])
  <2> TAKE e \in Entries
  <2>1. sum'[r][e] = IF x.entry = e THEN x.status ELSE entry[e]
    BY <1>0, <1>1 DEF Statuses
  <2>2. CASE x.entry # e \/ o # "document"
    <3>1. Stands(log', DocumentChanges', e, Len(log'), sum'[r][e]) BY <1>4, <2>1, <2>2
    <3> QED BY <3>1
  <2>3. CASE x.entry = e /\ o = "document"
    <3>1. PICK k \in 0 .. Len(log) : Moved(x.entry, k, x.status) BY <2>3
    <3>2. k \in Int /\ k <= Len(log) /\ k \in 0 .. Len(log') BY <1>0
    <3>3. Stands(log', DocumentChanges', x.entry, k, x.status)
      BY <1>1, <3>1, <3>2, MovedKept
    <3> QED BY <1>1, <2>1, <2>3, <3>2, <3>3
  <2> QED BY <2>2, <2>3
<1>7. \A q \in Requests \ {r} : sum'[q] = sum[q] /\ ent'[q] = ent[q] /\ st'[q] = st[q]
  BY <1>0
<1>8. AnswersFollowLog'
  <2> SUFFICES ASSUME NEW q \in Requests, pc'[q] = "done", sum'[q] # NoSnapshot
               PROVE  \E m \in seq'[q] .. Len(log') :
                        /\ op'[q] # "state" => m = seq'[q]
                        /\ \A e \in Entries :
                             \/ Stands(log', DocumentChanges', e, m, sum'[q][e])
                             \/ /\ op'[q] = "document" /\ e = ent'[q]
                                /\ \E k \in 0 .. m :
                                     Stands(log', DocumentChanges', e, k, sum'[q][e])
    BY DEF AnswersFollowLog, Latest
  <2>1. CASE q = r
    <3>1. Len(log') \in seq'[q] .. Len(log') BY <1>0, <1>1, <2>1
    <3> QED BY <1>1, <1>6, <2>1, <3>1
  <2>2. CASE q # r BY <1>1, <1>7, <2>2, OthersKept
  <2> QED BY <2>1, <2>2
<1>9. Unanswered'
  <2> SUFFICES ASSUME NEW q \in Requests
               PROVE  /\ seq'[q] <= Len(log')
                      /\ pc'[q] \in {"idle", "commit", "rows"} => sum'[q] = NoSnapshot
                      /\ pc'[q] = "idle" => seq'[q] = -1
                      /\ pc'[q] = "rows" => op'[q] = "state"
                      /\ pc'[q] = "commit" =>
                           /\ op'[q] # "state"
                           /\ op'[q] = "document" =>
                                \E k \in 0 .. Len(log') :
                                  Stands(log', DocumentChanges', ent'[q], k, st'[q])
    BY DEF Unanswered, Moved
  <2>1. CASE q = r BY <1>0, <1>1, <2>1
  <2>2. CASE q # r BY <1>1, <1>7, <2>2, OthersKept
  <2> QED BY <2>1, <2>2
<1> QED BY <1>5, <1>8, <1>9

(***************************************************************************)
(* A step that leaves the tables alone: what r answers, if it answers, is  *)
(* the rows as they stand, under a number the log has reached; and if it   *)
(* is a document change that goes on to its commit, it holds a row's copy. *)
(***************************************************************************)
LEMMA ReadIInv ==
  ASSUME IInv, TypeOK', NEW r \in Requests, pc[r] # "done", UNCHANGED store,
         \A q \in Requests \ {r} : /\ pc'[q] = pc[q] /\ op'[q] = op[q] /\ seq'[q] = seq[q]
                                   /\ sum'[q] = sum[q] /\ ent'[q] = ent[q] /\ st'[q] = st[q],
         seq'[r] <= Len(log),
         pc'[r] = "done" /\ op'[r] = "document" => seq'[r] = -1,
         pc'[r] = "done" /\ sum'[r] # NoSnapshot =>
           sum'[r] = entry /\ (op'[r] # "state" => seq'[r] = Len(log)),
         pc'[r] \in {"idle", "commit", "rows"} => sum'[r] = NoSnapshot,
         pc'[r] # "idle",
         pc'[r] = "rows" => op'[r] = "state",
         pc'[r] = "commit" =>
           /\ op'[r] # "state"
           /\ op'[r] = "document" => ent'[r] \in Entries /\ st'[r] = entry[ent'[r]]
  PROVE  IInv'
<1> USE DEF IInv
<1>0. /\ Len(log) \in Nat /\ seq'[r] \in Int /\ log' = log /\ entry' = entry
      /\ Grows(r)
  BY DEF TypeOK, Grows, store
<1>1. \A e \in Entries : Stands(log', DocumentChanges', e, Len(log'), entry[e])
  <2> TAKE e \in Entries
  <2>1. Moved(e, Len(log), entry[e]) BY DEF RowsFollowLog, Latest, Moved
  <2> QED BY <1>0, <2>1, MovedKept
<1>2. RowsFollowLog' BY <1>0, <1>1 DEF RowsFollowLog, Latest
<1>3. AnswersFollowLog'
  <2> SUFFICES ASSUME NEW q \in Requests, pc'[q] = "done", sum'[q] # NoSnapshot
               PROVE  \E m \in seq'[q] .. Len(log') :
                        /\ op'[q] # "state" => m = seq'[q]
                        /\ \A e \in Entries :
                             \/ Stands(log', DocumentChanges', e, m, sum'[q][e])
                             \/ /\ op'[q] = "document" /\ e = ent'[q]
                                /\ \E k \in 0 .. m :
                                     Stands(log', DocumentChanges', e, k, sum'[q][e])
    BY DEF AnswersFollowLog, Latest
  <2>1. CASE q = r
    <3>1. Len(log') \in seq'[q] .. Len(log') BY <1>0, <2>1
    <3> QED BY <1>0, <1>1, <2>1, <3>1
  <2>2. CASE q # r BY <1>0, <2>2, OthersKept
  <2> QED BY <2>1, <2>2
<1>4. Unanswered'
  <2> SUFFICES ASSUME NEW q \in Requests
               PROVE  /\ seq'[q] <= Len(log')
                      /\ pc'[q] \in {"idle", "commit", "rows"} => sum'[q] = NoSnapshot
                      /\ pc'[q] = "idle" => seq'[q] = -1
                      /\ pc'[q] = "rows" => op'[q] = "state"
                      /\ pc'[q] = "commit" =>
                           /\ op'[q] # "state"
                           /\ op'[q] = "document" =>
                                \E k \in 0 .. Len(log') :
                                  Stands(log', DocumentChanges', ent'[q], k, st'[q])
    BY DEF Unanswered, Moved
  <2>1. CASE q = r
    <3>1. Len(log') \in 0 .. Len(log') BY <1>0
    <3> QED BY <1>0, <1>1, <2>1, <3>1
  <2>2. CASE q # r BY <1>0, <2>2, OthersKept
  <2> QED BY <2>1, <2>2
<1> QED BY <1>2, <1>3, <1>4

(* A request that asks, and has only read so far. *)
LEMMA AskIInv ==
  ASSUME IInv, TypeOK', NEW r \in Requests, NEW o, o # "state", NEW p \in {"commit", "done"},
         Begin(r, o, p), UNCHANGED <<store, seq, sum>>,
         \A q \in Requests \ {r} : ent'[q] = ent[q] /\ st'[q] = st[q],
         p = "commit" /\ o = "document" => ent'[r] \in Entries /\ st'[r] = entry[ent'[r]],
         o = "document" => seq[r] = -1
  PROVE  IInv'
<1>1. \A q \in Requests : q # r => pc'[q] = pc[q] /\ op'[q] = op[q]
  BY DEF Begin, IInv, TypeOK
<1>2. /\ pc[r] = "idle" /\ sum'[r] = NoSnapshot /\ pc'[r] = p /\ op'[r] = o
      /\ seq[r] <= Len(log)
  BY DEF Begin, IInv, TypeOK, Unanswered
<1> QED BY <1>1, <1>2, ReadIInv

LEMMA NextIInv == IInv /\ [Next]_vars => IInv'
<1> SUFFICES ASSUME IInv, [Next]_vars PROVE IInv' OBVIOUS
<1>0. TypeOK' /\ TypeOK BY NextTyped DEF IInv
<1>1. ASSUME NEW r \in Requests, CheckIn(r) PROVE IInv'
  <2> DEFINE e == Count + 1
             x == [entry |-> e, status |-> "Waiting"]
  <2>1. e \in Entries BY <1>1 DEF CheckIn
  <2>2. x \in Event(Entries) BY <2>1 DEF Event, QueueStatus
  <2>3. /\ log' = Append(log, x) /\ entry' = [entry EXCEPT ![e] = "Waiting"]
        /\ seq' = [seq EXCEPT ![r] = Len(log) + 1]
        /\ sum' = [sum EXCEPT ![r] = [entry EXCEPT ![e] = "Waiting"]]
        /\ pc' = [pc EXCEPT ![r] = "done"] /\ op' = [op EXCEPT ![r] = "checkIn"]
        /\ pc[r] # "done"
    BY <1>1 DEF CheckIn, Begin, Answer
  <2>4. x.entry = e /\ x.status = "Waiting" OBVIOUS
  <2>5. /\ entry' = [entry EXCEPT ![x.entry] = x.status]
        /\ sum' = [sum EXCEPT ![r] = [entry EXCEPT ![x.entry] = x.status]]
    BY <2>3, <2>4
  <2>6. \A q \in Requests \ {r} : ent'[q] = ent[q] /\ st'[q] = st[q]
    BY <1>0, <1>1 DEF CheckIn, TypeOK
  <2> HIDE DEF x
  <2> QED BY <1>0, <2>2, <2>3, <2>5, <2>6, CommitIInv
<1>2. ASSUME NEW r \in Requests, CallNext(r) PROVE IInv'
  <2>1. \E p \in {"commit", "done"} : Begin(r, "callNext", p) BY <1>2 DEF CallNext
  <2>2. UNCHANGED <<store, seq, sum>> BY <1>2 DEF CallNext, answer
  <2>3. \A q \in Requests \ {r} : ent'[q] = ent[q] /\ st'[q] = st[q]
    BY <1>0, <1>2 DEF CallNext, TypeOK
  <2> QED BY <1>0, <2>1, <2>2, <2>3, AskIInv
<1>3. ASSUME NEW r \in Requests, NEW o \in {"complete", "cancel", "document"},
             NEW e \in Entries, OnEntry(r, o, e)
      PROVE  IInv'
  <2>1. UNCHANGED <<store, seq, sum>> BY <1>3 DEF OnEntry, answer
  <2>2. \A q \in Requests \ {r} : ent'[q] = ent[q] /\ st'[q] = st[q]
    BY <1>0, <1>3 DEF OnEntry, TypeOK
  <2>3. o = "document" => seq[r] = -1
    BY <1>3 DEF OnEntry, Begin, IInv, Unanswered
  <2>4. CASE /\ Begin(r, o, "commit") /\ ent' = [ent EXCEPT ![r] = e]
             /\ st' = [st EXCEPT ![r] = IF o = "document" THEN entry[e] ELSE Target(o)]
    <3>1. o = "document" => ent'[r] \in Entries /\ st'[r] = entry[ent'[r]]
      BY <1>0, <2>4 DEF TypeOK
    <3> QED BY <1>0, <2>1, <2>2, <2>3, <2>4, <3>1, AskIInv
  <2>5. CASE Begin(r, o, "done") BY <1>0, <2>1, <2>2, <2>3, <2>5, AskIInv
  <2> QED BY <1>3, <2>4, <2>5 DEF OnEntry
<1>4. ASSUME NEW r \in Requests, NEW n \in -1 .. Latest + 1, GetChangesSince(r, n)
      PROVE  IInv'
  <2>1. /\ pc[r] = "idle" /\ pc' = [pc EXCEPT ![r] = "done"]
        /\ op' = [op EXCEPT ![r] = "since"] /\ UNCHANGED <<store, ent, st>>
        /\ seq' = [seq EXCEPT ![r] = Len(log)]
        /\ \E rows \in {NoSnapshot, entry} : sum' = [sum EXCEPT ![r] = rows]
    BY <1>4 DEF GetChangesSince, Begin, Answer, Latest
  <2>2. /\ pc'[r] = "done" /\ op'[r] = "since" /\ seq'[r] = Len(log) /\ Len(log) \in Nat
        /\ sum'[r] \in {NoSnapshot, entry}
        /\ \A q \in Requests \ {r} : /\ pc'[q] = pc[q] /\ op'[q] = op[q] /\ seq'[q] = seq[q]
                                     /\ sum'[q] = sum[q] /\ ent'[q] = ent[q] /\ st'[q] = st[q]
    BY <1>0, <2>1 DEF TypeOK
  <2> QED BY <1>0, <2>1, <2>2, ReadIInv
<1>5. ASSUME NEW r \in Requests, Commit(r) PROVE IInv'
  <2> DEFINE x == [entry |-> ent[r], status |-> st[r]]
  <2>1. x \in Event(Entries) BY <1>0, <1>5 DEF Commit, TypeOK, Event
  <2>2. pc[r] = "commit" /\ op[r] # "state"
    BY <1>5 DEF Commit, IInv, Unanswered
  <2>3. /\ log' = Append(log, x) /\ op' = op /\ pc' = [pc EXCEPT ![r] = "done"]
        /\ seq' = [seq EXCEPT ![r] = Len(log) + 1]
        /\ sum' = [sum EXCEPT ![r] = [entry EXCEPT ![x.entry] = x.status]]
        /\ op[r] # "document" => entry' = [entry EXCEPT ![x.entry] = x.status]
        /\ op[r] = "document" => entry' = entry /\ ent'[r] = x.entry
        /\ UNCHANGED <<ent, st>>
    BY <1>5 DEF Commit, Answer
  <2>4. op' = [op EXCEPT ![r] = op[r]] BY <1>0, <2>3 DEF TypeOK
  <2>5. op[r] = "document" => \E k \in 0 .. Len(log) : Moved(x.entry, k, x.status)
    BY <2>2 DEF IInv, Unanswered
  <2> HIDE DEF x
  <2> QED BY <1>0, <2>1, <2>2, <2>3, <2>4, <2>5, CommitIInv
<1>6. ASSUME NEW r \in Requests, GetState(r) PROVE IInv'
  <2>0. Len(log) \in Nat BY <1>0 DEF TypeOK
  <2>1. CASE Begin(r, "state", "rows") /\ seq' = [seq EXCEPT ![r] = Latest]
             /\ UNCHANGED <<store, ent, st, sum>>
    <3>1. /\ pc[r] = "idle" /\ pc'[r] = "rows" /\ op'[r] = "state" /\ seq'[r] = Len(log)
          /\ sum'[r] = NoSnapshot
          /\ \A q \in Requests \ {r} : /\ pc'[q] = pc[q] /\ op'[q] = op[q] /\ seq'[q] = seq[q]
                                       /\ sum'[q] = sum[q] /\ ent'[q] = ent[q] /\ st'[q] = st[q]
      BY <1>0, <2>1 DEF Begin, TypeOK, Latest, IInv, Unanswered
    <3> QED BY <1>0, <2>0, <2>1, <3>1, ReadIInv
  <2>2. CASE /\ pc[r] = "rows" /\ pc' = [pc EXCEPT ![r] = "done"]
             /\ sum' = [sum EXCEPT ![r] = entry] /\ UNCHANGED <<store, op, ent, st, seq>>
    <3>1. /\ pc'[r] = "done" /\ op'[r] = "state" /\ seq'[r] <= Len(log) /\ sum'[r] = entry
          /\ \A q \in Requests \ {r} : /\ pc'[q] = pc[q] /\ op'[q] = op[q] /\ seq'[q] = seq[q]
                                       /\ sum'[q] = sum[q] /\ ent'[q] = ent[q] /\ st'[q] = st[q]
      BY <1>0, <2>2 DEF TypeOK, IInv, Unanswered
    <3> QED BY <1>0, <2>2, <3>1, ReadIInv
  <2> QED BY <1>6, <2>1, <2>2 DEF GetState
<1>7. ASSUME NEW r \in Requests, HangUp(r) PROVE IInv'
  <2>1. /\ pc[r] \in {"commit", "rows"} /\ pc'[r] = "failed" /\ UNCHANGED <<store, op, seq, sum>>
        /\ seq[r] <= Len(log)
        /\ \A q \in Requests \ {r} : /\ pc'[q] = pc[q] /\ op'[q] = op[q] /\ seq'[q] = seq[q]
                                     /\ sum'[q] = sum[q] /\ ent'[q] = ent[q] /\ st'[q] = st[q]
    BY <1>0, <1>7 DEF HangUp, answer, TypeOK, IInv, Unanswered
  <2> QED BY <1>0, <2>1, ReadIInv
<1>8. CASE UNCHANGED vars
  <2>1. UNCHANGED <<entry, log, pc, op, ent, st, seq, sum>> BY <1>8 DEF vars, answer, store
  <2>2. DocumentChanges' = DocumentChanges BY <2>1 DEF DocumentChanges
  <2>3. RowsFollowLog' BY <2>1, <2>2 DEF RowsFollowLog, Latest, IInv
  <2>4. AnswersFollowLog' BY <2>1, <2>2 DEF AnswersFollowLog, Latest, IInv
  <2>5. Unanswered' BY <2>1, <2>2 DEF Unanswered, Moved, IInv
  <2> QED BY <1>0, <2>3, <2>4, <2>5 DEF IInv
<1> QED BY <1>1, <1>2, <1>3, <1>4, <1>5, <1>6, <1>7, <1>8 DEF Next, Ask

(***************************************************************************)
(* The rows are what the transitions in the log come to: row and event     *)
(* commit in one transaction (SqliteQueueRepository.cs:8), and a document  *)
(* change, whose event may be out of date, writes no row.                  *)
(***************************************************************************)
THEOREM RowsFollow == Spec => []RowsFollowLog
<1>1. IInv => RowsFollowLog BY DEF IInv
<1> QED BY InitIInv, NextIInv, <1>1, PTL DEF Spec

(***************************************************************************)
(* Every snapshot answered shows what the transitions came to at the       *)
(* announced number or, for GetStateAsync, at a later one; only a document *)
(* change's own entry may stand in it as at an earlier number.             *)
(***************************************************************************)
THEOREM AnswersFollow == Spec => []AnswersFollowLog
<1>1. IInv => AnswersFollowLog BY DEF IInv
<1> QED BY InitIInv, NextIInv, <1>1, PTL DEF Spec

-----------------------------------------------------------------------------
(***************************************************************************)
(* SqliteQueue implements QueueLog, document changes included.             *)
(***************************************************************************)
LEMMA StepAppends ==
  ASSUME TypeOK, TypeOK', [Next]_vars
  PROVE  [Log!Next]_<<log, Latest>>
<1>0. log \in Seq(Event(Entries)) /\ log' \in Seq(Event(Entries)) BY DEF TypeOK
<1>1. CASE UNCHANGED log BY <1>1 DEF Latest
<1>2. ASSUME NEW x, log' = Append(log, x) PROVE Log!Next
  <2>1. x \in Event(Entries)
    <3>1. Len(log) \in Nat /\ Len(log') = Len(log) + 1 /\ x = log'[Len(log) + 1]
      BY <1>0, <1>2
    <3>2. DOMAIN log' = 1 .. Len(log') BY <1>0
    <3> QED BY <1>0, <3>1, <3>2
  <2>2. Latest' \in Latest .. Len(log') BY <1>0, <1>2, <2>1 DEF Latest
  <2> QED BY <1>2, <2>1, <2>2 DEF Log!Next, Log!Add
<1>3. UNCHANGED log \/ \E x : log' = Append(log, x)
  <2>1. \A r \in Requests : CheckIn(r) => \E x : log' = Append(log, x) BY DEF CheckIn
  <2>2. \A r \in Requests : Commit(r) => \E x : log' = Append(log, x) BY DEF Commit
  <2>3. \A r \in Requests : CallNext(r) \/ GetState(r) \/ HangUp(r) => UNCHANGED log
    BY DEF CallNext, GetState, HangUp, store
  <2>4. \A r \in Requests, o \in {"complete", "cancel", "document"}, e \in Entries :
          OnEntry(r, o, e) => UNCHANGED log
    BY DEF OnEntry, store
  <2>5. \A r \in Requests, n \in -1 .. Latest + 1 : GetChangesSince(r, n) => UNCHANGED log
    BY DEF GetChangesSince, store
  <2> QED BY <2>1, <2>2, <2>3, <2>4, <2>5 DEF Next, Ask, vars, store
<1> QED BY <1>1, <1>2, <1>3

(***************************************************************************)
(* The SQLite change log keeps the contract of QueueLog: events are only   *)
(* added, at the end, and the latest number announced never goes back.     *)
(***************************************************************************)
THEOREM ImplementsLog == Spec => LogRefines
<1>1. Init => Log!Init
  <2> SUFFICES ASSUME Init PROVE Log!Init OBVIOUS
  <2>1. log \in Seq(Event(Entries)) BY InitTyped DEF TypeOK
  <2> QED BY <2>1 DEF Log!Init, Latest
<1>2. TypeOK /\ TypeOK' /\ [Next]_vars => [Log!Next]_<<log, Latest>> BY StepAppends
<1> QED BY <1>1, <1>2, TypeCorrect, PTL DEF Spec, LogRefines, Log!Spec

-----------------------------------------------------------------------------
(***************************************************************************)
(* Positions. An entry's name is its place in the order of check-ins, and  *)
(* rows are never removed: those present are the first n. So whoever       *)
(* checks in comes after all who wait, and counting them is the rank.      *)
(***************************************************************************)
Present == {e \in Entries : entry[e] # Absent}

Dense == \E n \in Nat : Present = 1 .. n

Tracked == \A r \in Requests : pc[r] = "commit" => ent[r] \in Present

Ranked == PositionIsRank /\ \A r \in Requests : op[r] = "checkIn" => pc[r] = "done"

RankInv == Dense /\ Tracked /\ Ranked

LEMMA InitRank == Init => RankInv
<1> SUFFICES ASSUME Init PROVE RankInv OBVIOUS
<1>1. Present = 1 .. SeedEntries /\ SeedEntries \in Nat
  <2>1. SeedEntries \in Nat /\ SeedEntries <= MaxEntries /\ MaxEntries \in Nat
    BY SqliteQueueAssumption
  <2>2. \A e \in Entries : entry[e] # Absent <=> e <= SeedEntries BY DEF Init, Absent
  <2>3. \A e : e \in Present <=> e \in 1 .. SeedEntries
    BY <2>1, <2>2 DEF Present, Entries
  <2> QED BY <2>1, <2>3
<1> QED BY <1>1 DEF Init, RankInv, Dense, Tracked, Ranked, PositionIsRank

(* A step that adds no row, by a request that has not checked in. *)
LEMMA RankKept ==
  ASSUME TypeOK, TypeOK', RankInv, NEW r \in Requests, pc[r] # "done", op'[r] # "checkIn",
         Present' = Present, Tracked',
         \A q \in Requests \ {r} : /\ pc'[q] = pc[q] /\ op'[q] = op[q] /\ ent'[q] = ent[q]
                                   /\ sum'[q] = sum[q] /\ pos'[q] = pos[q]
  PROVE  RankInv'
<1>1. Dense' BY DEF RankInv, Dense
<1>2. Ranked'
  <2>1. \A q \in Requests : op'[q] = "checkIn" => q # r BY DEF RankInv
  <2> QED BY <2>1 DEF RankInv, Ranked, PositionIsRank, Waiting
<1> QED BY <1>1, <1>2 DEF RankInv

LEMMA NextRank == TypeOK /\ TypeOK' /\ RankInv /\ [Next]_vars => RankInv'
<1> SUFFICES ASSUME TypeOK, TypeOK', RankInv, [Next]_vars PROVE RankInv' OBVIOUS
<1>0. Dense /\ Tracked /\ Ranked BY DEF RankInv
<1>1. ASSUME NEW r \in Requests, CheckIn(r) PROVE RankInv'
  <2> DEFINE e == Count + 1
             rows == [entry EXCEPT ![e] = "Waiting"]
  <2>1. PICK n \in Nat : Present = 1 .. n BY <1>0 DEF Dense
  <2>2. Count = n
    <3>1. Count = Cardinality(1 .. n) BY <2>1 DEF Count, Present
    <3>2. Cardinality(1 .. n) = IF 1 > n THEN 0 ELSE n - 1 + 1 BY FS_Interval
    <3> QED BY <3>1, <3>2
  <2>3. e = n + 1 /\ e \in Entries BY <1>1, <2>2 DEF CheckIn
  <2>4. /\ entry' = rows
        /\ pc' = [pc EXCEPT ![r] = "done"] /\ op' = [op EXCEPT ![r] = "checkIn"]
        /\ ent' = [ent EXCEPT ![r] = e] /\ sum' = [sum EXCEPT ![r] = rows]
        /\ pos' = [pos EXCEPT ![r] = Cardinality(Waiting(rows))]
    BY <1>1 DEF CheckIn, Begin, Answer
  <2> HIDE DEF e
  <2>5. /\ rows \in [Entries -> RowStatus] /\ rows[e] = "Waiting"
        /\ \A f \in Entries \ {e} : rows[f] = entry[f]
    BY <2>3 DEF TypeOK, Statuses, RowStatus, QueueStatus
  <2> HIDE DEF rows
  <2>6. /\ pc'[r] = "done" /\ op'[r] = "checkIn" /\ ent'[r] = e /\ sum'[r] = rows
        /\ pos'[r] = Cardinality(Waiting(rows))
    BY <2>4 DEF TypeOK
  <2>7. \A q \in Requests \ {r} : /\ pc'[q] = pc[q] /\ op'[q] = op[q] /\ ent'[q] = ent[q]
                                  /\ sum'[q] = sum[q] /\ pos'[q] = pos[q]
    BY <2>4 DEF TypeOK
  <2>8. Present' = 1 .. n + 1
    <3>1. Present' = Present \cup {e} BY <2>3, <2>4, <2>5 DEF Present, Absent
    <3> QED BY <2>1, <2>3, <3>1
  <2>9. Dense' BY <2>8 DEF Dense
  <2>10. Tracked'
    <3>1. Present \subseteq Present' BY <2>1, <2>8
    <3> QED BY <1>0, <2>6, <2>7, <3>1 DEF Tracked
  <2>11. \A f \in Waiting(rows) : f <= e
    <3> SUFFICES ASSUME NEW f \in Waiting(rows), f # e PROVE f <= e BY <2>3 DEF Entries
    <3>1. f \in Present BY <2>5 DEF Waiting, Present, Absent
    <3> QED BY <2>1, <2>3, <3>1
  <2>12. {f \in Waiting(rows) : f <= e} = Waiting(rows) BY <2>11
  <2>13. Ranked'
    <3> SUFFICES ASSUME NEW q \in Requests, op'[q] = "checkIn"
                 PROVE  /\ sum'[q][ent'[q]] = "Waiting" /\ pc'[q] = "done"
                        /\ pos'[q] = Cardinality({f \in Waiting(sum'[q]) : f <= ent'[q]})
      BY DEF Ranked, PositionIsRank, Waiting
    <3>1. CASE q = r BY <2>5, <2>6, <2>12, <3>1
    <3>2. CASE q # r
      <4>1. /\ pc'[q] = pc[q] /\ op[q] = "checkIn" /\ ent'[q] = ent[q]
            /\ sum'[q] = sum[q] /\ pos'[q] = pos[q]
        BY <2>7, <3>2
      <4>2. /\ sum[q][ent[q]] = "Waiting" /\ pc[q] = "done"
            /\ pos[q] = Cardinality({f \in Waiting(sum[q]) : f <= ent[q]})
        BY <1>0, <4>1 DEF Ranked, PositionIsRank
      <4> QED BY <4>1, <4>2
    <3> QED BY <3>1, <3>2
  <2> QED BY <2>9, <2>10, <2>13 DEF RankInv
<1>2. ASSUME NEW r \in Requests, CallNext(r) PROVE RankInv'
  <2>1. /\ pc[r] = "idle" /\ op' = [op EXCEPT ![r] = "callNext"]
        /\ UNCHANGED <<entry, sum, pos>> /\ Present' = Present
    BY <1>2 DEF CallNext, Begin, store, answer, Present
  <2>2. \A q \in Requests \ {r} : pc'[q] = pc[q] /\ op'[q] = op[q] /\ ent'[q] = ent[q]
    BY <1>2 DEF CallNext, Begin, TypeOK
  <2>3. op'[r] # "checkIn" BY <2>1 DEF TypeOK
  <2>4. pc'[r] = "commit" => ent'[r] \in Present
    BY <1>2 DEF CallNext, Begin, TypeOK, Waiting, Present, Absent
  <2>5. Tracked' BY <1>0, <2>1, <2>2, <2>4 DEF Tracked
  <2> QED BY <2>1, <2>2, <2>3, <2>5, RankKept
<1>3. ASSUME NEW r \in Requests, NEW o \in {"complete", "cancel", "document"},
             NEW e \in Entries, OnEntry(r, o, e)
      PROVE  RankInv'
  <2>1. /\ pc[r] = "idle" /\ op' = [op EXCEPT ![r] = o]
        /\ UNCHANGED <<entry, sum, pos>> /\ Present' = Present
    BY <1>3 DEF OnEntry, Begin, store, answer, Present
  <2>2. \A q \in Requests \ {r} : pc'[q] = pc[q] /\ op'[q] = op[q] /\ ent'[q] = ent[q]
    BY <1>3 DEF OnEntry, Begin, TypeOK
  <2>3. op'[r] # "checkIn" BY <2>1 DEF TypeOK
  <2>4. pc'[r] = "commit" => ent'[r] \in Present
    BY <1>3 DEF OnEntry, Begin, TypeOK, Present
  <2>5. Tracked' BY <1>0, <2>1, <2>2, <2>4 DEF Tracked
  <2> QED BY <2>1, <2>2, <2>3, <2>5, RankKept
<1>4. ASSUME NEW r \in Requests, NEW n \in -1 .. Latest + 1, GetChangesSince(r, n)
      PROVE  RankInv'
  <2>1. /\ pc[r] = "idle" /\ op' = [op EXCEPT ![r] = "since"] /\ pc' = [pc EXCEPT ![r] = "done"]
        /\ UNCHANGED <<entry, ent, pos>> /\ Present' = Present
    BY <1>4 DEF GetChangesSince, Begin, store, Present
  <2>2. \A q \in Requests \ {r} : sum'[q] = sum[q]
    BY <1>4 DEF GetChangesSince, Answer, TypeOK
  <2>3. op'[r] # "checkIn" /\ pc'[r] = "done" BY <2>1 DEF TypeOK
  <2>4. \A q \in Requests \ {r} : pc'[q] = pc[q] /\ op'[q] = op[q] BY <2>1 DEF TypeOK
  <2>5. Tracked' BY <1>0, <2>1, <2>3, <2>4 DEF Tracked
  <2> QED BY <2>1, <2>2, <2>3, <2>4, <2>5, RankKept
<1>5. ASSUME NEW r \in Requests, Commit(r) PROVE RankInv'
  <2>1. /\ pc[r] = "commit" /\ pc' = [pc EXCEPT ![r] = "done"] /\ UNCHANGED <<op, ent, pos>>
        /\ entry' = entry \/ entry' = [entry EXCEPT ![ent[r]] = st[r]]
    BY <1>5 DEF Commit
  <2>2. ent[r] \in Present /\ st[r] # Absent
    BY <1>0, <2>1 DEF Tracked, TypeOK, QueueStatus, Absent
  <2>3. Present' = Present
    <3>1. entry \in Statuses BY DEF TypeOK
    <3>2. \A e \in Entries : entry'[e] # Absent <=> entry[e] # Absent
      BY <2>1, <2>2, <3>1 DEF Statuses, Present
    <3> QED BY <3>2 DEF Present
  <2>4. \A q \in Requests \ {r} : pc'[q] = pc[q] /\ sum'[q] = sum[q]
    BY <1>5, <2>1 DEF Commit, Answer, TypeOK
  <2>5. pc'[r] = "done" BY <2>1 DEF TypeOK
  <2>6. op'[r] # "checkIn" BY <1>0, <2>1 DEF Ranked
  <2>7. Tracked' BY <1>0, <2>1, <2>3, <2>4, <2>5 DEF Tracked
  <2> QED BY <2>1, <2>3, <2>4, <2>6, <2>7, RankKept
<1>6. ASSUME NEW r \in Requests, GetState(r) \/ HangUp(r) PROVE RankInv'
  <2>1. /\ pc[r] \in {"idle", "commit", "rows"} /\ pc'[r] # "commit"
        /\ UNCHANGED <<entry, ent, pos>> /\ Present' = Present
    BY <1>6 DEF GetState, HangUp, Begin, store, answer, Present, TypeOK
  <2>2. \A q \in Requests \ {r} : pc'[q] = pc[q] /\ op'[q] = op[q] /\ sum'[q] = sum[q]
    BY <1>6 DEF GetState, HangUp, Begin, answer, TypeOK
  <2>3. op'[r] # "checkIn"
    <3>1. op'[r] = "state" \/ op'[r] = op[r] BY <1>6 DEF GetState, HangUp, Begin, TypeOK
    <3> QED BY <1>0, <2>1, <3>1 DEF Ranked
  <2>4. Tracked' BY <1>0, <2>1, <2>2 DEF Tracked
  <2> QED BY <2>1, <2>2, <2>3, <2>4, RankKept
<1>7. CASE UNCHANGED vars
  BY <1>7 DEF vars, store, answer, RankInv, Dense, Tracked, Ranked, PositionIsRank, Present,
              Waiting
<1> QED BY <1>1, <1>2, <1>3, <1>4, <1>5, <1>6, <1>7 DEF Next, Ask

(***************************************************************************)
(* The position a check-in answers with is the visitor's rank in the       *)
(* snapshot broadcast with it (SqliteQueueRepository.cs:56), for any       *)
(* number of check-ins and of other requests, document changes included.   *)
(***************************************************************************)
THEOREM PositionsAreRanks == Spec => []PositionIsRank
<1>1. RankInv => PositionIsRank BY DEF RankInv, Ranked
<1> QED BY TypeCorrect, InitRank, NextRank, <1>1, PTL DEF Spec
=============================================================================
