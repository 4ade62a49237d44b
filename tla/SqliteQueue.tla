---------------------------- MODULE SqliteQueue ----------------------------
(***************************************************************************)
(* SqliteQueueRepository. Every mutation commits the entry row, its change *)
(* event and the reads of its answer in one transaction, under SQLite's    *)
(* only write lock; a transaction is therefore one step. What a transition *)
(* is decided on is read before, in a statement of its own: that read is a *)
(* step of its own, and any number of other commits may fall between it    *)
(* and the request's own, which overwrites the row by its key alone.       *)
(*                                                                         *)
(* An entry is named by its check-in time stamp, taken under the lock.     *)
(***************************************************************************)
EXTENDS QueueDomain, Sequences

CONSTANTS
  Requests,      \* the calls of a behaviour
  MaxEntries,    \* bound: check-ins, the seeded ones included
  SeedEntries,   \* rows of the seed list
  MaxCatchUp,    \* MaxCatchUpEvents
  Operations,    \* the operations clients ask for
  Impatient      \* requests that may be abandoned (client, lock timeout, host)

ASSUME SqliteQueueAssumption ==
  /\ MaxEntries \in Nat /\ SeedEntries \in 1 .. MaxEntries
  /\ MaxCatchUp \in Nat
  /\ Impatient \subseteq Requests
  /\ Operations \subseteq {"checkIn", "callNext", "complete", "cancel",
                           "document", "state", "since"}

Entries == 1 .. MaxEntries
Statuses == [Entries -> RowStatus]

VARIABLES
  entry,     \* the Entries table: entry -> status
  log,       \* the ChangeEvents table, a sequence: the rowid is the number
  pc,        \* where each request is: idle, at its commit, between two reads, ended
  op,        \* its operation
  ent, st,   \* the entity its DbContext tracks: entry and status
  from,      \* the number a catch-up asks about
  seq,       \* the number it answers with (-1: none)
  sum,       \* the snapshot it answers with (NoSnapshot: none)
  pos        \* the position a check-in answers with

store == <<entry, log>>
answer == <<seq, sum, pos>>
vars == <<store, pc, op, ent, st, from, answer>>

NoSnapshot == [e \in {} |-> Absent]
Waiting(rows) == {e \in Entries : rows[e] = "Waiting"}
Count == Cardinality({e \in Entries : entry[e] # Absent})
Latest == Len(log)

(* SeedIfEmpty: the first start commits the seed rows and their events together. *)
Init ==
  /\ entry = [e \in Entries |-> IF e <= SeedEntries THEN "Waiting" ELSE Absent]
  /\ log = [n \in 1 .. SeedEntries |-> [entry |-> n, status |-> "Waiting"]]
  /\ pc = [r \in Requests |-> "idle"]
  /\ op = [r \in Requests |-> "none"]
  /\ ent = [r \in Requests |-> 0]
  /\ st = [r \in Requests |-> Absent]
  /\ from = [r \in Requests |-> 0]
  /\ seq = [r \in Requests |-> -1]
  /\ sum = [r \in Requests |-> NoSnapshot]
  /\ pos = [r \in Requests |-> 0]

(* Request r asks for o, and is at p after its first read. *)
Begin(r, o, p) ==
  /\ pc[r] = "idle" /\ o \in Operations
  /\ op' = [op EXCEPT ![r] = o]
  /\ pc' = [pc EXCEPT ![r] = p]

(* Request r ends, answering with number n and snapshot rows. *)
Answer(r, n, rows) ==
  /\ seq' = [seq EXCEPT ![r] = n]
  /\ sum' = [sum EXCEPT ![r] = rows]

-----------------------------------------------------------------------------
(***************************************************************************)
(* Slips: mistakes this code could plausibly have had. No action uses one. *)
(***************************************************************************)
(* Position and snapshot read before the insert: the race of the first version. *)
CheckInSlip(r) ==
  LET e == Count + 1
      rows == [entry EXCEPT ![e] = "Waiting"]
  IN  /\ Begin(r, "checkIn", "done")
      /\ e \in Entries
      /\ entry' = rows
      /\ log' = Append(log, [entry |-> e, status |-> "Waiting"])
      /\ ent' = [ent EXCEPT ![r] = e]
      /\ st' = [st EXCEPT ![r] = "Waiting"]
      /\ pos' = [pos EXCEPT ![r] = Cardinality(Waiting(entry))]
      /\ Answer(r, Len(log) + 1, rows)
      /\ UNCHANGED from

(* Every column written back, those nobody changed included: Update(entity). *)
CommitSlip(r) ==
  LET rows == [entry EXCEPT ![ent[r]] = st[r]]
  IN  /\ pc[r] = "commit"
      /\ entry' = rows
      /\ log' = Append(log, [entry |-> ent[r], status |-> st[r]])
      /\ Answer(r, Len(log) + 1, rows)
      /\ pc' = [pc EXCEPT ![r] = "done"]
      /\ UNCHANGED <<op, ent, st, from, pos>>

(* The event stored under the latest number instead of a new one. *)
CommitOverSlip(r) ==
  LET rows == [entry EXCEPT ![ent[r]] = st[r]]
  IN  /\ pc[r] = "commit"
      /\ entry' = rows
      /\ log' = [log EXCEPT ![Latest] = [entry |-> ent[r], status |-> st[r]]]
      /\ Answer(r, Latest, rows)
      /\ pc' = [pc EXCEPT ![r] = "done"]
      /\ UNCHANGED <<op, ent, st, from, pos>>

(* The rows read first, the number after them. *)
GetStateSlip(r) ==
  \/ /\ Begin(r, "state", "rows")
     /\ Answer(r, -1, entry)
     /\ UNCHANGED <<store, ent, st, from, pos>>
  \/ /\ pc[r] = "rows"
     /\ pc' = [pc EXCEPT ![r] = "done"]
     /\ Answer(r, Latest, sum[r])
     /\ UNCHANGED <<store, op, ent, st, from, pos>>

-----------------------------------------------------------------------------
(* CheckInAsync: insert, event, position and snapshot under one lock. *)
CheckIn(r) ==
  LET e == Count + 1
      rows == [entry EXCEPT ![e] = "Waiting"]
  IN  /\ Begin(r, "checkIn", "done")
      /\ e \in Entries
      /\ entry' = rows
      /\ log' = Append(log, [entry |-> e, status |-> "Waiting"])
      /\ ent' = [ent EXCEPT ![r] = e]
      /\ st' = [st EXCEPT ![r] = "Waiting"]
      /\ pos' = [pos EXCEPT ![r] = Cardinality(Waiting(rows))]
      /\ Answer(r, Len(log) + 1, rows)
      /\ UNCHANGED from

(* CallNextAsync reads the oldest Waiting row, or answers NoWaitingEntries. *)
CallNext(r) ==
  \/ \E e \in Waiting(entry) :
       /\ \A f \in Waiting(entry) : e <= f
       /\ Begin(r, "callNext", "commit")
       /\ ent' = [ent EXCEPT ![r] = e]
       /\ st' = [st EXCEPT ![r] = "Serving"]
       /\ UNCHANGED <<store, from, answer>>
  \/ /\ Waiting(entry) = {}
     /\ Begin(r, "callNext", "done")
     /\ UNCHANGED <<store, ent, st, from, answer>>

(***************************************************************************)
(* CompleteAsync and CancelAsync read the row and decide; RecordDocument-  *)
(* ChangeAsync reads it and means to change nothing: the entity it tracks  *)
(* keeps the status it was read with.                                      *)
(***************************************************************************)
OnEntry(r, o, e) ==
  \/ /\ entry[e] # Absent /\ (o = "document" \/ Accepts(o, entry[e]))
     /\ Begin(r, o, "commit")
     /\ ent' = [ent EXCEPT ![r] = e]
     /\ st' = [st EXCEPT ![r] = IF o = "document" THEN entry[e] ELSE Target(o)]
     /\ UNCHANGED <<store, from, answer>>
  \/ /\ entry[e] = Absent \/ (o # "document" /\ ~Accepts(o, entry[e]))
     /\ Begin(r, o, "done")
     /\ UNCHANGED <<store, ent, st, from, answer>>

(***************************************************************************)
(* RecordChangeAndBuildUpdateAsync: one transaction appends the event,     *)
(* updates the columns the request changed (none, for a document change)   *)
(* and reads the snapshot, in which the tracked entity stands as tracked.  *)
(***************************************************************************)
Commit(r) ==
  LET rows == [entry EXCEPT ![ent[r]] = st[r]]
  IN  /\ pc[r] = "commit"
      /\ entry' = IF op[r] = "document" THEN entry ELSE rows
      /\ log' = Append(log, [entry |-> ent[r], status |-> st[r]])
      /\ Answer(r, Len(log) + 1, rows)
      /\ pc' = [pc EXCEPT ![r] = "done"]
      /\ UNCHANGED <<op, ent, st, from, pos>>

(* GetStateAsync: the latest number, then the rows, in statements of their own. *)
GetState(r) ==
  \/ /\ Begin(r, "state", "rows")
     /\ seq' = [seq EXCEPT ![r] = Latest]
     /\ UNCHANGED <<store, ent, st, from, sum, pos>>
  \/ /\ pc[r] = "rows"
     /\ pc' = [pc EXCEPT ![r] = "done"]
     /\ sum' = [sum EXCEPT ![r] = entry]
     /\ UNCHANGED <<store, op, ent, st, from, seq, pos>>

(***************************************************************************)
(* GetChangesSinceAsync: one transaction answers with the events after n,  *)
(* or with a snapshot if n is not a number given out or lies too far back. *)
(***************************************************************************)
GetChangesSince(r, n) ==
  LET recognized == n >= 0 /\ n <= Latest
  IN  /\ Begin(r, "since", "done")
      /\ from' = [from EXCEPT ![r] = n]
      /\ Answer(r, Latest, IF recognized /\ Latest - n <= MaxCatchUp THEN NoSnapshot ELSE entry)
      /\ UNCHANGED <<store, ent, st, pos>>

(* Abandoned before its commit, a request leaves nothing behind. *)
HangUp(r) ==
  /\ r \in Impatient
  /\ pc[r] \in {"commit", "rows"}
  /\ pc' = [pc EXCEPT ![r] = "failed"]
  /\ UNCHANGED <<store, op, ent, st, from, answer>>

(* Bound: a caller's number is at most one ahead of the log. *)
Ask(r) ==
  \/ CheckIn(r) \/ CallNext(r)
  \/ \E o \in {"complete", "cancel", "document"}, e \in Entries : OnEntry(r, o, e)
  \/ \E n \in -1 .. Latest + 1 : GetChangesSince(r, n)

Next == \E r \in Requests : Ask(r) \/ Commit(r) \/ GetState(r) \/ HangUp(r)

Spec == Init /\ [][Next]_vars
-----------------------------------------------------------------------------
(***************************************************************************)
(* Properties.                                                             *)
(***************************************************************************)
(* Type invariant: tables and answers hold values of their kind, and a     *)
(* request about to commit tracks a row that exists.                       *)
TypeOK ==
  /\ entry \in Statuses
  /\ log \in Seq(Event(Entries))
  /\ pc \in [Requests -> {"idle", "commit", "rows", "done", "failed"}]
  /\ op \in [Requests -> Operations \cup {"none"}]
  /\ ent \in [Requests -> Entries \cup {0}]
  /\ st \in [Requests -> RowStatus]
  /\ \A r \in Requests : pc[r] = "commit" => ent[r] \in Entries /\ st[r] \in QueueStatus
  /\ from \in [Requests -> Int]
  /\ seq \in [Requests -> {-1} \cup Nat]
  /\ sum \in [Requests -> Statuses \cup {NoSnapshot}]
  /\ pos \in [Requests -> 0 .. MaxEntries]

(* The numbers of the events that record a document change, and no transition. *)
DocumentChanges == {seq[r] : r \in {q \in Requests : op[q] = "document" /\ pc[q] = "done"}}

(* What the events up to number m say of e, those numbered in others left out. *)
Stands(events, others, e, m, status) ==
  LastSays(events, EventsAbout(events, e, m) \ others, status)

(***************************************************************************)
(* Row and event commit together (SqliteQueueRepository.cs:8-11), so the   *)
(* rows are what the check-ins and transitions in the log come to, even    *)
(* when a stale decision has overwritten a row. Document changes are left  *)
(* out: they log the copy they read before their lock, which may be out of *)
(* date, whatever QueueChangeEventEntity.cs:9-10 says.                     *)
(***************************************************************************)
RowsFollowLog == \A e \in Entries : Stands(log, DocumentChanges, e, Latest, entry[e])

(***************************************************************************)
(* A snapshot shows what the transitions come to at one number, no lower   *)
(* than the one announced with it, and exactly that one when a lock was    *)
(* held while it was read: only GetStateAsync reads without one. The one   *)
(* row a document change's snapshot may show otherwise is its own entry's, *)
(* which its DbContext tracks: it may stand as at an earlier number, and   *)
(* not "exactly this change" (SqliteQueueRepository.cs:17).                *)
(***************************************************************************)
AnswersFollowLog ==
  \A r \in Requests : pc[r] = "done" /\ sum[r] # NoSnapshot =>
    \E m \in seq[r] .. Latest :
      /\ op[r] # "state" => m = seq[r]
      /\ \A e \in Entries :
           \/ Stands(log, DocumentChanges, e, m, sum[r][e])
           \/ /\ op[r] = "document" /\ e = ent[r]
              /\ \E k \in 0 .. m : Stands(log, DocumentChanges, e, k, sum[r][e])

(***************************************************************************)
(* A visitor's position is the visitor's rank, by check-in time, among     *)
(* those who wait in the snapshot broadcast with the check-in: the kiosk's *)
(* "you are #n" and the wall display agree, however check-ins race.        *)
(***************************************************************************)
PositionIsRank ==
  \A r \in Requests : op[r] = "checkIn" =>
    /\ sum[r][ent[r]] = "Waiting"
    /\ pos[r] = Cardinality({e \in Waiting(sum[r]) : e <= ent[r]})

(* The change log keeps what QueueLog promises its readers. *)
Log == INSTANCE QueueLog WITH AnyEvent <- Event(Entries), events <- log, latest <- Latest

LogRefines == Log!Spec

(***************************************************************************)
(* "Both backends give the same concurrency guarantees [...] no            *)
(* double-serve on call-next" (README.md:252): no two call-next requests   *)
(* are answered with one entry.                                            *)
(***************************************************************************)
NoDoubleServe ==
  \A r1, r2 \in Requests :
    /\ op[r1] = "callNext" /\ pc[r1] = "done" /\ ent[r1] # 0
    /\ op[r2] = "callNext" /\ pc[r2] = "done" /\ ent[r1] = ent[r2]
    => r1 = r2
=============================================================================
