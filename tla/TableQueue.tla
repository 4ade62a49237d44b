----------------------------- MODULE TableQueue -----------------------------
(***************************************************************************)
(* TableStorageQueueRepository over one partition of Azure Table Storage,  *)
(* with TableStorageQueueSeedData run at every start of the host.          *)
(*                                                                         *)
(* The store offers single-row operations only: a read returns a row with  *)
(* its ETag, an update succeeds only if the ETag is still the row's (412   *)
(* otherwise), an insert only if the key is free (409 otherwise). Every    *)
(* await of the repository is such a call, so every request is a process   *)
(* whose steps interleave with those of all the others, and which may      *)
(* stop between two of them: its client hangs up (the CancellationToken),  *)
(* the retry budget runs out, or the host dies.                            *)
(*                                                                         *)
(* An entry is named by its check-in time stamp, so the oldest of a set of *)
(* entries is its least element. Entry and counter rows carry an ETag that *)
(* every write changes; event rows are never rewritten.                    *)
(***************************************************************************)
EXTENDS QueueDomain

CONSTANTS
  Requests,       \* the HTTP requests (or Blazor circuit calls) of a behaviour
  MaxEntries,     \* bound: check-ins, the seeded ones included
  SeedEntries,    \* rows of the seed list
  MaxAttempts,    \* MaxOptimisticConcurrencyAttempts
  MaxCatchUp,     \* MaxCatchUpEvents
  Operations,     \* the operations clients ask for
  Impatient,      \* requests whose client may hang up
  MayCrash        \* whether the host may die

ASSUME TableQueueAssumption ==
  /\ MaxEntries \in Nat /\ SeedEntries \in 1 .. MaxEntries
  /\ MaxAttempts \in Nat \ {0} /\ MaxCatchUp \in Nat
  /\ IsFiniteSet(Requests) /\ Impatient \subseteq Requests
  /\ Operations \subseteq {"checkIn", "callNext", "complete", "cancel",
                           "document", "state", "since"}
  /\ MayCrash \in BOOLEAN

Entries == 1 .. MaxEntries

VARIABLES
  phase,     \* the host: down, one of the seeding steps, or serving
  stamp,     \* the last check-in time stamp handed out
  entry,     \* QueueEntries: entry -> [status, tag]
  log,       \* QueueChangeEvents: RowKey -> event, a function on the numbers in use
  hint,      \* the Sequence counter row, [value, tag]
  waiting    \* the WaitingCount counter row, [value, tag]

VARIABLES
  pc,        \* the await each request is at
  op, ent, st,       \* its operation, the entry it holds a copy of, the copy's status
  seen,      \* the counter row (or the entry's ETag) it read last
  next,      \* the number it tries to append at; for since, the number asked about
  tries,     \* failed attempts of its current retry loop
  due,       \* the WaitingCount adjustment its entry write calls for, until made
  wrote,     \* whether its entry write has committed
  pos, seq   \* the position and the sequence number of its answer

host == <<phase, stamp>>
store == <<entry, log, hint, waiting>>
job == <<op, ent, st>>
loop == <<pc, seen, next, tries>>
effect == <<due, wrote>>
answer == <<pos, seq>>
vars == <<host, store, job, loop, effect, answer>>

Present == {e \in Entries : entry[e].status # Absent}
WaitingEntries == {e \in Entries : entry[e].status = "Waiting"}
OldestWaiting(e) == e \in WaitingEntries /\ \A f \in WaitingEntries : e <= f
IsLast(n) == IF DOMAIN log = {} THEN n = 0
             ELSE n \in DOMAIN log /\ \A k \in DOMAIN log : k <= n
Missed(n) == {k \in DOMAIN log : k > n}
LogWith(n, event) == [k \in DOMAIN log \cup {n} |-> IF k = n THEN event ELSE log[k]]

Zero == [value |-> 0, tag |-> 0]

Init ==
  /\ phase = "down"
  /\ stamp = 0
  /\ entry = [e \in Entries |-> [status |-> Absent, tag |-> 0]]
  /\ log = [n \in {} |-> 0]
  /\ hint = Zero
  /\ waiting = Zero
  /\ pc = [r \in Requests |-> "idle"]
  /\ op = [r \in Requests |-> "none"]
  /\ ent = [r \in Requests |-> 0]
  /\ st = [r \in Requests |-> Absent]
  /\ seen = [r \in Requests |-> Zero]
  /\ next = [r \in Requests |-> 0]
  /\ tries = [r \in Requests |-> 0]
  /\ due = [r \in Requests |-> 0]
  /\ wrote = [r \in Requests |-> FALSE]
  /\ pos = [r \in Requests |-> 0]
  /\ seq = [r \in Requests |-> 0]

(* Request r moves on to p with its loop's locals; Go drops them. *)
Hold(r, p, s, n, t) ==
  /\ pc' = [pc EXCEPT ![r] = p]
  /\ seen' = [seen EXCEPT ![r] = s]
  /\ next' = [next EXCEPT ![r] = n]
  /\ tries' = [tries EXCEPT ![r] = t]

Go(r, p) == Hold(r, p, Zero, 0, 0)

(***************************************************************************)
(* Every retry loop: another attempt from p, or, the budget spent, an      *)
(* exception that ends the request.                                        *)
(***************************************************************************)
Retry(r, p, n) ==
  IF tries[r] + 1 < MaxAttempts THEN Hold(r, p, Zero, n, tries[r] + 1) ELSE Go(r, "failed")

(* The writes of the repository, each with what the request does next. *)
PutEntry(r) ==
  /\ entry' = [entry EXCEPT ![ent[r]] = [status |-> st[r], tag |-> @.tag + 1]]
  /\ wrote' = [wrote EXCEPT ![r] = TRUE]
  /\ Go(r, IF due[r] = 0 THEN "readHint" ELSE "readCount")
  /\ UNCHANGED <<host, log, hint, waiting, job, due, answer>>

PutCount(r) ==
  LET value == seen[r].value + due[r]
  IN  /\ waiting' = [value |-> value, tag |-> waiting.tag + 1]
      /\ pos' = [pos EXCEPT ![r] = IF op[r] = "checkIn" THEN value ELSE @]
      /\ due' = [due EXCEPT ![r] = 0]
      /\ Go(r, "readHint")
      /\ UNCHANGED <<host, entry, log, hint, job, wrote, seq>>

PutEvent(r) ==
  /\ log' = LogWith(next[r], [entry |-> ent[r], status |-> st[r]])
  /\ seq' = [seq EXCEPT ![r] = next[r]]
  /\ Go(r, "readSeq")
  /\ UNCHANGED <<host, entry, hint, waiting, job, effect, pos>>

PutHint(r, n) ==
  /\ hint' = [value |-> n, tag |-> hint.tag + 1]
  /\ Go(r, "snapshot")
  /\ UNCHANGED <<host, entry, log, waiting, job, effect, answer>>

(* What a step that only reads leaves alone. *)
NoWrite == UNCHANGED <<host, store, effect>>

-----------------------------------------------------------------------------
(***************************************************************************)
(* Slips: mistakes this code could plausibly have had. No action uses one; *)
(* each stands in for the action it is named after to show that a property *)
(* notices.                                                                *)
(***************************************************************************)
(* UpdateEntityAsync with ETag.All: the last writer wins. *)
UpdateEntrySlip(r) == pc[r] = "update" /\ PutEntry(r)

(* The counter written back unconditionally: a concurrent adjustment is lost. *)
WriteCountSlip(r) == pc[r] = "writeCount" /\ PutCount(r)

(* A 412 on the counter treated as fatal. *)
CountRefusedSlip(r) ==
  /\ pc[r] = "writeCount"
  /\ waiting.tag # seen[r].tag
  /\ Go(r, "failed")
  /\ NoWrite /\ UNCHANGED <<job, answer>>

(* The event row upserted instead of added: a taken number is overwritten. *)
AddEventSlip(r) == pc[r] = "addEvent" /\ PutEvent(r)

(* After a conflict the candidate advances twice. *)
PassEventSlip(r) ==
  /\ pc[r] = "passEvent"
  /\ Retry(r, "addEvent", next[r] + 2)
  /\ NoWrite /\ UNCHANGED <<job, answer>>

(* The hint raised to the next free number instead of the last one used. *)
WriteSequenceRowSlip(r) ==
  pc[r] = "writeSeq" /\ hint.tag = seen[r].tag /\ PutHint(r, seq[r] + 1)

(* The hint never raised between restarts. *)
HintNotRaisedSlip(r) ==
  /\ pc[r] = "writeSeq"
  /\ Go(r, "snapshot")
  /\ NoWrite /\ UNCHANGED <<job, answer>>

(* The diff announced with the counter read before it: the first cut's bug. *)
ScanEventsSlip(r) ==
  /\ pc[r] = "scan"
  /\ seq' = [seq EXCEPT ![r] = seen[r].value]
  /\ Hold(r, IF Cardinality(Missed(next[r])) > MaxCatchUp THEN "snapshot" ELSE "done",
          Zero, next[r], 0)
  /\ NoWrite /\ UNCHANGED <<job, pos>>

-----------------------------------------------------------------------------
(***************************************************************************)
(* Host start: TableStorageQueueSeedData.EnsureTablesAndSeedAsync. Nobody  *)
(* else uses the partition while it runs, so its final part, which         *)
(* recomputes both counters from the rows and upserts them, is one step: a *)
(* death half way leaves counters that the next start recomputes again. No *)
(* request holds an ETag at that point, so counting ETags can start anew.  *)
(***************************************************************************)
Start ==
  /\ phase = "down"
  /\ phase' = IF Present = {} THEN "seedEntry" ELSE "reconcile"
  /\ UNCHANGED <<stamp, store, job, loop, effect, answer>>

SeedEntry ==
  /\ phase = "seedEntry"
  /\ phase' = "seedEvent"
  /\ stamp' = stamp + 1
  /\ entry' = [entry EXCEPT ![stamp + 1] = [status |-> "Waiting", tag |-> @.tag + 1]]
  /\ UNCHANGED <<log, hint, waiting, job, loop, effect, answer>>

SeedEvent ==
  /\ phase = "seedEvent"
  /\ phase' = IF stamp < SeedEntries THEN "seedEntry" ELSE "reconcile"
  /\ log' = LogWith(stamp, [entry |-> stamp, status |-> "Waiting"])
  /\ UNCHANGED <<stamp, entry, hint, waiting, job, loop, effect, answer>>

Reconcile ==
  /\ phase = "reconcile"
  /\ phase' = "serving"
  /\ \E n \in {0} \cup DOMAIN log : IsLast(n) /\ hint' = [value |-> n, tag |-> 0]
  /\ waiting' = [value |-> Cardinality(WaitingEntries), tag |-> 0]
  /\ due' = [r \in Requests |-> 0]
  /\ UNCHANGED <<stamp, entry, log, job, loop, wrote, answer>>

Ended == {"idle", "done", "failed"}

(* The host dies: every request under way ends where it stands. *)
Crash ==
  /\ MayCrash
  /\ phase # "down"
  /\ phase' = "down"
  /\ pc' = [r \in Requests |-> IF pc[r] \in Ended THEN pc[r] ELSE "failed"]
  /\ seen' = [r \in Requests |-> Zero]
  /\ next' = [r \in Requests |-> 0]
  /\ tries' = [r \in Requests |-> 0]
  /\ UNCHANGED <<stamp, store, job, effect, answer>>

(* The client of r hangs up and the CancellationToken ends r at its next await. *)
HangUp(r) ==
  /\ r \in Impatient
  /\ pc[r] \notin Ended
  /\ Go(r, "failed")
  /\ NoWrite /\ UNCHANGED <<job, answer>>

(* A request arrives: operation o, about entry e (0: none), with copy status s. *)
Accept(r, p, o, e, s, n) ==
  /\ phase = "serving" /\ pc[r] = "idle" /\ o \in Operations
  /\ op' = [op EXCEPT ![r] = o]
  /\ ent' = [ent EXCEPT ![r] = e]
  /\ st' = [st EXCEPT ![r] = s]
  /\ Hold(r, p, Zero, n, 0)
  /\ UNCHANGED <<phase, store, wrote, answer>>

(* CheckInAsync: stamp the entry, insert it, then AdjustCounter by +1. *)
StartCheckIn(r) ==
  /\ stamp < MaxEntries
  /\ stamp' = stamp + 1
  /\ due' = [due EXCEPT ![r] = 1]
  /\ Accept(r, "add", "checkIn", stamp + 1, "Waiting", 0)

AddEntry(r) == pc[r] = "add" /\ PutEntry(r)

(* CallNextAsync: find the oldest Waiting row, then update it under its ETag. *)
StartCallNext(r) == Accept(r, "find", "callNext", 0, Absent, 0) /\ UNCHANGED <<stamp, due>>

FindOldestWaiting(r) ==
  /\ pc[r] = "find"
  /\ \/ /\ WaitingEntries = {}
        /\ ent' = [ent EXCEPT ![r] = 0]
        /\ due' = [due EXCEPT ![r] = 0]
        /\ Go(r, "done")
     \/ \E e \in Entries :
          /\ OldestWaiting(e)
          /\ ent' = [ent EXCEPT ![r] = e]
          /\ due' = [due EXCEPT ![r] = -1]
          /\ Hold(r, "update", [value |-> 0, tag |-> entry[e].tag], 0, tries[r])
  /\ st' = [st EXCEPT ![r] = "Serving"]
  /\ UNCHANGED <<host, store, op, wrote, answer>>

(***************************************************************************)
(* CompleteAsync, CancelAsync and RecordDocumentChangeAsync: fetch the row *)
(* (EntryNotFound), check its status (InvalidState), then update it under  *)
(* its ETag. RecordDocumentChange writes no entry row: it goes straight to *)
(* the log, with the copy it has fetched.                                  *)
(***************************************************************************)
StartOnEntry(r, o, e) == Accept(r, "get", o, e, Absent, 0) /\ UNCHANGED <<stamp, due>>

GetEntry(r) ==
  LET row == entry[ent[r]]
      leaves == op[r] = "cancel" /\ row.status = "Waiting"
  IN  /\ pc[r] = "get"
      /\ \/ /\ op[r] = "document" /\ row.status # Absent
            /\ st' = [st EXCEPT ![r] = row.status]
            /\ Go(r, "readHint")
         \/ /\ Accepts(op[r], row.status)
            /\ st' = [st EXCEPT ![r] = Target(op[r])]
            /\ Hold(r, "update", [value |-> 0, tag |-> row.tag], 0, tries[r])
         \/ /\ row.status = Absent \/ (op[r] # "document" /\ ~Accepts(op[r], row.status))
            /\ Go(r, "done")
            /\ UNCHANGED st
      /\ due' = [due EXCEPT ![r] = IF leaves THEN -1 ELSE 0]
      /\ UNCHANGED <<host, store, op, ent, wrote, answer>>

UpdateEntry(r) ==
  /\ pc[r] = "update"
  /\ entry[ent[r]].tag = seen[r].tag
  /\ PutEntry(r)

UpdateRefused(r) ==
  /\ pc[r] = "update"
  /\ entry[ent[r]].tag # seen[r].tag
  /\ Retry(r, IF op[r] = "callNext" THEN "find" ELSE "get", 0)
  /\ NoWrite /\ UNCHANGED <<job, answer>>

(***************************************************************************)
(* AdjustCounterAsync on WaitingCount: read the row, update it under its   *)
(* ETag, retry on 412. The rows exist from the first Reconcile on, so the  *)
(* code's NotFound branches are never taken.                               *)
(***************************************************************************)
ReadCount(r) ==
  /\ pc[r] = "readCount"
  /\ Hold(r, "writeCount", waiting, 0, tries[r])
  /\ NoWrite /\ UNCHANGED <<job, answer>>

WriteCount(r) ==
  /\ pc[r] = "writeCount"
  /\ waiting.tag = seen[r].tag
  /\ PutCount(r)

CountRefused(r) ==
  /\ pc[r] = "writeCount"
  /\ waiting.tag # seen[r].tag
  /\ Retry(r, "readCount", 0)
  /\ NoWrite /\ UNCHANGED <<job, answer>>

(***************************************************************************)
(* AppendChangeEventAsync: the number of an event is the key its own       *)
(* insert claims, tried from the hint upwards.                             *)
(***************************************************************************)
ReadHint(r) ==
  /\ pc[r] = "readHint"
  /\ Hold(r, "addEvent", Zero, hint.value + 1, 0)
  /\ NoWrite /\ UNCHANGED <<job, answer>>

AddEvent(r) ==
  /\ pc[r] = "addEvent"
  /\ next[r] \notin DOMAIN log
  /\ PutEvent(r)

EventTaken(r) ==
  /\ pc[r] = "addEvent"
  /\ next[r] \in DOMAIN log
  /\ Hold(r, "passEvent", Zero, next[r], tries[r])
  /\ NoWrite /\ UNCHANGED <<job, answer>>

PassEvent(r) ==
  /\ pc[r] = "passEvent"
  /\ Retry(r, "addEvent", IF hint.value > next[r] THEN hint.value + 1 ELSE next[r] + 1)
  /\ NoWrite /\ UNCHANGED <<job, answer>>

(* TryAdvanceSequenceHintAsync: best effort, a lost race is not retried. *)
ReadSequenceRow(r) ==
  /\ pc[r] = "readSeq"
  /\ IF hint.value >= seq[r] THEN Go(r, "snapshot") ELSE Hold(r, "writeSeq", hint, 0, 0)
  /\ NoWrite /\ UNCHANGED <<job, answer>>

WriteSequenceRow(r) ==
  /\ pc[r] = "writeSeq"
  /\ hint.tag = seen[r].tag
  /\ PutHint(r, seq[r])

HintRefused(r) ==
  /\ pc[r] = "writeSeq"
  /\ hint.tag # seen[r].tag
  /\ Go(r, "snapshot")
  /\ NoWrite /\ UNCHANGED <<job, answer>>

(***************************************************************************)
(* GetStateAsync and GetChangesSinceAsync. The hint answers for the latest *)
(* number; a caller ahead of it gets a snapshot, as one more than          *)
(* MaxCatchUp events behind does.                                          *)
(***************************************************************************)
StartState(r) == Accept(r, "latest", "state", 0, Absent, 0) /\ UNCHANGED <<stamp, due>>

(* Bound: a caller's number is at most one ahead of the log. *)
StartSince(r) ==
  /\ \E n \in {-1, 0, 1} \cup DOMAIN log \cup {k + 1 : k \in DOMAIN log} :
       Accept(r, "latest", "since", 0, Absent, n)
  /\ UNCHANGED <<stamp, due>>

ReadLatest(r) ==
  LET recognized == op[r] = "since" /\ next[r] >= 0 /\ next[r] <= hint.value
  IN  /\ pc[r] = "latest"
      /\ \/ /\ recognized
            /\ Hold(r, "scan", hint, next[r], 0)
            /\ UNCHANGED seq
         \/ /\ ~recognized
            /\ Go(r, "snapshot")
            /\ seq' = [seq EXCEPT ![r] = hint.value]
      /\ NoWrite /\ UNCHANGED <<job, pos>>

ScanEvents(r) ==
  LET events == Missed(next[r])
  IN  /\ pc[r] = "scan"
      /\ \/ /\ Cardinality(events) > MaxCatchUp
            /\ seq' = [seq EXCEPT ![r] = seen[r].value]
            /\ Go(r, "snapshot")
         \/ /\ Cardinality(events) <= MaxCatchUp
            /\ \E last \in events \cup {next[r]} :
                 /\ \A k \in events : k <= last
                 /\ seq' = [seq EXCEPT ![r] = last]
            /\ Go(r, "done")
      /\ NoWrite /\ UNCHANGED <<job, pos>>

(* BuildSnapshotAsync: the rows as they are now go out with the number seq[r]. *)
BuildSnapshot(r) ==
  /\ pc[r] = "snapshot"
  /\ Go(r, "done")
  /\ NoWrite /\ UNCHANGED <<job, answer>>

Work(r) ==
  \/ AddEntry(r) \/ FindOldestWaiting(r) \/ GetEntry(r)
  \/ UpdateEntry(r) \/ UpdateRefused(r)
  \/ ReadCount(r) \/ WriteCount(r) \/ CountRefused(r)
  \/ ReadHint(r) \/ AddEvent(r) \/ EventTaken(r) \/ PassEvent(r)
  \/ ReadSequenceRow(r) \/ WriteSequenceRow(r) \/ HintRefused(r)
  \/ ReadLatest(r) \/ ScanEvents(r) \/ BuildSnapshot(r)

Ask(r) ==
  \/ StartCheckIn(r) \/ StartCallNext(r) \/ StartState(r) \/ StartSince(r)
  \/ \E o \in {"complete", "cancel", "document"}, e \in Entries : StartOnEntry(r, o, e)

Boot == Start \/ SeedEntry \/ SeedEvent \/ Reconcile

Next ==
  \/ Boot
  \/ Crash
  \/ \E r \in Requests : Ask(r) \/ Work(r) \/ HangUp(r)

Spec == Init /\ [][Next]_vars

(***************************************************************************)
(* Each await of a request returns and the thread pool resumes it; nothing *)
(* obliges a client to ask.                                                *)
(***************************************************************************)
FairSpec == Spec /\ WF_vars(Boot) /\ \A r \in Requests : WF_vars(Work(r))
-----------------------------------------------------------------------------
(***************************************************************************)
(* Properties.                                                             *)
(***************************************************************************)
Row == [status : RowStatus, tag : Nat]
Counter == [value : Int, tag : Nat]
PC == {"idle", "add", "find", "get", "update", "readCount", "writeCount",
       "readHint", "addEvent", "passEvent", "readSeq", "writeSeq", "latest",
       "scan", "snapshot", "done", "failed"}

(* Type invariant: every table and every request's locals hold values of their kind. *)
TypeOK ==
  /\ phase \in {"down", "seedEntry", "seedEvent", "reconcile", "serving"}
  /\ stamp \in 0 .. MaxEntries
  /\ entry \in [Entries -> Row]
  /\ DOMAIN log \subseteq Nat \ {0}
  /\ \A n \in DOMAIN log : log[n] \in Event(Entries)
  /\ hint \in Counter
  /\ waiting \in Counter
  /\ pc \in [Requests -> PC]
  /\ op \in [Requests -> Operations \cup {"none"}]
  /\ ent \in [Requests -> Entries \cup {0}]
  /\ st \in [Requests -> RowStatus]
  /\ seen \in [Requests -> Counter]
  /\ next \in [Requests -> Int]
  /\ tries \in [Requests -> Nat]
  /\ due \in [Requests -> {-1, 0, 1}]
  /\ wrote \in [Requests -> BOOLEAN]
  /\ pos \in [Requests -> Int]
  /\ seq \in [Requests -> Int]

(***************************************************************************)
(* AppendChangeEventAsync's claim: an event exists only once its           *)
(* predecessor does, whatever retries, hang-ups and deaths intervene.      *)
(***************************************************************************)
LogGapFree == DOMAIN log = 1 .. Cardinality(DOMAIN log)

(***************************************************************************)
(* The Sequence counter may lag the log but never names a number that has  *)
(* no event: appending just above it never skips one.                      *)
(***************************************************************************)
HintNeverLeads == hint.value = 0 \/ hint.value \in DOMAIN log

Served(r) == op[r] = "callNext" /\ wrote[r]

(***************************************************************************)
(* CallNextAsync never hands one entry to two callers: the update under    *)
(* the ETag read with the row lets one of the racers through.              *)
(***************************************************************************)
NoDoubleServe ==
  \A r1, r2 \in Requests :
    Served(r1) /\ Served(r2) /\ ent[r1] = ent[r2] => r1 = r2

(***************************************************************************)
(* No interleaving takes an entry off the lifecycle of QueueStatus: a      *)
(* cancelled visitor is not called, a completed one is not cancelled.      *)
(***************************************************************************)
LegalLifecycle ==
  [][\A e \in Entries : entry'[e].status # entry[e].status =>
       Legal(entry[e].status, entry'[e].status)]_vars

OwnEvent(r) ==
  /\ seq[r] \in DOMAIN log
  /\ log[seq[r]] = [entry |-> ent[r], status |-> st[r]]

Appended(r) == seq[r] # 0 /\ op[r] \notin {"state", "since"}

(***************************************************************************)
(* A mutation that is answered is in the log under the number it is        *)
(* answered with, that row still says what the request did, and no other   *)
(* request was given the same number.                                      *)
(***************************************************************************)
AcknowledgedIsLogged ==
  /\ \A r \in Requests : pc[r] \in {"snapshot", "done"} /\ wrote[r] => Appended(r)
  /\ \A r \in Requests : Appended(r) => OwnEvent(r)
  /\ \A r1, r2 \in Requests :
       Appended(r1) /\ Appended(r2) /\ seq[r1] = seq[r2] => r1 = r2

(***************************************************************************)
(* Whatever sequence number goes out with a snapshot (an update's, GET     *)
(* /queue's, a catch-up's), the rows read for it already show every event  *)
(* up to that number: a client that adopts both loses nothing.             *)
(***************************************************************************)
BaselineCovered ==
  \A r \in Requests : pc[r] = "snapshot" =>
    \A n \in 1 .. seq[r] :
      n \in DOMAIN log /\ Reached(log[n].status, entry[log[n].entry].status)

(***************************************************************************)
(* A catch-up diff ends at the number it announces and has every number    *)
(* between the caller's and that one: the anomaly of the first, counter    *)
(* based, version of the repository is gone.                               *)
(***************************************************************************)
CatchUpContiguous ==
  [][\A r \in Requests : pc[r] = "scan" /\ pc'[r] = "done" =>
       Missed(next[r]) = (next[r] + 1) .. seq'[r]]_vars

Owing(d) == {r \in Requests : wrote[r] /\ due[r] = d}

(***************************************************************************)
(* While the host serves, WaitingCount differs from the number of Waiting  *)
(* rows by exactly the adjustments still owed: by requests between their   *)
(* two writes, and by those that ended there. No retry adjusts twice, and  *)
(* a restart leaves no debt.                                               *)
(***************************************************************************)
CountBalanced ==
  phase = "serving" =>
    waiting.value + Cardinality(Owing(1)) - Cardinality(Owing(-1))
      = Cardinality(WaitingEntries)

Told(r) == op[r] = "checkIn" /\ pos[r] # 0

(***************************************************************************)
(* Visitors who check in while nobody leaves the line are told distinct    *)
(* positions, restarts and hang-ups included.                              *)
(***************************************************************************)
DistinctPositions ==
  Present = WaitingEntries =>
    \A r1, r2 \in Requests :
      Told(r1) /\ Told(r2) /\ pos[r1] = pos[r2] => r1 = r2

(***************************************************************************)
(* With a retry budget no smaller than the burst, every request that has   *)
(* begun is answered: no loop starves or gives up.                         *)
(***************************************************************************)
EveryRequestAnswered ==
  \A r \in Requests : pc[r] \in {"add", "find", "get", "latest"} ~> pc[r] = "done"

(***************************************************************************)
(* Why the hint lags, while the host serves: a number above it is of a     *)
(* request that appended it and is about to raise the hint, that ended     *)
(* before it could (its client hung up), or that lost the race to raise it *)
(* to one with the number the hint has now. Nothing else adds to the lag,  *)
(* which AppendChangeEventAsync walks past, and a start leaves none.       *)
(***************************************************************************)
LagIsOwed ==
  phase = "serving" =>
    \A n \in DOMAIN log : n > hint.value =>
      \E r \in Requests :
        /\ Appended(r) /\ seq[r] = n
        /\ \/ pc[r] \in {"readSeq", "writeSeq", "failed"}
           \/ \E q \in Requests : Appended(q) /\ seq[q] = hint.value

(* The rows of the log in the order of their numbers. *)
Events == [n \in 1 .. Cardinality(DOMAIN log) |-> log[n]]

(***************************************************************************)
(* Row by row, without transactions and through hang-ups and deaths, the   *)
(* repository keeps the promise of QueueLog: events are added at the end,  *)
(* none is ever rewritten, and the announced number never goes back.       *)
(***************************************************************************)
Log == INSTANCE QueueLog WITH AnyEvent <- Event(Entries), events <- Events, latest <- hint.value

LogRefines == Log!Spec
=============================================================================
