----------------------------- MODULE HubClient -----------------------------
(***************************************************************************)
(* One browser tab's QueueHubService (queue-hub.service.ts) and what it    *)
(* follows on the server: the hub's broadcasts and baseline, and the REST  *)
(* reads GET /queue and GET /queue/since/{seq}.                            *)
(*                                                                         *)
(* JavaScript runs a handler to its next await without interruption; each  *)
(* such stretch is one step. Of the SignalR client the service relies on   *)
(* what HubServer assumes, and on a connection that was never up not being *)
(* retried.                                                                *)
(***************************************************************************)
EXTENDS HubServer

CONSTANTS
  Calls,        \* REST calls that can be under way at once
  MaxLog,       \* bounds the changes, ...
  MaxDrops,     \* ... the connections lost
  MaxFailures,  \* ... and the REST calls and pushes that fail
  MaxCatchUp,   \* MaxCatchUpEvents
  MayStop       \* whether the tab may call stop()

ASSUME HubClientAssumption ==
  /\ MaxLog \in Nat /\ MaxDrops \in Nat /\ MaxFailures \in Nat /\ MaxCatchUp \in Nat
  /\ MayStop \in BOOLEAN

VARIABLES
  unsent,      \* changes whose broadcast has not been sent
  conn,        \* the HubConnection
  at,          \* how far start() is
  state,       \* connectionState
  shown,       \* snapshot and entriesById: the copy of each entry, 0 for none
  source,      \* what the last full snapshot came from
  highest,     \* highestSequenceSeen
  lastUpdate,  \* the number of the last live push
  timer,       \* whether pollHandle is set
  disposed,
  call,        \* REST calls
  drops, failures

server == <<log, unsent>>
life == <<conn, at, state, timer, disposed>>
view == <<shown, source, highest, lastUpdate>>
faults == <<drops, failures>>
vars == <<server, link, life, view, call, faults>>

NoCall == [kind |-> "none"]
Kinds == {"seed", "since", "resync", "poll"}
Idle(c) == call[c] = NoCall
Asking(kind, from) == [kind |-> kind, from |-> from, asked |-> Len(log), seq |-> 0,
                       diff |-> FALSE, version |-> 0, answered |-> FALSE]
Answered(a, n, diff, version) ==
  [kind |-> a.kind, from |-> a.from, asked |-> a.asked, seq |-> n,
   diff |-> diff, version |-> version, answered |-> TRUE]

Init ==
  /\ log = <<>> /\ unsent = {}
  /\ LinkInit
  /\ conn = "none" /\ at = "new" /\ state = "connecting"
  /\ shown = NoCopies /\ source = "none" /\ highest = 0 /\ lastUpdate = 0
  /\ timer = FALSE /\ disposed = FALSE
  /\ call = [c \in Calls |-> NoCall]
  /\ drops = 0 /\ failures = 0

-----------------------------------------------------------------------------
(***************************************************************************)
(* Slips: mistakes this code could plausibly have had. No action uses one. *)
(***************************************************************************)
(* A timer started after teardown. *)
StartPollingSlip ==
  IF timer THEN UNCHANGED <<timer, state>> ELSE timer' = TRUE /\ state' = "polling"

(* A replay applied whatever has been pushed meanwhile. *)
ReplaySlip(c) ==
  /\ highest' = MaxOf(highest, call[c].seq)
  /\ IF call[c].diff
     THEN shown' = Patch(shown, call[c].from, call[c].seq) /\ UNCHANGED source
     ELSE shown' = ShownAt(call[c].version) /\ source' = "catchUp"
  /\ UNCHANGED lastUpdate

(* A state that brings no higher number taken for nothing new. *)
FetchedSlip(c) ==
  /\ highest' = MaxOf(highest, call[c].seq)
  /\ IF call[c].seq > highest
     THEN shown' = ShownAt(call[c].version) /\ source' = "fetch"
     ELSE UNCHANGED <<shown, source>>
  /\ UNCHANGED lastUpdate

(* The replay's failure left unhandled. *)
FailSlip(c) ==
  /\ ~Idle(c) /\ failures < MaxFailures
  /\ failures' = failures + 1
  /\ call' = [call EXCEPT ![c] = NoCall]
  /\ IF call[c].kind = "seed" THEN at' = "seeded" ELSE UNCHANGED at
  /\ UNCHANGED <<server, link, conn, state, timer, disposed, view, drops>>

(* A connection given up without a fallback. *)
CloseSlip ==
  /\ conn \in {"reconnecting", "closing"}
  /\ conn' = "closed"
  /\ LinkLost
  /\ at' = IF at = "racing" THEN "done" ELSE at
  /\ UNCHANGED <<state, timer, disposed, server, view, call, faults>>

-----------------------------------------------------------------------------
(***************************************************************************)
(* The server.                                                             *)
(***************************************************************************)
Change(e) ==
  /\ Len(log) < MaxLog
  /\ log' = Append(log, e)
  /\ unsent' = unsent \cup {Len(log) + 1}
  /\ UNCHANGED <<link, life, view, call, faults>>

(***************************************************************************)
(* BroadcastAsync, once the change is committed, in any order: a number    *)
(* and a queue read under it or later. A failed push is logged.            *)
(***************************************************************************)
Broadcast(n) ==
  /\ unsent' = unsent \ {n}
  /\ \/ Push(n) /\ UNCHANGED failures
     \/ joined /\ failures < MaxFailures /\ failures' = failures + 1 /\ UNCHANGED link
  /\ UNCHANGED <<log, life, view, call, drops>>

(* The hub admits a connection and tells it the number it has come to. *)
Serve ==
  /\ \/ conn = "connected" /\ Join
     \/ ReadBaseline
     \/ SendBaseline
  /\ UNCHANGED <<unsent, life, view, call, faults>>

(***************************************************************************)
(* GetStateAsync reads its number and then the rows; GetChangesSinceAsync  *)
(* answers with the changes missed or, past MaxCatchUpEvents, a snapshot.  *)
(***************************************************************************)
Answer(c) ==
  /\ ~Idle(c) /\ ~call[c].answered
  /\ IF call[c].kind = "since" /\ Len(log) - call[c].from <= MaxCatchUp
     THEN call' = [call EXCEPT ![c] = Answered(@, Len(log), TRUE, 0)]
     ELSE \E n \in call[c].asked .. Len(log) :
            call' = [call EXCEPT ![c] = Answered(@, n, FALSE, Len(log))]
  /\ UNCHANGED <<server, link, life, view, faults>>

-----------------------------------------------------------------------------
(***************************************************************************)
(* The client. Its state follows from these four.                          *)
(***************************************************************************)
(* startPolling, which does nothing after stop() or while a timer runs. *)
StartPolling ==
  IF disposed \/ timer
  THEN UNCHANGED <<timer, state>>
  ELSE timer' = TRUE /\ state' = "polling"

(* handleLiveUpdate, and the handler of CurrentSequence: a floor only. *)
Receive(message) ==
  /\ highest' = MaxOf(highest, message.seq)
  /\ IF IsBaseline(message)
     THEN UNCHANGED <<shown, source, lastUpdate>>
     ELSE shown' = ShownAt(message.version) /\ source' = "push" /\ lastUpdate' = message.seq

(* catchUp's response, unless a push has gone past it meanwhile. *)
Replay(c) ==
  /\ highest' = MaxOf(highest, call[c].seq)
  /\ IF call[c].seq < highest
     THEN UNCHANGED <<shown, source>>
     ELSE IF call[c].diff
     THEN shown' = Patch(shown, call[c].from, call[c].seq) /\ UNCHANGED source
     ELSE shown' = ShownAt(call[c].version) /\ source' = "catchUp"
  /\ UNCHANGED lastUpdate

(* fetchAndApplyState's response, always applied. *)
Fetched(c) ==
  /\ shown' = ShownAt(call[c].version) /\ source' = "fetch"
  /\ highest' = MaxOf(highest, call[c].seq)
  /\ UNCHANGED lastUpdate

Ask(c, kind) == Idle(c) /\ call' = [call EXCEPT ![c] = Asking(kind, highest)]

(* start(): the seed, ... *)
Start(c) ==
  /\ at = "new" /\ at' = "seeding"
  /\ Ask(c, "seed")
  /\ UNCHANGED <<server, link, conn, state, timer, disposed, view, faults>>

(* ... and, whatever became of it, the connection and its race with a timeout. *)
Connect ==
  /\ at = "seeded" /\ at' = "racing"
  /\ conn' = "starting"
  /\ UNCHANGED <<server, link, state, timer, disposed, view, call, faults>>

(***************************************************************************)
(* connectPromise resolves: live, if in time; if late, the socket is       *)
(* adopted and the poller stopped.                                         *)
(***************************************************************************)
ConnectSucceeds ==
  /\ conn = "starting" /\ conn' = "connected"
  /\ at' = "done"
  /\ IF disposed THEN UNCHANGED <<state, timer>>
     ELSE IF at = "racing" THEN state' = "live" /\ UNCHANGED timer
     ELSE IF state = "polling" THEN state' = "live" /\ timer' = FALSE
     ELSE UNCHANGED <<state, timer>>
  /\ UNCHANGED <<server, link, disposed, view, call, faults>>

(* It rejects: in time, polling starts; late, it has already. *)
ConnectFails ==
  /\ conn = "starting" /\ conn' = "closed"
  /\ at' = "done"
  /\ IF at = "racing" THEN StartPolling ELSE UNCHANGED <<timer, state>>
  /\ UNCHANGED <<server, link, disposed, view, call, faults>>

ConnectTimesOut ==
  /\ at = "racing" /\ conn = "starting"
  /\ at' = "late"
  /\ StartPolling
  /\ UNCHANGED <<server, link, conn, disposed, view, call, faults>>

Deliver ==
  /\ inbox # <<>>
  /\ Receive(Head(inbox))
  /\ inbox' = Tail(inbox)
  /\ UNCHANGED <<joined, baseline, floor, server, life, call, faults>>

Drop ==
  /\ conn = "connected" /\ drops < MaxDrops
  /\ drops' = drops + 1
  /\ conn' = "reconnecting" /\ state' = "reconnecting"
  /\ LinkLost
  /\ UNCHANGED <<server, at, timer, disposed, view, call, failures>>

(* onreconnected: the replay is asked for from the highest number seen. *)
Reconnect(c) ==
  /\ conn = "reconnecting" /\ conn' = "connected"
  /\ Ask(c, "since")
  /\ UNCHANGED <<server, link, at, state, timer, disposed, view, faults>>

(* onclose: automatic reconnect has given up, or stop() has been called. *)
Close ==
  /\ conn \in {"reconnecting", "closing"}
  /\ conn' = "closed"
  /\ LinkLost
  /\ at' = IF at = "racing" THEN "done" ELSE at
  /\ StartPolling
  /\ UNCHANGED <<disposed, server, view, call, faults>>

(***************************************************************************)
(* The hub fails to read the baseline and closes the connection, which is  *)
(* not retried: onclose.                                                   *)
(***************************************************************************)
Refuse ==
  /\ conn = "connected" /\ baseline = "due" /\ inbox = <<>> /\ failures < MaxFailures
  /\ failures' = failures + 1
  /\ conn' = "closed"
  /\ LinkLost
  /\ StartPolling
  /\ UNCHANGED <<server, at, disposed, view, call, drops>>

(* A tick of the poller; at most Cardinality(Calls) answers are under way. *)
PollOnce(c) ==
  /\ timer
  /\ Ask(c, "poll")
  /\ UNCHANGED <<server, link, life, view, faults>>

(* A response; catchUp and the resync after it go on to say "live". *)
Handle(c) ==
  /\ ~Idle(c) /\ call[c].answered
  /\ IF call[c].kind = "since" THEN Replay(c) ELSE Fetched(c)
  /\ call' = [call EXCEPT ![c] = NoCall]
  /\ at' = IF call[c].kind = "seed" THEN "seeded" ELSE at
  /\ state' = IF call[c].kind \in {"since", "resync"} THEN "live" ELSE state
  /\ UNCHANGED <<server, link, conn, timer, disposed, faults>>

(***************************************************************************)
(* A failed call: the seed is done without, a replay turns to a resync, a  *)
(* resync to polling, a poll waits for the next tick.                      *)
(***************************************************************************)
Fail(c) ==
  /\ ~Idle(c) /\ failures < MaxFailures
  /\ failures' = failures + 1
  /\ call' = [call EXCEPT ![c] = IF @.kind = "since" THEN Asking("resync", highest) ELSE NoCall]
  /\ at' = IF call[c].kind = "seed" THEN "seeded" ELSE at
  /\ IF call[c].kind = "resync" THEN StartPolling ELSE UNCHANGED <<timer, state>>
  /\ UNCHANGED <<server, link, conn, disposed, view, drops>>

(***************************************************************************)
(* stop(), at any time. A connection not yet built is not there to stop:   *)
(* start() goes on to build it.                                            *)
(***************************************************************************)
Stop ==
  /\ MayStop /\ ~disposed
  /\ disposed' = TRUE /\ timer' = FALSE
  /\ conn' = IF conn \in {"starting", "connected", "reconnecting"} THEN "closing" ELSE conn
  /\ UNCHANGED <<server, link, at, state, view, call, faults>>

Server ==
  \/ \E n \in unsent : Broadcast(n)
  \/ Serve
  \/ \E c \in Calls : Answer(c)

Client ==
  \/ Connect \/ ConnectSucceeds \/ ConnectFails \/ ConnectTimesOut
  \/ Deliver \/ Close
  \/ \E c \in Calls : Start(c) \/ Reconnect(c) \/ Handle(c)

Environment == (\E e \in Entries : Change(e)) \/ Drop \/ Refuse \/ Stop \/ \E c \in Calls : Fail(c)

Next == Server \/ Client \/ Environment \/ \E c \in Calls : PollOnce(c)

Spec == Init /\ [][Next]_vars

(***************************************************************************)
(* The server answers, messages and responses are handled, a connection    *)
(* attempt ends one way or the other, the interval timer ticks. Nobody has *)
(* to change the queue, fail, drop or stop.                                *)
(***************************************************************************)
FairSpec ==
  /\ Spec
  /\ WF_vars(Server)
  /\ WF_vars(Connect \/ ConnectSucceeds \/ ConnectFails \/ ConnectTimesOut)
  /\ WF_vars(Deliver)
  /\ WF_vars(Close \/ \E c \in Calls : Reconnect(c))
  /\ WF_vars(\E c \in Calls : Handle(c))
  /\ WF_vars(\E c \in Calls : PollOnce(c))
-----------------------------------------------------------------------------
(***************************************************************************)
(* Properties.                                                             *)
(***************************************************************************)
(* Type invariant; no number is ahead of the change log. *)
TypeOK ==
  /\ log \in Seq(Entries) /\ unsent \subseteq DOMAIN log
  /\ LinkTypeOK /\ (inbox # <<>> => conn \in {"connected", "closing"})
  /\ conn \in {"none", "starting", "connected", "reconnecting", "closing", "closed"}
  /\ at \in {"new", "seeding", "seeded", "racing", "late", "done"}
  /\ state \in {"connecting", "live", "reconnecting", "polling"}
  /\ shown \in [Entries -> 0 .. Len(log)]
  /\ source \in {"none", "push", "catchUp", "fetch"}
  /\ highest \in 0 .. Len(log) /\ lastUpdate \in 0 .. highest
  /\ timer \in BOOLEAN /\ disposed \in BOOLEAN
  /\ \A c \in Calls : Idle(c) \/ call[c].kind \in Kinds
  /\ drops \in 0 .. MaxDrops /\ failures \in 0 .. MaxFailures

(***************************************************************************)
(* No replay takes out of view a change that the last push's number says   *)
(* is known: every change up to that number, or a later one about the same *)
(* entry, stays in view, however old, long delayed or reordered the        *)
(* replays under way when the push came: the guard of catchUp              *)
(* (queue-hub.service.ts:246). A push's queue can be newer than its number,*)
(* and what it shows beyond is not promised; a poll or a resync, which has *)
(* no guard, ends the promise until the next push.                         *)
(***************************************************************************)
ReplayNeverUndoesPush ==
  source \in {"push", "catchUp"} => \A k \in 1 .. lastUpdate : shown[log[k]] >= k

(***************************************************************************)
(* A tab that has given up its connection polls: whichever of timeout,     *)
(* rejection, close and late adoption comes last, it is never left without *)
(* a source of changes.                                                    *)
(***************************************************************************)
NeverBlind == conn = "closed" => timer \/ disposed

(***************************************************************************)
(* No timer outlives stop(), whichever handlers run after it               *)
(* (queue-hub.service.ts:79).                                              *)
(***************************************************************************)
NoOrphanTimer == disposed => ~timer

(***************************************************************************)
(* A tab that polls for good ends up showing the queue as it is, whatever  *)
(* it believed before and however many polls overlap.                      *)
(***************************************************************************)
PollingConverges == <>[]timer => <>[](shown = ShownAt(Len(log)))

(***************************************************************************)
(* No lost connection leaves the tab "reconnecting" with nothing to go on: *)
(* it goes live, or it polls (queue-hub.service.ts:161).                   *)
(***************************************************************************)
NeverStranded == state = "reconnecting" ~> state \in {"live", "polling"} \/ timer \/ disposed

(***************************************************************************)
(* Once everything sent has been handled, a tab that is live again after a *)
(* disconnect shows every change up to the highest number it has seen:     *)
(* "the tricky part (never silently missing a state change across a        *)
(* disconnect) is solved exactly once" (queue-hub.service.ts:21-22).       *)
(***************************************************************************)
Settled ==
  /\ conn = "connected" /\ state = "live" /\ baseline = "sent"
  /\ inbox = <<>> /\ unsent = {} /\ \A c \in Calls : Idle(c)

NothingMissed == Settled /\ drops > 0 => \A e \in Entries : shown[e] >= ShownAt(highest)[e]
=============================================================================
