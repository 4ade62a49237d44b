--------------------------- MODULE RealtimeService --------------------------
(***************************************************************************)
(* One Blazor circuit's QueueRealtimeService, the writes its user makes    *)
(* and how the host's hub passes them on (QueueHub.NotifyMutation).        *)
(*                                                                         *)
(* Unlike its twin HubClient it runs on several threads: the connection's  *)
(* messages (one at a time), the timer's ticks, the renderer's writes, and *)
(* the handlers of Reconnecting, Reconnected and Closed. Those the client  *)
(* library hands to the thread pool and does not wait for, so each runs at *)
(* some time after its event, in any order. A thread loses the processor   *)
(* anywhere outside stateLock, so applying an answer is a step per locked  *)
(* region and per assignment of Snapshot. LastUpdate is left out: nothing  *)
(* here reads it.                                                          *)
(***************************************************************************)
EXTENDS HubServer

CONSTANTS
  Tasks,         \* reads of the repository that can be under way at once
  OthersWrite,   \* whether other circuits write
  MaxLog,        \* bounds the changes, ...
  MaxDrops,      \* ... the connections lost
  MaxFailures    \* ... and the repository's and the hub's failures

ASSUME RealtimeServiceAssumption ==
  /\ OthersWrite \in BOOLEAN
  /\ MaxLog \in Nat /\ MaxDrops \in Nat /\ MaxFailures \in Nat

VARIABLES
  unsent,     \* other circuits' changes on their way to NotifyMutation
  publishing, \* the change this circuit has written and not yet published, or 0
  outbox,     \* its changes sent to NotifyMutation over its connection
  conn,       \* the HubConnection
  raised,     \* its events whose handlers have yet to run, by kind
  at,         \* how far StartAsync, and the background retry after it, are
  state,      \* ConnectionState
  timer,      \* whether pollTimer is set
  starters,   \* threads in StartPolling, past its check, and what each does next
  disposed,
  index,      \* entriesById
  snapshot,   \* Snapshot
  highest,    \* highestSequenceSeen
  task,       \* the reads, and the callback of a push
  drops, failures

writes == <<unsent, publishing, outbox>>
polling == <<timer, starters, state>>
view == <<index, snapshot, highest>>
faults == <<drops, failures>>
vars == <<log, link, writes, conn, raised, at, polling, disposed, view, task, faults>>

Callback == "callback"
Workers == Tasks \cup {Callback}
None == [kind |-> "none", pc |-> "done", from |-> 0, seq |-> 0, copies |-> NoCopies]
Idle(w) == task[w] = None
(* Before its answer, seq is the length of the log when it asked. *)
Asking(kind, from) ==
  [kind |-> kind, pc |-> "ask", from |-> from, seq |-> Len(log), copies |-> NoCopies]
Applying(kind, pc, n, copies) ==
  [kind |-> kind, pc |-> pc, from |-> 0, seq |-> n, copies |-> copies]
Goto(w, pc) == task' = [task EXCEPT ![w] = [@ EXCEPT !.pc = pc]]

Events == {"reconnecting", "reconnected", "closed"}
Starters == {"start", "closed", "resync"}
Stages == {"say", "create"}
Raise(event) == raised' = [raised EXCEPT ![event] = @ + 1]
Handle(event) == raised[event] > 0 /\ raised' = [raised EXCEPT ![event] = @ - 1]

Init ==
  /\ log = <<>> /\ LinkInit
  /\ unsent = {} /\ publishing = 0 /\ outbox = {}
  /\ conn = "none" /\ at = "new" /\ state = "connecting"
  /\ raised = [event \in Events |-> 0]
  /\ timer = FALSE /\ starters = {} /\ disposed = FALSE
  /\ index = NoCopies /\ snapshot = NoCopies /\ highest = 0
  /\ task = [w \in Workers |-> None]
  /\ drops = 0 /\ failures = 0

-----------------------------------------------------------------------------
(***************************************************************************)
(* The hub.                                                                *)
(***************************************************************************)
(* Another circuit's change; no fairness makes that circuit publish it. *)
Change(e) ==
  /\ OthersWrite /\ Len(log) < MaxLog
  /\ log' = Append(log, e)
  /\ unsent' = unsent \cup {Len(log) + 1}
  /\ UNCHANGED <<link, publishing, outbox, conn, raised, at, polling, disposed, view, task, faults>>

Serve ==
  /\ \/ conn = "connected" /\ Join
     \/ ReadBaseline
     \/ SendBaseline
  /\ UNCHANGED <<writes, conn, raised, at, polling, disposed, view, task, faults>>

(* Slip: the changes after n are asked for, and n is not among them. No action uses it. *)
NotifyMutationSlip(n) ==
  /\ \/ /\ n \in unsent
        /\ unsent' = unsent \ {n} /\ UNCHANGED outbox
     \/ /\ n \in outbox /\ baseline = "sent" /\ \A k \in outbox : n <= k
        /\ outbox' = outbox \ {n} /\ UNCHANGED unsent
  /\ UNCHANGED <<log, link, publishing, conn, raised, at, polling, disposed, view, task, faults>>

(***************************************************************************)
(* NotifyMutation(n) asks for the changes from n on, finds n among them,   *)
(* reads the state and broadcasts. It passes nothing on if it or the       *)
(* broadcast fails, or if more than MaxCatchUpEvents changes have come     *)
(* since. The hub takes one call of a connection at a time, once           *)
(* OnConnectedAsync is through.                                            *)
(***************************************************************************)
NotifyMutation(n) ==
  /\ \/ /\ n \in unsent
        /\ unsent' = unsent \ {n} /\ UNCHANGED outbox
     \/ /\ n \in outbox /\ baseline = "sent" /\ \A k \in outbox : n <= k
        /\ outbox' = outbox \ {n} /\ UNCHANGED unsent
  /\ \/ Push(n) /\ UNCHANGED failures
     \/ failures < MaxFailures /\ failures' = failures + 1 /\ UNCHANGED link
  /\ UNCHANGED <<log, publishing, conn, raised, at, polling, disposed, view, task, drops>>

-----------------------------------------------------------------------------
(***************************************************************************)
(* Reading the repository and applying what it says.                       *)
(***************************************************************************)
Ask(t, kind) == Idle(t) /\ task' = [task EXCEPT ![t] = Asking(kind, highest)]

(* Slip: a queue that brings no higher number is taken for nothing new. No action uses it. *)
AnswerQueueSlip(t) ==
  /\ task[t].pc = "ask" /\ (task[t].kind = "since" => task[t].from < Len(log))
  /\ task' = [task EXCEPT ![t] =
       IF task[t].kind = "poll" /\ Len(log) <= highest THEN None
       ELSE Applying(@.kind, IF @.kind = "since" THEN "compare" ELSE "index",
                     Len(log), ShownAt(Len(log)))]
  /\ UNCHANGED <<log, link, writes, conn, raised, at, polling, disposed, view, faults>>

(***************************************************************************)
(* A replay is a diff or, if more than MaxCatchUpEvents changes are        *)
(* missing, the queue; every other read is the queue: a number, and the    *)
(* rows under it or later.                                                 *)
(***************************************************************************)
AnswerDiff(t) ==
  /\ task[t].pc = "ask" /\ task[t].kind = "since"
  /\ task' = [task EXCEPT ![t] = [@ EXCEPT !.pc = "compareDiff", !.seq = Len(log)]]
  /\ UNCHANGED <<log, link, writes, conn, raised, at, polling, disposed, view, faults>>

AnswerQueue(t) ==
  /\ task[t].pc = "ask" /\ (task[t].kind = "since" => task[t].from < Len(log))
  /\ \E n \in task[t].seq .. Len(log) :
       task' = [task EXCEPT ![t] =
         Applying(@.kind, IF @.kind = "since" THEN "compare" ELSE "index", n, ShownAt(Len(log)))]
  /\ UNCHANGED <<log, link, writes, conn, raised, at, polling, disposed, view, faults>>

(* What a thread does when it is done: seed goes on to connect, a replay or a resync to live. *)
Finish(w) ==
  /\ task' = [task EXCEPT ![w] = None]
  /\ at' = IF task[w].kind = "seed" THEN "seeded" ELSE at
  /\ state' = IF task[w].kind \in {"since", "resync"} THEN "live" ELSE state
  /\ UNCHANGED <<timer, starters>>

(* CatchUpAsync's guard: a replay that a push has gone past is not applied. *)
Compare(t) ==
  /\ task[t].pc \in {"compare", "compareDiff"}
  /\ IF task[t].seq < highest
     THEN Finish(t)
     ELSE Goto(t, IF task[t].pc = "compare" THEN "index" ELSE "patch") /\ UNCHANGED <<at, polling>>
  /\ UNCHANGED <<log, link, writes, conn, raised, disposed, view, faults>>

PatchIndex(t) ==
  /\ task[t].pc = "patch"
  /\ index' = Patch(index, task[t].from, task[t].seq)
  /\ Goto(t, "derive")
  /\ UNCHANGED <<log, link, writes, conn, raised, at, polling, disposed, snapshot, highest, faults>>

DeriveSnapshotFromIndex(t) ==
  /\ task[t].pc = "derive"
  /\ task' = [task EXCEPT ![t] = Applying(@.kind, "index", @.seq, index)]
  /\ UNCHANGED <<log, link, writes, conn, raised, at, polling, disposed, view, faults>>

(* ApplySnapshot: the index under the lock, then the snapshot without it. *)
SetIndex(w) ==
  /\ task[w].pc = "index"
  /\ index' = task[w].copies
  /\ Goto(w, "snapshot")
  /\ UNCHANGED <<log, link, writes, conn, raised, at, polling, disposed, snapshot, highest, faults>>

SetSnapshot(w) ==
  /\ task[w].pc = "snapshot"
  /\ snapshot' = task[w].copies
  /\ IF w = Callback THEN Finish(w) ELSE Goto(w, "raise") /\ UNCHANGED <<at, polling>>
  /\ UNCHANGED <<log, link, writes, conn, raised, disposed, index, highest, faults>>

(* A read's number comes after its queue. *)
UpdateHighestSequenceSeen(t) ==
  /\ task[t].pc = "raise"
  /\ highest' = MaxOf(highest, task[t].seq)
  /\ Finish(t)
  /\ UNCHANGED <<log, link, writes, conn, raised, disposed, index, snapshot, faults>>

(* A message: the baseline is a number; a push raises the number before it is applied. *)
Deliver ==
  /\ inbox # <<>> /\ Idle(Callback)
  /\ LET message == Head(inbox) IN
     /\ highest' = MaxOf(highest, message.seq)
     /\ task' = IF IsBaseline(message) THEN task
                ELSE [task EXCEPT ![Callback] =
                        Applying("push", "index", 0, ShownAt(message.version))]
  /\ inbox' = Tail(inbox)
  /\ UNCHANGED <<log, joined, baseline, floor, writes, conn, raised, at, polling, disposed, index,
                 snapshot, faults>>

-----------------------------------------------------------------------------
(***************************************************************************)
(* The circuit's own writes: the repository first, PublishAsync then.      *)
(***************************************************************************)
Write(e) ==
  /\ ~disposed /\ publishing = 0 /\ Len(log) < MaxLog
  /\ log' = Append(log, e) /\ publishing' = Len(log) + 1
  /\ UNCHANGED <<link, unsent, outbox, conn, raised, at, polling, disposed, view, task, faults>>

Publish ==
  /\ publishing # 0
  /\ highest' = MaxOf(highest, publishing)
  /\ outbox' = IF conn = "connected" THEN outbox \cup {publishing} ELSE outbox
  /\ publishing' = 0
  /\ UNCHANGED <<log, link, unsent, conn, raised, at, polling, disposed, index, snapshot, task, faults>>

-----------------------------------------------------------------------------
(***************************************************************************)
(* The poller: StartPolling checks, then says "polling", then creates the   *)
(* timer, without a lock. A timer overwritten by another is referred to by *)
(* nobody, ticks until it is collected, and is left out.                   *)
(***************************************************************************)
StartPolling(thread) ==
  /\ starters' = IF disposed \/ timer THEN starters ELSE starters \cup {<<thread, "say">>}
  /\ UNCHANGED <<timer, state>>

SayPolling(thread) ==
  /\ <<thread, "say">> \in starters
  /\ starters' = (starters \ {<<thread, "say">>}) \cup {<<thread, "create">>}
  /\ state' = "polling"
  /\ UNCHANGED <<log, link, writes, conn, raised, at, timer, disposed, view, task, faults>>

CreateTimer(thread) ==
  /\ <<thread, "create">> \in starters
  /\ starters' = starters \ {<<thread, "create">>}
  /\ timer' = TRUE
  /\ UNCHANGED <<log, link, writes, conn, raised, at, state, disposed, view, task, faults>>

PollOnce(t) ==
  /\ timer
  /\ Ask(t, "poll")
  /\ UNCHANGED <<log, link, writes, conn, raised, at, polling, disposed, view, faults>>

-----------------------------------------------------------------------------
(***************************************************************************)
(* The connection.                                                         *)
(***************************************************************************)
Start(t) ==
  /\ at = "new" /\ at' = "seeding"
  /\ Ask(t, "seed")
  /\ UNCHANGED <<log, link, writes, conn, raised, polling, disposed, view, faults>>

(* The connection is built and started, ... *)
Connect ==
  /\ at = "seeded" /\ at' = "connecting"
  /\ conn' = "starting"
  /\ UNCHANGED <<log, link, writes, raised, polling, disposed, view, task, faults>>

(* ... once with a time limit, and then once more in the background. *)
ConnectSucceeds ==
  /\ conn = "starting" /\ conn' = "connected"
  /\ at' = IF at = "connecting" THEN "connected" ELSE "adopting"
  /\ UNCHANGED <<log, link, writes, raised, polling, disposed, view, task, faults>>

ConnectFails ==
  /\ conn = "starting" /\ conn' = "none"
  /\ IF at = "connecting"
     THEN at' = "fallback" /\ StartPolling("start")
     ELSE at' = "done" /\ UNCHANGED polling
  /\ UNCHANGED <<log, link, writes, raised, disposed, view, task, faults>>

Retry ==
  /\ at = "fallback" /\ conn = "none" /\ \A stage \in Stages : <<"start", stage>> \notin starters
  /\ at' = "retrying" /\ conn' = "starting"
  /\ UNCHANGED <<log, link, writes, raised, polling, disposed, view, task, faults>>

(***************************************************************************)
(* StartAsync returns: live. In the background, the socket is adopted and  *)
(* the poller stopped; the name of the last step tells apart an adoption   *)
(* after the socket was closed for good and Closed was handled.            *)
(***************************************************************************)
GoLive ==
  /\ at \in {"connected", "adopting"}
  /\ IF at = "adopting" /\ disposed
     THEN at' = "done" /\ UNCHANGED <<timer, state>>
     ELSE /\ at' = IF at = "adopting" /\ conn = "closed" /\ raised["closed"] = 0
                   THEN "adoptedClosed" ELSE "done"
          /\ timer' = (timer /\ at = "connected")
          /\ state' = "live"
  /\ UNCHANGED <<log, link, writes, conn, raised, starters, disposed, view, task, faults>>

(***************************************************************************)
(* The library loses the connection, gets it back or gives it up; each of  *)
(* the three raises an event.                                              *)
(***************************************************************************)
Drop ==
  /\ conn = "connected" /\ drops < MaxDrops
  /\ drops' = drops + 1
  /\ conn' = "reconnecting" /\ Raise("reconnecting")
  /\ LinkLost /\ outbox' = {}
  /\ UNCHANGED <<log, unsent, publishing, at, polling, disposed, view, task, failures>>

Reconnect ==
  /\ conn = "reconnecting"
  /\ conn' = "connected" /\ Raise("reconnected")
  /\ UNCHANGED <<log, link, writes, at, polling, disposed, view, task, faults>>

(* Given up, or closed by DisposeAsync. *)
Close ==
  /\ conn \in {"reconnecting", "closing"}
  /\ conn' = "closed" /\ Raise("closed")
  /\ LinkLost /\ outbox' = {}
  /\ at' = IF conn = "closing" /\ at \in {"connecting", "fallback", "retrying"} THEN "done" ELSE at
  /\ UNCHANGED <<log, unsent, publishing, polling, disposed, view, task, faults>>

(* Closed, too: the hub could not read the baseline. *)
Refuse ==
  /\ conn = "connected" /\ baseline = "due" /\ inbox = <<>> /\ failures < MaxFailures
  /\ failures' = failures + 1
  /\ conn' = "closed" /\ Raise("closed")
  /\ LinkLost /\ outbox' = {}
  /\ UNCHANGED <<log, unsent, publishing, at, polling, disposed, view, task, drops>>

(***************************************************************************)
(* The handlers, each on a thread of its own.                              *)
(***************************************************************************)
HandleReconnecting ==
  /\ Handle("reconnecting")
  /\ state' = "reconnecting"
  /\ UNCHANGED <<log, link, writes, conn, at, timer, starters, disposed, view, task, faults>>

(* The replay is asked for from the highest number seen. *)
HandleReconnected(t) ==
  /\ Handle("reconnected")
  /\ Ask(t, "since")
  /\ UNCHANGED <<log, link, writes, conn, at, polling, disposed, view, faults>>

(* Slip: a connection given up without a fallback. No action uses it. *)
HandleClosedSlip ==
  /\ Handle("closed")
  /\ UNCHANGED <<log, link, writes, conn, at, polling, disposed, view, task, faults>>

HandleClosed ==
  /\ Handle("closed")
  /\ StartPolling("closed")
  /\ UNCHANGED <<log, link, writes, conn, at, disposed, view, task, faults>>

(* Slip: a failed replay left at that. No action uses it. *)
FailSlip(t) ==
  /\ task[t].pc = "ask" /\ failures < MaxFailures
  /\ failures' = failures + 1
  /\ task' = [task EXCEPT ![t] = None]
  /\ at' = IF task[t].kind = "seed" THEN "seeded" ELSE at
  /\ UNCHANGED <<log, link, writes, conn, raised, polling, disposed, view, drops>>

(***************************************************************************)
(* A failed read: the seed is done without, a replay turns to a resync, a  *)
(* resync to polling, a poll waits for the next tick.                      *)
(***************************************************************************)
Fail(t) ==
  /\ task[t].pc = "ask" /\ failures < MaxFailures
  /\ failures' = failures + 1
  /\ task' = [task EXCEPT ![t] = IF @.kind = "since" THEN Asking("resync", 0) ELSE None]
  /\ at' = IF task[t].kind = "seed" THEN "seeded" ELSE at
  /\ IF task[t].kind = "resync" THEN StartPolling("resync") ELSE UNCHANGED polling
  /\ UNCHANGED <<log, link, writes, conn, raised, disposed, view, drops>>

(***************************************************************************)
(* DisposeAsync, at any time. A connection not yet built is not there to   *)
(* dispose of: StartAsync goes on to build it.                             *)
(***************************************************************************)
Dispose ==
  /\ ~disposed
  /\ disposed' = TRUE /\ timer' = FALSE
  /\ conn' = IF at \in {"new", "seeding", "seeded"} \/ conn = "closed" THEN conn ELSE "closing"
  /\ UNCHANGED <<log, link, writes, raised, at, starters, state, view, task, faults>>

Hub == Serve \/ \E n \in unsent \cup outbox : NotifyMutation(n)

Thread(w) ==
  \/ SetIndex(w) \/ SetSnapshot(w)
  \/ w \in Tasks /\ (AnswerDiff(w) \/ AnswerQueue(w) \/ Compare(w) \/ PatchIndex(w)
                     \/ DeriveSnapshotFromIndex(w) \/ UpdateHighestSequenceSeen(w))

Starting ==
  \/ Connect \/ ConnectSucceeds \/ ConnectFails \/ Retry \/ GoLive
  \/ \E t \in Tasks : Start(t)

Environment ==
  \/ \E e \in Entries : Change(e) \/ Write(e)
  \/ Drop \/ Refuse \/ Dispose
  \/ \E t \in Tasks : Fail(t)

Next ==
  \/ Hub \/ Starting \/ Environment
  \/ Deliver \/ Publish \/ Reconnect \/ Close
  \/ HandleReconnecting \/ HandleClosed
  \/ \E thread \in Starters : SayPolling(thread) \/ CreateTimer(thread)
  \/ \E w \in Workers : Thread(w)
  \/ \E t \in Tasks : HandleReconnected(t) \/ PollOnce(t)

Spec == Init /\ [][Next]_vars

(***************************************************************************)
(* The hub and the repository answer, threads and handlers run, a          *)
(* connection attempt ends one way or the other, a lost connection comes   *)
(* back or is given up, the timer ticks. Nobody has to write, fail, drop   *)
(* or dispose.                                                             *)
(***************************************************************************)
Fairness ==
  /\ WF_vars(Serve \/ \E n \in outbox : NotifyMutation(n))
  /\ WF_vars(Starting) /\ WF_vars(Publish) /\ WF_vars(Deliver)
  /\ WF_vars(Reconnect \/ Close)
  /\ WF_vars(HandleReconnecting) /\ WF_vars(HandleClosed)
  /\ WF_vars(\E t \in Tasks : HandleReconnected(t))
  /\ WF_vars(\E thread \in Starters : SayPolling(thread) \/ CreateTimer(thread))
  /\ \A w \in Workers : WF_vars(Thread(w))
  /\ WF_vars(\E t \in Tasks : PollOnce(t))

FairSpec == Spec /\ Fairness
-----------------------------------------------------------------------------
(***************************************************************************)
(* Properties.                                                             *)
(***************************************************************************)
(* Type invariant; no number is ahead of the change log. *)
TypeOK ==
  /\ log \in Seq(Entries) /\ unsent \subseteq DOMAIN log /\ outbox \subseteq DOMAIN log
  /\ publishing \in 0 .. Len(log)
  /\ LinkTypeOK /\ (inbox # <<>> => conn \in {"connected", "closing"})
  /\ conn \in {"none", "starting", "connected", "reconnecting", "closing", "closed"}
  /\ at \in {"new", "seeding", "seeded", "connecting", "fallback", "retrying", "connected",
            "adopting", "adoptedClosed", "done"}
  /\ state \in {"connecting", "live", "reconnecting", "polling"}
  /\ timer \in BOOLEAN /\ disposed \in BOOLEAN
  /\ starters \subseteq Starters \X Stages /\ raised \in [Events -> Nat]
  /\ index \in [Entries -> 0 .. Len(log)] /\ snapshot \in [Entries -> 0 .. Len(log)]
  /\ highest \in 0 .. Len(log)
  /\ \A w \in Workers : Idle(w) \/ task[w].kind \in {"seed", "since", "resync", "poll", "push"}
  /\ drops \in 0 .. MaxDrops /\ failures \in 0 .. MaxFailures

(* The circuit polls, is about to, or has yet to hear of its connection's end. *)
HasPoller == timer \/ starters # {} \/ raised["closed"] > 0

(***************************************************************************)
(* A circuit that has given up its connection polls, or is about to,       *)
(* whichever of timeout, failure, refusal, close, adoption and their       *)
(* handlers comes last; unless its background retry took up a socket that  *)
(* Closed had been handled for, and stopped the poller (GoLive).           *)
(***************************************************************************)
NeverBlind == conn = "closed" => HasPoller \/ disposed \/ at = "adoptedClosed"

(***************************************************************************)
(* A circuit that polls for good ends up with the queue as it is, on the   *)
(* page and in the index that the next replay patches, however its own     *)
(* writes, others' changes, late pushes and overlapping polls cross.       *)
(***************************************************************************)
PollingConverges ==
  <>[]timer => <>[](snapshot = ShownAt(Len(log)) /\ index = snapshot)

(***************************************************************************)
(* A lost connection of which the page has been told leads somewhere:      *)
(* replay, resync or poller, whichever of them fails, and whatever else    *)
(* drops meanwhile (QueueRealtimeService.cs:254-278).                      *)
(***************************************************************************)
ReconnectEnds ==
  conn = "reconnecting" /\ state = "reconnecting"
    ~> state \in {"live", "polling"} \/ timer \/ disposed

(* The page shows change n or later ones. *)
Shows(n) == n <= Len(log) /\ \A e \in Entries : snapshot[e] >= ShownAt(n)[e]

(***************************************************************************)
(* A write of this circuit, published over a connection that holds, comes  *)
(* back as a push and is shown: there is "no local-apply special case"     *)
(* (QueueRealtimeService.cs:44).                                           *)
(***************************************************************************)
OwnWriteShown ==
  \A n \in 1 .. MaxLog :
    n \in outbox ~> Shows(n) \/ drops > 0 \/ failures > 0 \/ disposed

(* Live, and nothing under way. *)
Settled ==
  /\ conn = "connected" /\ state = "live" /\ baseline = "sent"
  /\ \A event \in Events : raised[event] = 0
  /\ inbox = <<>> /\ unsent = {} /\ outbox = {} /\ publishing = 0
  /\ \A w \in Workers : Idle(w)

(***************************************************************************)
(* A circuit shows its own writes also when it made them without a         *)
(* connection: its "own view is already correct", and the reconnect's      *)
(* replay brings "whatever was missed" (QueueRealtimeService.cs:162, 256). *)
(* For a circuit that alone writes.                                        *)
(***************************************************************************)
OwnViewCorrect == Settled /\ drops > 0 => Shows(Len(log))
=============================================================================
