------------------------------- MODULE Kiosk -------------------------------
(***************************************************************************)
(* The public-checkin app: the shell (app.ts), the check-in form, the      *)
(* cards of the visits the device tracks (position-view.ts) with their     *)
(* uploads (document-upload.ts), and the token-gated calls they make       *)
(* (kiosk-check-in.service.ts).                                            *)
(*                                                                         *)
(* A handler runs to its next await; components come and go at the next    *)
(* pass of change detection, which also runs the cards' effects. Visits    *)
(* are numbered in the order they are submitted.                           *)
(*                                                                         *)
(* The server is the log of what happened to their rows, on either store:  *)
(* SQLite checks a visit in in one transaction and writes what was decided *)
(* earlier by key alone; Table Storage stamps the entry before its row is  *)
(* in, and holds on to the ETag of the row it decided on. Its counters,    *)
(* retries and restarts, and with them the position it answers with, are   *)
(* TableQueue's matter. The hub service's snapshot is the queue as of one  *)
(* of the changes, now and then an earlier one than before.                *)
(***************************************************************************)
EXTENDS QueueDomain, Sequences

CONSTANTS
  Providers,           \* the stores the server may have
  MaxVisits,           \* bounds the check-ins submitted, ...
  MaxChanges,          \* ... the changes when staff act,
  MaxCalls,            \* ... the calls under way at once,
  MaxLosses,           \* ... and the calls that fail
  AUTO_RESET_SECONDS

ASSUME KioskAssumption ==
  /\ Providers \subseteq {"Sqlite", "TableStorage"}
  /\ MaxVisits \in Nat /\ MaxChanges \in Nat /\ MaxCalls \in Nat /\ MaxLosses \in Nat
  /\ AUTO_RESET_SECONDS \in Nat \ {0}

Visits == 1 .. MaxVisits

VARIABLES
  provider,           \* the server's store, ...
  log,                \* ... its changes, ...
  stamped,            \* ... and, on Table Storage, the visits in the order of their time stamps
  shown,              \* the change the snapshot is as of
  checkIns,           \* the visits tracked
  addingAnother,
  screen,             \* "form", "sending" (a form that submits) or "tracker"
  cards,              \* the visits whose card is mounted
  completionHandled,  \* of these, the ones that have seen their completion
  resetHandle,        \* ... and the ones that hold a timer
  intervals,          \* the timers running for a visit
  secondsUntilReset,
  uploading,          \* the cards whose upload is under way
  calls,              \* check-ins and cancels under way
  visits,             \* check-ins submitted
  losses,
  excused             \* for the properties: visits the device has let go of

shell == <<checkIns, addingAnother>>
timers == <<resetHandle, intervals, secondsUntilReset>>
mounted == <<screen, cards, completionHandled, timers, uploading>>
server == <<provider, log, stamped>>
world == <<server, shown>>
kioskVars == <<world, shell, mounted, calls, visits, losses, excused>>

(* How far the server is; form: the form that made it is there and waits for it. *)
Stages == {"sent", "stamped", "answered", "decided"}
Calls == [kind : {"checkIn", "cancel"}, visit : Visits, stage : Stages, form : BOOLEAN]

KioskInit ==
  /\ provider \in Providers /\ log = <<>> /\ stamped = <<>> /\ shown = 0
  /\ checkIns = {} /\ addingAnother = FALSE
  /\ screen = "form" /\ cards = {} /\ completionHandled = {} /\ resetHandle = {}
  /\ intervals = [v \in Visits |-> 0]
  /\ secondsUntilReset = [v \in Visits |-> AUTO_RESET_SECONDS]
  /\ uploading = {} /\ calls = {} /\ visits = 0 /\ losses = 0 /\ excused = {}

-----------------------------------------------------------------------------
(***************************************************************************)
(* What a card reads from the snapshot.                                    *)
(***************************************************************************)
CheckedInAt(v) == CHOOSE k \in DOMAIN log : log[k].entry = v /\ log[k].status = "Waiting"

StatusAt(n, v) ==
  LET about == EventsAbout(log, v, n)
  IN  IF about = {} THEN Absent
      ELSE log[CHOOSE k \in about : \A j \in about : j <= k].status

Status(v) == StatusAt(shown, v)

(* checkedInAt: set in SQLite's transaction, on Table Storage before the row is in. *)
Before(w, v) ==
  IF provider = "Sqlite" THEN CheckedInAt(w) <= CheckedInAt(v)
  ELSE \E j \in DOMAIN stamped : \E i \in 1 .. j : stamped[i] = w /\ stamped[j] = v

(* Slip: everyone ahead counted until they leave. No action uses it. *)
PlaceSlip(n, v) ==
  Cardinality({w \in Visits : StatusAt(n, w) \in {"Waiting", "Serving"} /\ Before(w, v)})

Place(n, v) == Cardinality({w \in Visits : StatusAt(n, w) = "Waiting" /\ Before(w, v)})

(***************************************************************************)
(* position, as SQLite answers the check-in, until the snapshot has the    *)
(* entry. (Table Storage answers with a counter, DistinctPositions of      *)
(* TableQueue; what is said of positions here is of SQLite.)               *)
(***************************************************************************)
SeedPosition(v) ==
  Cardinality({w \in Visits : StatusAt(CheckedInAt(v), w) = "Waiting"})
Position(v) == IF Status(v) = Absent THEN SeedPosition(v) ELSE Place(shown, v)

-----------------------------------------------------------------------------
(***************************************************************************)
(* The server, and the hub service's snapshot.                             *)
(***************************************************************************)
(* An entry that has left the queue is back in it. *)
Returns(op, v) == Target(op) = "Serving" /\ StatusAt(Len(log), v) \notin {"Waiting", "Serving"}

Records(op, v) ==
  log' = Append(log, [entry |-> v, status |-> Target(op)]) /\ UNCHANGED <<provider, stamped>>

(* Decided as of change n: of the row as it still is, if the store sees to it. *)
Decides(op, v, n) ==
  /\ Accepts(op, StatusAt(n, v))
  /\ op = "callNext" => Place(n, v) = 1
  /\ provider = "TableStorage" => EventsAbout(log, v, Len(log)) = EventsAbout(log, v, n)

Served(op, v) ==
  /\ Len(log) < MaxChanges
  /\ \E n \in 0 .. Len(log) : Decides(op, v, n)
  /\ Records(op, v)
  /\ excused' = IF Returns(op, v) THEN excused \cup {v} ELSE excused
  /\ UNCHANGED <<shown, shell, mounted, calls, visits, losses>>

HubShows(n) ==
  /\ n <= Len(log) /\ shown' = n
  /\ UNCHANGED <<server, shell, mounted, calls, visits, losses, excused>>

-----------------------------------------------------------------------------
(***************************************************************************)
(* A pass: form or cards, and autoResetOnCompletion of the cards.          *)
(***************************************************************************)
ShowForm == checkIns = {} \/ addingAnother
Mounted == IF ShowForm THEN {} ELSE checkIns
Submitting == \E c \in calls : c.form

(* Slip: a timer cleared that is not set. No action uses it. *)
ClearAutoResetSlip(vs) == [v \in Visits |-> IF v \in vs THEN intervals[v] - 1 ELSE intervals[v]]

ClearAutoReset(vs) ==
  [v \in Visits |-> IF v \in vs \cap resetHandle THEN intervals[v] - 1 ELSE intervals[v]]

(* Slip: timers left to run. No action uses it. *)
ngOnDestroySlip(vs) == intervals

ngOnDestroy(vs) == ClearAutoReset(vs)

(* Slip: the guard outlives its card. No action uses it. *)
StillHandledSlip(vs) == completionHandled

StillHandled(vs) == completionHandled \cap vs

(* autoResetOnCompletion: the cards that see their completion, once each. *)
Completed == {v \in Mounted : Status(v) = "Completed"}
Starting == Completed \ StillHandled(Mounted)

Repaint ==
  /\ calls' = {[c EXCEPT !.form = c.form /\ ShowForm] : c \in calls}
  /\ screen' = IF ~ShowForm THEN "tracker" ELSE IF Submitting THEN "sending" ELSE "form"
  /\ cards' = Mounted
  /\ uploading' = (uploading \cap Mounted) \ Completed
  /\ completionHandled' = StillHandled(Mounted) \cup Starting
  /\ resetHandle' = (resetHandle \cap Mounted) \cup Starting
  /\ intervals' = LET left == ngOnDestroy(cards \ Mounted)
                  IN  [v \in Visits |-> IF v \in Starting THEN left[v] + 1 ELSE left[v]]
  /\ secondsUntilReset' = [v \in Visits |-> IF v \in Mounted \ Starting
                                             THEN secondsUntilReset[v] ELSE AUTO_RESET_SECONDS]
  /\ UNCHANGED <<world, shell, visits, losses, excused>>

-----------------------------------------------------------------------------
(***************************************************************************)
(* The visitor.                                                            *)
(***************************************************************************)
NewCall(kind, v) == [kind |-> kind, visit |-> v, stage |-> "sent", form |-> kind = "checkIn"]

(* CheckInForm.submit, of fields that are filled in. *)
Submit ==
  /\ screen = "form" /\ Cardinality(calls) < MaxCalls /\ visits < MaxVisits
  /\ ~Submitting
  /\ visits' = visits + 1 /\ calls' = calls \cup {NewCall("checkIn", visits + 1)}
  /\ UNCHANGED <<world, shell, mounted, losses, excused>>

CheckAnother ==
  /\ screen = "tracker" /\ addingAnother' = TRUE
  /\ UNCHANGED <<world, checkIns, mounted, calls, visits, losses, excused>>

CancelAdding ==
  /\ screen # "tracker" /\ checkIns # {} /\ addingAnother' = FALSE
  /\ UNCHANGED <<world, checkIns, mounted, calls, visits, losses, excused>>

(* onFileSelected, of a file that validateFile accepts, and its end. *)
Upload(v) ==
  /\ v \in cards /\ Status(v) # "Completed" /\ v \notin uploading
  /\ uploading' = uploading \cup {v}
  /\ UNCHANGED <<world, shell, screen, cards, completionHandled, timers, calls, visits, losses, excused>>

UploadEnds(v) ==
  /\ v \in uploading /\ uploading' = uploading \ {v}
  /\ UNCHANGED <<world, shell, screen, cards, completionHandled, timers, calls, visits, losses, excused>>

OnRemove(v) == checkIns' = checkIns \ {v} /\ UNCHANGED addingAnother

(* "Stop tracking": the cancel is sent for an entry the snapshot shows in the queue. *)
StartOver(v) ==
  /\ v \in cards /\ Cardinality(calls) < MaxCalls
  /\ intervals' = ClearAutoReset({v}) /\ resetHandle' = resetHandle \ {v}
  /\ OnRemove(v)
  /\ IF Accepts("cancel", Status(v))
     THEN calls' = calls \cup {NewCall("cancel", v)} /\ UNCHANGED excused
     ELSE excused' = excused \cup {v} /\ UNCHANGED calls
  /\ UNCHANGED <<world, screen, cards, completionHandled, secondsUntilReset, uploading, visits, losses>>

(* A second of the countdown. *)
Tick(v) ==
  /\ intervals[v] > 0
  /\ secondsUntilReset' = [secondsUntilReset EXCEPT ![v] = @ - 1]
  /\ IF secondsUntilReset[v] <= 1
     THEN intervals' = ClearAutoReset({v}) /\ resetHandle' = resetHandle \ {v} /\ OnRemove(v)
     ELSE UNCHANGED <<intervals, resetHandle, shell>>
  /\ UNCHANGED <<world, screen, cards, completionHandled, uploading, calls, visits, losses, excused>>

-----------------------------------------------------------------------------
(***************************************************************************)
(* The calls. A token is fetched before each: until the call proper is     *)
(* served nothing has changed anywhere.                                    *)
(***************************************************************************)
Moved(c, stage) == (calls \ {c}) \cup {[c EXCEPT !.stage = stage]}

(* Table Storage stamps the entry before it adds the row. *)
TakeStamp(c) ==
  /\ provider = "TableStorage" /\ c.kind = "checkIn" /\ c.stage = "sent"
  /\ calls' = Moved(c, "stamped") /\ stamped' = Append(stamped, c.visit)
  /\ UNCHANGED <<provider, log, shown, shell, mounted, visits, losses, excused>>

(* The row is in: whatever is left to do, a call that fails now leaves the entry behind. *)
ServeCheckIn(c) ==
  /\ c.kind = "checkIn" /\ calls' = Moved(c, "answered")
  /\ \/ provider = "Sqlite" /\ c.stage = "sent"
     \/ c.stage = "stamped"
  /\ log' = Append(log, [entry |-> c.visit, status |-> Target("checkIn")])
  /\ UNCHANGED <<provider, stamped, shown, shell, mounted, visits, losses, excused>>

(* A late cancel is refused; either answer is ignored. *)
RefuseCancel(c) ==
  /\ c.kind = "cancel" /\ c.stage = "sent" /\ calls' = calls \ {c}
  /\ ~Accepts("cancel", StatusAt(Len(log), c.visit))
  /\ UNCHANGED <<world, shell, mounted, visits, losses, excused>>

(* SQLite reads before it writes. *)
DecideCancel(c) ==
  /\ provider = "Sqlite" /\ c.kind = "cancel" /\ c.stage = "sent" /\ calls' = Moved(c, "decided")
  /\ Accepts("cancel", StatusAt(Len(log), c.visit))
  /\ UNCHANGED <<world, shell, mounted, visits, losses, excused>>

ServeCancel(c) ==
  /\ c.kind = "cancel" /\ calls' = calls \ {c}
  /\ \/ c.stage = "decided"
     \/ /\ provider = "TableStorage" /\ c.stage = "sent"
        /\ Accepts("cancel", StatusAt(Len(log), c.visit))
  /\ Records("cancel", c.visit)
  /\ UNCHANGED <<shown, shell, mounted, visits, losses, excused>>

(* Slip: the shell of one visitor at a time. No action uses it. *)
OnCheckedInSlip(v) == checkIns' = {v} /\ addingAnother' = FALSE

OnCheckedIn(v) == checkIns' = checkIns \cup {v} /\ addingAnother' = FALSE

(* The answer to a form that is no longer there, or has given up, reaches nobody. *)
CheckedIn(c) ==
  /\ c.stage = "answered" /\ calls' = calls \ {c}
  /\ IF c.form THEN OnCheckedIn(c.visit) /\ UNCHANGED excused
     ELSE excused' = excused \cup {c.visit} /\ UNCHANGED shell
  /\ UNCHANGED <<world, mounted, visits, losses>>

(* The form shows a message, and the server may go on; a failed cancel is swallowed. *)
CallFails(c) ==
  /\ losses < MaxLosses /\ losses' = losses + 1
  /\ \/ /\ calls' = calls \ {c}
        /\ excused' = IF c.kind = "cancel" \/ c.stage = "answered"
                      THEN excused \cup {c.visit} ELSE excused
     \/ /\ c.form /\ calls' = (calls \ {c}) \cup {[c EXCEPT !.form = FALSE]}
        /\ UNCHANGED excused
  /\ UNCHANGED <<world, shell, mounted, visits>>

(* The server's part in a call. *)
Serves(c) ==
  \/ TakeStamp(c) \/ ServeCheckIn(c)
  \/ RefuseCancel(c) \/ DecideCancel(c) \/ ServeCancel(c)

KioskNext ==
  \/ \E v \in Visits, op \in {"callNext", "complete"} : Served(op, v)
  \/ \E n \in 0 .. Len(log) : HubShows(n)
  \/ Repaint \/ Submit \/ CheckAnother \/ CancelAdding
  \/ \E v \in Visits : Upload(v) \/ UploadEnds(v) \/ StartOver(v) \/ Tick(v)
  \/ \E c \in calls : Serves(c) \/ CheckedIn(c) \/ CallFails(c)

KioskSpec == KioskInit /\ [][KioskNext]_kioskVars

-----------------------------------------------------------------------------
(***************************************************************************)
(* Properties.                                                             *)
(***************************************************************************)
(* Type invariant. *)
KioskTypeOK ==
  /\ provider \in Providers
  /\ log \in Seq(Event(Visits)) /\ shown \in 0 .. Len(log) /\ stamped \in Seq(Visits)
  /\ checkIns \subseteq Visits /\ addingAnother \in BOOLEAN
  /\ screen \in {"form", "sending", "tracker"} /\ cards \subseteq Visits
  /\ completionHandled \subseteq Visits /\ resetHandle \subseteq Visits
  /\ intervals \in [Visits -> Nat] /\ secondsUntilReset \in [Visits -> Nat]
  /\ uploading \subseteq cards /\ calls \subseteq Calls /\ visits \in 0 .. MaxVisits
  /\ losses \in 0 .. MaxLosses /\ excused \subseteq Visits

(***************************************************************************)
(* A countdown runs once, for a card that is there and can stop it: not    *)
(* for one that has made way for the form (position-view.ts:93-115), where *)
(* its last second would drop a visit behind the visitor's back.           *)
(***************************************************************************)
TimersHaveCards ==
  \A v \in Visits :
    /\ intervals[v] = (IF v \in resetHandle THEN 1 ELSE 0)
    /\ v \in resetHandle => v \in cards

(***************************************************************************)
(* An entry in the queue that this device has put there is tracked by it,  *)
(* "rather than replacing this one, so a visitor never loses sight of      *)
(* their own place" (position-view.ts:24-25), unless the answer was lost   *)
(* or came to a form that was gone, the cancel was lost, the visitor       *)
(* stopped before the snapshot had the entry, or SQLite brought the entry  *)
(* back that had left. A countdown never drops another.                    *)
(***************************************************************************)
TrackedUnlessExcused ==
  \A v \in Visits : StatusAt(Len(log), v) \in {"Waiting", "Serving"} =>
    v \in checkIns \cup excused \/ \E c \in calls : c.visit = v

(***************************************************************************)
(* With SQLite on the server, and as long as snapshots do not go back, the *)
(* number on a card never grows, from the position in the check-in's       *)
(* answer (position-view.ts:31-33) to the last place before the visitor is *)
(* called (74-92). On Table Storage it may: its first number is a counter, *)
(* and a row can be added late with an early stamp.                        *)
(***************************************************************************)
PlaceOnlyImproves ==
  [][provider = "Sqlite" =>
       \A v \in cards \cap cards' :
         /\ shown' >= shown /\ Status(v)' \in {Absent, "Waiting"}
         => Position(v)' <= Position(v)]_kioskVars

(***************************************************************************)
(* A card whose completion stays on show leaves the screen, also when it   *)
(* comes back from behind the form in the middle of its countdown          *)
(* (position-view.ts:101-106, 139-149): a shared device is ready for the   *)
(* next visitor.                                                           *)
(***************************************************************************)
CompletedLeaves ==
  \A v \in Visits : []<>(v \notin cards \/ Status(v) # "Completed")
=============================================================================
