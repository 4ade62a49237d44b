# The walk-in queue, specified

TLA+ models, TLC runs and TLAPS proofs for the SignalR walk-in queue demo. Paths below are relative to `src/`;
`Shared` stands for `SignalRQueueDemo.Shared`, `ApiService` for `SignalRQueueDemo.ApiService`, and so on.

- [The system](#the-system)
- [The modules](#the-modules)
- [The runs](#the-runs)
- [Bounds](#bounds)
- [Fairness](#fairness)
- [The proofs](#the-proofs)
- [Where code and documents disagree](#where-code-and-documents-disagree)
- [Not modelled](#not-modelled)
- [Plan](#plan)

## The system

A visitor checks in at a kiosk, may attach documents, is called, and is completed or cancels. Two hosts share
`Shared` and keep separate data: `ApiService` (REST and a SignalR hub, for three Angular apps) and `Web` (Blazor
Server, which calls the repositories in process and hosts a hub of its own). Each host keeps its queue in SQLite or
in Azure Table Storage (`Persistence:Provider`); document contents always live in blob storage.

Every mutation appends an event with the next sequence number to a change log, and is then broadcast. A client
follows the log: it remembers the highest number it has seen, applies pushes, asks for what it missed after a
reconnect, and polls when the socket is given up.

| component | state it keeps | operations | what is hard | what makes it correct |
|---|---|---|---|---|
| Table Storage repository and seeding (`Shared/Persistence/TableStorage`) | entry rows, event rows, two counter rows, each row with an ETag; no transactions | check in, call next, complete, cancel, record a document change, state, changes since; seed and reconcile at every start | every await is a call to the store: requests interleave there, retry on 409 and 412, give up, hang up, or die with the host | nobody served twice; log without gap; hint behind the log; count off only by what is owed; snapshots cover their number |
| SQLite repository and seeding (`Shared/Persistence/Sqlite`) | entry rows, event rows | the same | decisions are read outside the transaction that acts on them | rows and answers follow the log's transitions; positions are ranks |
| Documents (`Shared/Documents`, `Shared/Persistence/Blob`, document repositories, `DocumentEndpoints`) | metadata rows in the queue's store, blobs in a container per entry | upload, list, download; cleanup after complete and cancel | two stores and no transaction over them; anything can fail between two awaits | what is listed until the visitor leaves can be opened; who leaves leaves nothing behind |
| Hub, broadcaster, REST reads (`Shared/Realtime`, `QueueEndpoints`) | the set of connections (SignalR's) | broadcast, baseline on connect, state and changes since | broadcasts out of order, lost, or racing a connection's admission | the number a client is told is one it can catch up from |
| `QueueHubService` (`Angular/projects/shared`) | snapshot and index, highest number, last push, connection state, timer, disposed | start, stop; handlers of connect, push, baseline, drop, reconnect, close, poll | connection timeout against late answer; replay against push; handlers after teardown | no push undone; never blind; no timer after stop; nothing missed across a disconnect |
| `QueueRealtimeService` (`Web`) | as above, on several threads | as above, and `PublishAsync` to `NotifyMutation` | threads with a partial lock; the connection's handlers in any order; a background connect retry; its own writes known by number before they are shown | never blind; a lost connection leads somewhere; converges while polling; own writes shown |
| kiosk (`Angular/projects/public-checkin`) | the visits tracked, whether another is being added; per card the countdown, its timer and the guard against a second start | check in, check another, cancel adding, upload, stop tracking, a second of the countdown | components come and go under requests and timers; answers lost; a snapshot that is behind | who is in the queue is tracked; a countdown has its card; a place only improves; the done leave the screen |
| staff console and viewer (`Angular/projects/internal-queue`) | session key, entry selected, verification or action under way; documents, document selected, content, object URL | sign in, call next, complete, select an entry, a document | overlapping loads; effects that feed effects; a key replaced meanwhile | no URL leaked or revoked too early; what is shown is what is selected; a refused key ends at the sign-in screen |
| runtime configuration of the Angular apps | the config read | load, get | a load that fails | no app without it |
| display (Angular), Blazor pages | none of their own to speak of | render the snapshot | | |
| access checks (staff key, tokens, Blazor staff session) | none, or a session flag | check | clocks | gate the operations above |

Interactions: endpoints call a repository (through the completion and cancellation services where documents must be
cleaned up), then the broadcaster; the hub calls the repository for a baseline; clients call the endpoints and
receive from the hub. Repositories share nothing but their store, so requests meet there only. A document upload
meets the queue through `RecordDocumentChangeAsync`, and a cleanup through the repository's answer. In a tab, the
app's components read the hub service's snapshot as a signal, so they change when it does, at the next pass of change
detection; their own calls go through `QueueApiService`, beside the hub.

The hazards these give rise to, each at its line, are listed in `PROJECT.json`.

## The modules

| module | models | extends or instantiates |
|---|---|---|
| `QueueDomain` | statuses, legal transitions, change events, replay of a log | |
| `QueueLog` | abstract: what both repositories promise a reader of the log | |
| `TableQueue` | the Table Storage repository, store call by store call, and the host's start | `QueueDomain`, implements `QueueLog` |
| `TableQueueInv` | its inductive invariant | `TableQueue` |
| `TableQueueProofs` | theorems: the log, the refinement, the lag of the hint | `TableQueueInv` |
| `TableQueueRowProofs` | theorems: the rows, the waiting count, positions | `TableQueueProofs` |
| `SqliteQueue` | the SQLite repository, statement by statement | `QueueDomain`, implements `QueueLog` |
| `SqliteQueueProofs` | its theorems | `SqliteQueue` |
| `Documents` | one entry's rows and blobs, uploads, downloads, cleanups, on either store | `QueueDomain` |
| `DocumentsProofs` | its theorems | `Documents` |
| `HubServer` | a host as a client sees it: the log, and the connection to the hub | |
| `HubServerProofs` | lemmas for both clients: queues as of a change, messages of a connection | `HubServer` |
| `HubClient` | one tab's `QueueHubService`, broadcasts and the REST reads it follows | `HubServer` |
| `HubClientProofs` | its theorems | `HubClient`, `HubServerProofs` |
| `RealtimeService` | one Blazor circuit's `QueueRealtimeService` and `NotifyMutation` | `HubServer` |
| `RealtimeServiceProofs` | its theorems | `RealtimeService`, `HubServerProofs` |
| `DocumentViewer` | the console's viewer: its effects, its requests, its object URL | |
| `StaffConsole` | the internal-queue app around it: session, sign-in, shell, console | `DocumentViewer` |
| `Kiosk` | the public-checkin app: shell, form, cards, uploads, calls | `QueueDomain` |
| `AngularTab` | a browser tab with either app, started with its configuration | `StaffConsole`, `Kiosk` |
| `AngularTabProofs` | theorems of viewer and console, of the kiosk, and of a tab with either | `AngularTab` |
| `MC...` | TLC instances: model values and symmetry | the module named |

**`TableQueue`.** A variable per table and counter row (`entry`, `log`, `hint`, `waiting`, entries and counters
with their ETag as `tag`) and, for each request, the await it is at (`pc`) with the locals that survive it. An
update under an ETag succeeds if the tag is still the row's; an insert of an event if its number is free. `Retry` is
every retry loop of the file. `HangUp` ends a request at any await (the cancellation token), `Crash` takes down the
host and every request with it, and `Start`, `SeedEntry`, `SeedEvent`, `Reconcile` are
`EnsureTablesAndSeedAsync`, write by write. An entry is named by its check-in time stamp.

**`SqliteQueue`.** A transaction is one step: SQLite has one writer, the provider's transactions take its lock at
their begin, and `busy_timeout` makes the others wait for it. What a request reads before that (the oldest waiting row,
the row to complete, the row whose documents changed) is a step of its own, and the commit writes by the key alone, as
`QueueEntryEntity` has no concurrency token. A document change writes no column, but logs and answers with the copy it
read. `HangUp` is a request that ends without a commit: abandoned, or timed out on the lock.

**`Documents`.** One entry is enough: rows, count and container are all kept per entry. Each await of
`UploadAsync`, of the cleanups and of the download is a step. Of call-next, complete and cancel the read that decides is a
step and the commit another: SQLite then overwrites whatever the row has become, Table Storage decides again.
`provider` is chosen once; SQLite deletes an entry's rows in one statement, Table Storage one by one from a list
read before. `departed` and `meta` are history, for the properties: whether the visitor has ever left the queue, and
whether a row was recorded after that. `told` is the document count of the update with the highest number.

**`HubServer`.** The log is what `QueueLog` promises, reduced to the entry each change is about. A copy of an entry is
known by the number of the change that wrote it, and a queue as of change `n` is `ShownAt(n)`. A connection is admitted,
told a baseline that is read and then sent, and pushed to; a push carries its change's number and a queue read under it or
later. Of SignalR only what the clients rely on is assumed: order within a connection, loss on a drop, a handshake
answered before the connection is in the broadcast set, and a connection whose `OnConnectedAsync` throws closed for
good. These external steps (`Join`, `LinkLost`, that `Refuse` closes) are the only ones not translated from the repository.

**`HubClient`.** A handler runs to its next await without interruption, so each such stretch is one step. Changes are
broadcast once, in any order. A connection that never came up is not retried.

**`RealtimeService`.** The handlers run on threads: the connection's messages one at a time; the handlers of
`Reconnecting`, `Reconnected` and `Closed`, which the client library hands to the thread pool without waiting for them,
at any time after their event and in any order (`raised` counts those that have yet to run); the timer's ticks, which do
not wait for each other; and the renderer. `task` holds the place and locals of each thread that applies an answer,
which is a step for the guard, for the index under the lock, for `Snapshot` without it, and for the number
under it again. `StartPolling` tests, `SayPolling` sets the state and `CreateTimer` the timer, as no lock holds them
together. `NotifyMutation` finds the
change it is asked about or fails; answered with a snapshot it passes nothing on, which is counted as a failure.
Whether a replay gets a diff or a queue is left open. `LastUpdate`, which nothing here reads, and a timer that another
has overwritten are left out.

**`DocumentViewer`, `StaffConsole`, `Kiosk`.** A handler runs to its next await in one step and writes signals; what
depends on them (which component exists, effects, which buttons are enabled) changes in a step of its own, the pass of
change detection (`Render`, `Repaint`). A click is possible on what the last pass has shown, which is how a second
click comes too late or too early.

In the viewer, `due` holds the effects a write has made due; a pass runs them in the order of their declaration,
each seeing what the one before it wrote (`DocAfter`, `BlobAfter`, `UrlAfter`). `loads` are the requests under way,
each numbered, so a content is known by the request that brought it, and `live` is what `createObjectURL` has
created and `revokeObjectURL` has not released. A document is an entry with a number. In the console, keys are
numbered in the order the server accepts them, a request carries the key it was made with, and is sent, served (the key
checked) and answered in steps of their own.

In the kiosk, visits are numbered as they are submitted. `log` is what happened to them at the server, one change per
step, on the store chosen as `provider`. On SQLite a check-in is one step, and a call, completion or cancel may have
been decided on any earlier state of the row. On Table Storage an entry is stamped (`TakeStamp`) before its row is in,
and a decision stands only if the row is as it was read; its counters, retries and restarts are `TableQueue`'s matter, and
so is the position a check-in is answered with there: `SeedPosition` is SQLite's rank, and what is said of positions is
said of SQLite. `shown` is the change the hub service's snapshot is as of. It may skip changes and go back, as `HubClient`
has it; a snapshot patched from another one is not of any single change, and is left to `HubClient`. `intervals` counts
the timers running for a visit, whether or not the card that set them still exists, and `resetHandle` is what the card
knows of. A form's fields are filled in and a file passes `validateFile`: what is refused there changes nothing but a
message. A call is one request: the token fetched before it changes nothing, and a token refused is a call that fails.
`excused` remembers, for the properties, visits that the device has lost sight of in one of the five ways the property
names.

**`AngularTab`.** Either app, after `config.json`; the one not opened stays as it was.

Every module also has *slips*: actions that get one thing wrong the way an edit could. No next-state relation uses
one; put in place of the action they imitate, each makes TLC report the property it is there for.

## The runs

| run | question | checks |
|---|---|---|
| `TQ_faults` | What survives races, hang-ups and host deaths on Table Storage? | `IInv` `CountBalanced` `DistinctPositions` `NoDoubleServe` `AcknowledgedIsLogged` `LagIsOwed` `LegalLifecycle` `LogRefines` |
| `TQ_burst` | In a burst within the retry budget, is every request answered, and do state reads and catch-ups racing mutations and document changes lose nothing? | `BaselineCovered` `CatchUpContiguous` `EveryRequestAnswered` |
| `SQ_race` | With document changes and stale decisions on SQLite, do rows, answers and positions still follow the log? | `RowsFollowLog` `AnswersFollowLog` `PositionIsRank` `LogRefines` |
| `SQ_serve` | *violation:* does SQLite, like Table Storage, never serve one visitor twice? | `NoDoubleServe` |
| `DOC_entry` | Do rows and blobs agree under uploads, cleanups, stale decisions and failures? | `TypeOK` `HeldUntilGone` `DanglingIsLate` `RestIsClean` `CountIsTold` `LeavesNothing` |
| `HUB_race` | Can a replay undo a push, a number run ahead? | `TypeOK` `ReplayNeverUndoesPush` |
| `HUB_polling` | Is a tab, however its connection ends, never blind, orphaned or stuck? | `NeverBlind` `NoOrphanTimer` `PollingConverges` `NeverStranded` |
| `HUB_missed` | *violation:* is no change silently missed across a disconnect? | `NothingMissed` |
| `RT_circuit` | Has a Blazor circuit whose connection ends a poller, in whatever order its handlers run, but for the one way the property names? Does a lost connection lead somewhere? Does it show what its user did? | `TypeOK` `NeverBlind` `ReconnectEnds` `OwnWriteShown` |
| `RT_polling` | With overlapping ticks, late pushes and its own writes crossing others', does a polling circuit come to show the queue, in index and `Snapshot`? | `PollingConverges` |
| `RT_own` | *violation:* is a circuit's own view correct after a write made without a connection? | `OwnViewCorrect` |
| `APP_tab` | In a tab with the kiosk or the console, whatever is clicked, answered, lost or replaced: is any document's memory leaked or the wrong one shown, any visitor lost, any countdown without its card, any refused key kept, any place worse than before, any completed card left? | `TypeOK` `UrlsAreShown` `StaleOnlyAfterOverlap` `TimersHaveCards` `TrackedUnlessExcused` `RejectedKeySignsOut` `PlaceOnlyImproves` `CompletedLeaves` |

`IInv` has the type invariant of `TableQueue`, `LogGapFree` and `HintNeverLeads` among its conjuncts; the type
invariant of `SqliteQueue` is proved. `CHECK_DEADLOCK FALSE` is everywhere but in `APP_tab` because every instance
runs out: requests are finite, and so are the changes a client of the hub can see. That requests do not hang instead
of ending is what `EveryRequestAnswered` and `LeavesNothing` check.

## Bounds

- `Requests`: three on Table Storage (`TQ_burst` has three of any kinds but complete and cancel, `TQ_faults` mutations
  only), so that a third can pass between two awaits of either of two racers: every pairwise race with an interfering
  write. Four on SQLite (two document changes around two racing decisions) and on documents (two uploads, a cleanup and a
  reader; or a stale decision between two cleanups).
- `MaxEntries` 3 and `SeedEntries` 1: a seed that can be interrupted, and two more check-ins to race; 2 in `TQ_burst`.
- `MaxAttempts` 2 or 3 for the code's 32 (`MaxOptimisticConcurrencyAttempts`): small enough that loops
  run out of budget. `TQ_burst` has it equal to the number of requests, `TQ_faults` below it.
- `MaxCatchUp` 0 or 1 for the code's 200 (`MaxCatchUpEvents`): both the diff and the snapshot branch occur.
- `MaxDocuments` 1 for ten, so that the cap is met, and passed by two uploads that count before either adds its row.
- `Faulty`, `Impatient`: who may fail or hang up. One faulty request suffices for documents, as one failure is what each
  property speaks of, and one on SQLite, where it leaves nothing behind; on Table Storage all three may.
- `HubClient`: `MaxLog` 2 in `HUB_race`, for two broadcasts in either order; 1 in `HUB_polling`, whose liveness
  needs a change to converge to, with `MaxCatchUp` 0 so that the snapshot branch is taken there and the diff in
  `HUB_race`. `MaxDrops` 2 for a drop while a replay is under way; `MaxFailures` 2 for a failed replay and a failed
  resync. `Calls` 2: a poll or replay overlapping another. `MayStop` is TRUE in `HUB_polling` only.
- `RealtimeService`: `RT_circuit` starts a circuit and ends it in every way, with one change, one drop and two failures
  (a failed replay and a failed resync); one read at a time. `RT_polling` has two reads at a time (two ticks, or a tick
  and a replay), two changes (its own and another's, a push older than a poll) and one drop; to pay for them it starts,
  as `LiveInit`, with a circuit that has connected without a fault, which is a state `FairSpec` reaches, and nothing
  fails in it. `RT_own` has no failures and nobody else writing: the circuit's own write is all it takes.
- `APP_tab`: two entries of two documents and three requests of the viewer, for an entry changed while a list or a
  content of the one before is under way; two keys, for a rotation; two visits, for one that checks in while the other
  counts down; staff act while the log has fewer than three changes, which is enough to take one visit from its
  check-in to its completion, or to call it after the other has checked in; two calls at once; one loss for either app; a countdown of two seconds for the code's ten, so that
  there is a middle to interrupt; both stores.
- Catch-up requests on SQLite ask for at most one number past the log, and at least -1: what lies further is treated
  alike.

Symmetry over requests (calls and entries of `HubClient`) is declared only in `TQ_faults`, `SQ_serve` and `HUB_race`,
which have no liveness and where no constant tells the values apart.

## Fairness

- `TableQueue`: each request goes on (`WF` of its `Work`), for an awaited store call returns; no fairness for arrival,
  hang-up or death.
- `Documents`: each request's awaits return. Nobody has to ask, and a faulty one may still fail first.
- `HubClient`: the server answers, admits and broadcasts; a connection attempt ends (success, failure or the five
  second timeout); messages are delivered; a lost connection reconnects or is given up (the backoff array is finite);
  a response is handled; the interval ticks. Server steps and connection outcomes are one disjunction each, so nothing
  is said about which outcome. Nothing forces a change, a failure, a drop or `stop()`.

- `RealtimeService`: the same, and every thread goes on: an awaited repository call returns, a locked region is short, a
  handler handed to the thread pool runs in the end, a thread past `StartPolling`'s test sets the timer. Another circuit
  need not publish what it wrote.

- `AngularTab`: the browser runs its passes, each running countdown ticks, and a key's verification and an action are
  served, and answered or lost. Nobody has to click, act at a console, replace a key or reload; the kiosk's and the viewer's own
  requests need not be answered, and the hub need not show anything.

`EveryRequestAnswered` needs nobody impatient and a budget no smaller than the burst; `LeavesNothing` excuses a cleanup
that failed itself; `PollingConverges` is about a tab or circuit that polls for good, `NeverStranded` about a tab that is
reconnecting and `ReconnectEnds` about a circuit that has been told it is; `OwnWriteShown` excuses a drop, a failure and
a disposal. `RejectedKeySignsOut` is said of a request that reaches the server after the key was replaced (one served
under the old key and answered later says nothing of the new one) and of a network that
has had its failures: an action that is lost leaves staff where they are, with a message. `CompletedLeaves` is about a
completion that stays on show: a snapshot that goes back ends the obligation, as the card then reads another status.

## The proofs

Every invariant and every action property that a passing run checks is also a theorem, for every value of the
constants that the named assumptions (`TableQueueAssumption`, `SqliteQueueAssumption`, `DocumentsAssumption`,
`HubClientAssumption`, `RealtimeServiceAssumption`, `DocumentViewerAssumption`, `StaffConsoleAssumption`,
`KioskAssumption`) allow: any finite set of requests on Table Storage (any set on the others), any number of entries,
any budget, any number of changes, calls, threads, drops and failures. No theorem assumes more of the constants.

**Table Storage** (`TableQueueProofs`, `TableQueueRowProofs`): `TypeOK`, `LogGapFree`, `HintNeverLeads`,
`NoDoubleServe`, `BaselineCovered`, `CountBalanced`, `DistinctPositions`, `AcknowledgedIsLogged` and `LagIsOwed`
as invariants, `LegalLifecycle` and `CatchUpContiguous` as action properties, and `LogRefines`, the refinement of
`QueueLog`. None is inductive alone. The invariant `IInv` has two halves.

- `LogInv`: a number about to be tried is the successor of one in use, because an appender starts at the hint, which
  names an event, and passes only numbers it found taken (`Appenders`); so the insert that succeeds is the one at the
  end of the log. While the host starts it is alone (`Alone`) and knows how far the seed has come (`Seeding`).
- `RowInv`: an ETag that is still the row's stands for the status read with it (`TagsGuard`), so the update that goes
  through is a legal transition; a stamp not yet inserted has no row (`StampsFresh`); no event and no copy on its way
  to the log is ahead of its row (`RowsLead`), which is why rows read after a number cover it; and who has committed a
  call holds an entry that has left `Waiting` for good (`ServedLeft`).

What else is proved strengthens these.

- The refinement needs that a hint write under a current tag only raises the hint (`HintTags`).
- The waiting count needs that a current tag of an entry stands for whether the write takes it out of the line, and one
  of the counter for the value added to (`CountOf`).
- An answer is logged because a request has no number before it appends and keeps copy and number from then on (`Ack`).
- Positions are distinct (`PlaceInv`) because, while nobody has left the line, every position told is at most the counter
  (`Line`), so the next one told, which is one more, is new. That needs the balance of the counter: a decrement still
  owed is owed for an entry that has left, nobody who has left returns (`NobodyReturns`), and a reconciling start
  counts no fewer than are in the line.
- The hint's lag is owed (`LagIsOwed`, by `Lag` and `OnlyOwedLag`), with clients hanging up and the host dying anywhere:
  a number above the hint is of a request that is about to raise it, that was hung up on before it could, or that lost
  the race to raise it to a writer with a lower number. As each number above the hint has a request of its own,
  an append finds room by the pigeonhole principle while there are fewer of these than retries (`RoomUnlessAhead`).
  Nothing bounds their number: abandoned requests pile up until a start reconciles the hint, or one request raises it.

**SQLite** (`SqliteQueueProofs`): `TypeOK`, the refinement of `QueueLog`, `PositionIsRank` (the rows present are always
the first n in the order of check-ins, so a new one is behind all who wait), `RowsFollowLog` and `AnswersFollowLog`, all
with document changes and stale decisions. The last two leave the events of document changes aside (`Stands`), because
these log a copy that may be out of date, and allow such a change's answer its own entry as it stood earlier. The lemmas
about `Stands` (what an appended event changes for its entry, and for others) and the invariant that a document change
under way holds a status its entry once had do the work.

**Documents** (`DocumentsProofs`): every invariant that `DOC_entry` checks. The invariant adds that a cleanup runs only
once the visitor has left (`departed`), that an upload past the blob still has its blob until then, and that a cleanup at
its content step has no row of a document attached in time left to strand; it holds through SQLite's stale decisions,
because `departed` stays although the status may go back. For `RestIsClean` and `CountIsTold`, `Owed` says who is still to
put right what is not: an upload whose row is next, a cleanup on its way, an update to come, or a call that failed.

**Hub client** (`HubClientProofs`): `TypeOK`, `ReplayNeverUndoesPush`, `NeverBlind` and `NoOrphanTimer`. The invariant has
a part for each thing a handler can find changed when it runs.

- `LinkInv` (with `RealtimeService`, in `HubServerProofs`): a message in the inbox or about to be sent carries a number
  of the log and a queue that is not older. `ConnInv`: no message is under way on a connection that is down, so what is
  handled after a reconnect was sent after it.
- `CallInv`: an answer that is a queue is not older than the number it comes with. This is what makes the guard of
  `catchUp` enough: a replay that passes it is at least as new as the highest number, and a push raises that number in
  the step that shows it. So every change up to the last push's number is in view, or gave way to a later one of its
  entry (`ViewInv`; it says so up to the last push's number and not up to the highest, because a baseline raises that
  one and shows nothing).
- `SeedInv` and `LifeInv`: one seed, and no connection before it is through; an attempt whose race is lost has a timer,
  unless stopped. So the late success finds a timer to stop, the late failure leaves one running, and every handler that
  gives up the connection starts one or runs after `stop()`.

**Blazor circuit** (`RealtimeServiceProofs`): `TypeOK` and `NeverBlind`, by the same parts, `TaskInv` in place of
`CallInv` for the numbers and copies that threads hold between two locked regions. `NeverBlind` counts a thread past
`StartPolling`'s test, and a `Closed` whose handler has yet to run, as a timer to come. It excepts one order of events,
and no other: a background retry that adopts a socket whose `Closed` has already been handled (`adoptedClosed`, see
below). No theorem says what such a circuit shows: with its races, only polling repairs it, which is liveness.

**Staff console and viewer** (`AngularTabProofs`): `UrlsAreShown` and `StaleOnlyAfterOverlap`. Neither is
inductive: `Settled` adds that a URL is for the content fetched unless the effect replacing it is due, and that, as long
as no entry was changed too early, at most one request is under way, it is for what is selected, and nothing can be
selected meanwhile. The proof is of the viewer's own steps; every step of the console leaves it alone or is one of them.

**Kiosk** (`AngularTabProofs`): `TimersHaveCards` and `TrackedUnlessExcused` on either store, and `PlaceOnlyImproves`
with SQLite on the server. A countdown drops a visit only if the card has seen it completed (`Countdowns`). On Table
Storage a completion is the last change of its visit; SQLite may bring the visit back, and it is then excused
(`CompletedAreOut`). A check-in not yet served is of a visit the log does not know (`CallsAreOfVisits`), so losing it
loses nothing. A place only improves because a visit's check-in is
its first change and a card is of a visit checked in (`CheckInInv`): those counted ahead by a newer snapshot were
counted by the older one, or by the answer to the check-in, as nobody checks in ahead of one already in the line, and
nobody who left the line waits again (`AheadBefore`): a stale decision can bring an entry back to `Serving` only.

**Tab** (`AngularTabProofs`): a tab implements `StaffConsole` and `Kiosk`, so type correctness, the four
invariants above and `PlaceOnlyImproves`, with SQLite on the server, hold of it.

**Model-checked only**: the liveness properties (`EveryRequestAnswered`, `LeavesNothing`, `PollingConverges`,
`NeverStranded`, `ReconnectEnds`, `OwnWriteShown`, `RejectedKeySignsOut`, `CompletedLeaves`), because fairness, which
speaks of `ENABLED`, is beyond the prover. `NoDoubleServe` of SQLite and the properties of the other runs that end in
a violation are false of the code.

## Where code and documents disagree

Shown by a run:

- `SQ_serve`: call-next on SQLite can serve one visitor twice (`README.md:252` says both backends guarantee not to).
- `HUB_missed`: a change committed after the replay is answered, and broadcast before the connection is admitted, is
  known to the tab by number only (`queue-hub.service.ts:21-22` says never missed).
- `RT_own`: a write published without a connection raises the circuit's number, and the reconnect's replay starts after
  it (`QueueRealtimeService.cs:162-163` says the circuit's own view is already correct).

Seen in the models and given no run of their own:

- On Table Storage the log's last event about an entry can differ from its row, as two mutations can log in the opposite
  order of their writes (`SqliteQueueRepository.cs:52` calls the two the same end state).
- A hint left behind by abandoned requests makes appends fail once it lags by the retry budget
  (`TableStorageQueueRepository.cs:454-455` says it costs at most a couple of retries). Nor does a refused raise of the
  hint mean that the other writer's is "at least as new" (524): it may be a lower number. `LagIsOwed` says of both what
  they add.
- On Table Storage a position is a counter's value, taken two awaits after the stamp the line is ordered by. It can be
  zero or negative when a decrement overtakes the increment (`QueueDomainTypes.cs:104` calls it 1-based); two check-ins
  can be told positions in the opposite order of their stamps (105-107 calls positions correctly ordered), so that the
  first number need not have been the visitor's place, and the place on the card can grow (`docs/decisions.md:240` calls
  the response position correct at the instant of check-in).
- On SQLite a completion that read its row before a cancellation overwrites it; `IQueueRepository.cs:28` says a
  completion is of an entry being served.
- On SQLite a call-next that read `Waiting` before a cancellation commits `Serving` after it: the visitor is back in the
  queue and the documents are gone, although `docs/architecture.md:167` says that content exists exactly while the
  visitor is in the queue. `HeldUntilGone` says what holds.
- On SQLite the event and the answer of a document change can show its entry with a status the row no longer has
  (`QueueChangeEventEntity.cs:9-10` says as it was at that number; `SqliteQueueRepository.cs:17`, exactly this change and
  nothing newer, holds of every other row). `RowsFollowLog` and `AnswersFollowLog` say what holds.
- An upload racing a cleanup adds its row after the content is gone, and the row dangles (`QueueCompletionService.cs:54-56`
  says never). `DanglingIsLate` says that no other row does.
- An upload is accepted after the visitor has left the queue, and what it stores is not cleaned up
  (`docs/architecture.md:167`). The cap on documents is a soft one: uploads that count before any adds its row pass it.
- `connectionState` can say `live` while the socket is down, when a replay is answered after a second drop
  (`queue-hub.service.ts:31`), and stay `reconnecting` while a poller that was already running polls (283).
- A slow `GET /queue` overwrites a newer push; the comment at `queue-hub.service.ts:316-317` says no guard is needed.
- In a Blazor circuit, index and `Snapshot` can be of different queues (`QueueRealtimeService.cs:398` calls
  `ApplySnapshot` the one place both stay in sync), and a timer can outlive `DisposeAsync`, which may come
  between `StartPolling`'s test and its timer (451; 281 means to prevent it).
- A `Reconnecting` handler that runs late, after the reconnect's replay has said `live`, leaves the circuit
  `reconnecting` for good, without a poller, over a connection that is up (`QueueRealtimeService.cs:250`; 11-14 and
  256-257 have it trust pushes again).
- The background retry can adopt a socket that was closed for good, and `Closed` handled, meanwhile: it stops the poller
  and says `live` (327; 310 calls the socket live). `NeverBlind` names it as its exception.
- An answer to the viewer's request is written whatever is selected by then: when staff open another entry before it
  comes, they see a document, or a list, of the entry before under the new one (`document-viewer.ts:56` calls the content
  the selected document's). `StaleOnlyAfterOverlap` says that there is no other way to get there.
- A document that failed to load cannot be tried again by selecting it, because the signal keeps its value and no effect
  becomes due (`document-viewer.ts:188` says to try again); and a 401 there says "sign in again" and signs nobody out
  (213), unlike one of the console's.
- The visitor can go back to the cards while the form submits; the form is destroyed, its answer reaches nobody, and an
  entry is in the queue that the device does not track (`position-view.ts:24-25`).
- "Stop tracking" sends no cancel for an entry the snapshot does not show yet, or shows no longer right
  (`position-view.ts:132`; `README.md:328` says it also cancels the entry).
- A check-in or an action whose answer is lost looks failed; trying again checks in, or calls, one more.
- After a server has lost its database, its snapshot answers carry a lower number and are discarded (246).

## Not modelled

`PROJECT.json` lists every component with its reason. In short: rendering and pure projections (the display app, the
Blazor pages, QR codes), access checks (stateless, or decided by cryptography and a clock), wiring and hosting, and
the Azure SignalR demonstration, which is apart from the queue. The first position on Table Storage is a counter in
`TableQueue` and left out of `Kiosk`. Names, ticket numbers, file names and formats are left out everywhere; time is
kept only as the order of check-ins. A server that loses its log while its clients live on, and a client composed with
a repository instead of with what `QueueLog` promises of it are beyond the models as they are.

## Plan

In order of importance, and how far it has come.

1. `TableQueue` with `QueueDomain`, `TableQueueInv`, its runs and proofs: the core, because every client relies on
   the log, and because nothing but ETags protects it. Done.
2. `SqliteQueue`, and `QueueLog` as the contract of both. Done.
3. `Documents`. Done.
4. `HubClient`. Done.
5. `RealtimeService`, the Blazor twin. Done.
6. `DocumentViewer`, `StaffConsole`, `Kiosk` and `AngularTab`: the apps around `HubClient`. Done.
7. Open: a composition of `HubServer` with `QueueLog` in place of its own log, and a server that loses its database;
   the Blazor position view's restored entry.
8. The proofs of every invariant and action property. Done. Open: what `HubServer` assumes of a log, derived from
   `QueueLog`; an abstract view of a client that follows a log, implemented by `HubClient` where no baseline overtakes a
   replay; the step lemmas that the liveness properties rest on (what stays true until a fair step is taken).
