----------------------- MODULE RealtimeServiceProofs -----------------------
(***************************************************************************)
(* Theorems of RealtimeService: types, and a source of news for a circuit  *)
(* without a connection, for any log, any number of reads under way, drops *)
(* and failures.                                                           *)
(***************************************************************************)
EXTENDS RealtimeService, HubServerProofs

-----------------------------------------------------------------------------
(***************************************************************************)
(* The inductive invariant, by what each part is about.                    *)
(***************************************************************************)
(* Messages are under way only on a connection that is up, or being disposed of. *)
ConnInv ==
  /\ unsent \subseteq 1 .. Len(log) /\ outbox \subseteq 1 .. Len(log)
  /\ publishing \in 0 .. Len(log)
  /\ joined \/ baseline # "none" \/ inbox # <<>> => conn \in {"connected", "closing"}

ViewInv ==
  /\ index \in [Entries -> 0 .. Len(log)] /\ snapshot \in [Entries -> 0 .. Len(log)]
  /\ highest \in 0 .. Len(log)

(* What a thread that is not idle is at, and with which numbers. *)
Kinds == {"seed", "since", "resync", "poll", "push"}
Busy ==
  [kind : Kinds,
   pc : {"ask", "compare", "compareDiff", "patch", "derive", "index", "snapshot", "raise"},
   from : 0 .. Len(log), seq : 0 .. Len(log), copies : [Entries -> 0 .. Len(log)]]

TaskInv == task \in [Workers -> Busy \cup {None}]

(* There is one seed, asked for by StartAsync and waited for. *)
SeedInv ==
  \A w \in Workers : task[w].kind = "seed" =>
    at = "seeding" /\ \A x \in Workers : task[x].kind = "seed" => x = w

(* No connection is built before the seed is through. *)
LifeInv ==
  /\ conn \in {"none", "starting", "connected", "reconnecting", "closing", "closed"}
  /\ at \in {"new", "seeding", "seeded", "connecting", "fallback", "retrying", "connected",
            "adopting", "adoptedClosed", "done"}
  /\ state \in {"connecting", "live", "reconnecting", "polling"}
  /\ timer \in BOOLEAN /\ disposed \in BOOLEAN
  /\ starters \subseteq Starters \X Stages /\ raised \in [Events -> Nat]
  /\ at \in {"new", "seeding", "seeded"} => conn = "none"
  /\ NeverBlind

FaultInv == drops \in 0 .. MaxDrops /\ failures \in 0 .. MaxFailures

IInv == LinkInv /\ ConnInv /\ ViewInv /\ TaskInv /\ SeedInv /\ LifeInv /\ FaultInv

LEMMA InitIInv == Init => IInv
<1> SUFFICES ASSUME Init PROVE IInv
  OBVIOUS
<1>1. Len(log) = 0 BY EmptySeq DEF Init
<1>2. LinkInv BY LinkStarts DEF Init
<1>3. ConnInv BY <1>1 DEF ConnInv, Init, LinkInit
<1>4. ViewInv BY <1>1 DEF ViewInv, Init, NoCopies
<1>5. TaskInv /\ SeedInv BY DEF TaskInv, SeedInv, Init, None
<1>6. LifeInv BY DEF LifeInv, NeverBlind, HasPoller, Init, Events
<1>7. FaultInv BY RealtimeServiceAssumption DEF FaultInv, Init
<1> QED BY <1>2, <1>3, <1>4, <1>5, <1>6, <1>7 DEF IInv

(***************************************************************************)
(* Each part is about a few variables, and stands while they do.           *)
(***************************************************************************)
LEMMA LenIsNat == LinkInv => Len(log) \in Nat
BY LenProperties DEF LinkInv

LEMMA ConnStands ==
  ASSUME ConnInv, UNCHANGED <<log, writes, joined, baseline, inbox, conn>>
  PROVE  ConnInv'
BY DEF ConnInv, writes

LEMMA ViewStands ==
  ASSUME ViewInv, UNCHANGED <<log, view>>
  PROVE  ViewInv'
BY DEF ViewInv, view

LEMMA BusyStands ==
  ASSUME UNCHANGED log
  PROVE  Busy' = Busy
BY DEF Busy

LEMMA TaskStands ==
  ASSUME TaskInv, UNCHANGED <<log, task>>
  PROVE  TaskInv'
BY BusyStands DEF TaskInv

LEMMA SeedStands ==
  ASSUME SeedInv, UNCHANGED <<at, task>>
  PROVE  SeedInv'
BY DEF SeedInv

LEMMA LifeStands ==
  ASSUME LifeInv, UNCHANGED <<conn, raised, at, polling, disposed>>
  PROVE  LifeInv'
BY DEF LifeInv, NeverBlind, HasPoller, polling

LEMMA FaultsStand ==
  ASSUME FaultInv, UNCHANGED faults
  PROVE  FaultInv'
BY DEF FaultInv, faults

(***************************************************************************)
(* A thread goes on, with what it did or not, as what it was or not at     *)
(* all; or one begins that is no seed.                                     *)
(***************************************************************************)
LEMMA GoesOn ==
  ASSUME TaskInv, NEW w \in Workers, NEW new \in Busy \cup {None},
         task' = [task EXCEPT ![w] = new], UNCHANGED log
  PROVE  TaskInv'
BY BusyStands DEF TaskInv

LEMMA SameGoesOn ==
  ASSUME TaskInv, SeedInv, NEW w \in Workers, NEW new \in Busy, new.kind = task[w].kind,
         task' = [task EXCEPT ![w] = new], UNCHANGED <<log, at>>
  PROVE  TaskInv' /\ SeedInv'
<1>1. TaskInv' BY GoesOn
<1>2. SeedInv' BY DEF TaskInv, SeedInv
<1> QED BY <1>1, <1>2

LEMMA NewKeepsSeed ==
  ASSUME TaskInv, SeedInv, NEW w \in Workers, task[w].kind # "seed", NEW new,
         new.kind # "seed", task' = [task EXCEPT ![w] = new], UNCHANGED at
  PROVE  SeedInv'
BY DEF TaskInv, SeedInv

LEMMA SeedEnds ==
  ASSUME TaskInv, SeedInv, NEW w \in Workers, task[w].kind = "seed",
         task' = [task EXCEPT ![w] = None]
  PROVE  SeedInv'
BY DEF TaskInv, SeedInv, None

LEMMA AskingTyped ==
  ASSUME LinkInv, NEW kind \in Kinds, NEW from \in 0 .. Len(log)
  PROVE  Asking(kind, from) \in Busy
BY LenIsNat DEF Asking, Busy, NoCopies

(* A number seen is at most the larger of two that are not ahead of the log. *)
LEMMA MaxTyped ==
  ASSUME NEW m \in Nat, NEW a \in 0 .. m, NEW b \in 0 .. m
  PROVE  MaxOf(a, b) \in 0 .. m
BY DEF MaxOf

(* StartPolling leaves a thread on its way to a timer, a timer, or a circuit disposed of. *)
LEMMA PollingStarts ==
  ASSUME LifeInv, NEW thread \in Starters, StartPolling(thread)
  PROVE  /\ starters' \subseteq Starters \X Stages
         /\ starters \subseteq starters'
         /\ timer' \/ starters' # {} \/ disposed
<1>1. <<thread, "say">> \in Starters \X Stages BY DEF Stages
<1>2. starters' \in {starters, starters \cup {<<thread, "say">>}} BY DEF StartPolling
<1>3. starters' \subseteq Starters \X Stages /\ starters \subseteq starters'
  BY <1>1, <1>2 DEF LifeInv
<1>4. timer' \/ starters' # {} \/ disposed BY DEF StartPolling
<1> QED BY <1>3, <1>4

(* An event more or an event less. *)
LEMMA Raised ==
  ASSUME raised \in [Events -> Nat], NEW event \in Events, Raise(event)
  PROVE  /\ raised' \in [Events -> Nat]
         /\ raised'[event] > 0
         /\ raised["closed"] > 0 => raised'["closed"] > 0
BY DEF Raise, Events

LEMMA Handled ==
  ASSUME raised \in [Events -> Nat], NEW event \in Events, Handle(event)
  PROVE  /\ raised' \in [Events -> Nat]
         /\ event # "closed" => raised'["closed"] = raised["closed"]
BY DEF Handle, Events

-----------------------------------------------------------------------------
(***************************************************************************)
(* The hub's steps, and the writes it passes on.                           *)
(***************************************************************************)
LEMMA LogGrowsUnder ==
  ASSUME LinkInv, ConnInv, ViewInv, TaskInv, NEW e \in Entries, log' = Append(log, e),
         UNCHANGED <<link, outbox, conn, view, task>>,
         unsent' \subseteq unsent \cup {Len(log) + 1}, publishing' \in {publishing, Len(log) + 1}
  PROVE  LinkInv' /\ ConnInv' /\ ViewInv' /\ TaskInv'
<1>1. LinkInv' /\ Len(log) \in Nat /\ Len(log') = Len(log) + 1
  BY LogGrows
<1>2. /\ 0 .. Len(log) \subseteq 0 .. Len(log') /\ 1 .. Len(log) \subseteq 1 .. Len(log')
      /\ Len(log) + 1 \in 1 .. Len(log')
  BY <1>1
<1>3. ConnInv' BY <1>2 DEF ConnInv, link
<1>4. ViewInv' BY <1>1 DEF ViewInv, view
<1>5. TaskInv'
  <2>1. Busy \subseteq Busy' BY <1>1 DEF Busy
  <2> QED BY <2>1 DEF TaskInv
<1> QED BY <1>1, <1>3, <1>4, <1>5

LEMMA ChangeKeeps ==
  ASSUME IInv, NEW e \in Entries, Change(e)
  PROVE  IInv'
<1> USE DEF IInv, Change
<1>1. LinkInv' /\ ConnInv' /\ ViewInv' /\ TaskInv'
  BY LogGrowsUnder
<1> QED BY <1>1, SeedStands, LifeStands, FaultsStand

LEMMA WriteKeeps ==
  ASSUME IInv, NEW e \in Entries, Write(e)
  PROVE  IInv'
<1> USE DEF IInv, Write
<1>1. LinkInv' /\ ConnInv' /\ ViewInv' /\ TaskInv'
  BY LogGrowsUnder
<1> QED BY <1>1, SeedStands, LifeStands, FaultsStand

LEMMA PublishKeeps ==
  ASSUME IInv, Publish
  PROVE  IInv'
<1> USE DEF IInv, Publish
<1>1. Len(log) \in Nat BY LenIsNat
<1>2. ConnInv' BY <1>1 DEF ConnInv, link
<1>3. ViewInv'
  <2>1. highest' \in 0 .. Len(log) BY <1>1, MaxTyped DEF ConnInv, ViewInv
  <2> QED BY <2>1 DEF ViewInv
<1> QED BY <1>2, <1>3, LinkStands, TaskStands, SeedStands, LifeStands, FaultsStand

LEMMA ServeKeeps ==
  ASSUME IInv, Serve
  PROVE  IInv'
<1> USE DEF IInv, Serve
<1>1. LinkInv' BY JoinKeeps, ReadBaselineKeeps, SendBaselineKeeps
<1>2. UNCHANGED log BY DEF Join, ReadBaseline, SendBaseline
<1>3. ConnInv' BY <1>2 DEF ConnInv, Join, ReadBaseline, SendBaseline, writes
<1> QED BY <1>1, <1>2, <1>3, ViewStands, TaskStands, SeedStands, LifeStands, FaultsStand

LEMMA NotifyMutationKeeps ==
  ASSUME IInv, NEW n \in unsent \cup outbox, NotifyMutation(n)
  PROVE  IInv'
<1> USE DEF IInv, NotifyMutation
<1>1. LinkInv'
  <2>1. n \in 1 .. Len(log) BY DEF ConnInv
  <2>2. CASE Push(n) BY <2>1, <2>2, PushKeeps
  <2>3. CASE UNCHANGED link BY <2>3, LinkStands
  <2> QED BY <2>2, <2>3
<1>2. ConnInv'
  <2>1. UNCHANGED <<log, publishing, conn, joined, baseline>> BY DEF Push, link
  <2>2. unsent' \subseteq unsent /\ outbox' \subseteq outbox OBVIOUS
  <2>3. joined \/ inbox' = inbox BY DEF Push, link
  <2> QED BY <2>1, <2>2, <2>3 DEF ConnInv
<1>3. FaultInv' BY RealtimeServiceAssumption DEF FaultInv
<1> QED BY <1>1, <1>2, <1>3, ViewStands, TaskStands, SeedStands, LifeStands

-----------------------------------------------------------------------------
(***************************************************************************)
(* Reads, and the steps of applying what they bring.                       *)
(***************************************************************************)
LEMMA AnswerDiffKeeps ==
  ASSUME IInv, NEW t \in Workers, AnswerDiff(t)
  PROVE  IInv'
<1> USE DEF IInv, AnswerDiff
<1> DEFINE new == [task[t] EXCEPT !.pc = "compareDiff", !.seq = Len(log)]
<1>1. task[t] \in Busy BY DEF TaskInv, None
<1>2. new \in Busy /\ new.kind = task[t].kind
  <2>1. Len(log) \in 0 .. Len(log) BY LenIsNat
  <2> HIDE DEF IInv, AnswerDiff
  <2> QED BY <1>1, <2>1 DEF Busy
<1>3. task' = [task EXCEPT ![t] = new] OBVIOUS
<1> HIDE DEF new
<1>4. TaskInv' /\ SeedInv' BY <1>2, <1>3, SameGoesOn
<1> QED BY <1>4, LinkStands, ConnStands, ViewStands, LifeStands, FaultsStand DEF link

LEMMA AnswerQueueKeeps ==
  ASSUME IInv, NEW t \in Workers, AnswerQueue(t)
  PROVE  IInv'
<1> USE DEF IInv, AnswerQueue
<1> DEFINE pc == IF task[t].kind = "since" THEN "compare" ELSE "index"
<1>1. task[t] \in Busy BY DEF TaskInv, None
<1>2. PICK n \in task[t].seq .. Len(log) :
        task' = [task EXCEPT ![t] = Applying(task[t].kind, pc, n, ShownAt(Len(log)))]
  OBVIOUS
<1>3. Applying(task[t].kind, pc, n, ShownAt(Len(log))) \in Busy
  <2>1. Len(log) \in Nat BY LenIsNat
  <2>2. ShownAt(Len(log)) \in [Entries -> 0 .. Len(log)]
    <3>1. Len(log) \in 0 .. Len(log) BY <2>1
    <3> QED BY <3>1, ShownAtTyped DEF LinkInv
  <2>3. n \in 0 .. Len(log) BY <1>1, <2>1 DEF Busy
  <2> QED BY <1>1, <2>1, <2>2, <2>3 DEF Applying, Busy
<1>4. Applying(task[t].kind, pc, n, ShownAt(Len(log))).kind = task[t].kind BY DEF Applying
<1>5. TaskInv' /\ SeedInv' BY <1>2, <1>3, <1>4, SameGoesOn
<1> QED BY <1>5, LinkStands, ConnStands, ViewStands, LifeStands, FaultsStand DEF link

(* A thread that is done. A seed that is lets the connection be built. *)
LEMMA FinishKeeps ==
  ASSUME TaskInv, SeedInv, LifeInv, NEW w \in Workers, Finish(w),
         UNCHANGED <<log, conn, raised, disposed>>
  PROVE  TaskInv' /\ SeedInv' /\ LifeInv'
<1> USE DEF Finish
<1>1. TaskInv' BY GoesOn
<1>2. CASE task[w].kind = "seed"
  <2>1. SeedInv' BY <1>2, SeedEnds
  <2>2. at = "seeding" /\ conn = "none" BY <1>2 DEF SeedInv, LifeInv
  <2>3. LifeInv' BY <1>2, <2>2 DEF LifeInv, NeverBlind, HasPoller
  <2> QED BY <1>1, <2>1, <2>3
<1>3. CASE task[w].kind # "seed"
  <2>1. SeedInv' BY <1>3, NewKeepsSeed DEF None
  <2>2. LifeInv' BY <1>3 DEF LifeInv, NeverBlind, HasPoller
  <2> QED BY <1>1, <2>1, <2>2
<1> QED BY <1>2, <1>3

LEMMA GotoKeeps ==
  ASSUME TaskInv, SeedInv, NEW w \in Workers, task[w] \in Busy,
         NEW pc \in {"index", "patch", "derive", "snapshot", "raise"}, Goto(w, pc),
         UNCHANGED <<log, at>>
  PROVE  TaskInv' /\ SeedInv'
<1> DEFINE new == [task[w] EXCEPT !.pc = pc]
<1>1. new \in Busy /\ new.kind = task[w].kind BY DEF Busy
<1>2. task' = [task EXCEPT ![w] = new] BY DEF Goto
<1> HIDE DEF new
<1> QED BY <1>1, <1>2, SameGoesOn

LEMMA CompareKeeps ==
  ASSUME IInv, NEW t \in Workers, Compare(t)
  PROVE  IInv'
<1> USE DEF IInv, Compare
<1>1. task[t] \in Busy BY DEF TaskInv, None
<1>2. TaskInv' /\ SeedInv' /\ LifeInv'
  <2>1. CASE task[t].seq < highest BY <2>1, FinishKeeps
  <2>2. CASE ~(task[t].seq < highest)
    <3>1. TaskInv' /\ SeedInv' BY <1>1, <2>2, GotoKeeps
    <3> QED BY <2>2, <3>1, LifeStands
  <2> QED BY <2>1, <2>2
<1> QED BY <1>2, LinkStands, ConnStands, ViewStands, FaultsStand DEF link

LEMMA PatchIndexKeeps ==
  ASSUME IInv, NEW t \in Workers, PatchIndex(t)
  PROVE  IInv'
<1> USE DEF IInv, PatchIndex
<1>1. task[t] \in Busy BY DEF TaskInv, None
<1>2. TaskInv' /\ SeedInv' BY <1>1, GotoKeeps
<1>3. ViewInv'
  <2>1. index' \in [Entries -> 0 .. Len(log)]
    <3>1. task[t].from \in Nat /\ task[t].seq \in 0 .. Len(log) BY <1>1 DEF Busy
    <3> QED BY <3>1, PatchTyped DEF ViewInv, LinkInv
  <2> QED BY <2>1 DEF ViewInv
<1> QED BY <1>2, <1>3, LinkStands, ConnStands, LifeStands, FaultsStand DEF link

LEMMA DeriveSnapshotFromIndexKeeps ==
  ASSUME IInv, NEW t \in Workers, DeriveSnapshotFromIndex(t)
  PROVE  IInv'
<1> USE DEF IInv, DeriveSnapshotFromIndex
<1> DEFINE new == Applying(task[t].kind, "index", task[t].seq, index)
<1>1. task[t] \in Busy BY DEF TaskInv, None
<1>2. new \in Busy /\ new.kind = task[t].kind BY <1>1, LenIsNat DEF Busy, Applying, ViewInv
<1>3. task' = [task EXCEPT ![t] = new] OBVIOUS
<1> HIDE DEF new
<1>4. TaskInv' /\ SeedInv' BY <1>2, <1>3, SameGoesOn
<1> QED BY <1>4, LinkStands, ConnStands, ViewStands, LifeStands, FaultsStand DEF link

LEMMA SetIndexKeeps ==
  ASSUME IInv, NEW w \in Workers, SetIndex(w)
  PROVE  IInv'
<1> USE DEF IInv, SetIndex
<1>1. task[w] \in Busy BY DEF TaskInv, None
<1>2. TaskInv' /\ SeedInv' BY <1>1, GotoKeeps
<1>3. ViewInv' BY <1>1 DEF ViewInv, Busy
<1> QED BY <1>2, <1>3, LinkStands, ConnStands, LifeStands, FaultsStand DEF link

LEMMA SetSnapshotKeeps ==
  ASSUME IInv, NEW w \in Workers, SetSnapshot(w)
  PROVE  IInv'
<1> USE DEF IInv, SetSnapshot
<1>1. task[w] \in Busy BY DEF TaskInv, None
<1>2. TaskInv' /\ SeedInv' /\ LifeInv'
  <2>1. CASE w = Callback BY <2>1, FinishKeeps
  <2>2. CASE w # Callback
    <3>1. TaskInv' /\ SeedInv' BY <1>1, <2>2, GotoKeeps
    <3> QED BY <2>2, <3>1, LifeStands
  <2> QED BY <2>1, <2>2
<1>3. ViewInv' BY <1>1 DEF ViewInv, Busy
<1> QED BY <1>2, <1>3, LinkStands, ConnStands, FaultsStand DEF link

LEMMA UpdateHighestSequenceSeenKeeps ==
  ASSUME IInv, NEW t \in Workers, UpdateHighestSequenceSeen(t)
  PROVE  IInv'
<1> USE DEF IInv, UpdateHighestSequenceSeen
<1>1. task[t] \in Busy BY DEF TaskInv, None
<1>2. TaskInv' /\ SeedInv' /\ LifeInv' BY FinishKeeps
<1>3. ViewInv'
  <2>1. highest' \in 0 .. Len(log) BY <1>1, LenIsNat, MaxTyped DEF Busy, ViewInv
  <2> QED BY <2>1 DEF ViewInv
<1> QED BY <1>2, <1>3, LinkStands, ConnStands, FaultsStand DEF link

(* A message: a push is taken up by the callback, which is idle then. *)
LEMMA DeliverKeeps ==
  ASSUME IInv, Deliver
  PROVE  IInv'
<1> USE DEF IInv, Deliver
<1> DEFINE message == Head(inbox)
           new == Applying("push", "index", 0, ShownAt(message.version))
<1>1. LinkInv' /\ message \in Carried BY DeliveryKeeps
<1>2. UNCHANGED log /\ Len(log) \in Nat BY LenIsNat
<1>3. ConnInv' BY DEF ConnInv, writes
<1>4. message.seq \in 0 .. Len(log) /\ message.version \in -1 .. Len(log)
  BY <1>1 DEF Carried, Message
<1>5. ViewInv'
  <2>1. highest' \in 0 .. Len(log) BY <1>2, <1>4, MaxTyped DEF ViewInv
  <2> QED BY <1>2, <2>1 DEF ViewInv
<1>6. TaskInv' /\ SeedInv'
  <2>1. CASE IsBaseline(message)
    BY <2>1, TaskStands, SeedStands
  <2>2. CASE ~IsBaseline(message)
    <3>1. message.version \in 0 .. Len(log) BY <1>2, <1>4, <2>2 DEF IsBaseline
    <3>2. ShownAt(message.version) \in [Entries -> 0 .. Len(log)]
      BY <3>1, ShownAtTyped DEF LinkInv
    <3>3. new \in Busy /\ new.kind # "seed"
      <4> HIDE DEF message, IInv, Deliver
      <4> QED BY <1>2, <3>2 DEF Applying, Busy, Kinds
    <3>4. task' = [task EXCEPT ![Callback] = new] /\ UNCHANGED <<log, at>> BY <2>2
    <3>5. Callback \in Workers /\ task[Callback].kind # "seed" BY DEF Workers, Idle, None
    <3> HIDE DEF new, message, Deliver
    <3>6. TaskInv' BY <3>3, <3>4, <3>5, GoesOn
    <3>7. SeedInv' BY <3>3, <3>4, <3>5, NewKeepsSeed
    <3> QED BY <3>6, <3>7
  <2> QED BY <2>1, <2>2
<1> QED BY <1>1, <1>3, <1>5, <1>6, LifeStands, FaultsStand

-----------------------------------------------------------------------------
(***************************************************************************)
(* The poller.                                                             *)
(***************************************************************************)
(* A read that is no seed is asked for. *)
LEMMA AskKeeps ==
  ASSUME LinkInv, ViewInv, TaskInv, SeedInv, NEW t \in Workers, NEW kind \in Kinds \ {"seed"},
         Ask(t, kind), UNCHANGED <<log, at>>
  PROVE  TaskInv' /\ SeedInv'
<1> DEFINE new == Asking(kind, highest)
<1>1. new \in Busy /\ new.kind # "seed"
  <2>1. new \in Busy BY AskingTyped DEF ViewInv
  <2> QED BY <2>1 DEF Asking
<1>2. task' = [task EXCEPT ![t] = new] /\ task[t].kind # "seed" BY DEF Ask, Idle, None
<1> HIDE DEF new
<1>3. TaskInv' BY <1>1, <1>2, GoesOn
<1>4. SeedInv' BY <1>1, <1>2, NewKeepsSeed
<1> QED BY <1>3, <1>4

LEMMA SayPollingKeeps ==
  ASSUME IInv, NEW thread \in Starters, SayPolling(thread)
  PROVE  IInv'
<1> USE DEF IInv, SayPolling
<1>1. LifeInv'
  <2>1. <<thread, "create">> \in Starters \X Stages BY DEF Stages
  <2>2. starters' \subseteq Starters \X Stages /\ starters' # {} BY <2>1 DEF LifeInv
  <2> HIDE DEF SayPolling
  <2>3. state' = "polling" /\ UNCHANGED <<conn, raised, at, timer, disposed>> BY DEF SayPolling
  <2> QED BY <2>2, <2>3 DEF LifeInv, NeverBlind, HasPoller
<1> QED BY <1>1, LinkStands, ConnStands, ViewStands, TaskStands, SeedStands, FaultsStand DEF link

LEMMA CreateTimerKeeps ==
  ASSUME IInv, NEW thread \in Starters, CreateTimer(thread)
  PROVE  IInv'
<1> USE DEF IInv, CreateTimer
<1>1. LifeInv' BY DEF LifeInv, NeverBlind, HasPoller
<1> QED BY <1>1, LinkStands, ConnStands, ViewStands, TaskStands, SeedStands, FaultsStand DEF link

LEMMA PollOnceKeeps ==
  ASSUME IInv, NEW t \in Workers, PollOnce(t)
  PROVE  IInv'
<1> USE DEF IInv, PollOnce
<1>1. TaskInv' /\ SeedInv' BY AskKeeps DEF Kinds
<1> QED BY <1>1, LinkStands, ConnStands, ViewStands, LifeStands, FaultsStand DEF link

-----------------------------------------------------------------------------
(***************************************************************************)
(* The connection: building it, ...                                        *)
(***************************************************************************)
LEMMA StartKeeps ==
  ASSUME IInv, NEW t \in Workers, Start(t)
  PROVE  IInv'
<1> USE DEF IInv, Start
<1>1. TaskInv'
  <2>1. Asking("seed", highest) \in Busy BY AskingTyped DEF Kinds, ViewInv
  <2> QED BY <2>1, GoesOn DEF Ask
<1>2. SeedInv' BY DEF SeedInv, TaskInv, Ask, Asking
<1>3. LifeInv' BY DEF LifeInv, NeverBlind, HasPoller, polling
<1> QED BY <1>1, <1>2, <1>3, LinkStands, ConnStands, ViewStands, FaultsStand DEF link

LEMMA ConnectKeeps ==
  ASSUME IInv, Connect
  PROVE  IInv'
<1> USE DEF IInv, Connect
<1>1. LifeInv' BY DEF LifeInv, NeverBlind, HasPoller, polling
<1>2. ConnInv' BY DEF ConnInv, LifeInv, writes, link
<1>3. SeedInv' BY DEF SeedInv
<1> QED BY <1>1, <1>2, <1>3, LinkStands, TaskStands, ViewStands, FaultsStand DEF link

LEMMA ConnectSucceedsKeeps ==
  ASSUME IInv, ConnectSucceeds
  PROVE  IInv'
<1> USE DEF IInv, ConnectSucceeds
<1>1. LifeInv' BY DEF LifeInv, NeverBlind, HasPoller, polling
<1>2. ConnInv' BY DEF ConnInv, writes, link
<1>3. SeedInv' BY DEF SeedInv, LifeInv
<1> QED BY <1>1, <1>2, <1>3, LinkStands, TaskStands, ViewStands, FaultsStand DEF link

LEMMA ConnectFailsKeeps ==
  ASSUME IInv, ConnectFails
  PROVE  IInv'
<1> USE DEF IInv, ConnectFails
<1>1. LifeInv'
  <2>1. CASE at = "connecting"
    BY <2>1, PollingStarts DEF LifeInv, NeverBlind, HasPoller, StartPolling, Starters
  <2>2. CASE at # "connecting" BY <2>2 DEF LifeInv, NeverBlind, HasPoller, polling
  <2> QED BY <2>1, <2>2
<1>2. ConnInv' BY DEF ConnInv, writes, link
<1>3. SeedInv' BY DEF SeedInv, LifeInv
<1> QED BY <1>1, <1>2, <1>3, LinkStands, TaskStands, ViewStands, FaultsStand DEF link

LEMMA RetryKeeps ==
  ASSUME IInv, Retry
  PROVE  IInv'
<1> USE DEF IInv, Retry
<1>1. LifeInv' BY DEF LifeInv, NeverBlind, HasPoller, polling
<1>2. ConnInv' BY DEF ConnInv, writes, link
<1>3. SeedInv' BY DEF SeedInv
<1> QED BY <1>1, <1>2, <1>3, LinkStands, TaskStands, ViewStands, FaultsStand DEF link

LEMMA GoLiveKeeps ==
  ASSUME IInv, GoLive
  PROVE  IInv'
<1> USE DEF IInv, GoLive
<1>1. LifeInv'
  <2>1. CASE at = "adopting" /\ disposed BY <2>1 DEF LifeInv, NeverBlind, HasPoller
  <2>2. CASE at = "connected"
    <3>1. state' = "live" /\ UNCHANGED timer BY <2>2 DEF LifeInv
    <3>2. at' = "done" BY <2>2
    <3> QED BY <2>2, <3>1, <3>2 DEF LifeInv, NeverBlind, HasPoller
  <2>3. CASE at = "adopting" /\ ~disposed
    <3>1. state' = "live" /\ timer' = FALSE BY <2>3 DEF LifeInv
    <3>2. CASE conn = "closed" /\ raised["closed"] = 0
      BY <2>3, <3>1, <3>2 DEF LifeInv, NeverBlind, HasPoller
    <3>3. CASE ~(conn = "closed" /\ raised["closed"] = 0)
      <4>1. at' = "done" BY <2>3, <3>3
      <4>2. raised["closed"] \in Nat BY DEF LifeInv, Events
      <4> QED BY <3>1, <3>3, <4>1, <4>2 DEF LifeInv, NeverBlind, HasPoller
    <3> QED BY <3>2, <3>3
  <2> QED BY <2>1, <2>2, <2>3
<1>2. SeedInv' BY DEF SeedInv
<1> QED BY <1>1, <1>2, LinkStands, ConnStands, TaskStands, ViewStands, FaultsStand DEF link

(***************************************************************************)
(* ... losing it, for a while or for good, ...                             *)
(***************************************************************************)
LEMMA DropKeeps ==
  ASSUME IInv, Drop
  PROVE  IInv'
<1> USE DEF IInv, Drop
<1>1. LinkInv' BY LinkBreaks
<1>2. ConnInv' BY DEF ConnInv, LinkLost
<1>3. LifeInv'
  <2>1. raised' \in [Events -> Nat] BY Raised DEF LifeInv, Events
  <2> QED BY <2>1 DEF LifeInv, NeverBlind, polling
<1>4. FaultInv' BY RealtimeServiceAssumption DEF FaultInv
<1> QED BY <1>1, <1>2, <1>3, <1>4, TaskStands, SeedStands, ViewStands

LEMMA ReconnectKeeps ==
  ASSUME IInv, Reconnect
  PROVE  IInv'
<1> USE DEF IInv, Reconnect
<1>1. LifeInv'
  <2>1. raised' \in [Events -> Nat] BY Raised DEF LifeInv, Events
  <2> QED BY <2>1 DEF LifeInv, NeverBlind, polling
<1>2. ConnInv' BY DEF ConnInv, writes, link
<1> QED BY <1>1, <1>2, LinkStands, TaskStands, SeedStands, ViewStands, FaultsStand DEF link

LEMMA CloseKeeps ==
  ASSUME IInv, Close
  PROVE  IInv'
<1> USE DEF IInv, Close
<1>1. LinkInv' BY LinkBreaks
<1>2. ConnInv' BY DEF ConnInv, LinkLost
<1>3. LifeInv'
  <2>1. raised' \in [Events -> Nat] /\ raised'["closed"] > 0 BY Raised DEF LifeInv, Events
  <2> QED BY <2>1 DEF LifeInv, NeverBlind, HasPoller, polling
<1>4. SeedInv' BY DEF SeedInv
<1> QED BY <1>1, <1>2, <1>3, <1>4, TaskStands, ViewStands, FaultsStand

LEMMA RefuseKeeps ==
  ASSUME IInv, Refuse
  PROVE  IInv'
<1> USE DEF IInv, Refuse
<1>1. LinkInv' BY LinkBreaks
<1>2. ConnInv' BY DEF ConnInv, LinkLost
<1>3. LifeInv'
  <2>1. raised' \in [Events -> Nat] /\ raised'["closed"] > 0 BY Raised DEF LifeInv, Events
  <2> QED BY <2>1 DEF LifeInv, NeverBlind, HasPoller, polling
<1>4. FaultInv' BY RealtimeServiceAssumption DEF FaultInv
<1> QED BY <1>1, <1>2, <1>3, <1>4, TaskStands, SeedStands, ViewStands

(***************************************************************************)
(* ... the handlers that hear of it, ...                                   *)
(***************************************************************************)
LEMMA HandleReconnectingKeeps ==
  ASSUME IInv, HandleReconnecting
  PROVE  IInv'
<1> USE DEF IInv, HandleReconnecting
<1>1. LifeInv'
  <2>1. raised' \in [Events -> Nat] /\ raised'["closed"] = raised["closed"]
    BY Handled DEF LifeInv, Events
  <2> QED BY <2>1 DEF LifeInv, NeverBlind, HasPoller
<1> QED BY <1>1, LinkStands, ConnStands, TaskStands, SeedStands, ViewStands, FaultsStand DEF link

LEMMA HandleReconnectedKeeps ==
  ASSUME IInv, NEW t \in Workers, HandleReconnected(t)
  PROVE  IInv'
<1> USE DEF IInv, HandleReconnected
<1>1. TaskInv' /\ SeedInv' BY AskKeeps DEF Kinds
<1>2. LifeInv'
  <2>1. raised' \in [Events -> Nat] /\ raised'["closed"] = raised["closed"]
    BY Handled DEF LifeInv, Events
  <2> QED BY <2>1 DEF LifeInv, NeverBlind, HasPoller, polling
<1> QED BY <1>1, <1>2, LinkStands, ConnStands, ViewStands, FaultsStand DEF link

LEMMA HandleClosedKeeps ==
  ASSUME IInv, HandleClosed
  PROVE  IInv'
<1> USE DEF IInv, HandleClosed
<1>1. LifeInv'
  <2>1. raised' \in [Events -> Nat] BY Handled DEF LifeInv, Events
  <2>2. UNCHANGED <<timer, state, disposed, conn, at>> BY DEF StartPolling
  <2>3. /\ starters' \subseteq Starters \X Stages
        /\ timer' \/ starters' # {} \/ disposed
    BY PollingStarts DEF Starters
  <2> QED BY <2>1, <2>2, <2>3 DEF LifeInv, NeverBlind, HasPoller
<1> QED BY <1>1, LinkStands, ConnStands, TaskStands, SeedStands, ViewStands, FaultsStand DEF link

(***************************************************************************)
(* ... reads that fail, and the circuit's end.                             *)
(***************************************************************************)
LEMMA FailKeeps ==
  ASSUME IInv, NEW t \in Workers, Fail(t)
  PROVE  IInv'
<1> USE DEF IInv, Fail
<1> DEFINE new == IF task[t].kind = "since" THEN Asking("resync", 0) ELSE None
<1>1. task' = [task EXCEPT ![t] = new] OBVIOUS
<1>2. new \in Busy \cup {None} /\ new.kind # "seed"
  <2>1. 0 \in 0 .. Len(log) BY LenIsNat
  <2>2. Asking("resync", 0) \in Busy BY <2>1, AskingTyped DEF Kinds
  <2> QED BY <2>2 DEF Asking, None
<1>3. TaskInv'
  <2> HIDE DEF new
  <2> QED BY <1>1, <1>2, GoesOn
<1>4. SeedInv'
  <2>1. CASE task[t].kind = "seed" BY <1>1, <2>1, SeedEnds
  <2>2. CASE task[t].kind # "seed"
    <3> HIDE DEF new
    <3> QED BY <1>1, <1>2, <2>2, NewKeepsSeed
  <2> QED BY <2>1, <2>2
<1>5. LifeInv'
  <2>1. CASE task[t].kind = "seed"
    <3>1. at = "seeding" /\ conn = "none" BY <2>1 DEF SeedInv, LifeInv
    <3> QED BY <2>1, <3>1 DEF LifeInv, NeverBlind, HasPoller, polling
  <2>2. CASE task[t].kind = "resync"
    <3>1. UNCHANGED <<timer, state, disposed, conn, at>> BY <2>2 DEF StartPolling
    <3> QED BY <2>2, <3>1, PollingStarts DEF LifeInv, NeverBlind, HasPoller, Starters
  <2>3. CASE task[t].kind \notin {"seed", "resync"} BY <2>3, LifeStands
  <2> QED BY <2>1, <2>2, <2>3
<1>6. FaultInv' BY RealtimeServiceAssumption DEF FaultInv
<1> QED BY <1>3, <1>4, <1>5, <1>6, LinkStands, ConnStands, ViewStands DEF link

LEMMA DisposeKeeps ==
  ASSUME IInv, Dispose
  PROVE  IInv'
<1> USE DEF IInv, Dispose
<1>1. LifeInv' BY DEF LifeInv, NeverBlind, HasPoller
<1>2. ConnInv' BY DEF ConnInv, writes, link, LifeInv
<1> QED BY <1>1, <1>2, LinkStands, TaskStands, SeedStands, ViewStands, FaultsStand DEF link

-----------------------------------------------------------------------------
LEMMA NextKeeps == IInv /\ [Next]_vars => IInv'
<1> SUFFICES ASSUME IInv, [Next]_vars PROVE IInv'
  OBVIOUS
<1>1. Tasks \subseteq Workers BY DEF Workers
<1>2. CASE Hub BY <1>2, ServeKeeps, NotifyMutationKeeps DEF Hub
<1>3. CASE Starting
  BY <1>1, <1>3, ConnectKeeps, ConnectSucceedsKeeps, ConnectFailsKeeps, RetryKeeps, GoLiveKeeps,
     StartKeeps DEF Starting
<1>4. CASE Environment
  BY <1>1, <1>4, ChangeKeeps, WriteKeeps, DropKeeps, RefuseKeeps, DisposeKeeps, FailKeeps
     DEF Environment
<1>5. CASE Deliver \/ Publish \/ Reconnect \/ Close
  BY <1>5, DeliverKeeps, PublishKeeps, ReconnectKeeps, CloseKeeps
<1>6. CASE \E thread \in Starters : SayPolling(thread) \/ CreateTimer(thread)
  BY <1>6, SayPollingKeeps, CreateTimerKeeps
<1>7. ASSUME NEW w \in Workers, Thread(w) PROVE IInv'
  BY <1>7, SetIndexKeeps, SetSnapshotKeeps, AnswerDiffKeeps, AnswerQueueKeeps, CompareKeeps,
     PatchIndexKeeps, DeriveSnapshotFromIndexKeeps, UpdateHighestSequenceSeenKeeps DEF Thread
<1>8. CASE \E t \in Tasks : HandleReconnected(t) \/ PollOnce(t)
  BY <1>1, <1>8, HandleReconnectedKeeps, PollOnceKeeps
<1>9. CASE HandleReconnecting \/ HandleClosed
  BY <1>9, HandleReconnectingKeeps, HandleClosedKeeps
<1>10. CASE UNCHANGED vars
  BY <1>10, LinkStands, ConnStands, ViewStands, TaskStands, SeedStands, LifeStands, FaultsStand
     DEF IInv, vars, link
<1> QED BY <1>2, <1>3, <1>4, <1>5, <1>6, <1>7, <1>8, <1>9, <1>10 DEF Next

LEMMA Invariant == Spec => []IInv
BY InitIInv, NextKeeps, PTL DEF Spec

(***************************************************************************)
(* Type correctness: no number a circuit has seen, published or shown is   *)
(* ahead of the log, and nothing is on a connection that is down.          *)
(***************************************************************************)
THEOREM TypeCorrect == Spec => []TypeOK
<1>1. IInv => TypeOK
  <2> SUFFICES ASSUME IInv PROVE TypeOK
    OBVIOUS
  <2> USE DEF IInv
  <2>1. LinkTypeOK /\ log \in Seq(Entries) BY LinkTyped DEF LinkInv
  <2>2. unsent \subseteq DOMAIN log /\ outbox \subseteq DOMAIN log
    BY <2>1, LenProperties DEF ConnInv
  <2>3. \A w \in Workers : Idle(w) \/ task[w].kind \in Kinds BY DEF TaskInv, Busy, Idle
  <2> QED BY <2>1, <2>2, <2>3 DEF TypeOK, ConnInv, ViewInv, LifeInv, FaultInv, Kinds
<1> QED BY <1>1, Invariant, PTL

(***************************************************************************)
(* A circuit that has given up its connection polls or is about to, unless *)
(* it is disposed of, or took up the socket after that was closed.         *)
(***************************************************************************)
THEOREM AlwaysASource == Spec => []NeverBlind
<1>1. IInv => NeverBlind BY DEF IInv, LifeInv
<1> QED BY <1>1, Invariant, PTL
=============================================================================
