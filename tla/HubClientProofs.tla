-------------------------- MODULE HubClientProofs --------------------------
(***************************************************************************)
(* Theorems of HubClient: types, and what the tab's fallbacks and the      *)
(* guard of catchUp promise, for any log, any number of calls under way,   *)
(* drops and failures.                                                     *)
(***************************************************************************)
EXTENDS HubClient, HubServerProofs

-----------------------------------------------------------------------------
(***************************************************************************)
(* The inductive invariant, by what each part is about.                    *)
(***************************************************************************)
(* Messages are under way only on a connection that is up, or being stopped. *)
ConnInv ==
  /\ unsent \subseteq 1 .. Len(log)
  /\ joined \/ baseline # "none" \/ inbox # <<>> => conn \in {"connected", "closing"}

ViewInv ==
  /\ shown \in [Entries -> 0 .. Len(log)]
  /\ source \in {"none", "push", "catchUp", "fetch"}
  /\ highest \in 0 .. Len(log) /\ lastUpdate \in 0 .. highest
  /\ ReplayNeverUndoesPush

(* An answer that is a queue is not older than the number it comes with. *)
Asked ==
  {a \in [kind : Kinds, from : 0 .. Len(log), asked : 0 .. Len(log), seq : 0 .. Len(log),
          diff : BOOLEAN, version : 0 .. Len(log), answered : BOOLEAN] :
     a.answered /\ ~a.diff => a.seq <= a.version}

CallInv == call \in [Calls -> Asked \cup {NoCall}]

(* There is one seed, asked for by start() and waited for. *)
SeedInv ==
  \A c \in Calls : call[c].kind = "seed" =>
    at = "seeding" /\ \A d \in Calls : call[d].kind = "seed" => d = c

(***************************************************************************)
(* A connection is built once; an attempt at it is raced, or the race is   *)
(* lost and the fallback running.                                          *)
(***************************************************************************)
LifeInv ==
  /\ conn \in {"none", "starting", "connected", "reconnecting", "closing", "closed"}
  /\ at \in {"new", "seeding", "seeded", "racing", "late", "done"}
  /\ state \in {"connecting", "live", "reconnecting", "polling"}
  /\ timer \in BOOLEAN /\ disposed \in BOOLEAN
  /\ at \in {"new", "seeding", "seeded"} => conn = "none"
  /\ conn = "starting" => at = "racing" \/ (at = "late" /\ (timer \/ disposed))
  /\ NeverBlind /\ NoOrphanTimer

FaultInv == drops \in 0 .. MaxDrops /\ failures \in 0 .. MaxFailures

IInv == LinkInv /\ ConnInv /\ ViewInv /\ CallInv /\ SeedInv /\ LifeInv /\ FaultInv

LEMMA InitIInv == Init => IInv
<1> SUFFICES ASSUME Init PROVE IInv
  OBVIOUS
<1>1. Len(log) = 0 BY EmptySeq DEF Init
<1>2. LinkInv BY LinkStarts DEF Init
<1>3. ConnInv BY DEF ConnInv, Init, LinkInit
<1>4. ViewInv
  <2>1. shown \in [Entries -> 0 .. Len(log)] BY <1>1 DEF Init, NoCopies
  <2> QED BY <1>1, <2>1 DEF ViewInv, ReplayNeverUndoesPush, Init
<1>5. CallInv /\ SeedInv BY DEF CallInv, SeedInv, Init, NoCall
<1>6. LifeInv BY DEF LifeInv, NeverBlind, NoOrphanTimer, Init
<1>7. FaultInv BY HubClientAssumption DEF FaultInv, Init
<1> QED BY <1>2, <1>3, <1>4, <1>5, <1>6, <1>7 DEF IInv

(***************************************************************************)
(* Each part is about a few variables, and stands while they do.           *)
(***************************************************************************)
LEMMA LenIsNat == LinkInv => Len(log) \in Nat
BY LenProperties DEF LinkInv

LEMMA ConnStands ==
  ASSUME ConnInv, UNCHANGED <<log, unsent, joined, baseline, inbox, conn>>
  PROVE  ConnInv'
BY DEF ConnInv

LEMMA ViewStands ==
  ASSUME ViewInv, UNCHANGED <<log, view>>
  PROVE  ViewInv'
BY DEF ViewInv, ReplayNeverUndoesPush, view

LEMMA AskedStands ==
  ASSUME UNCHANGED log
  PROVE  Asked' = Asked
BY DEF Asked

LEMMA CallStands ==
  ASSUME CallInv, UNCHANGED <<log, call>>
  PROVE  CallInv'
BY AskedStands DEF CallInv

LEMMA SeedStands ==
  ASSUME SeedInv, UNCHANGED <<at, call>>
  PROVE  SeedInv'
BY DEF SeedInv

LEMMA LifeStands ==
  ASSUME LifeInv, UNCHANGED <<conn, at, state, timer, disposed>>
  PROVE  LifeInv'
BY DEF LifeInv, NeverBlind, NoOrphanTimer

LEMMA FaultsStand ==
  ASSUME FaultInv, UNCHANGED faults
  PROVE  FaultInv'
BY DEF FaultInv, faults

(* A call is added to those under way, or one of them is dropped. *)
LEMMA AskKeepsCalls ==
  ASSUME LinkInv, ViewInv, CallInv, NEW c \in Calls, NEW kind \in Kinds,
         call' = [call EXCEPT ![c] = Asking(kind, highest)], UNCHANGED log
  PROVE  CallInv'
<1>1. Asking(kind, highest) \in Asked
  BY LenIsNat DEF Asking, Asked, ViewInv
<1> QED BY <1>1, AskedStands DEF CallInv

LEMMA DropKeepsCalls ==
  ASSUME CallInv, NEW c \in Calls, call' = [call EXCEPT ![c] = NoCall], UNCHANGED log
  PROVE  CallInv'
BY AskedStands DEF CallInv

(* What a call that is not a seed does to the calls leaves the seed alone. *)
LEMMA OtherKeepsSeed ==
  ASSUME CallInv, SeedInv, NEW c \in Calls, call[c].kind # "seed", NEW new, new.kind # "seed",
         call' = [call EXCEPT ![c] = new], UNCHANGED at
  PROVE  SeedInv'
BY DEF CallInv, SeedInv

(* StartPolling, whatever else the step does, leaves a timer or a tab torn down. *)
LEMMA PollingStarts ==
  ASSUME LifeInv, StartPolling, UNCHANGED disposed
  PROVE  /\ timer' \in BOOLEAN /\ state' \in {"connecting", "live", "reconnecting", "polling"}
         /\ timer' \/ disposed
         /\ NoOrphanTimer'
BY DEF LifeInv, StartPolling, NoOrphanTimer

-----------------------------------------------------------------------------
(***************************************************************************)
(* The server's steps.                                                     *)
(***************************************************************************)
LEMMA ChangeKeeps ==
  ASSUME IInv, NEW e \in Entries, Change(e)
  PROVE  IInv'
<1> USE DEF IInv, Change
<1>1. LinkInv' /\ Len(log) \in Nat /\ Len(log') = Len(log) + 1
  BY LogGrows
<1>2. ConnInv'
  <2>1. UNCHANGED <<joined, baseline, inbox, conn>> /\ unsent' = unsent \cup {Len(log) + 1}
    BY DEF link, life
  <2>2. unsent' \subseteq 1 .. Len(log')
    <3> SUFFICES ASSUME NEW n \in unsent' PROVE n \in 1 .. Len(log')
      OBVIOUS
    <3>1. n \in 1 .. Len(log) \/ n = Len(log) + 1 BY <2>1 DEF ConnInv
    <3> DEFINE L == Len(log)
               M == Len(log')
    <3>2. L \in Nat /\ M = L + 1 /\ (n \in 1 .. L \/ n = L + 1) BY <1>1, <3>1
    <3> HIDE DEF L, M
    <3>3. n \in 1 .. M BY <3>2
    <3> QED BY <3>3 DEF M
  <2>3. joined' \/ baseline' # "none" \/ inbox' # <<>> => conn' \in {"connected", "closing"}
    BY <2>1 DEF ConnInv
  <2> HIDE DEF Change, IInv
  <2> QED BY <2>2, <2>3 DEF ConnInv
<1>3. ViewInv'
  <2>1. \A k \in 1 .. Len(log) : log'[k] = log[k] BY AppendProperties DEF LinkInv
  <2>2. \A k \in 1 .. lastUpdate : k \in 1 .. Len(log) BY <1>1 DEF ViewInv
  <2>3. UNCHANGED view OBVIOUS
  <2> HIDE DEF IInv, Change
  <2>4. ReplayNeverUndoesPush' BY <2>1, <2>2, <2>3 DEF IInv, ViewInv, ReplayNeverUndoesPush, view
  <2> QED BY <1>1, <2>3, <2>4 DEF IInv, ViewInv, view
<1>4. CallInv'
  <2>1. Asked \subseteq Asked' BY <1>1 DEF Asked
  <2> QED BY <2>1 DEF CallInv
<1>5. SeedInv' /\ LifeInv' /\ FaultInv'
  BY SeedStands, LifeStands, FaultsStand DEF life
<1> QED BY <1>1, <1>2, <1>3, <1>4, <1>5

LEMMA BroadcastKeeps ==
  ASSUME IInv, NEW n \in unsent, Broadcast(n)
  PROVE  IInv'
<1> USE DEF IInv, Broadcast
<1>1. LinkInv'
  <2>1. n \in 1 .. Len(log) BY DEF ConnInv
  <2>2. CASE Push(n) BY <2>1, <2>2, PushKeeps
  <2>3. CASE UNCHANGED link BY <2>3, LinkStands
  <2> QED BY <2>2, <2>3
<1>2. ConnInv' BY DEF ConnInv, Push, link, life
<1>3. FaultInv' BY HubClientAssumption DEF FaultInv
<1> QED BY <1>1, <1>2, <1>3, ViewStands, CallStands, SeedStands, LifeStands DEF life

LEMMA ServeKeeps ==
  ASSUME IInv, Serve
  PROVE  IInv'
<1> USE DEF IInv, Serve
<1>1. LinkInv' BY JoinKeeps, ReadBaselineKeeps, SendBaselineKeeps
<1>2. UNCHANGED log BY DEF Join, ReadBaseline, SendBaseline
<1>3. ConnInv' BY <1>2 DEF ConnInv, Join, ReadBaseline, SendBaseline, life
<1> QED BY <1>1, <1>2, <1>3, ViewStands, CallStands, SeedStands, LifeStands, FaultsStand DEF life

LEMMA AnswerKeeps ==
  ASSUME IInv, NEW c \in Calls, Answer(c)
  PROVE  IInv'
<1> USE DEF IInv, Answer
<1>1. call[c] \in Asked BY DEF CallInv, Idle
<1>2. PICK a \in Asked : call' = [call EXCEPT ![c] = a] /\ a.kind = call[c].kind
  <2> DEFINE Diff == Answered(call[c], Len(log), TRUE, 0)
             Queue(n) == Answered(call[c], n, FALSE, Len(log))
  <2>1. Len(log) \in Nat BY LenIsNat
  <2>2. Diff \in Asked /\ Diff.kind = call[c].kind
    BY <1>1, <2>1 DEF Asked, Answered
  <2>3. ASSUME NEW n \in call[c].asked .. Len(log)
        PROVE  Queue(n) \in Asked /\ Queue(n).kind = call[c].kind
    <3>1. n \in 0 .. Len(log) /\ n <= Len(log) BY <1>1, <2>1 DEF Asked
    <3> QED BY <1>1, <2>1, <3>1 DEF Asked, Answered
  <2>4. CASE call[c].kind = "since" /\ Len(log) - call[c].from <= MaxCatchUp
    BY <2>2, <2>4
  <2>5. CASE ~(call[c].kind = "since" /\ Len(log) - call[c].from <= MaxCatchUp)
    BY <2>3, <2>5
  <2> QED BY <2>4, <2>5
<1>3. CallInv' BY <1>2, AskedStands DEF CallInv, server
<1>4. SeedInv' BY <1>1, <1>2 DEF SeedInv, CallInv, life
<1> QED BY <1>3, <1>4, LinkStands, ConnStands, ViewStands, LifeStands, FaultsStand
       DEF server, link, life

-----------------------------------------------------------------------------
(***************************************************************************)
(* The client's steps: starting, ...                                       *)
(***************************************************************************)
LEMMA StartKeeps ==
  ASSUME IInv, NEW c \in Calls, Start(c)
  PROVE  IInv'
<1> USE DEF IInv, Start
<1>1. CallInv' BY AskKeepsCalls DEF Ask, Kinds, server
<1>2. SeedInv' BY DEF SeedInv, CallInv, Ask, Asking
<1>3. LifeInv' BY DEF LifeInv, NeverBlind, NoOrphanTimer
<1> QED BY <1>1, <1>2, <1>3, LinkStands, ConnStands, ViewStands, FaultsStand DEF server, link

LEMMA ConnectKeeps ==
  ASSUME IInv, Connect
  PROVE  IInv'
<1> USE DEF IInv, Connect
<1>1. LifeInv' BY DEF LifeInv, NeverBlind, NoOrphanTimer
<1>2. ConnInv' BY DEF ConnInv, LifeInv, server, link
<1>3. SeedInv' BY DEF SeedInv
<1> QED BY <1>1, <1>2, <1>3, LinkStands, CallStands, ViewStands, FaultsStand DEF server, link

LEMMA ConnectSucceedsKeeps ==
  ASSUME IInv, ConnectSucceeds
  PROVE  IInv'
<1> USE DEF IInv, ConnectSucceeds
<1>1. LifeInv' BY DEF LifeInv, NeverBlind, NoOrphanTimer
<1>2. ConnInv' BY DEF ConnInv, server, link
<1>3. SeedInv' BY DEF SeedInv, LifeInv
<1> QED BY <1>1, <1>2, <1>3, LinkStands, CallStands, ViewStands, FaultsStand DEF server, link

LEMMA ConnectFailsKeeps ==
  ASSUME IInv, ConnectFails
  PROVE  IInv'
<1> USE DEF IInv, ConnectFails
<1>1. LifeInv'
  <2>1. CASE at = "racing" BY <2>1, PollingStarts DEF LifeInv, NeverBlind
  <2>2. CASE at # "racing" BY <2>2 DEF LifeInv, NeverBlind, NoOrphanTimer
  <2> QED BY <2>1, <2>2
<1>2. ConnInv' BY DEF ConnInv, server, link
<1>3. SeedInv' BY DEF SeedInv, LifeInv
<1> QED BY <1>1, <1>2, <1>3, LinkStands, CallStands, ViewStands, FaultsStand DEF server, link

LEMMA ConnectTimesOutKeeps ==
  ASSUME IInv, ConnectTimesOut
  PROVE  IInv'
<1> USE DEF IInv, ConnectTimesOut
<1>1. LifeInv' BY PollingStarts DEF LifeInv, NeverBlind
<1>2. SeedInv' BY DEF SeedInv
<1> QED BY <1>1, <1>2, LinkStands, ConnStands, CallStands, ViewStands, FaultsStand DEF server, link

(***************************************************************************)
(* ... following the connection, ...                                       *)
(***************************************************************************)
LEMMA DeliverKeeps ==
  ASSUME IInv, Deliver
  PROVE  IInv'
<1> USE DEF IInv, Deliver
<1>1. LinkInv' /\ Head(inbox) \in Carried BY DeliveryKeeps DEF server
<1>2. UNCHANGED log /\ Len(log) \in Nat BY LenIsNat DEF server
<1>3. ConnInv' BY DEF ConnInv, server, life
<1>4. ViewInv'
  <2> DEFINE message == Head(inbox)
  <2>1. message.seq \in 0 .. Len(log) /\ message.version \in -1 .. Len(log)
        /\ (IsBaseline(message) \/ message.seq <= message.version)
    BY <1>1 DEF Carried, Message
  <2>2. highest' \in 0 .. Len(log) /\ highest' >= highest /\ highest' >= message.seq
    BY <1>2, <2>1 DEF Receive, MaxOf, ViewInv
  <2>3. CASE IsBaseline(message)
    <3>1. UNCHANGED <<shown, source, lastUpdate>> BY <2>3 DEF Receive
    <3> HIDE DEF message
    <3> QED BY <1>2, <2>2, <3>1 DEF ViewInv, ReplayNeverUndoesPush
  <2>4. CASE ~IsBaseline(message)
    <3>1. shown' = ShownAt(message.version) /\ source' = "push" /\ lastUpdate' = message.seq
      BY <2>4 DEF Receive
    <3>2. message.version \in 0 .. Len(log) BY <1>2, <2>1, <2>4 DEF IsBaseline
    <3>3. shown' \in [Entries -> 0 .. Len(log)] BY <3>1, <3>2, ShownAtTyped DEF LinkInv
    <3>4. \A k \in 1 .. lastUpdate' : shown'[log[k]] >= k
      <4>1. \A k \in 1 .. message.seq : k \in 1 .. message.version BY <1>2, <2>1, <2>4
      <4> QED BY <3>1, <3>2, <4>1, QueueShows DEF LinkInv
    <3> HIDE DEF message
    <3> QED BY <1>2, <2>1, <2>2, <3>1, <3>3, <3>4 DEF ViewInv, ReplayNeverUndoesPush
  <2> QED BY <2>3, <2>4
<1> QED BY <1>1, <1>2, <1>3, <1>4, CallStands, SeedStands, LifeStands, FaultsStand DEF life

LEMMA DropKeeps ==
  ASSUME IInv, Drop
  PROVE  IInv'
<1> USE DEF IInv, Drop
<1>1. LinkInv' BY LinkBreaks DEF server
<1>2. ConnInv' BY DEF ConnInv, LinkLost, server
<1>3. LifeInv' BY DEF LifeInv, NeverBlind, NoOrphanTimer
<1>4. FaultInv' BY HubClientAssumption DEF FaultInv
<1> QED BY <1>1, <1>2, <1>3, <1>4, CallStands, SeedStands, ViewStands DEF server

LEMMA ReconnectKeeps ==
  ASSUME IInv, NEW c \in Calls, Reconnect(c)
  PROVE  IInv'
<1> USE DEF IInv, Reconnect
<1>1. CallInv' BY AskKeepsCalls DEF Ask, Kinds, server
<1>2. SeedInv'
  <2>1. call[c].kind # "seed" BY DEF Ask, Idle, NoCall
  <2>2. Asking("since", highest).kind # "seed" BY DEF Asking
  <2> QED BY <2>1, <2>2, OtherKeepsSeed DEF Ask
<1>3. LifeInv' BY DEF LifeInv, NeverBlind, NoOrphanTimer
<1>4. ConnInv' BY DEF ConnInv, server, link
<1> QED BY <1>1, <1>2, <1>3, <1>4, LinkStands, ViewStands, FaultsStand DEF server, link

LEMMA CloseKeeps ==
  ASSUME IInv, Close
  PROVE  IInv'
<1> USE DEF IInv, Close
<1>1. LinkInv' BY LinkBreaks DEF server
<1>2. ConnInv' BY DEF ConnInv, LinkLost, server
<1>3. LifeInv' BY PollingStarts DEF LifeInv, NeverBlind
<1>4. SeedInv' BY DEF SeedInv
<1> QED BY <1>1, <1>2, <1>3, <1>4, CallStands, ViewStands, FaultsStand DEF server

LEMMA RefuseKeeps ==
  ASSUME IInv, Refuse
  PROVE  IInv'
<1> USE DEF IInv, Refuse
<1>1. LinkInv' BY LinkBreaks DEF server
<1>2. ConnInv' BY DEF ConnInv, LinkLost, server
<1>3. LifeInv' BY PollingStarts DEF LifeInv, NeverBlind
<1>4. FaultInv' BY HubClientAssumption DEF FaultInv
<1> QED BY <1>1, <1>2, <1>3, <1>4, CallStands, SeedStands, ViewStands DEF server

(***************************************************************************)
(* ... and making the calls of catch-up and polling, whose answers, late   *)
(* or not, never put an older queue over a newer push.                     *)
(***************************************************************************)
LEMMA PollOnceKeeps ==
  ASSUME IInv, NEW c \in Calls, PollOnce(c)
  PROVE  IInv'
<1> USE DEF IInv, PollOnce
<1>1. CallInv' BY AskKeepsCalls DEF Ask, Kinds, server
<1>2. SeedInv'
  <2>1. call[c].kind # "seed" BY DEF Ask, Idle, NoCall
  <2>2. Asking("poll", highest).kind # "seed" BY DEF Asking
  <2> QED BY <2>1, <2>2, OtherKeepsSeed DEF Ask, life
<1> QED BY <1>1, <1>2, LinkStands, ConnStands, ViewStands, LifeStands, FaultsStand
       DEF server, link, life

(* Replay: an answer no lower than any number seen, so as new as the last push. *)
LEMMA ReplayKeepsView ==
  ASSUME LinkInv, ViewInv, NEW c \in Calls, call[c] \in Asked, call[c].answered,
         Replay(c), UNCHANGED log
  PROVE  ViewInv'
<1> DEFINE a == call[c]
           L == Len(log)
<1>1. L \in Nat BY LenIsNat
<1>2. /\ a.seq \in 0 .. L /\ a.from \in 0 .. L /\ a.version \in 0 .. L
      /\ a.diff \in BOOLEAN /\ (~a.diff => a.seq <= a.version)
  BY DEF Asked
<1>3. highest' \in 0 .. L /\ highest' >= highest /\ lastUpdate' = lastUpdate
  BY <1>1, <1>2 DEF Replay, MaxOf, ViewInv
<1>5. CASE a.seq < highest
  <2>1. UNCHANGED <<shown, source>> BY <1>5 DEF Replay
  <2> HIDE DEF a
  <2> QED BY <1>1, <1>3, <2>1 DEF ViewInv, ReplayNeverUndoesPush
<1>6. CASE a.seq >= highest
  <2>1. \A k \in 1 .. lastUpdate : k \in 1 .. a.seq BY <1>1, <1>2, <1>6 DEF ViewInv
  <2>2. CASE a.diff
    <3>1. shown' = Patch(shown, a.from, a.seq) /\ source' = source
      BY <1>1, <1>2, <1>6, <2>2 DEF Replay, ViewInv
    <3>2. a.from \in Nat /\ shown \in [Entries -> 0 .. L] /\ log \in Seq(Entries)
      BY <1>2 DEF ViewInv, LinkInv
    <3>3. shown' \in [Entries -> 0 .. L]
      <4> HIDE DEF a
      <4> QED BY <1>2, <3>1, <3>2, PatchTyped
    <3>4. ASSUME NEW k \in 1 .. lastUpdate, shown[log[k]] >= k
          PROVE  shown'[log[k]] >= k
      <4>1. k \in 1 .. a.seq BY <2>1
      <4> HIDE DEF a
      <4> QED BY <1>2, <3>1, <3>2, <3>4, <4>1, PatchShows
    <3> HIDE DEF a
    <3> QED BY <1>1, <1>3, <3>1, <3>3, <3>4 DEF ViewInv, ReplayNeverUndoesPush
  <2>3. CASE ~a.diff
    <3>1. shown' = ShownAt(a.version) /\ source' = "catchUp"
      BY <1>1, <1>2, <1>6, <2>3 DEF Replay, ViewInv
    <3>2. shown' \in [Entries -> 0 .. L] BY <1>2, <3>1, ShownAtTyped DEF LinkInv
    <3>3. \A k \in 1 .. lastUpdate : shown'[log[k]] >= k
      <4>1. \A k \in 1 .. lastUpdate : k \in 1 .. a.version BY <1>1, <1>2, <2>1, <2>3
      <4> HIDE DEF a
      <4> QED BY <1>2, <3>1, <4>1, QueueShows DEF LinkInv
    <3> HIDE DEF a
    <3> QED BY <1>1, <1>3, <3>1, <3>2, <3>3 DEF ViewInv, ReplayNeverUndoesPush
  <2> QED BY <1>2, <2>2, <2>3
<1> QED BY <1>1, <1>2, <1>5, <1>6 DEF ViewInv

LEMMA FetchedKeepsView ==
  ASSUME LinkInv, ViewInv, NEW c \in Calls, call[c] \in Asked, Fetched(c), UNCHANGED log
  PROVE  ViewInv'
<1> DEFINE a == call[c]
<1>1. Len(log) \in Nat BY LenIsNat
<1>2. a.seq \in 0 .. Len(log) /\ a.version \in 0 .. Len(log) BY DEF Asked
<1>3. highest' \in 0 .. Len(log) /\ highest' >= highest /\ lastUpdate' = lastUpdate
  BY <1>1, <1>2 DEF Fetched, MaxOf, ViewInv
<1>4. shown' \in [Entries -> 0 .. Len(log)] /\ source' = "fetch"
  BY <1>2, ShownAtTyped DEF Fetched, LinkInv
<1> QED BY <1>1, <1>3, <1>4 DEF ViewInv, ReplayNeverUndoesPush

LEMMA HandleKeeps ==
  ASSUME IInv, NEW c \in Calls, Handle(c)
  PROVE  IInv'
<1> USE DEF IInv, Handle
<1>1. call[c] \in Asked BY DEF CallInv, Idle
<1>2. ViewInv' BY <1>1, ReplayKeepsView, FetchedKeepsView DEF server
<1>3. CallInv' BY DropKeepsCalls DEF server
<1>4. SeedInv'
  <2>1. CASE call[c].kind = "seed"
    BY <2>1 DEF SeedInv, CallInv, NoCall
  <2>2. CASE call[c].kind # "seed"
    BY <2>2, OtherKeepsSeed DEF NoCall
  <2> QED BY <2>1, <2>2
<1>5. LifeInv'
  <2>1. CASE call[c].kind = "seed"
    <3>1. at = "seeding" /\ conn = "none" BY <2>1 DEF SeedInv, LifeInv
    <3> QED BY <2>1, <3>1 DEF LifeInv, NeverBlind, NoOrphanTimer
  <2>2. CASE call[c].kind # "seed"
    BY <2>2 DEF LifeInv, NeverBlind, NoOrphanTimer
  <2> QED BY <2>1, <2>2
<1> QED BY <1>2, <1>3, <1>4, <1>5, LinkStands, ConnStands, FaultsStand DEF server, link

LEMMA FailKeeps ==
  ASSUME IInv, NEW c \in Calls, Fail(c)
  PROVE  IInv'
<1> USE DEF IInv, Fail
<1> DEFINE new == IF call[c].kind = "since" THEN Asking("resync", highest) ELSE NoCall
<1>1. call[c] \in Asked /\ call' = [call EXCEPT ![c] = new] BY DEF CallInv, Idle
<1>2. CallInv'
  <2>1. CASE call[c].kind = "since" BY <1>1, <2>1, AskKeepsCalls DEF Kinds, server
  <2>2. CASE call[c].kind # "since" BY <1>1, <2>2, DropKeepsCalls DEF server
  <2> QED BY <2>1, <2>2
<1>3. new.kind # "seed" BY DEF Asking, NoCall
<1>4. SeedInv'
  <2>1. CASE call[c].kind = "seed"
    BY <1>1, <2>1 DEF SeedInv, CallInv, NoCall
  <2>2. CASE call[c].kind # "seed"
    BY <1>1, <1>3, <2>2, OtherKeepsSeed
  <2> QED BY <2>1, <2>2
<1>5. LifeInv'
  <2>1. CASE call[c].kind = "seed"
    <3>1. at = "seeding" /\ conn = "none" BY <2>1 DEF SeedInv, LifeInv
    <3> QED BY <2>1, <3>1 DEF LifeInv, NeverBlind, NoOrphanTimer
  <2>2. CASE call[c].kind = "resync"
    BY <2>2, PollingStarts DEF LifeInv, NeverBlind
  <2>3. CASE call[c].kind \notin {"seed", "resync"}
    BY <2>3 DEF LifeInv, NeverBlind, NoOrphanTimer
  <2> QED BY <2>1, <2>2, <2>3
<1>6. FaultInv' BY HubClientAssumption DEF FaultInv
<1> QED BY <1>2, <1>4, <1>5, <1>6, LinkStands, ConnStands, ViewStands DEF server, link

LEMMA StopKeeps ==
  ASSUME IInv, Stop
  PROVE  IInv'
<1> USE DEF IInv, Stop
<1>1. LifeInv' BY DEF LifeInv, NeverBlind, NoOrphanTimer
<1>2. ConnInv' BY DEF ConnInv, server, link
<1> QED BY <1>1, <1>2, LinkStands, CallStands, SeedStands, ViewStands, FaultsStand DEF server, link

-----------------------------------------------------------------------------
LEMMA NextKeeps == IInv /\ [Next]_vars => IInv'
<1> SUFFICES ASSUME IInv, [Next]_vars PROVE IInv'
  OBVIOUS
<1>1. CASE Server BY <1>1, BroadcastKeeps, ServeKeeps, AnswerKeeps DEF Server
<1>2. CASE Client
  BY <1>2, ConnectKeeps, ConnectSucceedsKeeps, ConnectFailsKeeps, ConnectTimesOutKeeps,
     DeliverKeeps, CloseKeeps, StartKeeps, ReconnectKeeps, HandleKeeps DEF Client
<1>3. CASE Environment
  BY <1>3, ChangeKeeps, DropKeeps, RefuseKeeps, StopKeeps, FailKeeps DEF Environment
<1>4. CASE \E c \in Calls : PollOnce(c) BY <1>4, PollOnceKeeps
<1>5. CASE UNCHANGED vars
  BY <1>5, LinkStands, ConnStands, ViewStands, CallStands, SeedStands, LifeStands, FaultsStand
     DEF IInv, vars, server, link, life
<1> QED BY <1>1, <1>2, <1>3, <1>4, <1>5 DEF Next

LEMMA Invariant == Spec => []IInv
BY InitIInv, NextKeeps, PTL DEF Spec

(***************************************************************************)
(* Type correctness: no number a tab has seen, asked from or shown is      *)
(* ahead of the log, and nothing is on a connection that is down.          *)
(***************************************************************************)
THEOREM TypeCorrect == Spec => []TypeOK
<1>1. IInv => TypeOK
  <2> SUFFICES ASSUME IInv PROVE TypeOK
    OBVIOUS
  <2> USE DEF IInv
  <2>1. LinkTypeOK /\ log \in Seq(Entries) BY LinkTyped DEF LinkInv
  <2>2. unsent \subseteq DOMAIN log BY <2>1, LenProperties DEF ConnInv
  <2>3. \A c \in Calls : Idle(c) \/ call[c].kind \in Kinds BY DEF CallInv, Asked, Idle
  <2> QED BY <2>1, <2>2, <2>3 DEF TypeOK, ConnInv, ViewInv, LifeInv, FaultInv
<1> QED BY <1>1, Invariant, PTL

(***************************************************************************)
(* A tab that has given up its connection polls, or has been torn down.    *)
(***************************************************************************)
THEOREM AlwaysASource == Spec => []NeverBlind
<1>1. IInv => NeverBlind BY DEF IInv, LifeInv
<1> QED BY <1>1, Invariant, PTL

(* No timer outlives stop(). *)
THEOREM StopIsFinal == Spec => []NoOrphanTimer
<1>1. IInv => NoOrphanTimer BY DEF IInv, LifeInv
<1> QED BY <1>1, Invariant, PTL

(***************************************************************************)
(* No replay takes out of view a change up to the last push's number: it   *)
(* stays, or gives way to a later one about the same entry.                *)
(***************************************************************************)
THEOREM PushesOutlastReplays == Spec => []ReplayNeverUndoesPush
<1>1. IInv => ReplayNeverUndoesPush BY DEF IInv, ViewInv
<1> QED BY <1>1, Invariant, PTL
=============================================================================
