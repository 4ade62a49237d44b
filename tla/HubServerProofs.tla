-------------------------- MODULE HubServerProofs --------------------------
(***************************************************************************)
(* What the proofs about the hub's two clients share: what a queue as of a *)
(* change is, and what the messages of a connection can be.                *)
(***************************************************************************)
EXTENDS HubServer, FiniteSetTheorems, SequenceTheorems, TLAPS

(***************************************************************************)
(* A finite set of numbers has a largest. Of its upper parts, one for each *)
(* member, a smallest is that of the largest member.                       *)
(***************************************************************************)
LEMMA LargestIsLargest ==
  ASSUME NEW S \in SUBSET Int, IsFiniteSet(S), S # {}, NEW default
  PROVE  Largest(S, default) \in S /\ \A k \in S : k <= Largest(S, default)
<1> DEFINE Above(n) == {k \in S : n <= k}
           Parts == {Above(n) : n \in S}
<1>1. Parts \subseteq FiniteSubsetsOf(S) /\ Parts # {}
  <2>1. \A n \in S : Above(n) \in SUBSET S /\ IsFiniteSet(Above(n))
    BY FS_Subset
  <2> QED BY <2>1 DEF FiniteSubsetsOf
<1>2. PICK P \in Parts : \A Q \in Parts : <<Q, P>> \notin StrictSubsetOrdering(S)
  <2> HIDE DEF Parts
  <2> QED BY <1>1, FS_StrictSubsetOrderingWellFounded, WFMin
<1>3. PICK n \in S : P = Above(n)
  BY <1>2
<1>4. ASSUME NEW k \in S, n < k PROVE FALSE
  <2>1. Above(k) \in Parts /\ Above(k) \subseteq P /\ Above(k) # P /\ P \in SUBSET S
    <3>1. n \in P /\ n \notin Above(k) BY <1>3, <1>4
    <3>2. \A j \in S : k <= j => n <= j BY <1>4
    <3>3. Above(k) \subseteq P BY <1>3, <3>2
    <3>4. Above(k) \in Parts OBVIOUS
    <3> QED BY <1>3, <3>1, <3>3, <3>4
  <2> QED BY <1>2, <2>1 DEF StrictSubsetOrdering
<1>5. \A k \in S : k <= n
  BY <1>4
<1> QED BY <1>5 DEF Largest

(* The changes about e from one number to another are among those of the log. *)
LEMMA LargestTyped ==
  ASSUME NEW m \in Nat, NEW from \in Nat, NEW to \in 0 .. m, NEW S \in SUBSET (from + 1 .. to),
         NEW default \in 0 .. m
  PROVE  /\ Largest(S, default) \in 0 .. m
         /\ S # {} => Largest(S, default) \in S /\ \A k \in S : k <= Largest(S, default)
<1>1. IsFiniteSet(S)
  <2>1. IsFiniteSet(from + 1 .. to) BY FS_Interval
  <2> QED BY <2>1, FS_Subset
<1>2. CASE S = {}
  <2>1. Largest(S, default) = default BY <1>2 DEF Largest
  <2>2. Largest(S, default) \in 0 .. m BY <2>1
  <2> QED BY <1>2, <2>2
<1>3. CASE S # {}
  <2>1. S \in SUBSET Int OBVIOUS
  <2>2. Largest(S, default) \in S /\ \A k \in S : k <= Largest(S, default)
    BY <1>1, <1>3, <2>1, LargestIsLargest
  <2>3. \A k \in S : k \in 0 .. m OBVIOUS
  <2> QED BY <2>2, <2>3
<1> QED BY <1>2, <1>3

LEMMA PatchTyped ==
  ASSUME log \in Seq(Entries), NEW copies \in [Entries -> 0 .. Len(log)],
         NEW from \in Nat, NEW to \in 0 .. Len(log)
  PROVE  Patch(copies, from, to) \in [Entries -> 0 .. Len(log)]
<1>1. Len(log) \in Nat BY LenProperties
<1>2. ASSUME NEW e \in Entries
      PROVE  Largest({k \in from + 1 .. to : log[k] = e}, copies[e]) \in 0 .. Len(log)
  BY <1>1, LargestTyped
<1> QED BY <1>2 DEF Patch

LEMMA ShownAtTyped ==
  ASSUME log \in Seq(Entries), NEW n \in 0 .. Len(log)
  PROVE  ShownAt(n) \in [Entries -> 0 .. Len(log)]
<1>1. NoCopies \in [Entries -> 0 .. Len(log)] BY LenProperties DEF NoCopies
<1> QED BY <1>1, PatchTyped DEF ShownAt

(***************************************************************************)
(* Patched with a diff up to a number, copies show every change up to that *)
(* number that the diff has or that they showed before; or a later one.    *)
(***************************************************************************)
LEMMA PatchShows ==
  ASSUME log \in Seq(Entries), NEW copies \in [Entries -> 0 .. Len(log)],
         NEW from \in Nat, NEW to \in 0 .. Len(log), NEW k \in 1 .. to,
         from < k \/ copies[log[k]] >= k
  PROVE  Patch(copies, from, to)[log[k]] >= k
<1> DEFINE e == log[k]
           S == {j \in from + 1 .. to : log[j] = e}
<1>1. Len(log) \in Nat BY LenProperties
<1>2. e \in Entries /\ copies[e] \in 0 .. Len(log)
  <2>1. k \in 1 .. Len(log) BY <1>1
  <2> QED BY <2>1, ElementOfSeq
<1>3. Patch(copies, from, to)[e] = Largest(S, copies[e]) BY <1>2 DEF Patch
<1>4. CASE S = {}
  <2>1. k \notin S BY <1>4
  <2>2. ~(from < k) BY <1>1, <2>1
  <2>3. Largest(S, copies[e]) = copies[e] BY <1>4 DEF Largest
  <2> QED BY <1>3, <2>2, <2>3
<1>5. CASE S # {}
  <2>1. S \in SUBSET (from + 1 .. to) OBVIOUS
  <2>2. Largest(S, copies[e]) \in S /\ \A j \in S : j <= Largest(S, copies[e])
    <3> HIDE DEF S
    <3> QED BY <1>1, <1>2, <1>5, <2>1, LargestTyped
  <2>3. CASE from < k
    <3>1. k \in S BY <1>1, <2>3
    <3> HIDE DEF S
    <3> QED BY <1>3, <2>2, <3>1
  <2>4. CASE ~(from < k)
    <3>1. \A j \in S : j >= k BY <1>1, <2>4
    <3> HIDE DEF S
    <3> QED BY <1>3, <2>2, <3>1
  <2> QED BY <2>3, <2>4
<1> QED BY <1>4, <1>5

(* A queue as of a number shows every change up to it. *)
LEMMA QueueShows ==
  ASSUME log \in Seq(Entries), NEW n \in 0 .. Len(log), NEW k \in 1 .. n
  PROVE  ShownAt(n)[log[k]] >= k
<1>1. NoCopies \in [Entries -> 0 .. Len(log)] BY LenProperties DEF NoCopies
<1>2. 0 < k OBVIOUS
<1> QED BY <1>1, <1>2, PatchShows DEF ShownAt

-----------------------------------------------------------------------------
(***************************************************************************)
(* The connection. A push carries a queue no older than its number, and    *)
(* neither is ahead of the log.                                            *)
(***************************************************************************)
Carried == {m \in Message : IsBaseline(m) \/ m.seq <= m.version}

LinkInv ==
  /\ log \in Seq(Entries)
  /\ joined \in BOOLEAN /\ baseline \in {"none", "due", "read", "sent"}
  /\ floor \in 0 .. Len(log)
  /\ inbox \in Seq(Carried)

LEMMA LinkTyped ==
  ASSUME LinkInv
  PROVE  LinkTypeOK
<1>1. inbox \in Seq(Message)
  BY SeqMonotonic DEF LinkInv, Carried
<1> QED BY <1>1 DEF LinkInv, LinkTypeOK

LEMMA LinkStarts ==
  ASSUME LinkInit, log = <<>>
  PROVE  LinkInv
<1>1. log \in Seq(Entries) /\ Len(log) = 0 BY EmptySeq
<1>2. inbox \in Seq(Carried) BY EmptySeq DEF LinkInit
<1>3. joined \in BOOLEAN /\ baseline = "none" /\ floor = 0 BY DEF LinkInit
<1> QED BY <1>1, <1>2, <1>3 DEF LinkInv

(* Steps that leave the log alone. *)
LEMMA CarriedStands ==
  ASSUME UNCHANGED log
  PROVE  Carried' = Carried
BY DEF Carried, Message, IsBaseline

LEMMA LinkStands ==
  ASSUME LinkInv, UNCHANGED <<log, link>>
  PROVE  LinkInv'
BY CarriedStands DEF LinkInv, link

LEMMA LinkBreaks ==
  ASSUME LinkInv, LinkLost, UNCHANGED log
  PROVE  LinkInv'
<1>1. Len(log) \in Nat BY LenProperties DEF LinkInv
<1>2. inbox' \in Seq(Carried') BY EmptySeq DEF LinkLost
<1>3. joined' \in BOOLEAN /\ baseline' = "none" /\ floor' = 0 BY DEF LinkLost
<1>4. log' \in Seq(Entries) /\ Len(log') \in Nat BY <1>1 DEF LinkInv
<1> QED BY <1>2, <1>3, <1>4 DEF LinkInv

(* The log grows under the messages on their way. *)
LEMMA LogGrows ==
  ASSUME LinkInv, NEW e \in Entries, log' = Append(log, e), UNCHANGED link
  PROVE  /\ LinkInv'
         /\ Len(log) \in Nat /\ Len(log') = Len(log) + 1
<1>1. Len(log) \in Nat /\ Len(log') = Len(log) + 1 /\ log' \in Seq(Entries)
  BY LenProperties, AppendProperties DEF LinkInv
<1>2. Carried \subseteq Carried'
  BY <1>1 DEF Carried, Message, IsBaseline
<1>3. inbox' \in Seq(Carried)'
  BY <1>2, SeqMonotonic DEF LinkInv, link
<1> QED BY <1>1, <1>3 DEF LinkInv, link

LEMMA JoinKeeps ==
  ASSUME LinkInv, Join
  PROVE  LinkInv'
BY CarriedStands DEF LinkInv, Join

LEMMA ReadBaselineKeeps ==
  ASSUME LinkInv, ReadBaseline
  PROVE  LinkInv'
BY CarriedStands, LenProperties DEF LinkInv, ReadBaseline

LEMMA SendBaselineKeeps ==
  ASSUME LinkInv, SendBaseline
  PROVE  LinkInv'
<1> DEFINE message == [seq |-> floor, version |-> -1]
<1>1. Len(log) \in Nat BY LenProperties DEF LinkInv
<1>2. message \in Carried
  BY <1>1 DEF LinkInv, Carried, Message, IsBaseline
<1>3. Append(inbox, message) \in Seq(Carried)
  BY <1>2, AppendProperties DEF LinkInv
<1> QED BY <1>1, <1>3, CarriedStands DEF LinkInv, SendBaseline

LEMMA PushKeeps ==
  ASSUME LinkInv, NEW n \in 1 .. Len(log), Push(n), UNCHANGED log
  PROVE  LinkInv'
<1>1. Len(log) \in Nat BY LenProperties DEF LinkInv
<1>2. CASE joined
  <2>1. PICK m \in n .. Len(log) : inbox' = Append(inbox, [seq |-> n, version |-> m])
    BY <1>2 DEF Push
  <2>2. [seq |-> n, version |-> m] \in Carried
    BY <1>1 DEF Carried, Message, IsBaseline
  <2>3. inbox' \in Seq(Carried)
    BY <2>1, <2>2, AppendProperties DEF LinkInv
  <2> QED BY <2>3, CarriedStands DEF LinkInv, Push
<1>3. CASE ~joined
  BY <1>3, CarriedStands DEF LinkInv, Push
<1> QED BY <1>2, <1>3

(* The oldest message is taken off the connection. *)
LEMMA DeliveryKeeps ==
  ASSUME LinkInv, inbox # <<>>, inbox' = Tail(inbox), UNCHANGED <<log, joined, baseline, floor>>
  PROVE  /\ LinkInv'
         /\ Head(inbox) \in Carried
<1>1. Head(inbox) \in Carried /\ Tail(inbox) \in Seq(Carried)
  BY HeadTailProperties DEF LinkInv
<1> QED BY <1>1, CarriedStands DEF LinkInv
=============================================================================
