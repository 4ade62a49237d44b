-------------------------- MODULE AngularTabProofs --------------------------
(***************************************************************************)
(* Theorems about the two Angular apps and the tab that runs one of them.  *)
(***************************************************************************)
EXTENDS AngularTab, FiniteSetTheorems, TLAPS

(***************************************************************************)
(* StaffConsole and its DocumentViewer: the viewer's invariant first, over *)
(* the viewer's own steps, then the console's, whose every step leaves the *)
(* viewer alone or is one of these.                                        *)
(***************************************************************************)
(***************************************************************************)
(* Until an entry changes too early there is one request at most, it is    *)
(* for what is selected, and nothing can be selected while it lasts. The   *)
(* first conjunct holds always: a URL is for the content fetched, unless   *)
(* the effect that replaces it is due.                                     *)
(***************************************************************************)
Settled ==
  /\ "blob" \notin due => objectUrl \in {None, selectedBlob}
  /\ ~overlapped =>
       /\ \A l, k \in loads : l = k
       /\ \A l \in loads : l.entry = entryId /\ (l.doc # None => l.doc = selectedDocId)
       /\ offered # {} \/ "doc" \in due => loads = {}
       /\ "blob" \in due /\ "doc" \notin due => selectedBlob.doc = selectedDocId

ViewerInv == ViewerTypeOK /\ UrlsAreShown /\ StaleOnlyAfterOverlap /\ Settled

LEMMA ViewerInitInv == ViewerInit => ViewerInv
<1> SUFFICES ASSUME ViewerInit PROVE ViewerInv OBVIOUS
<1>1. ViewerTypeOK BY DEF ViewerInit, ViewerTypeOK
<1>2. UrlsAreShown BY DEF ViewerInit, UrlsAreShown
<1>3. StaleOnlyAfterOverlap BY DEF ViewerInit, StaleOnlyAfterOverlap
<1>4. Settled BY DEF ViewerInit, Settled
<1> QED BY <1>1, <1>2, <1>3, <1>4 DEF ViewerInv

LEMMA TearDownInv == ViewerInv /\ TearDown => ViewerInv'
<1> SUFFICES ASSUME ViewerInv, TearDown PROVE ViewerInv' OBVIOUS
<1>1. ViewerTypeOK' BY DEF TearDown, ViewerInv, ViewerTypeOK
<1>2. UrlsAreShown' BY DEF TearDown, ViewerInv, UrlsAreShown
<1>3. StaleOnlyAfterOverlap' BY DEF TearDown, StaleOnlyAfterOverlap
<1>4. Settled' BY DEF TearDown, Settled
<1> QED BY <1>1, <1>2, <1>3, <1>4 DEF ViewerInv

LEMMA SelectInv == ASSUME NEW d \in Documents, ViewerInv, SelectDocument(d) PROVE ViewerInv'
<1> USE DEF SelectDocument, content, ViewerInv
<1>1. ViewerTypeOK' BY DEF ViewerTypeOK
<1>2. UrlsAreShown' BY DEF UrlsAreShown
<1>3. StaleOnlyAfterOverlap'
  <2>1. d = selectedDocId \/ "doc" \in due' OBVIOUS
  <2> QED BY <2>1 DEF StaleOnlyAfterOverlap
<1>4. Settled' BY DEF Settled
<1> QED BY <1>1, <1>2, <1>3, <1>4

LEMMA LoadFailsInv == ASSUME NEW l \in loads, ViewerInv, LoadFails(l) PROVE ViewerInv'
<1> USE DEF LoadFails, content, ViewerInv
<1>1. ViewerTypeOK' BY DEF ViewerTypeOK
<1>2. UrlsAreShown' BY DEF UrlsAreShown
<1>3. StaleOnlyAfterOverlap' BY DEF StaleOnlyAfterOverlap, Settled
<1>4. Settled' BY DEF Settled
<1> QED BY <1>1, <1>2, <1>3, <1>4

LEMMA LoadedInv == ASSUME NEW l \in loads, ViewerInv, Loaded(l) PROVE ViewerInv'
<1> USE DEF Loaded, ViewerInv
<1>1. ViewerTypeOK'
  <2>1. DocumentsOf(l.entry) \subseteq Documents
    BY DEF ViewerTypeOK, Requests, Documents, DocumentsOf
  <2>2. l.doc # None => l \in Contents BY DEF ViewerTypeOK, Contents
  <2> QED BY <2>1, <2>2 DEF ViewerTypeOK
<1>2. UrlsAreShown' BY DEF UrlsAreShown
<1>3. StaleOnlyAfterOverlap' BY DEF StaleOnlyAfterOverlap, Settled
<1>4. Settled' BY DEF Settled
<1> QED BY <1>1, <1>2, <1>3, <1>4

LEMMA DetectInv == ASSUME NEW e \in Entries, ViewerInv, Detect(e) PROVE ViewerInv'
<1> USE DEF Detect, ViewerInv
<1>1. Asks(e) \subseteq Requests
  BY DEF Asks, Requests, ViewerTypeOK
<1>2. ViewerTypeOK'
  <2>1. objectUrl' \in Contents \cup {None} /\ selectedBlob' \in Contents \cup {None}
    BY DEF ViewerTypeOK, UrlAfter, BlobAfter
  <2>2. live' \subseteq Contents BY <2>1 DEF ViewerTypeOK
  <2>3. loads' \subseteq Requests /\ asked' \in Nat BY <1>1 DEF ViewerTypeOK
  <2>4. loading' \in BOOLEAN /\ overlapped' \in BOOLEAN BY DEF ViewerTypeOK
  <2>5. /\ documents' \subseteq Documents /\ offered' \subseteq Documents
        /\ selectedDocId' \in Documents \cup {None}
    BY DEF ViewerTypeOK, DocAfter
  <2> QED BY <2>1, <2>2, <2>3, <2>4, <2>5 DEF ViewerTypeOK
<1>3. UrlsAreShown'
  BY DEF UrlsAreShown, UrlAfter, Revokes
<1>4. CASE EntryChanges(e)
  <2>1. Asks(e) = {[n |-> asked + 1, entry |-> e, doc |-> None]} BY <1>4 DEF Asks
  <2>2. selectedDocId' = None /\ documents' = {} /\ offered' = {} /\ due' = {}
    BY <1>4, <2>1 DEF DocAfter
  <2>3. objectUrl' \in {None, selectedBlob'} BY <1>4 DEF UrlAfter, Revokes
  <2>4. objectUrl' # None => BlobChanges(e) BY <1>4 DEF UrlAfter, Revokes
  <2>5. ~overlapped' => loads = {} /\ due = {} BY <1>4
  <2>6. ~overlapped' => objectUrl' = None
    BY <2>3, <2>4, <2>5 DEF BlobChanges, BlobAfter
  <2>7. ~overlapped' => loads' = Asks(e) BY <2>5
  <2>8. StaleOnlyAfterOverlap' BY <2>1, <2>2, <2>6, <2>7 DEF StaleOnlyAfterOverlap
  <2>9. Settled' BY <2>1, <2>2, <2>3, <2>7 DEF Settled
  <2> QED BY <1>2, <1>3, <2>8, <2>9
<1>5. CASE ~EntryChanges(e) /\ "doc" \in due
  <2>1. e = entryId /\ selectedDocId' = selectedDocId /\ documents' = documents /\ due' = {}
    BY <1>5 DEF EntryChanges, DocAfter
  <2>2. selectedBlob' = None BY <1>5 DEF BlobAfter, SelectionChanges
  <2>3. objectUrl' = None
    BY <1>5, <2>2 DEF UrlAfter, Revokes, BlobChanges, BlobAfter, SelectionChanges, Settled
  <2>4. ~overlapped' => loads = {} BY <1>5 DEF Settled
  <2>5. \A l \in Asks(e) : l.entry = e /\ l.doc = selectedDocId
    BY <1>5 DEF Asks
  <2>6. \A l, k \in Asks(e) : l = k BY <1>5 DEF Asks
  <2>7. ~overlapped' => loads' = Asks(e) BY <2>4
  <2>8. ~overlapped' => (loading' <=> loads' # {})
    BY <1>5, <2>4, <2>7 DEF StaleOnlyAfterOverlap
  <2>9. StaleOnlyAfterOverlap' BY <1>5, <2>1, <2>3, <2>8 DEF StaleOnlyAfterOverlap
  <2>10. Settled' BY <2>1, <2>3, <2>5, <2>6, <2>7, <2>8 DEF Settled
  <2> QED BY <1>2, <1>3, <2>9, <2>10
<1>6. CASE ~EntryChanges(e) /\ "doc" \notin due
  <2>1. /\ e = entryId /\ selectedDocId' = selectedDocId /\ selectedBlob' = selectedBlob
        /\ documents' = documents /\ due' = {} /\ overlapped' = overlapped
    BY <1>6 DEF EntryChanges, DocAfter, BlobAfter, SelectionChanges
  <2>2. Asks(e) = {} BY <1>6 DEF Asks, SelectionChanges, DocAfter
  <2>3. loads' = loads /\ (loading' <=> loading) BY <2>2
  <2>4. objectUrl' = IF "blob" \in due THEN selectedBlob ELSE objectUrl
    BY <1>6, <2>1 DEF UrlAfter, Revokes, BlobChanges, BlobAfter, SelectionChanges, DocAfter
  <2>5. StaleOnlyAfterOverlap' BY <1>6, <2>1, <2>3, <2>4 DEF StaleOnlyAfterOverlap, Settled
  <2>6. Settled' BY <1>6, <2>1, <2>3, <2>4 DEF StaleOnlyAfterOverlap, Settled
  <2> QED BY <1>2, <1>3, <2>5, <2>6
<1> QED BY <1>4, <1>5, <1>6

(* What a step of the console does to the viewer is one of these. *)
LEMMA ViewerStep == ViewerInv /\ [ViewerNext]_viewerVars => ViewerInv'
<1> SUFFICES ASSUME ViewerInv, [ViewerNext]_viewerVars PROVE ViewerInv' OBVIOUS
<1>1. ASSUME NEW e \in Entries \cup {None}, Pass(e) PROVE ViewerInv'
  BY <1>1, TearDownInv, DetectInv DEF Pass
<1>2. CASE UNCHANGED viewerVars
  BY <1>2 DEF viewerVars, content, ViewerInv, ViewerTypeOK, UrlsAreShown,
              StaleOnlyAfterOverlap, Settled
<1> QED BY <1>1, <1>2, SelectInv, LoadedInv, LoadFailsInv DEF ViewerNext

-----------------------------------------------------------------------------
StaffInv == StaffTypeOK /\ ViewerInv

LEMMA StaffInitInv == StaffInit => StaffInv
BY ViewerInitInv, StaffConsoleAssumption
DEF StaffInit, StaffInv, StaffTypeOK, ViewerInv, Keys

LEMMA ConsoleStep == StaffTypeOK /\ [StaffNext]_staffVars => [ViewerNext]_viewerVars
<1> SUFFICES ASSUME StaffTypeOK, [StaffNext]_staffVars PROVE [ViewerNext]_viewerVars OBVIOUS
<1>1. CASE Render
  BY <1>1 DEF Render, StaffTypeOK, ViewerNext
<1>2. ASSUME NEW d \in Documents, View(d) PROVE ViewerNext
  BY <1>2 DEF View, ViewerNext
<1>3. ASSUME NEW n \in 1 .. asked, Answer(n) PROVE ViewerNext
  BY <1>3 DEF Answer, Answered, ViewerNext
<1>4. CASE Rotate \/ VerifyServed \/ Verified \/ ActionServed \/ Acted
  BY <1>4 DEF Rotate, VerifyServed, Verified, ActionServed, Acted
<1>5. ASSUME NEW k \in Keys, SubmitKey(k) PROVE UNCHANGED viewerVars
  BY <1>5 DEF SubmitKey
<1>6. ASSUME NEW e \in Entries \cup {None}, Act(e) PROVE UNCHANGED viewerVars
  BY <1>6 DEF Act
<1>7. ASSUME NEW e \in Entries, SelectEntry(e) PROVE UNCHANGED viewerVars
  BY <1>7 DEF SelectEntry
<1>8. CASE UNCHANGED staffVars BY <1>8 DEF staffVars
<1> QED BY <1>1, <1>2, <1>3, <1>4, <1>5, <1>6, <1>7, <1>8 DEF StaffNext, Click

LEMMA ConsoleType == StaffTypeOK /\ ViewerTypeOK' /\ [StaffNext]_staffVars => StaffTypeOK'
<1> SUFFICES ASSUME StaffTypeOK, ViewerTypeOK', [StaffNext]_staffVars PROVE StaffTypeOK' OBVIOUS
<1> USE StaffConsoleAssumption DEF StaffTypeOK
<1>1. CASE Rotate BY <1>1 DEF Rotate
<1>2. CASE Render BY <1>2 DEF Render
<1>3. CASE VerifyServed \/ Verified
  BY <1>3 DEF VerifyServed, StaffAuth, Verified, Lost, Answers
<1>4. CASE ActionServed \/ Acted
  BY <1>4 DEF ActionServed, StaffAuth, Acted, Lost, HandleActionError, Actions, Answers
<1>5. CASE Click
  <2>1. ASSUME NEW k \in Keys, SubmitKey(k) PROVE StaffTypeOK'
    BY <2>1 DEF SubmitKey, Answers
  <2>2. ASSUME NEW e \in Entries \cup {None}, Act(e) PROVE StaffTypeOK'
    BY <2>2 DEF Act, Actions, Answers
  <2>3. ASSUME NEW e \in Entries, SelectEntry(e) PROVE StaffTypeOK' BY <2>3 DEF SelectEntry
  <2>4. ASSUME NEW d \in Documents, View(d) PROVE StaffTypeOK' BY <2>4 DEF View, consoleVars
  <2> QED BY <1>5, <2>1, <2>2, <2>3, <2>4 DEF Click
<1>6. ASSUME NEW n, Answer(n) PROVE StaffTypeOK' BY <1>6 DEF Answer, consoleVars
<1>7. CASE UNCHANGED staffVars BY <1>7 DEF staffVars
<1> QED BY <1>1, <1>2, <1>3, <1>4, <1>5, <1>6, <1>7 DEF StaffNext

LEMMA StaffStep == StaffInv /\ [StaffNext]_staffVars => StaffInv'
<1> SUFFICES ASSUME StaffInv, [StaffNext]_staffVars PROVE StaffInv' OBVIOUS
<1>1. ViewerInv' BY ConsoleStep, ViewerStep DEF StaffInv
<1>2. StaffTypeOK' BY <1>1, ConsoleType DEF StaffInv, ViewerInv
<1> QED BY <1>1, <1>2 DEF StaffInv

(***************************************************************************)
(* In every state of the console, whatever the keys, the entries and the   *)
(* order of clicks and answers, the viewer is as StaffInv says.            *)
(***************************************************************************)
THEOREM StaffInvariant == StaffSpec => []StaffInv
<1>1. StaffInit => StaffInv BY StaffInitInv
<1>2. StaffInv /\ [StaffNext]_staffVars => StaffInv' BY StaffStep
<1> QED BY <1>1, <1>2, PTL DEF StaffSpec

(* No object URL is leaked or revoked too early (document-viewer.ts:66-71, 133-147, 194-203). *)
THEOREM NoUrlLeak == StaffSpec => []UrlsAreShown
<1>1. StaffInv => UrlsAreShown BY DEF StaffInv, ViewerInv
<1> QED BY <1>1, StaffInvariant, PTL

(***************************************************************************)
(* A viewer whose entry is not changed too early shows the document that   *)
(* is selected (document-viewer.ts:110-143, 153-192).                      *)
(***************************************************************************)
THEOREM SettledShowsSelected == StaffSpec => []StaleOnlyAfterOverlap
<1>1. StaffInv => StaleOnlyAfterOverlap BY DEF StaffInv, ViewerInv
<1> QED BY <1>1, StaffInvariant, PTL

-----------------------------------------------------------------------------
(***************************************************************************)
(* Kiosk, for any number of visits, calls, lost calls and staff changes:   *)
(* which timers run, and that the device loses sight of a visit in the     *)
(* named ways only.                                                        *)
(*                                                                         *)
(* The argument: a card counts down only for a visit that has once been    *)
(* completed; whoever has been is out of the queue, unless SQLite brought  *)
(* the entry back; and a check-in whose row is not in yet is of a visit    *)
(* the server has never heard of.                                          *)
(***************************************************************************)
(* The visit's last change up to n, if any. *)
HasLast(n, v) ==
  LET about == EventsAbout(log, v, n)
  IN  about = {} \/ \E k \in about : \A j \in about : j <= k

AllHaveLast == \A v \in Visits : \A n \in 0 .. Len(log) : HasLast(n, v)

Heard(v) == \E k \in DOMAIN log : log[k].entry = v
HasCompleted(v) == \E k \in DOMAIN log : log[k].entry = v /\ log[k].status = "Completed"
Queued(v) == StatusAt(Len(log), v) \in {"Waiting", "Serving"}

CompletedAreOut == \A v \in Visits : HasCompleted(v) /\ Queued(v) => v \in excused

(* A check-in whose row is not in yet. *)
Unentered(c) == c.kind = "checkIn" /\ c.stage \in {"sent", "stamped"}

CallsAreOfVisits ==
  /\ \A k \in DOMAIN log : log[k].entry <= visits
  /\ \A c \in calls : c.visit <= visits
  /\ \A c, d \in calls : c.kind = "checkIn" /\ d.kind = "checkIn" /\ c.visit = d.visit => c = d
  /\ \A c \in calls : Unentered(c) => ~Heard(c.visit)
  /\ \A c \in calls : c.kind = "cancel" => Heard(c.visit)
  /\ \A c \in calls : c.stage = "decided" => c.kind = "cancel"

Countdowns ==
  /\ TimersHaveCards
  /\ resetHandle \subseteq completionHandled /\ completionHandled \subseteq cards
  /\ \A v \in resetHandle : secondsUntilReset[v] >= 1
  /\ \A v \in completionHandled : HasCompleted(v)

KioskInv ==
  /\ KioskTypeOK /\ AllHaveLast /\ CompletedAreOut
  /\ CallsAreOfVisits /\ Countdowns /\ TrackedUnlessExcused

LEMMA KioskInitInv == KioskInit => KioskInv
<1> SUFFICES ASSUME KioskInit PROVE KioskInv OBVIOUS
<1> USE KioskAssumption DEF KioskInit
<1>1. \A n, v : EventsAbout(log, v, n) = {} BY DEF EventsAbout
<1>2. \A n, v : StatusAt(n, v) = Absent BY <1>1 DEF StatusAt
<1>3. KioskTypeOK
  <2>1. log \in Seq(Event(Visits)) /\ shown \in 0 .. Len(log) OBVIOUS
  <2>2. intervals \in [Visits -> Nat] /\ secondsUntilReset \in [Visits -> Nat] OBVIOUS
  <2>3. /\ checkIns \subseteq Visits /\ addingAnother \in BOOLEAN /\ cards \subseteq Visits
        /\ completionHandled \subseteq Visits /\ resetHandle \subseteq Visits
        /\ uploading \subseteq cards /\ calls \subseteq Calls /\ excused \subseteq Visits
    OBVIOUS
  <2>4. screen \in {"form", "sending", "tracker"} OBVIOUS
  <2>5. visits \in 0 .. MaxVisits /\ losses \in 0 .. MaxLosses OBVIOUS
  <2>6. stamped \in Seq(Visits) /\ provider \in Providers OBVIOUS
  <2> QED BY <2>1, <2>2, <2>3, <2>4, <2>5, <2>6 DEF KioskTypeOK
<1>4. AllHaveLast /\ CompletedAreOut
  BY <1>1 DEF AllHaveLast, HasLast, CompletedAreOut, HasCompleted
<1>5. CallsAreOfVisits BY DEF CallsAreOfVisits
<1>6. Countdowns BY DEF Countdowns, TimersHaveCards
<1>7. TrackedUnlessExcused BY <1>2 DEF TrackedUnlessExcused, Absent
<1> QED BY <1>3, <1>4, <1>5, <1>6, <1>7 DEF KioskInv

-----------------------------------------------------------------------------
(***************************************************************************)
(* Statuses.                                                               *)
(***************************************************************************)
LEMMA StatusIsLast ==
  ASSUME NEW v \in Visits, NEW n \in 0 .. Len(log), HasLast(n, v)
  PROVE  \/ EventsAbout(log, v, n) = {} /\ StatusAt(n, v) = Absent
         \/ \E k \in EventsAbout(log, v, n) :
              (\A j \in EventsAbout(log, v, n) : j <= k) /\ StatusAt(n, v) = log[k].status
<1>1. CASE EventsAbout(log, v, n) = {} BY <1>1 DEF StatusAt
<1>2. CASE EventsAbout(log, v, n) # {}
  <2> DEFINE last == CHOOSE k \in EventsAbout(log, v, n) : \A j \in EventsAbout(log, v, n) : j <= k
  <2>1. last \in EventsAbout(log, v, n) /\ \A j \in EventsAbout(log, v, n) : j <= last
    BY <1>2 DEF HasLast
  <2>2. StatusAt(n, v) = log[last].status BY <1>2 DEF StatusAt
  <2> QED BY <2>1, <2>2
<1> QED BY <1>1, <1>2

LEMMA SameLog ==
  ASSUME NEW v, UNCHANGED log
  PROVE  StatusAt(Len(log), v)' = StatusAt(Len(log), v)
BY DEF StatusAt, EventsAbout

LEMMA SeenCompleted ==
  ASSUME KioskTypeOK, AllHaveLast, NEW v \in Visits, NEW n \in 0 .. Len(log),
         StatusAt(n, v) = "Completed"
  PROVE  HasCompleted(v)
<1>1. HasLast(n, v) BY DEF AllHaveLast
<1>2. PICK k \in EventsAbout(log, v, n) : log[k].status = "Completed"
  BY <1>1, StatusIsLast DEF Absent
<1> QED BY <1>2 DEF EventsAbout, HasCompleted

(* One change more, and what stays as it was. *)
LEMMA OneMoreChange ==
  ASSUME KioskTypeOK, AllHaveLast, NEW v \in Visits, NEW s \in QueueStatus,
         log' = Append(log, [entry |-> v, status |-> s])
  PROVE  /\ AllHaveLast'
         /\ StatusAt(Len(log), v)' = s
         /\ \A w \in Visits \ {v} : StatusAt(Len(log), w)' = StatusAt(Len(log), w)
         /\ Heard(v)' /\ \A w : w # v => (Heard(w)' <=> Heard(w))
         /\ \A w : HasCompleted(w) => HasCompleted(w)'
         /\ \A w : HasCompleted(w)' => HasCompleted(w) \/ (w = v /\ s = "Completed")
<1>1. /\ Len(log) \in Nat /\ DOMAIN log = 1 .. Len(log)
      /\ Len(log') = Len(log) + 1 /\ DOMAIN log' = 1 .. Len(log) + 1
      /\ log'[Len(log) + 1] = [entry |-> v, status |-> s]
      /\ \A k \in 1 .. Len(log) : log'[k] = log[k]
  BY DEF KioskTypeOK, Event
<1>2. \A w \in Visits : \A n \in 0 .. Len(log) : EventsAbout(log', w, n) = EventsAbout(log, w, n)
  BY <1>1 DEF EventsAbout
<1>3. \A w \in Visits \ {v} : EventsAbout(log', w, Len(log')) = EventsAbout(log, w, Len(log))
  BY <1>1 DEF EventsAbout
<1>4. EventsAbout(log', v, Len(log')) = EventsAbout(log, v, Len(log)) \cup {Len(log')}
  BY <1>1 DEF EventsAbout
<1>5. \A w \in Visits : \A j \in EventsAbout(log, w, Len(log)) : j \in 1 .. Len(log)
  BY <1>1 DEF EventsAbout
<1>6. ASSUME NEW w \in Visits, NEW n \in 0 .. Len(log') PROVE HasLast(n, w)'
  <2>1. CASE n \in 0 .. Len(log)
    <3>1. HasLast(n, w) BY <2>1 DEF AllHaveLast
    <3> QED BY <1>2, <2>1, <3>1 DEF HasLast
  <2>2. CASE n = Len(log') /\ w # v
    <3>1. HasLast(Len(log), w) BY <1>1 DEF AllHaveLast
    <3> QED BY <1>3, <2>2, <3>1 DEF HasLast
  <2>3. CASE n = Len(log') /\ w = v
    BY <1>1, <1>4, <1>5, <2>3 DEF HasLast
  <2> QED BY <1>1, <2>1, <2>2, <2>3
<1>7. AllHaveLast' BY <1>6 DEF AllHaveLast
<1>8. /\ Heard(v)' /\ \A w : w # v => (Heard(w)' <=> Heard(w))
      /\ \A w : HasCompleted(w) => HasCompleted(w)'
      /\ \A w : HasCompleted(w)' => HasCompleted(w) \/ (w = v /\ s = "Completed")
  BY <1>1 DEF Heard, HasCompleted
<1>9. StatusAt(Len(log), v)' = s
  <2> DEFINE last == CHOOSE k \in EventsAbout(log', v, Len(log')) :
                       \A j \in EventsAbout(log', v, Len(log')) : j <= k
  <2>1. last \in EventsAbout(log', v, Len(log')) /\ \A j \in EventsAbout(log', v, Len(log')) : j <= last
    BY <1>1, <1>4, <1>5
  <2>2. last = Len(log) + 1 BY <1>1, <1>4, <1>5, <2>1
  <2>3. StatusAt(Len(log), v)' = log'[last].status BY <1>4 DEF StatusAt
  <2> HIDE DEF last
  <2>4. log'[last].status = s BY <1>1, <2>2
  <2> QED BY <2>3, <2>4
<1>10. ASSUME NEW w \in Visits \ {v}
       PROVE  StatusAt(Len(log), w)' = StatusAt(Len(log), w)
  <2>1. CASE EventsAbout(log, w, Len(log)) = {} BY <1>3, <2>1 DEF StatusAt
  <2>2. CASE EventsAbout(log, w, Len(log)) # {}
    <3> DEFINE last == CHOOSE k \in EventsAbout(log, w, Len(log)) :
                         \A j \in EventsAbout(log, w, Len(log)) : j <= k
    <3>1. HasLast(Len(log), w) BY <1>1 DEF AllHaveLast
    <3>2. last \in 1 .. Len(log) BY <1>5, <2>2, <3>1 DEF HasLast
    <3>3. StatusAt(Len(log), w) = log[last].status BY <2>2 DEF StatusAt
    <3>4. StatusAt(Len(log), w)' = log'[last].status BY <1>3, <2>2 DEF StatusAt
    <3> QED BY <1>1, <3>2, <3>3, <3>4
  <2> QED BY <2>1, <2>2
<1> QED BY <1>7, <1>8, <1>9, <1>10

(* A visit with a status is one the server has heard of. *)
LEMMA StatusHeard ==
  ASSUME NEW v, NEW n, StatusAt(n, v) # Absent
  PROVE  Heard(v)
BY DEF StatusAt, EventsAbout, Heard

(* What is decided and then recorded is of such a visit, and no check-in. *)
LEMMA Recorded ==
  ASSUME KioskInv, NEW v, NEW op, Records(op, v),
         \/ op \in {"callNext", "complete"} /\ \E n : Decides(op, v, n)
         \/ op = "cancel" /\ \E c \in calls : c.kind = "cancel" /\ c.visit = v
  PROVE  /\ Heard(v) /\ Target(op) \in QueueStatus \ {"Waiting"}
         /\ log' = Append(log, [entry |-> v, status |-> Target(op)])
<1>1. Heard(v)
  <2>1. CASE \E n : Decides(op, v, n) BY <2>1, StatusHeard DEF Decides, Accepts, Absent
  <2>2. CASE \E c \in calls : c.kind = "cancel" /\ c.visit = v
    BY <2>2 DEF KioskInv, CallsAreOfVisits
  <2> QED BY <2>1, <2>2
<1>2. op \in {"callNext", "complete", "cancel"} OBVIOUS
<1> QED BY <1>1, <1>2 DEF Records, Target, QueueStatus

(***************************************************************************)
(* How the log moves: a check-in's row, staff's changes, cancels.          *)
(***************************************************************************)
LEMMA LogMoves ==
  ASSUME KioskInv, [KioskNext]_kioskVars
  PROVE  \/ UNCHANGED log
         \/ \E c \in calls : ServeCheckIn(c)
         \/ \E v \in Visits, op \in {"callNext", "complete"} : Served(op, v)
         \/ \E c \in calls : ServeCancel(c)
BY DEF KioskNext, Serves, HubShows, Repaint, Submit, CheckAnother, CancelAdding, Upload,
       UploadEnds, StartOver, Tick, TakeStamp, RefuseCancel, DecideCancel, CheckedIn,
       CallFails, world, server, kioskVars

(* In each case but the first one visit's status changes, in a way it can. *)
LEMMA OneVisit ==
  ASSUME KioskInv,
         \/ \E c \in calls : ServeCheckIn(c)
         \/ \E v \in Visits, op \in {"callNext", "complete"} : Served(op, v)
         \/ \E c \in calls : ServeCancel(c)
  PROVE  \E v \in Visits, s \in QueueStatus :
           /\ log' = Append(log, [entry |-> v, status |-> s])
           /\ s = "Waiting" <=> ~Heard(v)
           /\ s = "Serving" => Queued(v) \/ v \in excused'
           /\ excused \subseteq excused'
           /\ UNCHANGED <<shown, shell, mounted>>
<1>1. \A c \in calls : c.visit \in Visits BY DEF KioskInv, KioskTypeOK, Calls
<1>2. ASSUME NEW c \in calls, ServeCheckIn(c)
      PROVE  /\ log' = Append(log, [entry |-> c.visit, status |-> "Waiting"]) /\ ~Heard(c.visit)
             /\ UNCHANGED <<shown, shell, mounted, excused>>
  BY <1>2 DEF ServeCheckIn, Target, KioskInv, CallsAreOfVisits, Unentered
<1>3. ASSUME NEW v \in Visits, NEW op \in {"callNext", "complete"}, Served(op, v)
      PROVE  /\ log' = Append(log, [entry |-> v, status |-> Target(op)])
             /\ Heard(v) /\ Target(op) \in QueueStatus \ {"Waiting"}
             /\ Target(op) = "Serving" => Queued(v) \/ v \in excused'
             /\ excused \subseteq excused' /\ UNCHANGED <<shown, shell, mounted>>
  BY <1>3, Recorded DEF Served, Returns, Queued
<1>4. ASSUME NEW c \in calls, ServeCancel(c)
      PROVE  /\ log' = Append(log, [entry |-> c.visit, status |-> "Cancelled"])
             /\ Heard(c.visit) /\ UNCHANGED <<shown, shell, mounted, excused>>
  BY <1>4, Recorded DEF ServeCancel, Target
<1>5. CASE \E c \in calls : ServeCheckIn(c) BY <1>1, <1>2, <1>5 DEF QueueStatus
<1>6. CASE \E v \in Visits, op \in {"callNext", "complete"} : Served(op, v) BY <1>3, <1>6
<1>7. CASE \E c \in calls : ServeCancel(c) BY <1>1, <1>4, <1>7 DEF QueueStatus
<1> QED BY <1>5, <1>6, <1>7

-----------------------------------------------------------------------------
(***************************************************************************)
(* Cards and their timers.                                                 *)
(***************************************************************************)
LEMMA Cleared ==
  ASSUME KioskTypeOK, TimersHaveCards, NEW vs
  PROVE  ClearAutoReset(vs) = [v \in Visits |-> IF v \in vs THEN 0 ELSE intervals[v]]
BY DEF KioskTypeOK, TimersHaveCards, ClearAutoReset

LEMMA LogType ==
  ASSUME KioskTypeOK, NEW v \in Visits, NEW s \in QueueStatus,
         log' = Append(log, [entry |-> v, status |-> s])
  PROVE  log' \in Seq(Event(Visits)) /\ shown \in 0 .. Len(log')
<1>1. log \in Seq(Event(Visits)) /\ [entry |-> v, status |-> s] \in Event(Visits)
  BY DEF KioskTypeOK, Event
<1>2. log' \in Seq(Event(Visits)) /\ Len(log') = Len(log) + 1 /\ Len(log) \in Nat BY <1>1
<1> QED BY <1>2 DEF KioskTypeOK

LEMMA TypeStep == KioskInv /\ [KioskNext]_kioskVars => KioskTypeOK'
<1> SUFFICES ASSUME KioskInv, [KioskNext]_kioskVars PROVE KioskTypeOK' OBVIOUS
<1> USE KioskAssumption DEF mounted, timers, shell, world, server
<1>0. KioskTypeOK /\ Countdowns BY DEF KioskInv
<1>a. \A c \in calls : c \in Calls /\ c.visit \in Visits BY <1>0 DEF KioskTypeOK, Calls
<1>b. ASSUME NEW c \in calls, NEW stage \in Stages PROVE Moved(c, stage) \subseteq Calls
  BY <1>0, <1>a DEF KioskTypeOK, Calls, Moved
<1>c. ASSUME \/ \E c \in calls : ServeCheckIn(c)
             \/ \E v \in Visits, op \in {"callNext", "complete"} : Served(op, v)
             \/ \E c \in calls : ServeCancel(c)
      PROVE  log' \in Seq(Event(Visits)) /\ shown' \in 0 .. Len(log')
  BY <1>0, <1>c, OneVisit, LogType
<1>d. ASSUME NEW vs PROVE ClearAutoReset(vs) \in [Visits -> Nat]
  <2>1. ClearAutoReset(vs) = [v \in Visits |-> IF v \in vs THEN 0 ELSE intervals[v]]
    BY <1>0, Cleared DEF Countdowns
  <2>2. intervals \in [Visits -> Nat] BY <1>0 DEF KioskTypeOK
  <2> QED BY <2>1, <2>2
<1>1. ASSUME NEW v \in Visits, NEW op \in {"callNext", "complete"}, Served(op, v) PROVE KioskTypeOK'
  <2>1. UNCHANGED <<provider, stamped>> BY <1>1 DEF Served, Records
  <2> QED BY <1>0, <1>1, <1>c, <2>1 DEF Served, KioskTypeOK
<1>2. ASSUME NEW n \in 0 .. Len(log), HubShows(n) PROVE KioskTypeOK'
  BY <1>0, <1>2 DEF HubShows, KioskTypeOK
<1>3. CASE Repaint
  <2> DEFINE left == ngOnDestroy(cards \ Mounted)
  <2>1. Mounted \subseteq Visits /\ Starting \subseteq Visits
    BY <1>0 DEF Mounted, Starting, Completed, KioskTypeOK
  <2>2. cards' \subseteq Visits /\ uploading' \subseteq cards' /\ resetHandle' \subseteq Visits
    BY <1>0, <1>3, <2>1 DEF Repaint, KioskTypeOK
  <2>3. completionHandled' \subseteq Visits BY <1>3, <2>1 DEF Repaint, StillHandled
  <2>4. left \in [Visits -> Nat] BY <1>d DEF ngOnDestroy
  <2>5. intervals' = [v \in Visits |-> IF v \in Starting THEN left[v] + 1 ELSE left[v]]
    BY <1>3 DEF Repaint
  <2> HIDE DEF left
  <2>6. intervals' \in [Visits -> Nat] BY <2>4, <2>5
  <2>7. secondsUntilReset' \in [Visits -> Nat] BY <1>0, <1>3 DEF Repaint, KioskTypeOK
  <2>8. calls' \subseteq Calls
    <3>1. ASSUME NEW c \in calls PROVE [c EXCEPT !.form = c.form /\ ShowForm] \in Calls
      <4>1. c \in Calls /\ (c.form /\ ShowForm) \in BOOLEAN BY <1>a
      <4> QED BY <4>1 DEF Calls
    <3> QED BY <1>3, <3>1 DEF Repaint
  <2>9. screen' \in {"form", "sending", "tracker"} BY <1>3 DEF Repaint
  <2> QED BY <1>0, <1>3, <2>2, <2>3, <2>6, <2>7, <2>8, <2>9 DEF Repaint, KioskTypeOK
<1>4. CASE Submit
  <2>1. visits + 1 \in Visits /\ visits' \in 0 .. MaxVisits BY <1>0, <1>4 DEF Submit, KioskTypeOK, Visits
  <2>2. NewCall("checkIn", visits + 1) \in Calls BY <2>1 DEF NewCall, Calls, Stages
  <2> QED BY <1>0, <1>4, <2>1, <2>2 DEF Submit, KioskTypeOK
<1>5. CASE CheckAnother \/ CancelAdding BY <1>0, <1>5 DEF CheckAnother, CancelAdding, KioskTypeOK
<1>6. ASSUME NEW v \in Visits, Upload(v) \/ UploadEnds(v) PROVE KioskTypeOK'
  BY <1>0, <1>6 DEF Upload, UploadEnds, KioskTypeOK
<1>7. ASSUME NEW v \in Visits, StartOver(v) PROVE KioskTypeOK'
  <2>1. NewCall("cancel", v) \in Calls BY DEF NewCall, Calls, Stages
  <2>2. ClearAutoReset({v}) \in [Visits -> Nat] BY <1>d
  <2> QED BY <1>0, <1>7, <2>1, <2>2 DEF StartOver, OnRemove, KioskTypeOK
<1>8. ASSUME NEW v \in Visits, Tick(v) PROVE KioskTypeOK'
  <2>1. ClearAutoReset({v}) \in [Visits -> Nat] BY <1>d
  <2>2. v \in resetHandle BY <1>0, <1>8 DEF Tick, Countdowns, TimersHaveCards
  <2>3. secondsUntilReset' \in [Visits -> Nat] BY <1>0, <1>8, <2>2 DEF Tick, Countdowns, KioskTypeOK
  <2> QED BY <1>0, <1>8, <2>1, <2>3 DEF Tick, OnRemove, KioskTypeOK
<1>9. ASSUME NEW c \in calls, Serves(c) PROVE KioskTypeOK'
  <2>1. CASE TakeStamp(c) BY <1>0, <1>a, <1>b, <2>1 DEF TakeStamp, Stages, KioskTypeOK
  <2>2. CASE ServeCheckIn(c)
    <3>1. calls' \subseteq Calls BY <1>b, <2>2 DEF ServeCheckIn, Stages
    <3> QED BY <1>0, <1>c, <2>2, <3>1 DEF ServeCheckIn, KioskTypeOK
  <2>4. CASE RefuseCancel(c) \/ DecideCancel(c)
    <3>1. calls' \subseteq Calls
      BY <1>0, <1>b, <2>4 DEF RefuseCancel, DecideCancel, Stages, KioskTypeOK
    <3>2. UNCHANGED <<world, shell, mounted, visits, losses, excused>>
      BY <2>4 DEF RefuseCancel, DecideCancel
    <3> QED BY <1>0, <3>1, <3>2 DEF KioskTypeOK
  <2>5. CASE ServeCancel(c)
    <3>1. UNCHANGED <<provider, stamped>> BY <2>5 DEF ServeCancel, Records
    <3> QED BY <1>0, <1>c, <2>5, <3>1 DEF ServeCancel, KioskTypeOK
  <2> QED BY <1>9, <2>1, <2>2, <2>4, <2>5 DEF Serves
<1>10. ASSUME NEW c \in calls, CheckedIn(c) \/ CallFails(c) PROVE KioskTypeOK'
  <2>1. checkIns' \subseteq Visits /\ excused' \subseteq Visits /\ calls' \subseteq Calls
    <3>1. [c EXCEPT !.form = FALSE] \in Calls BY <1>a DEF Calls
    <3>2. /\ checkIns \subseteq Visits /\ excused \subseteq Visits /\ calls \subseteq Calls
          /\ c.visit \in Visits
      BY <1>0, <1>a DEF KioskTypeOK
    <3>3. CASE CheckedIn(c) BY <3>2, <3>3 DEF CheckedIn, OnCheckedIn
    <3>4. CASE CallFails(c) BY <3>1, <3>2, <3>4 DEF CallFails
    <3> QED BY <1>10, <3>3, <3>4
  <2>2. addingAnother' \in BOOLEAN
    BY <1>0, <1>10 DEF CheckedIn, CallFails, OnCheckedIn, KioskTypeOK
  <2>3. losses' \in 0 .. MaxLosses
    BY <1>0, <1>10 DEF CheckedIn, CallFails, KioskTypeOK
  <2>4. UNCHANGED <<world, mounted, visits>> BY <1>10 DEF CheckedIn, CallFails
  <2> QED BY <1>0, <2>1, <2>2, <2>3, <2>4 DEF KioskTypeOK
<1>11. CASE UNCHANGED kioskVars BY <1>0, <1>11 DEF kioskVars, KioskTypeOK
<1> QED BY <1>1, <1>2, <1>3, <1>4, <1>5, <1>6, <1>7, <1>8, <1>9, <1>10, <1>11 DEF KioskNext

LEMMA TimersStep == KioskInv /\ [KioskNext]_kioskVars => Countdowns'
<1> SUFFICES ASSUME KioskInv, [KioskNext]_kioskVars PROVE Countdowns' OBVIOUS
<1> USE KioskAssumption DEF mounted, timers, shell, world, server
<1>1. KioskTypeOK /\ AllHaveLast /\ Countdowns /\ TimersHaveCards BY DEF KioskInv, Countdowns
<1>2. /\ resetHandle \subseteq completionHandled /\ completionHandled \subseteq cards
      /\ \A v \in resetHandle : secondsUntilReset[v] >= 1
      /\ \A v \in completionHandled : HasCompleted(v)
  BY <1>1 DEF Countdowns
<1>3. \A v : HasCompleted(v) => HasCompleted(v)'
  <2>1. CASE UNCHANGED log BY <2>1 DEF HasCompleted
  <2>2. CASE log' # log BY <1>1, <2>2, LogMoves, OneVisit, OneMoreChange
  <2> QED BY <2>1, <2>2
(* A step that leaves the timers alone, ... *)
<1>4. ASSUME UNCHANGED <<cards, completionHandled, timers>> PROVE Countdowns'
  BY <1>1, <1>2, <1>3, <1>4 DEF Countdowns, TimersHaveCards
(* ... or at most clears one. *)
<1>5. ASSUME NEW v \in Visits, UNCHANGED <<cards, completionHandled>>,
             intervals' = ClearAutoReset({v}), resetHandle' = resetHandle \ {v},
             \A w \in Visits \ {v} : secondsUntilReset'[w] = secondsUntilReset[w]
      PROVE  Countdowns'
  <2>1. TimersHaveCards' BY <1>1, <1>5, Cleared DEF TimersHaveCards
  <2>2. \A w \in resetHandle' : secondsUntilReset'[w] >= 1 BY <1>1, <1>2, <1>5 DEF KioskTypeOK
  <2> QED BY <1>2, <1>3, <1>5, <2>1, <2>2 DEF Countdowns
<1>7. CASE Repaint
  <2> DEFINE left == ngOnDestroy(cards \ Mounted)
  <2>1. Mounted \subseteq Visits /\ Starting \subseteq Mounted
    BY <1>1 DEF Mounted, Starting, Completed, KioskTypeOK
  <2>2. completionHandled' = (completionHandled \cap Mounted) \cup Starting
        /\ resetHandle' = (resetHandle \cap Mounted) \cup Starting /\ cards' = Mounted
    BY <1>7 DEF Repaint, StillHandled
  <2>3. Starting \cap resetHandle = {} BY <1>2 DEF Starting, StillHandled, Completed
  <2>4. left = [v \in Visits |-> IF v \in cards \ Mounted THEN 0 ELSE intervals[v]]
    BY <1>1, Cleared DEF ngOnDestroy
  <2>5. intervals' = [v \in Visits |-> IF v \in Starting THEN left[v] + 1 ELSE left[v]]
    BY <1>7 DEF Repaint
  <2> HIDE DEF left
  <2>6. ASSUME NEW v \in Visits
        PROVE  intervals'[v] = IF v \in resetHandle' THEN 1 ELSE 0
    <3>1. intervals[v] = IF v \in resetHandle THEN 1 ELSE 0 BY <1>1 DEF TimersHaveCards
    <3>2. v \in resetHandle => v \in cards BY <1>2
    <3>3. left[v] = IF v \in cards \ Mounted THEN 0 ELSE intervals[v] BY <2>4
    <3>4. CASE v \in Starting
      <4>1. left[v] = 0 BY <2>3, <3>1, <3>3, <3>4
      <4> QED BY <2>2, <2>5, <3>4, <4>1
    <3>5. CASE v \notin Starting
      <4>1. intervals'[v] = left[v] BY <2>5, <3>5
      <4> QED BY <2>2, <3>1, <3>2, <3>3, <3>5, <4>1
    <3> QED BY <3>4, <3>5
  <2>7. TimersHaveCards' BY <2>1, <2>2, <2>6 DEF TimersHaveCards
  <2>8. \A v \in resetHandle' : secondsUntilReset'[v] >= 1
    <3>1. secondsUntilReset' = [v \in Visits |-> IF v \in Mounted \ Starting
                                  THEN secondsUntilReset[v] ELSE AUTO_RESET_SECONDS]
      BY <1>7 DEF Repaint
    <3> QED BY <1>2, <2>1, <2>2, <3>1
  <2>9. \A v \in Starting : HasCompleted(v)
    BY <1>1, <2>1, SeenCompleted DEF Starting, Completed, Status, KioskTypeOK
  <2>10. \A v \in completionHandled' : HasCompleted(v)' BY <1>2, <1>3, <2>2, <2>9
  <2> QED BY <1>2, <2>1, <2>2, <2>7, <2>8, <2>10 DEF Countdowns
<1>8. ASSUME NEW v \in Visits, StartOver(v) PROVE Countdowns'
  BY <1>8, <1>5 DEF StartOver
<1>9. ASSUME NEW v \in Visits, Tick(v) PROVE Countdowns'
  <2>1. secondsUntilReset[v] \in Nat /\ secondsUntilReset' = [secondsUntilReset EXCEPT ![v] = @ - 1]
    BY <1>9, <1>1 DEF Tick, KioskTypeOK
  <2>2. \A w \in Visits \ {v} : secondsUntilReset'[w] = secondsUntilReset[w]
    BY <2>1, <1>1 DEF KioskTypeOK
  <2>3. CASE secondsUntilReset[v] <= 1 BY <1>9, <1>5, <2>2, <2>3 DEF Tick
  <2>4. CASE ~(secondsUntilReset[v] <= 1)
    <3>1. UNCHANGED <<cards, completionHandled, intervals, resetHandle>>
      BY <1>9, <2>4 DEF Tick
    <3>2. \A w \in resetHandle' : secondsUntilReset'[w] >= 1
      BY <1>1, <1>2, <2>1, <2>4, <3>1 DEF KioskTypeOK
    <3>3. TimersHaveCards' BY <1>1, <3>1 DEF TimersHaveCards
    <3> QED BY <1>2, <1>3, <3>1, <3>2, <3>3 DEF Countdowns
  <2> QED BY <2>3, <2>4
<1>10. CASE \/ \E v \in Visits, op \in {"callNext", "complete"} : Served(op, v)
            \/ \E n \in 0 .. Len(log) : HubShows(n)
            \/ Submit \/ CheckAnother \/ CancelAdding
            \/ \E v \in Visits : Upload(v) \/ UploadEnds(v)
            \/ \E c \in calls : Serves(c) \/ CheckedIn(c) \/ CallFails(c)
            \/ UNCHANGED kioskVars
  BY <1>4, <1>10 DEF Served, HubShows, Submit, CheckAnother, CancelAdding, Upload,
     UploadEnds, Serves, TakeStamp, ServeCheckIn, RefuseCancel, DecideCancel, ServeCancel,
     CheckedIn, CallFails, kioskVars
<1> QED BY <1>7, <1>8, <1>9, <1>10 DEF KioskNext

-----------------------------------------------------------------------------
(***************************************************************************)
(* The log and the calls.                                                  *)
(***************************************************************************)
LEMMA LogStep == KioskInv /\ [KioskNext]_kioskVars => AllHaveLast' /\ CompletedAreOut'
<1> SUFFICES ASSUME KioskInv, [KioskNext]_kioskVars PROVE AllHaveLast' /\ CompletedAreOut' OBVIOUS
<1> USE DEF KioskInv
<1>1. CASE UNCHANGED log
  <2>1. excused \subseteq excused'
    BY DEF KioskNext, Served, Serves, HubShows, Repaint, Submit, CheckAnother,
       CancelAdding, Upload, UploadEnds, StartOver, Tick, TakeStamp, ServeCheckIn,
       RefuseCancel, DecideCancel, ServeCancel, CheckedIn, CallFails, kioskVars
  <2>2. \A v : Queued(v)' <=> Queued(v) BY <1>1, SameLog DEF Queued
  <2> QED BY <1>1, <2>1, <2>2 DEF AllHaveLast, HasLast, CompletedAreOut, HasCompleted
<1>2. CASE log' # log
  <2>1. PICK v \in Visits, s \in QueueStatus :
          /\ log' = Append(log, [entry |-> v, status |-> s]) /\ (s = "Waiting" <=> ~Heard(v))
          /\ (s = "Serving" => Queued(v) \/ v \in excused') /\ excused \subseteq excused'
    BY <1>2, LogMoves, OneVisit
  <2>2. /\ AllHaveLast' /\ StatusAt(Len(log), v)' = s
        /\ \A w \in Visits \ {v} : StatusAt(Len(log), w)' = StatusAt(Len(log), w)
        /\ \A w : HasCompleted(w)' => HasCompleted(w) \/ (w = v /\ s = "Completed")
    BY <2>1, OneMoreChange
  <2>3. ASSUME NEW w \in Visits, HasCompleted(w)', Queued(w)' PROVE w \in excused'
    <3>1. CASE w # v BY <2>1, <2>2, <2>3, <3>1 DEF Queued, CompletedAreOut
    <3>2. CASE w = v
      <4>1. s \in {"Waiting", "Serving"} /\ HasCompleted(v) BY <2>2, <2>3, <3>2 DEF Queued
      <4>2. s = "Serving" BY <2>1, <4>1 DEF HasCompleted, Heard
      <4> QED BY <2>1, <3>2, <4>1, <4>2 DEF CompletedAreOut
    <3> QED BY <3>1, <3>2
  <2> QED BY <2>2, <2>3 DEF CompletedAreOut
<1> QED BY <1>1, <1>2

LEMMA CallsStep == KioskInv /\ [KioskNext]_kioskVars => CallsAreOfVisits'
<1> SUFFICES ASSUME KioskInv, [KioskNext]_kioskVars PROVE CallsAreOfVisits' OBVIOUS
<1> USE KioskAssumption DEF mounted, timers, shell, world, server
<1>1. KioskTypeOK /\ AllHaveLast /\ CallsAreOfVisits /\ visits \in Nat BY DEF KioskInv, KioskTypeOK
<1>2. \A c \in calls : c \in Calls /\ c.visit \in Visits BY <1>1 DEF KioskTypeOK, Calls
<1>3. /\ DOMAIN log = 1 .. Len(log) /\ Len(log) \in Nat
      /\ \A k \in DOMAIN log : log[k].entry \in Nat /\ log[k].entry <= visits
  <2>1. DOMAIN log = 1 .. Len(log) /\ \A k \in DOMAIN log : log[k] \in Event(Visits)
    BY <1>1 DEF KioskTypeOK
  <2>2. \A k \in DOMAIN log : log[k].entry \in Nat BY <2>1 DEF Event, Visits
  <2> QED BY <1>1, <2>1, <2>2 DEF KioskTypeOK, CallsAreOfVisits
(* The log stays, or grows by a change of a visit no unentered check-in is about. *)
<1>4. ASSUME UNCHANGED visits,
             \/ UNCHANGED log
             \/ \E v \in Visits, s \in QueueStatus :
                  /\ log' = Append(log, [entry |-> v, status |-> s]) /\ v <= visits
                  /\ \A d \in calls' : Unentered(d) => d.visit # v,
             \A d \in calls' : d.visit <= visits,
             \A c, d \in calls' : c.kind = "checkIn" /\ d.kind = "checkIn" /\ c.visit = d.visit => c = d,
             \A d \in calls' : Unentered(d) => ~Heard(d.visit),
             \A d \in calls' : d.kind = "cancel" => Heard(d.visit),
             \A d \in calls' : d.stage = "decided" => d.kind = "cancel"
      PROVE  CallsAreOfVisits'
  <2>1. CASE UNCHANGED log BY <1>3, <1>4, <2>1 DEF CallsAreOfVisits, Heard, Unentered
  <2>2. CASE \E v \in Visits, s \in QueueStatus :
               /\ log' = Append(log, [entry |-> v, status |-> s]) /\ v <= visits
               /\ \A d \in calls' : Unentered(d) => d.visit # v
    <3>1. PICK v \in Visits, s \in QueueStatus :
            /\ log' = Append(log, [entry |-> v, status |-> s]) /\ v <= visits
            /\ \A d \in calls' : Unentered(d) => d.visit # v
      BY <2>2
    <3>2. Heard(v)' /\ \A w : w # v => (Heard(w)' <=> Heard(w)) BY <1>1, <3>1, OneMoreChange
    <3>3. /\ DOMAIN log' = 1 .. Len(log) + 1 /\ log'[Len(log) + 1] = [entry |-> v, status |-> s]
          /\ \A k \in 1 .. Len(log) : log'[k] = log[k]
      BY <1>1, <1>3, <3>1 DEF KioskTypeOK, Event
    <3>4. ASSUME NEW k \in DOMAIN log' PROVE log'[k].entry <= visits'
      <4>1. CASE k = Len(log) + 1 BY <1>4, <3>1, <3>3, <4>1
      <4>2. CASE k \in 1 .. Len(log) BY <1>3, <1>4, <3>3, <4>2
      <4> QED BY <1>3, <3>3, <4>1, <4>2
    <3>5. \A d \in calls' : Unentered(d)' => ~Heard(d.visit)' BY <1>4, <3>1, <3>2 DEF Unentered
    <3>6. \A d \in calls' : d.kind = "cancel" => Heard(d.visit)' BY <1>4, <3>2
    <3> QED BY <1>4, <3>4, <3>5, <3>6 DEF CallsAreOfVisits
  <2> QED BY <1>4, <2>1, <2>2
(* Calls are answered, or move on. *)
<1>5. ASSUME NEW c \in calls, NEW d, d.visit = c.visit, d.kind = c.kind,
             Unentered(d) => Unentered(c), d.stage = "decided" => d.kind = "cancel",
             calls' \subseteq (calls \ {c}) \cup {d}
      PROVE  /\ \A b \in calls' : b.visit <= visits
             /\ \A a, b \in calls' : a.kind = "checkIn" /\ b.kind = "checkIn" /\ a.visit = b.visit => a = b
             /\ \A b \in calls' : Unentered(b) => ~Heard(b.visit)
             /\ \A b \in calls' : b.kind = "cancel" => Heard(b.visit)
             /\ \A b \in calls' : b.stage = "decided" => b.kind = "cancel"
  BY <1>1, <1>5 DEF CallsAreOfVisits
<1>6. ASSUME calls' \subseteq calls
      PROVE  /\ \A b \in calls' : b.visit <= visits
             /\ \A a, b \in calls' : a.kind = "checkIn" /\ b.kind = "checkIn" /\ a.visit = b.visit => a = b
             /\ \A b \in calls' : Unentered(b) => ~Heard(b.visit)
             /\ \A b \in calls' : b.kind = "cancel" => Heard(b.visit)
             /\ \A b \in calls' : b.stage = "decided" => b.kind = "cancel"
  BY <1>1, <1>6 DEF CallsAreOfVisits
<1>7. \A v \in Visits : Heard(v) => v <= visits /\ \A d \in calls : Unentered(d) => d.visit # v
  BY <1>1, <1>3 DEF Heard, CallsAreOfVisits
<1>8. ASSUME NEW v \in Visits, NEW op \in {"callNext", "complete"}, Served(op, v)
      PROVE  CallsAreOfVisits'
  <2>1. UNCHANGED <<calls, visits>> BY <1>8 DEF Served
  <2>2. /\ Heard(v) /\ Target(op) \in QueueStatus
        /\ log' = Append(log, [entry |-> v, status |-> Target(op)])
    BY <1>8, Recorded DEF Served
  <2>3. v <= visits /\ \A d \in calls' : Unentered(d) => d.visit # v BY <1>7, <2>1, <2>2
  <2> QED BY <1>4, <1>6, <2>1, <2>2, <2>3
<1>9. CASE Repaint
  <2>1. calls' = {[c EXCEPT !.form = c.form /\ ShowForm] : c \in calls} /\ UNCHANGED <<log, visits>>
    BY <1>9 DEF Repaint
  <2>2. \A d \in calls' : \E c \in calls : /\ d = [c EXCEPT !.form = c.form /\ ShowForm]
                                           /\ d.kind = c.kind /\ d.visit = c.visit /\ d.stage = c.stage
    BY <1>2, <2>1 DEF Calls
  <2>3. \A a, b \in calls' : a.kind = "checkIn" /\ b.kind = "checkIn" /\ a.visit = b.visit => a = b
    BY <1>1, <2>2 DEF CallsAreOfVisits
  <2>4. \A b \in calls' : Unentered(b) => ~Heard(b.visit) BY <1>1, <2>2 DEF CallsAreOfVisits, Unentered
  <2>5. \A b \in calls' : /\ b.visit <= visits /\ (b.kind = "cancel" => Heard(b.visit))
                          /\ (b.stage = "decided" => b.kind = "cancel")
    BY <1>1, <2>2 DEF CallsAreOfVisits
  <2> QED BY <1>4, <2>1, <2>3, <2>4, <2>5
<1>10. CASE Submit
  <2> DEFINE new == NewCall("checkIn", visits + 1)
  <2>1. calls' = calls \cup {new} /\ visits' = visits + 1 /\ log' = log BY <1>10 DEF Submit
  <2>2. new.visit = visits + 1 /\ new.kind = "checkIn" /\ new.stage = "sent" BY DEF NewCall
  <2> HIDE DEF new
  <2>3. \A c \in calls : c.visit < visits + 1 BY <1>1, <1>2 DEF CallsAreOfVisits, Visits
  <2>4. \A k \in DOMAIN log' : log'[k].entry <= visits' BY <1>1, <1>3, <2>1
  <2>5. \A c \in calls' : c.visit <= visits' BY <1>1, <1>2, <2>1, <2>2, <2>3 DEF Visits
  <2>6. \A c, d \in calls' : c.kind = "checkIn" /\ d.kind = "checkIn" /\ c.visit = d.visit => c = d
    BY <1>1, <2>1, <2>2, <2>3 DEF CallsAreOfVisits
  <2>7. ~Heard(visits + 1) BY <1>1, <1>3 DEF Heard
  <2>8. \A w : Heard(w)' <=> Heard(w) BY <2>1 DEF Heard
  <2>9. \A c \in calls' : Unentered(c)' => ~Heard(c.visit)'
    BY <1>1, <2>1, <2>2, <2>7, <2>8 DEF CallsAreOfVisits, Unentered
  <2>10. \A c \in calls' : /\ c.kind = "cancel" => Heard(c.visit)'
                           /\ c.stage = "decided" => c.kind = "cancel"
    BY <1>1, <2>1, <2>2, <2>8 DEF CallsAreOfVisits
  <2> QED BY <2>4, <2>5, <2>6, <2>9, <2>10 DEF CallsAreOfVisits
<1>11. ASSUME NEW v \in Visits, StartOver(v) PROVE CallsAreOfVisits'
  <2>1. CASE UNCHANGED calls BY <1>4, <1>6, <1>11, <2>1 DEF StartOver
  <2>2. CASE Accepts("cancel", Status(v)) /\ calls' = calls \cup {NewCall("cancel", v)}
    <3>1. Heard(v) BY <2>2, StatusHeard DEF Accepts, Status, Absent
    <3>2. v <= visits BY <1>7, <3>1
    <3> QED BY <1>1, <1>4, <1>11, <2>2, <3>1, <3>2 DEF StartOver, CallsAreOfVisits, NewCall, Unentered
  <2> QED BY <1>11, <2>1, <2>2 DEF StartOver
<1>12. ASSUME NEW c \in calls, NEW stage \in Stages, calls' = Moved(c, stage),
              Unentered(c) \/ stage \notin {"sent", "stamped"}, stage = "decided" => c.kind = "cancel"
       PROVE  /\ \A b \in calls' : b.visit <= visits
              /\ \A a, b \in calls' : a.kind = "checkIn" /\ b.kind = "checkIn" /\ a.visit = b.visit => a = b
              /\ \A b \in calls' : Unentered(b) => ~Heard(b.visit)
              /\ \A b \in calls' : b.kind = "cancel" => Heard(b.visit)
              /\ \A b \in calls' : b.stage = "decided" => b.kind = "cancel"
  <2> DEFINE d == [c EXCEPT !.stage = stage]
  <2>1. d.visit = c.visit /\ d.kind = c.kind /\ d.stage = stage BY <1>2 DEF Calls
  <2>2. calls' \subseteq (calls \ {c}) \cup {d} BY <1>12 DEF Moved
  <2> HIDE DEF d
  <2>3. Unentered(d) => Unentered(c) BY <1>12, <2>1 DEF Unentered
  <2> QED BY <1>5, <1>12, <2>1, <2>2, <2>3
<1>13. ASSUME NEW c \in calls, ServeCheckIn(c) PROVE CallsAreOfVisits'
  <2>1. calls' = Moved(c, "answered") BY <1>13 DEF ServeCheckIn
  <2>2. UNCHANGED visits /\ log' = Append(log, [entry |-> c.visit, status |-> "Waiting"])
        /\ Unentered(c)
    BY <1>13 DEF ServeCheckIn, Target, Unentered
  <2>3. \A d \in calls' : Unentered(d) => d.visit # c.visit
    <3>1. [c EXCEPT !.stage = "answered"].stage = "answered" BY <1>2 DEF Calls
    <3>2. \A d \in calls' : Unentered(d) => d \in calls \ {c} BY <2>1, <3>1 DEF Moved, Unentered
    <3> QED BY <1>1, <2>2, <3>2 DEF CallsAreOfVisits, Unentered
  <2>4. c.visit \in Visits /\ c.visit <= visits BY <1>1, <1>2 DEF CallsAreOfVisits
  <2> QED BY <1>4, <1>12, <2>1, <2>2, <2>3, <2>4 DEF Stages, QueueStatus
<1>14. ASSUME NEW c \in calls, TakeStamp(c) \/ DecideCancel(c) PROVE CallsAreOfVisits'
  <2>1. UNCHANGED <<log, visits>> BY <1>14 DEF TakeStamp, DecideCancel
  <2>2. CASE TakeStamp(c) BY <1>4, <1>12, <2>1, <2>2 DEF TakeStamp, Unentered, Stages
  <2>4. CASE DecideCancel(c) BY <1>4, <1>12, <2>1, <2>4 DEF DecideCancel, Stages
  <2> QED BY <1>14, <2>2, <2>4
<1>15. ASSUME NEW c \in calls, ServeCancel(c) PROVE CallsAreOfVisits'
  <2>1. calls' \subseteq calls /\ UNCHANGED visits BY <1>15 DEF ServeCancel
  <2>2. /\ Heard(c.visit) /\ Target("cancel") \in QueueStatus
        /\ log' = Append(log, [entry |-> c.visit, status |-> Target("cancel")])
    BY <1>15, Recorded DEF ServeCancel
  <2>3. c.visit \in Visits /\ c.visit <= visits /\ \A d \in calls' : Unentered(d) => d.visit # c.visit
    BY <1>2, <1>7, <2>1, <2>2
  <2> QED BY <1>4, <1>6, <2>1, <2>2, <2>3
<1>16. ASSUME NEW c \in calls, CallFails(c) PROVE CallsAreOfVisits'
  <2> DEFINE d == [c EXCEPT !.form = FALSE]
  <2>1. d.visit = c.visit /\ d.kind = c.kind /\ d.stage = c.stage BY <1>2 DEF Calls
  <2>2. UNCHANGED <<log, visits>> /\ calls' \subseteq (calls \ {c}) \cup {d} BY <1>16 DEF CallFails
  <2> HIDE DEF d
  <2>3. (Unentered(d) => Unentered(c)) /\ (d.stage = "decided" => d.kind = "cancel")
    BY <1>1, <2>1 DEF Unentered, CallsAreOfVisits
  <2> QED BY <1>4, <1>5, <2>1, <2>2, <2>3
<1>17. CASE \/ \E n \in 0 .. Len(log) : HubShows(n)
            \/ CheckAnother \/ CancelAdding
            \/ \E v \in Visits : Upload(v) \/ UploadEnds(v) \/ Tick(v)
            \/ \E c \in calls : RefuseCancel(c) \/ CheckedIn(c)
            \/ UNCHANGED kioskVars
  <2>1. UNCHANGED <<log, visits>> /\ calls' \subseteq calls
    BY <1>17 DEF HubShows, CheckAnother, CancelAdding, Upload, UploadEnds, Tick,
                 RefuseCancel, CheckedIn, kioskVars
  <2> QED BY <1>4, <1>6, <2>1
<1> QED BY <1>8, <1>9, <1>10, <1>11, <1>13, <1>14, <1>15, <1>16, <1>17 DEF KioskNext, Serves

-----------------------------------------------------------------------------
(***************************************************************************)
(* Whom the device tracks.                                                 *)
(***************************************************************************)
Tracked(v) == v \in checkIns \cup excused \/ \E c \in calls : c.visit = v

LEMMA TrackedStep == KioskInv /\ [KioskNext]_kioskVars => TrackedUnlessExcused'
<1> SUFFICES ASSUME KioskInv, [KioskNext]_kioskVars, NEW v \in Visits, Queued(v)'
             PROVE  Tracked(v)'
  BY DEF TrackedUnlessExcused, Tracked, Queued
<1> USE KioskAssumption DEF mounted, timers, shell, world, server
<1>1. KioskTypeOK /\ AllHaveLast /\ CompletedAreOut /\ CallsAreOfVisits /\ Countdowns /\ TimersHaveCards
  BY DEF KioskInv, Countdowns
<1>2. Queued(v) => Tracked(v) BY DEF KioskInv, TrackedUnlessExcused, Queued, Tracked
<1>3. \A c \in calls : c \in Calls /\ c.visit \in Visits BY <1>1 DEF KioskTypeOK, Calls
<1>4. UNCHANGED log => Queued(v) BY SameLog DEF Queued
(* A check-in whose row is not in is of a visit that is not in the queue. *)
<1>5. \A c \in calls : Unentered(c) => ~Queued(c.visit)
  BY <1>1, StatusHeard DEF Queued, CallsAreOfVisits, Absent
(* A visit the log's new change is not of is queued as before. *)
<1>6. ASSUME NEW w \in Visits, NEW s \in QueueStatus,
             log' = Append(log, [entry |-> w, status |-> s]), v # w
      PROVE  Queued(v)
  <2>1. StatusAt(Len(log), v)' = StatusAt(Len(log), v) BY <1>1, <1>6, OneMoreChange
  <2> QED BY <2>1 DEF Queued
<1>7. ASSUME NEW w \in Visits, NEW op \in {"callNext", "complete"}, Served(op, w) PROVE Tracked(v)'
  <2>1. UNCHANGED <<checkIns, calls>> /\ excused \subseteq excused' BY <1>7 DEF Served
  <2>2. CASE Queued(v) BY <1>2, <2>1, <2>2 DEF Tracked
  <2>3. CASE ~Queued(v)
    <3>1. /\ log' = Append(log, [entry |-> w, status |-> Target(op)]) /\ Target(op) \in QueueStatus
      BY <1>7, Recorded DEF Served
    <3>2. v = w BY <1>6, <2>3, <3>1
    <3>3. StatusAt(Len(log), v)' = Target(op) BY <1>1, <3>1, <3>2, OneMoreChange
    <3>4. Target(op) = "Serving"
      <4>1. op = "callNext" \/ op = "complete" OBVIOUS
      <4> QED BY <3>3, <4>1 DEF Target, Queued
    <3>5. v \in excused' BY <1>7, <2>3, <3>2, <3>4 DEF Served, Returns, Queued
    <3> QED BY <3>5 DEF Tracked
  <2> QED BY <2>2, <2>3
<1>8. CASE Repaint
  <2>1. Tracked(v) /\ UNCHANGED <<checkIns, excused>> BY <1>2, <1>4, <1>8 DEF Repaint
  <2>2. ASSUME NEW c \in calls PROVE \E d \in calls' : d.visit = c.visit
    <3> DEFINE d == [c EXCEPT !.form = c.form /\ ShowForm]
    <3>1. d \in calls' BY <1>8 DEF Repaint
    <3>2. d.visit = c.visit BY <1>1 DEF KioskTypeOK, Calls
    <3> QED BY <3>1, <3>2
  <2> QED BY <2>1, <2>2 DEF Tracked
<1>9. ASSUME NEW w \in Visits, StartOver(w) PROVE Tracked(v)'
  <2>1. Tracked(v) BY <1>2, <1>4, <1>9 DEF StartOver
  <2>2. checkIns' = checkIns \ {w} BY <1>9 DEF StartOver, OnRemove
  <2>3. CASE calls' = calls \cup {NewCall("cancel", w)} /\ UNCHANGED excused
    <3>1. NewCall("cancel", w).visit = w BY DEF NewCall
    <3> QED BY <2>1, <2>2, <2>3, <3>1 DEF Tracked
  <2>4. CASE excused' = excused \cup {w} /\ UNCHANGED calls BY <2>1, <2>2, <2>4 DEF Tracked
  <2> QED BY <1>9, <2>3, <2>4 DEF StartOver
<1>10. ASSUME NEW w \in Visits, Tick(w) PROVE Tracked(v)'
  <2>1. Queued(v) /\ Tracked(v) BY <1>2, <1>4, <1>10 DEF Tick
  <2>2. w \in resetHandle BY <1>1, <1>10 DEF Tick, TimersHaveCards
  <2>3. HasCompleted(w) BY <1>1, <2>2 DEF Countdowns
  <2>4. v # w \/ v \in excused BY <1>1, <2>1, <2>3 DEF CompletedAreOut
  <2>5. checkIns \ {w} \subseteq checkIns' /\ UNCHANGED <<excused, calls>>
    BY <1>10 DEF Tick, OnRemove
  <2> QED BY <2>1, <2>4, <2>5 DEF Tracked
(* A call the server moves on is still one of its visit. *)
<1>11. ASSUME NEW c \in calls, NEW stage, calls' = Moved(c, stage), UNCHANGED <<checkIns, excused>>,
              Queued(v) \/ v = c.visit
       PROVE  Tracked(v)'
  <2> DEFINE d == [c EXCEPT !.stage = stage]
  <2>1. d.visit = c.visit BY <1>3 DEF Calls
  <2>2. calls' = (calls \ {c}) \cup {d} BY <1>11 DEF Moved
  <2> HIDE DEF d
  <2> QED BY <1>2, <1>11, <2>1, <2>2 DEF Tracked
<1>12. ASSUME NEW c \in calls, ServeCheckIn(c) PROVE Tracked(v)'
  <2>1. /\ UNCHANGED <<checkIns, excused>> /\ \E stage : calls' = Moved(c, stage)
        /\ log' = Append(log, [entry |-> c.visit, status |-> "Waiting"])
    BY <1>12 DEF ServeCheckIn, Target
  <2>2. Queued(v) \/ v = c.visit BY <1>3, <1>6, <2>1 DEF QueueStatus
  <2> QED BY <1>11, <2>1, <2>2
<1>13. ASSUME NEW c \in calls, TakeStamp(c) \/ DecideCancel(c) PROVE Tracked(v)'
  <2>1. UNCHANGED <<log, checkIns, excused>> /\ \E stage : calls' = Moved(c, stage)
    BY <1>13 DEF TakeStamp, DecideCancel
  <2> QED BY <1>4, <1>11, <2>1
<1>14. ASSUME NEW c \in calls, RefuseCancel(c) \/ ServeCancel(c) PROVE Tracked(v)'
  <2>1. UNCHANGED <<checkIns, excused>> /\ calls' = calls \ {c} BY <1>14 DEF RefuseCancel, ServeCancel
  <2>2. v # c.visit /\ Queued(v)
    <3>1. CASE ServeCancel(c)
      <4>1. /\ log' = Append(log, [entry |-> c.visit, status |-> "Cancelled"])
        BY <3>1, Recorded DEF ServeCancel, Target
      <4>2. StatusAt(Len(log), c.visit)' = "Cancelled"
        BY <1>1, <1>3, <4>1, OneMoreChange DEF QueueStatus
      <4>3. v # c.visit BY <4>2 DEF Queued
      <4> QED BY <1>3, <1>6, <4>1, <4>3 DEF QueueStatus
    <3>2. CASE RefuseCancel(c) BY <1>4, <3>2 DEF RefuseCancel, Accepts, Queued
    <3> QED BY <1>14, <3>1, <3>2
  <2> QED BY <1>2, <2>1, <2>2 DEF Tracked
<1>15. ASSUME NEW c \in calls, CheckedIn(c) PROVE Tracked(v)'
  <2>1. Tracked(v) BY <1>2, <1>4, <1>15 DEF CheckedIn
  <2>2. checkIns \subseteq checkIns' /\ excused \subseteq excused' /\ calls' = calls \ {c}
        /\ c.visit \in checkIns' \cup excused'
    BY <1>15 DEF CheckedIn, OnCheckedIn
  <2> QED BY <2>1, <2>2 DEF Tracked
<1>16. ASSUME NEW c \in calls, CallFails(c) PROVE Tracked(v)'
  <2> DEFINE d == [c EXCEPT !.form = FALSE]
  <2>1. d.visit = c.visit /\ c.kind \in {"checkIn", "cancel"} /\ c.stage \in Stages BY <1>3 DEF Calls
  <2>2. Queued(v) /\ Tracked(v) BY <1>2, <1>4, <1>16 DEF CallFails
  <2>3. UNCHANGED checkIns /\ excused \subseteq excused' BY <1>16 DEF CallFails
  <2>4. CASE calls' = (calls \ {c}) \cup {d}
    <3> HIDE DEF d
    <3> QED BY <2>1, <2>2, <2>3, <2>4 DEF Tracked
  <2>5. CASE /\ calls' = calls \ {c}
             /\ excused' = IF c.kind = "cancel" \/ c.stage = "answered"
                           THEN excused \cup {c.visit} ELSE excused
    <3>1. CASE v # c.visit BY <2>2, <2>3, <2>5, <3>1 DEF Tracked
    <3>2. CASE v = c.visit
      <4>1. ~Unentered(c) BY <1>5, <2>2, <3>2
      <4>2. c.stage # "decided" \/ c.kind = "cancel" BY <1>1 DEF CallsAreOfVisits
      <4>3. c.visit \in excused' BY <2>1, <2>5, <4>1, <4>2 DEF Unentered, Stages
      <4> QED BY <3>2, <4>3 DEF Tracked
    <3> QED BY <3>1, <3>2
  <2> QED BY <1>16, <2>4, <2>5 DEF CallFails
<1>17. CASE \/ \E n \in 0 .. Len(log) : HubShows(n)
            \/ Submit \/ CheckAnother \/ CancelAdding
            \/ \E w \in Visits : Upload(w) \/ UploadEnds(w)
            \/ UNCHANGED kioskVars
  <2>1. UNCHANGED <<log, checkIns, excused>> /\ calls \subseteq calls'
    BY <1>17 DEF HubShows, Submit, CheckAnother, CancelAdding, Upload, UploadEnds, kioskVars
  <2> QED BY <1>2, <1>4, <2>1 DEF Tracked
<1> QED BY <1>7, <1>8, <1>9, <1>10, <1>12, <1>13, <1>14, <1>15, <1>16, <1>17 DEF KioskNext, Serves

-----------------------------------------------------------------------------
(* The inductive invariant: what the two properties below stand on. *)
THEOREM KioskInvariant == KioskSpec => []KioskInv
<1>1. KioskInv /\ [KioskNext]_kioskVars => KioskInv'
  <2> SUFFICES ASSUME KioskInv, [KioskNext]_kioskVars PROVE KioskInv' OBVIOUS
  <2>1. KioskTypeOK' BY TypeStep DEF KioskInv
  <2>2. AllHaveLast' /\ CompletedAreOut' BY LogStep
  <2>3. CallsAreOfVisits' BY CallsStep
  <2>4. Countdowns' BY TimersStep
  <2>5. TrackedUnlessExcused' BY TrackedStep
  <2> QED BY <2>1, <2>2, <2>3, <2>4, <2>5 DEF KioskInv
<1> QED BY KioskInitInv, <1>1, PTL DEF KioskSpec

(***************************************************************************)
(* However many visitors share the device, a countdown runs once, for a    *)
(* card that is on the screen (position-view.ts:93-115).                   *)
(***************************************************************************)
THEOREM CountdownsHaveCards == KioskSpec => []TimersHaveCards
<1>1. KioskInv => TimersHaveCards BY DEF KioskInv, Countdowns
<1> QED BY KioskInvariant, <1>1, PTL

(***************************************************************************)
(* The device never loses sight of an entry in the queue (position-view    *)
(* .ts:24-25) but in the five ways that TrackedUnlessExcused names.        *)
(***************************************************************************)
THEOREM NoVisitLost == KioskSpec => []TrackedUnlessExcused
<1>1. KioskInv => TrackedUnlessExcused BY DEF KioskInv
<1> QED BY KioskInvariant, <1>1, PTL

-----------------------------------------------------------------------------
(***************************************************************************)
(* The number on a card. A visit's check-in is the first change the server *)
(* has of it, and a card is of a visit that is checked in: whoever is      *)
(* ahead of it in a later snapshot was so at its check-in and in every     *)
(* snapshot in between.                                                    *)
(***************************************************************************)
IsCheckIn(k, v) == log[k].entry = v /\ log[k].status = "Waiting"
Known(v) == \E k \in DOMAIN log : IsCheckIn(k, v)

Entered(c) == c.stage = "answered"

CheckInIsFirst ==
  \A k, j \in DOMAIN log : log[k].entry = log[j].entry /\ log[k].status = "Waiting" => k <= j

CheckInInv ==
  /\ CheckInIsFirst
  /\ \A v \in checkIns \cup cards : Known(v)
  /\ \A c \in calls : Entered(c) => Known(c.visit)

(* A change more of visit v, its first if it is a check-in. *)
Grows(v, s) ==
  /\ log' = Append(log, [entry |-> v, status |-> s])
  /\ s = "Waiting" => ~Heard(v)

LEMMA ServerMoves ==
  ASSUME KioskInv, [KioskNext]_kioskVars
  PROVE  log' = log \/ (shown' = shown /\ \E v \in Visits, s \in QueueStatus : Grows(v, s))
BY LogMoves, OneVisit DEF Grows

LEMMA CheckInIs ==
  ASSUME KioskTypeOK, CheckInIsFirst, NEW v, NEW k \in DOMAIN log, IsCheckIn(k, v)
  PROVE  CheckedInAt(v) = k
<1>1. DOMAIN log \subseteq Int BY DEF KioskTypeOK
<1>2. \A j \in DOMAIN log : IsCheckIn(j, v) => j = k BY <1>1 DEF CheckInIsFirst, IsCheckIn
<1> QED BY <1>2 DEF CheckedInAt, IsCheckIn

(* What a change leaves as it was. *)
LEMMA GrowthKeeps ==
  ASSUME KioskInv, CheckInIsFirst, NEW v \in Visits, NEW s \in QueueStatus, Grows(v, s)
  PROVE  /\ CheckInIsFirst'
         /\ \A w : Known(w) => Known(w)' /\ CheckedInAt(w)' = CheckedInAt(w)
         /\ \A n \in 0 .. Len(log), w \in Visits : StatusAt(n, w)' = StatusAt(n, w)
<1> USE DEF KioskInv
<1>1. /\ Len(log) \in Nat /\ DOMAIN log = 1 .. Len(log)
      /\ Len(log') = Len(log) + 1 /\ DOMAIN log' = 1 .. Len(log) + 1
      /\ log'[Len(log) + 1] = [entry |-> v, status |-> s]
      /\ \A k \in 1 .. Len(log) : log'[k] = log[k]
  BY DEF KioskTypeOK, Event, Grows
<1>2. CheckInIsFirst'
  <2> SUFFICES ASSUME NEW k \in DOMAIN log', NEW j \in DOMAIN log',
                      log'[k].entry = log'[j].entry, log'[k].status = "Waiting"
               PROVE  k <= j
    BY DEF CheckInIsFirst
  <2>1. CASE k \in 1 .. Len(log) /\ j \in 1 .. Len(log) BY <1>1, <2>1 DEF CheckInIsFirst
  <2>2. CASE k = Len(log) + 1 /\ j \in 1 .. Len(log) BY <1>1, <2>2 DEF Grows, Heard
  <2>3. CASE j = Len(log) + 1 BY <1>1, <2>3
  <2> QED BY <1>1, <2>1, <2>2, <2>3
<1>3. ASSUME NEW w, Known(w) PROVE Known(w)' /\ CheckedInAt(w)' = CheckedInAt(w)
  <2>1. PICK k \in DOMAIN log : IsCheckIn(k, w) BY <1>3 DEF Known
  <2>2. k \in DOMAIN log' /\ IsCheckIn(k, w)' BY <1>1, <2>1 DEF IsCheckIn
  <2>3. \A j \in DOMAIN log' : log'[j].entry = w /\ log'[j].status = "Waiting" => j = k
    BY <1>1, <1>2, <2>2 DEF CheckInIsFirst, IsCheckIn
  <2>4. CheckedInAt(w) = k BY <2>1, CheckInIs
  <2>5. CheckedInAt(w)' = k BY <2>2, <2>3 DEF CheckedInAt, IsCheckIn
  <2> QED BY <2>2, <2>4, <2>5 DEF Known
<1>4. ASSUME NEW n \in 0 .. Len(log), NEW w \in Visits PROVE StatusAt(n, w)' = StatusAt(n, w)
  <2>1. EventsAbout(log', w, n) = EventsAbout(log, w, n) BY <1>1 DEF EventsAbout
  <2>2. CASE EventsAbout(log, w, n) = {} BY <2>1, <2>2 DEF StatusAt
  <2>3. CASE EventsAbout(log, w, n) # {}
    <3> DEFINE last == CHOOSE k \in EventsAbout(log, w, n) : \A j \in EventsAbout(log, w, n) : j <= k
    <3>1. HasLast(n, w) BY DEF AllHaveLast
    <3>2. last \in 1 .. Len(log) BY <1>1, <2>3, <3>1 DEF HasLast, EventsAbout
    <3>3. StatusAt(n, w) = log[last].status BY <2>3 DEF StatusAt
    <3>4. StatusAt(n, w)' = log'[last].status BY <2>1, <2>3 DEF StatusAt
    <3> QED BY <1>1, <3>2, <3>3, <3>4
  <2> QED BY <2>2, <2>3
<1> QED BY <1>2, <1>3, <1>4

LEMMA CheckInStep == KioskInv /\ CheckInInv /\ [KioskNext]_kioskVars => CheckInInv'
<1> SUFFICES ASSUME KioskInv, CheckInInv, [KioskNext]_kioskVars PROVE CheckInInv' OBVIOUS
<1> USE DEF mounted, timers, shell, world, server
<1>1. CheckInIsFirst' /\ \A v : Known(v) => Known(v)'
  <2>1. CASE log' = log BY <2>1 DEF CheckInInv, CheckInIsFirst, Known, IsCheckIn
  <2>2. CASE \E v \in Visits, s \in QueueStatus : Grows(v, s) BY <2>2, GrowthKeeps DEF CheckInInv
  <2> QED BY <2>1, <2>2, ServerMoves
<1>2. \A v \in checkIns \cup cards : Known(v)' BY <1>1 DEF CheckInInv
<1>3. \A c \in calls : Entered(c) => Known(c.visit)' BY <1>1 DEF CheckInInv
<1>4. ASSUME checkIns' \subseteq checkIns, cards' \subseteq checkIns \cup cards,
             \A d \in calls' : Entered(d) => \E c \in calls : Entered(c) /\ c.visit = d.visit
      PROVE  CheckInInv'
  BY <1>1, <1>2, <1>3, <1>4 DEF CheckInInv, Entered
<1>5. CASE Repaint
  <2>1. ASSUME NEW d \in calls', Entered(d)
        PROVE  \E c \in calls : Entered(c) /\ c.visit = d.visit
    <3>1. PICK c \in calls : d = [c EXCEPT !.form = c.form /\ ShowForm] BY <1>5 DEF Repaint
    <3>2. c \in Calls BY DEF KioskInv, KioskTypeOK
    <3>3. d.stage = c.stage /\ d.visit = c.visit BY <3>1, <3>2 DEF Calls
    <3> QED BY <2>1, <3>3 DEF Entered
  <2>2. checkIns' = checkIns /\ cards' \subseteq checkIns BY <1>5 DEF Repaint, Mounted
  <2> QED BY <1>4, <2>1, <2>2
<1>6. ASSUME NEW c \in calls, NEW stage, calls' = Moved(c, stage),
             UNCHANGED <<checkIns, cards>>, stage = "answered" => Known(c.visit)'
      PROVE  CheckInInv'
  <2> DEFINE d == [c EXCEPT !.stage = stage]
  <2>1. c \in Calls BY DEF KioskInv, KioskTypeOK
  <2>2. d.visit = c.visit /\ d.stage = stage BY <2>1 DEF Calls
  <2>3. calls' = (calls \ {c}) \cup {d} BY <1>6 DEF Moved
  <2> HIDE DEF d
  <2>4. \A b \in calls' : Entered(b)' => Known(b.visit)' BY <1>3, <1>6, <2>2, <2>3 DEF Entered
  <2> QED BY <1>1, <1>2, <1>6, <2>4 DEF CheckInInv
<1>7. ASSUME NEW c \in calls, ServeCheckIn(c) PROVE CheckInInv'
  <2>1. c \in Calls /\ log \in Seq(Event(Visits)) BY DEF KioskInv, KioskTypeOK
  <2>2. Known(c.visit)'
    <3>1. Len(log) + 1 \in DOMAIN log' /\ log'[Len(log) + 1] = [entry |-> c.visit, status |-> "Waiting"]
      BY <1>7, <2>1 DEF ServeCheckIn, Target, Calls, Event, QueueStatus
    <3> QED BY <3>1 DEF Known, IsCheckIn
  <2>3. UNCHANGED <<checkIns, cards>> /\ \E stage : calls' = Moved(c, stage) BY <1>7 DEF ServeCheckIn
  <2> QED BY <1>6, <2>2, <2>3
<1>8. ASSUME NEW c \in calls, TakeStamp(c) \/ DecideCancel(c) PROVE CheckInInv'
  <2>1. UNCHANGED <<checkIns, cards>> BY <1>8 DEF TakeStamp, DecideCancel
  <2>2. CASE TakeStamp(c) BY <1>6, <2>1, <2>2 DEF TakeStamp
  <2>4. CASE DecideCancel(c) BY <1>6, <2>1, <2>4 DEF DecideCancel
  <2> QED BY <1>8, <2>2, <2>4
<1>9. ASSUME NEW c \in calls, CheckedIn(c) PROVE CheckInInv'
  <2>1. checkIns' \subseteq checkIns \cup {c.visit} /\ cards' = cards /\ calls' \subseteq calls
        /\ Entered(c)
    BY <1>9 DEF CheckedIn, OnCheckedIn, Entered
  <2> QED BY <1>1, <1>2, <1>3, <2>1 DEF CheckInInv, Entered
<1>10. ASSUME NEW c \in calls, CallFails(c) PROVE CheckInInv'
  <2>1. c \in Calls /\ UNCHANGED <<checkIns, cards>> BY <1>10 DEF CallFails, KioskInv, KioskTypeOK
  <2>2. \A d \in calls' : d \in calls \/ d = [c EXCEPT !.form = FALSE] BY <1>10 DEF CallFails
  <2>3. \A d \in calls' : Entered(d) => \E b \in calls : Entered(b) /\ b.visit = d.visit
    BY <2>1, <2>2 DEF Calls, Entered
  <2> QED BY <1>4, <2>1, <2>3
<1>11. CASE \/ \E v \in Visits, op \in {"callNext", "complete"} : Served(op, v)
            \/ \E n \in 0 .. Len(log) : HubShows(n)
            \/ Submit \/ CheckAnother \/ CancelAdding
            \/ \E v \in Visits : Upload(v) \/ UploadEnds(v) \/ StartOver(v) \/ Tick(v)
            \/ \E c \in calls : RefuseCancel(c) \/ ServeCancel(c)
            \/ UNCHANGED kioskVars
  <2>1. checkIns' \subseteq checkIns /\ cards' = cards
    BY <1>11 DEF Served, HubShows, Submit, CheckAnother, CancelAdding, Upload, UploadEnds,
                 StartOver, Tick, OnRemove, RefuseCancel, ServeCancel, kioskVars
  <2>2. calls' \subseteq calls \/ \E kind, v : calls' = calls \cup {NewCall(kind, v)}
    BY <1>11 DEF Served, HubShows, Submit, CheckAnother, CancelAdding, Upload, UploadEnds,
                 StartOver, Tick, RefuseCancel, ServeCancel, kioskVars
  <2>3. \A d \in calls' : Entered(d) => d \in calls BY <2>2 DEF NewCall, Entered
  <2> QED BY <1>4, <2>1, <2>3
<1> QED BY <1>5, <1>7, <1>8, <1>9, <1>10, <1>11 DEF KioskNext, Serves

(* Who is ahead of v at n, with v's check-in at m or before, was in the line at m. *)
LEMMA AheadBefore ==
  ASSUME KioskInv, CheckInIsFirst, NEW v \in Visits, NEW w \in Visits, NEW n \in 0 .. Len(log),
         NEW m \in 0 .. n, CheckedInAt(v) \in 0 .. m,
         StatusAt(n, w) = "Waiting", CheckedInAt(w) <= CheckedInAt(v)
  PROVE  StatusAt(m, w) = "Waiting"
<1> USE DEF KioskInv
<1>1. Len(log) \in Nat /\ DOMAIN log = 1 .. Len(log) BY DEF KioskTypeOK
<1>2. HasLast(n, w) /\ HasLast(m, w) /\ m \in 0 .. Len(log) BY <1>1 DEF AllHaveLast
<1>3. PICK k \in EventsAbout(log, w, n) :
        (\A j \in EventsAbout(log, w, n) : j <= k) /\ log[k].status = "Waiting"
  BY <1>2, StatusIsLast DEF Absent
<1>4. k \in DOMAIN log /\ IsCheckIn(k, w) BY <1>3 DEF EventsAbout, IsCheckIn
<1>5. CheckedInAt(w) = k BY <1>4, CheckInIs
<1>6. k \in EventsAbout(log, w, m) BY <1>1, <1>4, <1>5 DEF EventsAbout, IsCheckIn
<1>7. PICK j \in EventsAbout(log, w, m) :
        (\A i \in EventsAbout(log, w, m) : i <= j) /\ StatusAt(m, w) = log[j].status
  BY <1>2, <1>6, StatusIsLast
<1>8. j \in EventsAbout(log, w, n) BY <1>1, <1>7 DEF EventsAbout
<1>9. j = k BY <1>1, <1>3, <1>4, <1>6, <1>7, <1>8 DEF EventsAbout
<1> QED BY <1>3, <1>7, <1>9

(* The positions are numbers of visits: fewer visits, a lower position. *)
LEMMA FewerVisits ==
  ASSUME NEW S, NEW T, S \subseteq T, T \subseteq Visits
  PROVE  Cardinality(S) <= Cardinality(T)
<1>1. IsFiniteSet(Visits) BY KioskAssumption, FS_Interval DEF Visits
<1> QED BY <1>1, FS_Subset

(* A snapshot that is not older than the last one. *)
LEMMA NewerSnapshot ==
  ASSUME KioskInv, CheckInInv, NEW v \in cards, NEW n \in 0 .. Len(log), HubShows(n), n >= shown,
         StatusAt(n, v) \in {Absent, "Waiting"}, provider = "Sqlite"
  PROVE  Position(v)' <= Position(v)
<1> USE DEF KioskInv
<1>1. /\ log' = log /\ provider' = provider /\ shown' = n /\ shown \in 0 .. Len(log) /\ v \in Visits
      /\ Len(log) \in Nat /\ DOMAIN log = 1 .. Len(log) /\ CheckInIsFirst
  BY DEF HubShows, server, KioskTypeOK, CheckInInv
<1>2. PICK c \in DOMAIN log : IsCheckIn(c, v) BY DEF CheckInInv, Known
<1>3. CheckedInAt(v) = c BY <1>1, <1>2, CheckInIs
<1>4. /\ Status(v)' = StatusAt(n, v) /\ Place(shown, v)' = Place(n, v)
      /\ SeedPosition(v)' = SeedPosition(v)
  BY <1>1 DEF Status, StatusAt, Place, Before, SeedPosition, CheckedInAt, EventsAbout
<1>5. Position(v)' = IF StatusAt(n, v) = Absent THEN SeedPosition(v) ELSE Place(n, v)
  BY <1>4 DEF Position
<1>6. \A j \in EventsAbout(log, v, n) : c <= j
  BY <1>1, <1>2 DEF CheckInIsFirst, IsCheckIn, EventsAbout
<1>7. HasLast(n, v) /\ HasLast(shown, v) BY <1>1 DEF AllHaveLast
<1>8. \A i \in 0 .. Len(log) : EventsAbout(log, v, i) # {} => StatusAt(i, v) # Absent
  <2> SUFFICES ASSUME NEW i \in 0 .. Len(log), EventsAbout(log, v, i) # {}
               PROVE  StatusAt(i, v) # Absent
    OBVIOUS
  <2>1. HasLast(i, v) BY <1>1 DEF AllHaveLast
  <2>2. PICK k \in EventsAbout(log, v, i) : StatusAt(i, v) = log[k].status
    BY <1>1, <2>1, StatusIsLast
  <2>3. k \in DOMAIN log /\ log \in Seq(Event(Visits)) BY DEF EventsAbout, KioskTypeOK
  <2>4. log[k] \in Event(Visits) BY <1>1, <2>3
  <2>5. log[k].status \in QueueStatus BY <2>4 DEF Event
  <2> QED BY <2>2, <2>5 DEF QueueStatus, Absent
(* What is ahead at n, against any earlier moment at which v was checked in. *)
<1>9. ASSUME NEW m \in c .. n
      PROVE  {w \in Visits : StatusAt(n, w) = "Waiting" /\ CheckedInAt(w) <= c}
               \subseteq {w \in Visits : StatusAt(m, w) = "Waiting" /\ CheckedInAt(w) <= c}
  <2> SUFFICES ASSUME NEW w \in Visits, StatusAt(n, w) = "Waiting", CheckedInAt(w) <= c
               PROVE  StatusAt(m, w) = "Waiting"
    OBVIOUS
  <2>1. m \in 0 .. n /\ c \in 0 .. m BY <1>1
  <2> QED BY <1>1, <1>3, <2>1, AheadBefore
<1>10. CASE StatusAt(n, v) = Absent
  <2>1. EventsAbout(log, v, n) = {} BY <1>8, <1>10
  <2>2. EventsAbout(log, v, shown) = {} BY <1>1, <2>1 DEF EventsAbout
  <2>3. Position(v) = SeedPosition(v) BY <2>2 DEF Position, Status, StatusAt
  <2>4. SeedPosition(v) <= SeedPosition(v) BY FewerVisits DEF SeedPosition
  <2> QED BY <1>5, <1>10, <2>3, <2>4
<1>11. CASE StatusAt(n, v) = "Waiting"
  <2>1. Position(v)' = Cardinality({w \in Visits : StatusAt(n, w) = "Waiting" /\ CheckedInAt(w) <= c})
    BY <1>3, <1>5, <1>11 DEF Place, Before, Absent
  <2>2. EventsAbout(log, v, n) # {} BY <1>11 DEF StatusAt, Absent
  <2>3. c <= n BY <1>1, <1>6, <2>2 DEF EventsAbout
  <2>4. CASE Status(v) = Absent
    <3>1. Position(v) = Cardinality({w \in Visits : StatusAt(c, w) = "Waiting"})
      BY <1>3, <2>4 DEF Position, SeedPosition
    <3>2. {w \in Visits : StatusAt(n, w) = "Waiting" /\ CheckedInAt(w) <= c}
            \subseteq {w \in Visits : StatusAt(c, w) = "Waiting"}
      <4>1. c \in c .. n BY <1>1, <2>3
      <4> QED BY <1>9, <4>1
    <3> QED BY <2>1, <3>1, <3>2, FewerVisits
  <2>5. CASE Status(v) # Absent
    <3>1. Position(v) = Cardinality({w \in Visits : StatusAt(shown, w) = "Waiting" /\ CheckedInAt(w) <= c})
      BY <1>3, <2>5 DEF Position, Place, Before
    <3>2. PICK j \in EventsAbout(log, v, shown) : TRUE BY <2>5 DEF Status, StatusAt
    <3>3. j \in EventsAbout(log, v, n) /\ j <= shown BY <1>1, <3>2 DEF EventsAbout
    <3>4. shown \in c .. n BY <1>1, <1>6, <3>3 DEF EventsAbout
    <3> QED BY <2>1, <3>1, <1>9, <3>4, FewerVisits
  <2> QED BY <2>4, <2>5
<1> QED BY <1>10, <1>11

(* A snapshot that stays, while the server goes on. *)
LEMMA SameSnapshot ==
  ASSUME KioskInv, CheckInInv, NEW v \in cards, shown' = shown,
         provider = "Sqlite", provider' = provider,
         log' = log \/ \E w \in Visits, s \in QueueStatus : Grows(w, s)
  PROVE  Position(v)' <= Position(v)
<1> USE DEF KioskInv
<1>1. v \in Visits /\ Known(v) /\ CheckInIsFirst /\ shown \in 0 .. Len(log)
      /\ Len(log) \in Nat /\ DOMAIN log = 1 .. Len(log)
  BY DEF KioskTypeOK, CheckInInv
<1>2. Position(v) <= Position(v)
  <2>1. SeedPosition(v) <= SeedPosition(v) BY FewerVisits DEF SeedPosition
  <2>2. Place(shown, v) <= Place(shown, v) BY FewerVisits DEF Place
  <2> QED BY <2>1, <2>2 DEF Position
<1>3. CASE log' = log
  <2>1. Position(v)' = Position(v)
    BY <1>3 DEF Position, Status, StatusAt, Place, Before, SeedPosition, CheckedInAt, EventsAbout
  <2> QED BY <1>2, <2>1
<1>4. CASE log' # log
  <2>1. /\ \A w : Known(w) => CheckedInAt(w)' = CheckedInAt(w)
        /\ \A n \in 0 .. Len(log), w \in Visits : StatusAt(n, w)' = StatusAt(n, w)
    BY <1>1, <1>4, GrowthKeeps
  <2>2. CheckedInAt(v)' = CheckedInAt(v) /\ CheckedInAt(v) \in 0 .. Len(log)
    <3>1. PICK k \in DOMAIN log : IsCheckIn(k, v) BY <1>1 DEF Known
    <3>2. CheckedInAt(v) = k BY <1>1, <3>1, CheckInIs
    <3> QED BY <1>1, <2>1, <3>2
  <2>3. Status(v)' = Status(v) BY <1>1, <2>1 DEF Status
  <2>4. SeedPosition(v)' = SeedPosition(v)
    <3>1. \A w \in Visits : StatusAt(CheckedInAt(v), w)' = StatusAt(CheckedInAt(v), w) BY <2>1, <2>2
    <3> QED BY <2>2, <3>1 DEF SeedPosition
  <2>5. Place(shown, v)' = Place(shown, v)
    <3>1. ASSUME NEW w \in Visits, StatusAt(shown, w) = "Waiting" PROVE Known(w)
      <4>1. HasLast(shown, w) BY <1>1 DEF AllHaveLast
      <4>2. \E k \in EventsAbout(log, w, shown) : log[k].status = "Waiting"
        BY <1>1, <3>1, <4>1, StatusIsLast DEF Absent
      <4> QED BY <4>2 DEF Known, IsCheckIn, EventsAbout
    <3>2. \A w \in Visits : StatusAt(shown, w)' = StatusAt(shown, w) BY <1>1, <2>1
    <3> QED BY <2>1, <2>2, <3>1, <3>2 DEF Place, Before
  <2>6. Position(v)' = Position(v) BY <2>3, <2>4, <2>5 DEF Position
  <2> QED BY <1>2, <2>6
<1> QED BY <1>3, <1>4

(***************************************************************************)
(* With SQLite on the server, the number on a card never grows while       *)
(* snapshots do not go back, from the check-in's answer on                 *)
(* (position-view.ts:31-33, 74-92), whatever staff, stale decisions and    *)
(* lost answers do.                                                        *)
(***************************************************************************)
THEOREM CardsMoveForward == KioskSpec => PlaceOnlyImproves
<1>1. KioskInit => CheckInInv
  BY DEF KioskInit, CheckInInv, CheckInIsFirst
<1>2. ASSUME KioskInv, CheckInInv, [KioskNext]_kioskVars
      PROVE  [provider = "Sqlite" =>
                \A v \in cards \cap cards' :
                  /\ shown' >= shown /\ Status(v)' \in {Absent, "Waiting"}
                  => Position(v)' <= Position(v)]_kioskVars
  <2> SUFFICES ASSUME provider = "Sqlite", NEW v \in cards, shown' >= shown, Status(v)' \in {Absent, "Waiting"}
               PROVE  Position(v)' <= Position(v)
    OBVIOUS
  <2>0. provider' = provider
    BY <1>2 DEF KioskNext, Serves, Served, Records, HubShows, Repaint, Submit, CheckAnother,
       CancelAdding, Upload, UploadEnds, StartOver, Tick, TakeStamp, ServeCheckIn, RefuseCancel,
       DecideCancel, ServeCancel, CheckedIn, CallFails, kioskVars, world, server
  <2>1. CASE shown' = shown BY <1>2, <2>0, <2>1, ServerMoves, SameSnapshot
  <2>2. ASSUME NEW n \in 0 .. Len(log), HubShows(n) PROVE Position(v)' <= Position(v)
    <3>1. n >= shown /\ Status(v)' = StatusAt(n, v)
      BY <2>2 DEF HubShows, server, Status, StatusAt, EventsAbout
    <3> QED BY <1>2, <2>2, <3>1, NewerSnapshot
  <2>3. CASE shown' # shown
    <3>1. \E n \in 0 .. Len(log) : HubShows(n)
      BY <1>2, <2>3 DEF KioskNext, Serves, Served, Repaint, Submit, CheckAnother,
         CancelAdding, Upload, UploadEnds, StartOver, Tick, TakeStamp, ServeCheckIn,
         RefuseCancel, DecideCancel, ServeCancel, CheckedIn, CallFails, kioskVars, world, server
    <3> QED BY <2>2, <3>1
  <2> QED BY <2>1, <2>3
<1> QED BY <1>1, <1>2, CheckInStep, KioskInvariant, PTL DEF KioskSpec, PlaceOnlyImproves

-----------------------------------------------------------------------------
(***************************************************************************)
(* The tab: a kiosk or a console, which never disturbs the state of the    *)
(* app it does not run. It implements both modules, and keeps what is      *)
(* proved of each, whenever its configuration arrives and however often it *)
(* is reloaded.                                                            *)
(***************************************************************************)
(* The tab, app and configuration apart, is a staff console ... *)
THEOREM TabImplementsStaffConsole == Spec => StaffSpec
<1>1. Init => StaffInit BY DEF Init
<1>2. [Next]_vars => [StaffNext]_staffVars
  BY DEF Next, vars, Load, Reload, Staff, AtKiosk
<1> QED BY <1>1, <1>2, PTL DEF Spec, StaffSpec

(* ... and a kiosk. *)
THEOREM TabImplementsKiosk == Spec => KioskSpec
<1>1. Init => KioskInit BY DEF Init
<1>2. [Next]_vars => [KioskNext]_kioskVars
  BY DEF Next, vars, Load, Reload, Staff, AtKiosk
<1> QED BY <1>1, <1>2, PTL DEF Spec, KioskSpec

(* Type correctness of the tab. *)
THEOREM TabTypeCorrect == Spec => []TypeOK
<1> DEFINE Started == app \in {"kiosk", "staff"} /\ config \in {"null", "loaded", "failed"}
<1>1. Init => Started BY DEF Init
<1>2. Started /\ [Next]_vars => Started'
  BY DEF Next, vars, Load, Reload, Staff, AtKiosk, Runs
<1>3. Spec => []Started BY <1>1, <1>2, PTL DEF Spec
<1>4. Spec => []StaffInv BY TabImplementsStaffConsole, StaffInvariant, PTL
<1>5. Spec => []KioskInv BY TabImplementsKiosk, KioskInvariant, PTL
<1>6. Started /\ StaffInv /\ KioskInv => TypeOK BY DEF TypeOK, StaffInv, KioskInv
<1> QED BY <1>3, <1>4, <1>5, <1>6, PTL

(***************************************************************************)
(* What the tab's run checks of either app on a small instance holds of    *)
(* the tab for all values of the constants.                                *)
(***************************************************************************)
THEOREM TabSafe ==
  Spec => /\ [](UrlsAreShown /\ StaleOnlyAfterOverlap /\ TimersHaveCards /\ TrackedUnlessExcused)
          /\ PlaceOnlyImproves
BY TabImplementsStaffConsole, TabImplementsKiosk, NoUrlLeak, SettledShowsSelected,
   CountdownsHaveCards, NoVisitLost, CardsMoveForward, PTL
=============================================================================
