---------------------------- MODULE StaffConsole ----------------------------
(***************************************************************************)
(* The internal-queue app: session and sign-in (staff-session.service.ts,  *)
(* staff-sign-in.ts), the shell that shows one screen or the other         *)
(* (app.ts), and the console (queue-console.ts) with its DocumentViewer.   *)
(*                                                                         *)
(* What the server does with call-next and complete is the repositories'   *)
(* matter, and which rows the console lists the hub service's: any entry   *)
(* may be listed. A request is sent, served and answered in steps of their *)
(* own; the answer comes after the pass its own click has scheduled. Keys  *)
(* are numbered in the order the server accepts them.                      *)
(***************************************************************************)
EXTENDS DocumentViewer

CONSTANTS
  MaxKey,       \* bounds the keys the server is given
  MaxFailures   \* bounds the requests lost on the network

ASSUME StaffConsoleAssumption == MaxKey \in Nat /\ MaxFailures \in Nat /\ None \notin Nat

VARIABLES
  serverKey,        \* StaffAuth:Key
  staffKey,         \* the session's; None shows the sign-in screen
  verifying,        \* the key being verified, and what the server has said of it
  selectedEntryId,
  action,           \* the call-next or complete under way (actioning), likewise
  enabled,          \* whether the screen's buttons are
  failures

staffVars == <<viewerVars, serverKey, staffKey, verifying, selectedEntryId, action, enabled, failures>>

Keys == 1 .. MaxKey
Answers == {"none", "ok", "refused", "failed"}
Actions == [entry : Entries \cup {None}, key : Keys, answer : Answers]

StaffInit ==
  /\ ViewerInit
  /\ serverKey = 1 /\ staffKey = None /\ verifying = None
  /\ selectedEntryId = None /\ action = None
  /\ enabled = TRUE /\ failures = 0

-----------------------------------------------------------------------------
(* The key is replaced on the server. *)
Rotate ==
  /\ serverKey < MaxKey
  /\ serverKey' = serverKey + 1
  /\ UNCHANGED <<viewerVars, staffKey, verifying, selectedEntryId, action, enabled, failures>>

(* A pass: the screen the session calls for; a console torn down forgets its selection. *)
Render ==
  /\ enabled' = (verifying = None /\ action = None)
  /\ selectedEntryId' = IF staffKey = None THEN None ELSE selectedEntryId
  /\ Pass(selectedEntryId')
  /\ UNCHANGED <<serverKey, staffKey, verifying, action, failures>>

Lost == failures < MaxFailures /\ failures' = failures + 1

(* StaffSignIn.submit *)
SubmitKey(k) ==
  /\ staffKey = None /\ enabled /\ verifying = None
  /\ verifying' = [key |-> k, answer |-> "none"]
  /\ UNCHANGED <<viewerVars, serverKey, staffKey, selectedEntryId, action, enabled, failures>>

(* The filter of every staff endpoint: a 401, or what the endpoint answers. *)
StaffAuth(key, answer) == IF key = serverKey THEN answer ELSE "refused"

VerifyServed ==
  /\ verifying # None /\ verifying.answer = "none"
  /\ verifying' = [verifying EXCEPT !.answer = StaffAuth(verifying.key, "ok")]
  /\ UNCHANGED <<viewerVars, serverKey, staffKey, selectedEntryId, action, enabled, failures>>

(* verifyStaffKey's answer: signIn, or a message, also when the answer is lost. *)
Verified ==
  /\ verifying # None /\ ~enabled
  /\ verifying' = None
  /\ \/ verifying.answer = "ok" /\ staffKey' = verifying.key /\ UNCHANGED failures
     \/ verifying.answer = "refused" /\ UNCHANGED <<staffKey, failures>>
     \/ Lost /\ UNCHANGED staffKey
  /\ UNCHANGED <<viewerVars, serverKey, selectedEntryId, action, enabled>>

(* callNext (of no entry) and complete, up to their request. *)
Act(e) ==
  /\ staffKey # None /\ enabled /\ action = None
  /\ action' = [entry |-> e, key |-> staffKey, answer |-> "none"]
  /\ UNCHANGED <<viewerVars, serverKey, staffKey, verifying, selectedEntryId, enabled, failures>>

(* Served: refused, done, or turned down for the state the entry is in. *)
ActionServed ==
  /\ action # None /\ action.answer = "none"
  /\ \E answer \in {"ok", "failed"} :
       action' = [action EXCEPT !.answer = StaffAuth(action.key, answer)]
  /\ UNCHANGED <<viewerVars, serverKey, staffKey, verifying, selectedEntryId, enabled, failures>>

(* Slip: a 401 taken for any failure, as a test of the message would. No action uses it. *)
HandleActionErrorSlip == UNCHANGED staffKey

(* handleActionError: a 401 signs out, anything else is a message. *)
HandleActionError == staffKey' = IF action.answer = "refused" THEN None ELSE staffKey

(***************************************************************************)
(* Their answer. complete closes the viewer if it is still the entry's.    *)
(***************************************************************************)
Acted ==
  /\ action # None /\ ~enabled
  /\ action' = None
  /\ \/ /\ action.answer = "ok"
        /\ selectedEntryId' = IF action.entry = selectedEntryId THEN None ELSE selectedEntryId
        /\ UNCHANGED <<staffKey, failures>>
     \/ /\ action.answer \in {"refused", "failed"}
        /\ HandleActionError /\ UNCHANGED <<selectedEntryId, failures>>
     \/ Lost /\ UNCHANGED <<staffKey, selectedEntryId>>
  /\ UNCHANGED <<viewerVars, serverKey, verifying, enabled>>

SelectEntry(e) ==
  /\ staffKey # None /\ enabled /\ asked < MaxLoads
  /\ selectedEntryId' = e
  /\ UNCHANGED <<viewerVars, serverKey, staffKey, verifying, action, enabled, failures>>

consoleVars == <<serverKey, staffKey, verifying, selectedEntryId, action, enabled, failures>>

View(d) == SelectDocument(d) /\ UNCHANGED consoleVars
Answer(n) == Answered(n) /\ UNCHANGED consoleVars

Click ==
  \/ \E k \in Keys : SubmitKey(k)
  \/ \E e \in Entries \cup {None} : Act(e)
  \/ \E e \in Entries : SelectEntry(e)
  \/ \E d \in Documents : View(d)

StaffNext ==
  \/ Rotate \/ Render \/ Click
  \/ VerifyServed \/ Verified \/ ActionServed \/ Acted
  \/ \E n \in 1 .. asked : Answer(n)

StaffSpec == StaffInit /\ [][StaffNext]_staffVars

-----------------------------------------------------------------------------
(* Type invariant. *)
StaffTypeOK ==
  /\ ViewerTypeOK
  /\ serverKey \in Nat /\ staffKey \in Keys \cup {None}
  /\ verifying \in [key : Keys, answer : Answers] \cup {None}
  /\ selectedEntryId \in Entries \cup {None} /\ action \in Actions \cup {None}
  /\ enabled \in BOOLEAN /\ failures \in 0 .. MaxFailures

(***************************************************************************)
(* Staff whose request reaches the server after it has got a new key end   *)
(* up at the sign-in screen, whatever they have open and however often the *)
(* key is replaced: "the only recovery, since nothing here works without a *)
(* valid key" (queue-console.ts:17-20). A request that was served under    *)
(* the old key, and is answered after the new one has come, says nothing   *)
(* of the key, nor does a lost answer: said of when the network has lost   *)
(* its last.                                                               *)
(***************************************************************************)
RejectedKeySignsOut ==
  /\ failures = MaxFailures
  /\ action # None /\ action.answer = "none" /\ action.key # serverKey
  ~> staffKey = None
=============================================================================
