----------------------------- MODULE Documents -----------------------------
(***************************************************************************)
(* The documents of one queue entry: DocumentUploadService, the cleanup of *)
(* QueueCompletionService and QueueCancellationService, and the staff's    *)
(* download. Metadata rows, the count of them and the blob container are   *)
(* all kept per entry, so entries do not meet.                             *)
(*                                                                         *)
(* A document spans two stores with no transaction over them: a row in the *)
(* queue's own store and a blob in the container docs-{entryId}. Every     *)
(* await is a step, and any of them may be a request's last (HangUp): the  *)
(* store fails, the client goes away, the host dies. Of the operations of  *)
(* the queue repository the read that decides and the commit are steps of  *)
(* their own here; TableQueue and SqliteQueue look inside them.            *)
(*                                                                         *)
(* A document is named by the request that uploads it.                     *)
(***************************************************************************)
EXTENDS QueueDomain

CONSTANTS
  Requests,       \* the calls of a behaviour
  MaxDocuments,   \* MaxDocumentsPerEntry
  Providers,      \* the values Persistence:Provider may have
  Operations,     \* the operations asked for
  Faulty          \* requests that may end at any await

ASSUME DocumentsAssumption ==
  /\ MaxDocuments \in Nat \ {0}
  /\ Providers \subseteq {"Sqlite", "TableStorage"}
  /\ Operations \subseteq {"upload", "callNext", "complete", "cancel", "view"}
  /\ Faulty \subseteq Requests

VARIABLES
  provider,    \* Persistence:Provider, for the life of the host
  status,      \* the entry's row
  departed,    \* history: whether the visitor has ever left the queue
  meta,        \* metadata rows: document -> recorded before or after that
  container,   \* whether the entry's container exists
  blobs,       \* the documents whose content is in it
  told,        \* DocumentCount in the broadcast with the highest number
  pc, op,      \* the await each request is at, and its operation
  left,        \* the rows a cleanup has listed and not yet deleted
  doc          \* the document a download has found the row of

store == <<status, departed, meta, container, blobs, told>>
vars == <<provider, store, pc, op, left, doc>>

InQueue == {"Waiting", "Serving"}
Terminal == {"Completed", "Cancelled"}
Ended == {"idle", "done", "failed"}
Rows == DOMAIN meta
Without(docs) == [d \in Rows \ docs |-> meta[d]]
With(d) == [k \in Rows \cup {d} |-> IF k # d THEN meta[k] ELSE IF departed THEN "late" ELSE "inTime"]

Init ==
  /\ provider \in Providers
  /\ status = "Waiting"
  /\ departed = FALSE
  /\ meta = [d \in {} |-> "late"]
  /\ container = FALSE
  /\ blobs = {}
  /\ told = 0
  /\ pc = [r \in Requests |-> "idle"]
  /\ op = [r \in Requests |-> "none"]
  /\ left = [r \in Requests |-> {}]
  /\ doc = [r \in Requests |-> {}]

Begin(r, o, p) ==
  /\ pc[r] = "idle" /\ o \in Operations
  /\ op' = [op EXCEPT ![r] = o]
  /\ pc' = [pc EXCEPT ![r] = p]

Go(r, from, to) == pc[r] = from /\ pc' = [pc EXCEPT ![r] = to] /\ UNCHANGED op

-----------------------------------------------------------------------------
(***************************************************************************)
(* Slips: mistakes this code could plausibly have had. No action uses one. *)
(***************************************************************************)
(* Metadata before content: the row promises a blob not yet stored. *)
CreateContainerSlip(r) ==
  /\ Go(r, "container", "blob")
  /\ container' = TRUE
  /\ meta' = With(r)
  /\ UNCHANGED <<status, departed, blobs, told, left, doc>>

(* The blob put into a container taken for granted. *)
PutBlobSlip(r) ==
  /\ Go(r, "blob", "meta")
  /\ blobs' = blobs \cup {r}
  /\ UNCHANGED <<status, departed, meta, container, told, left, doc>>

(* The cleanup begins with the content. *)
CommitSlip(r) ==
  /\ pc[r] = "commit" /\ (provider = "Sqlite" \/ Accepts(op[r], status))
  /\ pc' = [pc EXCEPT ![r] = IF op[r] = "callNext" THEN "done" ELSE "deleteBlobs"]
  /\ status' = Target(op[r])
  /\ departed' = (departed \/ status' \in Terminal)
  /\ told' = Cardinality(Rows)
  /\ UNCHANGED <<meta, container, blobs, op, left, doc>>

(* Cancelling forgets the cleanup that completing does. *)
CancelForgetsSlip(r) ==
  /\ pc[r] = "commit" /\ (provider = "Sqlite" \/ Accepts(op[r], status))
  /\ pc' = [pc EXCEPT ![r] = IF op[r] = "complete" THEN "deleteRows" ELSE "done"]
  /\ status' = Target(op[r])
  /\ departed' = (departed \/ status' \in Terminal)
  /\ told' = Cardinality(Rows)
  /\ UNCHANGED <<meta, container, blobs, op, left, doc>>

(* No second update after the deletion. *)
DeleteBlobsSlip(r) ==
  /\ Go(r, "deleteBlobs", "done")
  /\ container' = FALSE
  /\ blobs' = {}
  /\ UNCHANGED <<status, departed, meta, told, left, doc>>

-----------------------------------------------------------------------------
(***************************************************************************)
(* UploadAsync: the entry exists; the file's size and type are accepted or *)
(* rejected; its documents are counted; container, blob, row and update    *)
(* follow, one await each. The entry's status is not looked at.            *)
(***************************************************************************)
Upload(r) == Begin(r, "upload", "check") /\ UNCHANGED <<store, left, doc>>

CheckFile(r) ==
  /\ \/ Go(r, "check", "done")
     \/ Go(r, "check", "count")
  /\ UNCHANGED <<store, left, doc>>

(* A soft cap: counted here, not held until the row is added. *)
CountDocuments(r) ==
  /\ \/ Cardinality(Rows) >= MaxDocuments /\ Go(r, "count", "done")
     \/ Cardinality(Rows) < MaxDocuments /\ Go(r, "count", "container")
  /\ UNCHANGED <<store, left, doc>>

CreateContainer(r) ==
  /\ Go(r, "container", "blob")
  /\ container' = TRUE
  /\ UNCHANGED <<status, departed, meta, blobs, told, left, doc>>

(* Without its container the blob is refused (404) and the upload fails. *)
PutBlob(r) ==
  \/ /\ container /\ Go(r, "blob", "meta")
     /\ blobs' = blobs \cup {r}
     /\ UNCHANGED <<status, departed, meta, container, told, left, doc>>
  \/ /\ ~container /\ Go(r, "blob", "failed")
     /\ UNCHANGED <<store, left, doc>>

AddDocument(r) ==
  /\ Go(r, "meta", "record")
  /\ meta' = With(r)
  /\ UNCHANGED <<status, departed, container, blobs, told, left, doc>>

(* RecordDocumentChangeAsync: a new number, and a snapshot read under it. *)
RecordDocumentChange(r) ==
  /\ Go(r, "record", "done")
  /\ told' = Cardinality(Rows)
  /\ UNCHANGED <<status, departed, meta, container, blobs, left, doc>>

(***************************************************************************)
(* CallNextAsync, CompleteAsync, CancelAsync: the row is read and the      *)
(* operation decided, or refused.                                          *)
(***************************************************************************)
Decide(r, o) ==
  /\ o \in {"callNext", "complete", "cancel"}
  /\ Begin(r, o, IF Accepts(o, status) THEN "commit" ELSE "done")
  /\ UNCHANGED <<store, left, doc>>

(***************************************************************************)
(* Then it is committed: on SQLite by the row's key alone, whatever the    *)
(* row has become; on Table Storage only if the row is as it was read, and *)
(* decided again if not. The update still counts the documents. A cleanup  *)
(* follows: rows first, then the container, then an update of its own.     *)
(***************************************************************************)
Commit(r) ==
  \/ /\ pc[r] = "commit" /\ (provider = "Sqlite" \/ Accepts(op[r], status))
     /\ pc' = [pc EXCEPT ![r] = IF op[r] = "callNext" THEN "done" ELSE "deleteRows"]
     /\ status' = Target(op[r])
     /\ departed' = (departed \/ status' \in Terminal)
     /\ told' = Cardinality(Rows)
     /\ UNCHANGED <<meta, container, blobs, op, left, doc>>
  \/ /\ provider = "TableStorage" /\ ~Accepts(op[r], status)
     /\ Go(r, "commit", "done")
     /\ UNCHANGED <<store, left, doc>>

DeleteRows(r) ==
  \/ /\ provider = "Sqlite" /\ Go(r, "deleteRows", "deleteBlobs")
     /\ meta' = Without(Rows)
     /\ UNCHANGED <<status, departed, container, blobs, told, left, doc>>
  \/ /\ provider = "TableStorage" /\ Go(r, "deleteRows", "deleteEach")
     /\ left' = [left EXCEPT ![r] = Rows]
     /\ UNCHANGED <<store, doc>>

(* Table Storage: the rows the query returned, one call each. *)
DeleteEach(r) ==
  \/ \E d \in left[r] :
       /\ Go(r, "deleteEach", "deleteEach")
       /\ meta' = Without({d})
       /\ left' = [left EXCEPT ![r] = @ \ {d}]
       /\ UNCHANGED <<status, departed, container, blobs, told, doc>>
  \/ /\ left[r] = {} /\ Go(r, "deleteEach", "deleteBlobs")
     /\ UNCHANGED <<store, left, doc>>

DeleteBlobs(r) ==
  /\ Go(r, "deleteBlobs", "record")
  /\ container' = FALSE
  /\ blobs' = {}
  /\ UNCHANGED <<status, departed, meta, told, left, doc>>

(***************************************************************************)
(* HandleGetDocumentAsync: the row, then the blob; a row without a blob is *)
(* answered with "Document content missing" (500).                         *)
(***************************************************************************)
View(r, d) ==
  /\ \/ d \in Rows /\ Begin(r, "view", "open") /\ doc' = [doc EXCEPT ![r] = {d}]
     \/ d \notin Rows /\ Begin(r, "view", "done") /\ UNCHANGED doc
  /\ UNCHANGED <<store, left>>

OpenBlob(r) ==
  /\ \/ doc[r] \subseteq blobs /\ Go(r, "open", "done")
     \/ ~(doc[r] \subseteq blobs) /\ Go(r, "open", "missing")
  /\ UNCHANGED <<store, left, doc>>

(***************************************************************************)
(* The request's next await throws: a cleanup logs it and answers all the  *)
(* same, and an operation that has not committed has done nothing.         *)
(***************************************************************************)
HangUp(r) ==
  /\ r \in Faulty
  /\ pc[r] \notin Ended \cup {"missing"}
  /\ pc' = [pc EXCEPT ![r] = IF pc[r] = "commit" THEN "done" ELSE "failed"]
  /\ UNCHANGED <<store, op, left, doc>>

Ask(r) ==
  \/ Upload(r)
  \/ \E o \in Operations : Decide(r, o)
  \/ \E d \in Requests : View(r, d)

Work(r) ==
  \/ CheckFile(r) \/ CountDocuments(r) \/ CreateContainer(r) \/ PutBlob(r)
  \/ AddDocument(r) \/ RecordDocumentChange(r) \/ Commit(r)
  \/ DeleteRows(r) \/ DeleteEach(r) \/ DeleteBlobs(r) \/ OpenBlob(r)

Next == (\E r \in Requests : Ask(r) \/ Work(r) \/ HangUp(r)) /\ UNCHANGED provider

Spec == Init /\ [][Next]_vars

(* Awaits return; nobody has to ask. *)
FairSpec == Spec /\ \A r \in Requests : WF_vars(Work(r) /\ UNCHANGED provider)
-----------------------------------------------------------------------------
(***************************************************************************)
(* Properties.                                                             *)
(***************************************************************************)
PC == {"idle", "check", "count", "container", "blob", "meta", "record", "commit", "deleteRows",
       "deleteEach", "deleteBlobs", "open", "missing", "done", "failed"}

(* Type invariant: stores and locals hold values of their kind, and blobs  *)
(* are kept in a container.                                                *)
TypeOK ==
  /\ provider \in Providers /\ status \in QueueStatus /\ departed \in BOOLEAN
  /\ Rows \subseteq Requests /\ \A d \in Rows : meta[d] \in {"inTime", "late"}
  /\ container \in BOOLEAN
  /\ blobs \subseteq Requests /\ (blobs # {} => container)
  /\ told \in Nat
  /\ pc \in [Requests -> PC]
  /\ op \in [Requests -> Operations \cup {"none"}]
  /\ left \in [Requests -> SUBSET Requests]
  /\ doc \in [Requests -> SUBSET Requests]

(***************************************************************************)
(* While the visitor is in the queue every listed document can be opened,  *)
(* whichever await any upload ends at: the blob is written before the row  *)
(* that promises it. On SQLite a stale decision can bring back a visitor   *)
(* who had left (Commit); there it holds until the visitor first leaves.   *)
(***************************************************************************)
HeldUntilGone ==
  status \in InQueue /\ (provider = "TableStorage" \/ ~departed) => Rows \subseteq blobs

(***************************************************************************)
(* A row without a blob is a late one: a cleanup that fails half way never *)
(* leaves the row of a document attached in time pointing at nothing,      *)
(* because it deletes rows before content.                                 *)
(***************************************************************************)
DanglingIsLate == \A d \in Rows \ blobs : meta[d] = "late"

AtRest == \A r \in Requests : pc[r] \in {"idle", "done", "missing"}

(***************************************************************************)
(* If no call failed, nothing is orphaned and, once the visitor has left,  *)
(* no document attached in time is listed, even if a stale decision has    *)
(* put the visitor back into the queue.                                    *)
(***************************************************************************)
RestIsClean ==
  AtRest => /\ blobs \subseteq Rows
            /\ departed => \A d \in Rows : meta[d] = "late"

(***************************************************************************)
(* If no call failed, the count last broadcast is the number of rows: every*)
(* change of the rows is followed by an update, and no update with a higher*)
(* number knows less.                                                      *)
(***************************************************************************)
CountIsTold == AtRest => told = Cardinality(Rows)

(***************************************************************************)
(* A visitor who leaves the queue, served or cancelled, leaves no document *)
(* attached in time behind, unless the cleanup itself fails.               *)
(***************************************************************************)
CleanupFailed == \E r \in Requests : op[r] \in {"complete", "cancel"} /\ pc[r] = "failed"

LeavesNothing ==
  departed ~> (\A d \in Rows : meta[d] = "late") \/ CleanupFailed
=============================================================================
