--------------------------- MODULE DocumentViewer ---------------------------
(***************************************************************************)
(* The staff console's DocumentViewer (document-viewer.ts): the list of an *)
(* entry's documents, the content of the one selected, and the object URL  *)
(* it is shown through.                                                    *)
(*                                                                         *)
(* A handler runs to its next await; what it writes is seen by the screen  *)
(* and by the three effects at the next change-detection pass, which runs  *)
(* the effects that a write has made due in the order they were created.   *)
(* A document is known by its entry and a number. A list not yet there and *)
(* an empty one are the same: nothing to select.                           *)
(***************************************************************************)
EXTENDS Naturals

CONSTANTS
  Entries,
  Numbers,   \* an entry's documents
  MaxLoads,  \* bounds the requests the viewer makes
  None       \* null

Documents == Entries \X Numbers
DocumentsOf(e) == {e} \X Numbers

ASSUME DocumentViewerAssumption ==
  /\ None \notin Entries /\ None \notin Documents
  /\ MaxLoads \in Nat

VARIABLES
  entryId,        \* the input, None while there is no viewer
  documents,
  selectedDocId,
  selectedBlob,   \* a fetched content, known by the request that brought it
  objectUrl,      \* currentObjectUrl and selectedObjectUrl, by the content it is for
  loading,
  loads,          \* requests under way
  asked,          \* requests made
  due,            \* effects to run: of the selected document, of the content
  offered,        \* the documents whose buttons the screen has enabled
  live,           \* object URLs created and not revoked
  overlapped      \* for the properties: the entry changed before the viewer had settled

content == <<selectedBlob, objectUrl, live>>
viewerVars == <<entryId, documents, selectedDocId, content, loading, loads, asked, due, offered, overlapped>>

Requests == [n : Nat \ {0}, entry : Entries, doc : Documents \cup {None}]
Contents == {l \in Requests : l.doc # None}

ViewerInit ==
  /\ entryId = None /\ documents = {} /\ selectedDocId = None
  /\ selectedBlob = None /\ objectUrl = None /\ live = {}
  /\ loading = FALSE /\ loads = {} /\ asked = 0
  /\ due = {} /\ offered = {} /\ overlapped = FALSE

-----------------------------------------------------------------------------
(***************************************************************************)
(* The effects of a pass with input e.                                     *)
(***************************************************************************)
(* loadDocumentsOnEntryChange deselects, revokes and loads the list. *)
EntryChanges(e) == e # entryId
DocAfter(e) == IF EntryChanges(e) THEN None ELSE selectedDocId

(* fetchDocumentOnSelection drops the old content, and fetches or revokes. *)
SelectionChanges(e) == "doc" \in due \/ DocAfter(e) # selectedDocId

(* Slip: the old content kept until the new one is there. No action uses it. *)
BlobAfterSlip(e) == IF DocAfter(e) = None /\ SelectionChanges(e) THEN None ELSE selectedBlob

BlobAfter(e) == IF SelectionChanges(e) THEN None ELSE selectedBlob

(* createObjectUrlOnBlobChange revokes the old URL and creates one. *)
BlobChanges(e) == "blob" \in due \/ BlobAfter(e) # selectedBlob

(* revokeSelectedObjectUrl *)
Revokes(e) ==
  \/ EntryChanges(e)
  \/ SelectionChanges(e) /\ DocAfter(e) = None
  \/ BlobChanges(e)

UrlAfter(e) ==
  IF BlobChanges(e) THEN BlobAfter(e) ELSE IF Revokes(e) THEN None ELSE objectUrl

(* loadDocuments and loadDocument, up to their request. *)
Asks(e) ==
  IF EntryChanges(e) THEN {[n |-> asked + 1, entry |-> e, doc |-> None]}
  ELSE IF SelectionChanges(e) /\ selectedDocId # None
  THEN {[n |-> asked + 1, entry |-> e, doc |-> selectedDocId]}
  ELSE {}

Detect(e) ==
  /\ entryId' = e
  /\ documents' = IF EntryChanges(e) THEN {} ELSE documents
  /\ selectedDocId' = DocAfter(e)
  /\ selectedBlob' = BlobAfter(e)
  /\ objectUrl' = UrlAfter(e)
  /\ live' = (IF Revokes(e) THEN live \ {objectUrl} ELSE live) \cup ({UrlAfter(e)} \ {None})
  /\ loads' = loads \cup Asks(e)
  /\ asked' = IF Asks(e) = {} THEN asked ELSE asked + 1
  /\ loading' = (loading \/ Asks(e) # {})
  /\ due' = {}
  /\ offered' = IF loading' THEN {} ELSE documents'
  /\ overlapped' = IF EntryChanges(e) THEN loads # {} \/ due # {} ELSE overlapped

(* Slip: torn down with its URL. No action uses it. *)
TearDownSlip ==
  /\ entryId' = None /\ documents' = {} /\ selectedDocId' = None
  /\ selectedBlob' = None /\ objectUrl' = None
  /\ loading' = FALSE /\ loads' = {} /\ due' = {} /\ offered' = {} /\ overlapped' = FALSE
  /\ UNCHANGED <<live, asked>>

(***************************************************************************)
(* ngOnDestroy. What the viewer's requests bring after it is written to    *)
(* signals nobody reads.                                                   *)
(***************************************************************************)
TearDown ==
  /\ entryId' = None /\ documents' = {} /\ selectedDocId' = None
  /\ selectedBlob' = None /\ objectUrl' = None /\ live' = live \ {objectUrl}
  /\ loading' = FALSE /\ loads' = {} /\ due' = {} /\ offered' = {} /\ overlapped' = FALSE
  /\ UNCHANGED asked

(* A pass of change detection over a screen whose viewer is for e, if any. *)
Pass(e) == IF e = None THEN TearDown ELSE Detect(e)

-----------------------------------------------------------------------------
(***************************************************************************)
(* Handlers.                                                               *)
(***************************************************************************)
SelectDocument(d) ==
  /\ d \in offered /\ asked < MaxLoads
  /\ selectedDocId' = d
  /\ due' = IF d = selectedDocId THEN due ELSE due \cup {"doc"}
  /\ UNCHANGED <<entryId, documents, content, loading, loads, asked, offered, overlapped>>

(* The answer to a request; the server finds an entry's own documents only. *)
Loaded(l) ==
  /\ l \in loads
  /\ IF l.doc = None
     THEN documents' = DocumentsOf(l.entry) /\ UNCHANGED <<selectedBlob, due>>
     ELSE /\ l.doc \in DocumentsOf(l.entry)
          /\ selectedBlob' = l /\ due' = due \cup {"blob"}
          /\ UNCHANGED documents
  /\ loading' = FALSE /\ loads' = loads \ {l}
  /\ UNCHANGED <<entryId, selectedDocId, objectUrl, live, asked, offered, overlapped>>

LoadFails(l) ==
  /\ l \in loads
  /\ documents' = IF l.doc = None THEN {} ELSE documents
  /\ loading' = FALSE /\ loads' = loads \ {l}
  /\ UNCHANGED <<entryId, selectedDocId, content, asked, due, offered, overlapped>>

Answered(n) == \E l \in loads : l.n = n /\ (Loaded(l) \/ LoadFails(l))

ViewerNext ==
  \/ \E e \in Entries \cup {None} : Pass(e)
  \/ \E d \in Documents : SelectDocument(d)
  \/ \E l \in loads : Loaded(l) \/ LoadFails(l)

ViewerSpec == ViewerInit /\ [][ViewerNext]_viewerVars

-----------------------------------------------------------------------------
(***************************************************************************)
(* Properties.                                                             *)
(***************************************************************************)
(* Type invariant. *)
ViewerTypeOK ==
  /\ entryId \in Entries \cup {None}
  /\ documents \subseteq Documents /\ offered \subseteq Documents
  /\ selectedDocId \in Documents \cup {None}
  /\ selectedBlob \in Contents \cup {None} /\ objectUrl \in Contents \cup {None}
  /\ live \subseteq Contents /\ loads \subseteq Requests /\ asked \in Nat
  /\ loading \in BOOLEAN /\ overlapped \in BOOLEAN /\ due \subseteq {"doc", "blob"}

(***************************************************************************)
(* The object URL on show, and no other, is live: none is leaked when the  *)
(* document, the entry or the screen changes, in whatever order these come *)
(* with the answers (document-viewer.ts:10-19), and none is revoked while  *)
(* it is shown (66-71).                                                    *)
(***************************************************************************)
UrlsAreShown == live = {objectUrl} \ {None}

(***************************************************************************)
(* As long as no entry is changed before its viewer has settled, the       *)
(* content on show is that of the document selected, the documents listed  *)
(* are the entry's, and "loading" says that a request is under way: a late *)
(* answer to an earlier request can mislead staff in no other way.         *)
(***************************************************************************)
StaleOnlyAfterOverlap ==
  ~overlapped =>
    /\ objectUrl # None /\ "doc" \notin due => objectUrl.doc = selectedDocId
    /\ documents \subseteq DocumentsOf(entryId)
    /\ loading <=> loads # {}
=============================================================================
