-------------------------- MODULE DocumentsProofs --------------------------
(***************************************************************************)
(* Theorems about Documents, for any number of uploads, cleanups and       *)
(* downloads, either store, and calls that may fail at any await.          *)
(*                                                                         *)
(* A cleanup begins after the visitor has left, so rows added during it    *)
(* are late, even if a stale decision puts the visitor back into the       *)
(* queue; the rows it has yet to delete before it may drop the content are *)
(* the only ones that were attached in time.                               *)
(***************************************************************************)
EXTENDS Documents, FiniteSetTheorems, TLAPS

InTime(d) == meta[d] = "inTime"

Cleanups ==
  \A r \in Requests :
    /\ pc[r] \in {"deleteRows", "deleteEach", "deleteBlobs"} => departed
    /\ pc[r] = "deleteEach" => \A d \in Rows : InTime(d) => d \in left[r]
    /\ pc[r] = "deleteBlobs" => \A d \in Rows : ~InTime(d)

(* The blob of an upload that is about to add its row. *)
Uploads == \A r \in Requests : pc[r] = "meta" /\ ~departed => r \in blobs

Held == ~departed => Rows \subseteq blobs

(* On Table Storage whoever has left stays away. *)
Returns == provider = "TableStorage" /\ departed => status \in Terminal

Stores ==
  /\ status \in QueueStatus /\ departed \in BOOLEAN /\ provider \in {"Sqlite", "TableStorage"}
  /\ Rows \subseteq Requests /\ \A d \in Rows : meta[d] \in {"inTime", "late"}
  /\ pc \in [Requests -> PC]
  /\ op \in [Requests -> Operations \cup {"none"}]
  /\ \A r \in Requests : pc[r] = "commit" => op[r] \in {"callNext", "complete", "cancel"}
  /\ left \in [Requests -> SUBSET Requests]

IInv == Stores /\ Cleanups /\ Uploads /\ Held /\ Returns /\ DanglingIsLate

LEMMA InitIInv == Init => IInv
<1> SUFFICES ASSUME Init PROVE IInv OBVIOUS
<1>1. Rows = {} /\ \A r \in Requests : pc[r] = "idle" BY DEF Init, Rows
<1>2. Stores BY <1>1, DocumentsAssumption DEF Init, Stores, PC, QueueStatus
<1>3. ~departed BY DEF Init
<1> QED BY <1>1, <1>2, <1>3 DEF IInv, Cleanups, Uploads, Held, Returns, DanglingIsLate

LEMMA InTimeOrLate == InQueue \cup Terminal = QueueStatus /\ InQueue \cap Terminal = {}
BY DEF InQueue, Terminal, QueueStatus

(* A step that changes neither the entry nor what is stored. *)
LEMMA LocalStep ==
  ASSUME IInv, NEW r \in Requests, NEW p \in PC, pc' = [pc EXCEPT ![r] = p],
         p \notin {"commit", "deleteRows", "deleteEach", "deleteBlobs", "meta"},
         op' = op \/ \E o \in Operations : op' = [op EXCEPT ![r] = o],
         UNCHANGED <<provider, status, departed, meta, blobs, left>>
  PROVE  IInv'
<1>1. op' \in [Requests -> Operations \cup {"none"}] /\ \A q \in Requests \ {r} : op'[q] = op[q]
  BY DEF IInv, Stores
<1> QED BY <1>1 DEF IInv, Stores, Cleanups, Uploads, Held, Returns, DanglingIsLate, Rows, InTime

LEMMA NextIInv == IInv /\ [Next]_vars => IInv'
<1> SUFFICES ASSUME IInv, [Next]_vars PROVE IInv' OBVIOUS
<1> USE DEF IInv
<1>0. UNCHANGED provider BY DEF Next, vars
<1>1. ASSUME NEW r \in Requests, Upload(r) \/ CheckFile(r) \/ CountDocuments(r)
      PROVE  IInv'
  BY <1>0, <1>1, LocalStep DEF PC, Upload, CheckFile, CountDocuments, Begin, Go, store
<1>2. ASSUME NEW r \in Requests, CreateContainer(r) \/ RecordDocumentChange(r) PROVE IInv'
  BY <1>0, <1>2, LocalStep DEF PC, CreateContainer, RecordDocumentChange, Go
<1>3. ASSUME NEW r \in Requests, NEW d, View(r, d) PROVE IInv'
  BY <1>0, <1>3, LocalStep DEF PC, View, Begin, store
<1>4. ASSUME NEW r \in Requests, OpenBlob(r) \/ HangUp(r) PROVE IInv'
  BY <1>0, <1>4, LocalStep DEF PC, OpenBlob, HangUp, Go, store
<1>5. ASSUME NEW r \in Requests, PutBlob(r) PROVE IInv'
  <2>1. CASE ~container
    BY <1>0, <1>5, <2>1, LocalStep DEF PC, PutBlob, Go, store
  <2>2. CASE container
    <3>1. /\ pc[r] = "blob" /\ pc' = [pc EXCEPT ![r] = "meta"] /\ blobs' = blobs \cup {r}
          /\ UNCHANGED <<provider, status, departed, meta, left>> /\ op' = op /\ Rows' = Rows
      BY <1>0, <1>5, <2>2 DEF PutBlob, Go, Rows
    <3>2. \A q \in Requests : q # r => pc'[q] = pc[q] BY <3>1 DEF Stores
    <3>3. pc'[r] = "meta" BY <3>1 DEF Stores
    <3>4. Stores' BY <3>1 DEF Stores, PC
    <3>5. Cleanups' BY <3>1, <3>2, <3>3 DEF Cleanups, InTime
    <3>6. Uploads' BY <3>1, <3>2 DEF Uploads
    <3>7. Held' /\ Returns' /\ DanglingIsLate'
      BY <3>1 DEF Held, Returns, DanglingIsLate
    <3> QED BY <3>4, <3>5, <3>6, <3>7
  <2> QED BY <2>1, <2>2
<1>6. ASSUME NEW r \in Requests, AddDocument(r) PROVE IInv'
  <2>1. /\ pc[r] = "meta" /\ pc' = [pc EXCEPT ![r] = "record"]
        /\ Rows' = Rows \cup {r} /\ \A k \in Rows' \ {r} : meta'[k] = meta[k]
        /\ meta'[r] = IF departed THEN "late" ELSE "inTime"
        /\ UNCHANGED <<provider, status, departed, blobs, left>> /\ op' = op
    BY <1>0, <1>6 DEF AddDocument, Go, With, Rows
  <2>2. Stores' BY <2>1 DEF Stores, PC
  <2>3. Cleanups'
    <3>1. \A q \in Requests : pc'[q] \in {"deleteRows", "deleteEach", "deleteBlobs"}
            => pc[q] = pc'[q] /\ departed /\ left'[q] = left[q]
      BY <2>1 DEF Stores, Cleanups
    <3>2. departed => ~InTime(r)' BY <2>1 DEF InTime
    <3>3. \A d \in Rows' : d = r \/ (d \in Rows /\ (InTime(d)' <=> InTime(d)))
      BY <2>1 DEF InTime
    <3> QED BY <2>1, <3>1, <3>2, <3>3 DEF Cleanups
  <2>4. Uploads' BY <2>1 DEF Uploads, Stores
  <2>5. Held' /\ Returns' BY <2>1 DEF Held, Returns, Uploads
  <2>6. DanglingIsLate'
    <3>1. \A d \in Rows' : d = r \/ d \in Rows BY <2>1
    <3> QED BY <2>1, <3>1 DEF DanglingIsLate, Uploads
  <2> QED BY <2>2, <2>3, <2>4, <2>5, <2>6
<1>7. ASSUME NEW r \in Requests, NEW o, Decide(r, o) PROVE IInv'
  <2>1. CASE ~Accepts(o, status) BY <1>0, <1>7, <2>1, LocalStep DEF PC, Decide, Begin, store
  <2>2. CASE Accepts(o, status)
    <3>1. /\ pc[r] = "idle" /\ pc' = [pc EXCEPT ![r] = "commit"] /\ op' = [op EXCEPT ![r] = o]
          /\ o \in {"callNext", "complete", "cancel"} /\ o \in Operations
          /\ UNCHANGED <<provider, status, departed, meta, blobs, left>> /\ Rows' = Rows
      BY <1>0, <1>7, <2>2 DEF Decide, Begin, store, Rows
    <3>2. \A q \in Requests : q # r => pc'[q] = pc[q] /\ op'[q] = op[q] BY <3>1 DEF Stores
    <3>3. pc'[r] = "commit" /\ op'[r] = o BY <3>1 DEF Stores
    <3>4. Stores' BY <3>1, <3>2, <3>3 DEF Stores, PC
    <3>5. Cleanups' BY <3>1, <3>2, <3>3 DEF Cleanups, InTime
    <3>6. Uploads' BY <3>1, <3>2, <3>3 DEF Uploads
    <3>7. Held' /\ Returns' /\ DanglingIsLate' BY <3>1 DEF Held, Returns, DanglingIsLate
    <3> QED BY <3>4, <3>5, <3>6, <3>7
  <2> QED BY <2>1, <2>2
<1>12. ASSUME NEW r \in Requests, Commit(r) PROVE IInv'
  <2>1. CASE provider = "TableStorage" /\ ~Accepts(op[r], status)
    BY <1>0, <1>12, <2>1, LocalStep DEF PC, Commit, Go, store
  <2>2. CASE provider = "Sqlite" \/ Accepts(op[r], status)
    <3> DEFINE p == IF op[r] = "callNext" THEN "done" ELSE "deleteRows"
    <3>1. /\ pc[r] = "commit" /\ status' = Target(op[r]) /\ pc' = [pc EXCEPT ![r] = p]
          /\ departed' = (departed \/ status' \in Terminal)
          /\ UNCHANGED <<provider, meta, blobs, left, op>> /\ Rows' = Rows
      BY <1>0, <1>12, <2>2 DEF Commit, Go, Rows, Stores
    <3>2. op[r] \in {"callNext", "complete", "cancel"} BY <3>1 DEF Stores
    <3>3. status' \in QueueStatus /\ (op[r] # "callNext" => departed')
      BY <3>1, <3>2 DEF Target, Terminal, QueueStatus
    <3>4. \A q \in Requests : q # r => pc'[q] = pc[q] BY <3>1 DEF Stores
    <3>5. pc'[r] = p /\ p \in {"done", "deleteRows"} /\ (p = "deleteRows" => departed')
      BY <3>1, <3>3 DEF Stores
    <3> HIDE DEF p
    <3>6. Stores' BY <3>1, <3>3, <3>4, <3>5 DEF Stores, PC
    <3>7. Cleanups' BY <3>1, <3>4, <3>5 DEF Cleanups, InTime
    <3>8. Uploads' BY <3>1, <3>4, <3>5 DEF Uploads
    <3>9. Held' /\ DanglingIsLate' BY <3>1 DEF Held, DanglingIsLate
    <3>10. Returns'
      <4>1. CASE provider = "Sqlite" BY <3>1, <4>1 DEF Returns
      <4>2. CASE Accepts(op[r], status)
        <5>1. status \notin Terminal BY <3>2, <4>2 DEF Accepts, Terminal
        <5> QED BY <3>1, <5>1 DEF Returns
      <4> QED BY <2>2, <4>1, <4>2
    <3> QED BY <3>6, <3>7, <3>8, <3>9, <3>10
  <2> QED BY <2>1, <2>2, <1>12 DEF Stores, Commit
<1>8. ASSUME NEW r \in Requests, DeleteRows(r) PROVE IInv'
  <2>1. CASE provider = "Sqlite"
    <3>1. /\ pc[r] = "deleteRows" /\ pc' = [pc EXCEPT ![r] = "deleteBlobs"]
          /\ Rows' = {} /\ UNCHANGED <<provider, status, departed, blobs, left>> /\ op' = op
      BY <1>0, <1>8, <2>1 DEF DeleteRows, Go, Without, Rows
    <3>2. \A q \in Requests : q # r => pc'[q] = pc[q] BY <3>1 DEF Stores
    <3>3. pc'[r] = "deleteBlobs" /\ departed BY <3>1 DEF Stores, Cleanups
    <3>4. Stores' BY <3>1 DEF Stores, PC
    <3>5. Cleanups' BY <3>1, <3>2, <3>3 DEF Cleanups
    <3>6. Uploads' BY <3>1, <3>2, <3>3 DEF Uploads
    <3>7. Held' /\ Returns' /\ DanglingIsLate' BY <3>1 DEF Held, Returns, DanglingIsLate
    <3> QED BY <3>4, <3>5, <3>6, <3>7
  <2>2. CASE provider = "TableStorage"
    <3>1. /\ pc[r] = "deleteRows" /\ pc' = [pc EXCEPT ![r] = "deleteEach"]
          /\ left' = [left EXCEPT ![r] = Rows] /\ UNCHANGED <<provider, status, departed, meta, blobs>> /\ op' = op
      BY <1>0, <1>8, <2>2 DEF DeleteRows, Go, store
    <3>2. \A q \in Requests : q # r => pc'[q] = pc[q] /\ left'[q] = left[q]
      BY <3>1 DEF Stores
    <3>3. pc'[r] = "deleteEach" /\ departed /\ left'[r] = Rows
      BY <3>1 DEF Stores, Cleanups
    <3>4. Stores' BY <3>1 DEF Stores, Rows, PC
    <3>5. Cleanups' BY <3>1, <3>2, <3>3 DEF Cleanups, InTime, Rows
    <3>6. Uploads' BY <3>1, <3>2, <3>3 DEF Uploads
    <3>7. Held' /\ Returns' /\ DanglingIsLate'
      BY <3>1 DEF Held, Returns, DanglingIsLate, Rows
    <3> QED BY <3>4, <3>5, <3>6, <3>7
  <2> QED BY <1>8, <2>1, <2>2 DEF DeleteRows
<1>9. ASSUME NEW r \in Requests, DeleteEach(r) PROVE IInv'
  <2>1. ASSUME NEW d \in left[r], pc[r] = "deleteEach", pc' = [pc EXCEPT ![r] = "deleteEach"],
               meta' = Without({d}), left' = [left EXCEPT ![r] = @ \ {d}],
               UNCHANGED <<provider, status, departed, blobs>> /\ op' = op
        PROVE  IInv'
    <3>1. Rows' = Rows \ {d} /\ \A k \in Rows' : meta'[k] = meta[k] BY <2>1 DEF Without, Rows
    <3>2. pc' = pc BY <2>1 DEF Stores
    <3>3. \A k \in Rows' : k \in Rows /\ k # d /\ (InTime(k)' <=> InTime(k))
      BY <3>1 DEF InTime
    <3>4. Stores' BY <2>1, <3>1, <3>2 DEF Stores
    <3>5. Cleanups' BY <2>1, <3>2, <3>3 DEF Cleanups, Stores
    <3>6. Uploads' BY <2>1, <3>2 DEF Uploads
    <3>7. Held' /\ Returns' /\ DanglingIsLate'
      BY <2>1, <3>1 DEF Held, Returns, DanglingIsLate
    <3> QED BY <3>4, <3>5, <3>6, <3>7
  <2>2. CASE left[r] = {} /\ pc[r] = "deleteEach" /\ pc' = [pc EXCEPT ![r] = "deleteBlobs"]
             /\ UNCHANGED <<provider, status, departed, meta, blobs, left>> /\ op' = op
    <3>2. \A q \in Requests : q # r => pc'[q] = pc[q] BY <2>2 DEF Stores
    <3>3. /\ pc'[r] = "deleteBlobs" /\ departed
          /\ \A d \in Rows : ~InTime(d)
      BY <2>2 DEF Stores, Cleanups
    <3>4. Stores' BY <2>2 DEF Stores, Rows, PC
    <3>5. Cleanups' BY <2>2, <3>2, <3>3 DEF Cleanups, InTime, Rows
    <3>6. Uploads' BY <2>2, <3>2, <3>3 DEF Uploads
    <3>7. Held' /\ Returns' /\ DanglingIsLate'
      BY <2>2 DEF Held, Returns, DanglingIsLate, Rows
    <3> QED BY <3>4, <3>5, <3>6, <3>7
  <2> QED BY <1>0, <1>9, <2>1, <2>2 DEF DeleteEach, Go, store
<1>10. ASSUME NEW r \in Requests, DeleteBlobs(r) PROVE IInv'
  <2>1. /\ pc[r] = "deleteBlobs" /\ pc' = [pc EXCEPT ![r] = "record"] /\ blobs' = {}
        /\ UNCHANGED <<provider, status, departed, meta, left>> /\ op' = op
    BY <1>0, <1>10 DEF DeleteBlobs, Go
  <2>2. departed /\ \A d \in Rows : ~InTime(d) BY <2>1 DEF Cleanups
  <2>3. \A d \in Rows : meta[d] = "late" BY <2>2 DEF InTime, Stores
  <2>4. \A q \in Requests : q # r => pc'[q] = pc[q] BY <2>1 DEF Stores
  <2>5. pc'[r] = "record" BY <2>1 DEF Stores
  <2>6. Stores' BY <2>1 DEF Stores, Rows, PC
  <2>7. Cleanups' BY <2>1, <2>2, <2>4, <2>5 DEF Cleanups, InTime, Rows
  <2>8. Uploads' BY <2>1, <2>2, <2>4, <2>5 DEF Uploads
  <2>9. Held' /\ Returns' /\ DanglingIsLate'
    BY <2>1, <2>2, <2>3 DEF Held, Returns, DanglingIsLate, Rows
  <2> QED BY <2>6, <2>7, <2>8, <2>9
<1>11. CASE UNCHANGED vars
  BY <1>11 DEF vars, store, Stores, Cleanups, Uploads, Held, Returns, DanglingIsLate,
               Rows, InTime
<1> QED BY <1>1, <1>2, <1>3, <1>4, <1>5, <1>6, <1>7, <1>8, <1>9, <1>10, <1>11, <1>12
        DEF Next, Ask, Work

(***************************************************************************)
(* Blob before row (DocumentUploadService.cs:149): while the visitor is in *)
(* the queue, and on SQLite has not left it before, no listed document     *)
(* lacks its content.                                                      *)
(***************************************************************************)
THEOREM ListedIsHeld == Spec => []HeldUntilGone
<1>1. IInv => HeldUntilGone
  BY InTimeOrLate DEF IInv, Held, Returns, HeldUntilGone, Stores
<1> QED BY InitIInv, NextIInv, <1>1, PTL DEF Spec

(***************************************************************************)
(* Rows before blobs (QueueCompletionService.cs:54): wherever a cleanup    *)
(* ends, only a document recorded after the visitor left can dangle.        *)
(***************************************************************************)
THEOREM OnlyLateDangle == Spec => []DanglingIsLate
<1>1. IInv => DanglingIsLate BY DEF IInv
<1> QED BY InitIInv, NextIInv, <1>1, PTL DEF Spec

-----------------------------------------------------------------------------
(***************************************************************************)
(* Type correctness. Rows are added one at a time, so they stay finite.    *)
(***************************************************************************)
LEMMA InitTyped == Init => TypeOK /\ IsFiniteSet(Rows)
<1> SUFFICES ASSUME Init PROVE TypeOK /\ IsFiniteSet(Rows) OBVIOUS
<1>1. Rows = {} BY DEF Init, Rows
<1> QED BY <1>1, FS_EmptySet DEF Init, TypeOK, PC, QueueStatus

LEMMA NextTyped ==
  Stores /\ TypeOK /\ IsFiniteSet(Rows) /\ [Next]_vars => (TypeOK /\ IsFiniteSet(Rows))'
<1> SUFFICES ASSUME Stores, TypeOK, IsFiniteSet(Rows), [Next]_vars
             PROVE  TypeOK' /\ IsFiniteSet(Rows')
  BY DEF Rows
<1> USE DocumentsAssumption DEF TypeOK
<1>0. Cardinality(Rows) \in Nat /\ UNCHANGED provider BY FS_CardinalityType DEF Next, vars
<1>1. ASSUME NEW r \in Requests, NEW from, NEW to \in PC, Go(r, from, to)
      PROVE  /\ pc' \in [Requests -> PC]
             /\ op' \in [Requests -> Operations \cup {"none"}]
  BY <1>1 DEF Go
<1>2. ASSUME NEW r \in Requests, NEW o, NEW p \in PC, Begin(r, o, p)
      PROVE  /\ pc' \in [Requests -> PC]
             /\ op' \in [Requests -> Operations \cup {"none"}]
  BY <1>2 DEF Begin
<1>3. ASSUME NEW r \in Requests, Upload(r) PROVE TypeOK' /\ IsFiniteSet(Rows')
  BY <1>0, <1>2, <1>3 DEF Upload, PC, store, Rows
<1>4. ASSUME NEW r \in Requests, NEW o \in Operations, Decide(r, o)
      PROVE  TypeOK' /\ IsFiniteSet(Rows')
  <2>1. \E p \in PC : Begin(r, o, p) BY <1>4 DEF Decide, PC
  <2> QED BY <1>0, <1>2, <1>4, <2>1 DEF Decide, store, Rows
<1>11. ASSUME NEW r \in Requests, Commit(r) PROVE TypeOK' /\ IsFiniteSet(Rows')
  <2>1. pc[r] = "commit" BY <1>11 DEF Commit, Go
  <2>2. Target(op[r]) \in QueueStatus BY <2>1 DEF Stores, Target, QueueStatus
  <2>3. /\ status' \in QueueStatus /\ departed' \in BOOLEAN /\ told' \in Nat
        /\ UNCHANGED <<meta, container, blobs, op, left, doc>>
    BY <1>0, <1>11, <2>2 DEF Commit, Go, store
  <2>4. pc' \in [Requests -> PC] BY <1>11 DEF Commit, Go, PC
  <2> QED BY <1>0, <2>3, <2>4 DEF Rows
<1>5. ASSUME NEW r \in Requests, NEW d \in Requests, View(r, d)
      PROVE  TypeOK' /\ IsFiniteSet(Rows')
  <2>1. \E p \in PC : Begin(r, "view", p) BY <1>5 DEF View, PC
  <2>2. doc' \in [Requests -> SUBSET Requests] BY <1>5 DEF View
  <2> QED BY <1>0, <1>2, <1>5, <2>1, <2>2 DEF View, store, Rows
<1>6. ASSUME NEW r \in Requests, CheckFile(r) \/ CountDocuments(r) \/ OpenBlob(r) \/ HangUp(r)
      PROVE  TypeOK' /\ IsFiniteSet(Rows')
  <2>1. /\ pc' \in [Requests -> PC] /\ op' \in [Requests -> Operations \cup {"none"}]
        /\ UNCHANGED <<store, left, doc>>
    BY <1>6 DEF CheckFile, CountDocuments, OpenBlob, HangUp, Go, PC
  <2> QED BY <1>0, <2>1 DEF store, Rows
<1>7. ASSUME NEW r \in Requests,
             CreateContainer(r) \/ PutBlob(r) \/ RecordDocumentChange(r) \/ DeleteBlobs(r)
      PROVE  TypeOK' /\ IsFiniteSet(Rows')
  <2>1. /\ pc' \in [Requests -> PC] /\ op' \in [Requests -> Operations \cup {"none"}]
        /\ UNCHANGED <<status, departed, meta, left, doc>>
    BY <1>7 DEF CreateContainer, PutBlob, RecordDocumentChange, DeleteBlobs, Go, PC, store
  <2>2. /\ container' \in BOOLEAN /\ blobs' \subseteq Requests /\ (blobs' # {} => container')
        /\ told' \in Nat
    BY <1>0, <1>7 DEF CreateContainer, PutBlob, RecordDocumentChange, DeleteBlobs, store
  <2> QED BY <1>0, <2>1, <2>2 DEF Rows
<1>8. ASSUME NEW r \in Requests, AddDocument(r) PROVE TypeOK' /\ IsFiniteSet(Rows')
  <2>1. /\ Rows' = Rows \cup {r} /\ \A k \in Rows' \ {r} : meta'[k] = meta[k]
        /\ meta'[r] = IF departed THEN "late" ELSE "inTime"
    BY <1>8 DEF AddDocument, With, Rows
  <2>2. IsFiniteSet(Rows') BY <2>1, FS_AddElement
  <2>3. /\ pc' \in [Requests -> PC] /\ op' \in [Requests -> Operations \cup {"none"}]
        /\ UNCHANGED <<status, departed, container, blobs, told, left, doc>>
    BY <1>8 DEF AddDocument, Go, PC
  <2> QED BY <1>0, <2>1, <2>2, <2>3
<1>9. ASSUME NEW r \in Requests, DeleteRows(r) \/ DeleteEach(r)
      PROVE  TypeOK' /\ IsFiniteSet(Rows')
  <2>1. /\ \E from, to \in PC : Go(r, from, to)
        /\ UNCHANGED <<status, departed, container, blobs, told, doc>>
    <3>1. CASE DeleteRows(r) BY <3>1 DEF DeleteRows, PC, store
    <3>2. CASE DeleteEach(r) BY <3>2 DEF DeleteEach, PC, store
    <3> QED BY <1>9, <3>1, <3>2
  <2>5. /\ pc' \in [Requests -> PC] /\ op' \in [Requests -> Operations \cup {"none"}]
    <3>1. PICK from \in PC, to \in PC : Go(r, from, to) BY <2>1
    <3> QED BY <1>1, <3>1
  <2>2. Rows' \subseteq Rows /\ \A k \in Rows' : meta'[k] = meta[k]
    <3>1. CASE DeleteRows(r) BY <3>1 DEF DeleteRows, Without, Rows, store
    <3>2. CASE DeleteEach(r)
      <4>1. ASSUME NEW d, meta' = Without({d})
            PROVE  Rows' \subseteq Rows /\ \A k \in Rows' : meta'[k] = meta[k]
        BY <4>1 DEF Without, Rows
      <4>2. (\E d : meta' = Without({d})) \/ meta' = meta BY <3>2 DEF DeleteEach, store
      <4> QED BY <4>1, <4>2 DEF Rows
    <3> QED BY <1>9, <3>1, <3>2
  <2>3. IsFiniteSet(Rows') BY <2>2, FS_Subset
  <2>4. left' \in [Requests -> SUBSET Requests]
    <3>1. left' = left \/ \E rest \in SUBSET Requests : left' = [left EXCEPT ![r] = rest]
      <4>1. left[r] \subseteq Requests /\ Rows \in SUBSET Requests OBVIOUS
      <4>2. CASE DeleteRows(r) BY <4>1, <4>2 DEF DeleteRows, store
      <4>3. CASE DeleteEach(r)
        <5>1. ASSUME NEW d, left' = [left EXCEPT ![r] = @ \ {d}]
              PROVE  \E rest \in SUBSET Requests : left' = [left EXCEPT ![r] = rest]
          <6>1. left[r] \ {d} \in SUBSET Requests BY <4>1
          <6> QED BY <5>1, <6>1
        <5> QED BY <4>3, <5>1 DEF DeleteEach, store
      <4> QED BY <1>9, <4>2, <4>3
    <3> QED BY <3>1
  <2> QED BY <1>0, <2>1, <2>2, <2>3, <2>4, <2>5
<1>10. CASE UNCHANGED vars BY <1>10 DEF vars, store, Rows
<1> QED BY <1>3, <1>4, <1>5, <1>6, <1>7, <1>8, <1>9, <1>10, <1>11 DEF Next, Ask, Work

(***************************************************************************)
(* Every store and every local holds a value of its kind, and content is   *)
(* kept in a container only.                                               *)
(***************************************************************************)
THEOREM DocumentsTyped == Spec => []TypeOK
<1>1. IInv => Stores BY DEF IInv
<1> QED BY InitIInv, NextIInv, <1>1, InitTyped, NextTyped, PTL DEF Spec

-----------------------------------------------------------------------------
(***************************************************************************)
(* What is left when every call has ended without an error. Each clause    *)
(* holds unless somebody still has something to do about it: an upload     *)
(* whose row is next, a cleanup on its way, an update to come; or unless a *)
(* call failed, and so never does it.                                      *)
(***************************************************************************)
Cleaning == {"deleteRows", "deleteEach", "deleteBlobs"}

Orphans ==
  \A b \in blobs \ Rows : pc[b] = "meta" \/ \E q \in Requests : pc[q] \in Cleaning \cup {"failed"}

Leftovers ==
  \/ ~departed
  \/ \A d \in Rows : ~InTime(d)
  \/ \E q \in Requests : pc[q] \in Cleaning \cup {"failed"}

Untold ==
  \/ told = Cardinality(Rows)
  \/ \E q \in Requests : pc[q] \in Cleaning \cup {"record", "failed"}

Typed == TypeOK /\ IsFiniteSet(Rows) /\ Stores /\ Cleanups
Owed == Orphans /\ Leftovers /\ Untold

LEMMA InitOwed == Init => Owed
<1> SUFFICES ASSUME Init PROVE Owed OBVIOUS
<1>1. Rows = {} /\ blobs = {} /\ told = 0 /\ ~departed BY DEF Init, Rows
<1> QED BY <1>1, FS_EmptySet DEF Owed, Orphans, Leftovers, Untold

(* Whoever had something to do, and is not r, still has. *)
LEMMA OthersKeep ==
  ASSUME Typed, NEW r \in Requests, NEW p \in PC, pc' = [pc EXCEPT ![r] = p]
  PROVE  pc'[r] = p /\ \A q \in Requests \ {r} : pc'[q] = pc[q]
BY DEF Typed, Stores

(* A step that changes nothing stored, by a request that had nothing to do. *)
LEMMA NothingOwed ==
  ASSUME Typed, Owed, NEW r \in Requests, NEW p \in PC, pc' = [pc EXCEPT ![r] = p],
         p = "failed" \/ pc[r] \notin Cleaning \cup {"meta", "record", "failed"},
         UNCHANGED store
  PROVE  Owed'
<1>1. pc'[r] = p /\ \A q \in Requests \ {r} : pc'[q] = pc[q] BY OthersKeep
<1>2. UNCHANGED <<departed, meta, blobs, told>> /\ Rows' = Rows BY DEF store, Rows
<1>3. \A s \in Cleaning \cup {"record", "failed"} :
        (\E q \in Requests : pc[q] = s)
           => \E q \in Requests : pc'[q] = s \/ pc'[q] = "failed"
  BY <1>1
<1>4. Orphans' BY <1>1, <1>2, <1>3 DEF Owed, Orphans, Typed, TypeOK
<1>5. Leftovers' BY <1>1, <1>2, <1>3 DEF Owed, Leftovers, InTime
<1>6. Untold' BY <1>1, <1>2, <1>3 DEF Owed, Untold
<1> QED BY <1>4, <1>5, <1>6 DEF Owed

LEMMA NextOwed == Typed /\ Owed /\ [Next]_vars => Owed'
<1> SUFFICES ASSUME Typed, Owed, [Next]_vars PROVE Owed' OBVIOUS
<1>0. TypeOK /\ Stores /\ Cleanups /\ Orphans /\ Leftovers /\ Untold BY DEF Typed, Owed
<1>1. ASSUME NEW r \in Requests, Upload(r) \/ CheckFile(r) \/ CountDocuments(r)
      PROVE  Owed'
  BY <1>1, NothingOwed DEF Upload, CheckFile, CountDocuments, Begin, Go, PC, Cleaning
<1>2. ASSUME NEW r \in Requests, CreateContainer(r) PROVE Owed'
  <2>1. /\ pc[r] = "container" /\ pc' = [pc EXCEPT ![r] = "blob"] /\ "blob" \in PC
        /\ UNCHANGED <<departed, meta, blobs, told>> /\ Rows' = Rows
    BY <1>2 DEF CreateContainer, Go, PC, Rows
  <2>2. pc'[r] = "blob" /\ \A q \in Requests \ {r} : pc'[q] = pc[q] BY <2>1, OthersKeep
  <2>3. \A q \in Requests : pc[q] \in Cleaning \cup {"meta", "record", "failed"}
          => pc'[q] = pc[q]
    BY <2>1, <2>2 DEF Cleaning
  <2> QED BY <1>0, <2>1, <2>3 DEF Owed, Orphans, Leftovers, Untold, InTime, TypeOK
<1>3. ASSUME NEW r \in Requests, PutBlob(r) PROVE Owed'
  <2>1. CASE ~container BY <1>3, <2>1, NothingOwed DEF PutBlob, Go, PC
  <2>2. CASE container
    <3>1. /\ pc[r] = "blob" /\ pc' = [pc EXCEPT ![r] = "meta"] /\ "meta" \in PC
          /\ blobs' = blobs \cup {r}
          /\ UNCHANGED <<departed, meta, told>> /\ Rows' = Rows
      BY <1>3, <2>2 DEF PutBlob, Go, PC, Rows
    <3>2. pc'[r] = "meta" /\ \A q \in Requests \ {r} : pc'[q] = pc[q] BY <3>1, OthersKeep
    <3>3. \A q \in Requests : pc[q] \in Cleaning \cup {"meta", "record", "failed"}
            => pc'[q] = pc[q]
      BY <3>1, <3>2 DEF Cleaning
    <3> QED BY <1>0, <3>1, <3>2, <3>3 DEF Owed, Orphans, Leftovers, Untold, InTime, TypeOK
  <2> QED BY <2>1, <2>2
<1>4. ASSUME NEW r \in Requests, AddDocument(r) PROVE Owed'
  <2>1. /\ pc[r] = "meta" /\ pc' = [pc EXCEPT ![r] = "record"] /\ "record" \in PC
        /\ Rows' = Rows \cup {r} /\ \A k \in Rows' \ {r} : meta'[k] = meta[k]
        /\ meta'[r] = IF departed THEN "late" ELSE "inTime"
        /\ UNCHANGED <<departed, blobs>>
    BY <1>4 DEF AddDocument, Go, PC, With, Rows
  <2>2. pc'[r] = "record" /\ \A q \in Requests \ {r} : pc'[q] = pc[q] BY <2>1, OthersKeep
  <2>3. \A q \in Requests : pc[q] \in Cleaning \cup {"failed"} => pc'[q] = pc[q]
    BY <2>1, <2>2 DEF Cleaning
  <2>4. Orphans' BY <1>0, <2>1, <2>2, <2>3 DEF Orphans, TypeOK
  <2>5. Leftovers' BY <1>0, <2>1, <2>3 DEF Leftovers, InTime
  <2>6. Untold' BY <2>2 DEF Untold
  <2> QED BY <2>4, <2>5, <2>6 DEF Owed
<1>5. ASSUME NEW r \in Requests, RecordDocumentChange(r) PROVE Owed'
  <2>1. /\ pc[r] = "record" /\ pc' = [pc EXCEPT ![r] = "done"] /\ "done" \in PC
        /\ told' = Cardinality(Rows) /\ UNCHANGED <<departed, meta, blobs>> /\ Rows' = Rows
    BY <1>5 DEF RecordDocumentChange, Go, PC, Rows
  <2>2. pc'[r] = "done" /\ \A q \in Requests \ {r} : pc'[q] = pc[q] BY <2>1, OthersKeep
  <2>3. \A q \in Requests : pc[q] \in Cleaning \cup {"meta", "failed"} => pc'[q] = pc[q]
    BY <2>1, <2>2 DEF Cleaning
  <2> QED BY <1>0, <2>1, <2>3 DEF Owed, Orphans, Leftovers, Untold, InTime, TypeOK
<1>6. ASSUME NEW r \in Requests, NEW o, Decide(r, o) PROVE Owed'
  BY <1>6, NothingOwed DEF Decide, Begin, PC, Cleaning
<1>12. ASSUME NEW r \in Requests, Commit(r) PROVE Owed'
  <2>1. CASE provider = "TableStorage" /\ ~Accepts(op[r], status)
    <3>1. pc[r] = "commit" /\ pc' = [pc EXCEPT ![r] = "done"] /\ UNCHANGED store
      BY <1>12, <2>1 DEF Commit, Go
    <3> QED BY <3>1, NothingOwed DEF PC, Cleaning
  <2>2. CASE provider = "Sqlite" \/ Accepts(op[r], status)
    <3> DEFINE p == IF op[r] = "callNext" THEN "done" ELSE "deleteRows"
    <3>1. /\ pc[r] = "commit" /\ pc' = [pc EXCEPT ![r] = p] /\ p \in PC
          /\ status' = Target(op[r]) /\ departed' = (departed \/ status' \in Terminal)
          /\ told' = Cardinality(Rows) /\ UNCHANGED <<meta, blobs>> /\ Rows' = Rows
      BY <1>0, <1>12, <2>2 DEF Commit, Go, PC, Rows, Stores
    <3>2. op[r] \in {"callNext", "complete", "cancel"} BY <1>0, <3>1 DEF Stores
    <3>3. op[r] = "callNext" => departed' = departed
      BY <1>0, <3>1 DEF Target, Terminal, Stores
    <3>4. op[r] # "callNext" => p \in Cleaning BY DEF Cleaning
    <3> HIDE DEF p
    <3>5. pc'[r] = p /\ \A q \in Requests \ {r} : pc'[q] = pc[q] BY <3>1, OthersKeep
    <3>6. \A q \in Requests : pc[q] \in Cleaning \cup {"meta", "failed"} => pc'[q] = pc[q]
      BY <3>1, <3>5 DEF Cleaning
    <3>7. Orphans' BY <1>0, <3>1, <3>6 DEF Orphans, TypeOK
    <3>8. Leftovers'
      <4>1. CASE op[r] = "callNext" BY <1>0, <3>1, <3>3, <3>6, <4>1 DEF Leftovers, InTime
      <4>2. CASE op[r] # "callNext" BY <3>4, <3>5, <4>2 DEF Leftovers
      <4> QED BY <4>1, <4>2
    <3>9. Untold' BY <3>1 DEF Untold
    <3> QED BY <3>7, <3>8, <3>9 DEF Owed
  <2> QED BY <1>0, <1>12, <2>1, <2>2 DEF Stores
<1>7. ASSUME NEW r \in Requests, DeleteRows(r) \/ DeleteEach(r) PROVE Owed'
  <2>1. \E p \in Cleaning : pc' = [pc EXCEPT ![r] = p]
    BY <1>7 DEF DeleteRows, DeleteEach, Go, Cleaning
  <2>2. \E q \in Requests : pc'[q] \in Cleaning
    BY <2>1, OthersKeep DEF Cleaning, PC
  <2> QED BY <2>2 DEF Owed, Orphans, Leftovers, Untold
<1>8. ASSUME NEW r \in Requests, DeleteBlobs(r) PROVE Owed'
  <2>1. /\ pc[r] = "deleteBlobs" /\ pc' = [pc EXCEPT ![r] = "record"] /\ "record" \in PC
        /\ blobs' = {} /\ UNCHANGED meta /\ Rows' = Rows
    BY <1>8 DEF DeleteBlobs, Go, PC, Rows
  <2>2. pc'[r] = "record" BY <2>1, OthersKeep
  <2>3. \A d \in Rows : ~InTime(d) BY <1>0, <2>1 DEF Cleanups
  <2> QED BY <2>1, <2>2, <2>3 DEF Owed, Orphans, Leftovers, Untold, InTime
<1>9. ASSUME NEW r \in Requests, NEW d, View(r, d) PROVE Owed'
  BY <1>9, NothingOwed DEF View, Begin, PC, Cleaning
<1>10. ASSUME NEW r \in Requests, OpenBlob(r) \/ HangUp(r) PROVE Owed'
  BY <1>10, NothingOwed DEF OpenBlob, HangUp, Go, PC, Cleaning
<1>11. CASE UNCHANGED vars
  BY <1>0, <1>11 DEF vars, store, Owed, Orphans, Leftovers, Untold, InTime, Rows
<1> QED BY <1>1, <1>2, <1>3, <1>4, <1>5, <1>6, <1>7, <1>8, <1>9, <1>10, <1>11, <1>12
        DEF Next, Ask, Work

LEMMA SpecOwed == Spec => []Typed /\ []Owed
<1>1. Init => TypeOK /\ IsFiniteSet(Rows) /\ IInv /\ Owed BY InitTyped, InitIInv, InitOwed
<1>2. IInv /\ TypeOK /\ IsFiniteSet(Rows) => Typed BY DEF IInv, Typed
<1>3. IInv => Stores BY DEF IInv
<1> QED BY <1>1, <1>2, <1>3, NextTyped, NextIInv, NextOwed, PTL DEF Spec

(***************************************************************************)
(* If every call ended well, no content is without its row, and once the   *)
(* visitor has left no document attached in time is listed                 *)
(* (QueueCompletionService.cs:52), in either store and in any order of the *)
(* calls.                                                                  *)
(***************************************************************************)
THEOREM NothingLeftBehind == Spec => []RestIsClean
<1>1. Typed /\ Owed => RestIsClean
  <2> SUFFICES ASSUME Typed, Owed, AtRest
               PROVE  /\ blobs \subseteq Rows
                      /\ departed => \A d \in Rows : meta[d] = "late"
    BY DEF RestIsClean
  <2>1. \A q \in Requests : pc[q] \notin Cleaning \cup {"meta", "failed"}
    BY DEF AtRest, Cleaning
  <2>2. blobs \subseteq Rows BY <2>1 DEF Owed, Orphans, Typed, TypeOK
  <2>3. departed => \A d \in Rows : ~InTime(d) BY <2>1 DEF Owed, Leftovers
  <2>4. \A d \in Rows : meta[d] \in {"inTime", "late"} BY DEF Typed, TypeOK
  <2> QED BY <2>2, <2>3, <2>4 DEF InTime
<1> QED BY SpecOwed, <1>1, PTL

(***************************************************************************)
(* If every call ended well, the last count broadcast is the number of     *)
(* rows (QueueCompletionService.cs:62 broadcasts the update it reads after *)
(* the deletion).                                                          *)
(***************************************************************************)
THEOREM LastCountIsRight == Spec => []CountIsTold
<1>1. Typed /\ Owed => CountIsTold
  BY DEF Owed, Untold, CountIsTold, AtRest, Cleaning
<1> QED BY SpecOwed, <1>1, PTL
=============================================================================
