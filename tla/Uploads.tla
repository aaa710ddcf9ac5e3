------------------------------- MODULE Uploads -------------------------------
(***************************************************************************)
(* Uploads: validation, the virus scan, deduplication by content hash, the *)
(* blob and the document's row.  An upload is one transaction on the       *)
(* documents, but the object store is written by a transaction of its own, *)
(* or in another system, before the row is inserted.  Any number of        *)
(* uploads of the same file may be under way; any of them may fail at any  *)
(* point, and a client whose answer is lost sends the file again.          *)
(*                                                                         *)
(* SHA-256 is taken to be injective: a content stands for its hash.  What  *)
(* else the transaction writes (audit entry, first task) is in Pipeline.   *)
(***************************************************************************)
EXTENDS Naturals

CONSTANTS
  Owners,
  Contents,
  Invalid,     \* contents FileValidator refuses
  Flagged,     \* contents to which the scanner's reply is FOUND
  None,
  MaxUploads   \* bound: uploads

ASSUME UploadsAssumption ==
  /\ Invalid \subseteq Contents /\ Flagged \subseteq Contents
  /\ MaxUploads \in Nat
  /\ None \notin Nat

VARIABLES
  upload,   \* upload[n]: how far the n-th upload is, for whom and with what
  docs,     \* the rows of documents
  blobs,    \* the objects in the store, by their key raw/<owner>/<id>.pdf
  answers   \* the documents clients have been told of

vars == <<upload, docs, blobs, answers>>

\* An upload draws a fresh id for its document: its own number.
Ids == 1 .. MaxUploads

Phase == {"unsent", "received", "scanned", "looked", "stored", "committed", "answered", "failed"}
Upload == [phase : Phase, owner : Owners \cup {None}, content : Contents \cup {None}]
Row == [id : Ids, owner : Owners, content : Contents]
Answer == [owner : Owners, content : Contents, document : Ids]

RowsOf(o, c) == {d \in docs : d.owner = o /\ d.content = c}

Go(n, phase) == upload' = [upload EXCEPT ![n].phase = phase]

\* The row and the object of the n-th upload.
RowOf(n) == [id |-> n, owner |-> upload[n].owner, content |-> upload[n].content]

Told(n, d) == [owner |-> upload[n].owner, content |-> upload[n].content, document |-> d.id]

-----------------------------------------------------------------------------
(* The steps of DocumentService.upload                                     *)

\* A request of principal o arrives; the bytes are in memory.
Receive(n, o, c) ==
  /\ upload[n].phase = "unsent"
  /\ upload' = [upload EXCEPT ![n] = [phase |-> "received", owner |-> o, content |-> c]]
  /\ UNCHANGED <<docs, blobs, answers>>

\* Mutation of Scan: an upload goes on without the scanner's verdict.
ScanOpen(n) ==
  /\ upload[n].phase = "received"
  /\ upload[n].content \notin Invalid
  /\ Go(n, "scanned")
  /\ UNCHANGED <<docs, blobs, answers>>

\* validate and scan let the file pass.  (Refused, or the scanner out of
\* reach: Fail.)
Scan(n) ==
  /\ upload[n].phase = "received"
  /\ upload[n].content \notin (Invalid \cup Flagged)
  /\ Go(n, "scanned")
  /\ UNCHANGED <<docs, blobs, answers>>

\* get_by_owner_and_hash finds a document: it is the answer.
Deduplicate(n) ==
  /\ upload[n].phase = "scanned"
  /\ \E d \in RowsOf(upload[n].owner, upload[n].content) : answers' = answers \cup {Told(n, d)}
  /\ Go(n, "answered")
  /\ UNCHANGED <<docs, blobs>>

\* Mutation of Miss: the blob is left for later.
MissAndSkip(n) ==
  /\ upload[n].phase = "scanned"
  /\ RowsOf(upload[n].owner, upload[n].content) = {}
  /\ Go(n, "stored")
  /\ UNCHANGED <<docs, blobs, answers>>

\* It finds none: the upload is the first as far as it can see.
Miss(n) ==
  /\ upload[n].phase = "scanned"
  /\ RowsOf(upload[n].owner, upload[n].content) = {}
  /\ Go(n, "looked")
  /\ UNCHANGED <<docs, blobs, answers>>

\* object_store.put, committed at once.
Put(n) ==
  /\ upload[n].phase = "looked"
  /\ blobs' = blobs \cup {RowOf(n)}
  /\ Go(n, "stored")
  /\ UNCHANGED <<docs, answers>>

\* Mutation of Commit: without uq_documents_owner_hash.
CommitUnchecked(n) ==
  /\ upload[n].phase = "stored"
  /\ docs' = docs \cup {RowOf(n)}
  /\ Go(n, "committed")
  /\ UNCHANGED <<blobs, answers>>

\* documents.add and the commit.  Another row for the same owner and content
\* violates uq_documents_owner_hash (Fail); one that is inserted and not
\* committed is waited for.
Commit(n) ==
  /\ upload[n].phase = "stored"
  /\ RowsOf(upload[n].owner, upload[n].content) = {}
  /\ docs' = docs \cup {RowOf(n)}
  /\ Go(n, "committed")
  /\ UNCHANGED <<blobs, answers>>

\* The client is told of the document that was added.
Reply(n) ==
  /\ upload[n].phase = "committed"
  /\ answers' = answers \cup {Told(n, RowOf(n))}
  /\ Go(n, "answered")
  /\ UNCHANGED <<docs, blobs>>

\* An exception at any step, a lost connection or the end of the process; the
\* transaction on the documents is rolled back if it was not committed.
Fail(n) ==
  /\ upload[n].phase \notin {"unsent", "answered", "failed"}
  /\ Go(n, "failed")
  /\ UNCHANGED <<docs, blobs, answers>>

-----------------------------------------------------------------------------
(* The specification                                                       *)

Init ==
  /\ upload = [n \in Ids |-> [phase |-> "unsent", owner |-> None, content |-> None]]
  /\ docs = {} /\ blobs = {} /\ answers = {}

Next ==
  \E n \in Ids :
    \/ \E o \in Owners, c \in Contents : Receive(n, o, c)
    \/ Scan(n) \/ Deduplicate(n) \/ Miss(n) \/ Put(n) \/ Commit(n) \/ Reply(n) \/ Fail(n)

Spec == Init /\ [][Next]_vars

-----------------------------------------------------------------------------
(* Properties                                                              *)

\* Every variable has its type; an upload that was sent has an owner and a
\* content.
TypeOK ==
  /\ upload \in [Ids -> Upload]
  /\ docs \subseteq Row /\ blobs \subseteq Row /\ answers \subseteq Answer
  /\ \A n \in Ids : upload[n].phase # "unsent" => RowOf(n) \in Row

\* A worker that opens a document finds its file, although the row and the
\* blob are written by different transactions.
EveryDocumentHasItsBlob == docs \subseteq blobs

\* document_service.py:58: nothing the scanner flags is persisted, in the store
\* or in the database; nor anything the validator refuses.
NothingFlaggedIsPersisted == \A b \in blobs \cup docs : b.content \notin (Flagged \cup Invalid)

\* A blob that no document refers to is one an upload left behind that failed,
\* or will answer for: no client has been told of its id.
OrphansAreUnknown ==
  \A b \in blobs \ docs :
    /\ upload[b.id].phase \in {"stored", "failed"}
    /\ \A a \in answers : a.document # b.id

Store == INSTANCE ContentStore WITH
  DocumentIds <- Ids,
  Acceptable <- Contents \ (Invalid \cup Flagged),
  document <- [o \in Owners |-> [c \in Contents |->
                 IF RowsOf(o, c) = {} THEN None ELSE (CHOOSE d \in RowsOf(o, c) : TRUE).id]]

\* Uploads behave as ContentStore says, however they race: the lookup alone
\* does not keep two documents of one content apart, the constraint does.
ImplementsStore == Store!Spec
=============================================================================
