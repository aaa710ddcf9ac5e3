---------------------------- MODULE Uploads_proofs ----------------------------
(***************************************************************************)
(* Theorems about Uploads, for any owners, contents and number of uploads. *)
(***************************************************************************)
EXTENDS Uploads, TLAPS

-----------------------------------------------------------------------------
(* Safety                                                                  *)

\* A row or an object is that of its own upload, which has got far enough.
Provenance ==
  /\ \A b \in blobs : b = RowOf(b.id) /\ upload[b.id].phase \in {"stored", "committed", "answered", "failed"}
  /\ \A b \in blobs : upload[b.id].phase \in {"committed", "answered"} => b \in docs
  /\ \A d \in docs : upload[d.id].phase \in {"committed", "answered", "failed"}
  /\ docs \subseteq blobs

\* What an upload relies on at its next step.
Prepared ==
  \A n \in Ids :
    /\ upload[n].phase \in {"scanned", "looked", "stored", "committed"} =>
         upload[n].content \in Contents \ (Invalid \cup Flagged)
    /\ upload[n].phase = "stored" => RowOf(n) \in blobs
    /\ upload[n].phase = "committed" => RowOf(n) \in docs

\* One document for an owner and a content.
OneDocument == \A d, e \in docs : d.owner = e.owner /\ d.content = e.content => d = e

\* Answers name documents of the owner with the content.
AnswersAreTrue ==
  \A a \in answers : \E d \in docs :
    d.id = a.document /\ d.owner = a.owner /\ d.content = a.content

UploadsInv ==
  /\ TypeOK /\ Provenance /\ Prepared /\ OneDocument /\ AnswersAreTrue
  /\ NothingFlaggedIsPersisted

LEMMA InitInv ==
  ASSUME Init
  PROVE  UploadsInv
<1>1. TypeOK
  BY DEF Init, TypeOK, Upload, Phase
<1>2. Provenance /\ Prepared /\ OneDocument /\ AnswersAreTrue /\ NothingFlaggedIsPersisted
  BY DEF Init, Provenance, Prepared, OneDocument, AnswersAreTrue, NothingFlaggedIsPersisted
<1> QED
  BY <1>1, <1>2 DEF UploadsInv

\* A step of upload n to another phase leaves the other uploads alone.
LEMMA GoAlone ==
  ASSUME TypeOK, NEW CONSTANT n \in Ids, NEW CONSTANT phase \in Phase, upload[n].phase # "unsent",
         Go(n, phase)
  PROVE  /\ upload' \in [Ids -> Upload]
         /\ \A m \in Ids : RowOf(m)' = RowOf(m)
         /\ \A m \in Ids : upload'[m].owner = upload[m].owner /\ upload'[m].content = upload[m].content
         /\ \A m \in Ids \ {n} : upload'[m] = upload[m]
         /\ upload'[n].phase = phase
         /\ \A m \in Ids : upload'[m].phase # "unsent" => RowOf(m)' \in Row
<1>1. \A m \in Ids : upload'[m] = IF m = n THEN [upload[n] EXCEPT !.phase = phase] ELSE upload[m]
  BY DEF Go, TypeOK
<1>2. \A m \in Ids : upload[m] \in Upload
  BY DEF TypeOK
<1>3. upload'[n].phase = phase
  BY <1>1, <1>2 DEF Upload
<1>4. \A m \in Ids : upload'[m].owner = upload[m].owner /\ upload'[m].content = upload[m].content
  BY <1>1, <1>2 DEF Upload
<1>5. \A m \in Ids : RowOf(m)' = RowOf(m)
  BY <1>4 DEF RowOf
<1>6. upload' \in [Ids -> Upload]
  BY DEF Go, TypeOK, Upload
<1>7. \A m \in Ids : upload'[m].phase # "unsent" => RowOf(m)' \in Row
  BY <1>1, <1>5 DEF TypeOK
<1> QED
  BY <1>1, <1>3, <1>4, <1>5, <1>6, <1>7

\* The answer to an upload names a document, if d is one.
LEMMA TellInv ==
  ASSUME UploadsInv, NEW CONSTANT n \in Ids, upload[n].phase \in {"scanned", "committed"},
         NEW CONSTANT d \in docs, d.owner = upload[n].owner, d.content = upload[n].content,
         upload[n].phase = "committed" => RowOf(n) \in docs,
         answers' = answers \cup {Told(n, d)}, Go(n, "answered"), UNCHANGED <<docs, blobs>>
  PROVE  UploadsInv'
<1>1. /\ upload' \in [Ids -> Upload]
      /\ \A m \in Ids : RowOf(m)' = RowOf(m)
      /\ \A m \in Ids : upload'[m].owner = upload[m].owner /\ upload'[m].content = upload[m].content
      /\ \A m \in Ids \ {n} : upload'[m] = upload[m]
      /\ upload'[n].phase = "answered"
      /\ \A m \in Ids : upload'[m].phase # "unsent" => RowOf(m)' \in Row
  BY GoAlone DEF UploadsInv, Phase
<1>2. d \in Row
  BY DEF UploadsInv, TypeOK
<1>3. Told(n, d) \in Answer
  BY <1>2 DEF Told, Answer, Row
<1>4. TypeOK'
  BY <1>1, <1>3 DEF UploadsInv, TypeOK
<1>5. \A b \in blobs : b.id \in Ids
  BY DEF UploadsInv, TypeOK, Row
<1>6. \A b \in blobs : b.id = n => upload[n].phase = "committed"
  BY DEF UploadsInv, Provenance
<1>7. Provenance'
  BY <1>1, <1>5, <1>6 DEF UploadsInv, Provenance
<1>8. Prepared'
  BY <1>1 DEF UploadsInv, Prepared
<1>9. AnswersAreTrue'
  BY DEF UploadsInv, AnswersAreTrue, Told
<1> QED
  BY <1>4, <1>7, <1>8, <1>9 DEF UploadsInv, OneDocument, NothingFlaggedIsPersisted

\* Every step keeps the invariant.
LEMMA NextInv ==
  ASSUME UploadsInv, [Next]_vars
  PROVE  UploadsInv'
<1> SUFFICES ASSUME Next
             PROVE  UploadsInv'
  BY DEF vars, UploadsInv, TypeOK, Provenance, Prepared, OneDocument, AnswersAreTrue,
         NothingFlaggedIsPersisted, RowOf
<1> USE DEF UploadsInv
<1> PICK n \in Ids :
      \/ \E o \in Owners, c \in Contents : Receive(n, o, c)
      \/ Scan(n) \/ Deduplicate(n) \/ Miss(n) \/ Put(n) \/ Commit(n) \/ Reply(n) \/ Fail(n)
  BY DEF Next
<1>0. /\ \A b \in blobs : b.id \in Ids
      /\ \A d \in docs : d.id \in Ids
      /\ RowOf(n).id = n
  BY DEF TypeOK, Row, RowOf
<1>1. ASSUME NEW o \in Owners, NEW c \in Contents, Receive(n, o, c)
      PROVE  UploadsInv'
  <2>1. \A m \in Ids : upload'[m] = IF m = n THEN [phase |-> "received", owner |-> o, content |-> c]
                                    ELSE upload[m]
    BY <1>1 DEF Receive, TypeOK
  <2>2. \A m \in Ids \ {n} : RowOf(m)' = RowOf(m)
    BY <2>1 DEF RowOf
  <2>3. RowOf(n)' \in Row
    BY <2>1 DEF RowOf, Row
  <2>4. upload' \in [Ids -> Upload]
    BY <1>1 DEF Receive, TypeOK, Upload, Phase
  <2>5. TypeOK'
    BY <1>1, <2>1, <2>2, <2>3, <2>4 DEF Receive, TypeOK
  <2>6. \A b \in blobs : b.id # n
    BY <1>1 DEF Receive, Provenance
  <2>7. Provenance'
    BY <1>0, <1>1, <2>1, <2>2, <2>6 DEF Receive, Provenance
  <2>8. Prepared'
    BY <1>1, <2>1, <2>2 DEF Receive, Prepared
  <2> QED
    BY <1>1, <2>5, <2>7, <2>8 DEF Receive, OneDocument, AnswersAreTrue, NothingFlaggedIsPersisted
<1>2. ASSUME Scan(n) \/ Miss(n) \/ Fail(n)
      PROVE  UploadsInv'
  <2>1. PICK phase \in {"scanned", "looked", "failed"} : Go(n, phase) /\
          (phase = "failed" \/
             (upload[n].phase \in {"received", "scanned"} /\ upload[n].content \notin (Invalid \cup Flagged)))
    <3>1. CASE Scan(n)
      BY <3>1 DEF Scan
    <3>2. CASE Miss(n)
      BY <3>2 DEF Miss, Prepared
    <3>3. CASE Fail(n)
      BY <3>3 DEF Fail
    <3> QED
      BY <1>2, <3>1, <3>2, <3>3
  <2>2. upload[n].phase # "unsent" /\ UNCHANGED <<docs, blobs, answers>>
    BY <1>2 DEF Scan, Miss, Fail
  <2>3. /\ upload' \in [Ids -> Upload]
        /\ \A m \in Ids : RowOf(m)' = RowOf(m)
        /\ \A m \in Ids : upload'[m].owner = upload[m].owner /\ upload'[m].content = upload[m].content
        /\ \A m \in Ids \ {n} : upload'[m] = upload[m]
        /\ upload'[n].phase = phase
        /\ \A m \in Ids : upload'[m].phase # "unsent" => RowOf(m)' \in Row
    BY <2>1, <2>2, GoAlone DEF Phase
  <2>4. TypeOK'
    BY <2>2, <2>3 DEF TypeOK
  <2>5. phase # "failed" => \A b \in blobs : b.id # n
    BY <2>1 DEF Provenance
  <2>6. Provenance'
    BY <1>0, <2>2, <2>3, <2>5 DEF Provenance
  <2>7. upload[n].content \in Contents
    BY <2>2 DEF TypeOK, RowOf, Row
  <2>8. Prepared'
    BY <2>1, <2>2, <2>3, <2>7 DEF Prepared
  <2> QED
    BY <2>2, <2>4, <2>6, <2>8 DEF OneDocument, AnswersAreTrue, NothingFlaggedIsPersisted
<1>3. ASSUME Deduplicate(n)
      PROVE  UploadsInv'
  <2>1. PICK d \in RowsOf(upload[n].owner, upload[n].content) : answers' = answers \cup {Told(n, d)}
    BY <1>3 DEF Deduplicate
  <2>2. d \in docs /\ d.owner = upload[n].owner /\ d.content = upload[n].content
    BY DEF RowsOf
  <2> QED
    BY <1>3, <2>1, <2>2, TellInv DEF Deduplicate
<1>4. ASSUME Put(n)
      PROVE  UploadsInv'
  <2>1. /\ upload' \in [Ids -> Upload]
        /\ \A m \in Ids : RowOf(m)' = RowOf(m)
        /\ \A m \in Ids : upload'[m].owner = upload[m].owner /\ upload'[m].content = upload[m].content
        /\ \A m \in Ids \ {n} : upload'[m] = upload[m]
        /\ upload'[n].phase = "stored"
        /\ \A m \in Ids : upload'[m].phase # "unsent" => RowOf(m)' \in Row
    BY <1>4, GoAlone DEF Put, Phase
  <2>2. RowOf(n) \in Row /\ RowOf(n).content \notin (Invalid \cup Flagged)
    BY <1>4 DEF Put, TypeOK, Prepared, RowOf
  <2>3. TypeOK'
    BY <1>4, <2>1, <2>2 DEF Put, TypeOK
  <2>4. \A b \in blobs : b.id # n
    BY <1>4 DEF Put, Provenance
  <2>5. Provenance'
    BY <1>0, <1>4, <2>1, <2>4 DEF Put, Provenance
  <2>6. Prepared'
    BY <1>4, <2>1, <2>2 DEF Put, Prepared
  <2>7. NothingFlaggedIsPersisted'
    BY <1>4, <2>2 DEF Put, NothingFlaggedIsPersisted
  <2> QED
    BY <1>4, <2>3, <2>5, <2>6, <2>7 DEF Put, OneDocument, AnswersAreTrue
<1>5. ASSUME Commit(n)
      PROVE  UploadsInv'
  <2>1. /\ upload' \in [Ids -> Upload]
        /\ \A m \in Ids : RowOf(m)' = RowOf(m)
        /\ \A m \in Ids : upload'[m].owner = upload[m].owner /\ upload'[m].content = upload[m].content
        /\ \A m \in Ids \ {n} : upload'[m] = upload[m]
        /\ upload'[n].phase = "committed"
        /\ \A m \in Ids : upload'[m].phase # "unsent" => RowOf(m)' \in Row
    BY <1>5, GoAlone DEF Commit, Phase
  <2>2. RowOf(n) \in blobs
    BY <1>5 DEF Commit, Prepared
  <2>3. RowOf(n) \in Row /\ RowOf(n).content \notin (Invalid \cup Flagged)
    BY <2>2 DEF TypeOK, NothingFlaggedIsPersisted
  <2>4. TypeOK'
    BY <1>5, <2>1, <2>3 DEF Commit, TypeOK
  <2>5. \A b \in blobs : b.id = n => b = RowOf(n)
    BY DEF Provenance
  <2>6. Provenance'
    BY <1>0, <1>5, <2>1, <2>2, <2>5 DEF Commit, Provenance
  <2>7. Prepared'
    BY <1>5, <2>1 DEF Commit, Prepared
  <2>8. OneDocument'
    BY <1>5 DEF Commit, OneDocument, RowsOf, RowOf
  <2>9. NothingFlaggedIsPersisted'
    BY <1>5, <2>3 DEF Commit, NothingFlaggedIsPersisted
  <2>10. AnswersAreTrue'
    BY <1>5 DEF Commit, AnswersAreTrue
  <2> QED
    BY <2>4, <2>6, <2>7, <2>8, <2>9, <2>10
<1>6. ASSUME Reply(n)
      PROVE  UploadsInv'
  <2>1. RowOf(n) \in docs /\ RowOf(n).owner = upload[n].owner /\ RowOf(n).content = upload[n].content
    BY <1>6 DEF Reply, Prepared, RowOf
  <2> QED
    BY <1>6, <2>1, TellInv DEF Reply
<1> QED
  BY <1>1, <1>2, <1>3, <1>4, <1>5, <1>6

LEMMA InvHolds == Spec => []UploadsInv
BY InitInv, NextInv, PTL DEF Spec

\* What the runs check of Uploads holds for any number of uploads: documents
\* have their blobs although the two are written by different transactions,
\* nothing that is refused is persisted, and nobody is told of an orphan.
THEOREM UploadsAreSafe ==
  Spec => [](TypeOK /\ EveryDocumentHasItsBlob /\ NothingFlaggedIsPersisted /\ OrphansAreUnknown)
<1>1. UploadsInv => TypeOK /\ EveryDocumentHasItsBlob /\ NothingFlaggedIsPersisted
  BY DEF UploadsInv, Provenance, EveryDocumentHasItsBlob
<1>2. UploadsInv => OrphansAreUnknown
  <2> SUFFICES ASSUME UploadsInv, NEW b \in blobs \ docs
               PROVE  /\ upload[b.id].phase \in {"stored", "failed"}
                      /\ \A a \in answers : a.document # b.id
    BY DEF OrphansAreUnknown
  <2>1. upload[b.id].phase \in {"stored", "failed"}
    BY DEF UploadsInv, Provenance
  <2>2. ASSUME NEW a \in answers, a.document = b.id
        PROVE  FALSE
    <3>1. PICK d \in docs : d.id = b.id
      BY <2>2 DEF UploadsInv, AnswersAreTrue
    <3>2. d = RowOf(b.id) /\ b = RowOf(b.id)
      BY <3>1 DEF UploadsInv, Provenance
    <3> QED
      BY <3>2
  <2> QED
    BY <2>1, <2>2
<1> QED
  BY <1>1, <1>2, InvHolds, PTL

-----------------------------------------------------------------------------
(* Refinement                                                              *)

\* The document the store has for an owner and a content.
Named(o, c) == IF RowsOf(o, c) = {} THEN None ELSE (CHOOSE d \in RowsOf(o, c) : TRUE).id

\* A document is the one its owner and content name.
LEMMA NamedDocument ==
  ASSUME UploadsInv, NEW d \in docs
  PROVE  Named(d.owner, d.content) = d.id
<1>1. RowsOf(d.owner, d.content) = {d}
  BY DEF UploadsInv, OneDocument, RowsOf
<1> QED
  BY <1>1 DEF Named

LEMMA StoreInit ==
  ASSUME Init
  PROVE  Store!Init
BY DEF Init, Store!Init, RowsOf

\* An answer is one of the store's.
LEMMA StoreTell ==
  ASSUME UploadsInv, NEW CONSTANT n \in Ids, NEW CONSTANT d \in docs,
         d.owner = upload[n].owner, d.content = upload[n].content,
         answers' = answers \cup {Told(n, d)}, UNCHANGED docs
  PROVE  Store!Next
<1> DEFINE o == d.owner
           c == d.content
<1>1. d \in Row
  BY DEF UploadsInv, TypeOK
<1>2. o \in Owners /\ c \in Contents /\ d.id \in Ids
  BY <1>1 DEF Row
<1>3. Named(o, c) = d.id
  BY NamedDocument
<1>4. d.id # None
  BY <1>2, UploadsAssumption DEF Ids
<1>5. Store!Tell(o, c)
  BY <1>2, <1>3, <1>4 DEF Store!Tell, Named, Told, RowsOf
<1> QED
  BY <1>2, <1>5 DEF Store!Next

\* The commit of an upload creates its document.
LEMMA StoreCreate ==
  ASSUME UploadsInv, NEW CONSTANT n \in Ids, Commit(n)
  PROVE  Store!Next
<1>1. RowOf(n) \in Row /\ upload[n].content \in Contents \ (Invalid \cup Flagged)
  BY DEF UploadsInv, TypeOK, Commit, Prepared
<1>2. PICK o \in Owners, c \in Contents : o = upload[n].owner /\ c = upload[n].content
  BY <1>1 DEF Row, RowOf
<1>3. RowsOf(o, c) = {} /\ docs' = docs \cup {RowOf(n)} /\ UNCHANGED answers
  BY <1>2 DEF Commit
<1>4. ASSUME NEW p \in Owners, NEW q \in Contents
      PROVE  Named(p, q) # n
  <2> SUFFICES ASSUME Named(p, q) = n
               PROVE  FALSE
    OBVIOUS
  <2>1. PICK d \in docs : d.id = n
    BY UploadsAssumption DEF Named, RowsOf, Ids
  <2> QED
    BY <2>1 DEF UploadsInv, Provenance, Commit
<1>5. ASSUME NEW CONSTANT p \in Owners, NEW CONSTANT q \in Contents
      PROVE  Named(p, q)' = IF p = o /\ q = c THEN n ELSE Named(p, q)
  <2>1. CASE p = o /\ q = c
    <3>1. RowsOf(p, q)' = {RowOf(n)}
      BY <1>2, <1>3, <2>1 DEF RowsOf, RowOf
    <3>2. (CHOOSE d \in {RowOf(n)} : TRUE) = RowOf(n)
      OBVIOUS
    <3>3. Named(p, q)' = (CHOOSE d \in {RowOf(n)} : TRUE).id
      BY <3>1 DEF Named
    <3> QED
      BY <2>1, <3>2, <3>3 DEF RowOf
  <2>2. CASE ~(p = o /\ q = c)
    <3>1. RowsOf(p, q)' = RowsOf(p, q)
      BY <1>2, <1>3, <2>2 DEF RowsOf, RowOf
    <3> QED
      BY <2>2, <3>1 DEF Named
  <2> QED
    BY <2>1, <2>2
<1>6. Named(o, c) = None
  BY <1>3 DEF Named
<1>7. Store!Create(o, c, n)
  <2>1. n \notin Store!Ids
    BY <1>4 DEF Store!Ids, Named
  <2>2. [p \in Owners |-> [q \in Contents |-> Named(p, q)']]
          = [[p \in Owners |-> [q \in Contents |-> Named(p, q)]] EXCEPT ![o][c] = n]
    BY <1>5
  <2> QED
    BY <1>1, <1>2, <1>3, <1>6, <2>1, <2>2 DEF Store!Create, Named
<1> QED
  BY <1>2, <1>7 DEF Store!Next

LEMMA StoreNext ==
  ASSUME UploadsInv, [Next]_vars
  PROVE  [Store!Next]_Store!vars
<1>1. ASSUME UNCHANGED <<docs, answers>>
      PROVE  UNCHANGED Store!vars
  BY <1>1 DEF Store!vars, RowsOf
<1>2. CASE UNCHANGED vars
  BY <1>1, <1>2 DEF vars
<1>3. CASE Next
  <2> PICK n \in Ids :
        \/ \E o \in Owners, c \in Contents : Receive(n, o, c)
        \/ Scan(n) \/ Deduplicate(n) \/ Miss(n) \/ Put(n) \/ Commit(n) \/ Reply(n) \/ Fail(n)
    BY <1>3 DEF Next
  <2>1. CASE (\E o \in Owners, c \in Contents : Receive(n, o, c)) \/ Scan(n) \/ Miss(n) \/ Put(n) \/ Fail(n)
    BY <1>1, <2>1 DEF Receive, Scan, Miss, Put, Fail
  <2>2. CASE Deduplicate(n)
    <3>1. PICK d \in RowsOf(upload[n].owner, upload[n].content) : answers' = answers \cup {Told(n, d)}
      BY <2>2 DEF Deduplicate
    <3>2. d \in docs /\ d.owner = upload[n].owner /\ d.content = upload[n].content
      BY DEF RowsOf
    <3> QED
      BY <2>2, <3>1, <3>2, StoreTell DEF Deduplicate
  <2>3. CASE Commit(n)
    BY <2>3, StoreCreate
  <2>4. CASE Reply(n)
    <3>1. RowOf(n) \in docs /\ RowOf(n).owner = upload[n].owner /\ RowOf(n).content = upload[n].content
      BY <2>4 DEF Reply, UploadsInv, Prepared, RowOf
    <3> QED
      BY <2>4, <3>1, StoreTell DEF Reply
  <2> QED
    BY <2>1, <2>2, <2>3, <2>4
<1> QED
  BY <1>2, <1>3

\* Any number of uploads, however they race and fail, behave as ContentStore
\* says: one document for an owner and a content, and no answer names another.
THEOREM UploadsImplementStore == Spec => ImplementsStore
<1>1. Init => Store!Init
  BY StoreInit
<1>2. UploadsInv /\ [Next]_vars => [Store!Next]_Store!vars
  BY StoreNext
<1> QED
  BY <1>1, <1>2, InvHolds, PTL DEF Spec, ImplementsStore, Store!Spec
=============================================================================
