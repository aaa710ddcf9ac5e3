----------------------------- MODULE ContentStore -----------------------------
(***************************************************************************)
(* What uploading promises, with no scanner, blob or transaction in sight: *)
(* every owner has at most one document for a content, a document stays,   *)
(* and whoever is told of a document is told of his own, for the content   *)
(* he sent.                                                                *)
(***************************************************************************)
CONSTANTS Owners, Contents, Acceptable, DocumentIds, None

VARIABLES
  document,  \* document[o][c]: the id of o's document with content c, or None
  answers    \* what clients have been told

vars == <<document, answers>>

\* The ids that are in use.
Ids == {document[o][c] : o \in Owners, c \in Contents} \ {None}

Init ==
  /\ document = [o \in Owners |-> [c \in Contents |-> None]]
  /\ answers = {}

Create(o, c, id) ==
  /\ c \in Acceptable
  /\ document[o][c] = None
  /\ id \notin Ids
  /\ document' = [document EXCEPT ![o][c] = id]
  /\ UNCHANGED answers

Tell(o, c) ==
  /\ document[o][c] # None
  /\ answers' = answers \cup {[owner |-> o, content |-> c, document |-> document[o][c]]}
  /\ UNCHANGED document

Next ==
  \E o \in Owners, c \in Contents : Tell(o, c) \/ \E id \in DocumentIds : Create(o, c, id)

Spec == Init /\ [][Next]_vars
=============================================================================
