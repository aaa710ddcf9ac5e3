---------------------------- MODULE SymbolSearch ----------------------------
(***************************************************************************)
(* What search_similar answers from the rows of symbols with their         *)
(* vectors.  A vector is a whole number and the distance of two is how far *)
(* apart they are.  The filter on the type is one more like that on the    *)
(* document, and is left out.                                              *)
(***************************************************************************)
EXTENDS Naturals, FiniteSets

CONSTANTS
  None,     \* no filter, no vector
  OwnerOf,  \* OwnerOf[d]: the account whose document d is
  TopK,     \* the length of an answer
  Ef        \* the rows a scan of the HNSW index comes up with

Distance(u, v) == IF u < v THEN v - u ELSE u - v

\* The rows the JOIN and the WHERE clauses let through.
Matching(rows, owner, doc) ==
  {r \in rows :
     /\ r.vector # None
     /\ doc = None \/ r.doc = doc
     /\ owner = None \/ OwnerOf[r.doc] = owner}

\* The answers that ORDER BY distance LIMIT n can give: of rows that are equally
\* near it may take any.
Nearest(rows, vector, n) ==
  {best \in SUBSET rows :
     /\ Cardinality(best) = IF Cardinality(rows) < n THEN Cardinality(rows) ELSE n
     /\ \A b \in best, r \in rows \ best :
          Distance(b.vector, vector) <= Distance(r.vector, vector)}

\* Mutation of Sorted: the LIMIT comes before the filters.
SortedFirst(rows, vector, owner, doc) ==
  {Matching(best, owner, doc) : best \in Nearest(Matching(rows, None, None), vector, TopK)}

\* A plan that sorts every matching row.
Sorted(rows, vector, owner, doc) == Nearest(Matching(rows, owner, doc), vector, TopK)

\* A plan that scans ix_embeddings_hnsw: the filters apply to what the scan comes
\* up with, and what that is is approximate.
Scanned(rows, vector, owner, doc) ==
  UNION {Nearest(Matching(found, owner, doc), vector, TopK) :
           found \in {F \in SUBSET Matching(rows, None, None) : Cardinality(F) <= Ef}}
=============================================================================
