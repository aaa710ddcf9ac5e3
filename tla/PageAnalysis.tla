---------------------------- MODULE PageAnalysis ----------------------------
(***************************************************************************)
(* What the stages compute for one page, with the loops they compute it    *)
(* by: suppression of overlapping detections, association of text with      *)
(* symbols, classification by tag, inference of edges, and the traversal    *)
(* of the resulting graph.  Each loop is greedy; what its result has to do  *)
(* with the whole input is what the properties say.                         *)
(*                                                                         *)
(* Image processing and OCR are external: the candidates that pass the      *)
(* area and aspect filters, and the tokens, are inputs.  Symbols are        *)
(* inserted by one statement with one created_at, so list_by_document may   *)
(* return those of a page in any order, and in another one to every stage.  *)
(***************************************************************************)
EXTENDS Geometry, Sequences, FiniteSets

CONSTANTS
  Pages,         \* the inputs: [candidates, tokens] of a page
  MaxSymbols,    \* _MAX_SYMBOLS_PER_PAGE
  IouDedupe,     \* _IOU_DEDUPE, in percent
  MaxDistance,   \* label_association_max_distance, in pixels
  MinConfidence  \* min_confidence, in percent

\* An OcrToken: where its centroid is, its letters, its confidence in percent.
Token == [at : Point, text : Seq(STRING), confidence : Nat]

ASSUME AnalysisAssumption ==
  /\ MaxSymbols \in Nat \ {0} /\ MaxDistance \in Nat
  /\ IouDedupe \in Nat /\ MinConfidence \in Nat
  \* findContours and sort(reverse=True): the largest come first.
  /\ \A p \in Pages :
       /\ p.candidates \in Seq(BBox)
       /\ \A i, j \in DOMAIN p.candidates :
            i < j => Area(p.candidates[j]) <= Area(p.candidates[i])
       /\ p.tokens \in Seq(Token)

VARIABLES
  page,     \* the page under analysis
  stage,    \* the loop it is in
  next,     \* the index the loop is at
  kept,     \* the boxes that are symbols, as they were kept
  order,    \* order[s]: the position of symbol s in list_by_document
  left,     \* the pairs <<symbol, token>> not considered yet
  matched,  \* the pairs associated
  type,     \* the type of every symbol
  edges     \* the inferred edges

vars == <<page, stage, next, kept, order, left, matched, type, edges>>

Symbols == 1 .. Len(kept)

Orders == {o \in [Symbols -> Symbols] : \A s, r \in Symbols : o[s] = o[r] => s = r}

-----------------------------------------------------------------------------
(* pdf_extract: non-maximum suppression                                    *)

\* Mutation of Apart: a candidate is compared with the last box kept.
ApartFromLast(box, boxes) == boxes = <<>> \/ IouBelow(box, boxes[Len(boxes)], IouDedupe)

Apart(box, boxes) == \A k \in 1 .. Len(boxes) : IouBelow(box, boxes[k], IouDedupe)

MoreCandidates == next <= Len(page.candidates) /\ Len(kept) < MaxSymbols

Detect ==
  /\ stage = "pdf_extract" /\ MoreCandidates
  /\ kept' = IF Apart(page.candidates[next], kept) THEN Append(kept, page.candidates[next])
             ELSE kept
  /\ next' = next + 1
  /\ UNCHANGED <<page, stage, order, left, matched, type, edges>>

-----------------------------------------------------------------------------
(* ocr: associate_text_to_symbol                                           *)

Dist(p) == DistanceTo(kept[p[1]], page.tokens[p[2]].at)

\* The pairs in range (the triples of the code); distances are doubled.
InRange ==
  {p \in Symbols \X (1 .. Len(page.tokens)) :
     page.tokens[p[2]].confidence >= MinConfidence /\ Dist(p) <= 4 * MaxDistance * MaxDistance}

BeginOcr(o) ==
  /\ stage = "pdf_extract" /\ ~MoreCandidates
  /\ stage' = "ocr" /\ order' = o /\ left' = InRange
  /\ UNCHANGED <<page, next, kept, matched, type, edges>>

\* Mutation of First: the pairs are taken symbol by symbol, not by distance.
FirstBySymbol(p) ==
  p \in left /\ \A q \in left : order[p[1]] < order[q[1]] \/ (p[1] = q[1] /\ p[2] <= q[2])

\* triples.sort is stable: by distance, then by symbol, then by token.
First(p) ==
  /\ p \in left
  /\ \A q \in left :
       \/ Dist(p) < Dist(q)
       \/ Dist(p) = Dist(q) /\ (order[p[1]] < order[q[1]] \/ (p[1] = q[1] /\ p[2] <= q[2]))

Associate(p) ==
  /\ stage = "ocr" /\ First(p)
  /\ matched' = IF \A q \in matched : q[1] # p[1] /\ q[2] # p[2] THEN matched \cup {p} ELSE matched
  /\ left' = left \ {p}
  /\ UNCHANGED <<page, stage, next, kept, order, type, edges>>

-----------------------------------------------------------------------------
(* classify: RuleBasedClassifier                                           *)

Rule(prefix, t) == [prefix |-> prefix, type |-> t]

\* _PREFIX_RULES.  A text stands for the letters it begins with, in upper case.
Rules ==
  { Rule(<<"X", "V">>, "Valve"), Rule(<<"F", "V">>, "Valve"), Rule(<<"P", "C", "V">>, "Valve"),
    Rule(<<"P", "V">>, "PressureVessel"), Rule(<<"H", "E", "X">>, "HeatExchanger"),
    Rule(<<"E">>, "HeatExchanger"), Rule(<<"P", "T">>, "PressureTransmitter"),
    Rule(<<"F", "T">>, "Instrument"), Rule(<<"L", "T">>, "Instrument"), Rule(<<"T", "T">>, "Instrument"),
    Rule(<<"P", "I", "C">>, "Controller"), Rule(<<"F", "I", "C">>, "Controller"),
    Rule(<<"L", "I", "C">>, "Controller"), Rule(<<"P">>, "Pump"), Rule(<<"C">>, "Compressor"),
    Rule(<<"T", "K">>, "Tank"), Rule(<<"T">>, "Tank") }

IsPrefixOf(s, t) == Len(s) <= Len(t) /\ \A i \in 1 .. Len(s) : s[i] = t[i]

\* The longest rule that fits comes first.
ClassOf(tag) ==
  LET fitting == {r \in Rules : IsPrefixOf(r.prefix, tag)}
  IN  IF fitting = {} THEN "Unknown"
      ELSE (CHOOSE r \in fitting : \A q \in fitting : Len(q.prefix) <= Len(r.prefix)).type

\* A symbol without a label is UNKNOWN, as one whose label fits no rule.
Classify ==
  /\ stage = "ocr" /\ left = {}
  /\ type' = [s \in Symbols |->
                IF \E p \in matched : p[1] = s
                THEN ClassOf(page.tokens[(CHOOSE p \in matched : p[1] = s)[2]].text)
                ELSE "Unknown"]
  /\ stage' = "classify"
  /\ UNCHANGED <<page, next, kept, order, left, matched, edges>>

-----------------------------------------------------------------------------
(* graph: ProximityRelationshipInferrer                                    *)

\* _TYPE_TO_RELATION, as the types that have a relation.
Relation ==
  [Pump |-> "feeds", Compressor |-> "feeds", Controller |-> "controls",
   PressureTransmitter |-> "measures", Instrument |-> "measures", Valve |-> "regulates"]

BeginGraph(o) ==
  /\ stage = "classify"
  /\ stage' = "graph" /\ order' = o /\ next' = 1
  /\ UNCHANGED <<page, kept, left, matched, type, edges>>

Gap(s, d) == DistanceTo(kept[s], Centroid(kept[d]))

\* Mutation of Nearest: symbols that are some edge's target are passed over.
NearestFree(src, d) ==
  /\ d # src
  /\ \A e \in (Symbols \ {src}) \ {x.target : x \in edges} :
       Gap(src, d) < Gap(src, e) \/ (Gap(src, d) = Gap(src, e) /\ order[d] <= order[e])
  /\ d \notin {x.target : x \in edges}

\* d is the first of the nearest other symbols, in the order of the list.
Nearest(src, d) ==
  /\ d # src
  /\ \A e \in Symbols \ {src} :
       Gap(src, d) < Gap(src, e) \/ (Gap(src, d) = Gap(src, e) /\ order[d] <= order[e])

\* The symbol at the loop's position gets its edge, if its type has a role.
Connect(src) ==
  /\ stage = "graph" /\ order[src] = next
  /\ edges' = edges \cup
       {[source |-> src, target |-> d, type |-> Relation[type[src]]] :
          d \in {d \in Symbols : type[src] \in DOMAIN Relation /\ Nearest(src, d)}}
  /\ next' = next + 1
  /\ UNCHANGED <<page, stage, kept, order, left, matched, type>>

Finish ==
  /\ stage = "graph" /\ next > Len(kept)
  /\ stage' = "finalize"
  /\ UNCHANGED <<page, next, kept, order, left, matched, type, edges>>

-----------------------------------------------------------------------------
(* SqlAlchemyRelationshipRepository.neighbours                             *)

\* Mutation of Across: edges are followed from source to target.
AcrossForward(nodes) == {e.target : e \in {e \in edges : e.source \in nodes}}

\* The nodes one edge away from some of the nodes, in either direction.
Across(nodes) ==
  {e.target : e \in {e \in edges : e.source \in nodes}}
    \cup {e.source : e \in {e \in edges : e.target \in nodes}}

\* The recursive query: the nodes at most depth edges away from start.
Reachable(start, depth) ==
  LET within[k \in 0 .. depth] ==
        IF k = 0 THEN {start} ELSE within[k - 1] \cup Across(within[k - 1])
  IN  within[depth]

\* One hop is asked for by another query than several.
Neighbours(start, depth) ==
  IF depth <= 1 THEN {e \in edges : start \in {e.source, e.target}}
  ELSE {e \in edges : {e.source, e.target} \subseteq Reachable(start, depth)}

-----------------------------------------------------------------------------
(* The specification                                                       *)

Init ==
  /\ page \in Pages
  /\ stage = "pdf_extract" /\ next = 1
  /\ kept = <<>> /\ order = <<>> /\ left = {} /\ matched = {} /\ type = <<>> /\ edges = {}

Next ==
  \/ Detect
  \/ \E o \in Orders : BeginOcr(o) \/ BeginGraph(o)
  \/ \E p \in left : Associate(p)
  \/ Classify
  \/ \E src \in Symbols : Connect(src)
  \/ Finish

Spec == Init /\ [][Next]_vars

-----------------------------------------------------------------------------
(* Properties                                                              *)

Types == {r.type : r \in Rules} \cup {"Unknown"}

\* Every variable has its type; a page has no more symbols than the limit.
TypeOK ==
  /\ page.candidates \in Seq(BBox) /\ page.tokens \in Seq(Token)
  /\ stage \in {"pdf_extract", "ocr", "classify", "graph", "finalize"}
  /\ next \in Nat \ {0}
  /\ kept \in Seq(BBox)
  /\ Len(kept) <= MaxSymbols
  /\ IF stage = "pdf_extract" THEN left = {} /\ matched = {} ELSE order \in Orders
  /\ left \subseteq InRange /\ matched \subseteq InRange
  /\ stage \in {"classify", "graph", "finalize"} => type \in [Symbols -> Types]

\* symbol_extractor.py:57: of boxes that overlap, the largest is the symbol.
\* Two symbols never overlap by the threshold or more, and a candidate was
\* dropped only for a symbol that overlaps it and is no smaller, or because
\* the page was full: it never has more symbols than the limit.
SuppressionIsSound ==
  /\ Len(kept) <= MaxSymbols
  /\ \A i, j \in Symbols : i # j => IouBelow(kept[i], kept[j], IouDedupe)
  /\ stage # "pdf_extract" /\ Len(kept) < MaxSymbols =>
       \A c \in 1 .. Len(page.candidates) :
         \E k \in Symbols :
           /\ kept[k] = page.candidates[c] \/ ~IouBelow(page.candidates[c], kept[k], IouDedupe)
           /\ Area(page.candidates[c]) <= Area(kept[k])

\* services.py:31: no label is claimed twice, and the closest pairings win: of
\* a symbol and a token in range that are not associated, one is associated
\* with something no farther away.
AssociationIsStable ==
  /\ \A p, q \in matched : p[1] = q[1] \/ p[2] = q[2] => p = q
  /\ stage \in {"classify", "graph", "finalize"} =>
       \A p \in InRange : \E q \in matched : (q[1] = p[1] \/ q[2] = p[2]) /\ Dist(q) <= Dist(p)

\* The edge of a symbol leads to a nearest other one, and whoever has a role
\* and is not alone has one edge in the end: what the labels say of a symbol
\* decides whether it is in the graph.
RolesHaveEdges ==
  /\ \A e, f \in edges : e.source = f.source => e = f
  /\ stage = "finalize" /\ Len(kept) > 1 =>
       \A s \in Symbols : (\E e \in edges : e.source = s) <=> type[s] \in DOMAIN Relation

\* Inferred flow does not run round three symbols, however ties fall: edges
\* that lead on and back to the first are two edges between one pair.
NoTriangles ==
  \A a, b, c \in Symbols :
    (\A p \in {<<a, b>>, <<b, c>>, <<c, a>>} : \E e \in edges : e.source = p[1] /\ e.target = p[2])
      => a = c

\* inferrer.py:45: the graph does not depend on luck for having its edges, nor
\* does it run in circles.
EdgesAreSound == RolesHaveEdges /\ NoTriangles

\* Asking for more hops never loses an edge, although one hop is another query
\* than several; and no edge is farther away than was asked for.
NeighboursNest ==
  stage = "finalize" =>
    \A s \in Symbols, depth \in 1 .. MaxSymbols :
      /\ Neighbours(s, depth) \subseteq Neighbours(s, depth + 1)
      /\ \A e \in Neighbours(s, depth) :
           e.source \in Reachable(s, depth) /\ e.target \in Reachable(s, depth)
=============================================================================
