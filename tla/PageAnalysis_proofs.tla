------------------------ MODULE PageAnalysis_proofs ------------------------
(***************************************************************************)
(* Theorems about PageAnalysis: what its greedy loops achieve on every     *)
(* page, whatever the boxes, the tokens and the thresholds.                 *)
(***************************************************************************)
EXTENDS PageAnalysis, WellFoundedInduction, TLAPS

-----------------------------------------------------------------------------
(* Geometry                                                                *)

\* The distance from a box to a point is a number.
LEMMA DistanceIsInt ==
  ASSUME NEW b \in BBox, NEW p \in Point
  PROVE  DistanceTo(b, p) \in Int
<1>1. b.x \in Int /\ b.y \in Int /\ b.width \in Int /\ b.height \in Int /\ p.x \in Int /\ p.y \in Int
  BY DEF BBox, Point
<1>2. Centroid(b).x = 2 * b.x + b.width /\ Centroid(b).y = 2 * b.y + b.height
  BY DEF Centroid
<1>3. Centroid(b).x - p.x \in Int /\ Centroid(b).y - p.y \in Int
  BY <1>1, <1>2
<1> QED BY <1>3 DEF DistanceTo

\* The centroid of a box is a point.
LEMMA CentroidIsPoint ==
  ASSUME NEW b \in BBox
  PROVE  Centroid(b) \in Point
BY DEF BBox, Point, Centroid

\* Two boxes are as far from one another's centroid.
LEMMA DistanceIsSymmetric ==
  ASSUME NEW a \in BBox, NEW b \in BBox
  PROVE  DistanceTo(a, Centroid(b)) = DistanceTo(b, Centroid(a))
<1> DEFINE dx == Centroid(a).x - Centroid(b).x
           dy == Centroid(a).y - Centroid(b).y
           ex == Centroid(b).x - Centroid(a).x
           ey == Centroid(b).y - Centroid(a).y
<1>1. Centroid(a).x \in Int /\ Centroid(a).y \in Int /\ Centroid(b).x \in Int /\ Centroid(b).y \in Int
  BY CentroidIsPoint DEF Point
<1>2. dx \in Int /\ dy \in Int /\ ex = -dx /\ ey = -dy
  BY <1>1
<1>3. DistanceTo(a, Centroid(b)) = dx * dx + dy * dy /\ DistanceTo(b, Centroid(a)) = ex * ex + ey * ey
  BY DEF DistanceTo
<1> HIDE DEF dx, dy, ex, ey
<1>4. \A i \in Int : (-i) * (-i) = i * i
  OBVIOUS
<1> QED BY <1>2, <1>3, <1>4

\* The overlap of two boxes does not depend on their order.
LEMMA OverlapIsSymmetric ==
  ASSUME NEW a \in BBox, NEW b \in BBox, NEW percent \in Nat, IouBelow(a, b, percent)
  PROVE  IouBelow(b, a, percent)
<1>1. \A lo, hi, lo2, hi2 \in Int : Common(lo, hi, lo2, hi2) = Common(lo2, hi2, lo, hi)
  BY DEF Common
<1>2. /\ a.x \in Int /\ a.y \in Int /\ a.width \in Int /\ a.height \in Int
      /\ b.x \in Int /\ b.y \in Int /\ b.width \in Int /\ b.height \in Int
  BY DEF BBox
<1>0. /\ a.x + a.width \in Int /\ a.y + a.height \in Int
      /\ b.x + b.width \in Int /\ b.y + b.height \in Int
  BY <1>2
<1>3. Intersection(a, b) = Intersection(b, a)
  <2>2. Common(a.x, a.x + a.width, b.x, b.x + b.width) = Common(b.x, b.x + b.width, a.x, a.x + a.width)
    BY <1>0, <1>1, <1>2
  <2>3. Common(a.y, a.y + a.height, b.y, b.y + b.height) = Common(b.y, b.y + b.height, a.y, a.y + a.height)
    BY <1>0, <1>1, <1>2
  <2> QED BY <2>2, <2>3 DEF Intersection
<1>4. Area(a) \in Int /\ Area(b) \in Int /\ Intersection(a, b) \in Int
  <2>1. \A lo, hi, lo2, hi2 \in Int : Common(lo, hi, lo2, hi2) \in Int
    BY DEF Common
  <2>2. /\ Common(a.x, a.x + a.width, b.x, b.x + b.width) \in Int
        /\ Common(a.y, a.y + a.height, b.y, b.y + b.height) \in Int
    BY <1>0, <1>2, <2>1
  <2>3. \A c, d \in Int : c * d \in Int
    OBVIOUS
  <2>4. Intersection(a, b) \in Int
    BY <2>2, <2>3, Zenon DEF Intersection
  <2>5. Area(a) \in Int /\ Area(b) \in Int
    BY <1>2 DEF Area
  <2> QED BY <2>4, <2>5
<1>5. Area(a) + Area(b) = Area(b) + Area(a)
  BY <1>4
<1>6. IouBelow(a, b, percent) <=> 100 * Intersection(a, b) < percent * (Area(a) + Area(b) - Intersection(a, b))
  BY Zenon DEF IouBelow
<1>7. IouBelow(b, a, percent) <=> 100 * Intersection(b, a) < percent * (Area(b) + Area(a) - Intersection(b, a))
  BY Zenon DEF IouBelow
<1>8. /\ 100 * Intersection(b, a) = 100 * Intersection(a, b)
      /\ percent * (Area(b) + Area(a) - Intersection(b, a)) = percent * (Area(a) + Area(b) - Intersection(a, b))
  <2> DEFINE u == Area(a)
             v == Area(b)
             i == Intersection(a, b)
             j == Intersection(b, a)
  <2> HIDE DEF u, v, i, j
  <2>1. u \in Int /\ v \in Int /\ i \in Int /\ j = i
    BY <1>3, <1>4 DEF u, v, i, j
  <2>2. v + u - j = u + v - i
    BY <2>1
  <2>3. Area(b) + Area(a) - Intersection(b, a) = Area(a) + Area(b) - Intersection(a, b)
    BY <2>2, Zenon DEF u, v, i, j
  <2> QED BY <1>3, <2>3, Zenon
<1>9. \A i, j, k, l : i = k /\ j = l => ((i < j) <=> (k < l))
  BY Zenon
<1> QED BY <1>6, <1>7, <1>8, <1>9, Zenon

-----------------------------------------------------------------------------
(* Types                                                                   *)

\* What the loops rely on: the page is one of the inputs, the variables have
\* their types.
PageInv == page \in Pages /\ TypeOK

\* The class of a tag is one of the types.
LEMMA ClassIsType == \A tag : ClassOf(tag) \in Types
<1> SUFFICES ASSUME NEW tag PROVE ClassOf(tag) \in Types
  OBVIOUS
<1> DEFINE fitting == {r \in Rules : IsPrefixOf(r.prefix, tag)}
           Longest(r) == \A q \in fitting : Len(q.prefix) <= Len(r.prefix)
<1>1. CASE fitting = {}
  BY <1>1 DEF ClassOf, Types
<1>2. CASE fitting # {}
  <2>1. \A r \in Rules : Len(r.prefix) \in {1, 2, 3}
    BY DEF Rules, Rule
  <2>2. \E r \in fitting : Longest(r)
    <3>1. CASE \E r \in fitting : Len(r.prefix) = 3
      BY <3>1, <2>1
    <3>2. CASE (\A r \in fitting : Len(r.prefix) # 3) /\ \E r \in fitting : Len(r.prefix) = 2
      BY <3>2, <2>1
    <3>3. CASE \A r \in fitting : Len(r.prefix) = 1
      BY <3>3, <1>2
    <3> QED BY <3>1, <3>2, <3>3, <2>1
  <2>3. (CHOOSE r \in fitting : Longest(r)) \in fitting
    BY <2>2
  <2>4. ClassOf(tag) = (CHOOSE r \in fitting : Longest(r)).type
    BY <1>2 DEF ClassOf
  <2> HIDE DEF Longest
  <2> QED BY <2>3, <2>4 DEF Types
<1> QED BY <1>1, <1>2

\* Every variable keeps its type, and the loop of the extractor its limit.
THEOREM PageTypeCorrect == Spec => []TypeOK
<1>1. Init => PageInv
  <2> SUFFICES ASSUME Init PROVE PageInv
    OBVIOUS
  <2>1. page.candidates \in Seq(BBox) /\ page.tokens \in Seq(Token)
    BY AnalysisAssumption DEF Init
  <2>2. kept = <<>> /\ kept \in Seq(BBox) /\ Len(kept) <= MaxSymbols
    BY AnalysisAssumption DEF Init
  <2> QED BY <2>1, <2>2 DEF Init, PageInv, TypeOK
<1>2. PageInv /\ [Next]_vars => PageInv'
  <2> SUFFICES ASSUME PageInv, [Next]_vars PROVE PageInv'
    OBVIOUS
  <2> USE DEF PageInv, TypeOK
  <2>1. CASE Detect
    <3>1. /\ stage = "pdf_extract" /\ stage' = stage /\ page' = page
          /\ next \in 1 .. Len(page.candidates) /\ Len(kept) < MaxSymbols
          /\ kept' = kept \/ kept' = Append(kept, page.candidates[next])
          /\ next' = next + 1
          /\ left' = left /\ matched' = matched /\ order' = order /\ type' = type
      BY <2>1 DEF Detect, MoreCandidates
    <3>2. page.candidates[next] \in BBox
      BY <3>1
    <3>3. kept' \in Seq(BBox) /\ Len(kept') <= MaxSymbols
      BY <3>1, <3>2, AnalysisAssumption
    <3>4. left = {} /\ matched = {}
      BY <3>1
    <3> QED BY <3>1, <3>3, <3>4
  <2>2. ASSUME NEW o \in Orders, BeginOcr(o) PROVE PageInv'
    BY <2>2 DEF BeginOcr, Orders, Symbols, InRange, Dist
  <2>3. ASSUME NEW o \in Orders, BeginGraph(o) PROVE PageInv'
    BY <2>3 DEF BeginGraph, Orders, Symbols, InRange, Dist
  <2>4. ASSUME NEW p \in left, Associate(p) PROVE PageInv'
    BY <2>4 DEF Associate, Orders, Symbols, InRange, Dist
  <2>5. CASE Classify
    <3>1. \A s \in Symbols : type'[s] \in Types
      BY <2>5, ClassIsType DEF Classify, Types
    <3> QED BY <2>5, <3>1 DEF Classify, Orders, Symbols, InRange, Dist
  <2>6. ASSUME NEW src \in Symbols, Connect(src) PROVE PageInv'
    BY <2>6 DEF Connect, Orders, Symbols, InRange, Dist
  <2>7. CASE Finish
    BY <2>7 DEF Finish, Orders, Symbols, InRange, Dist
  <2>8. CASE UNCHANGED vars
    BY <2>8 DEF vars, Orders, Symbols, InRange, Dist
  <2> QED BY <2>1, <2>2, <2>3, <2>4, <2>5, <2>6, <2>7, <2>8 DEF Next
<1>3. PageInv => TypeOK
  BY DEF PageInv
<1> QED BY <1>1, <1>2, <1>3, PTL DEF Spec

-----------------------------------------------------------------------------
(* Association                                                             *)

\* The distance between the members of a pair is a number.
LEMMA DistIsInt ==
  ASSUME TypeOK
  PROVE  \A p \in InRange : Dist(p) \in Int
<1> SUFFICES ASSUME NEW p \in InRange PROVE Dist(p) \in Int
  OBVIOUS
<1>1. kept[p[1]] \in BBox
  BY DEF TypeOK, InRange, Symbols
<1>2. page.tokens[p[2]] \in Token
  BY DEF TypeOK, InRange
<1>3. page.tokens[p[2]].at \in Point
  BY <1>2 DEF Token
<1> QED BY <1>1, <1>3, DistanceIsInt DEF Dist

\* p is associated, or one of its members is with something no farther away.
Satisfied(p) == \E q \in matched : (q[1] = p[1] \/ q[2] = p[2]) /\ Dist(q) <= Dist(p)

\* The loop has satisfied every pair it has considered, and has considered
\* them in the order of their distance.
StableInv ==
  /\ \A p, q \in matched : p[1] = q[1] \/ p[2] = q[2] => p = q
  /\ stage # "pdf_extract" => \A p \in InRange \ left : Satisfied(p)
  /\ \A q \in matched, p \in left : Dist(q) <= Dist(p)
  /\ stage \notin {"pdf_extract", "ocr"} => left = {}

\* services.py:31: the closest pairings win, for any boxes and tokens and any
\* distance.
THEOREM ClosestPairingsWin == Spec => []AssociationIsStable
<1>1. Init => StableInv
  BY DEF Init, StableInv
<1>2. TypeOK /\ StableInv /\ [Next]_vars => StableInv'
  <2> SUFFICES ASSUME TypeOK, StableInv, [Next]_vars PROVE StableInv'
    OBVIOUS
  <2>1. CASE Detect
    <3>1. /\ stage = "pdf_extract" /\ stage' = stage /\ left' = {} /\ matched' = {}
      BY <2>1 DEF Detect, TypeOK
    <3> QED BY <3>1 DEF StableInv
  <2>2. ASSUME NEW o \in Orders, BeginOcr(o) PROVE StableInv'
    <3>1. stage' = "ocr" /\ matched = {} /\ matched' = {} /\ left' = InRange' 
      BY <2>2 DEF BeginOcr, TypeOK, InRange, Symbols, Dist
    <3> QED BY <3>1 DEF StableInv
  <2>3. ASSUME NEW p \in left, Associate(p) PROVE StableInv'
    <3>1. /\ stage = "ocr" /\ stage' = "ocr" /\ left' = left \ {p}
          /\ page' = page /\ kept' = kept
          /\ matched' = IF \A q \in matched : q[1] # p[1] /\ q[2] # p[2] THEN matched \cup {p} ELSE matched
      BY <2>3 DEF Associate
    <3>2. InRange' = InRange /\ \A q : Dist(q)' = Dist(q)
      BY <3>1 DEF InRange, Symbols, Dist
    <3>3. p \in InRange /\ left \subseteq InRange /\ matched \subseteq InRange
      BY DEF TypeOK
    <3>4. \A q \in InRange : Dist(q) \in Int
      BY DistIsInt
    <3>5. \A q \in left : Dist(p) <= Dist(q)
      <4>1. \A q \in left : Dist(p) < Dist(q) \/ Dist(p) = Dist(q)
        BY <2>3 DEF Associate, First
      <4> QED BY <4>1, <3>3, <3>4
    <3>6. \A q \in matched' : Dist(q) <= Dist(p)
      BY <3>1, <3>3, <3>4 DEF StableInv
    <3>7. \A q \in matched', r \in left' : Dist(q) <= Dist(r)
      BY <3>1, <3>3, <3>4, <3>5, <3>6
    <3>8. \A q, r \in matched' : q[1] = r[1] \/ q[2] = r[2] => q = r
      BY <3>1 DEF StableInv
    <3>9. \A r \in InRange \ left' : \E q \in matched' : (q[1] = r[1] \/ q[2] = r[2]) /\ Dist(q) <= Dist(r)
      <4> SUFFICES ASSUME NEW r \in InRange \ left'
                   PROVE  \E q \in matched' : (q[1] = r[1] \/ q[2] = r[2]) /\ Dist(q) <= Dist(r)
        OBVIOUS
      <4>1. CASE r = p
        <5>1. \E q \in matched' : q[1] = p[1] \/ q[2] = p[2]
          BY <3>1
        <5> QED BY <5>1, <4>1, <3>6
      <4>2. CASE r # p
        <5>1. r \in InRange \ left
          BY <4>2, <3>1
        <5>2. PICK q \in matched : (q[1] = r[1] \/ q[2] = r[2]) /\ Dist(q) <= Dist(r)
          BY <5>1, <3>1 DEF StableInv, Satisfied
        <5> QED BY <5>2, <3>1
      <4> QED BY <4>1, <4>2
    <3> QED
      <4>1. \A r \in InRange' \ left' : Satisfied(r)'
        BY <3>2, <3>9 DEF Satisfied
      <4>2. \A q \in matched', r \in left' : Dist(q)' <= Dist(r)'
        BY <3>2, <3>7
      <4> QED BY <3>1, <3>8, <4>1, <4>2 DEF StableInv
  <2>4. CASE Classify \/ Finish \/ UNCHANGED vars \/ (\E o \in Orders : BeginGraph(o)) \/ \E s \in Symbols : Connect(s)
    <3>1. /\ page' = page /\ kept' = kept /\ left' = left /\ matched' = matched
          /\ stage' = stage \/ (stage # "pdf_extract" /\ left = {} /\ stage' # "pdf_extract")
      BY <2>4 DEF Classify, Finish, vars, BeginGraph, Connect, StableInv
    <3>2. InRange' = InRange /\ \A q : Dist(q)' = Dist(q)
      BY <3>1 DEF InRange, Symbols, Dist
    <3>3. \A p : Satisfied(p)' <=> Satisfied(p)
      BY <3>1, <3>2 DEF Satisfied
    <3> QED BY <3>1, <3>2, <3>3 DEF StableInv
  <2> QED BY <2>1, <2>2, <2>3, <2>4 DEF Next
<1>3. TypeOK /\ StableInv => AssociationIsStable
  BY DEF StableInv, AssociationIsStable, Satisfied
<1> QED BY <1>1, <1>2, <1>3, PageTypeCorrect, PTL DEF Spec

-----------------------------------------------------------------------------
(* Detection                                                               *)

Candidates == 1 .. Len(page.candidates)

\* Candidate c is a symbol, or overlaps one; the symbol is no smaller.
Covered(c) ==
  \E k \in Symbols :
    /\ kept[k] = page.candidates[c] \/ ~IouBelow(page.candidates[c], kept[k], IouDedupe)
    /\ Area(page.candidates[c]) <= Area(kept[k])

\* The loop covers what it has looked at; what it keeps is no smaller than what
\* it has not looked at yet.
CoverInv ==
  /\ \A i, j \in Symbols : i # j => IouBelow(kept[i], kept[j], IouDedupe)
  /\ stage = "pdf_extract" =>
       /\ next <= Len(page.candidates) + 1
       /\ \A k \in Symbols, c \in Candidates : next <= c => Area(page.candidates[c]) <= Area(kept[k])
       /\ \A c \in Candidates : c < next => Covered(c)
  /\ stage # "pdf_extract" /\ Len(kept) < MaxSymbols => \A c \in Candidates : Covered(c)

\* symbol_extractor.py:57: of overlapping boxes the largest is the symbol, and
\* nothing is dropped without one, for any boxes and any threshold.
THEOREM LargestDetectionsWin == Spec => []SuppressionIsSound
<1>1. Init => page \in Pages /\ CoverInv
  <2> SUFFICES ASSUME Init PROVE page \in Pages /\ CoverInv
    OBVIOUS
  <2>1. kept = <<>> /\ Symbols = {} /\ next = 1 /\ Len(page.candidates) \in Nat
    BY AnalysisAssumption DEF Init, Symbols
  <2> QED BY <2>1 DEF Init, CoverInv, Candidates
<1>2. TypeOK /\ page \in Pages /\ CoverInv /\ [Next]_vars => (page \in Pages /\ CoverInv)'
  <2> SUFFICES ASSUME TypeOK, page \in Pages, CoverInv, [Next]_vars PROVE page' \in Pages /\ CoverInv'
    OBVIOUS
  <2>1. CASE Detect
    <3> DEFINE x == page.candidates[next]
    <3>1. /\ stage = "pdf_extract" /\ stage' = stage /\ page' = page
          /\ next \in Candidates /\ next' = next + 1
          /\ kept' = IF Apart(x, kept) THEN Append(kept, x) ELSE kept
      BY <2>1 DEF Detect, MoreCandidates, Candidates, TypeOK
    <3>2. Candidates' = Candidates /\ \A c \in Candidates : page.candidates[c] \in BBox
      BY <3>1 DEF Candidates, TypeOK
    <3>3. \A c \in Candidates : next <= c => Area(page.candidates[c]) <= Area(x)
      <4>1. Area(x) \in Int
        BY <3>1, <3>2 DEF Area, BBox
      <4> QED BY <4>1, <3>1, AnalysisAssumption DEF Candidates, TypeOK
    <3>4. CASE ~Apart(x, kept)
      <4>1. kept' = kept /\ Symbols' = Symbols
        BY <3>1, <3>4 DEF Symbols
      <4>2. Covered(next)
        <5>1. PICK k \in Symbols : ~IouBelow(x, kept[k], IouDedupe)
          BY <3>4 DEF Apart, Symbols
        <5>2. Area(x) <= Area(kept[k])
          BY <3>1 DEF CoverInv, TypeOK
        <5> QED BY <5>1, <5>2 DEF Covered
      <4>3. \A c \in Candidates : c < next + 1 => Covered(c)
        BY <3>1, <4>2 DEF CoverInv, Candidates
      <4>4. \A c : Covered(c)' <=> Covered(c)
        BY <3>1, <4>1 DEF Covered
      <4>5. \A k \in Symbols, c \in Candidates : next + 1 <= c => Area(page.candidates[c]) <= Area(kept[k])
        BY <3>1 DEF CoverInv, Candidates
      <4> QED BY <3>1, <3>2, <4>1, <4>3, <4>4, <4>5 DEF CoverInv, Candidates
    <3>5. CASE Apart(x, kept)
      <4> DEFINE n == Len(kept) + 1
      <4>1. /\ kept' = Append(kept, x) /\ Symbols' = Symbols \cup {n} /\ n \notin Symbols
            /\ kept'[n] = x /\ \A k \in Symbols : kept'[k] = kept[k] /\ kept[k] \in BBox
        BY <3>1, <3>5 DEF Symbols, TypeOK
      <4> HIDE DEF n
      <4>2. \A i, j \in Symbols' : i # j => IouBelow(kept'[i], kept'[j], IouDedupe)
        <5>1. \A k \in Symbols : IouBelow(x, kept[k], IouDedupe)
          BY <3>5 DEF Apart, Symbols
        <5>2. \A k \in Symbols : IouBelow(kept[k], x, IouDedupe)
          BY <5>1, <4>1, <3>1, <3>2, OverlapIsSymmetric, AnalysisAssumption
        <5> QED BY <5>1, <5>2, <4>1 DEF CoverInv
      <4>3. \A k \in Symbols', c \in Candidates : next + 1 <= c => Area(page.candidates[c]) <= Area(kept'[k])
        <5> SUFFICES ASSUME NEW k \in Symbols', NEW c \in Candidates, next + 1 <= c
                     PROVE  Area(page.candidates[c]) <= Area(kept'[k])
          OBVIOUS
        <5>1. next <= c
          BY <3>1 DEF Candidates
        <5>2. CASE k = n
          BY <5>1, <5>2, <4>1, <3>3
        <5>3. CASE k # n
          BY <5>1, <5>3, <4>1, <3>1 DEF CoverInv
        <5> QED BY <5>2, <5>3
      <4>4. \A c \in Candidates : c < next + 1 => Covered(c)'
        <5> SUFFICES ASSUME NEW CONSTANT c \in Candidates, c < next + 1 PROVE Covered(c)'
          OBVIOUS
        <5>1. CASE c = next
          <6>1. kept'[n] = page'.candidates[c] /\ Area(page'.candidates[c]) <= Area(kept'[n])
            BY <5>1, <4>1, <3>1, <3>3 DEF Candidates
          <6> QED BY <6>1, <4>1 DEF Covered
        <5>2. CASE c < next
          <6>1. PICK k \in Symbols :
                  /\ kept[k] = page.candidates[c] \/ ~IouBelow(page.candidates[c], kept[k], IouDedupe)
                  /\ Area(page.candidates[c]) <= Area(kept[k])
            BY <5>2, <3>1 DEF CoverInv, Covered
          <6> QED BY <6>1, <4>1, <3>1 DEF Covered
        <5> QED BY <5>1, <5>2, <3>1 DEF Candidates
      <4>5. next' <= Len(page'.candidates) + 1
        BY <3>1 DEF Candidates, TypeOK
      <4>6. \A k \in Symbols', c \in Candidates' : next' <= c => Area(page'.candidates[c]) <= Area(kept'[k])
        BY <3>1, <3>2, <4>3
      <4>7. \A c \in Candidates' : c < next' => Covered(c)'
        BY <3>1, <3>2, <4>4
      <4> QED BY <3>1, <4>2, <4>5, <4>6, <4>7 DEF CoverInv
    <3> QED BY <3>1, <3>4, <3>5
  <2>2. ASSUME NEW o \in Orders, BeginOcr(o) PROVE page' \in Pages /\ CoverInv'
    <3>1. /\ stage = "pdf_extract" /\ stage' # "pdf_extract" /\ page' = page /\ kept' = kept
          /\ next > Len(page.candidates) \/ Len(kept) >= MaxSymbols
      BY <2>2, AnalysisAssumption DEF BeginOcr, MoreCandidates, TypeOK
    <3>2. \A c : Covered(c)' <=> Covered(c)
      BY <3>1 DEF Covered, Symbols
    <3>3. Len(kept) < MaxSymbols => \A c \in Candidates : Covered(c)
      BY <3>1, AnalysisAssumption DEF CoverInv, Candidates, TypeOK
    <3> QED BY <3>1, <3>2, <3>3 DEF CoverInv, Symbols, Candidates
  <2>3. CASE \/ Classify \/ Finish \/ UNCHANGED vars \/ (\E o \in Orders : BeginGraph(o))
             \/ (\E s \in Symbols : Connect(s)) \/ \E p \in left : Associate(p)
    <3>1. /\ page' = page /\ kept' = kept
          /\ \/ stage' = stage /\ (next' = next \/ stage # "pdf_extract")
             \/ stage # "pdf_extract" /\ stage' # "pdf_extract"
      BY <2>3 DEF Classify, Finish, vars, BeginGraph, Connect, Associate
    <3>2. \A c : Covered(c)' <=> Covered(c)
      BY <3>1 DEF Covered, Symbols
    <3>3. Symbols' = Symbols /\ Candidates' = Candidates
      BY <3>1 DEF Symbols, Candidates
    <3>4. CASE stage = "pdf_extract"
      BY <3>1, <3>2, <3>3, <3>4 DEF CoverInv
    <3>5. CASE stage # "pdf_extract"
      <4>1. stage' # "pdf_extract"
        BY <3>1, <3>5
      <4> QED BY <3>1, <3>2, <3>3, <3>5, <4>1 DEF CoverInv
    <3> QED BY <3>4, <3>5
  <2> QED BY <2>1, <2>2, <2>3 DEF Next
<1>3. TypeOK /\ CoverInv => SuppressionIsSound
  BY DEF TypeOK, CoverInv, SuppressionIsSound, Covered, Candidates
<1> QED BY <1>1, <1>2, <1>3, PageTypeCorrect, PTL DEF Spec

-----------------------------------------------------------------------------
(* Graph                                                                   *)

\* A set of numbers has a least one.
LEMMA LeastNatural ==
  ASSUME NEW T \in SUBSET Nat, T # {}
  PROVE  \E x \in T : \A y \in T : x <= y
<1>1. \E x \in T : \A y \in T : ~ (<<y, x>> \in OpToRel(<, Nat))
  BY NatLessThanWellFounded, WFMin, Zenon
<1>2. PICK x \in T : \A y \in T : ~ (<<y, x>> \in OpToRel(<, Nat))
  BY <1>1
<1>3. \A y \in T : ~(y < x)
  BY <1>2 DEF OpToRel
<1> QED BY <1>3

\* The gap between two symbols is a number, the same from both sides.
LEMMA GapIsSymmetric ==
  ASSUME TypeOK
  PROVE  \A s, d \in Symbols : Gap(s, d) \in Nat /\ Gap(s, d) = Gap(d, s)
<1> SUFFICES ASSUME NEW s \in Symbols, NEW d \in Symbols
             PROVE  Gap(s, d) \in Nat /\ Gap(s, d) = Gap(d, s)
  OBVIOUS
<1>1. kept[s] \in BBox /\ kept[d] \in BBox
  BY DEF TypeOK, Symbols
<1>2. Gap(s, d) = Gap(d, s)
  BY <1>1, DistanceIsSymmetric DEF Gap
<1>3. Gap(s, d) \in Nat
  <2> DEFINE dx == Centroid(kept[s]).x - Centroid(kept[d]).x
             dy == Centroid(kept[s]).y - Centroid(kept[d]).y
  <2>1. dx \in Int /\ dy \in Int
    BY <1>1, CentroidIsPoint DEF Point
  <2>2. Gap(s, d) = dx * dx + dy * dy
    BY DEF Gap, DistanceTo
  <2>3. \A i \in Int : i * i \in Nat
    OBVIOUS
  <2> HIDE DEF dx, dy
  <2>4. dx * dx \in Nat /\ dy * dy \in Nat
    BY <2>1, <2>3
  <2> QED BY <2>2, <2>4
<1> QED BY <1>2, <1>3

\* In any order of the list there is a nearest symbol, if there is another one.
LEMMA NearestExists ==
  ASSUME TypeOK, stage # "pdf_extract", Len(kept) > 1, NEW src \in Symbols
  PROVE  \E d \in Symbols : Nearest(src, d)
<1> DEFINE others == Symbols \ {src}
           gaps == {Gap(src, d) : d \in others}
<1>1. gaps \in SUBSET Nat
  BY GapIsSymmetric
<1>2. gaps # {}
  <2>1. 1 \in Symbols /\ 2 \in Symbols
    BY DEF TypeOK, Symbols
  <2> QED BY <2>1
<1>3. PICK g \in gaps : \A h \in gaps : g <= h
  BY <1>1, <1>2, LeastNatural
<1> DEFINE near == {d \in others : Gap(src, d) = g}
           places == {order[d] : d \in near}
<1>4. \A d \in Symbols : order[d] \in Nat
  BY DEF TypeOK, Orders, Symbols
<1>5. places \in SUBSET Nat /\ places # {}
  BY <1>3, <1>4
<1>6. PICK l \in places : \A m \in places : l <= m
  BY <1>5, LeastNatural
<1>7. PICK d \in near : order[d] = l
  BY <1>6
<1>8. \A e \in others : Gap(src, d) < Gap(src, e) \/ (Gap(src, d) = Gap(src, e) /\ order[d] <= order[e])
  <2> SUFFICES ASSUME NEW e \in others
               PROVE  Gap(src, d) < Gap(src, e) \/ (Gap(src, d) = Gap(src, e) /\ order[d] <= order[e])
    OBVIOUS
  <2>1. CASE Gap(src, e) = g
    BY <2>1, <1>6, <1>7
  <2>2. CASE Gap(src, e) # g
    <3>1. g <= Gap(src, e) /\ g \in Nat /\ Gap(src, e) \in Nat
      BY <1>1, <1>3
    <3> QED BY <3>1, <2>2, <1>7
  <2> QED BY <2>1, <2>2
<1> QED BY <1>7, <1>8 DEF Nearest

\* Two symbols are not both the first of the nearest.
LEMMA NearestIsUnique ==
  ASSUME TypeOK, stage # "pdf_extract", NEW src \in Symbols, NEW d \in Symbols, NEW e \in Symbols,
         Nearest(src, d), Nearest(src, e)
  PROVE  d = e
<1>1. Gap(src, d) \in Nat /\ Gap(src, e) \in Nat
  BY GapIsSymmetric
<1>2. order[d] \in Nat /\ order[e] \in Nat /\ (order[d] = order[e] => d = e)
  BY DEF TypeOK, Orders, Symbols
<1>3. d # src /\ e # src
  BY DEF Nearest
<1>4. Gap(src, d) < Gap(src, e) \/ (Gap(src, d) = Gap(src, e) /\ order[d] <= order[e])
  BY <1>3 DEF Nearest
<1>5. Gap(src, e) < Gap(src, d) \/ (Gap(src, e) = Gap(src, d) /\ order[e] <= order[d])
  BY <1>3 DEF Nearest
<1> QED BY <1>1, <1>2, <1>4, <1>5

EdgeOf(src, d) == [source |-> src, target |-> d, type |-> Relation[type[src]]]

HasRole(s) == type[s] \in DOMAIN Relation

\* Every edge is the one its source's type and place call for, and whoever the
\* loop has passed has his.
GraphInv ==
  /\ stage \notin {"graph", "finalize"} => edges = {}
  /\ \A e \in edges :
       /\ e.source \in Symbols /\ e.target \in Symbols
       /\ HasRole(e.source) /\ Nearest(e.source, e.target)
       /\ e = EdgeOf(e.source, e.target)
  /\ stage \in {"graph", "finalize"} /\ Len(kept) > 1 =>
       \A s \in Symbols : order[s] < next /\ HasRole(s) => \E e \in edges : e.source = s
  /\ stage = "finalize" => next > Len(kept)

\* inferrer.py:45: every symbol with a role has one edge, to the nearest other
\* one, and no three edges run in a circle, for any symbols in any order.
THEOREM InferredEdgesAreSound == Spec => []EdgesAreSound
<1>1. Init => GraphInv
  BY DEF Init, GraphInv
<1>2. TypeOK /\ GraphInv /\ [Next]_vars => GraphInv'
  <2> SUFFICES ASSUME TypeOK, GraphInv, [Next]_vars PROVE GraphInv'
    OBVIOUS
  <2>1. CASE Detect \/ (\E o \in Orders : BeginOcr(o)) \/ (\E p \in left : Associate(p)) \/ Classify
    <3>1. edges' = {} /\ stage' \notin {"graph", "finalize"}
      BY <2>1 DEF Detect, BeginOcr, Associate, Classify, GraphInv
    <3> QED BY <3>1 DEF GraphInv
  <2>2. ASSUME NEW o \in Orders, BeginGraph(o) PROVE GraphInv'
    <3>1. edges' = {} /\ next' = 1 /\ order' = o /\ kept' = kept /\ stage' = "graph"
      BY <2>2 DEF BeginGraph, GraphInv
    <3>2. \A s \in Symbols' : ~(order'[s] < next')
      BY <3>1 DEF Orders, Symbols
    <3> QED BY <3>1, <3>2 DEF GraphInv
  <2>3. ASSUME NEW CONSTANT src \in Symbols, Connect(src) PROVE GraphInv'
    <3> DEFINE new == {EdgeOf(src, d) : d \in {d \in Symbols : HasRole(src) /\ Nearest(src, d)}}
    <3>1. /\ stage = "graph" /\ stage' = "graph" /\ order[src] = next /\ next' = next + 1
          /\ edges' = edges \cup new
          /\ kept' = kept /\ order' = order /\ type' = type /\ Symbols' = Symbols
      BY <2>3 DEF Connect, EdgeOf, HasRole, Symbols
    <3>2. \A s, d : (Nearest(s, d)' <=> Nearest(s, d)) /\ EdgeOf(s, d)' = EdgeOf(s, d) /\ (HasRole(s)' <=> HasRole(s))
      BY <3>1 DEF Nearest, Gap, EdgeOf, HasRole
    <3>3. \A e \in edges' :
            /\ e.source \in Symbols /\ e.target \in Symbols
            /\ HasRole(e.source) /\ Nearest(e.source, e.target)
            /\ e = EdgeOf(e.source, e.target)
      <4> SUFFICES ASSUME NEW e \in new
                   PROVE  /\ e.source \in Symbols /\ e.target \in Symbols
                          /\ HasRole(e.source) /\ Nearest(e.source, e.target)
                          /\ e = EdgeOf(e.source, e.target)
        BY <3>1 DEF GraphInv
      <4>1. PICK d \in Symbols : HasRole(src) /\ Nearest(src, d) /\ e = EdgeOf(src, d)
        OBVIOUS
      <4>2. e.source = src /\ e.target = d
        BY <4>1 DEF EdgeOf
      <4> QED BY <4>1, <4>2
    <3>4. ASSUME Len(kept) > 1, NEW CONSTANT s \in Symbols, order[s] < next + 1, HasRole(s)
          PROVE  \E e \in edges' : e.source = s
      <4>1. CASE s = src
        <5>1. PICK d \in Symbols : Nearest(src, d)
          BY <3>1, <3>4, NearestExists
        <5>2. EdgeOf(src, d) \in edges' /\ EdgeOf(src, d).source = src
          BY <5>1, <4>1, <3>4, <3>1 DEF EdgeOf
        <5> QED BY <5>2, <4>1
      <4>2. CASE s # src
        <5>1. order[s] # order[src] /\ order[s] \in Nat /\ next \in Nat
          BY <4>2, <3>1 DEF TypeOK, Orders, Symbols
        <5>2. order[s] < next
          BY <5>1, <3>1, <3>4
        <5> QED BY <5>2, <3>1, <3>4 DEF GraphInv
      <4> QED BY <4>1, <4>2
    <3>5. \A e \in edges' :
            /\ e.source \in Symbols' /\ e.target \in Symbols'
            /\ HasRole(e.source)' /\ Nearest(e.source, e.target)'
            /\ e = EdgeOf(e.source, e.target)'
      BY <3>1, <3>2, <3>3
    <3>6. Len(kept') > 1 => \A s \in Symbols' : order'[s] < next' /\ HasRole(s)' => \E e \in edges' : e.source = s
      BY <3>1, <3>2, <3>4
    <3> QED BY <3>1, <3>5, <3>6 DEF GraphInv
  <2>4. CASE Finish \/ UNCHANGED vars
    <3>1. /\ edges' = edges /\ next' = next /\ kept' = kept /\ order' = order /\ type' = type
          /\ stage' = stage \/ (stage = "graph" /\ next > Len(kept) /\ stage' = "finalize")
      BY <2>4 DEF Finish, vars
    <3>2. \A s, d : (Nearest(s, d)' <=> Nearest(s, d)) /\ EdgeOf(s, d)' = EdgeOf(s, d) /\ (HasRole(s)' <=> HasRole(s))
      BY <3>1 DEF Nearest, Gap, EdgeOf, HasRole, Symbols
    <3> QED BY <3>1, <3>2 DEF GraphInv, Symbols
  <2> QED BY <2>1, <2>2, <2>3, <2>4 DEF Next
<1>3. TypeOK /\ GraphInv => RolesHaveEdges
  <2> SUFFICES ASSUME TypeOK, GraphInv PROVE RolesHaveEdges
    OBVIOUS
  <2>1. \A e, f \in edges : e.source = f.source => e = f
    <3> SUFFICES ASSUME NEW e \in edges, NEW f \in edges, e.source = f.source PROVE e = f
      OBVIOUS
    <3>1. stage # "pdf_extract"
      BY DEF GraphInv
    <3>2. e.target = f.target
      BY <3>1, NearestIsUnique DEF GraphInv
    <3> QED BY <3>2 DEF GraphInv
  <2>2. ASSUME stage = "finalize", Len(kept) > 1, NEW s \in Symbols
        PROVE  (\E e \in edges : e.source = s) <=> HasRole(s)
    <3>1. order[s] < next
      BY <2>2 DEF GraphInv, TypeOK, Orders, Symbols
    <3> QED BY <2>2, <3>1 DEF GraphInv
  <2> QED BY <2>1, <2>2 DEF RolesHaveEdges, HasRole
<1>4. TypeOK /\ GraphInv => NoTriangles
  <2> SUFFICES ASSUME TypeOK, GraphInv, NEW a \in Symbols, NEW b \in Symbols, NEW c \in Symbols,
                      \A p \in {<<a, b>>, <<b, c>>, <<c, a>>} : \E e \in edges : e.source = p[1] /\ e.target = p[2],
                      a # c
               PROVE  FALSE
    BY DEF NoTriangles
  <2>1. Nearest(a, b) /\ Nearest(b, c) /\ Nearest(c, a) /\ stage # "pdf_extract"
    BY DEF GraphInv
  <2>2. a # b /\ b # c
    BY <2>1 DEF Nearest
  <2>3. /\ Gap(a, b) \in Nat /\ Gap(b, c) \in Nat /\ Gap(c, a) \in Nat
        /\ Gap(a, c) = Gap(c, a) /\ Gap(b, a) = Gap(a, b) /\ Gap(c, b) = Gap(b, c)
    BY GapIsSymmetric
  <2>4. /\ Gap(a, b) < Gap(a, c) \/ (Gap(a, b) = Gap(a, c) /\ order[b] <= order[c])
        /\ Gap(b, c) < Gap(b, a) \/ (Gap(b, c) = Gap(b, a) /\ order[c] <= order[a])
        /\ Gap(c, a) < Gap(c, b) \/ (Gap(c, a) = Gap(c, b) /\ order[a] <= order[b])
    BY <2>1, <2>2 DEF Nearest
  <2>5. /\ order[a] \in Nat /\ order[b] \in Nat /\ order[c] \in Nat
        /\ order[a] # order[b] /\ order[b] # order[c] /\ order[a] # order[c]
    BY <2>1, <2>2 DEF TypeOK, Orders, Symbols
  <2> QED BY <2>3, <2>4, <2>5
<1>5. TypeOK /\ GraphInv => EdgesAreSound
  BY <1>3, <1>4 DEF EdgesAreSound
<1> QED BY <1>1, <1>2, <1>5, PageTypeCorrect, PTL DEF Spec

-----------------------------------------------------------------------------
(* Neighbours                                                              *)

\* What the traversal has after k hops, from what f has after the hops before;
\* f is the traversal when it is that everywhere.
Hops(f, start, k) == IF k = 0 THEN {start} ELSE f[k - 1] \cup Across(f[k - 1])
IsWithin(f, start, depth) == f = [k \in 0 .. depth |-> Hops(f, start, k)]

LEMMA ReachableIsWithin ==
  ASSUME NEW s, NEW depth \in Nat
  PROVE  Reachable(s, depth) = (CHOOSE f : IsWithin(f, s, depth))[depth]
BY DEF Reachable, IsWithin, Hops

\* There is a traversal of any depth: of the depths that had none, the least
\* would be one more than that of a traversal that goes a hop on.
LEMMA WithinExists ==
  ASSUME NEW s, NEW depth \in Nat
  PROVE  \E f : IsWithin(f, s, depth)
<1> DEFINE bad == {d \in Nat : ~\E f : IsWithin(f, s, d)}
<1> SUFFICES ASSUME bad # {} PROVE FALSE
  OBVIOUS
<1>1. PICK d \in bad : \A y \in bad : d <= y
  <2>1. bad \in SUBSET Nat
    OBVIOUS
  <2> HIDE DEF bad
  <2> QED BY <2>1, LeastNatural
<1>2. d # 0
  <2> SUFFICES ASSUME d = 0 PROVE FALSE
    OBVIOUS
  <2> DEFINE f == [k \in 0 .. 0 |-> {s}]
  <2>1. IsWithin(f, s, 0)
    <3>1. \A k \in 0 .. 0 : Hops(f, s, k) = {s}
      BY DEF Hops
    <3> QED BY <3>1 DEF IsWithin
  <2> QED BY <2>1
<1>3. d - 1 \in Nat /\ d - 1 \notin bad
  BY <1>1, <1>2
<1>4. PICK f : IsWithin(f, s, d - 1)
  BY <1>3
<1> DEFINE g == [k \in 0 .. d |-> IF k = d THEN f[d - 1] \cup Across(f[d - 1]) ELSE f[k]]
<1>5. ASSUME NEW k \in 0 .. d PROVE g[k] = Hops(g, s, k)
  <2>1. CASE k = d
    <3>1. g[k] = f[d - 1] \cup Across(f[d - 1]) /\ g[d - 1] = f[d - 1]
      BY <1>3, <2>1
    <3> QED BY <1>2, <2>1, <3>1 DEF Hops
  <2>2. CASE k # d
    <3>1. k \in 0 .. (d - 1) /\ g[k] = f[k]
      BY <1>3, <2>2
    <3>2. f[k] = Hops(f, s, k)
      BY <1>4, <3>1 DEF IsWithin
    <3>3. k # 0 => g[k - 1] = f[k - 1]
      BY <1>3, <3>1
    <3> QED BY <3>1, <3>2, <3>3 DEF Hops
  <2> QED BY <2>1, <2>2
<1>6. IsWithin(g, s, d)
  <2>1. g = [k \in 0 .. d |-> g[k]]
    OBVIOUS
  <2> HIDE DEF g
  <2> QED BY <1>5, <2>1 DEF IsWithin
<1> QED BY <1>1, <1>6

\* Traversals agree on the hops that both make.
LEMMA WithinAgree ==
  ASSUME NEW s, NEW c \in Nat, NEW d \in Nat, c <= d,
         NEW f, IsWithin(f, s, c), NEW g, IsWithin(g, s, d)
  PROVE  f[c] = g[c]
<1> DEFINE bad == {k \in 0 .. c : f[k] # g[k]}
<1> SUFFICES ASSUME bad # {} PROVE FALSE
  OBVIOUS
<1>1. PICK k \in bad : \A y \in bad : k <= y
  <2>1. bad \in SUBSET Nat
    OBVIOUS
  <2> HIDE DEF bad
  <2> QED BY <2>1, LeastNatural
<1>2. k \in 0 .. c /\ k \in 0 .. d
  BY <1>1
<1>3. f[k] = Hops(f, s, k) /\ g[k] = Hops(g, s, k)
  BY <1>2 DEF IsWithin
<1>4. k # 0 => f[k - 1] = g[k - 1]
  <2> SUFFICES ASSUME k # 0 PROVE f[k - 1] = g[k - 1]
    OBVIOUS
  <2>1. k - 1 \in 0 .. c /\ k - 1 \notin bad
    BY <1>1, <1>2
  <2> QED BY <2>1
<1>5. f[k] = g[k]
  BY <1>3, <1>4 DEF Hops
<1> QED BY <1>1, <1>5

\* One more hop adds what is an edge away.
LEMMA ReachableGrows ==
  ASSUME NEW s, NEW depth \in Nat
  PROVE  /\ Reachable(s, 0) = {s}
         /\ Reachable(s, depth + 1) = Reachable(s, depth) \cup Across(Reachable(s, depth))
<1>1. ASSUME NEW d \in Nat
      PROVE  \E f : /\ Reachable(s, d) = f[d]
                    /\ IsWithin(f, s, d)
                    /\ \A k \in 0 .. d : f[k] = Hops(f, s, k)
  <2>1. \A f : IsWithin(f, s, d) => \A k \in 0 .. d : f[k] = Hops(f, s, k)
    BY DEF IsWithin
  <2>2. \E f : IsWithin(f, s, d) /\ Reachable(s, d) = f[d]
    BY WithinExists, ReachableIsWithin
  <2> QED BY <2>1, <2>2
<1>2. Reachable(s, 0) = {s}
  <2>1. PICK f : Reachable(s, 0) = f[0] /\ \A k \in 0 .. 0 : f[k] = Hops(f, s, k)
    BY <1>1
  <2> QED BY <2>1 DEF Hops
<1>3. PICK f : Reachable(s, depth) = f[depth] /\ IsWithin(f, s, depth)
  BY <1>1
<1>4. PICK g : /\ Reachable(s, depth + 1) = g[depth + 1] /\ IsWithin(g, s, depth + 1)
               /\ \A k \in 0 .. (depth + 1) : g[k] = Hops(g, s, k)
  BY <1>1
<1>5. g[depth + 1] = g[depth] \cup Across(g[depth])
  <2>1. /\ depth + 1 \in 0 .. (depth + 1) /\ depth + 1 # 0 /\ (depth + 1) - 1 = depth
    OBVIOUS
  <2> QED BY <1>4, <2>1 DEF Hops
<1>6. f[depth] = g[depth]
  BY <1>3, <1>4, WithinAgree
<1> QED BY <1>2, <1>3, <1>4, <1>5, <1>6

\* Of any graph, for any depth, more hops lose no edge, and the query for one
\* hop answers what the one for several would have bounded.
THEOREM HopsNest == Spec => []NeighboursNest
<1>1. ASSUME NEW s, NEW depth \in Nat \ {0}
      PROVE  /\ Neighbours(s, depth) \subseteq Neighbours(s, depth + 1)
             /\ \A e \in Neighbours(s, depth) :
                  e.source \in Reachable(s, depth) /\ e.target \in Reachable(s, depth)
  <2>1. Reachable(s, depth) \subseteq Reachable(s, depth + 1)
    BY ReachableGrows
  <2>2. /\ depth + 1 > 1 /\ 0 \in Nat /\ 0 + 1 = 1
        /\ Neighbours(s, depth + 1) = {e \in edges : {e.source, e.target} \subseteq Reachable(s, depth + 1)}
    BY DEF Neighbours
  <2>3. \A e \in Neighbours(s, depth) :
          e \in edges /\ e.source \in Reachable(s, depth) /\ e.target \in Reachable(s, depth)
    <3>1. CASE depth = 1
      <4>1. Reachable(s, 1) = {s} \cup Across({s})
        BY <2>2, ReachableGrows
      <4>2. Neighbours(s, 1) = {e \in edges : s \in {e.source, e.target}}
        BY DEF Neighbours
      <4> QED BY <3>1, <4>1, <4>2 DEF Across
    <3>2. CASE depth # 1
      BY <3>2 DEF Neighbours
    <3> QED BY <3>1, <3>2
  <2> QED BY <2>1, <2>2, <2>3
<1>2. NeighboursNest
  BY <1>1, AnalysisAssumption DEF NeighboursNest
<1> QED BY <1>2, PTL
=============================================================================
