-------------------------- MODULE Artifacts_proofs ---------------------------
(***************************************************************************)
(* What a document's tables look like, for any workers, users and bounds.  *)
(***************************************************************************)
EXTENDS Artifacts, TLAPS

\* An edge is not taken for a symbol: their columns differ.
LEMMA EdgesAreNoSymbols == \A x \in SymbolRow : x \notin EdgeRow
<1> SUFFICES ASSUME NEW x \in SymbolRow, x \in EdgeRow
             PROVE  FALSE
  OBVIOUS
<1>1. DOMAIN x = {"run", "item"}
  BY DEF SymbolRow
<1>2. DOMAIN x = {"run", "source", "target"}
  BY DEF EdgeRow
<1> QED
  BY <1>1, <1>2

-----------------------------------------------------------------------------
(* Types                                                                   *)

\* What a rebuild infers are edges between listed symbols.
LEMMA InferredType ==
  ASSUME NEW run \in Nat, NEW S \in SUBSET SymbolRow, NEW new \in Inferred(run, S)
  PROVE  /\ new \in SUBSET EdgeRow
         /\ \A e \in new : e.run = run
         /\ \A e, f \in new : e.source = f.source => e = f
<1> DEFINE Others(s) == {t \in S \ {s} : PageOf[t.item] = PageOf[s.item]}
           sources == {s \in S : s.item \in Roles /\ Others(s) # {}}
<1>1. PICK nearest \in [sources -> S] :
        new = {[run |-> run, source |-> s, target |-> nearest[s]] : s \in sources}
  BY DEF Inferred
<1>2. \A s \in sources : s \in SymbolRow /\ nearest[s] \in SymbolRow
  BY <1>1
<1> QED
  BY <1>1, <1>2 DEF EdgeRow

\* The end of a handler keeps its types and lets go of what it had deleted.
LEMMA FinishType ==
  ASSUME TypeOK, NEW w \in Workers, Finish(w)
  PROVE  /\ task' \in [Stages -> {"none", "pending", "running", "dead"}]
         /\ stage' \in [Workers -> Stages \cup {None}]
         /\ step' \in [Workers -> {"idle", "edges", "symbols", "pages", "list", "save"}]
         /\ scanned' \in [Workers -> (SUBSET Row) \cup {None}]
         /\ listed' \in [Workers -> SUBSET SymbolRow]
         /\ gone' = [gone EXCEPT ![w] = {}]
         /\ UNCHANGED <<wish, wishes, requests, overlapped>>
         /\ \A v \in Workers :
              stage'[v] = None => step'[v] = "idle" /\ scanned'[v] = None /\ gone'[v] = {}
<1>1. task' \in [Stages -> {"none", "pending", "running", "dead"}]
  BY DEF TypeOK, Finish, Stages
<1> QED
  BY <1>1 DEF TypeOK, Finish, Rest

\* What others hold is still there when somebody takes away the rows in `rows`,
\* which nobody else holds.
LEMMA HeldStays ==
  ASSUME TypeOK, DeletesAreExclusive, NEW w \in Workers, gone' = [gone EXCEPT ![w] = {}],
         pages \ gone[w] \subseteq pages', symbols \ gone[w] \subseteq symbols',
         edges \ gone[w] \subseteq edges'
  PROVE  gone' \in [Workers -> SUBSET (pages' \cup symbols' \cup edges')]
<1>1. ASSUME NEW v \in Workers, NEW r \in gone'[v]
      PROVE  r \in pages' \cup symbols' \cup edges'
  <2>1. v # w /\ r \in gone[v]
    BY <1>1 DEF TypeOK
  <2>2. r \in pages \cup symbols \cup edges
    BY <2>1 DEF TypeOK
  <2>3. r \notin gone[w]
    BY <2>1 DEF DeletesAreExclusive
  <2> QED
    BY <2>2, <2>3
<1>2. gone' = [v \in Workers |-> IF v = w THEN {} ELSE gone[v]]
  BY DEF TypeOK
<1>3. ASSUME NEW v \in Workers
      PROVE  gone'[v] \in SUBSET (pages' \cup symbols' \cup edges')
  BY <1>1
<1> QED
  BY <1>2, <1>3

LEMMA TypeStep == TypeOK /\ DeletesAreExclusive /\ [Next]_vars => TypeOK'
<1> SUFFICES ASSUME TypeOK, DeletesAreExclusive, [Next]_vars
             PROVE  TypeOK'
  OBVIOUS
<1>1. ASSUME NEW w \in Workers, NEW s \in Stages, Begin(w, s)
      PROVE  TypeOK'
  <2>1. FirstStep[s] \in {"edges", "list"}
    BY DEF FirstStep, Stages
  <2>2. s # None
    BY ArtifactsAssumption DEF Stages
  <2>3. \A v \in Workers : stage'[v] = None => step'[v] = "idle" /\ scanned'[v] = None /\ gone'[v] = {}
    BY <1>1, <2>2 DEF Begin, TypeOK
  <2>4. UNCHANGED <<tables, scanned, gone, listed, wish, wishes, requests, runs>>
    BY <1>1 DEF Begin
  <2>5. /\ task' \in [Stages -> {"none", "pending", "running", "dead"}]
        /\ stage' \in [Workers -> Stages \cup {None}]
        /\ step' \in [Workers -> {"idle", "edges", "symbols", "pages", "list", "save"}]
        /\ overlapped' \in BOOLEAN
    BY <1>1, <2>1 DEF Begin, TypeOK
  <2> QED
    BY <2>3, <2>4, <2>5 DEF TypeOK, tables
<1>2. ASSUME NEW w \in Workers, Scan(w)
      PROVE  TypeOK'
  <2>1. pages \in SUBSET Row /\ symbols \in SUBSET Row /\ edges \in SUBSET Row
    BY DEF TypeOK, Row
  <2>2. scanned' \in [Workers -> (SUBSET Row) \cup {None}]
    BY <1>2, <2>1 DEF Scan, TypeOK
  <2>3. stage[w] # None
    BY <1>2 DEF Scan, TypeOK
  <2>4. \A v \in Workers : stage'[v] = None => step'[v] = "idle" /\ scanned'[v] = None /\ gone'[v] = {}
    BY <1>2, <2>3 DEF Scan, TypeOK
  <2> QED
    BY <1>2, <2>2, <2>4 DEF Scan, TypeOK, tables
<1>3. ASSUME NEW w \in Workers, Delete(w)
      PROVE  TypeOK'
  <2>1. StepAfter(stage[w], step[w]) \in {"symbols", "pages", "list", "save"}
    BY DEF StepAfter
  <2>2. scanned[w] \cap (pages \cup symbols \cup edges) \subseteq pages \cup symbols \cup edges
    OBVIOUS
  <2>3. Cascade(scanned[w] \cap (pages \cup symbols \cup edges)) \subseteq edges
    BY DEF Cascade
  <2>4. gone' \in [Workers -> SUBSET (pages \cup symbols \cup edges)]
    BY <1>3, <2>2, <2>3 DEF Delete, TypeOK
  <2>5. stage[w] # None
    BY <1>3 DEF Delete, TypeOK
  <2>6. \A v \in Workers : stage'[v] = None => step'[v] = "idle" /\ scanned'[v] = None /\ gone'[v] = {}
    BY <1>3, <2>5 DEF Delete, TypeOK
  <2>7. scanned' \in [Workers -> (SUBSET Row) \cup {None}]
    BY <1>3 DEF Delete, TypeOK
  <2>8. step' \in [Workers -> {"idle", "edges", "symbols", "pages", "list", "save"}]
    BY <1>3, <2>1 DEF Delete, TypeOK
  <2>9. UNCHANGED <<tables, task, stage, listed, wish, wishes, requests, runs, overlapped>>
    BY <1>3 DEF Delete
  <2> QED
    BY <2>4, <2>6, <2>7, <2>8, <2>9 DEF TypeOK, tables
<1>4. ASSUME NEW w \in Workers, List(w)
      PROVE  TypeOK'
  <2>1. stage[w] # None
    BY <1>4 DEF List, TypeOK
  <2> QED
    BY <1>4, <2>1 DEF List, TypeOK, tables
<1>5. ASSUME NEW w \in Workers, SaveExtract(w)
      PROVE  TypeOK'
  <2>1. /\ runs' \in Nat
        /\ pages' \in SUBSET PageRow /\ symbols' \in SUBSET SymbolRow
        /\ edges' \in SUBSET EdgeRow /\ embedded' \in SUBSET SymbolRow
    BY <1>5 DEF SaveExtract, TypeOK, PageRow, SymbolRow
  <2>2. Finish(w)
    BY <1>5 DEF SaveExtract
  <2>3. gone' \in [Workers -> SUBSET (pages' \cup symbols' \cup edges')]
    BY <1>5, <2>2, FinishType, HeldStays DEF SaveExtract
  <2> QED
    BY <2>1, <2>2, <2>3, FinishType DEF TypeOK
<1>6. ASSUME NEW w \in Workers, SaveEmbed(w)
      PROVE  TypeOK'
  <2>1. UNCHANGED <<pages, symbols, edges, runs>> /\ embedded' \in SUBSET SymbolRow
    BY <1>6 DEF SaveEmbed, TypeOK
  <2>2. Finish(w)
    BY <1>6 DEF SaveEmbed
  <2>3. gone' \in [Workers -> SUBSET (pages' \cup symbols' \cup edges')]
    BY <2>1, <2>2, FinishType, HeldStays
  <2> QED
    BY <2>1, <2>2, <2>3, FinishType DEF TypeOK
<1>7. ASSUME NEW w \in Workers, SaveGraph(w)
      PROVE  TypeOK'
  <2>1. PICK new \in Inferred(runs + 1, listed[w]) : edges' = (edges \ gone[w]) \cup new
    BY <1>7 DEF SaveGraph
  <2>2. new \in SUBSET EdgeRow
    BY <2>1, InferredType DEF TypeOK
  <2>3. /\ UNCHANGED <<pages, symbols, embedded>> /\ runs' \in Nat /\ edges' \in SUBSET EdgeRow
        /\ Finish(w)
    BY <1>7, <2>1, <2>2 DEF SaveGraph, TypeOK
  <2>4. gone' \in [Workers -> SUBSET (pages' \cup symbols' \cup edges')]
    BY <2>1, <2>3, FinishType, HeldStays
  <2> QED
    BY <2>3, <2>4, FinishType DEF TypeOK
<1>8. ASSUME NEW w \in Workers, Abort(w)
      PROVE  TypeOK'
  <2>1. task' \in [Stages -> {"none", "pending", "running", "dead"}]
    BY <1>8 DEF Abort, TypeOK
  <2> QED
    BY <1>8, <2>1 DEF Abort, Rest, TypeOK, tables
<1>9. ASSUME NEW w \in Workers, Expire(w)
      PROVE  TypeOK'
  BY <1>9 DEF Expire, TypeOK, tables, workerVars
<1>10. CASE AskReprocess \/ Reprocess
  BY <1>10 DEF AskReprocess, Reprocess, TypeOK, tables, workerVars, Stages
<1>11. ASSUME NEW u \in Users, UserStep(u)
       PROVE  TypeOK'
  <2>1. ASSUME NEW s \in symbols, NEW t \in symbols, AskEdge(u, s, t)
        PROVE  TypeOK'
    <3>1. [act |-> "add", edge |-> [run |-> 0, source |-> s, target |-> t]] \in Wish
      BY DEF TypeOK, Wish, UserEdge
    <3> QED
      BY <2>1, <3>1 DEF AskEdge, TypeOK, tables, workerVars
  <2>2. ASSUME NEW e \in edges, AskDelete(u, e)
        PROVE  TypeOK'
    <3>1. [act |-> "delete", edge |-> e] \in Wish
      BY DEF TypeOK, Wish
    <3> QED
      BY <2>2, <3>1 DEF AskDelete, TypeOK, tables, workerVars
  <2>3. CASE AddEdge(u)
    <3>1. wish[u].edge \in EdgeRow
      BY <2>3 DEF AddEdge, TypeOK, Wish, UserEdge, EdgeRow
    <3> QED
      BY <2>3, <3>1 DEF AddEdge, TypeOK, workerVars
  <2>4. CASE DeleteEdge(u)
    <3>1. \A v \in Workers : wish[u].edge \notin gone[v]
      BY <2>4, ArtifactsAssumption DEF DeleteEdge, Held
    <3>2. gone' \in [Workers -> SUBSET (pages' \cup symbols' \cup edges')]
      BY <2>4, <3>1 DEF DeleteEdge, TypeOK, workerVars
    <3> QED
      BY <2>4, <3>2 DEF DeleteEdge, TypeOK, workerVars
  <2>5. CASE Refuse(u)
    BY <2>5 DEF Refuse, TypeOK, tables, workerVars
  <2> QED
    BY <1>11, <2>1, <2>2, <2>3, <2>4, <2>5 DEF UserStep
<1>12. CASE UNCHANGED vars
  BY <1>12 DEF TypeOK, vars, tables, workerVars
<1> QED
  BY <1>1, <1>2, <1>3, <1>4, <1>5, <1>6, <1>7, <1>8, <1>9, <1>10, <1>11, <1>12 DEF Next, WorkerStep

-----------------------------------------------------------------------------
(* What concurrent transactions cannot break                               *)
(*                                                                         *)
(* An edge whose symbol a transaction has deleted is deleted by the same   *)
(* transaction, and nobody inserts another one while it is under way.      *)

CascadeInv ==
  \A w \in Workers, e \in edges :
    e.source \in gone[w] \/ e.target \in gone[w] => e \in gone[w]

TablesInv == DeletesAreExclusive /\ CascadeInv /\ NothingDangles /\ PagesOfOneRun

\* A step that touches neither what is deleted nor the tables.
LEMMA TablesFrame ==
  ASSUME TablesInv, UNCHANGED <<pages, symbols, edges, embedded, gone>>
  PROVE  TablesInv'
BY DEF TablesInv, DeletesAreExclusive, CascadeInv, NothingDangles, PagesOfOneRun

\* What is deleted by the transaction that commits is exclusively its own.
LEMMA FinishExclusive ==
  ASSUME TypeOK, DeletesAreExclusive, NEW w \in Workers, gone' = [gone EXCEPT ![w] = {}]
  PROVE  DeletesAreExclusive'
BY DEF TypeOK, DeletesAreExclusive

LEMMA TablesStep == TypeOK /\ TablesInv /\ [Next]_vars => TablesInv'
<1> SUFFICES ASSUME TypeOK, TablesInv, [Next]_vars
             PROVE  TablesInv'
  OBVIOUS
<1> USE DEF TablesInv
<1>1. ASSUME NEW w \in Workers, (\E s \in Stages : Begin(w, s)) \/ Scan(w) \/ List(w) \/ Expire(w)
      PROVE  TablesInv'
  BY <1>1, TablesFrame DEF Begin, Scan, List, Expire, tables, workerVars
<1>2. ASSUME NEW w \in Workers, Delete(w)
      PROVE  TablesInv'
  <2> DEFINE hit == scanned[w] \cap (pages \cup symbols \cup edges)
             dropped == hit \cup Cascade(hit)
  <2>1. /\ dropped \cap Held(w) = {} /\ gone' = [gone EXCEPT ![w] = @ \cup dropped]
        /\ UNCHANGED <<pages, symbols, edges, embedded>>
    BY <1>2 DEF Delete, tables
  <2>2. gone'[w] = gone[w] \cup dropped /\ \A v \in Workers \ {w} : gone'[v] = gone[v]
    BY <2>1 DEF TypeOK
  <2>3. DeletesAreExclusive'
    <3>1. \A v \in Workers \ {w} : gone[v] \cap dropped = {}
      BY <2>1 DEF Held
    <3> QED
      BY <2>2, <3>1 DEF DeletesAreExclusive
  <2>4. CascadeInv'
    <3>1. ASSUME NEW e \in edges, e.source \in gone'[w] \/ e.target \in gone'[w]
          PROVE  e \in gone'[w]
      <4>1. e.source \in SymbolRow /\ e.target \in SymbolRow
        BY DEF TypeOK, EdgeRow
      <4>2. e.source \notin Cascade(hit) /\ e.target \notin Cascade(hit)
        BY <4>1, EdgesAreNoSymbols DEF Cascade, TypeOK
      <4>3. CASE e.source \in hit \/ e.target \in hit
        BY <2>2, <4>3 DEF Cascade
      <4>4. CASE e.source \in gone[w] \/ e.target \in gone[w]
        BY <2>2, <4>4 DEF CascadeInv
      <4> QED
        BY <2>2, <3>1, <4>2, <4>3, <4>4
    <3> QED
      BY <2>1, <2>2, <3>1 DEF CascadeInv
  <2> QED
    BY <2>1, <2>3, <2>4 DEF NothingDangles, PagesOfOneRun
<1>3. ASSUME NEW w \in Workers, SaveExtract(w)
      PROVE  TablesInv'
  <2>1. gone' = [gone EXCEPT ![w] = {}]
    BY <1>3 DEF SaveExtract, Finish, Rest
  <2>2. DeletesAreExclusive'
    BY <2>1, FinishExclusive
  <2>3. /\ edges' = edges \ gone[w] /\ embedded' = embedded \ gone[w]
        /\ symbols \ gone[w] \subseteq symbols'
        /\ pages' = (pages \ gone[w]) \cup {[run |-> runs + 1, page |-> p] : p \in Pages}
        /\ pages \subseteq gone[w]
    BY <1>3 DEF SaveExtract
  <2>4. CascadeInv'
    BY <2>1, <2>3 DEF CascadeInv, TypeOK
  <2>5. NothingDangles'
    BY <2>3 DEF NothingDangles, CascadeInv
  <2>6. PagesOfOneRun'
    <3>1. \A p \in pages' : p.run = runs + 1
      BY <2>3
    <3> QED
      BY <3>1 DEF PagesOfOneRun
  <2> QED
    BY <2>2, <2>4, <2>5, <2>6
<1>4. ASSUME NEW w \in Workers, SaveEmbed(w)
      PROVE  TablesInv'
  <2>1. gone' = [gone EXCEPT ![w] = {}]
    BY <1>4 DEF SaveEmbed, Finish, Rest
  <2>2. DeletesAreExclusive'
    BY <2>1, FinishExclusive
  <2>3. /\ UNCHANGED <<pages, symbols, edges>>
        /\ embedded' = embedded \cup listed[w] /\ listed[w] \subseteq symbols
    BY <1>4 DEF SaveEmbed
  <2> QED
    BY <2>1, <2>2, <2>3 DEF CascadeInv, NothingDangles, PagesOfOneRun, TypeOK
<1>5. ASSUME NEW w \in Workers, SaveGraph(w)
      PROVE  TablesInv'
  <2>1. gone' = [gone EXCEPT ![w] = {}]
    BY <1>5 DEF SaveGraph, Finish, Rest
  <2>2. DeletesAreExclusive'
    BY <2>1, FinishExclusive
  <2>3. PICK new \in Inferred(runs + 1, listed[w]) :
          /\ \A e \in new : {e.source, e.target} \subseteq symbols \ Held(w)
          /\ edges' = (edges \ gone[w]) \cup new
    BY <1>5 DEF SaveGraph
  <2>4. UNCHANGED <<pages, symbols, embedded>>
    BY <1>5 DEF SaveGraph
  <2>5. \A v \in Workers \ {w} : gone'[v] = gone[v] /\ gone[v] \subseteq Held(w)
    BY <2>1 DEF TypeOK, Held
  <2>6. CascadeInv'
    BY <2>1, <2>3, <2>5 DEF CascadeInv, TypeOK
  <2>7. NothingDangles'
    BY <2>3, <2>4 DEF NothingDangles
  <2> QED
    BY <2>2, <2>4, <2>6, <2>7 DEF PagesOfOneRun
<1>6. ASSUME NEW w \in Workers, Abort(w)
      PROVE  TablesInv'
  <2>1. gone' = [gone EXCEPT ![w] = {}] /\ UNCHANGED <<pages, symbols, edges, embedded>>
    BY <1>6 DEF Abort, Rest, tables
  <2>2. DeletesAreExclusive'
    BY <2>1, FinishExclusive
  <2> QED
    BY <2>1, <2>2 DEF CascadeInv, NothingDangles, PagesOfOneRun, TypeOK
<1>7. CASE AskReprocess \/ Reprocess
  BY <1>7, TablesFrame DEF AskReprocess, Reprocess, tables, workerVars
<1>8. ASSUME NEW u \in Users, UserStep(u)
      PROVE  TablesInv'
  <2>1. CASE (\E s, t \in symbols : AskEdge(u, s, t)) \/ (\E e \in edges : AskDelete(u, e)) \/ Refuse(u)
    BY <2>1, TablesFrame DEF AskEdge, AskDelete, Refuse, tables, workerVars
  <2>2. CASE AddEdge(u)
    <3>1. /\ {wish[u].edge.source, wish[u].edge.target} \subseteq symbols \ Held(u)
          /\ edges' = edges \cup {wish[u].edge}
          /\ UNCHANGED <<pages, symbols, embedded, gone>>
      BY <2>2 DEF AddEdge, workerVars
    <3>2. \A v \in Workers : gone[v] \subseteq Held(u)
      BY ArtifactsAssumption DEF Held
    <3>3. CascadeInv'
      BY <3>1, <3>2 DEF CascadeInv
    <3> QED
      BY <3>1, <3>3 DEF DeletesAreExclusive, NothingDangles, PagesOfOneRun
  <2>3. CASE DeleteEdge(u)
    <3>1. edges' \subseteq edges /\ UNCHANGED <<pages, symbols, embedded, gone>>
      BY <2>3 DEF DeleteEdge, workerVars
    <3> QED
      BY <3>1 DEF DeletesAreExclusive, CascadeInv, NothingDangles, PagesOfOneRun
  <2> QED
    BY <1>8, <2>1, <2>2, <2>3 DEF UserStep
<1>9. CASE UNCHANGED vars
  BY <1>9, TablesFrame DEF vars, tables, workerVars
<1> QED
  BY <1>1, <1>2, <1>3, <1>4, <1>5, <1>6, <1>7, <1>8, <1>9 DEF Next, WorkerStep

LEMMA TablesHold == Spec => [](TypeOK /\ TablesInv)
<1>1. Init => TypeOK /\ TablesInv
  <2> SUFFICES ASSUME Init
               PROVE  TypeOK /\ TablesInv
    OBVIOUS
  <2>1. task \in [Stages -> {"none", "pending", "running", "dead"}]
    BY DEF Init
  <2>2. TypeOK
    BY <2>1 DEF Init, TypeOK
  <2>3. TablesInv
    BY DEF Init, TablesInv, DeletesAreExclusive, CascadeInv, NothingDangles, PagesOfOneRun
  <2> QED
    BY <2>2, <2>3
<1>2. TablesInv => DeletesAreExclusive
  BY DEF TablesInv
<1> QED
  BY <1>1, <1>2, TypeStep, TablesStep, PTL DEF Spec

\* Types, and that an idle worker holds nothing, for ever.
THEOREM ArtifactsTypeCorrect == Spec => []TypeOK
BY TablesHold, PTL

\* However handlers and requests overlap: no edge and no vector without its
\* symbols, and pages of one rebuild.
THEOREM TablesAreSound == Spec => [](NothingDangles /\ PagesOfOneRun)
<1>1. TablesInv => NothingDangles /\ PagesOfOneRun
  BY DEF TablesInv
<1> QED
  BY <1>1, TablesHold, PTL

-----------------------------------------------------------------------------
(* One handler at a time                                                   *)

\* The statements a handler has; only a DELETE scans.
StepOfStage(w) ==
  /\ scanned[w] # None => step[w] \in {"edges", "symbols", "pages"}
  /\ stage[w] = "extract" => step[w] \in {"edges", "symbols", "pages", "save"}
  /\ stage[w] = "graph" => step[w] \in {"edges", "list", "save"}
  /\ stage[w] = "embed" => step[w] \in {"list", "save"}

\* At most one worker is at work.
Alone == \A v, w \in Workers : stage[v] # None /\ stage[w] # None => v = w

\* What a worker that is alone has seen is what there is.
Current(w) ==
  /\ step[w] = "symbols" /\ scanned[w] # None => scanned[w] = symbols
  /\ stage[w] = "extract" /\ step[w] \in {"pages", "save"} => symbols \subseteq gone[w]
  /\ stage[w] = "graph" /\ step[w] = "edges" /\ scanned[w] # None =>
       \A e \in edges : e.run # 0 => e \in scanned[w]
  /\ stage[w] = "graph" /\ step[w] \in {"list", "save"} =>
       \A e \in edges : e.run # 0 => e \in gone[w]
  /\ stage[w] = "embed" /\ step[w] = "save" => listed[w] = symbols

\* The symbols have their vectors, or the stage that computes them is due.
EmbedIsDue == symbols = embedded \/ task["embed"] # "none"

CleanInv ==
  /\ \A w \in Workers : StepOfStage(w)
  /\ ~overlapped => Alone /\ NeverDuplicates /\ EmbedIsDue /\ \A w \in Workers : Current(w)

\* A step of worker w that leaves the tables alone, but not necessarily the
\* queue.
LEMMA WorkerFrame ==
  ASSUME TypeOK, CleanInv, NEW CONSTANT w \in Workers, UNCHANGED <<symbols, edges, embedded>>,
         ~overlapped' => ~overlapped,
         task'["embed"] = task["embed"] \/ task'["embed"] # "none",
         \A v \in Workers \ {w} : /\ stage'[v] = stage[v] /\ step'[v] = step[v]
                                  /\ scanned'[v] = scanned[v] /\ gone'[v] = gone[v]
                                  /\ listed'[v] = listed[v],
         StepOfStage(w)', ~overlapped' => Alone' /\ Current(w)'
  PROVE  CleanInv'
<1>1. \A v \in Workers \ {w} : StepOfStage(v)' /\ (~overlapped' => Current(v)')
  BY DEF CleanInv, StepOfStage, Current
<1>2. ~overlapped' => NeverDuplicates' /\ EmbedIsDue'
  BY DEF CleanInv, NeverDuplicates, EmbedIsDue
<1> QED
  BY <1>1, <1>2 DEF CleanInv

\* A handler that ends leaves nobody at work, if it was alone.
LEMMA FinishAlone ==
  ASSUME TypeOK, CleanInv, NEW CONSTANT w \in Workers, stage[w] # None, Rest(w)
  PROVE  /\ \A v \in Workers : StepOfStage(v)'
         /\ ~overlapped' => Alone' /\ \A v \in Workers : stage'[v] = None /\ step'[v] = "idle"
<1>1. \A v \in Workers : stage'[v] = (IF v = w THEN None ELSE stage[v])
                         /\ step'[v] = (IF v = w THEN "idle" ELSE step[v])
  BY DEF Rest, TypeOK
<1>2. \A v \in Workers : StepOfStage(v)'
  BY <1>1, ArtifactsAssumption DEF CleanInv, StepOfStage, Rest, TypeOK
<1>3. ~overlapped' => \A v \in Workers : stage'[v] = None /\ step'[v] = "idle"
  BY <1>1 DEF CleanInv, Alone, Rest, TypeOK
<1> QED
  BY <1>2, <1>3 DEF Alone

LEMMA CleanStep == TypeOK /\ TablesInv /\ CleanInv /\ [Next]_vars => CleanInv'
<1> SUFFICES ASSUME TypeOK, TablesInv, CleanInv, [Next]_vars
             PROVE  CleanInv'
  OBVIOUS
<1>1. ASSUME NEW CONSTANT w \in Workers, NEW CONSTANT s \in Stages, Begin(w, s)
      PROVE  CleanInv'
  <2>1. /\ UNCHANGED <<symbols, edges, embedded, scanned, gone, listed>> /\ scanned[w] = None
        /\ stage' = [stage EXCEPT ![w] = s] /\ step' = [step EXCEPT ![w] = FirstStep[s]]
        /\ overlapped' = (overlapped \/ \E v \in Workers : stage[v] # None)
        /\ task' = [task EXCEPT ![s] = "running"]
    BY <1>1 DEF Begin, TypeOK, tables
  <2>2. stage'[w] = s /\ step'[w] = FirstStep[s]
        /\ \A v \in Workers \ {w} : stage'[v] = stage[v] /\ step'[v] = step[v]
    BY <2>1 DEF TypeOK
  <2>3. StepOfStage(w)' /\ Current(w)'
    BY <2>1, <2>2 DEF StepOfStage, Current, FirstStep, Stages
  <2>4. ~overlapped' => Alone'
    BY <2>1, <2>2 DEF Alone
  <2>5. task'["embed"] = task["embed"] \/ task'["embed"] # "none"
    BY <2>1 DEF TypeOK, Stages
  <2>6. ~overlapped' => ~overlapped
    BY <2>1 DEF TypeOK
  <2> QED
    BY <2>1, <2>2, <2>3, <2>4, <2>5, <2>6, WorkerFrame
<1>2. ASSUME NEW CONSTANT w \in Workers, Scan(w)
      PROVE  CleanInv'
  <2>1. /\ UNCHANGED <<symbols, edges, embedded, task, stage, step, gone, listed, overlapped>>
        /\ \A v \in Workers \ {w} : scanned'[v] = scanned[v]
        /\ step[w] = "symbols" => scanned'[w] = symbols
        /\ step[w] = "edges" => scanned'[w] = edges
        /\ step[w] \in {"edges", "symbols", "pages"}
    BY <1>2 DEF Scan, TypeOK, tables
  <2>2. StepOfStage(w)' /\ (~overlapped' => Alone')
    BY <2>1 DEF CleanInv, StepOfStage, Alone
  <2>3. ~overlapped' => Current(w)'
    BY <2>1 DEF CleanInv, Current
  <2> QED
    BY <2>1, <2>2, <2>3, WorkerFrame
<1>3. ASSUME NEW CONSTANT w \in Workers, Delete(w)
      PROVE  CleanInv'
  <2> DEFINE hit == scanned[w] \cap (pages \cup symbols \cup edges)
  <2>1. /\ UNCHANGED <<symbols, edges, embedded, task, stage, listed, overlapped>>
        /\ scanned[w] # None /\ stage[w] # None
        /\ \A v \in Workers \ {w} : scanned'[v] = scanned[v] /\ step'[v] = step[v] /\ gone'[v] = gone[v]
        /\ gone'[w] = gone[w] \cup (hit \cup Cascade(hit))
        /\ step'[w] = StepAfter(stage[w], step[w])
    BY <1>3 DEF Delete, TypeOK, tables
  <2>2. step[w] \in {"edges", "symbols", "pages"}
    BY <2>1 DEF CleanInv, StepOfStage
  <2>3. StepOfStage(w)' /\ (~overlapped' => Alone')
    <3>1. scanned'[w] = None
      BY <1>3 DEF Delete, TypeOK
    <3>2. ~overlapped' => Alone'
      BY <2>1 DEF CleanInv, Alone
    <3>3. StepOfStage(w)
      BY DEF CleanInv
    <3>4. stage[w] # "embed"
      BY <2>2, <3>3 DEF StepOfStage
    <3>5. stage[w] = "extract" => step'[w] \in {"symbols", "pages", "save"}
      BY <2>1, <2>2 DEF StepAfter
    <3>6. stage[w] = "graph" => step'[w] \in {"list", "save"}
      BY <2>1, <2>2 DEF StepAfter
    <3> QED
      BY <2>1, <3>1, <3>2, <3>4, <3>5, <3>6 DEF StepOfStage
  <2>4. ~overlapped' => Current(w)'
    <3>0. scanned'[w] = None
      BY <1>3 DEF Delete, TypeOK
    <3>1. ASSUME ~overlapped, stage[w] = "extract"
          PROVE  Current(w)'
      <4>1. CASE step[w] = "edges"
        BY <2>1, <3>0, <3>1, <4>1 DEF Current, StepAfter
      <4>2. CASE step[w] = "symbols"
        <5>1. symbols \subseteq hit
          BY <2>1, <3>1, <4>2 DEF CleanInv, Current
        <5> QED
          BY <2>1, <3>0, <3>1, <4>2, <5>1 DEF Current, StepAfter
      <4>3. CASE step[w] = "pages"
        BY <2>1, <3>0, <3>1, <4>3 DEF CleanInv, Current, StepAfter
      <4> QED
        BY <2>2, <4>1, <4>2, <4>3
    <3>2. ASSUME ~overlapped, stage[w] = "graph"
          PROVE  Current(w)'
      <4>1. step[w] = "edges"
        BY <2>2, <3>2 DEF CleanInv, StepOfStage
      <4>2. \A e \in edges : e.run # 0 => e \in hit
        BY <2>1, <3>2, <4>1 DEF CleanInv, Current
      <4> QED
        BY <2>1, <3>0, <3>2, <4>1, <4>2 DEF Current, StepAfter
    <3>3. CASE stage[w] = "embed"
      BY <2>1, <2>2, <3>3 DEF CleanInv, StepOfStage
    <3> QED
      BY <2>1, <3>1, <3>2, <3>3 DEF TypeOK, Stages
  <2> QED
    BY <2>1, <2>3, <2>4, WorkerFrame
<1>4. ASSUME NEW CONSTANT w \in Workers, List(w)
      PROVE  CleanInv'
  <2>1. /\ UNCHANGED <<symbols, edges, embedded, task, stage, scanned, gone, overlapped>>
        /\ \A v \in Workers \ {w} : listed'[v] = listed[v] /\ step'[v] = step[v]
        /\ listed'[w] = symbols /\ step[w] = "list" /\ step'[w] = "save"
    BY <1>4 DEF List, TypeOK, tables
  <2>2. StepOfStage(w)' /\ (~overlapped' => Alone')
    BY <2>1 DEF CleanInv, StepOfStage, Alone
  <2>3. ~overlapped' => Current(w)'
    BY <2>1 DEF CleanInv, Current, StepOfStage
  <2> QED
    BY <2>1, <2>2, <2>3, WorkerFrame
<1>5. ASSUME NEW CONSTANT w \in Workers, SaveExtract(w)
      PROVE  CleanInv'
  <2>1. /\ stage[w] = "extract" /\ step[w] = "save" /\ Rest(w)
        /\ symbols' = (symbols \ gone[w]) \cup {[run |-> runs + 1, item |-> i] : i \in Items}
        /\ edges' = edges \ gone[w]
    BY <1>5 DEF SaveExtract, Finish
  <2>2. stage[w] # None /\ task'["embed"] = "pending"
    BY <1>5, ArtifactsAssumption DEF SaveExtract, Finish, TypeOK, Stages
  <2>3. overlapped' = overlapped
    BY <2>1 DEF Rest
  <2>4. ~overlapped => symbols \subseteq gone[w]
    BY <2>1 DEF CleanInv, Current
  <2>5. ~overlapped => NeverDuplicates'
    <3>1. ASSUME ~overlapped
          PROVE  edges' = {} /\ \A s \in symbols' : s.run = runs + 1
      BY <2>1, <2>4, <3>1 DEF TablesInv, NothingDangles, CascadeInv
    <3> QED
      BY <3>1 DEF NeverDuplicates
  <2>6. ~overlapped' => \A v \in Workers : Current(v)'
    BY <2>1, <2>2, FinishAlone, ArtifactsAssumption DEF Current
  <2> QED
    BY <2>1, <2>2, <2>3, <2>5, <2>6, FinishAlone DEF CleanInv, EmbedIsDue
<1>6. ASSUME NEW CONSTANT w \in Workers, SaveEmbed(w)
      PROVE  CleanInv'
  <2>1. /\ stage[w] = "embed" /\ step[w] = "save" /\ Rest(w)
        /\ UNCHANGED <<symbols, edges>> /\ embedded' = embedded \cup listed[w]
    BY <1>6 DEF SaveEmbed, Finish
  <2>2. stage[w] # None /\ overlapped' = overlapped
    BY <2>1, ArtifactsAssumption DEF Rest
  <2>3. ~overlapped => embedded' = symbols'
    BY <2>1 DEF CleanInv, Current, TablesInv, NothingDangles
  <2>4. ~overlapped' => \A v \in Workers : Current(v)'
    BY <2>1, <2>2, FinishAlone, ArtifactsAssumption DEF Current
  <2> QED
    BY <2>1, <2>2, <2>3, <2>4, FinishAlone DEF CleanInv, EmbedIsDue, NeverDuplicates
<1>7. ASSUME NEW CONSTANT w \in Workers, SaveGraph(w)
      PROVE  CleanInv'
  <2>1. /\ stage[w] = "graph" /\ step[w] = "save" /\ Rest(w)
        /\ UNCHANGED <<symbols, embedded>>
    BY <1>7 DEF SaveGraph, Finish
  <2>2. stage[w] # None /\ overlapped' = overlapped /\ task'["embed"] = task["embed"]
    BY <1>7, <2>1, ArtifactsAssumption DEF SaveGraph, Finish, Rest, TypeOK, Stages
  <2>3. PICK new \in Inferred(runs + 1, listed[w]) : edges' = (edges \ gone[w]) \cup new
    BY <1>7 DEF SaveGraph
  <2>4. \A e, f \in new : e.source = f.source => e = f
    BY InferredType DEF TypeOK
  <2>5. ~overlapped => \A e \in edges' : e.run # 0 => e \in new
    BY <2>1, <2>3 DEF CleanInv, Current
  <2>6. ~overlapped => NeverDuplicates'
    BY <2>1, <2>4, <2>5 DEF CleanInv, NeverDuplicates
  <2>7. ~overlapped' => \A v \in Workers : Current(v)'
    BY <2>1, <2>2, FinishAlone, ArtifactsAssumption DEF Current
  <2> QED
    BY <2>1, <2>2, <2>6, <2>7, FinishAlone DEF CleanInv, EmbedIsDue
<1>8. ASSUME NEW CONSTANT w \in Workers, Abort(w)
      PROVE  CleanInv'
  <2>1. /\ stage[w] # None /\ Rest(w) /\ overlapped' = overlapped
        /\ UNCHANGED <<symbols, edges, embedded>>
        /\ task'["embed"] = task["embed"] \/ task'["embed"] # "none"
    BY <1>8 DEF Abort, Rest, TypeOK, tables, Stages
  <2>2. ~overlapped' => \A v \in Workers : Current(v)'
    BY <2>1, FinishAlone, ArtifactsAssumption DEF Current
  <2> QED
    BY <2>1, <2>2, FinishAlone DEF CleanInv, EmbedIsDue, NeverDuplicates
<1>9. ASSUME UNCHANGED <<symbols, edges, embedded, workerVars, overlapped>>,
             task'["embed"] = task["embed"] \/ task'["embed"] # "none"
      PROVE  CleanInv'
  BY <1>9 DEF CleanInv, StepOfStage, Alone, NeverDuplicates, EmbedIsDue, Current, workerVars
<1>10. ASSUME NEW w \in Workers, Expire(w)
       PROVE  CleanInv'
  BY <1>9, <1>10 DEF Expire, TypeOK, tables, Stages
<1>11. CASE AskReprocess \/ Reprocess
  BY <1>9, <1>11 DEF AskReprocess, Reprocess, TypeOK, tables, Stages
<1>12. ASSUME NEW u \in Users, UserStep(u)
       PROVE  CleanInv'
  <2>1. CASE (\E s, t \in symbols : AskEdge(u, s, t)) \/ (\E e \in edges : AskDelete(u, e)) \/ Refuse(u)
    BY <1>9, <2>1 DEF AskEdge, AskDelete, Refuse, tables
  <2>2. ASSUME UNCHANGED <<symbols, embedded, task, workerVars, overlapped>>,
               \A e \in edges' : e.run # 0 => e \in edges
        PROVE  CleanInv'
    BY <2>2 DEF CleanInv, StepOfStage, Alone, NeverDuplicates, EmbedIsDue, Current, workerVars
  <2>3. CASE AddEdge(u)
    <3>1. wish[u].edge.run = 0
      BY <2>3 DEF AddEdge, TypeOK, Wish, UserEdge
    <3> QED
      BY <2>2, <2>3, <3>1 DEF AddEdge
  <2>4. CASE DeleteEdge(u)
    BY <2>2, <2>4 DEF DeleteEdge
  <2> QED
    BY <1>12, <2>1, <2>3, <2>4 DEF UserStep
<1>13. CASE UNCHANGED vars
  BY <1>9, <1>13 DEF vars, tables
<1> QED
  BY <1>1, <1>2, <1>3, <1>4, <1>5, <1>6, <1>7, <1>8, <1>10, <1>11, <1>12, <1>13 DEF Next, WorkerStep

LEMMA CleanHolds == Spec => []CleanInv
<1>1. Init => CleanInv
  <2> SUFFICES ASSUME Init
               PROVE  CleanInv
    OBVIOUS
  <2>1. symbols = {} /\ embedded = {} /\ edges = {}
    BY DEF Init
  <2>2. \A w \in Workers : stage[w] = None /\ step[w] = "idle" /\ scanned[w] = None
    BY DEF Init
  <2>3. \A w \in Workers : StepOfStage(w) /\ Current(w)
    BY <2>2, ArtifactsAssumption DEF StepOfStage, Current
  <2> QED
    BY <2>1, <2>2, <2>3 DEF CleanInv, Alone, NeverDuplicates, EmbedIsDue
<1> QED
  BY <1>1, CleanStep, TablesHold, PTL DEF Spec

\* As long as handlers have not overlapped, through any crashes, retries,
\* reprocessings and edits of the graph: a document has the symbols of one
\* rebuild and one inferred edge per symbol, and when its chain has come to its
\* end every symbol can be searched.
THEOREM SerialRebuildsAreClean == Spec => [](RebuildsAreClean /\ CompleteIsSearchable)
<1>1. CleanInv => RebuildsAreClean /\ CompleteIsSearchable
  BY DEF CleanInv, RebuildsAreClean, CompleteIsSearchable, EmbedIsDue, Stages
<1> QED
  BY <1>1, CleanHolds, PTL
=============================================================================
