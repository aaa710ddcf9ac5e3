------------------------------ MODULE Artifacts ------------------------------
(***************************************************************************)
(* What the pipeline leaves behind for one document: its pages, symbols,   *)
(* embeddings and graph edges, under the stage handlers that rebuild them  *)
(* and the users who add and delete edges.                                 *)
(*                                                                         *)
(* A handler is one transaction of several statements at READ COMMITTED.   *)
(* A bulk DELETE sees the rows that were committed when it started, and    *)
(* waits for rows another transaction has deleted and not committed; what  *)
(* that transaction has inserted it never sees.  A transaction that has    *)
(* deleted rows holds them (gone) until it ends, which for                 *)
(* handle_pdf_extract is after every page has been rendered.  The rows a   *)
(* transaction inserts are inserted just before its commit, and the two    *)
(* are one step here.                                                      *)
(*                                                                         *)
(* The queue is reduced to what decides which handlers run and overlap:    *)
(* module Pipeline has the rest.  OCR and classification change columns    *)
(* only (module SymbolEditing); the chain goes from extract to embed.      *)
(***************************************************************************)
EXTENDS Naturals

CONSTANTS
  Workers,
  Users,       \* requests that add or delete an edge
  Items,       \* what the extractor detects in the document
  Pages,       \* its page numbers
  PageOf,      \* PageOf[i]: the page item i is on
  Roles,       \* the items whose type has an entry in _TYPE_TO_RELATION
  None,
  MaxRuns,     \* bound: rebuilds of symbols or edges that commit
  MaxWishes,   \* bound: requests that add or delete an edge
  MaxRequests  \* bound: reprocess requests at a time

ASSUME ArtifactsAssumption ==
  /\ PageOf \in [Items -> Pages] /\ Roles \subseteq Items
  /\ Workers \cap Users = {}
  /\ None \notin {"extract", "embed", "graph"}
  /\ {MaxRuns, MaxWishes, MaxRequests} \subseteq Nat

VARIABLES
  pages, symbols, edges,  \* the rows of these tables
  embedded,    \* the symbols that have a row in embeddings
  task,        \* task[s]: the state of the document's row for stage s
  stage,       \* stage[w]: the stage worker w runs, or None
  step,        \* step[w]: the statement worker w is at
  scanned,     \* scanned[w]: the rows its DELETE has found, or None
  gone,        \* gone[w]: the rows it has deleted and not committed
  listed,      \* listed[w]: the symbols it has read
  wish,        \* wish[u]: the edge a request adds or deletes, or None
  wishes,      \* requests of that kind so far
  requests,    \* reprocess requests that found the document settled and go on
  runs,        \* rebuilds that have committed
  overlapped   \* two workers have been at work at the same time

tables == <<pages, symbols, edges, embedded>>
workerVars == <<stage, step, scanned, gone, listed>>
vars == <<tables, task, workerVars, wish, wishes, requests, runs, overlapped>>

Stages == {"extract", "embed", "graph"}

\* Rows.  Rebuilds insert rows with fresh ids; edges of users have run 0.
PageRow == [run: Nat, page: Pages]
SymbolRow == [run: Nat, item: Items]
EdgeRow == [run: Nat, source: SymbolRow, target: SymbolRow]
UserEdge == [run: {0}, source: SymbolRow, target: SymbolRow]
Wish == [act: {"add"}, edge: UserEdge] \cup [act: {"delete"}, edge: EdgeRow]
Row == PageRow \cup SymbolRow \cup EdgeRow

\* What worker w waits for: rows somebody else has deleted and not committed.
Held(w) == UNION {gone[v] : v \in Workers \ {w}}

-----------------------------------------------------------------------------
(* Handlers                                                                *)

FirstStep == [extract |-> "edges", embed |-> "list", graph |-> "edges"]

\* Mutation of StepAfter: the symbols of the last run are not deleted.
StepAfterKeeping(s, at) ==
  CASE s = "extract" /\ at = "edges" -> "pages"
    [] s = "graph" /\ at = "edges"   -> "list"
    [] OTHER                         -> "save"

\* The order of the statements in handle_pdf_extract and handle_graph.
StepAfter(s, at) ==
  CASE s = "extract" /\ at = "edges"   -> "symbols"
    [] s = "extract" /\ at = "symbols" -> "pages"
    [] s = "graph" /\ at = "edges"     -> "list"
    [] OTHER                           -> "save"

\* A worker claims the task of a stage and starts its handler.
Begin(w, s) ==
  /\ stage[w] = None
  /\ task[s] = "pending"
  /\ s = "embed" \/ runs < MaxRuns
  /\ task' = [task EXCEPT ![s] = "running"]
  /\ stage' = [stage EXCEPT ![w] = s]
  /\ step' = [step EXCEPT ![w] = FirstStep[s]]
  /\ overlapped' = (overlapped \/ \E v \in Workers : stage[v] # None)
  /\ UNCHANGED <<tables, scanned, gone, listed, wish, wishes, requests, runs>>

\* delete_by_document, delete_pages: the statement finds its rows.
Scan(w) ==
  /\ scanned[w] = None
  /\ \/ step[w] = "edges" /\ scanned' = [scanned EXCEPT ![w] = edges]
     \/ step[w] = "symbols" /\ scanned' = [scanned EXCEPT ![w] = symbols]
     \/ step[w] = "pages" /\ scanned' = [scanned EXCEPT ![w] = pages]
  /\ UNCHANGED <<tables, task, stage, step, gone, listed, wish, wishes, requests, runs, overlapped>>

\* The edges that go with the symbols in `rows` (ON DELETE CASCADE).
Cascade(rows) == {e \in edges : e.source \in rows \/ e.target \in rows}

\* Mutation of Delete: edges are not deleted with their symbols.
DeleteOrphaning(w) ==
  LET hit == scanned[w] \cap (pages \cup symbols \cup edges)
  IN  /\ scanned[w] # None
      /\ hit \cap Held(w) = {}
      /\ gone' = [gone EXCEPT ![w] = @ \cup hit]
      /\ scanned' = [scanned EXCEPT ![w] = None]
      /\ step' = [step EXCEPT ![w] = StepAfter(stage[w], @)]
      /\ UNCHANGED <<tables, task, stage, listed, wish, wishes, requests, runs, overlapped>>

\* The statement deletes what it found and is still there, when nobody holds
\* any of it.
Delete(w) ==
  LET hit == scanned[w] \cap (pages \cup symbols \cup edges)
      dropped == hit \cup Cascade(hit)
  IN  /\ scanned[w] # None
      /\ dropped \cap Held(w) = {}
      /\ gone' = [gone EXCEPT ![w] = @ \cup dropped]
      /\ scanned' = [scanned EXCEPT ![w] = None]
      /\ step' = [step EXCEPT ![w] = StepAfter(stage[w], @)]
      /\ UNCHANGED <<tables, task, stage, listed, wish, wishes, requests, runs, overlapped>>

\* symbols.list_by_document, with what is computed from it.
List(w) ==
  /\ step[w] = "list"
  /\ listed' = [listed EXCEPT ![w] = symbols]
  /\ step' = [step EXCEPT ![w] = "save"]
  /\ UNCHANGED <<tables, task, stage, scanned, gone, wish, wishes, requests, runs, overlapped>>

\* The transaction is over, committed or rolled back.
Rest(w) ==
  /\ stage' = [stage EXCEPT ![w] = None]
  /\ step' = [step EXCEPT ![w] = "idle"]
  /\ scanned' = [scanned EXCEPT ![w] = None]
  /\ gone' = [gone EXCEPT ![w] = {}]
  /\ listed' = [listed EXCEPT ![w] = {}]
  /\ UNCHANGED <<wish, wishes, requests, overlapped>>

\* The handler's last statements and the commit of process_one: mark_succeeded
\* and the enqueue of the next stage.
Finish(w) ==
  /\ step[w] = "save"
  /\ task' = CASE stage[w] = "extract" -> [task EXCEPT !["extract"] = "none", !["embed"] = "pending"]
               [] stage[w] = "embed"   -> [task EXCEPT !["embed"] = "none", !["graph"] = "pending"]
               [] stage[w] = "graph"   -> [task EXCEPT !["graph"] = "none"]
  /\ Rest(w)

\* Mutation of SaveExtract: without uq_pages_doc_num.
SaveExtractUnchecked(w) ==
  LET fresh == runs + 1
  IN  /\ stage[w] = "extract"
      /\ runs < MaxRuns
      /\ pages' = (pages \ gone[w]) \cup {[run |-> fresh, page |-> p] : p \in Pages}
      /\ symbols' = (symbols \ gone[w]) \cup {[run |-> fresh, item |-> i] : i \in Items}
      /\ edges' = edges \ gone[w]
      /\ embedded' = embedded \ gone[w]
      /\ runs' = fresh
      /\ Finish(w)

\* A page number somebody else has inserted, or deleted and not committed,
\* is waited for; one that is there violates uq_pages_doc_num (Abort).
SaveExtract(w) ==
  LET fresh == runs + 1
  IN  /\ stage[w] = "extract"
      /\ runs < MaxRuns
      /\ \A p \in pages : p \in gone[w]
      /\ pages' = (pages \ gone[w]) \cup {[run |-> fresh, page |-> p] : p \in Pages}
      /\ symbols' = (symbols \ gone[w]) \cup {[run |-> fresh, item |-> i] : i \in Items}
      /\ edges' = edges \ gone[w]
      /\ embedded' = embedded \ gone[w]
      /\ runs' = fresh
      /\ Finish(w)

\* Mutation of SaveEmbed: vectors are replaced and never added.
SaveEmbedExisting(w) ==
  /\ stage[w] = "embed"
  /\ listed[w] \subseteq symbols \ Held(w)
  /\ UNCHANGED <<pages, symbols, edges, embedded, runs>>
  /\ Finish(w)

\* Every symbol that was listed has its vector; the foreign key needs the
\* symbol.
SaveEmbed(w) ==
  /\ stage[w] = "embed"
  /\ listed[w] \subseteq symbols \ Held(w)
  /\ embedded' = embedded \cup listed[w]
  /\ UNCHANGED <<pages, symbols, edges, runs>>
  /\ Finish(w)

\* infer: an edge from every symbol that has a role to one of the others on
\* its page, the nearest.  (Users move symbols: any may be.)
Inferred(run, S) ==
  LET Others(s) == {t \in S \ {s} : PageOf[t.item] = PageOf[s.item]}
      sources == {s \in S : s.item \in Roles /\ Others(s) # {}}
  IN  {{[run |-> run, source |-> s, target |-> nearest[s]] : s \in sources} :
         nearest \in {f \in [sources -> S] : \A s \in sources : f[s] \in Others(s)}}

SaveGraph(w) ==
  /\ stage[w] = "graph"
  /\ runs < MaxRuns
  /\ \E new \in Inferred(runs + 1, listed[w]) :
       /\ \A e \in new : {e.source, e.target} \subseteq symbols \ Held(w)
       /\ edges' = (edges \ gone[w]) \cup new
  /\ runs' = runs + 1
  /\ UNCHANGED <<pages, symbols, embedded>>
  /\ Finish(w)

\* The transaction is rolled back: an exception, a constraint, a deadlock or a
\* crash.  The task is tried again, at once or when its lease expires, or it
\* is dead.
Abort(w) ==
  /\ stage[w] # None
  /\ \E then \in {"pending", "dead"} : task' = [task EXCEPT ![stage[w]] = then]
  /\ Rest(w)
  /\ UNCHANGED <<tables, runs>>

\* The lease of a live worker runs out.
Expire(w) ==
  /\ stage[w] # None
  /\ task[stage[w]] = "running"
  /\ task' = [task EXCEPT ![stage[w]] = "pending"]
  /\ UNCHANGED <<tables, workerVars, wish, wishes, requests, runs, overlapped>>

-----------------------------------------------------------------------------
(* Requests                                                                *)

\* reprocess: the status is read in one statement and the first task enqueued
\* with the commit.
AskReprocess ==
  /\ requests < MaxRequests
  /\ \/ \A s \in Stages : task[s] \notin {"pending", "running"}
     \/ \E s \in Stages : task[s] = "dead"
  /\ requests' = requests + 1
  /\ UNCHANGED <<tables, task, workerVars, wish, wishes, runs, overlapped>>

Reprocess ==
  /\ requests > 0
  /\ task' = [task EXCEPT !["extract"] = "pending"]
  /\ requests' = requests - 1
  /\ UNCHANGED <<tables, workerVars, wish, wishes, runs, overlapped>>

\* add_edge reads both symbols.
AskEdge(u, s, t) ==
  /\ wish[u] = None
  /\ wishes < MaxWishes
  /\ wishes' = wishes + 1
  /\ s # t
  /\ wish' = [wish EXCEPT ![u] = [act |-> "add", edge |-> [run |-> 0, source |-> s, target |-> t]]]
  /\ UNCHANGED <<tables, task, workerVars, requests, runs, overlapped>>

\* add_edge inserts and commits; the foreign keys wait for symbols somebody
\* has deleted and fail for those that are gone.
AddEdge(u) ==
  /\ wish[u] # None
  /\ wish[u].act = "add"
  /\ {wish[u].edge.source, wish[u].edge.target} \subseteq symbols \ Held(u)
  /\ edges' = edges \cup {wish[u].edge}
  /\ wish' = [wish EXCEPT ![u] = None]
  /\ UNCHANGED <<pages, symbols, embedded, task, workerVars, wishes, requests, runs, overlapped>>

\* delete_edge reads the edge.
AskDelete(u, e) ==
  /\ wish[u] = None
  /\ wishes < MaxWishes
  /\ wishes' = wishes + 1
  /\ wish' = [wish EXCEPT ![u] = [act |-> "delete", edge |-> e]]
  /\ UNCHANGED <<tables, task, workerVars, requests, runs, overlapped>>

\* delete_edge deletes the row, if it is still there, and commits.
DeleteEdge(u) ==
  /\ wish[u] # None
  /\ wish[u].act = "delete"
  /\ wish[u].edge \notin Held(u)
  /\ edges' = edges \ {wish[u].edge}
  /\ wish' = [wish EXCEPT ![u] = None]
  /\ UNCHANGED <<pages, symbols, embedded, task, workerVars, wishes, requests, runs, overlapped>>

\* The request fails.
Refuse(u) ==
  /\ wish[u] # None
  /\ wish' = [wish EXCEPT ![u] = None]
  /\ UNCHANGED <<tables, task, workerVars, wishes, requests, runs, overlapped>>

-----------------------------------------------------------------------------
(* The specification                                                       *)

\* The document has been validated.
Init ==
  /\ pages = {} /\ symbols = {} /\ edges = {} /\ embedded = {}
  /\ task = [s \in Stages |-> IF s = "extract" THEN "pending" ELSE "none"]
  /\ stage = [w \in Workers |-> None]
  /\ step = [w \in Workers |-> "idle"]
  /\ scanned = [w \in Workers |-> None]
  /\ gone = [w \in Workers |-> {}]
  /\ listed = [w \in Workers |-> {}]
  /\ wish = [u \in Users |-> None]
  /\ wishes = 0
  /\ requests = 0
  /\ runs = 0
  /\ overlapped = FALSE

WorkerStep(w) ==
  \/ \E s \in Stages : Begin(w, s)
  \/ Scan(w) \/ Delete(w) \/ List(w)
  \/ SaveExtract(w) \/ SaveEmbed(w) \/ SaveGraph(w)
  \/ Abort(w) \/ Expire(w)

UserStep(u) ==
  \/ \E s, t \in symbols : AskEdge(u, s, t)
  \/ \E e \in edges : AskDelete(u, e)
  \/ AddEdge(u) \/ DeleteEdge(u) \/ Refuse(u)

Next ==
  \/ \E w \in Workers : WorkerStep(w)
  \/ \E u \in Users : UserStep(u)
  \/ AskReprocess \/ Reprocess

Spec == Init /\ [][Next]_vars

-----------------------------------------------------------------------------
(* Properties                                                              *)

\* Every variable has its type; a worker that is idle holds nothing and what
\* a worker has deleted is still in the tables.
TypeOK ==
  /\ pages \in SUBSET PageRow /\ symbols \in SUBSET SymbolRow /\ edges \in SUBSET EdgeRow
  /\ embedded \in SUBSET SymbolRow
  /\ task \in [Stages -> {"none", "pending", "running", "dead"}]
  /\ stage \in [Workers -> Stages \cup {None}]
  /\ step \in [Workers -> {"idle", "edges", "symbols", "pages", "list", "save"}]
  /\ scanned \in [Workers -> (SUBSET Row) \cup {None}]
  /\ gone \in [Workers -> SUBSET (pages \cup symbols \cup edges)]
  /\ listed \in [Workers -> SUBSET SymbolRow]
  /\ wish \in [Users -> Wish \cup {None}]
  /\ wishes \in Nat /\ requests \in Nat /\ runs \in Nat /\ overlapped \in BOOLEAN
  /\ \A w \in Workers :
       stage[w] = None => step[w] = "idle" /\ scanned[w] = None /\ gone[w] = {}

\* Edges and embeddings belong to symbols that are there, whoever deletes and
\* inserts what: the foreign keys and their cascades suffice.
NothingDangles ==
  /\ \A e \in edges : e.source \in symbols /\ e.target \in symbols
  /\ embedded \subseteq symbols

\* No row is deleted by two transactions that are under way.
DeletesAreExclusive ==
  \A v, w \in Workers : v # w => gone[v] \cap gone[w] = {}

\* The pages are those of one rebuild, also when two have overlapped: the
\* unique constraint refuses the second.
PagesOfOneRun == \A p, q \in pages : p.run = q.run

\* stages.py:5 "re-running pdf_extract rebuilds pages/symbols from a clean
\* slate [...] so a retry never duplicates data": the symbols are those of one
\* rebuild and a symbol has at most one inferred edge.
NeverDuplicates ==
  /\ \A s, t \in symbols : s.run = t.run
  /\ \A e, f \in edges : e.run # 0 /\ f.run # 0 /\ e.source = f.source => e = f

\* It is so as long as no two workers were at work on the document at a time,
\* whatever was retried or reprocessed and whatever users did to the edges.
RebuildsAreClean == ~overlapped => NeverDuplicates

\* A document whose chain has come to its end can be searched as a whole: every
\* symbol has its vector.  (With workers that overlap it need not.)
CompleteIsSearchable ==
  ~overlapped /\ (\A s \in Stages : task[s] = "none") => symbols = embedded
=============================================================================
