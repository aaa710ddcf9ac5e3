----------------------------- MODULE CanvasPage -----------------------------
(***************************************************************************)
(* The canvas page of a document, open in several tabs: the query cache of *)
(* useSymbols, the nodes on the canvas, the panel of properties, and what  *)
(* the API does with the requests of the tabs.                             *)
(*                                                                         *)
(* The document is processed and has one symbol.  Its coordinates and its  *)
(* size are measured from those of the drawing; its rotation is left out.  *)
(* The value of a property is the number of the change that brought it.    *)
(* The tabs stay on the page.  An edit of the symbol is one step of the    *)
(* server here (SymbolEditing has the steps); the replacement of its       *)
(* properties is two, at READ COMMITTED.                                   *)
(***************************************************************************)
EXTENDS Naturals, FiniteSets

CONSTANTS
  Tabs,
  Keys,        \* of properties
  Axes,        \* of a position: x and y
  Lengths,     \* coordinates and sizes
  None,        \* nothing cached, under way or selected
  Asked,       \* a fetch that the server has not answered
  MaxChanges,  \* bound: changes the tabs ask for
  MaxTroubled  \* bound: tabs that have a failure

ASSUME CanvasAssumption == MaxChanges \in Nat /\ None \notin Tabs /\ 0 \in Lengths

VARIABLES
  symbol,      \* its row: the version, the position and the size
  properties,  \* its rows of symbol_properties
  cache,       \* cache[t]: data of ["symbols", id], or None
  fetch,       \* fetch[t]: None, Asked, or the answer on its way
  invalid,     \* tabs whose data is invalidated
  node,        \* node[t]: where the Konva node is
  rows,        \* rows[t]: of the panel, as loaded or last saved; or None
  saved,       \* tabs that show the badge "Saved"
  change,      \* change[n]: the n-th request to change something
  lastMove,    \* history: the drag or resize that was committed last, or 0
  lastSave,    \* history: the save that was committed last, or 0
  troubled,    \* history: tabs that had an edit, a save or a fetch fail
  overlapped   \* history: a save was committed while another was on its way

server == <<symbol, properties>>
query == <<cache, fetch, invalid, node>>
panel == <<rows, saved>>
history == <<lastMove, lastSave, troubled, overlapped>>
vars == <<server, query, panel, change, history>>

Changes == 1 .. MaxChanges
Property == [key : Keys, by : Changes]
Positions == [Axes -> Lengths]
Symbol == [version : Nat, at : Positions, size : Lengths]
Data == [symbol : Symbol, properties : SUBSET Property]

\* The marks of a query are no data.
ASSUME MarksAssumption == None # Asked /\ None \notin Data /\ Asked \notin Data

\* A request: the version its tab knew (`base`), the box or the rows it sends,
\* the version it made and the rows its DELETE has found.
Change == [kind : {"drag", "resize", "type", "save"}, tab : Tabs \cup {None},
           phase : {"new", "sent", "scanned", "stored", "done"},
           base : Nat, to : Positions, size : Lengths, made : Nat,
           rows : SUBSET Property, found : SUBSET Property]

Drawn == [a \in Axes |-> 0]
Extracted == [version |-> 1, at |-> Drawn, size |-> 0]
New == [kind |-> "drag", tab |-> None, phase |-> "new", base |-> 0, to |-> Drawn, size |-> 0,
        made |-> 0, rows |-> {}, found |-> {}]

KeysOf(P) == {p.key : p \in P}
Moves(n) == change[n].kind \in {"drag", "resize"}
Save(n) == change[n].kind = "save"
Uncommitted(n) == Save(n) /\ change[n].phase \in {"sent", "scanned"}

Trouble(t) ==
  /\ troubled' = troubled \cup {t}
  /\ Cardinality(troubled') <= MaxTroubled

-----------------------------------------------------------------------------
(* The query of the symbols                                                *)

\* The window is focused or the network is back, and the data is stale.
Refetch(t) ==
  /\ fetch[t] = None
  /\ fetch' = [fetch EXCEPT ![t] = Asked]
  /\ UNCHANGED <<server, cache, invalid, node, panel, change, history>>

\* SymbolService.list_by_document.
ServeSymbols(t) ==
  /\ fetch[t] = Asked
  /\ fetch' = [fetch EXCEPT ![t] = [symbol |-> symbol, properties |-> properties]]
  /\ UNCHANGED <<server, cache, invalid, node, panel, change, history>>

\* Where the node of t is when `data` is rendered: x and y are props of their
\* own, and react-konva sets those that differ from the last ones it was given.
\* A coordinate the data had before stays where the node was dropped.
Rendered(t, data) ==
  [a \in Axes |-> IF cache[t] # None /\ cache[t].symbol.at[a] = data.symbol.at[a]
                  THEN node[t][a] ELSE data.symbol.at[a]]

\* The data is replaced and rendered.
SymbolsArrive(t) ==
  /\ fetch[t] \notin {None, Asked}
  /\ cache' = [cache EXCEPT ![t] = fetch[t]]
  /\ fetch' = [fetch EXCEPT ![t] = None]
  /\ invalid' = invalid \ {t}
  /\ node' = [node EXCEPT ![t] = Rendered(t, fetch[t])]
  /\ UNCHANGED <<server, panel, change, history>>

\* The retry fails as well; the data stays, and so does its mark.
FetchFails(t) ==
  /\ fetch[t] # None
  /\ fetch' = [fetch EXCEPT ![t] = None]
  /\ Trouble(t)
  /\ UNCHANGED <<server, cache, invalid, node, panel, change, lastMove, lastSave, overlapped>>

-----------------------------------------------------------------------------
(* Changes                                                                 *)

\* The page asks the API for `sent`, a change of its own.
Ask(n, t, sent) ==
  /\ change[n].phase = "new"
  /\ \A m \in Changes : m < n => change[m].phase # "new"
  /\ cache[t] # None
  /\ change' = [change EXCEPT ![n] =
       [sent EXCEPT !.tab = t, !.phase = "sent", !.base = cache[t].symbol.version]]

\* onDragEnd: the node is where the user has dropped it, at a new place or an
\* old one; the rest of the box is what the tab knows.
Drag(t, n, to) ==
  /\ Ask(n, t, [New EXCEPT !.to = to, !.size = cache[t].symbol.size])
  /\ node' = [node EXCEPT ![t] = to]
  /\ UNCHANGED <<server, cache, fetch, invalid, panel, history>>

\* onTransformEnd, by a handle of the symbol that is selected: the place of the
\* node, moved by it or not, and a size.  (The size of the node is the one the tab
\* knows, so that a transform which leaves it sends what a drag would.)
Resize(t, n, to, size) ==
  /\ rows[t] # None
  /\ size # cache[t].symbol.size
  /\ Ask(n, t, [New EXCEPT !.kind = "resize", !.to = to, !.size = size])
  /\ node' = [node EXCEPT ![t] = to]
  /\ UNCHANGED <<server, cache, fetch, invalid, panel, history>>

\* saveType.
ChooseType(t, n) ==
  /\ rows[t] # None
  /\ Ask(n, t, [New EXCEPT !.kind = "type"])
  /\ UNCHANGED <<server, query, panel, history>>

Stored(n) == [change EXCEPT ![n].phase = "stored", ![n].made = symbol.version + 1]

\* Mutation of Edit: a drag saves the size of the drawing.
EditDefaultSize(n) ==
  /\ change[n].phase = "sent" /\ ~Save(n)
  /\ symbol' = [version |-> symbol.version + 1,
                at |-> IF Moves(n) THEN change[n].to ELSE symbol.at,
                size |-> CASE change[n].kind = "drag" -> 0
                           [] change[n].kind = "resize" -> change[n].size
                           [] OTHER -> symbol.size]
  /\ change' = Stored(n)
  /\ lastMove' = IF Moves(n) THEN n ELSE lastMove
  /\ UNCHANGED <<properties, query, panel, lastSave, troubled, overlapped>>

\* SymbolService.edit: a new version, with the box that was sent.
Edit(n) ==
  /\ change[n].phase = "sent" /\ ~Save(n)
  /\ symbol' = [version |-> symbol.version + 1,
                at |-> IF Moves(n) THEN change[n].to ELSE symbol.at,
                size |-> IF Moves(n) THEN change[n].size ELSE symbol.size]
  /\ change' = Stored(n)
  /\ lastMove' = IF Moves(n) THEN n ELSE lastMove
  /\ UNCHANGED <<properties, query, panel, lastSave, troubled, overlapped>>

\* Mutation of Acknowledge: a fetch that is under way is not started again.
AcknowledgeJoining(n) ==
  /\ change[n].phase = "stored"
  /\ change' = [change EXCEPT ![n].phase = "done"]
  /\ IF Moves(n)
     THEN /\ invalid' = invalid \cup {change[n].tab}
          /\ fetch' = [fetch EXCEPT ![change[n].tab] = IF @ = None THEN Asked ELSE @]
     ELSE UNCHANGED <<invalid, fetch>>
  /\ saved' = IF Save(n) THEN saved \cup {change[n].tab} ELSE saved
  /\ UNCHANGED <<server, cache, node, rows, history>>

\* The answer arrives.  useEditSymbol invalidates the query: its fetch is started
\* again, whatever was under way.  The panel calls the API itself and does not.
Acknowledge(n) ==
  /\ change[n].phase = "stored"
  /\ change' = [change EXCEPT ![n].phase = "done"]
  /\ IF Moves(n)
     THEN /\ invalid' = invalid \cup {change[n].tab}
          /\ fetch' = [fetch EXCEPT ![change[n].tab] = Asked]
     ELSE UNCHANGED <<invalid, fetch>>
  /\ saved' = IF Save(n) THEN saved \cup {change[n].tab} ELSE saved
  /\ UNCHANGED <<server, cache, node, rows, history>>

\* The request is refused, raises, or its answer is lost; nobody handles it.
ChangeFails(n) ==
  /\ change[n].phase \in {"sent", "scanned", "stored"}
  /\ change' = [change EXCEPT ![n].phase = "done"]
  /\ Trouble(change[n].tab)
  /\ UNCHANGED <<server, query, panel, lastMove, lastSave, overlapped>>

-----------------------------------------------------------------------------
(* The panel of properties                                                 *)

\* The symbol is selected: its rows are those of the data.
Select(t) ==
  /\ rows[t] = None
  /\ cache[t] # None
  /\ rows' = [rows EXCEPT ![t] = cache[t].properties]
  /\ saved' = saved \ {t}
  /\ UNCHANGED <<server, query, change, history>>

ClearSelection(t) ==
  /\ rows[t] # None
  /\ rows' = [rows EXCEPT ![t] = None]
  /\ saved' = saved \ {t}
  /\ UNCHANGED <<server, query, change, history>>

\* The rows after the user has added or changed one.
Typed(t, n, k) == {p \in rows[t] : p.key # k} \cup {[key |-> k, by |-> n]}

\* They are saved, all of them.
SaveProps(t, n, k) ==
  /\ rows[t] # None
  /\ Ask(n, t, [New EXCEPT !.kind = "save", !.rows = Typed(t, n, k)])
  /\ rows' = [rows EXCEPT ![t] = Typed(t, n, k)]
  /\ UNCHANGED <<server, query, saved, history>>

\* upsert_properties: the DELETE finds the rows that are committed.
DeleteProps(n) ==
  /\ change[n].phase = "sent" /\ Save(n)
  /\ change' = [change EXCEPT ![n].phase = "scanned", ![n].found = properties]
  /\ UNCHANGED <<server, query, panel, history>>

\* The rows of `remaining` and those sent, and the commit.
Store(n, remaining) ==
  /\ change[n].phase = "scanned"
  /\ properties' = remaining \cup change[n].rows
  /\ change' = [change EXCEPT ![n].phase = "stored", ![n].found = {}]
  /\ lastSave' = n
  /\ overlapped' = (overlapped \/ \E m \in Changes \ {n} : Uncommitted(m))
  /\ UNCHANGED <<symbol, query, panel, lastMove, troubled>>

\* Mutation of StoreProps: without uq_symbol_property_key.
StorePropsUnchecked(n) == Store(n, properties \ change[n].found)

\* Mutation of StoreProps: only the rows with the keys that are sent go.
StorePropsByKey(n) == Store(n, {p \in properties : p.key \notin KeysOf(change[n].rows)})

\* Its INSERTs and the commit.  Rows that were committed after the DELETE stay;
\* one with a key that is sent violates uq_symbol_property_key (ChangeFails).
StoreProps(n) ==
  LET remaining == properties \ change[n].found
  IN  /\ KeysOf(remaining) \cap KeysOf(change[n].rows) = {}
      /\ Store(n, remaining)

-----------------------------------------------------------------------------
(* The specification                                                       *)

Init ==
  /\ symbol = Extracted /\ properties = {}
  /\ cache = [t \in Tabs |-> None]
  /\ fetch = [t \in Tabs |-> None]
  /\ invalid = {}
  /\ node = [t \in Tabs |-> Drawn]
  /\ rows = [t \in Tabs |-> None]
  /\ saved = {}
  /\ change = [n \in Changes |-> New]
  /\ lastMove = 0 /\ lastSave = 0 /\ troubled = {} /\ overlapped = FALSE

ApiStep(n) == Edit(n) \/ DeleteProps(n) \/ StoreProps(n)
AnswerArrives(n) == Acknowledge(n) \/ ChangeFails(n)

UserStep(t) ==
  \/ Refetch(t) \/ Select(t) \/ ClearSelection(t)
  \/ \E n \in Changes :
       \/ \E to \in Positions : Drag(t, n, to) \/ \E size \in Lengths : Resize(t, n, to, size)
       \/ ChooseType(t, n)
       \/ \E k \in Keys : SaveProps(t, n, k)

QueryStep(t) == ServeSymbols(t) \/ SymbolsArrive(t) \/ FetchFails(t)

Next ==
  \/ \E t \in Tabs : UserStep(t) \/ QueryStep(t)
  \/ \E n \in Changes : ApiStep(n) \/ AnswerArrives(n)

Spec == Init /\ [][Next]_vars

-----------------------------------------------------------------------------
(* Properties                                                              *)

\* Every variable has its type, and a symbol one property with a key; a tab
\* knows a version that was there, and data that is invalidated is being
\* fetched again, or its fetch has failed.
TypeOK ==
  /\ symbol \in Symbol /\ properties \in SUBSET Property
  /\ \A p, q \in properties : p.key = q.key => p = q
  /\ cache \in [Tabs -> Data \cup {None}]
  /\ fetch \in [Tabs -> Data \cup {None, Asked}]
  /\ rows \in [Tabs -> (SUBSET Property) \cup {None}]
  /\ \A t \in Tabs : cache[t] # None => cache[t].symbol.version <= symbol.version
  /\ \A t \in invalid : fetch[t] # None \/ t \in troubled
  /\ invalid \subseteq Tabs /\ saved \subseteq Tabs /\ troubled \subseteq Tabs
  /\ node \in [Tabs -> Positions]
  /\ change \in [Changes -> Change]
  /\ {lastMove, lastSave} \subseteq 0 .. MaxChanges /\ overlapped \in BOOLEAN

\* A tab that has nothing under way.
Quiet(t) ==
  /\ fetch[t] = None /\ t \notin invalid /\ t \notin troubled
  /\ \A n \in Changes : change[n].tab = t => change[n].phase = "done"

\* The drags and resizes of a tab, and the newest of them.
Drops(t) == {n \in Changes : change[n].tab = t /\ Moves(n)}
LastDrop(n, t) == n \in Drops(t) /\ \A m \in Drops(t) : m <= n

\* CanvasPage.tsx "drag / resize / rotate a symbol to edit (saved as a new
\* version)": when a tab has nothing under way, and had no failure, each of its
\* drops was saved as a version and its data is as new; the symbol is where its
\* data has it if it was not moved in this tab, and where it is stored if the
\* tab's last drop was the last to be saved.  (Otherwise a coordinate may be the
\* one of the drop, although another drop has brought back the former one.)
ShownIsSaved ==
  \A t \in Tabs : Quiet(t) =>
    /\ \A n \in Drops(t) : 0 < change[n].made /\ change[n].made <= cache[t].symbol.version
    /\ cache[t] # None /\ Drops(t) = {} => node[t] = cache[t].symbol.at
    /\ \A n \in Changes : LastDrop(n, t) /\ lastMove = n => node[t] = symbol.at

\* A drag undoes a resize only if its tab had not seen it: whoever drags from
\* the newest version changes the position alone.
OnlyStaleDragsResize ==
  [][\A n \in Changes :
       (change[n].kind = "drag" /\ change[n].phase = "sent" /\ change'[n].phase = "stored"
        /\ symbol'.size # symbol.size) => change[n].base < symbol.version]_vars

\* The newest save of a tab.
Newest(n, t) ==
  /\ Save(n) /\ change[n].tab = t
  /\ \A m \in Changes : (Save(m) /\ change[m].tab = t) => m <= n

\* symbol_repository.py:80 "Replace-set semantics": where the badge says so, the
\* rows that were saved last are stored and no others, unless another tab has
\* saved since, a save has failed, or two were on their way at once.
SavedIsTrue ==
  \A t \in saved : \A n \in Changes :
    (/\ Newest(n, t) /\ change[n].phase = "done"
     /\ change[lastSave].tab = t /\ t \notin troubled /\ ~overlapped)
      => properties = change[n].rows
=============================================================================
