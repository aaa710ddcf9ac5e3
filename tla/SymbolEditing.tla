---------------------------- MODULE SymbolEditing ----------------------------
(***************************************************************************)
(* One symbol, the requests that edit it (SymbolService.edit), the stage   *)
(* handlers that write labels and classifications to it while they run     *)
(* (handle_ocr, handle_classify), and the rebuild that deletes it          *)
(* (handle_pdf_extract).                                                   *)
(*                                                                         *)
(* Both kinds of writer read the symbol into memory, change it there and   *)
(* save it with symbols.update, which fetches the row again and assigns    *)
(* every column.  The session's flush sends the columns that differ from   *)
(* the row it fetched, and waits for the row's lock, which a handler that  *)
(* has saved the symbol keeps until it has worked through its pages.  The  *)
(* read, the second fetch, the flush and the commit are steps of their own *)
(* here.  An edit commits the row together with a row of symbol_versions,  *)
(* which are unique per symbol and version.                                *)
(***************************************************************************)
EXTENDS Naturals

CONSTANTS
  Editors,     \* requests that edit the symbol
  Handlers,    \* workers that run handle_ocr or handle_classify
  Values,      \* contents of a column
  None,        \* nobody holds the row lock; a session has nothing in memory
  MaxVersion   \* bound: no edit starts from this version on

ASSUME EditingAssumption ==
  /\ Editors \cap Handlers = {}
  /\ None \notin Editors \cup Handlers
  /\ MaxVersion \in Nat

VARIABLES
  alive,     \* the symbol exists
  row,       \* its row of symbols
  history,   \* the versions symbol_versions holds for it
  lock,      \* the session that has flushed the row and not committed, or None
  step,      \* step[t]: how far session t is
  prior,     \* prior[t]: the symbol as session t read it
  symbol,    \* symbol[t]: the entity session t holds, changed
  found      \* found[t]: the row as symbols.update fetched it

sessionVars == <<step, prior, symbol, found>>
vars == <<alive, row, history, lock, sessionVars>>

Sessions == Editors \cup Handlers

\* `geometry` (bbox, rotation) is written by edits only; `label` stands for the
\* label, type and classification columns, written by edits and handlers.
SymbolRow == [geometry: Values, label: Values, version: Nat]

-----------------------------------------------------------------------------
(* Sessions                                                                *)

\* symbols.get, symbols.list_by_document: the row in memory, and what the
\* session makes of it.
Load(t, entity) ==
  /\ step[t] = "idle"
  /\ alive
  /\ step' = [step EXCEPT ![t] = "loaded"]
  /\ prior' = [prior EXCEPT ![t] = row]
  /\ symbol' = [symbol EXCEPT ![t] = entity]
  /\ UNCHANGED <<alive, row, history, lock, found>>

\* Mutation of BeginEdit: the version is not advanced.
BeginEditSameVersion(e, g, l) ==
  /\ row.version < MaxVersion
  /\ Load(e, [geometry |-> g, label |-> l, version |-> row.version])

\* edit, up to symbol.version += 1.  Columns that were not in the request
\* keep the value read.
BeginEdit(e, g, l) ==
  /\ row.version < MaxVersion
  /\ Load(e, [geometry |-> g, label |-> l, version |-> row.version + 1])

\* A handler has listed the document's symbols and assigns a label or applies
\* a classification.
BeginHandle(h, l) == Load(h, [row EXCEPT !.label = l])

\* symbols.update: session.get.  A symbol that is gone raises (Abort).
Refetch(t) ==
  /\ step[t] = "loaded"
  /\ alive
  /\ step' = [step EXCEPT ![t] = "fetched"]
  /\ found' = [found EXCEPT ![t] = row]
  /\ UNCHANGED <<alive, row, history, lock, prior, symbol>>

\* symbols.update: flush.  UPDATE waits for the row lock and keeps it; nothing
\* is sent if no column differs.
Flush(t) ==
  /\ step[t] = "fetched"
  /\ IF symbol[t] = found[t]
     THEN UNCHANGED lock
     ELSE alive /\ lock = None /\ lock' = t
  /\ step' = [step EXCEPT ![t] = "flushed"]
  /\ UNCHANGED <<alive, row, history, prior, symbol, found>>

\* The columns the flush of `entity` over the fetched row sends, over `current`.
Merge(entity, fetched, current) ==
  [geometry |-> IF entity.geometry = fetched.geometry THEN current.geometry ELSE entity.geometry,
   label    |-> IF entity.label = fetched.label THEN current.label ELSE entity.label,
   version  |-> IF entity.version = fetched.version THEN current.version ELSE entity.version]

Close(t) ==
  /\ step' = [step EXCEPT ![t] = "idle"]
  /\ lock' = IF lock = t THEN None ELSE lock
  /\ prior' = [prior EXCEPT ![t] = None]
  /\ symbol' = [symbol EXCEPT ![t] = None]
  /\ found' = [found EXCEPT ![t] = None]
  /\ UNCHANGED alive

\* Mutation of CommitEdit: the new version is recorded, not the prior one.
CommitEditAhead(e) ==
  /\ step[e] = "flushed"
  /\ alive
  /\ symbol[e].version \notin history
  /\ row' = Merge(symbol[e], found[e], row)
  /\ history' = history \cup {symbol[e].version}
  /\ Close(e)

\* Mutation of CommitEdit: without the unique constraint.
CommitEditUnchecked(e) ==
  /\ step[e] = "flushed"
  /\ alive
  /\ row' = Merge(symbol[e], found[e], row)
  /\ history' = history \cup {prior[e].version}
  /\ Close(e)

\* add_version and commit.  A version that is there already violates
\* uq_symbol_version, a symbol that is gone the foreign key (Abort).
CommitEdit(e) ==
  /\ step[e] = "flushed"
  /\ alive
  /\ prior[e].version \notin history
  /\ row' = Merge(symbol[e], found[e], row)
  /\ history' = history \cup {prior[e].version}
  /\ Close(e)

\* The handler's transaction commits, with everything it has flushed.
CommitHandle(h) ==
  /\ step[h] = "flushed"
  /\ row' = Merge(symbol[h], found[h], row)
  /\ UNCHANGED history
  /\ Close(h)

\* An exception, or the end of the process: the transaction is rolled back.
Abort(t) ==
  /\ step[t] # "idle"
  /\ UNCHANGED <<row, history>>
  /\ Close(t)

\* handle_pdf_extract commits its delete of the document's symbols, which
\* waited for the row's lock; the versions go by cascade.
Rebuild ==
  /\ alive
  /\ lock = None
  /\ alive' = FALSE
  /\ history' = {}
  /\ UNCHANGED <<row, lock, sessionVars>>

-----------------------------------------------------------------------------
(* The specification                                                       *)

\* A detection: version 1, no history.
Init ==
  /\ alive = TRUE
  /\ row \in [geometry: Values, label: Values, version: {1}]
  /\ history = {}
  /\ lock = None
  /\ step = [t \in Sessions |-> "idle"]
  /\ prior = [t \in Sessions |-> None]
  /\ symbol = [t \in Sessions |-> None]
  /\ found = [t \in Sessions |-> None]

EditorStep(e) ==
  \/ \E g, l \in Values : BeginEdit(e, g, l)
  \/ Refetch(e) \/ Flush(e) \/ CommitEdit(e) \/ Abort(e)

HandlerStep(h) ==
  \/ \E l \in Values : BeginHandle(h, l)
  \/ Refetch(h) \/ Flush(h) \/ CommitHandle(h) \/ Abort(h)

Next ==
  \/ \E e \in Editors : EditorStep(e)
  \/ \E h \in Handlers : HandlerStep(h)
  \/ Rebuild

Spec == Init /\ [][Next]_vars

-----------------------------------------------------------------------------
(* Properties                                                              *)

\* Every variable has its type; a session that has saved a change which was
\* not empty holds the row, and only such a session does.
TypeOK ==
  /\ alive \in BOOLEAN
  /\ row \in SymbolRow
  /\ history \in SUBSET Nat
  /\ lock \in Sessions \cup {None}
  /\ step \in [Sessions -> {"idle", "loaded", "fetched", "flushed"}]
  /\ \A m \in {prior, symbol, found} : m \in [Sessions -> SymbolRow \cup {None}]
  /\ \A t \in Sessions :
       /\ step[t] # "idle" => prior[t] \in SymbolRow /\ symbol[t] \in SymbolRow
       /\ step[t] \in {"fetched", "flushed"} => found[t] \in SymbolRow
       /\ lock = t <=> step[t] = "flushed" /\ symbol[t] # found[t]

\* The history of a symbol has no gap, whatever handlers write over its
\* version: every version below one that is recorded, or below the current
\* one, is recorded.  Two edits of one version never both commit.
HistoryIsContiguous ==
  alive => \A v \in history \cup {row.version} : \A u \in 1..(v - 1) : u \in history

\* No commit of an edit takes the version back; a handler's can, with the
\* version it read before the edits it overwrites.
OnlyHandlersRollBack ==
  [][row'.version < row.version =>
       \E h \in Handlers : step[h] = "flushed" /\ step'[h] = "idle"]_vars

\* An edit that commits leaves the symbol at a version that is not recorded
\* yet, so that the next edit can commit.
EditLeavesEditable ==
  [][history' # history /\ alive' => row'.version \notin history']_vars

\* README:228: every edit snapshots the prior state into symbol_versions: the
\* state an edit replaces is the state it recorded.  It is so without stage
\* handlers; one that commits between the read and the commit of an edit
\* leaves a state that no snapshot has.
SnapshotsPriorState ==
  [][\A e \in Editors :
       step[e] = "flushed" /\ step'[e] = "idle" /\ history' # history => prior[e] = row]_vars

\* The version a symbol is at can still be recorded: an edit can commit.
Editable == alive => row.version \notin history
=============================================================================
