------------------------ MODULE SymbolEditing_proofs -------------------------
(***************************************************************************)
(* Theorems about SymbolEditing, for any sets of requests and handlers.    *)
(***************************************************************************)
EXTENDS SymbolEditing, TLAPS

\* A merged row is a row, and its version is the entity's or the current one.
LEMMA MergeType ==
  ASSUME NEW a \in SymbolRow, NEW f \in SymbolRow, NEW r \in SymbolRow
  PROVE  /\ Merge(a, f, r) \in SymbolRow
         /\ Merge(a, f, r).version = IF a.version = f.version THEN r.version ELSE a.version
BY DEF Merge, SymbolRow

-----------------------------------------------------------------------------
(* Type correctness                                                        *)

\* A session that reads the symbol keeps the types.
LEMMA LoadType ==
  ASSUME TypeOK, NEW t \in Sessions, NEW entity \in SymbolRow, Load(t, entity)
  PROVE  TypeOK'
BY DEF TypeOK, Load

\* A session that ends, one way or another, keeps the types.
LEMMA CloseType ==
  ASSUME TypeOK, NEW t \in Sessions, Close(t), row' \in SymbolRow, history' \in SUBSET Nat
  PROVE  TypeOK'
BY EditingAssumption DEF TypeOK, Close, Sessions

\* Every step keeps the types.
LEMMA TypeStep == TypeOK /\ [Next]_vars => TypeOK'
<1> SUFFICES ASSUME TypeOK, [Next]_vars
             PROVE  TypeOK'
  OBVIOUS
<1>1. ASSUME NEW e \in Editors, NEW g \in Values, NEW l \in Values, BeginEdit(e, g, l)
      PROVE  TypeOK'
  <2> DEFINE entity == [geometry |-> g, label |-> l, version |-> row.version + 1]
  <2>1. entity \in SymbolRow
    BY DEF TypeOK, SymbolRow
  <2> QED
    BY <1>1, <2>1, LoadType DEF BeginEdit, Sessions
<1>2. ASSUME NEW h \in Handlers, NEW l \in Values, BeginHandle(h, l)
      PROVE  TypeOK'
  <2>1. [row EXCEPT !.label = l] \in SymbolRow
    BY DEF TypeOK, SymbolRow
  <2> QED
    BY <1>2, <2>1, LoadType DEF BeginHandle, Sessions
<1>3. ASSUME NEW t \in Sessions, Refetch(t)
      PROVE  TypeOK'
  BY <1>3 DEF Refetch, TypeOK
<1>4. ASSUME NEW t \in Sessions, Flush(t)
      PROVE  TypeOK'
  BY <1>4, EditingAssumption DEF Flush, TypeOK, Sessions
<1>5. ASSUME NEW e \in Editors, CommitEdit(e)
      PROVE  TypeOK'
  <2>1. e \in Sessions /\ prior[e] \in SymbolRow /\ symbol[e] \in SymbolRow /\ found[e] \in SymbolRow
    BY <1>5 DEF CommitEdit, TypeOK, Sessions
  <2>2. row' \in SymbolRow /\ history' \in SUBSET Nat
    BY <1>5, <2>1, MergeType DEF CommitEdit, TypeOK, SymbolRow
  <2> QED
    BY <1>5, <2>1, <2>2, CloseType DEF CommitEdit
<1>6. ASSUME NEW h \in Handlers, CommitHandle(h)
      PROVE  TypeOK'
  <2>1. h \in Sessions /\ symbol[h] \in SymbolRow /\ found[h] \in SymbolRow
    BY <1>6 DEF CommitHandle, TypeOK, Sessions
  <2>2. row' \in SymbolRow /\ history' \in SUBSET Nat
    BY <1>6, <2>1, MergeType DEF CommitHandle, TypeOK
  <2> QED
    BY <1>6, <2>1, <2>2, CloseType DEF CommitHandle
<1>7. ASSUME NEW t \in Sessions, Abort(t)
      PROVE  TypeOK'
  BY <1>7, CloseType DEF Abort, TypeOK
<1>8. CASE Rebuild
  BY <1>8 DEF Rebuild, TypeOK, sessionVars
<1>9. CASE UNCHANGED vars
  BY <1>9 DEF TypeOK, vars, sessionVars
<1> QED
  BY <1>1, <1>2, <1>3, <1>4, <1>5, <1>6, <1>7, <1>8, <1>9 DEF Next, EditorStep, HandlerStep, Sessions

\* Type correctness, for every value of the constants.
THEOREM EditingTypeCorrect == Spec => []TypeOK
<1>1. Init => TypeOK
  BY EditingAssumption DEF Init, TypeOK, SymbolRow, Sessions
<1> QED
  BY <1>1, TypeStep, PTL DEF Spec

-----------------------------------------------------------------------------
(* The history has no gap.                                                 *)
(*                                                                         *)
(* HistoryIsContiguous is not inductive, because a commit writes a version *)
(* that was read before.  What is inductive adds that the versions below   *)
(* every version in some session's memory are recorded too: history only   *)
(* grows while the symbol lives.                                           *)

\* Every version below v is recorded.
Past(v) == \A u \in 1..(v - 1) : u \in history

SessionPast(t) ==
  /\ step[t] # "idle" =>
       /\ prior[t].version >= 1 /\ Past(prior[t].version)
       /\ symbol[t].version = IF t \in Editors THEN prior[t].version + 1 ELSE prior[t].version
  /\ step[t] \in {"fetched", "flushed"} => Past(found[t].version)

VersionInv ==
  alive => /\ row.version >= 1
           /\ \A v \in history \cup {row.version} : Past(v)
           /\ \A t \in Sessions : SessionPast(t)

\* While the symbol lives the history only grows, so that what is past stays
\* past.
LEMMA PastStays ==
  ASSUME history \subseteq history', NEW CONSTANT v, Past(v)
  PROVE  Past(v)'
BY DEF Past

\* A session that did not move keeps its part.
LEMMA SessionStays ==
  ASSUME history \subseteq history', NEW CONSTANT t \in Sessions, SessionPast(t),
         step'[t] = step[t], prior'[t] = prior[t], symbol'[t] = symbol[t], found'[t] = found[t]
  PROVE  SessionPast(t)'
BY DEF SessionPast, Past

\* The edit that commits records the newest version but one and leaves the
\* symbol at the newest.
LEMMA CommitEditVersion ==
  ASSUME TypeOK, VersionInv, NEW CONSTANT e \in Editors, CommitEdit(e)
  PROVE  /\ prior[e].version \in Nat \ {0} /\ row.version \in Nat
         /\ row'.version = prior[e].version + 1
         /\ row.version <= prior[e].version
         /\ Past(prior[e].version) /\ prior[e].version \notin history
         /\ \A v \in history : v < prior[e].version
<1>1. e \in Sessions /\ prior[e] \in SymbolRow /\ symbol[e] \in SymbolRow /\ found[e] \in SymbolRow
      /\ row \in SymbolRow /\ history \in SUBSET Nat
  BY DEF CommitEdit, TypeOK, Sessions
<1>2. /\ prior[e].version \in Nat \ {0} /\ found[e].version \in Nat /\ row.version \in Nat
  BY <1>1 DEF CommitEdit, VersionInv, SessionPast, SymbolRow
<1>3. /\ Past(prior[e].version) /\ Past(found[e].version) /\ Past(row.version)
      /\ \A v \in history : Past(v)
      /\ symbol[e].version = prior[e].version + 1
  BY <1>1 DEF CommitEdit, VersionInv, SessionPast
<1>4. prior[e].version \notin history
  BY DEF CommitEdit
<1>5. ASSUME NEW v \in Nat, Past(v)
      PROVE  v <= prior[e].version
  BY <1>2, <1>4, <1>5 DEF Past
<1>6. found[e].version <= prior[e].version /\ row.version <= prior[e].version
  BY <1>2, <1>3, <1>5
<1>7. \A v \in history : v < prior[e].version
  BY <1>1, <1>2, <1>3, <1>4, <1>5
<1>8. row'.version = prior[e].version + 1
  BY <1>1, <1>2, <1>3, <1>6, MergeType DEF CommitEdit
<1> QED
  BY <1>2, <1>3, <1>4, <1>6, <1>7, <1>8

\* Every step keeps VersionInv.
LEMMA VersionStep == TypeOK /\ TypeOK' /\ VersionInv /\ [Next]_vars => VersionInv'
<1> SUFFICES ASSUME TypeOK, TypeOK', VersionInv, [Next]_vars, alive'
             PROVE  VersionInv'
  BY DEF VersionInv
<1>1. ASSUME NEW CONSTANT t \in Sessions, NEW CONSTANT d \in {0, 1}, NEW entity \in SymbolRow,
             Load(t, entity), entity.version = row.version + d, d = IF t \in Editors THEN 1 ELSE 0
      PROVE  VersionInv'
  <2>1. alive /\ UNCHANGED <<row, history, found>>
    BY <1>1 DEF Load
  <2>2. row.version >= 1 /\ row.version \in Nat /\ \A v \in history \cup {row.version} : Past(v)
    BY <2>1 DEF VersionInv, TypeOK, SymbolRow
  <2>3. \A v \in history \cup {row.version} : Past(v)'
    BY <2>1, <2>2 DEF Past
  <2>4. SessionPast(t)'
    <3>1. step'[t] = "loaded" /\ prior'[t] = row /\ symbol'[t] = entity
      BY <1>1 DEF Load, TypeOK
    <3>2. prior'[t].version >= 1 /\ \A u \in 1..(prior'[t].version - 1) : u \in history'
      BY <2>1, <2>2, <3>1 DEF Past
    <3> QED
      BY <1>1, <2>2, <3>1, <3>2 DEF SessionPast, Past
  <2>5. \A s \in Sessions : SessionPast(s)'
    <3> SUFFICES ASSUME NEW CONSTANT s \in Sessions, s # t PROVE SessionPast(s)'
      BY <2>4
    <3>1. step'[s] = step[s] /\ prior'[s] = prior[s] /\ symbol'[s] = symbol[s] /\ found'[s] = found[s]
      BY <1>1 DEF Load, TypeOK
    <3> QED
      BY <2>1, <3>1, SessionStays DEF VersionInv
  <2> QED
    BY <2>1, <2>2, <2>3, <2>5 DEF VersionInv
<1>2. ASSUME NEW CONSTANT t \in Sessions, Refetch(t)
      PROVE  VersionInv'
  <2>1. alive /\ UNCHANGED <<row, history, prior, symbol>>
    BY <1>2 DEF Refetch
  <2>2. SessionPast(t)'
    BY <1>2, <2>1 DEF Refetch, VersionInv, SessionPast, Past, TypeOK
  <2>3. \A s \in Sessions : SessionPast(s)'
    <3> SUFFICES ASSUME NEW CONSTANT s \in Sessions, s # t PROVE SessionPast(s)'
      BY <2>2
    <3>1. step'[s] = step[s] /\ prior'[s] = prior[s] /\ symbol'[s] = symbol[s] /\ found'[s] = found[s]
      BY <1>2 DEF Refetch, TypeOK
    <3> QED
      BY <2>1, <3>1, SessionStays DEF VersionInv
  <2> QED
    BY <2>1, <2>3 DEF VersionInv, Past
<1>3. ASSUME NEW CONSTANT t \in Sessions, Flush(t)
      PROVE  VersionInv'
  <2>1. alive /\ UNCHANGED <<row, history, prior, symbol, found>>
    BY <1>3 DEF Flush
  <2>2. \A s \in Sessions : SessionPast(s)'
    BY <1>3, <2>1 DEF Flush, VersionInv, SessionPast, Past, TypeOK
  <2> QED
    BY <2>1, <2>2 DEF VersionInv, Past
<1>4. ASSUME NEW CONSTANT t \in Sessions, Close(t), history \subseteq history'
      PROVE  alive /\ \A s \in Sessions : SessionPast(s)'
  <2>1. alive
    BY <1>4 DEF Close
  <2>2. SessionPast(t)'
    BY <1>4 DEF Close, TypeOK, SessionPast
  <2>3. \A s \in Sessions : SessionPast(s)'
    <3> SUFFICES ASSUME NEW CONSTANT s \in Sessions, s # t PROVE SessionPast(s)'
      BY <2>2
    <3>1. step'[s] = step[s] /\ prior'[s] = prior[s] /\ symbol'[s] = symbol[s] /\ found'[s] = found[s]
      BY <1>4 DEF Close, TypeOK
    <3> QED
      BY <1>4, <2>1, <3>1, SessionStays DEF VersionInv
  <2> QED
    BY <2>1, <2>3
<1>5. ASSUME NEW CONSTANT e \in Editors, CommitEdit(e)
      PROVE  VersionInv'
  <2>1. history' = history \cup {prior[e].version} /\ Close(e) /\ e \in Sessions
    BY <1>5 DEF CommitEdit, Sessions
  <2>2. alive /\ \A s \in Sessions : SessionPast(s)'
    BY <1>4, <2>1
  <2>3. /\ prior[e].version \in Nat \ {0} /\ row'.version = prior[e].version + 1
        /\ Past(prior[e].version)
    BY <1>5, CommitEditVersion
  <2>4. \A v \in history \cup {row'.version, prior[e].version} : \A u \in 1..(v - 1) : u \in history'
    <3> SUFFICES ASSUME NEW v \in history \cup {row'.version, prior[e].version}, NEW u \in 1..(v - 1)
                 PROVE  u \in history'
      OBVIOUS
    <3>1. CASE v \in history
      BY <2>1, <2>2, <3>1 DEF VersionInv, Past
    <3>2. CASE v = prior[e].version
      BY <2>1, <2>3, <3>2 DEF Past
    <3>3. CASE v = row'.version
      <4>1. u \in 1..(prior[e].version - 1) \/ u = prior[e].version
        BY <2>3, <3>3
      <4> QED
        BY <2>1, <2>3, <4>1 DEF Past
    <3> QED
      BY <3>1, <3>2, <3>3
  <2> QED
    BY <2>1, <2>2, <2>3, <2>4 DEF VersionInv, Past
<1>6. ASSUME NEW CONSTANT h \in Handlers, CommitHandle(h)
      PROVE  VersionInv'
  <2>1. history' = history /\ Close(h) /\ h \in Sessions /\ h \notin Editors
    BY <1>6, EditingAssumption DEF CommitHandle, Sessions
  <2>2. alive /\ \A s \in Sessions : SessionPast(s)'
    BY <1>4, <2>1
  <2>3. symbol[h] \in SymbolRow /\ found[h] \in SymbolRow /\ row \in SymbolRow
    BY <1>6, <2>1 DEF CommitHandle, TypeOK
  <2>4. row'.version \in {row.version, prior[h].version}
    BY <1>6, <2>1, <2>2, <2>3, MergeType DEF CommitHandle, VersionInv, SessionPast
  <2>5. row'.version >= 1 /\ Past(row'.version)
    BY <1>6, <2>1, <2>2, <2>4 DEF CommitHandle, VersionInv, SessionPast
  <2> QED
    BY <2>1, <2>2, <2>5 DEF VersionInv, Past
<1>7. ASSUME NEW CONSTANT t \in Sessions, Abort(t)
      PROVE  VersionInv'
  <2>1. UNCHANGED <<row, history>> /\ Close(t)
    BY <1>7 DEF Abort
  <2>2. alive /\ \A s \in Sessions : SessionPast(s)'
    BY <1>4, <2>1
  <2> QED
    BY <2>1, <2>2 DEF VersionInv, Past
<1>8. CASE Rebuild
  BY <1>8 DEF Rebuild
<1>9. CASE UNCHANGED vars
  BY <1>9 DEF VersionInv, SessionPast, Past, vars, sessionVars
<1>10. ASSUME NEW CONSTANT e \in Editors, NEW g \in Values, NEW l \in Values, BeginEdit(e, g, l)
       PROVE  VersionInv'
  <2> DEFINE entity == [geometry |-> g, label |-> l, version |-> row.version + 1]
  <2>1. entity \in SymbolRow /\ entity.version = row.version + 1
    BY DEF TypeOK, SymbolRow
  <2>2. Load(e, entity)
    BY <1>10 DEF BeginEdit
  <2> HIDE DEF entity
  <2> QED
    BY <1>1, <2>1, <2>2 DEF Sessions
<1>11. ASSUME NEW CONSTANT h \in Handlers, NEW l \in Values, BeginHandle(h, l)
       PROVE  VersionInv'
  <2> DEFINE entity == [row EXCEPT !.label = l]
  <2>1. entity \in SymbolRow /\ entity.version = row.version + 0
    BY DEF TypeOK, SymbolRow
  <2>2. Load(h, entity)
    BY <1>11 DEF BeginHandle
  <2> HIDE DEF entity
  <2> QED
    BY <1>1, <2>1, <2>2, EditingAssumption DEF Sessions
<1> QED
  BY <1>2, <1>3, <1>5, <1>6, <1>7, <1>8, <1>9, <1>10, <1>11 DEF Next, EditorStep, HandlerStep, Sessions

\* The bookkeeping of versions, for any requests and handlers and whatever is
\* rolled back: the history has no gap, an edit leaves the symbol at a version
\* that the next edit can record, and only a handler can take it back.
THEOREM HistoryIsSound == Spec => []HistoryIsContiguous /\ EditLeavesEditable /\ OnlyHandlersRollBack
<1>1. Init => VersionInv
  BY EditingAssumption DEF Init, VersionInv, SessionPast, Past, Sessions
<1>2. Spec => []VersionInv
  BY <1>1, VersionStep, EditingTypeCorrect, PTL DEF Spec
<1>3. VersionInv => HistoryIsContiguous
  BY DEF VersionInv, HistoryIsContiguous, Past
<1>4. ASSUME TypeOK, VersionInv, [Next]_vars, history' # history, alive'
      PROVE  row'.version \notin history'
  <2>1. PICK e \in Editors : CommitEdit(e)
    BY <1>4 DEF Next, EditorStep, HandlerStep, BeginEdit, BeginHandle, Load, Refetch, Flush, CommitHandle, Abort,
       Rebuild, vars
  <2>2. /\ prior[e].version \in Nat /\ row'.version = prior[e].version + 1
        /\ \A v \in history : v < prior[e].version
    BY <1>4, <2>1, CommitEditVersion
  <2>3. history' = history \cup {prior[e].version} /\ history \in SUBSET Nat
    BY <1>4, <2>1 DEF CommitEdit, TypeOK
  <2> QED
    BY <2>2, <2>3
<1>5. ASSUME TypeOK, VersionInv, [Next]_vars, row'.version < row.version
      PROVE  \E h \in Handlers : step[h] = "flushed" /\ step'[h] = "idle"
  <2>1. row.version \in Nat
    BY <1>5 DEF TypeOK, SymbolRow
  <2>2. ~ \E e \in Editors : CommitEdit(e)
    <3> SUFFICES ASSUME NEW e \in Editors, CommitEdit(e) PROVE FALSE
      OBVIOUS
    <3>1. /\ prior[e].version \in Nat /\ row'.version = prior[e].version + 1
          /\ row.version <= prior[e].version
      BY <1>5, CommitEditVersion
    <3> QED
      BY <1>5, <2>1, <3>1
  <2>3. row' # row
    BY <1>5, <2>1
  <2>4. PICK h \in Handlers : CommitHandle(h)
    BY <1>5, <2>2, <2>3 DEF Next, EditorStep, HandlerStep, BeginEdit, BeginHandle, Load, Refetch, Flush, Abort,
       Rebuild, vars
  <2>5. step[h] = "flushed" /\ step'[h] = "idle"
    BY <1>5, <2>4 DEF CommitHandle, Close, TypeOK, Sessions
  <2> QED
    BY <2>5
<1>6. TypeOK /\ VersionInv /\ [Next]_vars => [history' # history /\ alive' => row'.version \notin history']_vars
  BY <1>4
<1>7. TypeOK /\ VersionInv /\ [Next]_vars =>
        [row'.version < row.version => \E h \in Handlers : step[h] = "flushed" /\ step'[h] = "idle"]_vars
  BY <1>5
<1> QED
  BY <1>2, <1>3, <1>6, <1>7, EditingTypeCorrect, PTL DEF Spec, EditLeavesEditable, OnlyHandlersRollBack

-----------------------------------------------------------------------------
(* Edits among themselves                                                  *)

\* A request remembers the symbol as it is, or a version that is over.
UpToDate(t) ==
  step[t] # "idle" =>
    prior[t].version <= row.version /\ (prior[t].version = row.version => prior[t] = row)

AloneInv == alive => row.version \notin history /\ \A t \in Sessions : UpToDate(t)

\* With no handler at work the constraint on versions makes editing
\* optimistic: an edit that commits has seen the state it replaces and records
\* it, and the symbol can always be edited.
THEOREM EditsAreOptimistic ==
  ASSUME Handlers = {}
  PROVE  Spec => SnapshotsPriorState /\ []Editable
<1>1. Init => VersionInv /\ AloneInv
  BY EditingAssumption DEF Init, VersionInv, SessionPast, Past, Sessions, AloneInv, UpToDate
<1>2. ASSUME TypeOK, VersionInv, AloneInv, NEW CONSTANT e \in Editors, CommitEdit(e)
      PROVE  prior[e] = row
  <2>1. row.version <= prior[e].version /\ prior[e].version \in Nat /\ row.version \in Nat
    BY <1>2, CommitEditVersion
  <2>2. prior[e].version <= row.version /\ (prior[e].version = row.version => prior[e] = row)
    BY <1>2 DEF CommitEdit, AloneInv, UpToDate, Sessions
  <2> QED
    BY <2>1, <2>2
<1>3. TypeOK /\ TypeOK' /\ VersionInv /\ AloneInv /\ [Next]_vars => AloneInv'
  <2> SUFFICES ASSUME TypeOK, TypeOK', VersionInv, AloneInv, [Next]_vars, alive'
               PROVE  AloneInv'
    BY DEF AloneInv
  <2>1. ASSUME NEW t \in Sessions, UNCHANGED <<alive, row, history>>,
               step'[t] # "idle" => (step[t] # "idle" /\ prior'[t] = prior[t]) \/ prior'[t] = row,
               \A s \in Sessions \ {t} : step'[s] = step[s] /\ prior'[s] = prior[s]
        PROVE  AloneInv'
    <3>1. row.version \in Nat
      BY DEF TypeOK, SymbolRow
    <3> QED
      BY <2>1, <3>1 DEF AloneInv, UpToDate
  <2>2. ASSUME NEW e \in Editors, NEW g \in Values, NEW l \in Values, BeginEdit(e, g, l)
        PROVE  AloneInv'
    BY <2>1, <2>2 DEF BeginEdit, Load, TypeOK, Sessions
  <2>3. ASSUME NEW e \in Editors, Refetch(e) \/ Flush(e) \/ Abort(e)
        PROVE  AloneInv'
    <3>1. /\ e \in Sessions /\ UNCHANGED <<alive, row, history>>
          /\ step'[e] # "idle" => step[e] # "idle" /\ prior'[e] = prior[e]
          /\ \A s \in Sessions \ {e} : step'[s] = step[s] /\ prior'[s] = prior[s]
      BY <2>3 DEF Refetch, Flush, Abort, Close, TypeOK, Sessions
    <3> QED
      BY <2>1, <3>1
  <2>4. ASSUME NEW CONSTANT e \in Editors, CommitEdit(e)
        PROVE  AloneInv'
    <3>1. /\ prior[e].version \in Nat /\ row'.version = prior[e].version + 1
          /\ \A v \in history : v < prior[e].version
          /\ prior[e] = row
      BY <1>2, <2>4, CommitEditVersion
    <3>2. history' = history \cup {prior[e].version} /\ history \in SUBSET Nat /\ alive
      BY <2>4 DEF CommitEdit, TypeOK
    <3>3. row'.version \notin history'
      BY <3>1, <3>2
    <3>4. ASSUME NEW CONSTANT s \in Sessions, step'[s] # "idle"
          PROVE  prior'[s].version < row'.version /\ prior'[s].version \in Nat /\ row'.version \in Nat
      <4>1. step[s] # "idle" /\ prior'[s] = prior[s]
        BY <2>4, <3>4 DEF CommitEdit, Close, TypeOK, Sessions
      <4>2. prior[s].version <= row.version /\ prior[s].version \in Nat
        BY <3>2, <4>1 DEF AloneInv, UpToDate, TypeOK, SymbolRow
      <4> QED
        BY <3>1, <4>1, <4>2
    <3>5. \A s \in Sessions : UpToDate(s)'
      BY <3>4 DEF UpToDate
    <3> QED
      BY <3>3, <3>5 DEF AloneInv
  <2>5. CASE Rebuild
    BY <2>5 DEF Rebuild
  <2>6. CASE UNCHANGED vars
    BY <2>6 DEF AloneInv, UpToDate, vars, sessionVars
  <2> QED
    BY <2>2, <2>3, <2>4, <2>5, <2>6 DEF Next, EditorStep
<1>4. Spec => [](VersionInv /\ AloneInv)
  BY <1>1, <1>3, VersionStep, EditingTypeCorrect, PTL DEF Spec
<1>5. AloneInv => Editable
  BY DEF AloneInv, Editable
<1>6. ASSUME TypeOK, VersionInv, AloneInv, [Next]_vars, NEW CONSTANT e \in Editors,
             step[e] = "flushed", step'[e] = "idle", history' # history
      PROVE  prior[e] = row
  <2>1. CASE Rebuild
    BY <1>6, <2>1 DEF Rebuild, sessionVars
  <2>2. PICK f \in Editors : CommitEdit(f) \/ Rebuild
    BY <1>6 DEF Next, EditorStep, BeginEdit, Load, Refetch, Flush, Abort, vars
  <2>3. CASE CommitEdit(f)
    <3>1. f = e
      BY <1>6, <2>3 DEF CommitEdit, Close, TypeOK, Sessions
    <3> QED
      BY <1>2, <1>6, <2>3, <3>1
  <2> QED
    BY <2>1, <2>2, <2>3
<1>7. TypeOK /\ VersionInv /\ AloneInv /\ [Next]_vars =>
        [\A e \in Editors : step[e] = "flushed" /\ step'[e] = "idle" /\ history' # history => prior[e] = row]_vars
  BY <1>6
<1> QED
  BY <1>4, <1>5, <1>7, EditingTypeCorrect, PTL DEF Spec, SnapshotsPriorState
=============================================================================
