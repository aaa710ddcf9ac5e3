------------------------- MODULE CanvasPage_proofs --------------------------
(***************************************************************************)
(* Theorems about CanvasPage, for every set of tabs, of property keys, of  *)
(* axes and of lengths, and every number of changes.                       *)
(*                                                                         *)
(* Neither what a quiet tab shows nor what the badge says is inductive:    *)
(* both rest on what is under way.  The invariant follows an edit from the *)
(* drop to the data that brings it back, tells where a coordinate of a     *)
(* node may come from, and orders the versions and the saves a tab can     *)
(* know of.                                                                *)
(***************************************************************************)
EXTENDS CanvasPage, TLAPS

\* No two rows with the same key.
Unique(P) == \A p, q \in P : p.key = q.key => p = q

\* A version of the symbol that has been there: the newest is the row itself,
\* and no drop was saved since the one that has put the symbol where it is.
Known(s) ==
  /\ s.version <= symbol.version /\ (s.version = symbol.version => s = symbol)
  /\ lastMove # 0 /\ change[lastMove].made <= s.version => s.at = symbol.at

Committed(n) == change[n].phase \in {"stored", "done"}

Answering(t) == fetch[t] \notin {None, Asked}

DataInv ==
  /\ \A t \in Tabs : cache[t] # None => Known(cache[t].symbol) /\ Unique(cache[t].properties)
  /\ \A t \in Tabs : Answering(t) =>
       /\ Known(fetch[t].symbol) /\ Unique(fetch[t].properties)
       /\ cache[t] # None => cache[t].symbol.version <= fetch[t].symbol.version
  /\ \A t \in Tabs : rows[t] # None => Unique(rows[t])

\* Requests are numbered in the order they are made.  One that its tab made
\* from the newest version has the size of the symbol, unless it is a resize.
ChangeInv ==
  \A n \in Changes :
    /\ change[n].phase = "new" => change[n].tab = None
    /\ change[n].phase # "new" =>
         /\ change[n].tab \in Tabs /\ cache[change[n].tab] # None
         /\ change[n].base <= symbol.version /\ Unique(change[n].rows)
         /\ change[n].kind = "drag" /\ change[n].base = symbol.version => change[n].size = symbol.size
         /\ change[n].phase = "scanned" => Save(n)
         /\ \A m \in Changes : m < n => change[m].phase # "new"

\* Tab t has the version that request n made, or will.
Brought(n, t) ==
  \/ cache[t].symbol.version >= change[n].made
  \/ fetch[t] = Asked
  \/ Answering(t) /\ fetch[t].symbol.version >= change[n].made

\* An edit made a version, and its tab has it, or will.
EditInv ==
  \A n \in Changes : Moves(n) /\ Committed(n) /\ change[n].tab \notin troubled =>
    /\ 0 < change[n].made /\ change[n].made <= symbol.version
    /\ change[n].phase = "done" => Brought(n, change[n].tab)

\* The symbol is where the drop that was saved last has put it.
MoveInv ==
  lastMove # 0 =>
    /\ Moves(lastMove) /\ Committed(lastMove)
    /\ symbol.at = change[lastMove].to /\ change[lastMove].made <= symbol.version

\* A coordinate of a node is the one the data has, or that of the tab's last drop.
NodeInv ==
  \A t \in Tabs, a \in Axes :
    cache[t] # None /\ node[t][a] # cache[t].symbol.at[a] =>
      \E n \in Changes : LastDrop(n, t) /\ node[t][a] = change[n].to[a]

\* As long as no two saves overlap, they are committed in the order they are
\* made, and each finds all the rows of the one before.
SaveInv ==
  /\ lastSave # 0 => Save(lastSave) /\ Committed(lastSave)
  /\ ~overlapped =>
       /\ \A n \in Changes : Uncommitted(n) => n > lastSave
       /\ \A n \in Changes : Save(n) /\ Committed(n) /\ change[n].tab \notin troubled => n <= lastSave
       /\ \A n \in Changes : change[n].phase = "scanned" => change[n].found = properties
       /\ lastSave # 0 => properties = change[lastSave].rows

CanvasInv == DataInv /\ ChangeInv /\ EditInv /\ MoveInv /\ NodeInv /\ SaveInv

-----------------------------------------------------------------------------
(* Type correctness                                                        *)

LEMMA Constants ==
  /\ MaxChanges \in Nat /\ None \notin Tabs /\ None # Asked /\ None \notin Data /\ Asked \notin Data
  /\ Drawn \in Positions /\ Extracted \in Symbol /\ New \in Change
<1>1. Drawn \in Positions /\ 0 \in Lengths
  BY CanvasAssumption DEF Drawn, Positions
<1> QED
  BY <1>1, CanvasAssumption, MarksAssumption DEF Extracted, New, Symbol, Change

\* What asking for a change writes down.
LEMMA Asks ==
  ASSUME TypeOK, NEW n \in Changes, NEW t \in Tabs, NEW sent \in Change, Ask(n, t, sent)
  PROVE  /\ cache[t] \in Data /\ cache[t] # None /\ change[n].phase = "new"
         /\ \A m \in Changes : m < n => change[m].phase # "new"
         /\ change' \in [Changes -> Change]
         /\ change'[n].kind = sent.kind /\ change'[n].tab = t /\ change'[n].phase = "sent"
         /\ change'[n].base = cache[t].symbol.version
         /\ change'[n].to = sent.to /\ change'[n].size = sent.size /\ change'[n].rows = sent.rows
         /\ \A m \in Changes : m # n => change'[m] = change[m]
<1> DEFINE asked == [sent EXCEPT !.tab = t, !.phase = "sent", !.base = cache[t].symbol.version]
<1>1. cache[t] # None /\ cache[t] \in Data /\ cache[t].symbol.version \in Nat
  BY DEF Ask, TypeOK, Data, Symbol
<1>2. /\ asked \in Change /\ asked.kind = sent.kind /\ asked.tab = t /\ asked.phase = "sent"
      /\ asked.base = cache[t].symbol.version
      /\ asked.to = sent.to /\ asked.size = sent.size /\ asked.rows = sent.rows
  BY <1>1 DEF Change
<1>3. change' = [change EXCEPT ![n] = asked] /\ change[n].phase = "new"
      /\ \A m \in Changes : m < n => change[m].phase # "new"
  BY DEF Ask
<1> HIDE DEF asked
<1>4. change' \in [Changes -> Change] /\ change'[n] = asked /\ \A m \in Changes : m # n => change'[m] = change[m]
  BY <1>2, <1>3 DEF TypeOK
<1> QED
  BY <1>1, <1>2, <1>3, <1>4

\* Request n goes on; it keeps what it was made with.
GoesOn(n, phase, found, made) ==
  /\ change' \in [Changes -> Change]
  /\ change'[n].phase = phase /\ change'[n].found = found /\ change'[n].made = made
  /\ change'[n].kind = change[n].kind /\ change'[n].tab = change[n].tab
  /\ change'[n].base = change[n].base /\ change'[n].rows = change[n].rows
  /\ change'[n].to = change[n].to /\ change'[n].size = change[n].size
  /\ \A m \in Changes : m # n => change'[m] = change[m]

LEMMA Advances ==
  ASSUME TypeOK, NEW n \in Changes, NEW phase \in {"new", "sent", "scanned", "stored", "done"},
         change' = [change EXCEPT ![n].phase = phase]
  PROVE  GoesOn(n, phase, change[n].found, change[n].made)
<1>1. change' \in [Changes -> Change] /\ change'[n] = [change[n] EXCEPT !.phase = phase]
      /\ \A m \in Changes : m # n => change'[m] = change[m]
  BY DEF TypeOK, Change
<1>2. change[n] \in Change
  BY DEF TypeOK
<1> QED
  BY <1>1, <1>2 DEF GoesOn, Change

LEMMA SaveAdvances ==
  ASSUME TypeOK, NEW n \in Changes, NEW phase \in {"new", "sent", "scanned", "stored", "done"},
         NEW found \in SUBSET Property,
         change' = [change EXCEPT ![n].phase = phase, ![n].found = found]
  PROVE  GoesOn(n, phase, found, change[n].made)
<1> DEFINE once == [change EXCEPT ![n].phase = phase]
<1>1. once \in [Changes -> Change] /\ once[n] = [change[n] EXCEPT !.phase = phase]
      /\ \A m \in Changes : m # n => once[m] = change[m]
  BY DEF TypeOK, Change
<1>2. change' = [once EXCEPT ![n].found = found]
  OBVIOUS
<1> HIDE DEF once
<1>3. change' \in [Changes -> Change] /\ change'[n] = [once[n] EXCEPT !.found = found]
      /\ \A m \in Changes : m # n => change'[m] = once[m]
  BY <1>1, <1>2 DEF Change
<1>4. change[n] \in Change
  BY DEF TypeOK
<1> QED
  BY <1>1, <1>3, <1>4 DEF GoesOn, Change

LEMMA EditAdvances ==
  ASSUME TypeOK, NEW n \in Changes, NEW made \in Nat,
         change' = [change EXCEPT ![n].phase = "stored", ![n].made = made]
  PROVE  GoesOn(n, "stored", change[n].found, made)
<1> DEFINE once == [change EXCEPT ![n].phase = "stored"]
<1>1. once \in [Changes -> Change] /\ once[n] = [change[n] EXCEPT !.phase = "stored"]
      /\ \A m \in Changes : m # n => once[m] = change[m]
  BY DEF TypeOK, Change
<1>2. change' = [once EXCEPT ![n].made = made]
  OBVIOUS
<1> HIDE DEF once
<1>3. change' \in [Changes -> Change] /\ change'[n] = [once[n] EXCEPT !.made = made]
      /\ \A m \in Changes : m # n => change'[m] = once[m]
  BY <1>1, <1>2 DEF Change
<1>4. change[n] \in Change
  BY DEF TypeOK
<1> QED
  BY <1>1, <1>3, <1>4 DEF GoesOn, Change

\* What an edit makes of the symbol.
LEMMA Edits ==
  ASSUME TypeOK, NEW n \in Changes, Edit(n)
  PROVE  /\ symbol' \in Symbol /\ symbol'.version = symbol.version + 1
         /\ symbol'.at = IF Moves(n) THEN change[n].to ELSE symbol.at
         /\ symbol'.size = IF Moves(n) THEN change[n].size ELSE symbol.size
         /\ lastMove' = IF Moves(n) THEN n ELSE lastMove
         /\ GoesOn(n, "stored", change[n].found, symbol.version + 1)
         /\ change[n].phase = "sent" /\ ~Save(n)
         /\ UNCHANGED <<properties, query, panel, lastSave, troubled, overlapped>>
<1>1. change[n].to \in Positions /\ change[n].size \in Lengths
  <2>1. change[n] \in Change
    BY DEF TypeOK
  <2> QED
    BY <2>1 DEF Change
<1>2. symbol.version \in Nat /\ symbol.at \in Positions /\ symbol.size \in Lengths
  BY DEF TypeOK, Symbol
<1>3. GoesOn(n, "stored", change[n].found, symbol.version + 1)
  <2>1. change' = [change EXCEPT ![n].phase = "stored", ![n].made = symbol.version + 1]
    BY DEF Edit, Stored
  <2>2. symbol.version + 1 \in Nat
    BY <1>2
  <2> QED
    BY <2>1, <2>2, EditAdvances
<1>4. /\ symbol' = [version |-> symbol.version + 1, at |-> IF Moves(n) THEN change[n].to ELSE symbol.at,
                    size |-> IF Moves(n) THEN change[n].size ELSE symbol.size]
      /\ lastMove' = (IF Moves(n) THEN n ELSE lastMove) /\ change[n].phase = "sent" /\ ~Save(n)
      /\ UNCHANGED <<properties, query, panel, lastSave, troubled, overlapped>>
  BY DEF Edit
<1> QED
  BY <1>1, <1>2, <1>3, <1>4 DEF Symbol

\* What the two steps of a save write down.
LEMMA Scans ==
  ASSUME TypeOK, NEW n \in Changes, DeleteProps(n)
  PROVE  /\ GoesOn(n, "scanned", properties, change[n].made)
         /\ change[n].phase = "sent" /\ Save(n)
         /\ UNCHANGED <<server, query, panel, history>>
<1>1. /\ change' = [change EXCEPT ![n].phase = "scanned", ![n].found = properties]
      /\ change[n].phase = "sent" /\ Save(n)
      /\ UNCHANGED <<server, query, panel, history>> /\ properties \in SUBSET Property
  BY DEF DeleteProps, TypeOK
<1> QED
  BY <1>1, SaveAdvances

LEMMA Stores ==
  ASSUME TypeOK, NEW n \in Changes, StoreProps(n)
  PROVE  /\ GoesOn(n, "stored", {}, change[n].made)
         /\ change[n].phase = "scanned" /\ lastSave' = n
         /\ overlapped' = (overlapped \/ \E m \in Changes \ {n} : Uncommitted(m))
         /\ properties' = (properties \ change[n].found) \cup change[n].rows
         /\ KeysOf(properties \ change[n].found) \cap KeysOf(change[n].rows) = {}
         /\ UNCHANGED <<symbol, query, panel, lastMove, troubled>>
<1>1. /\ change' = [change EXCEPT ![n].phase = "stored", ![n].found = {}] /\ {} \in SUBSET Property
      /\ change[n].phase = "scanned" /\ lastSave' = n
      /\ overlapped' = (overlapped \/ \E m \in Changes \ {n} : Uncommitted(m))
      /\ properties' = (properties \ change[n].found) \cup change[n].rows
      /\ KeysOf(properties \ change[n].found) \cap KeysOf(change[n].rows) = {}
      /\ UNCHANGED <<symbol, query, panel, lastMove, troubled>>
  BY DEF StoreProps, Store
<1> QED
  BY <1>1, SaveAdvances

\* What the answer to a request writes down.
LEMMA Answers ==
  ASSUME TypeOK, NEW n \in Changes, AnswerArrives(n)
  PROVE  /\ GoesOn(n, "done", change[n].found, change[n].made)
         /\ change[n].phase \in {"sent", "scanned", "stored"}
         /\ UNCHANGED <<server, lastMove, lastSave, overlapped>>
BY Advances DEF AnswerArrives, Acknowledge, ChangeFails, history

\* Typing keeps one row for each key.
LEMMA TypedRows ==
  ASSUME TypeOK, NEW t \in Tabs, NEW n \in Changes, NEW k \in Keys, rows[t] # None
  PROVE  Typed(t, n, k) \in SUBSET Property /\ (Unique(rows[t]) => Unique(Typed(t, n, k)))
<1>1. rows[t] \in SUBSET Property /\ [key |-> k, by |-> n] \in Property
  <2>1. rows[t] \in SUBSET Property
    BY DEF TypeOK
  <2>2. [key |-> k, by |-> n] \in Property
    BY DEF Property
  <2> QED
    BY <2>1, <2>2
<1>2. Typed(t, n, k) \in SUBSET Property
  BY <1>1 DEF Typed
<1>3. ASSUME Unique(rows[t]), NEW p \in Typed(t, n, k), NEW q \in Typed(t, n, k), p.key = q.key
      PROVE  p = q
  BY <1>3 DEF Typed, Unique
<1> QED
  BY <1>2, <1>3 DEF Unique

-----------------------------------------------------------------------------
(* What asking does                                                        *)

\* Who has asked for a change, and for what.
Made(n, t, sent) ==
  /\ change[n].phase = "new" /\ \A m \in Changes : m < n => change[m].phase # "new"
  /\ cache[t] # None /\ cache[t] \in Data
  /\ change' \in [Changes -> Change]
  /\ change'[n].kind = sent.kind /\ change'[n].tab = t /\ change'[n].phase = "sent"
  /\ change'[n].base = cache[t].symbol.version
  /\ change'[n].to = sent.to /\ change'[n].size = sent.size /\ change'[n].rows = sent.rows
  /\ \A m \in Changes : m # n => change'[m] = change[m]
  /\ sent.kind = "drag" => sent.size = cache[t].symbol.size
  /\ \/ sent.kind = "save" /\ rows[t] # None /\ \E k \in Keys : sent.rows = Typed(t, n, k)
     \/ sent.kind # "save" /\ sent.rows = {}
  /\ node' = IF sent.kind \in {"drag", "resize"} THEN [node EXCEPT ![t] = sent.to] ELSE node
  /\ UNCHANGED <<server, cache, fetch, invalid, saved, history>>
  /\ rows' \in [Tabs -> (SUBSET Property) \cup {None}]

\* The user asks for a change.
UserAsks(t, n) ==
  \/ \E to \in Positions : Drag(t, n, to) \/ \E size \in Lengths : Resize(t, n, to, size)
  \/ ChooseType(t, n)
  \/ \E k \in Keys : SaveProps(t, n, k)

LEMMA AskMade ==
  ASSUME TypeOK, NEW t \in Tabs, NEW n \in Changes, UserAsks(t, n)
  PROVE  \E sent \in Change : Made(n, t, sent)
<1>1. ASSUME NEW to \in Positions, Drag(t, n, to)
      PROVE  \E sent \in Change : Made(n, t, sent)
  <2> DEFINE sent == [New EXCEPT !.to = to, !.size = cache[t].symbol.size]
  <2>1. Ask(n, t, sent) /\ node' = [node EXCEPT ![t] = to] /\ rows' = rows
        /\ UNCHANGED <<server, cache, fetch, invalid, saved, history>>
    BY <1>1 DEF Drag, panel
  <2>2. cache[t].symbol.size \in Lengths
    BY <2>1 DEF Ask, TypeOK, Data, Symbol
  <2>3. sent \in Change /\ sent.kind = "drag" /\ sent.to = to /\ sent.size = cache[t].symbol.size /\ sent.rows = {}
    BY <2>2, Constants DEF New, Change
  <2> HIDE DEF sent
  <2>4. Made(n, t, sent)
    BY <2>1, <2>3, Asks DEF Made, TypeOK
  <2> QED
    BY <2>3, <2>4
<1>2. ASSUME NEW to \in Positions, NEW size \in Lengths, Resize(t, n, to, size)
      PROVE  \E sent \in Change : Made(n, t, sent)
  <2> DEFINE sent == [New EXCEPT !.kind = "resize", !.to = to, !.size = size]
  <2>1. Ask(n, t, sent) /\ node' = [node EXCEPT ![t] = to] /\ rows' = rows
        /\ UNCHANGED <<server, cache, fetch, invalid, saved, history>>
    BY <1>2 DEF Resize, panel
  <2>2. sent \in Change /\ sent.kind = "resize" /\ sent.to = to /\ sent.rows = {}
    BY Constants DEF New, Change
  <2> HIDE DEF sent
  <2>3. Made(n, t, sent)
    BY <2>1, <2>2, Asks DEF Made, TypeOK
  <2> QED
    BY <2>2, <2>3
<1>3. ASSUME ChooseType(t, n)
      PROVE  \E sent \in Change : Made(n, t, sent)
  <2> DEFINE sent == [New EXCEPT !.kind = "type"]
  <2>1. Ask(n, t, sent) /\ node' = node /\ rows' = rows
        /\ UNCHANGED <<server, cache, fetch, invalid, saved, history>>
    BY <1>3 DEF ChooseType, query, panel
  <2>2. sent \in Change /\ sent.kind = "type" /\ sent.rows = {}
    BY Constants DEF New, Change
  <2> HIDE DEF sent
  <2>3. Made(n, t, sent)
    BY <2>1, <2>2, Asks DEF Made, TypeOK
  <2> QED
    BY <2>2, <2>3
<1>4. ASSUME NEW k \in Keys, SaveProps(t, n, k)
      PROVE  \E sent \in Change : Made(n, t, sent)
  <2> DEFINE sent == [New EXCEPT !.kind = "save", !.rows = Typed(t, n, k)]
  <2>1. Ask(n, t, sent) /\ node' = node /\ rows[t] # None /\ rows' = [rows EXCEPT ![t] = Typed(t, n, k)]
        /\ UNCHANGED <<server, cache, fetch, invalid, saved, history>>
    BY <1>4 DEF SaveProps, query
  <2>2. Typed(t, n, k) \in SUBSET Property
    BY <2>1, TypedRows
  <2>3. sent \in Change /\ sent.kind = "save" /\ sent.rows = Typed(t, n, k)
    BY <2>2, Constants DEF New, Change
  <2>4. rows' \in [Tabs -> (SUBSET Property) \cup {None}]
    BY <2>1, <2>2 DEF TypeOK
  <2> HIDE DEF sent
  <2>5. Made(n, t, sent)
    BY <2>1, <2>3, <2>4, Asks DEF Made
  <2> QED
    BY <2>3, <2>5
<1> QED
  BY <1>1, <1>2, <1>3, <1>4 DEF UserAsks

LEMMA AskType ==
  ASSUME TypeOK, NEW t \in Tabs, NEW n \in Changes, UserAsks(t, n)
  PROVE  TypeOK'
<1>1. PICK sent \in Change : Made(n, t, sent)
  BY AskMade
<1>2. node' \in [Tabs -> Positions]
  <2>1. sent.to \in Positions
    BY DEF Change
  <2> QED
    BY <1>1, <2>1 DEF Made, TypeOK
<1> QED
  BY <1>1, <1>2 DEF Made, TypeOK, server, history

LEMMA QueryType ==
  ASSUME TypeOK, DataInv, NEW t \in Tabs, Refetch(t) \/ Select(t) \/ ClearSelection(t) \/ QueryStep(t)
  PROVE  TypeOK'
<1>1. CASE Refetch(t)
  BY <1>1, Constants DEF Refetch, TypeOK, server, panel, history
<1>2. CASE Select(t) \/ ClearSelection(t)
  <2>1. cache[t] # None => cache[t].properties \in SUBSET Property
    <3>1. cache[t] # None => cache[t] \in Data
      BY DEF TypeOK
    <3> QED
      BY <3>1 DEF Data
  <2>2. rows' \in [Tabs -> (SUBSET Property) \cup {None}] /\ saved' \subseteq Tabs
    BY <1>2, <2>1 DEF Select, ClearSelection, TypeOK
  <2> QED
    BY <1>2, <2>2 DEF Select, ClearSelection, TypeOK, server, query, history, Data
<1>3. CASE ServeSymbols(t)
  <2>1. [symbol |-> symbol, properties |-> properties] \in Data
    BY DEF TypeOK, Data
  <2> QED
    BY <1>3, <2>1, Constants DEF ServeSymbols, TypeOK, server, panel, history
<1>4. CASE SymbolsArrive(t)
  <2>1. fetch[t] \in Data /\ fetch[t].symbol \in Symbol /\ fetch[t].symbol.at \in Positions
    BY <1>4 DEF SymbolsArrive, TypeOK, Data, Symbol
  <2>2. fetch[t].symbol.version <= symbol.version
    BY <1>4 DEF SymbolsArrive, DataInv, Answering, Known
  <2>3. Rendered(t, fetch[t]) \in Positions
    <3>1. node[t] \in Positions
      BY DEF TypeOK
    <3> QED
      BY <2>1, <3>1 DEF Rendered, Positions
  <2>4. node' \in [Tabs -> Positions]
    BY <1>4, <2>3 DEF SymbolsArrive, TypeOK
  <2> QED
    BY <1>4, <2>1, <2>2, <2>4, Constants DEF SymbolsArrive, TypeOK, server, panel, history
<1>5. CASE FetchFails(t)
  BY <1>5, Constants DEF FetchFails, Trouble, TypeOK, server, panel
<1> QED
  BY <1>1, <1>2, <1>3, <1>4, <1>5 DEF QueryStep

LEMMA ChangeType ==
  ASSUME TypeOK, ChangeInv, NEW n \in Changes, ApiStep(n) \/ AnswerArrives(n)
  PROVE  TypeOK'
<1>1. change[n] \in Change /\ n \in 0 .. MaxChanges
  <2>1. n \in 0 .. MaxChanges
    BY Constants DEF Changes
  <2> QED
    BY <2>1 DEF TypeOK
<1>2. CASE Edit(n)
  <2>1. change' \in [Changes -> Change]
    BY <1>2, Edits DEF GoesOn
  <2>2. symbol' \in Symbol /\ symbol'.version = symbol.version + 1
    BY <1>2, Edits
  <2>3. UNCHANGED <<properties, query, panel, lastSave, troubled, overlapped>> /\ lastMove' \in 0 .. MaxChanges
    BY <1>1, <1>2, Edits DEF TypeOK
  <2> QED
    BY <2>1, <2>2, <2>3 DEF TypeOK, query, panel, Symbol, Data
<1>3. CASE DeleteProps(n)
  <2>1. change' \in [Changes -> Change]
    BY <1>3, Scans DEF GoesOn
  <2> QED
    BY <1>3, <2>1 DEF DeleteProps, TypeOK, server, query, panel, history
<1>4. CASE StoreProps(n)
  <2>1. change' \in [Changes -> Change]
    BY <1>4, Stores DEF GoesOn
  <2>2. properties' \in SUBSET Property /\ lastSave' \in 0 .. MaxChanges /\ overlapped' \in BOOLEAN
    BY <1>1, <1>4 DEF StoreProps, Store, TypeOK, Change
  <2>3. Unique(properties')
    <3>1. Unique(change[n].rows) /\ Unique(properties)
      BY <1>4 DEF StoreProps, Store, ChangeInv, TypeOK, Unique
    <3> QED
      BY <1>4, <3>1 DEF StoreProps, Store, Unique, KeysOf
  <2> QED
    BY <1>4, <2>1, <2>2, <2>3 DEF StoreProps, Store, TypeOK, query, panel, Unique
<1>5. CASE Acknowledge(n)
  <2>1. change' \in [Changes -> Change]
    BY <1>5, Answers DEF AnswerArrives, GoesOn
  <2>2. change[n].tab \in Tabs
    BY <1>5 DEF Acknowledge, ChangeInv
  <2>3. /\ fetch' \in [Tabs -> Data \cup {None, Asked}] /\ invalid' \subseteq Tabs
        /\ \A t \in invalid' : fetch'[t] # None \/ t \in troubled
    BY <1>5, <2>2, Constants DEF Acknowledge, TypeOK
  <2> QED
    BY <1>5, <2>1, <2>2, <2>3 DEF Acknowledge, TypeOK, server, history
<1>6. CASE ChangeFails(n)
  <2>1. change' \in [Changes -> Change]
    BY <1>6, Answers DEF AnswerArrives, GoesOn
  <2>2. change[n].tab \in Tabs
    BY <1>6 DEF ChangeFails, ChangeInv
  <2> QED
    BY <1>6, <2>1, <2>2 DEF ChangeFails, Trouble, TypeOK, server, query, panel
<1> QED
  BY <1>2, <1>3, <1>4, <1>5, <1>6 DEF ApiStep, AnswerArrives

LEMMA TypeStep == TypeOK /\ DataInv /\ ChangeInv /\ [Next]_vars => TypeOK'
<1> SUFFICES ASSUME TypeOK, DataInv, ChangeInv, [Next]_vars
             PROVE  TypeOK'
  OBVIOUS
<1>1. CASE UNCHANGED vars
  BY <1>1 DEF vars, server, query, panel, history, TypeOK
<1> QED
  BY <1>1, AskType, QueryType, ChangeType DEF Next, UserStep, UserAsks

-----------------------------------------------------------------------------
(* What a step can do                                                      *)

\* What becomes of the requests.
LEMMA RequestsStep ==
  ASSUME TypeOK, [Next]_vars
  PROVE  \/ UNCHANGED <<change, symbol, properties, lastMove, lastSave, overlapped>>
         \/ \E n \in Changes : ApiStep(n) \/ AnswerArrives(n)
         \/ \E n \in Changes, t \in Tabs, sent \in Change : Made(n, t, sent)
<1>1. ASSUME NEW t \in Tabs, QueryStep(t) \/ Refetch(t) \/ Select(t) \/ ClearSelection(t)
      PROVE  UNCHANGED <<change, symbol, properties, lastMove, lastSave, overlapped>>
  BY <1>1 DEF QueryStep, Refetch, ServeSymbols, SymbolsArrive, FetchFails, Select, ClearSelection, server, history
<1>2. CASE UNCHANGED vars
  BY <1>2 DEF vars, server, history
<1> QED
  BY <1>1, <1>2, AskMade DEF Next, UserStep, UserAsks

\* What was asked for stays, and what was committed stays committed.
LEMMA RequestsStay ==
  ASSUME TypeOK, [Next]_vars, NEW n \in Changes, change[n].phase # "new"
  PROVE  /\ change'[n].phase # "new" /\ change'[n].kind = change[n].kind /\ change'[n].tab = change[n].tab
         /\ change'[n].base = change[n].base /\ change'[n].rows = change[n].rows
         /\ change'[n].to = change[n].to /\ change'[n].size = change[n].size
         /\ Committed(n) => Committed(n)' /\ change'[n].made = change[n].made
         /\ change[n].phase = "done" => change'[n].phase = "done"
         /\ change'[n].phase = "scanned" => change[n].phase = "scanned" \/ DeleteProps(n)
         /\ change'[n].phase = "done" => change[n].phase = "done" \/ AnswerArrives(n)
         /\ Committed(n)' => Committed(n) \/ Edit(n) \/ StoreProps(n) \/ AnswerArrives(n)
<1>1. CASE change'[n] = change[n]
  BY <1>1 DEF Committed
<1>2. CASE Edit(n)
  BY <1>2, Edits DEF GoesOn, Committed
<1>3. CASE DeleteProps(n)
  BY <1>3, Scans DEF GoesOn, Committed
<1>4. CASE StoreProps(n)
  BY <1>4, Stores DEF GoesOn, Committed
<1>5. CASE AnswerArrives(n)
  BY <1>5, Answers DEF GoesOn, Committed
<1>6. ASSUME NEW m \in Changes, m # n, ApiStep(m) \/ AnswerArrives(m)
      PROVE  change'[n] = change[n]
  BY <1>6, Edits, Scans, Stores, Answers DEF ApiStep, GoesOn
<1>7. ASSUME NEW m \in Changes, NEW t \in Tabs, NEW sent \in Change, Made(m, t, sent)
      PROVE  change'[n] = change[n]
  BY <1>7 DEF Made
<1> QED
  BY <1>1, <1>2, <1>3, <1>4, <1>5, <1>6, <1>7, RequestsStep DEF ApiStep

\* What is new was asked for by somebody, or is so still.
LEMMA RequestsStart ==
  ASSUME TypeOK, [Next]_vars, NEW n \in Changes, change[n].phase = "new"
  PROVE  change'[n] = change[n] \/ \E t \in Tabs, sent \in Change : Made(n, t, sent)
<1>1. ASSUME NEW m \in Changes, ApiStep(m) \/ AnswerArrives(m)
      PROVE  change'[n] = change[n]
  BY <1>1, Edits, Scans, Stores, Answers DEF ApiStep, GoesOn
<1>2. ASSUME NEW m \in Changes, NEW t \in Tabs, NEW sent \in Change, Made(m, t, sent)
      PROVE  m = n \/ change'[n] = change[n]
  BY <1>2 DEF Made
<1> QED
  BY <1>1, <1>2, RequestsStep

\* The row changes by edits alone, each of which makes a new version.
LEMMA VersionsGrow ==
  ASSUME TypeOK, [Next]_vars
  PROVE  /\ UNCHANGED <<symbol, lastMove>> \/ \E n \in Changes : Edit(n)
         /\ symbol.version \in Nat /\ symbol'.version \in Nat /\ symbol.version <= symbol'.version
         /\ symbol'.version = symbol.version => symbol' = symbol
<1>1. UNCHANGED <<symbol, lastMove>> \/ \E n \in Changes : Edit(n)
  BY AskMade DEF Next, UserStep, UserAsks, QueryStep, ApiStep, AnswerArrives, vars, server, history, Refetch,
     ServeSymbols, SymbolsArrive, FetchFails, Select, ClearSelection, Made, DeleteProps, StoreProps, Store,
     Acknowledge, ChangeFails
<1>2. symbol.version \in Nat
  BY DEF TypeOK, Symbol
<1>3. ASSUME NEW n \in Changes, Edit(n)
      PROVE  symbol'.version = symbol.version + 1
  BY <1>3, Edits
<1> QED
  BY <1>1, <1>2, <1>3

\* What is known of the symbol stays so.
LEMMA KnownStays ==
  ASSUME TypeOK, MoveInv, [Next]_vars, NEW s \in Symbol, Known(s)
  PROVE  Known(s)'
<1>1. s.version \in Nat /\ symbol.version \in Nat
  BY DEF TypeOK, Symbol
<1>2. lastMove # 0 => lastMove \in Changes /\ change[lastMove].phase # "new" /\ Committed(lastMove)
  BY Constants DEF TypeOK, MoveInv, Changes, Committed
<1>3. CASE UNCHANGED <<symbol, lastMove>>
  BY <1>2, <1>3, RequestsStay DEF Known
<1>4. ASSUME NEW n \in Changes, Edit(n)
      PROVE  Known(s)'
  <2>1. /\ symbol'.version = symbol.version + 1
        /\ symbol'.at = IF Moves(n) THEN change[n].to ELSE symbol.at
        /\ lastMove' = (IF Moves(n) THEN n ELSE lastMove)
        /\ change'[n].made = symbol.version + 1
    BY <1>4, Edits DEF GoesOn
  <2>2. s.version <= symbol'.version /\ s.version # symbol'.version
    BY <1>1, <2>1 DEF Known
  <2>3. CASE Moves(n)
    BY <1>1, <2>1, <2>2, <2>3 DEF Known
  <2>4. CASE ~Moves(n)
    BY <1>2, <2>1, <2>2, <2>4, RequestsStay DEF Known
  <2> QED
    BY <2>3, <2>4
<1> QED
  BY <1>3, <1>4, VersionsGrow

\* The query of a tab: where its data and its fetch come from.
LEMMA QueriesStep ==
  ASSUME TypeOK, ChangeInv, [Next]_vars, NEW t \in Tabs
  PROVE  \/ cache'[t] = cache[t] /\ fetch'[t] = fetch[t]
         \/ cache'[t] = cache[t] /\ fetch'[t] = Asked
         \/ cache'[t] = cache[t] /\ fetch'[t] = None /\ t \in troubled'
         \/ /\ cache'[t] = cache[t] /\ UNCHANGED <<symbol, change, lastMove>>
            /\ fetch[t] = Asked /\ fetch'[t] = [symbol |-> symbol, properties |-> properties]
         \/ Answering(t) /\ cache'[t] = fetch[t] /\ fetch'[t] = None
<1>1. CASE cache' = cache /\ fetch' = fetch
  BY <1>1
<1>2. ASSUME NEW u \in Tabs, Refetch(u) \/ FetchFails(u)
      PROVE  cache' = cache /\ (fetch'[t] = fetch[t] \/ fetch'[t] = Asked \/ (fetch'[t] = None /\ t \in troubled'))
  BY <1>2 DEF Refetch, FetchFails, Trouble, TypeOK
<1>3. ASSUME NEW n \in Changes, Acknowledge(n)
      PROVE  cache' = cache /\ (fetch'[t] = fetch[t] \/ fetch'[t] = Asked)
  BY <1>3 DEF Acknowledge, TypeOK
<1>4. ASSUME NEW u \in Tabs, ServeSymbols(u)
      PROVE  \/ cache'[t] = cache[t] /\ fetch'[t] = fetch[t]
             \/ /\ cache'[t] = cache[t] /\ UNCHANGED <<symbol, change, lastMove>>
                /\ fetch[t] = Asked /\ fetch'[t] = [symbol |-> symbol, properties |-> properties]
  BY <1>4 DEF ServeSymbols, TypeOK, server, history
<1>5. ASSUME NEW u \in Tabs, SymbolsArrive(u)
      PROVE  \/ cache'[t] = cache[t] /\ fetch'[t] = fetch[t]
             \/ Answering(t) /\ cache'[t] = fetch[t] /\ fetch'[t] = None
  BY <1>5 DEF SymbolsArrive, TypeOK, Answering
<1>6. \/ cache' = cache /\ fetch' = fetch
      \/ \E u \in Tabs : Refetch(u) \/ FetchFails(u) \/ ServeSymbols(u) \/ SymbolsArrive(u)
      \/ \E n \in Changes : Acknowledge(n)
  BY AskMade DEF Next, UserStep, UserAsks, QueryStep, ApiStep, AnswerArrives, vars, query, Select, ClearSelection,
     Made, Edit, DeleteProps, StoreProps, Store, ChangeFails
<1> QED
  BY <1>1, <1>2, <1>3, <1>4, <1>5, <1>6

\* The node of a tab: who moves it, and what becomes of the tab's drops.
LEMMA NodesStep ==
  ASSUME TypeOK, [Next]_vars, NEW t \in Tabs
  PROVE  \/ node'[t] = node[t] /\ cache'[t] = cache[t]
         \/ \E n \in Changes, sent \in Change :
              /\ Made(n, t, sent) /\ sent.kind \in {"drag", "resize"}
              /\ node'[t] = sent.to /\ cache'[t] = cache[t]
         \/ cache'[t] = fetch[t] /\ node'[t] = Rendered(t, fetch[t])
<1>1. ASSUME NEW n \in Changes, NEW u \in Tabs, NEW sent \in Change, Made(n, u, sent)
      PROVE  \/ node'[t] = node[t] /\ cache'[t] = cache[t]
             \/ /\ Made(n, t, sent) /\ sent.kind \in {"drag", "resize"}
                /\ node'[t] = sent.to /\ cache'[t] = cache[t]
  <2>1. cache' = cache /\ node' = IF sent.kind \in {"drag", "resize"} THEN [node EXCEPT ![u] = sent.to] ELSE node
    BY <1>1 DEF Made
  <2>2. CASE t = u /\ sent.kind \in {"drag", "resize"}
    BY <1>1, <2>1, <2>2 DEF TypeOK
  <2>3. CASE t # u \/ sent.kind \notin {"drag", "resize"}
    BY <2>1, <2>3 DEF TypeOK
  <2> QED
    BY <2>2, <2>3
<1>2. ASSUME NEW u \in Tabs, SymbolsArrive(u)
      PROVE  \/ node'[t] = node[t] /\ cache'[t] = cache[t]
             \/ cache'[t] = fetch[t] /\ node'[t] = Rendered(t, fetch[t])
  BY <1>2 DEF SymbolsArrive, TypeOK
<1>3. \/ node' = node /\ cache' = cache
      \/ \E u \in Tabs : SymbolsArrive(u)
      \/ \E n \in Changes, u \in Tabs, sent \in Change : Made(n, u, sent)
  BY AskMade DEF Next, UserStep, UserAsks, QueryStep, ApiStep, AnswerArrives, vars, query, Refetch, ServeSymbols,
     FetchFails, Select, ClearSelection, Edit, DeleteProps, StoreProps, Store, Acknowledge, ChangeFails
<1> QED
  BY <1>1, <1>2, <1>3

\* A tab's troubles are remembered, and an answer to its edit starts a fetch.
LEMMA AnswersStep ==
  ASSUME TypeOK, ChangeInv, [Next]_vars
  PROVE  /\ troubled \subseteq troubled'
         /\ \A n \in Changes : LET t == change[n].tab IN
              AnswerArrives(n) /\ t \notin troubled' =>
                change[n].phase = "stored" /\ (Moves(n) => fetch'[t] = Asked)
<1>1. troubled \subseteq troubled'
  BY AskMade DEF Next, UserStep, UserAsks, QueryStep, ApiStep, AnswerArrives, vars, history, Refetch, ServeSymbols,
     SymbolsArrive, FetchFails, Trouble, Select, ClearSelection, Made, Edit, DeleteProps, StoreProps, Store,
     Acknowledge, ChangeFails
<1>2. ASSUME NEW n \in Changes, ChangeFails(n)
      PROVE  change[n].tab \in troubled'
  BY <1>2 DEF ChangeFails, Trouble
<1>3. ASSUME NEW n \in Changes, Acknowledge(n)
      PROVE  change[n].phase = "stored" /\ (Moves(n) => fetch'[change[n].tab] = Asked)
  BY <1>3 DEF Acknowledge, ChangeInv, TypeOK
<1> QED
  BY <1>1, <1>2, <1>3 DEF AnswerArrives

\* The rows of a panel: where they come from.
LEMMA PanelsStep ==
  ASSUME TypeOK, [Next]_vars, NEW t \in Tabs
  PROVE  \/ rows'[t] = rows[t] \/ rows'[t] = None
         \/ cache[t] # None /\ rows'[t] = cache[t].properties
         \/ rows[t] # None /\ \E n \in Changes, k \in Keys : rows'[t] = Typed(t, n, k)
<1>1. ASSUME NEW u \in Tabs, Select(u) \/ ClearSelection(u)
      PROVE  \/ rows'[t] = rows[t] \/ rows'[t] = None
             \/ cache[t] # None /\ rows'[t] = cache[t].properties
  BY <1>1 DEF Select, ClearSelection, TypeOK
<1>2. ASSUME NEW u \in Tabs, NEW n \in Changes, NEW k \in Keys, SaveProps(u, n, k)
      PROVE  rows'[t] = rows[t] \/ (rows[t] # None /\ rows'[t] = Typed(t, n, k))
  BY <1>2 DEF SaveProps, TypeOK
<1>3. \/ rows' = rows
      \/ \E u \in Tabs : Select(u) \/ ClearSelection(u) \/ \E n \in Changes, k \in Keys : SaveProps(u, n, k)
  BY DEF Next, UserStep, QueryStep, ApiStep, AnswerArrives, vars, panel, Refetch, ServeSymbols, SymbolsArrive,
     FetchFails, Drag, Resize, ChooseType, Edit, DeleteProps, StoreProps, Store, Acknowledge, ChangeFails
<1> QED
  BY <1>1, <1>2, <1>3

LEMMA DataStep ==
  ASSUME TypeOK, TypeOK', DataInv, ChangeInv, MoveInv, [Next]_vars
  PROVE  DataInv'
<1>1. ASSUME NEW t \in Tabs, cache'[t] # None
      PROVE  Known(cache[t].symbol)' /\ Unique(cache[t].properties)'
  <2>1. /\ cache[t] # None => cache[t] \in Data /\ cache[t].symbol \in Symbol
        /\ Answering(t) => fetch[t] \in Data /\ fetch[t].symbol \in Symbol
    BY DEF TypeOK, Data, Answering
  <2>2. cache'[t] = cache[t] \/ (Answering(t) /\ cache'[t] = fetch[t])
    BY QueriesStep
  <2>3. CASE cache'[t] = cache[t]
    BY <1>1, <2>1, <2>3, KnownStays DEF DataInv, Unique, Known
  <2>4. CASE Answering(t) /\ cache'[t] = fetch[t]
    BY <2>1, <2>4, KnownStays DEF DataInv, Unique, Known
  <2> QED
    BY <2>2, <2>3, <2>4
<1>2. ASSUME NEW t \in Tabs, Answering(t)'
      PROVE  /\ Known(fetch[t].symbol)' /\ Unique(fetch[t].properties)'
             /\ cache'[t] # None => cache'[t].symbol.version <= fetch'[t].symbol.version
  <2>1. \/ cache'[t] = cache[t] /\ fetch'[t] = fetch[t] /\ Answering(t)
        \/ /\ cache'[t] = cache[t] /\ UNCHANGED <<symbol, change, lastMove>>
           /\ fetch'[t] = [symbol |-> symbol, properties |-> properties]
    BY <1>2, QueriesStep DEF Answering
  <2>2. CASE cache'[t] = cache[t] /\ fetch'[t] = fetch[t] /\ Answering(t)
    <3>1. fetch[t] \in Data /\ fetch[t].symbol \in Symbol
      BY <2>2 DEF TypeOK, Data, Answering
    <3> QED
      BY <2>2, <3>1, KnownStays DEF DataInv, Unique, Known
  <2>3. CASE /\ cache'[t] = cache[t] /\ UNCHANGED <<symbol, change, lastMove>>
             /\ fetch'[t] = [symbol |-> symbol, properties |-> properties]
    <3>1. symbol.version \in Nat /\ Unique(properties) /\ (cache[t] # None => cache[t].symbol.version <= symbol.version)
      BY DEF TypeOK, Symbol, Unique
    <3> QED
      BY <2>3, <3>1 DEF Known, Unique
  <2> QED
    BY <2>1, <2>2, <2>3
<1>3. ASSUME NEW t \in Tabs, rows'[t] # None
      PROVE  Unique(rows[t])'
  <2>1. CASE rows'[t] = rows[t]
    BY <1>3, <2>1 DEF DataInv, Unique
  <2>2. CASE cache[t] # None /\ rows'[t] = cache[t].properties
    BY <2>2 DEF DataInv, Unique
  <2>3. ASSUME rows[t] # None, NEW n \in Changes, NEW k \in Keys, rows'[t] = Typed(t, n, k)
        PROVE  Unique(rows[t])'
    <3>1. Unique(Typed(t, n, k))
      BY <2>3, TypedRows DEF DataInv
    <3> QED
      BY <2>3, <3>1 DEF Unique
  <2> QED
    BY <1>3, <2>1, <2>2, <2>3, PanelsStep
<1> QED
  BY <1>1, <1>2, <1>3 DEF DataInv

LEMMA ChangeStep ==
  ASSUME TypeOK, TypeOK', DataInv, ChangeInv, [Next]_vars
  PROVE  ChangeInv'
<1>1. \A t \in Tabs : cache[t] # None => cache'[t] # None
  BY QueriesStep DEF Answering
<1>2. ASSUME NEW n \in Changes, change'[n].phase = "new"
      PROVE  change'[n].tab = None
  BY <1>2, RequestsStart, RequestsStay DEF ChangeInv, Made
<1>3. ASSUME NEW n \in Changes, change'[n].phase # "new"
      PROVE  /\ change'[n].tab \in Tabs /\ cache'[change'[n].tab] # None
             /\ change'[n].base <= symbol'.version /\ Unique(change[n].rows)'
             /\ change'[n].kind = "drag" /\ change'[n].base = symbol'.version => change'[n].size = symbol'.size
             /\ change'[n].phase = "scanned" => Save(n)'
             /\ \A m \in Changes : m < n => change'[m].phase # "new"
  <2>1. CASE change[n].phase # "new"
    <3>1. change[n].base \in Nat
      <4>1. change[n] \in Change
        BY DEF TypeOK
      <4> QED
        BY <4>1 DEF Change
    <3>2. change'[n].base <= symbol'.version /\ Unique(change[n].rows)'
      BY <2>1, <3>1, RequestsStay, VersionsGrow DEF ChangeInv, Unique
    <3>3. change'[n].phase = "scanned" => Save(n)'
      BY <2>1, RequestsStay, Scans DEF ChangeInv, Save
    <3>4. ASSUME change'[n].kind = "drag", change'[n].base = symbol'.version
          PROVE  change'[n].size = symbol'.size
      <4>1. change[n].base = symbol.version /\ symbol' = symbol
        BY <2>1, <3>1, <3>4, RequestsStay, VersionsGrow DEF ChangeInv
      <4> QED
        BY <2>1, <3>4, <4>1, RequestsStay DEF ChangeInv
    <3> QED
      BY <1>1, <2>1, <3>2, <3>3, <3>4, RequestsStay DEF ChangeInv
  <2>2. CASE change[n].phase = "new"
    <3>1. PICK t \in Tabs, sent \in Change : Made(n, t, sent)
      BY <1>3, <2>2, RequestsStart
    <3>2. Unique(sent.rows)
      <4>1. Unique({})
        BY DEF Unique
      <4> QED
        BY <3>1, <4>1, TypedRows DEF Made, DataInv
    <3>3. Unique(change[n].rows)' /\ symbol' = symbol /\ change'[n].base = cache[t].symbol.version
      BY <3>1, <3>2 DEF Made, server, Unique
    <3>4. Known(cache[t].symbol) /\ cache[t].symbol \in Symbol
      BY <3>1 DEF Made, DataInv, Data
    <3>5. change'[n].kind = "drag" /\ change'[n].base = symbol'.version => change'[n].size = symbol'.size
      BY <3>1, <3>3, <3>4 DEF Made, Known
    <3>6. change'[n].base <= symbol'.version
      BY <3>3, <3>4 DEF Known
    <3>7. \A m \in Changes : m < n => change'[m].phase # "new"
      BY <3>1, RequestsStay DEF Made
    <3> QED
      BY <1>1, <3>1, <3>3, <3>5, <3>6, <3>7 DEF Made
  <2> QED
    BY <2>1, <2>2
<1> QED
  BY <1>2, <1>3 DEF ChangeInv

LEMMA EditStep ==
  ASSUME TypeOK, TypeOK', DataInv, ChangeInv, EditInv, [Next]_vars
  PROVE  EditInv'
<1> SUFFICES ASSUME NEW n \in Changes, Moves(n)', Committed(n)', change'[n].tab \notin troubled'
             PROVE  /\ 0 < change'[n].made /\ change'[n].made <= symbol'.version
                    /\ change'[n].phase = "done" => Brought(n, change[n].tab)'
  BY DEF EditInv
<1>1. change[n].phase # "new"
  BY RequestsStart DEF Made, Committed
<1>2. PICK t \in Tabs : t = change[n].tab /\ t = change'[n].tab /\ cache[t] # None
  BY <1>1, RequestsStay DEF ChangeInv
<1>3. Moves(n) /\ ~Save(n) /\ t \notin troubled /\ t \notin troubled'
  BY <1>1, <1>2, RequestsStay, AnswersStep DEF Moves, Save
<1>4. symbol.version \in Nat /\ symbol'.version \in Nat /\ symbol.version <= symbol'.version /\ change[n].made \in Nat
  <2>1. change[n] \in Change
    BY DEF TypeOK
  <2> QED
    BY <2>1, VersionsGrow DEF Change
<1>5. CASE Committed(n)
  <2>1. 0 < change[n].made /\ change[n].made <= symbol.version /\ change'[n].made = change[n].made
    BY <1>1, <1>2, <1>3, <1>5, RequestsStay DEF EditInv
  <2>2. ASSUME change'[n].phase = "done"
        PROVE  \/ cache'[t].symbol.version >= change[n].made
               \/ fetch'[t] = Asked
               \/ Answering(t)' /\ fetch'[t].symbol.version >= change[n].made
    <3>1. CASE AnswerArrives(n)
      BY <1>2, <1>3, <3>1, AnswersStep
    <3>2. CASE change[n].phase = "done"
      <4>1. \/ cache[t].symbol.version >= change[n].made
            \/ fetch[t] = Asked
            \/ Answering(t) /\ fetch[t].symbol.version >= change[n].made
        BY <1>2, <1>3, <1>5, <3>2 DEF EditInv, Brought
      <4>2. CASE cache'[t] = cache[t] /\ fetch'[t] = fetch[t]
        BY <4>1, <4>2 DEF Answering
      <4>3. CASE fetch'[t] = [symbol |-> symbol, properties |-> properties]
        <5>1. fetch'[t] \in Data
          BY <4>3 DEF TypeOK, Data
        <5> QED
          BY <1>4, <2>1, <4>3, <5>1, Constants DEF Answering
      <4>4. CASE Answering(t) /\ cache'[t] = fetch[t]
        <5>1. cache[t].symbol.version <= fetch[t].symbol.version
          BY <1>2, <4>4 DEF DataInv
        <5>2. cache[t].symbol.version \in Nat /\ fetch[t].symbol.version \in Nat
          BY <1>2, <4>4 DEF TypeOK, Data, Symbol, Answering
        <5> QED
          BY <1>4, <4>1, <4>4, <5>1, <5>2 DEF Answering
      <4> QED
        BY <1>3, <4>2, <4>3, <4>4, QueriesStep
    <3> QED
      BY <1>1, <2>2, <3>1, <3>2, RequestsStay
  <2> QED
    BY <1>2, <1>4, <2>1, <2>2 DEF Brought
<1>6. CASE ~Committed(n)
  <2>1. ~StoreProps(n) /\ ~AnswerArrives(n)
    BY <1>2, <1>3, <1>6, Stores, AnswersStep DEF ChangeInv, Committed
  <2>2. Edit(n)
    BY <1>1, <1>6, <2>1, RequestsStay
  <2>3. /\ symbol'.version = symbol.version + 1 /\ change'[n].phase = "stored"
        /\ change'[n].made = symbol.version + 1
    BY <2>2, Edits DEF GoesOn
  <2> QED
    BY <1>4, <2>3
<1> QED
  BY <1>5, <1>6

LEMMA MoveStep ==
  ASSUME TypeOK, MoveInv, [Next]_vars
  PROVE  MoveInv'
<1>1. lastMove # 0 => lastMove \in Changes /\ change[lastMove].phase # "new"
  BY Constants DEF TypeOK, MoveInv, Changes, Committed
<1>2. CASE UNCHANGED <<symbol, lastMove>>
  BY <1>1, <1>2, RequestsStay DEF MoveInv, Moves, Committed
<1>3. ASSUME NEW n \in Changes, Edit(n)
      PROVE  MoveInv'
  <2>1. /\ symbol'.version = symbol.version + 1
        /\ symbol'.at = IF Moves(n) THEN change[n].to ELSE symbol.at
        /\ lastMove' = (IF Moves(n) THEN n ELSE lastMove)
        /\ GoesOn(n, "stored", change[n].found, symbol.version + 1)
    BY <1>3, Edits
  <2>2. symbol.version \in Nat /\ symbol'.version <= symbol'.version
    BY <2>1 DEF TypeOK, Symbol
  <2>3. CASE Moves(n)
    BY <2>1, <2>2, <2>3 DEF GoesOn, MoveInv, Moves, Committed
  <2>4. CASE ~Moves(n) /\ lastMove # 0
    <3>1. change[lastMove].made \in Nat
      <4>1. change[lastMove] \in Change
        BY <1>1, <2>4 DEF TypeOK
      <4> QED
        BY <4>1 DEF Change
    <3> QED
      BY <1>1, <2>1, <2>2, <2>4, <3>1, RequestsStay DEF MoveInv, Moves, Committed
  <2>5. CASE ~Moves(n) /\ lastMove = 0
    BY <2>1, <2>5 DEF MoveInv
  <2> QED
    BY <2>3, <2>4, <2>5
<1> QED
  BY <1>2, <1>3, VersionsGrow

\* The drops of a tab stay what they were, but for a new one, the newest.
LEMMA DropsStep ==
  ASSUME TypeOK, ChangeInv, [Next]_vars, NEW t \in Tabs
  PROVE  \/ Drops(t)' = Drops(t) /\ \A n \in Drops(t) : change'[n].to = change[n].to
         \/ \E n \in Changes, sent \in Change :
              Made(n, t, sent) /\ sent.kind \in {"drag", "resize"}
<1>1. ASSUME NEW n \in Changes, change[n].phase # "new"
      PROVE  (n \in Drops(t)' <=> n \in Drops(t)) /\ change'[n].to = change[n].to
  BY <1>1, RequestsStay DEF Drops, Moves
<1>2. ASSUME NEW n \in Changes, change[n].phase = "new"
      PROVE  n \notin Drops(t)
  BY <1>2, Constants DEF ChangeInv, Drops
<1>3. ASSUME NEW n \in Changes, change[n].phase = "new", n \in Drops(t)'
      PROVE  \E sent \in Change : Made(n, t, sent) /\ sent.kind \in {"drag", "resize"}
  <2>1. PICK u \in Tabs, sent \in Change : Made(n, u, sent)
    BY <1>2, <1>3, RequestsStart DEF Drops, Moves
  <2> QED
    BY <1>3, <2>1 DEF Made, Drops, Moves
<1>4. ASSUME \A n \in Changes : change[n].phase = "new" => n \notin Drops(t)'
      PROVE  Drops(t)' = Drops(t)
  <2>1. Drops(t) \subseteq Changes /\ Drops(t)' \subseteq Changes
    BY DEF Drops
  <2> QED
    BY <1>1, <1>2, <1>4, <2>1
<1>5. Drops(t) \subseteq Changes
  BY DEF Drops
<1> QED
  BY <1>1, <1>2, <1>3, <1>4, <1>5

LEMMA NewestDrop ==
  ASSUME TypeOK, ChangeInv, NEW t \in Tabs, NEW n \in Changes, NEW sent \in Change,
         Made(n, t, sent), sent.kind \in {"drag", "resize"}
  PROVE  LastDrop(n, t)' /\ change'[n].to = sent.to
<1>1. n \in Drops(t)' /\ change'[n].to = sent.to
  BY DEF Made, Drops, Moves
<1>2. ASSUME NEW m \in Drops(t)'
      PROVE  m <= n
  <2>1. m \in Nat /\ n \in Nat /\ m \in Changes
    BY Constants DEF Drops, Changes
  <2>2. CASE m # n
    <3>1. change[m].tab = t
      BY <2>1, <2>2 DEF Made, Drops
    <3>2. change[m].phase # "new"
      BY <2>1, <3>1, Constants DEF ChangeInv
    <3>3. ~(n < m)
      BY <2>1, <3>2 DEF Made, ChangeInv
    <3> QED
      BY <2>1, <3>3
  <2> QED
    BY <2>1, <2>2
<1> QED
  BY <1>1, <1>2 DEF LastDrop

LEMMA NodeStep ==
  ASSUME TypeOK, TypeOK', ChangeInv, NodeInv, [Next]_vars
  PROVE  NodeInv'
<1> SUFFICES ASSUME NEW t \in Tabs, NEW a \in Axes, cache'[t] # None, node'[t][a] # cache'[t].symbol.at[a]
             PROVE  \E n \in Changes : LastDrop(n, t)' /\ node'[t][a] = change'[n].to[a]
  BY DEF NodeInv
<1>1. ASSUME NEW n \in Changes, NEW sent \in Change, Made(n, t, sent), sent.kind \in {"drag", "resize"}
      PROVE  \E m \in Changes : LastDrop(m, t)' /\ node'[t][a] = change'[m].to[a]
  <2>1. node'[t] = sent.to
    BY <1>1 DEF Made, TypeOK
  <2> QED
    BY <1>1, <2>1, NewestDrop
<1>2. ASSUME Drops(t)' = Drops(t), \A n \in Drops(t) : change'[n].to = change[n].to,
             cache[t] # None, node[t][a] # cache[t].symbol.at[a], node'[t][a] = node[t][a]
      PROVE  \E n \in Changes : LastDrop(n, t)' /\ node'[t][a] = change'[n].to[a]
  <2>1. PICK n \in Changes : LastDrop(n, t) /\ node[t][a] = change[n].to[a]
    BY <1>2 DEF NodeInv
  <2>2. n \in Drops(t) /\ LastDrop(n, t)'
    BY <1>2, <2>1 DEF LastDrop
  <2> QED
    BY <1>2, <2>1, <2>2
<1>3. ASSUME cache'[t] = fetch[t], node'[t] = Rendered(t, fetch[t])
      PROVE  cache[t] # None /\ node[t][a] # cache[t].symbol.at[a] /\ node'[t][a] = node[t][a]
  BY <1>3 DEF Rendered
<1>4. \/ node'[t] = node[t] /\ cache'[t] = cache[t]
      \/ \E n \in Changes, sent \in Change : Made(n, t, sent) /\ sent.kind \in {"drag", "resize"}
      \/ cache[t] # None /\ node[t][a] # cache[t].symbol.at[a] /\ node'[t][a] = node[t][a]
  BY <1>3, NodesStep
<1> QED
  BY <1>1, <1>2, <1>4, DropsStep

\* Only StoreProps changes the stored rows.
LEMMA SavesStep ==
  ASSUME TypeOK, [Next]_vars
  PROVE  UNCHANGED <<properties, lastSave, overlapped>> \/ \E n \in Changes : StoreProps(n)
BY DEF Next, UserStep, QueryStep, ApiStep, AnswerArrives, vars, server, history, Refetch, ServeSymbols, SymbolsArrive,
   FetchFails, Select, ClearSelection, Drag, Resize, ChooseType, SaveProps, Edit, DeleteProps, Acknowledge, ChangeFails

LEMMA SaveStep ==
  ASSUME TypeOK, TypeOK', ChangeInv, SaveInv, [Next]_vars
  PROVE  SaveInv'
<1>0. lastSave \in 0 .. MaxChanges /\ MaxChanges \in Nat /\ (lastSave # 0 => lastSave \in Changes)
  BY Constants DEF TypeOK, Changes
<1>1. ASSUME NEW n \in Changes, StoreProps(n)
      PROVE  SaveInv'
  <2>1. /\ GoesOn(n, "stored", {}, change[n].made) /\ change[n].phase = "scanned" /\ lastSave' = n /\ troubled' = troubled
        /\ overlapped' = (overlapped \/ \E m \in Changes \ {n} : Uncommitted(m))
        /\ properties' = (properties \ change[n].found) \cup change[n].rows
    BY <1>1, Stores
  <2>2. Save(n) /\ Uncommitted(n)
    BY <2>1 DEF ChangeInv, Uncommitted
  <2>3. Save(n)' /\ Committed(n)'
    BY <2>1, <2>2 DEF GoesOn, Save, Committed
  <2>4. ASSUME ~overlapped'
        PROVE  /\ \A m \in Changes : Uncommitted(m)' => m > n
               /\ \A m \in Changes : Save(m)' /\ Committed(m)' /\ change'[m].tab \notin troubled' => m <= n
               /\ \A m \in Changes : change'[m].phase = "scanned" => change'[m].found = properties'
               /\ properties' = change'[n].rows
    <3>1. ~overlapped /\ \A m \in Changes : m # n => ~Uncommitted(m)
      BY <2>1, <2>4 DEF TypeOK
    <3>2. n > lastSave
      BY <2>2, <3>1 DEF SaveInv
    <3>3. \A m \in Changes : ~Uncommitted(m)' /\ change'[m].phase # "scanned"
      BY <2>1, <3>1 DEF GoesOn, Uncommitted, Save, ChangeInv
    <3>4. ASSUME NEW m \in Changes, Save(m)', Committed(m)', change'[m].tab \notin troubled'
          PROVE  m <= n
      <4>1. m # n => m <= lastSave
        BY <2>1, <3>1, <3>4 DEF GoesOn, Save, Committed, SaveInv
      <4>2. m \in Nat /\ n \in Nat
        BY <1>0 DEF Changes
      <4> QED
        BY <1>0, <3>2, <4>1, <4>2
    <3>5. properties' = change'[n].rows
      <4>1. change[n].found = properties
        BY <2>1, <3>1 DEF SaveInv
      <4> QED
        BY <2>1, <4>1 DEF GoesOn
    <3> QED
      BY <3>3, <3>4, <3>5
  <2> QED
    BY <2>1, <2>3, <2>4 DEF SaveInv
<1>2. CASE UNCHANGED <<properties, lastSave, overlapped>>
  <2>1. lastSave # 0 => Save(lastSave)' /\ Committed(lastSave)' /\ change'[lastSave].rows = change[lastSave].rows
    <3>1. ASSUME lastSave # 0
          PROVE  lastSave \in Changes /\ change[lastSave].phase # "new" /\ Save(lastSave) /\ Committed(lastSave)
      BY <1>0, <3>1 DEF SaveInv, Committed
    <3> QED
      BY <1>2, <3>1, RequestsStay DEF Save, Committed
  <2>2. ASSUME ~overlapped, NEW n \in Changes, Uncommitted(n)'
        PROVE  n > lastSave
    <3>1. CASE change[n].phase = "new"
      <4>1. ASSUME lastSave # 0
            PROVE  n > lastSave
        <5>1. lastSave \in Changes /\ change[lastSave].phase # "new"
          BY <1>0, <4>1 DEF SaveInv, Committed
        <5>2. ~(n < lastSave) /\ n # lastSave
          BY <3>1, <5>1 DEF ChangeInv
        <5> QED
          BY <1>0, <5>2 DEF Changes
      <4> QED
        BY <1>0, <4>1 DEF Changes
    <3>2. CASE change[n].phase # "new"
      <4>1. Uncommitted(n)
        <5>1. Save(n) /\ ~Committed(n) /\ change[n].phase \in {"new", "sent", "scanned", "stored", "done"}
          BY <2>2, <3>2, RequestsStay DEF Uncommitted, Save, Committed, TypeOK, Change
        <5> QED
          BY <3>2, <5>1 DEF Uncommitted, Committed
      <4> QED
        BY <2>2, <4>1 DEF SaveInv
    <3> QED
      BY <3>1, <3>2
  <2>3. ASSUME ~overlapped, NEW n \in Changes, Save(n)', Committed(n)', change'[n].tab \notin troubled'
        PROVE  n <= lastSave
    <3>1. CASE change[n].phase = "new"
      <4>1. ASSUME NEW m \in Changes, ApiStep(m) \/ AnswerArrives(m)
            PROVE  change'[n] = change[n]
        BY <3>1, <4>1, Edits, Scans, Stores, Answers DEF ApiStep, GoesOn
      <4>2. ASSUME NEW m \in Changes, NEW t \in Tabs, NEW sent \in Change, Made(m, t, sent)
            PROVE  ~Committed(n)'
        BY <3>1, <4>2 DEF Made, Committed
      <4> QED
        BY <2>3, <3>1, <4>1, <4>2, RequestsStep DEF Committed
    <3>2. CASE change[n].phase # "new"
      <4>1. Save(n) /\ change[n].tab \notin troubled' /\ change[n].tab \notin troubled
        BY <2>3, <3>2, RequestsStay, AnswersStep DEF Save
      <4>2. Committed(n) \/ StoreProps(n)
        BY <2>3, <3>2, <4>1, RequestsStay, Edits, AnswersStep DEF Committed
      <4>3. StoreProps(n) => lastSave = n
        BY <1>2, Stores
      <4>4. Committed(n) => n <= lastSave
        BY <2>3, <4>1 DEF SaveInv
      <4> QED
        BY <1>0, <4>2, <4>3, <4>4
    <3> QED
      BY <3>1, <3>2
  <2>4. ASSUME ~overlapped, NEW n \in Changes, change'[n].phase = "scanned"
        PROVE  change'[n].found = properties
    <3>1. CASE DeleteProps(n)
      BY <3>1, Scans DEF GoesOn
    <3>2. CASE change'[n] = change[n]
      BY <2>4, <3>2 DEF SaveInv
    <3>3. ASSUME NEW m \in Changes, m # n, ApiStep(m) \/ AnswerArrives(m)
          PROVE  change'[n] = change[n]
      BY <3>3, Edits, Scans, Stores, Answers DEF ApiStep, GoesOn
    <3>4. Edit(n) \/ StoreProps(n) \/ AnswerArrives(n) => FALSE
      BY <2>4, Edits, Stores, Answers DEF GoesOn
    <3>5. ASSUME NEW m \in Changes, NEW t \in Tabs, NEW sent \in Change, Made(m, t, sent)
          PROVE  change'[n] = change[n]
      BY <2>4, <3>5 DEF Made
    <3> QED
      BY <3>1, <3>2, <3>3, <3>4, <3>5, RequestsStep DEF ApiStep
  <2> QED
    BY <1>2, <2>1, <2>2, <2>3, <2>4 DEF SaveInv
<1> QED
  BY <1>1, <1>2, SavesStep

-----------------------------------------------------------------------------
(* The theorems                                                            *)

LEMMA CanvasStep == TypeOK /\ CanvasInv /\ [Next]_vars => TypeOK' /\ CanvasInv'
<1> SUFFICES ASSUME TypeOK, CanvasInv, [Next]_vars
             PROVE  TypeOK' /\ CanvasInv'
  OBVIOUS
<1>1. TypeOK'
  BY TypeStep DEF CanvasInv
<1> QED
  BY <1>1, DataStep, ChangeStep, EditStep, MoveStep, NodeStep, SaveStep DEF CanvasInv

LEMMA CanvasStarts == Init => TypeOK /\ CanvasInv
<1> SUFFICES ASSUME Init PROVE TypeOK /\ CanvasInv
  OBVIOUS
<1>1. TypeOK
  <2>1. /\ cache \in [Tabs -> Data \cup {None}] /\ fetch \in [Tabs -> Data \cup {None, Asked}]
        /\ rows \in [Tabs -> (SUBSET Property) \cup {None}] /\ change \in [Changes -> Change]
        /\ node \in [Tabs -> Positions] /\ lastSave \in 0 .. MaxChanges /\ lastMove \in 0 .. MaxChanges
    BY Constants DEF Init
  <2>2. /\ symbol \in Symbol /\ properties = {} /\ invalid = {} /\ saved = {} /\ troubled = {} /\ overlapped = FALSE
        /\ \A t \in Tabs : cache[t] = None
    BY Constants DEF Init
  <2> QED
    BY <2>1, <2>2 DEF TypeOK
<1>2. /\ \A t \in Tabs : cache[t] = None /\ fetch[t] = None /\ rows[t] = None
      /\ \A n \in Changes : change[n].phase = "new" /\ change[n].tab = None
      /\ lastSave = 0 /\ lastMove = 0
  BY DEF Init, New
<1>3. DataInv /\ ChangeInv /\ EditInv /\ MoveInv /\ NodeInv
  BY <1>2 DEF DataInv, ChangeInv, EditInv, MoveInv, NodeInv, Answering, Committed
<1>4. SaveInv
  BY <1>2 DEF SaveInv, Committed, Uncommitted
<1> QED
  BY <1>1, <1>3, <1>4 DEF CanvasInv

LEMMA CanvasHolds == Spec => []TypeOK /\ []CanvasInv
BY CanvasStep, CanvasStarts, PTL DEF Spec

\* Every variable has its type, a property key has one row, and a tab knows
\* versions that were there, for every set of tabs, keys, axes and lengths.
THEOREM CanvasTypes == Spec => []TypeOK
BY CanvasHolds, PTL

\* Each drop of a tab that has nothing under way, and had no failure, was saved
\* as a version that its data is as new as; and the symbol is where its data
\* has it if it was not moved in this tab, and where it is stored if the tab's
\* last drop was the last to be saved, wherever the drops have put it.
THEOREM QuietTabShowsSaved == Spec => []ShownIsSaved
<1>1. TypeOK /\ CanvasInv => ShownIsSaved
  <2> SUFFICES ASSUME TypeOK, CanvasInv, NEW t \in Tabs, Quiet(t)
               PROVE  /\ \A n \in Drops(t) : 0 < change[n].made /\ change[n].made <= cache[t].symbol.version
                      /\ cache[t] # None /\ Drops(t) = {} => node[t] = cache[t].symbol.at
                      /\ \A n \in Changes : LastDrop(n, t) /\ lastMove = n => node[t] = symbol.at
    BY DEF ShownIsSaved
  <2>1. fetch[t] = None /\ t \notin troubled /\ ~Answering(t) /\ fetch[t] # Asked
    BY Constants DEF Quiet, Answering
  <2>2. /\ node[t] \in Positions /\ symbol.at \in Positions
        /\ cache[t] # None => cache[t].symbol.at \in Positions /\ cache[t].symbol.version \in Nat
    BY DEF TypeOK, Symbol, Data
  <2>3. ASSUME NEW n \in Drops(t)
        PROVE  /\ 0 < change[n].made /\ change[n].made <= cache[t].symbol.version
               /\ cache[t] # None /\ n \in Changes
    <3>1. n \in Changes /\ change[n].tab = t /\ Moves(n) /\ change[n].phase = "done"
      BY DEF Drops, Quiet
    <3>2. cache[t] # None
      BY <3>1 DEF CanvasInv, ChangeInv
    <3>3. 0 < change[n].made /\ Brought(n, t)
      BY <2>1, <3>1 DEF CanvasInv, EditInv, Committed
    <3>4. change[n].made \in Nat
      <4>1. change[n] \in Change
        BY <3>1 DEF TypeOK
      <4> QED
        BY <4>1 DEF Change
    <3> QED
      BY <2>1, <2>2, <3>1, <3>2, <3>3, <3>4 DEF Brought
  <2>4. ASSUME cache[t] # None, \A a \in Axes : node[t][a] = cache[t].symbol.at[a]
        PROVE  node[t] = cache[t].symbol.at
    BY <2>2, <2>4 DEF Positions
  <2>5. cache[t] # None /\ Drops(t) = {} => node[t] = cache[t].symbol.at
    BY <2>4 DEF CanvasInv, NodeInv, LastDrop
  <2>6. ASSUME NEW n \in Changes, LastDrop(n, t), lastMove = n
        PROVE  node[t] = symbol.at
    <3>1. cache[t] # None /\ change[n].made <= cache[t].symbol.version
      BY <2>3, <2>6 DEF LastDrop
    <3>2. cache[t].symbol.at = symbol.at /\ symbol.at = change[n].to
      <4>1. n # 0
        BY Constants DEF Changes
      <4> QED
        BY <2>6, <3>1, <4>1 DEF CanvasInv, DataInv, Known, MoveInv
    <3>3. ASSUME NEW a \in Axes, node[t][a] # cache[t].symbol.at[a]
          PROVE  FALSE
      <4>1. PICK m \in Changes : LastDrop(m, t) /\ node[t][a] = change[m].to[a]
        BY <3>1, <3>3 DEF CanvasInv, NodeInv
      <4>2. m <= n /\ n <= m /\ m \in Nat /\ n \in Nat
        BY <2>6, <4>1, Constants DEF LastDrop, Changes
      <4>3. m = n
        BY <4>2
      <4> QED
        BY <3>2, <3>3, <4>1, <4>3
    <3> QED
      BY <2>4, <3>1, <3>2, <3>3
  <2> QED
    BY <2>3, <2>5, <2>6
<1> QED
  BY <1>1, CanvasHolds, PTL

\* The badge "Saved": the rows saved last are stored and no others, unless
\* another tab has saved since, a save failed or two were on their way.
THEOREM BadgeIsTrue == Spec => []SavedIsTrue
<1>1. TypeOK /\ CanvasInv => SavedIsTrue
  <2> SUFFICES ASSUME TypeOK, CanvasInv, NEW t \in saved, NEW n \in Changes, Newest(n, t), change[n].phase = "done",
                      change[lastSave].tab = t, t \notin troubled, ~overlapped
               PROVE  properties = change[n].rows
    BY DEF SavedIsTrue
  <2>1. n <= lastSave
    BY DEF CanvasInv, SaveInv, Newest, Committed
  <2>2. lastSave # 0 /\ lastSave \in Changes /\ n \in Nat /\ lastSave \in Nat
    BY <2>1, Constants DEF TypeOK, Changes
  <2>3. Save(lastSave) /\ properties = change[lastSave].rows
    BY <2>2 DEF CanvasInv, SaveInv
  <2>4. lastSave <= n
    BY <2>2, <2>3 DEF Newest
  <2>5. lastSave = n
    BY <2>1, <2>2, <2>4
  <2> QED
    BY <2>3, <2>5
<1> QED
  BY <1>1, CanvasHolds, PTL

\* Whoever drags from the newest version leaves the size alone.
THEOREM DragKeepsFreshSize == Spec => OnlyStaleDragsResize
<1>1. ASSUME TypeOK, CanvasInv, [Next]_vars, NEW n \in Changes, change[n].kind = "drag", change[n].phase = "sent",
             change'[n].phase = "stored", symbol'.size # symbol.size
      PROVE  change[n].base < symbol.version
  <2>1. PICK m \in Changes : Edit(m)
    BY <1>1, VersionsGrow
  <2>2. m = n
    BY <1>1, <2>1, Edits DEF GoesOn
  <2>3. symbol'.size = change[n].size
    BY <1>1, <2>1, <2>2, Edits DEF Moves
  <2>4. change[n].base <= symbol.version /\ change[n].base # symbol.version
    BY <1>1, <2>3 DEF CanvasInv, ChangeInv
  <2>5. change[n].base \in Nat /\ symbol.version \in Nat
    <3>1. change[n] \in Change
      BY <1>1 DEF TypeOK
    <3> QED
      BY <1>1, <3>1 DEF TypeOK, Symbol, Change
  <2> QED
    BY <2>4, <2>5
<1>2. TypeOK /\ CanvasInv /\ [Next]_vars =>
        [\A n \in Changes :
           (change[n].kind = "drag" /\ change[n].phase = "sent" /\ change'[n].phase = "stored"
            /\ symbol'.size # symbol.size) => change[n].base < symbol.version]_vars
  BY <1>1
<1> QED
  BY <1>2, CanvasHolds, PTL DEF Spec, OnlyStaleDragsResize
=============================================================================
