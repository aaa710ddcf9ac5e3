--------------------------- MODULE MCSymbolEditing ---------------------------
(* SymbolEditing for TLC: nothing tells the requests or the values apart.   *)
EXTENDS SymbolEditing, TLC

Symmetry == Permutations(Editors) \cup Permutations(Values)
=============================================================================
