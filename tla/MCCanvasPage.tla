---------------------------- MODULE MCCanvasPage ----------------------------
EXTENDS CanvasPage, TLC

Symmetry == Permutations(Tabs) \cup Permutations(Keys) \cup Permutations(Axes)
=============================================================================
