----------------------------- MODULE MCArtifacts -----------------------------
(* Artifacts for TLC: two items on one page.                                *)
EXTENDS Artifacts, TLC

MCPageOf == [i \in Items |-> CHOOSE p \in Pages : TRUE]

Symmetry == Permutations(Workers)
=============================================================================
