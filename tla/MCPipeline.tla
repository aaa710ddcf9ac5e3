----------------------------- MODULE MCPipeline -----------------------------
(***************************************************************************)
(* Pipeline with the definitions TLC needs: workers and clients are        *)
(* interchangeable in the runs that check safety only.                     *)
(***************************************************************************)
EXTENDS Pipeline, TLC

Symmetry == Permutations(Workers) \cup Permutations(Clients)
=============================================================================
