----------------------------- MODULE MCGateway -----------------------------
(* Gateway for TLC: "A" is "a" typed in capitals; each account has one      *)
(* document.                                                                *)
EXTENDS Gateway, TLC

CONSTANTS a, A, b, da, db

MCLower == (a :> a) @@ (A :> a) @@ (b :> b)

MCOwnerOf == (da :> a) @@ (db :> b)

Symmetry == Permutations(Requests)
=============================================================================
