----------------------------- MODULE MCTokenStore -----------------------------
(* Small instances of TokenStore. *)
EXTENDS TokenStore, TLC

CONSTANTS a1, a2, tokA, tokB, none

AdminSymmetry == Permutations({a1, a2})
=============================================================================
