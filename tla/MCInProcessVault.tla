--------------------------- MODULE MCInProcessVault ---------------------------
(* Small instances of InProcessVault. *)
EXTENDS InProcessVault, TLC

CONSTANTS t1, t2

ThreadSymmetry == Permutations({t1, t2})

(* Args of strings, which == tells apart as the signed bytes do.            *)
StringValue == [a \in Actions |-> a]
=============================================================================
