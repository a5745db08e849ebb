----------------------------- MODULE MCA2aBridge -----------------------------
(* A small instance of A2aBridge: two tasks of one context, and one whose   *)
(* context's id is a URN.                                                   *)
EXTENDS A2aBridge, TLC

CONSTANTS k1, k2, urn, deleteA, deleteB

TaskAndActionSymmetry == Permutations({k1, k2}) \cup Permutations({deleteA, deleteB})

Contextual ==
    [t \in Threads |-> IF t = urn THEN << "urn", "c" >> ELSE << "c" >>]

Named == [t \in Threads |-> << t >>]

StringValue == [a \in Actions |-> a]
=============================================================================
