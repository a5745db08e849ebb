----------------------------- MODULE MCDispatcher -----------------------------
(* Small instances of Dispatcher. *)
EXTENDS Dispatcher

CONSTANTS t1, t2, x, y

TextAndThreadSymmetry == Permutations({t1, t2}) \cup Permutations({x, y})

(* Whoever is not the in-process caller may only read.                      *)
ReadersOnly == [c \in Callers |-> {"tasks.read"}]
=============================================================================
