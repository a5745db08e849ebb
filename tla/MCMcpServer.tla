----------------------------- MODULE MCMcpServer -----------------------------
(* Small instances of McpServer. *)
EXTENDS McpServer, TLC

CONSTANTS w1, w2

WindowSymmetry == Permutations({w1, w2})

GateSessions == [caller: Contexts, action: Actions]

(* alice may write, bob only read. *)
WriterAndReader ==
    [c \in Contexts |-> IF c = "bob" THEN {"tasks.read"}
                        ELSE {"tasks.read", "tasks.write"}]

(* Both may write; carol may do nothing. *)
TwoWriters ==
    [c \in Contexts |-> IF c = "carol" THEN {} ELSE {"tasks.write"}]

(* The gated tool takes strings only, which == tells apart.                 *)
StringValue == [a \in Actions |-> a]
=============================================================================
