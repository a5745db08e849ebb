--------------------------- MODULE MCSeparatedTier2 ---------------------------
(* Small instances of SeparatedTier2. *)
EXTENDS SeparatedTier2, TLC

CONSTANTS r1, r2

RsThreadSymmetry == Permutations({r1, r2})

VaultSelf ==
    [secret |-> "mint", issuer |-> "vault", audience |-> "bridge", rar |-> {"task"}]

OtherTokens ==
    LET like == [alg |-> "HS256", key |-> "mint", iss |-> "elsewhere",
                 aud |-> {"bridge"}, exp |-> MaxTime, jti |-> 0,
                 details |-> <<[type |-> "task", action |-> "delete B"]>>]
    IN  {like}

(* Args of strings, which == tells apart as the signed bytes do.            *)
StringValue == [a \in Actions |-> a]
=============================================================================
