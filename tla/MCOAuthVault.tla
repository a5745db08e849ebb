----------------------------- MODULE MCOAuthVault -----------------------------
(* Small instances of OAuthVault. *)
EXTENDS OAuthVault, TLC

CONSTANTS t1, t2

ThreadSymmetry == Permutations({t1, t2})

VaultSelf ==
    [secret |-> "mint", issuer |-> "vault", audience |-> "bridge", rar |-> {"task"}]

(* A token of another issuer and one signed under another key.              *)
OtherTokens ==
    LET like == [alg |-> "HS256", key |-> "mint", iss |-> "elsewhere",
                 aud |-> {"bridge"}, exp |-> MaxTime, jti |-> 0,
                 details |-> <<[type |-> "task", action |-> "delete B"]>>]
    IN  {like, [like EXCEPT !.key = "foreign", !.iss = "vault"]}

(* Every way a token can fail the checks.                                   *)
OddTokens ==
    LET like == CHOOSE tok \in OtherTokens : tok.key = "mint"
    IN  OtherTokens \cup {[like EXCEPT !.alg = "none"],
                          [like EXCEPT !.aud = {}],
                          [like EXCEPT !.details = << >>]}

(* 1 == True in Python, and the bytes that are signed differ.               *)
PythonValue ==
    [a \in Actions |-> IF a = "set True" THEN "set 1" ELSE a]
=============================================================================
