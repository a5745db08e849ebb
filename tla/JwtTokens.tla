------------------------------ MODULE JwtTokens ------------------------------
(***************************************************************************)
(* The Tier 2 credential, a JWT with an authorization_details claim, and   *)
(* the checks that OAuthVault.consume and JwtResourceServer.execute make   *)
(* on it in the same order: first those that need only the token and the   *)
(* clock, then, under the verifier's lock, those that read its `_consumed`. *)
(***************************************************************************)
EXTENDS Authorization, Sequences

CONSTANTS
    Issuers,     \* `iss` claim values
    Audiences,   \* `aud` strings
    Algorithms   \* JWT header `alg` values

ASSUME AlgorithmAssumption == "HS256" \in Algorithms

Details == [type: RarTypes, action: Actions]

(* `aud` is the set of audiences of the claim, whether it came as a string, *)
(* as an array or not at all; `details` is the authorization_details list,  *)
(* of which only the first element is ever read.                            *)
Tokens ==
    [alg: Algorithms, key: Keys, iss: Issuers, aud: SUBSET Audiences,
     exp: Nat, jti: Nat, details: {<< >>} \cup {<<d>> : d \in Details}]

(* A verifier: the secret and the claims it pins every token to.            *)
Verifiers ==
    [secret: Keys, issuer: Issuers, audience: Audiences, rar: SUBSET RarTypes]

AudienceMatches(aud, expected) == expected \in aud

(* jwt_decode, exp, iss, aud and the presence of authorization_details.     *)
TokenRefusal(tok, v, now) ==
    IF tok.alg # "HS256" THEN "MalformedCredential"
    ELSE IF tok.key # v.secret THEN "SignatureMismatch"
    ELSE IF LapsedAtConsume(tok.exp, now) THEN "CredentialExpired"
    ELSE IF tok.iss # v.issuer THEN "UnknownIssuer"
    ELSE IF ~AudienceMatches(tok.aud, v.audience) THEN "WrongAudience"
    ELSE "MalformedCredential"

TokenForAnyParty(tok, v, now) ==      \* mutant: iss and aud are not pinned
    /\ tok.alg = "HS256"
    /\ tok.key = v.secret
    /\ ~LapsedAtConsume(tok.exp, now)
    /\ tok.details # << >>

TokenForever(tok, v, now) ==          \* mutant: exp is not checked
    /\ tok.alg = "HS256"
    /\ tok.key = v.secret
    /\ tok.iss = v.issuer
    /\ AudienceMatches(tok.aud, v.audience)
    /\ tok.details # << >>

TokenAccepted(tok, v, now) ==
    /\ tok.alg = "HS256"
    /\ tok.key = v.secret
    /\ ~LapsedAtConsume(tok.exp, now)
    /\ tok.iss = v.issuer
    /\ AudienceMatches(tok.aud, v.audience)
    /\ tok.details # << >>

(* Single use, command, args and rar type, in that order.                   *)
BindingRefusal(tok, used) ==
    IF tok.jti \in used THEN "CredentialReplay" ELSE "CredentialDrift"

BoundTwice(tok, action, v, used) ==   \* mutant: no single-use check
    /\ SameAction(tok.details[1].action, action)
    /\ tok.details[1].type \in v.rar

BoundToAnything(tok, action, v, used) == \* mutant: no parameter binding
    /\ tok.jti \notin used
    /\ tok.details[1].type \in v.rar

BoundTo(tok, action, v, used) ==
    /\ tok.jti \notin used
    /\ SameAction(tok.details[1].action, action)
    /\ tok.details[1].type \in v.rar
=============================================================================
