---------------------------- MODULE Authorization ----------------------------
(***************************************************************************)
(* The signed authorization-details payload that the consent surface, the  *)
(* vaults and the resource server exchange: its fields, its canonical      *)
(* bytes, its signature and the lifetime bounds a vault puts on it.        *)
(*                                                                         *)
(* Time is counted in ticks, TicksPerSecond to a second, because the code  *)
(* compares the real-valued time.time() with whole-second `exp` values: at *)
(* a tick that is not a whole second the two differ.  `exp` is kept in     *)
(* ticks and is always a whole number of seconds.                          *)
(*                                                                         *)
(* HMAC-SHA256 and SHA-256 are ideal: equal digests mean equal inputs.     *)
(***************************************************************************)
EXTENDS Integers

CONSTANTS
    Actions,         \* a command together with the value of its args
    RarTypes,        \* RAR `type` strings
    Contexts,        \* approver_id together with binding_message
    Keys,            \* HMAC secrets
    ValueOf,         \* action -> what Python's == sees of it: 1, 1.0 and True are one
    TicksPerSecond,  \* resolution of time.time()
    MaxTTL           \* max_signed_payload_ttl_seconds, in ticks

ASSUME ValueAssumption == DOMAIN ValueOf = Actions
ASSUME TicksAssumption == TicksPerSecond \in Nat \ {0}
ASSUME MaxTTLAssumption == MaxTTL \in Nat \ {0}

-----------------------------------------------------------------------------
(* The fields that canonical_authorization_bytes serialises.  `frozen` on a *)
(* payload says that args is a MappingProxyType rather than a dict: the     *)
(* encoder hook unwraps it, so it leaves no trace in the bytes.             *)
CanonicalForms ==
    [action: Actions, rar_type: RarTypes, exp: Nat, context: Contexts]

Signatures == [key: Keys, bytes: CanonicalForms]

(* SignedAuthorizationDetails. *)
Payloads ==
    [action: Actions, rar_type: RarTypes, exp: Nat, context: Contexts,
     frozen: BOOLEAN, signature: Signatures]

Canonical(p) ==
    [action |-> p.action, rar_type |-> p.rar_type,
     exp |-> p.exp, context |-> p.context]

Hmac(secret, bytes) == [key |-> secret, bytes |-> bytes]

(* int(time.time()), in ticks. *)
WholeSeconds(now) == now - (now % TicksPerSecond)

BackdatedExpiry(now, ttl) == WholeSeconds(now) - ttl   \* mutant: sign slip
Expiry(now, ttl) == WholeSeconds(now) + ttl

(* What a signer holding `secret` produces at time `now`. *)
SignAuthorizationDetails(action, rar, context, frozen, secret, ttl, now) ==
    LET exp == Expiry(now, ttl)
        bytes == [action |-> action, rar_type |-> rar,
                  exp |-> exp, context |-> context]
    IN  [action |-> action, rar_type |-> rar, exp |-> exp,
         context |-> context, frozen |-> frozen,
         signature |-> Hmac(secret, bytes)]

-----------------------------------------------------------------------------
(* The three checks a vault makes on a presented payload. *)
SignatureVerifies(p, secret) == p.signature = Hmac(secret, Canonical(p))

RarTypeExpected(p, expectedRar) == p.rar_type \in expectedRar

LapsedAtMint(p, now)  == p.exp <= now
TooLongAtMint(p, now) == p.exp > now + MaxTTL

(* The checks a consumer of a credential makes.  The canonical bytes that   *)
(* the human signed tell 1 from True; the comparison with the request does  *)
(* not.                                                                     *)
SameAction(approved, requested) == ValueOf[approved] = ValueOf[requested]

LapsedAtConsume(exp, now) == now > exp
=============================================================================
