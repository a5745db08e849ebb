------------------------------ MODULE OAuthVault ------------------------------
(***************************************************************************)
(* The Tier 2 vault (OAuthVault), co-located with the dispatcher of one    *)
(* bridge process.  Its credentials are self-contained, so a restart loses *)
(* only the records of what was used.                                      *)
(*                                                                         *)
(* mint takes three steps: the checks, the lock section that marks the     *)
(* signature as exchanged, and the encoding of the JWT after the lock is   *)
(* released, which fails on args that json.dumps cannot encode.  consume   *)
(* takes two: the checks on the token and the clock are outside its lock.  *)
(***************************************************************************)
EXTENDS JwtTokens, FiniteSets

CONSTANTS
    Threads,          \* threads of the bridge process
    UserSecret,       \* user_signing_secret
    Self,             \* the vault as a verifier: mint_secret, issuer, audience, rar types
    ForeignTokens,    \* tokens of other issuers and forgeries that callers may hold
    TTLs,             \* ttl_seconds values signers ask for, in ticks
    MaxTime,          \* bound: last instant of a behaviour
    MaxApprovals,     \* bound: distinct payloads the human signs
    MaxMints,         \* bound: credentials ever minted
    MaxRestarts       \* bound: restarts of the process

ASSUME OAuthAssumption ==
    /\ UserSecret \in Keys
    /\ Self \in Verifiers
    /\ ForeignTokens \subseteq Tokens
    /\ TTLs \subseteq Nat
    /\ MaxTime \in Nat /\ MaxApprovals \in Nat
    /\ MaxMints \in Nat /\ MaxRestarts \in Nat

(* Tokens that are not this vault's own differ where it can tell: in alg,   *)
(* key or issuer, and carry none of its jtis.                               *)
ASSUME ForeignAssumption ==
    \A tok \in ForeignTokens :
        /\ tok.alg # "HS256" \/ tok.key # Self.secret \/ tok.iss # Self.issuer
        /\ tok.jti = 0

VARIABLES
    now,                   \* time.time(), in ticks
    consumed,              \* _consumed
    consumed_signatures,   \* _consumed_signatures
    call,                  \* per thread: the call in progress past its first step
    outcome,               \* what the latest call to return gave its caller
    epoch,                 \* how many times the process has restarted
    approvals,             \* history: what the human signed
    grants,                \* history: every token minted; a jti is an index
    log                    \* history: every execution a token authorised

memory == <<consumed, consumed_signatures>>
history == <<approvals, grants, log>>
vars == <<now, memory, call, outcome, epoch, history>>

-----------------------------------------------------------------------------
Idle == [op |-> "idle"]

Calls ==
    {Idle}
        \cup [op: {"mint", "encode"}, payload: Payloads, at: Nat]
        \cup [op: {"consume", "perform"}, token: Tokens, action: Actions, at: Nat]

Outcomes ==
    {"none", "minted", "performed", "TypeError",
     "SignatureMismatch", "CredentialExpired", "PayloadDriftAtMint",
     "SignatureReplay", "MalformedCredential", "UnknownIssuer",
     "WrongAudience", "CredentialReplay", "CredentialDrift"}

Grants == [token: Tokens, payload: Payloads, at: Nat, epoch: 0..MaxRestarts]
Entries == [jti: Nat, action: Actions, at: Nat, epoch: 0..MaxRestarts]

TypeOK ==
    /\ now \in 0..MaxTime
    /\ consumed \subseteq Nat
    /\ consumed_signatures \subseteq CanonicalForms
    /\ call \in [Threads -> Calls]
    /\ outcome \in Outcomes
    /\ epoch \in 0..MaxRestarts
    /\ approvals \subseteq Payloads
    /\ grants \in Seq(Grants)
    /\ log \in Seq(Entries)

Init ==
    /\ now = 0
    /\ consumed = {}
    /\ consumed_signatures = {}
    /\ call = [t \in Threads |-> Idle]
    /\ outcome = "none"
    /\ epoch = 0
    /\ approvals = {}
    /\ grants = << >>
    /\ log = << >>

-----------------------------------------------------------------------------
Sign(action, rar, context, frozen, ttl) ==
    /\ Cardinality(approvals) < MaxApprovals
    /\ approvals' = approvals \cup
         {SignAuthorizationDetails(action, rar, context, frozen, UserSecret, ttl, now)}
    /\ UNCHANGED <<now, memory, call, outcome, epoch, grants, log>>

Return(t, result) ==
    /\ call' = [call EXCEPT ![t] = Idle]
    /\ outcome' = result

(* The first check of mint that a payload fails: here rar_type comes before *)
(* the exp bounds.                                                          *)
MintRefusal(p) ==
    IF ~SignatureVerifies(p, UserSecret) THEN "SignatureMismatch"
    ELSE IF ~RarTypeExpected(p, Self.rar) THEN "PayloadDriftAtMint"
    ELSE IF LapsedAtMint(p, now) THEN "CredentialExpired"
    ELSE "PayloadDriftAtMint"

MintableUnsigned(p) ==   \* mutant: the human's signature is not verified
    /\ RarTypeExpected(p, Self.rar)
    /\ ~LapsedAtMint(p, now)
    /\ ~TooLongAtMint(p, now)

Mintable(p) ==
    /\ SignatureVerifies(p, UserSecret)
    /\ RarTypeExpected(p, Self.rar)
    /\ ~LapsedAtMint(p, now)
    /\ ~TooLongAtMint(p, now)

MintRefusePoisons(t, p) ==   \* mutant: the replay record precedes validation
    /\ call[t] = Idle
    /\ ~Mintable(p)
    /\ consumed_signatures' = consumed_signatures \cup {Canonical(p)}
    /\ Return(t, MintRefusal(p))
    /\ UNCHANGED <<now, consumed, epoch, history>>

MintRefuse(t, p) ==
    /\ call[t] = Idle
    /\ ~Mintable(p)
    /\ Return(t, MintRefusal(p))
    /\ UNCHANGED <<now, memory, epoch, history>>

MintVerify(t, p) ==
    /\ call[t] = Idle
    /\ Mintable(p)
    /\ call' = [call EXCEPT ![t] = [op |-> "mint", payload |-> p, at |-> now]]
    /\ UNCHANGED <<now, memory, outcome, epoch, history>>

NeverExchanged(p) == FALSE                 \* mutant: no replay check
AlreadyExchanged(p) == Canonical(p) \in consumed_signatures

MintReplay(t) ==
    /\ call[t].op = "mint"
    /\ AlreadyExchanged(call[t].payload)
    /\ Return(t, "SignatureReplay")
    /\ UNCHANGED <<now, memory, epoch, history>>

(* The lock section marks the signature; there is no credential yet.        *)
MintRecord(t) ==
    /\ call[t].op = "mint"
    /\ ~AlreadyExchanged(call[t].payload)
    /\ consumed_signatures' = consumed_signatures \cup {Canonical(call[t].payload)}
    /\ call' = [call EXCEPT ![t].op = "encode"]
    /\ UNCHANGED <<now, consumed, outcome, epoch, history>>

(* jwt_encode has no encoder hook: args that are a MappingProxyType raise.  *)
Encodable(p) == ~p.frozen

MintEncodeFails(t) ==
    /\ call[t].op = "encode"
    /\ ~Encodable(call[t].payload)
    /\ Return(t, "TypeError")
    /\ UNCHANGED <<now, memory, epoch, history>>

TokenFor(p, jti) ==
    [alg |-> "HS256", key |-> Self.secret, iss |-> Self.issuer,
     aud |-> {Self.audience}, exp |-> p.exp, jti |-> jti,
     details |-> <<[type |-> p.rar_type, action |-> p.action]>>]

MintEncode(t) ==
    /\ call[t].op = "encode"
    /\ Len(grants) < MaxMints
    /\ LET p == call[t].payload
       IN  /\ Encodable(p)
           /\ grants' = Append(grants, [token |-> TokenFor(p, Len(grants) + 1),
                                        payload |-> p, at |-> call[t].at,
                                        epoch |-> epoch])
    /\ Return(t, "minted")
    /\ UNCHANGED <<now, memory, epoch, approvals, log>>

-----------------------------------------------------------------------------
(* What callers hold: the tokens minted, whole, and other parties' tokens.  *)
Held == {grants[j].token : j \in DOMAIN grants} \cup ForeignTokens

ConsumeRefuse(t, tok, action) ==
    /\ call[t] = Idle
    /\ ~TokenAccepted(tok, Self, now)
    /\ Return(t, TokenRefusal(tok, Self, now))
    /\ UNCHANGED <<now, memory, epoch, history>>

ConsumeCheck(t, tok, action) ==
    /\ call[t] = Idle
    /\ TokenAccepted(tok, Self, now)
    /\ call' = [call EXCEPT ![t] =
                   [op |-> "consume", token |-> tok, action |-> action, at |-> now]]
    /\ UNCHANGED <<now, memory, outcome, epoch, history>>

ConsumeRebuff(t) ==
    /\ call[t].op = "consume"
    /\ ~BoundTo(call[t].token, call[t].action, Self, consumed)
    /\ Return(t, BindingRefusal(call[t].token, consumed))
    /\ UNCHANGED <<now, memory, epoch, history>>

ConsumeRecord(t) ==
    /\ call[t].op = "consume"
    /\ BoundTo(call[t].token, call[t].action, Self, consumed)
    /\ consumed' = consumed \cup {call[t].token.jti}
    /\ call' = [call EXCEPT ![t].op = "perform"]
    /\ UNCHANGED <<now, consumed_signatures, outcome, epoch, history>>

(* The dispatcher executes the command locally after consume returns.       *)
Perform(t) ==
    /\ call[t].op = "perform"
    /\ log' = Append(log, [jti |-> call[t].token.jti, action |-> call[t].action,
                           at |-> call[t].at, epoch |-> epoch])
    /\ Return(t, "performed")
    /\ UNCHANGED <<now, memory, epoch, approvals, grants>>

-----------------------------------------------------------------------------
Tick ==
    /\ now < MaxTime
    /\ now' = now + 1
    /\ UNCHANGED <<memory, call, outcome, epoch, history>>

Restart ==
    /\ epoch < MaxRestarts
    /\ epoch' = epoch + 1
    /\ consumed' = {}
    /\ consumed_signatures' = {}
    /\ call' = [t \in Threads |-> Idle]
    /\ UNCHANGED <<now, outcome, history>>

(* What callers can present to mint: an approved payload, also with another *)
(* action than its signature covers or under another key's signature.       *)
Altered(p, a, k) == [p EXCEPT !.action = a, !.signature.key = k]

Presentable == {Altered(p, a, k) : p \in approvals, a \in Actions, k \in Keys}

MintNext ==
    \/ \E a \in Actions, r \in RarTypes, c \in Contexts, f \in BOOLEAN, ttl \in TTLs :
            Sign(a, r, c, f, ttl)
    \/ \E t \in Threads :
        \/ \E p \in Presentable : MintRefuse(t, p) \/ MintVerify(t, p)
        \/ MintReplay(t) \/ MintRecord(t)
        \/ MintEncode(t) \/ MintEncodeFails(t)

ConsumeNext ==
    \E t \in Threads :
        \/ \E tok \in Held, a \in Actions :
                ConsumeRefuse(t, tok, a) \/ ConsumeCheck(t, tok, a)
        \/ ConsumeRebuff(t) \/ ConsumeRecord(t)
        \/ Perform(t)

Next == MintNext \/ ConsumeNext \/ Tick \/ Restart

Spec == Init /\ [][Next]_vars
-----------------------------------------------------------------------------
(* Whatever a token executed is what a human signed as far as Python's ==   *)
(* tells actions apart, which is all that consume compares, under the       *)
(* payload that was exchanged for the token: never on the word of a foreign *)
(* token, of an altered payload or of another RAR type.                     *)
ParameterBinding ==
    \A i \in DOMAIN log :
        /\ log[i].jti \in DOMAIN grants
        /\ \E p \in approvals :
            /\ Canonical(p) = Canonical(grants[log[i].jti].payload)
            /\ SameAction(p.action, log[i].action)
            /\ p.rar_type \in Self.rar

(* What the documents promise: a token executes the exact command and args  *)
(* whose canonical bytes the human signed.  consume compares them with !=,  *)
(* for which 1 and True are the same.                                       *)
ExactBinding ==
    \A i \in DOMAIN log : log[i].action = grants[log[i].jti].payload.action

(* Within one life of the process a token is executed at most once, though  *)
(* the checks on the token and its recording are separate steps.            *)
TokenSpentOncePerLife ==
    \A i, j \in DOMAIN log :
        log[i].jti = log[j].jti /\ log[i].epoch = log[j].epoch => i = j

(* The restart-replay limitation is bounded: however often the process      *)
(* restarts, no execution begins after the exp that the human signed, nor   *)
(* later than the max TTL after the token's mint looked at the clock.       *)
ReplayWindowBounded ==
    \A i \in DOMAIN log :
        LET g == grants[log[i].jti]
        IN  /\ g.at <= log[i].at
            /\ log[i].at <= g.payload.exp
            /\ log[i].at <= g.at + MaxTTL

(* Within one life of the process, one signature yields one token.          *)
SignatureExchangedOncePerLife ==
    \A i, j \in DOMAIN grants :
        /\ Canonical(grants[i].payload) = Canonical(grants[j].payload)
        /\ grants[i].epoch = grants[j].epoch
        => i = j

HasToken(c) ==
    \/ \E j \in DOMAIN grants : Canonical(grants[j].payload) = c
    \/ \E t \in Threads : call[t].op = "encode" /\ Canonical(call[t].payload) = c

(* No race can use up a signature for nothing: a signature marked as        *)
(* exchanged has its token, has it coming, or had args jwt_encode rejects.  *)
SignatureLostOnlyToEncoding ==
    \A c \in consumed_signatures :
        \/ HasToken(c)
        \/ \E p \in approvals : Canonical(p) = c /\ ~Encodable(p)

(* What the class docstring says: one human signature exchanges for one     *)
(* credential, so a signature that is marked as exchanged has its token or  *)
(* has it coming.                                                           *)
SpentSignatureHasCredential == \A c \in consumed_signatures : HasToken(c)

-----------------------------------------------------------------------------
(* The inductive invariant behind the properties above.                     *)

(* What a signer can have signed by the end of a behaviour.                 *)
SignableForms ==
    [action: Actions, rar_type: RarTypes,
     exp: {Expiry(at, ttl) : at \in 0..MaxTime, ttl \in TTLs},
     context: Contexts]

(* What a human signed, the signature covers.                               *)
ApprovalsInv ==
    \A p \in approvals :
        /\ p.signature = Hmac(UserSecret, Canonical(p))
        /\ Canonical(p) \in SignableForms

(* A payload whose checks mint passed at time `at`: the very payload that   *)
(* was signed.                                                              *)
PassedMint(p, at) ==
    /\ p \in approvals
    /\ p.rar_type \in Self.rar
    /\ at <= now
    /\ at <= p.exp
    /\ p.exp <= at + MaxTTL

MintCallsInv ==
    \A t \in Threads :
        call[t].op \in {"mint", "encode"} => PassedMint(call[t].payload, call[t].at)

(* Between its lock section and the encoding of its token, a mint alone     *)
(* holds its signature.                                                     *)
EncodeCallsInv ==
    \A t \in Threads :
        call[t].op = "encode" =>
            LET c == Canonical(call[t].payload)
            IN  /\ c \in consumed_signatures
                /\ \A j \in DOMAIN grants :
                      grants[j].epoch = epoch => Canonical(grants[j].payload) # c
                /\ \A u \in Threads \ {t} :
                      call[u].op = "encode" => Canonical(call[u].payload) # c

(* A token past the first checks of consume is one that this vault minted,  *)
(* in whichever life, and was live when it was looked at.                   *)
TokenCallsInv ==
    \A t \in Threads :
        call[t].op \in {"consume", "perform"} =>
            LET j == call[t].token.jti
            IN  /\ j \in DOMAIN grants
                /\ call[t].token = grants[j].token
                /\ grants[j].at <= call[t].at
                /\ call[t].at <= grants[j].payload.exp

PerformCallsInv ==
    \A t \in Threads :
        call[t].op = "perform" =>
            LET j == call[t].token.jti
            IN  /\ j \in consumed
                /\ SameAction(grants[j].payload.action, call[t].action)
                /\ \A i \in DOMAIN log : log[i].epoch = epoch => log[i].jti # j
                /\ \A u \in Threads \ {t} :
                      call[u].op = "perform" => call[u].token.jti # j

GrantsInv ==
    /\ \A j \in DOMAIN grants :
        /\ grants[j].token = TokenFor(grants[j].payload, j)
        /\ PassedMint(grants[j].payload, grants[j].at)
        /\ grants[j].epoch <= epoch
        /\ grants[j].epoch = epoch =>
             Canonical(grants[j].payload) \in consumed_signatures
    /\ consumed \subseteq DOMAIN grants

LogInv ==
    \A i \in DOMAIN log :
        /\ log[i].jti \in DOMAIN grants
        /\ log[i].epoch <= epoch
        /\ log[i].epoch = epoch => log[i].jti \in consumed
        /\ SameAction(grants[log[i].jti].payload.action, log[i].action)
        /\ grants[log[i].jti].at <= log[i].at
        /\ log[i].at <= grants[log[i].jti].payload.exp

(* Together with the type invariant and the three properties that are part  *)
(* of it, this is preserved by every step of the vault.                     *)
IInv ==
    /\ TypeOK
    /\ ApprovalsInv
    /\ MintCallsInv /\ EncodeCallsInv
    /\ TokenCallsInv /\ PerformCallsInv
    /\ GrantsInv
    /\ LogInv
    /\ TokenSpentOncePerLife
    /\ SignatureExchangedOncePerLife
    /\ SignatureLostOnlyToEncoding

-----------------------------------------------------------------------------
CredentialOf(jti) ==
    [consent |-> Canonical(grants[jti].payload), life |-> grants[jti].epoch]

Contract ==
    INSTANCE Delegation WITH
        Consents      <- SignableForms,
        SelfContained <- TRUE,
        approved      <- {Canonical(p) : p \in approvals},
        issued        <- {CredentialOf(j) : j \in DOMAIN grants},
        redeemed      <- {CredentialOf(j) : j \in consumed},
        life          <- [issuer |-> epoch, executor |-> epoch],
        log           <- [i \in DOMAIN log |->
                            [credential |-> CredentialOf(log[i].jti),
                             life       |-> log[i].epoch,
                             action     |-> log[i].action]]

(* Every step of the vault is a step of the delegation contract or leaves   *)
(* it as it was.                                                            *)
KeepsContract == Contract!Spec
=============================================================================
