---------------------------- MODULE InProcessVault ----------------------------
(***************************************************************************)
(* The Tier 1 vault (InProcessVault) behind the dispatcher of one bridge   *)
(* process: threads call mint and consume, a consumed credential leads to  *)
(* the local execution of the command, the wall clock advances at any      *)
(* moment, and the process may restart, which loses the vault's memory but *)
(* not the payloads and credentials that callers hold.                     *)
(*                                                                         *)
(* mint is two steps, because everything before its lock section runs      *)
(* unlocked; consume is one, because its whole body but the split of the   *)
(* credential is one lock section.                                         *)
(***************************************************************************)
EXTENDS Authorization, Sequences, FiniteSets

CONSTANTS
    Threads,        \* threads of the bridge process
    Secret,         \* the secret the vault and the signer share
    ExpectedRar,    \* rar types the vault accepts; RarTypes when it has no expectation
    TTLs,           \* ttl_seconds values signers ask for, in ticks
    MaxTime,        \* bound: last instant of a behaviour
    MaxApprovals,   \* bound: distinct payloads the human signs
    MaxMints,       \* bound: credentials ever issued
    MaxRestarts     \* bound: restarts of the process

ASSUME VaultAssumption ==
    /\ Secret \in Keys
    /\ ExpectedRar \subseteq RarTypes
    /\ TTLs \subseteq Nat
    /\ MaxTime \in Nat
    /\ MaxApprovals \in Nat
    /\ MaxMints \in Nat
    /\ MaxRestarts \in Nat

VARIABLES
    now,                   \* time.time(), in ticks
    issued,                \* _issued: jti -> the payload the credential is bound to
    consumed,              \* _consumed
    consumed_signatures,   \* _consumed_signatures
    call,                  \* per thread: the call in progress past its first step
    outcome,               \* what the latest call to return gave its caller
    epoch,                 \* how many times the process has restarted
    approvals,             \* history: what the human signed
    grants,                \* history: every credential ever issued; a jti is an index
    log                    \* history: every execution a credential authorised

memory == <<issued, consumed, consumed_signatures>>
history == <<approvals, grants, log>>
vars == <<now, memory, call, outcome, epoch, history>>

-----------------------------------------------------------------------------
Jtis == 1..MaxMints
MalformedJti == 0   \* a credential without the '.' separator has no jti

Idle == [op |-> "idle"]

Calls ==
    {Idle}
        \cup [op: {"mint"}, payload: Payloads, at: Nat]
        \cup [op: {"perform"}, jti: Jtis, action: Actions, at: Nat]

VaultErrors ==
    {"SignatureMismatch", "CredentialExpired", "PayloadDriftAtMint",
     "SignatureReplay", "MalformedCredential", "CredentialReplay",
     "CredentialDrift"}

Outcomes == {"none", "minted", "performed"} \cup VaultErrors

Grants == [payload: Payloads, at: Nat, epoch: 0..MaxRestarts]
Entries == [jti: Jtis, action: Actions, at: Nat, epoch: 0..MaxRestarts]

TypeOK ==
    /\ now \in 0..MaxTime
    /\ DOMAIN issued \subseteq Jtis
    /\ \A j \in DOMAIN issued : issued[j] \in Payloads
    /\ consumed \subseteq Jtis
    /\ consumed_signatures \subseteq CanonicalForms
    /\ call \in [Threads -> Calls]
    /\ outcome \in Outcomes
    /\ epoch \in 0..MaxRestarts
    /\ approvals \subseteq Payloads
    /\ grants \in Seq(Grants)
    /\ Len(grants) <= MaxMints
    /\ log \in Seq(Entries)

Init ==
    /\ now = 0
    /\ issued = [j \in {} |-> {}]
    /\ consumed = {}
    /\ consumed_signatures = {}
    /\ call = [t \in Threads |-> Idle]
    /\ outcome = "none"
    /\ epoch = 0
    /\ approvals = {}
    /\ grants = << >>
    /\ log = << >>

-----------------------------------------------------------------------------
(* The human's side. *)
Sign(action, rar, context, ttl) ==
    /\ Cardinality(approvals) < MaxApprovals
    /\ approvals' = approvals \cup
         {SignAuthorizationDetails(action, rar, context, FALSE, Secret, ttl, now)}
    /\ UNCHANGED <<now, memory, call, outcome, epoch, grants, log>>

-----------------------------------------------------------------------------
(* mint *)
Return(t, result) ==
    /\ call' = [call EXCEPT ![t] = Idle]
    /\ outcome' = result

(* The first check of mint that a payload fails. *)
MintRefusal(p) ==
    IF ~SignatureVerifies(p, Secret) THEN "SignatureMismatch"
    ELSE IF LapsedAtMint(p, now) THEN "CredentialExpired"
    ELSE "PayloadDriftAtMint"

Mintable(p) ==
    /\ SignatureVerifies(p, Secret)
    /\ ~LapsedAtMint(p, now)
    /\ ~TooLongAtMint(p, now)
    /\ RarTypeExpected(p, ExpectedRar)

MintRefusePoisons(t, p) ==   \* mutant: the replay record precedes validation
    /\ call[t] = Idle
    /\ ~Mintable(p)
    /\ consumed_signatures' = consumed_signatures \cup {Canonical(p)}
    /\ Return(t, MintRefusal(p))
    /\ UNCHANGED <<now, issued, consumed, epoch, history>>

MintRefuse(t, p) ==
    /\ call[t] = Idle
    /\ ~Mintable(p)
    /\ Return(t, MintRefusal(p))
    /\ UNCHANGED <<now, memory, epoch, history>>

MintVerify(t, p) ==
    /\ call[t] = Idle
    /\ Mintable(p)
    /\ call' = [call EXCEPT ![t] = [op |-> "mint", payload |-> p, at |-> now]]
    /\ UNCHANGED <<now, memory, outcome, epoch, history>>

(* The lock section: one human signature, one credential. *)
NeverExchanged(p) == FALSE                 \* mutant: no replay check
AlreadyExchanged(p) == Canonical(p) \in consumed_signatures

MintReplay(t) ==
    /\ call[t].op = "mint"
    /\ AlreadyExchanged(call[t].payload)
    /\ Return(t, "SignatureReplay")
    /\ UNCHANGED <<now, memory, epoch, history>>

MintRecord(t) ==
    /\ call[t].op = "mint"
    /\ Len(grants) < MaxMints
    /\ LET p   == call[t].payload
           jti == Len(grants) + 1
       IN  /\ ~AlreadyExchanged(p)
           /\ consumed_signatures' = consumed_signatures \cup {Canonical(p)}
           /\ issued' = [j \in DOMAIN issued \cup {jti} |->
                            IF j = jti THEN p ELSE issued[j]]
           /\ grants' = Append(grants,
                            [payload |-> p, at |-> call[t].at, epoch |-> epoch])
    /\ Return(t, "minted")
    /\ UNCHANGED <<now, consumed, epoch, approvals, log>>

-----------------------------------------------------------------------------
(* consume, and the execution the dispatcher makes after it *)
ConsumeRefusal(jti, action) ==
    IF jti = MalformedJti THEN "MalformedCredential"
    ELSE IF jti \notin DOMAIN issued THEN "SignatureMismatch"
    ELSE IF jti \in consumed THEN "CredentialReplay"
    ELSE IF LapsedAtConsume(issued[jti].exp, now) THEN "CredentialExpired"
    ELSE "CredentialDrift"

ConsumableTwice(jti, action) ==       \* mutant: no replay check
    /\ jti \in DOMAIN issued
    /\ ~LapsedAtConsume(issued[jti].exp, now)
    /\ SameAction(issued[jti].action, action)

ConsumableForAnything(jti, action) == \* mutant: no parameter binding
    /\ jti \in DOMAIN issued
    /\ jti \notin consumed
    /\ ~LapsedAtConsume(issued[jti].exp, now)

ConsumableForever(jti, action) ==     \* mutant: no expiry check
    /\ jti \in DOMAIN issued
    /\ jti \notin consumed
    /\ SameAction(issued[jti].action, action)

Consumable(jti, action) ==
    /\ jti \in DOMAIN issued
    /\ jti \notin consumed
    /\ ~LapsedAtConsume(issued[jti].exp, now)
    /\ SameAction(issued[jti].action, action)

ConsumeRefuse(t, jti, action) ==
    /\ call[t] = Idle
    /\ ~Consumable(jti, action)
    /\ Return(t, ConsumeRefusal(jti, action))
    /\ UNCHANGED <<now, memory, epoch, history>>

Consume(t, jti, action) ==
    /\ call[t] = Idle
    /\ Consumable(jti, action)
    /\ consumed' = consumed \cup {jti}
    /\ call' = [call EXCEPT ![t] =
                   [op |-> "perform", jti |-> jti, action |-> action, at |-> now]]
    /\ UNCHANGED <<now, issued, consumed_signatures, outcome, epoch, history>>

(* _execute_locally runs the command; whether it succeeds is the task       *)
(* store's business, the credential is spent either way.                    *)
Perform(t) ==
    /\ call[t].op = "perform"
    /\ log' = Append(log, [jti |-> call[t].jti, action |-> call[t].action,
                           at |-> call[t].at, epoch |-> epoch])
    /\ Return(t, "performed")
    /\ UNCHANGED <<now, memory, epoch, approvals, grants>>

-----------------------------------------------------------------------------
Tick ==
    /\ now < MaxTime
    /\ now' = now + 1
    /\ UNCHANGED <<memory, call, outcome, epoch, history>>

ForgetUses ==      \* mutant: the issuance record alone is durable
    /\ consumed' = {}
    /\ consumed_signatures' = {}
    /\ UNCHANGED issued

ForgetAll ==
    /\ issued' = [j \in {} |-> {}]
    /\ consumed' = {}
    /\ consumed_signatures' = {}

(* The process stops between any two steps and starts again with a new      *)
(* vault: the calls in progress are lost, and so is all its memory.         *)
Restart ==
    /\ epoch < MaxRestarts
    /\ epoch' = epoch + 1
    /\ ForgetAll
    /\ call' = [t \in Threads |-> Idle]
    /\ UNCHANGED <<now, outcome, history>>

(* What callers can present: any fields, with an exp as signed or put off,  *)
(* under a signature that some key holder has made over an approved form.   *)
(* (A frozen args makes no difference to this vault: only its canonical     *)
(* bytes are looked at.)                                                    *)
ClaimableExps == {p.exp + late : p \in approvals, late \in {0, MaxTTL}}

HeldSignatures == {Hmac(k, Canonical(p)) : k \in Keys, p \in approvals}

Presentable ==
    [action: Actions, rar_type: RarTypes, exp: ClaimableExps,
     context: Contexts, frozen: {FALSE}, signature: HeldSignatures]

Next ==
    \/ \E a \in Actions, r \in RarTypes, c \in Contexts, ttl \in TTLs :
            Sign(a, r, c, ttl)
    \/ \E t \in Threads :
        \/ \E p \in Presentable : MintRefuse(t, p) \/ MintVerify(t, p)
        \/ MintReplay(t)
        \/ MintRecord(t)
        \/ \E jti \in Jtis \cup {MalformedJti}, a \in Actions :
                ConsumeRefuse(t, jti, a) \/ Consume(t, jti, a)
        \/ Perform(t)
    \/ Tick
    \/ Restart

Spec == Init /\ [][Next]_vars
-----------------------------------------------------------------------------
(* Whatever a credential executed is what a human signed: the action, as    *)
(* far as == tells actions apart, under the very form that was approved     *)
(* (binding at mint and at consume).                                        *)
ParameterBinding ==
    \A i \in DOMAIN log :
        \E p \in approvals :
            /\ Canonical(p) = Canonical(grants[log[i].jti].payload)
            /\ SameAction(p.action, log[i].action)

(* No credential is executed twice, however threads interleave and the      *)
(* process restarts (the consumed-jti set with the lost issuance record).   *)
CredentialSpentOnce ==
    \A i, j \in DOMAIN log : log[i].jti = log[j].jti => i = j

(* A credential works only in the life of the process that issued it: the   *)
(* restart-replay window of Tier 1 is closed for credentials.               *)
CredentialDiesWithProcess ==
    \A i \in DOMAIN log : log[i].epoch = grants[log[i].jti].epoch

(* Credentials are accepted between their mint and their exp, at most the   *)
(* vault's own max TTL after the mint looked at the clock, although that    *)
(* look happens before the lock section that issues them.                   *)
LifetimeEnforced ==
    \A i \in DOMAIN log :
        LET g == grants[log[i].jti]
        IN  /\ g.at <= log[i].at
            /\ log[i].at <= g.payload.exp
            /\ log[i].at <= g.at + MaxTTL

(* Within one life of the process, one signature is exchanged for one       *)
(* credential even when its presentations race (the check and the record    *)
(* share a lock section).                                                   *)
SignatureExchangedOncePerLife ==
    \A i, j \in DOMAIN grants :
        /\ Canonical(grants[i].payload) = Canonical(grants[j].payload)
        /\ grants[i].epoch = grants[j].epoch
        => i = j

(* A signature is never used up without a credential to show for it: the    *)
(* replay record and the issuance record are written together.              *)
SpentSignatureHasCredential ==
    \A c \in consumed_signatures :
        \E j \in DOMAIN issued : Canonical(issued[j]) = c

(* What the class docstring says of a payload replayed after a restart: one *)
(* human signature exchanges for one credential, restart or no restart.     *)
SignatureExchangedOnce ==
    \A i, j \in DOMAIN grants :
        Canonical(grants[i].payload) = Canonical(grants[j].payload) => i = j

-----------------------------------------------------------------------------
(* The inductive invariant behind the properties above.                     *)

(* An approved form stands behind a payload: some key holder signed exactly *)
(* its bytes.                                                               *)
Approved(p) == \E q \in approvals : Canonical(q) = Canonical(p)

(* A payload whose checks mint passed at time `at`. *)
PassedMint(p, at) ==
    /\ Approved(p)
    /\ at <= now
    /\ at <= p.exp
    /\ p.exp <= at + MaxTTL

CallsInv ==
    \A t \in Threads :
        /\ call[t].op = "mint" => PassedMint(call[t].payload, call[t].at)
        /\ call[t].op = "perform" =>
             LET j == call[t].jti
             IN  /\ j \in consumed
                 /\ SameAction(grants[j].payload.action, call[t].action)
                 /\ grants[j].at <= call[t].at
                 /\ call[t].at <= grants[j].payload.exp
                 /\ \A i \in DOMAIN log : log[i].jti # j
                 /\ \A u \in Threads \ {t} :
                        call[u].op = "perform" => call[u].jti # j

(* The ghost grants against the vault's memory: this life's grants are the  *)
(* issuance record, and their forms are exactly the spent signatures.       *)
GrantsInv ==
    /\ \A j \in DOMAIN grants :
        /\ PassedMint(grants[j].payload, grants[j].at)
        /\ grants[j].epoch <= epoch
        /\ grants[j].epoch = epoch =>
             Canonical(grants[j].payload) \in consumed_signatures
    /\ \A j \in DOMAIN issued :
        /\ j \in DOMAIN grants
        /\ issued[j] = grants[j].payload
        /\ grants[j].epoch = epoch
    /\ consumed \subseteq DOMAIN issued

LogInv ==
    \A i \in DOMAIN log :
        /\ log[i].jti \in DOMAIN grants
        /\ log[i].epoch = grants[log[i].jti].epoch
        /\ log[i].epoch = epoch => log[i].jti \in consumed
        /\ SameAction(grants[log[i].jti].payload.action, log[i].action)
        /\ grants[log[i].jti].at <= log[i].at
        /\ log[i].at <= grants[log[i].jti].payload.exp

(* Together with the type invariant and the three properties that are part  *)
(* of it, this is preserved by every step of the vault.                     *)
IInv ==
    /\ TypeOK
    /\ CallsInv
    /\ GrantsInv
    /\ LogInv
    /\ CredentialSpentOnce
    /\ SignatureExchangedOncePerLife
    /\ SpentSignatureHasCredential

-----------------------------------------------------------------------------
(* What a signer can have signed by the end of a behaviour. *)
SignableForms ==
    [action: Actions, rar_type: RarTypes,
     exp: {Expiry(at, ttl) : at \in 0..MaxTime, ttl \in TTLs},
     context: Contexts]

CredentialOf(jti) ==
    [consent |-> Canonical(grants[jti].payload), life |-> grants[jti].epoch]

(* The vault is issuer and executor of the delegation contract, and its     *)
(* credentials mean nothing without its memory.                             *)
Contract ==
    INSTANCE Delegation WITH
        Consents      <- SignableForms,
        SelfContained <- FALSE,
        approved      <- {Canonical(p) : p \in approvals},
        issued        <- {CredentialOf(j) : j \in DOMAIN grants},
        redeemed      <- {CredentialOf(j) : j \in consumed},
        life          <- [issuer |-> epoch, executor |-> epoch],
        log           <- [i \in DOMAIN log |->
                            [credential |-> CredentialOf(log[i].jti),
                             life       |-> log[i].epoch,
                             action     |-> log[i].action]]

(* Each step of the vault is a step of the delegation contract or leaves it *)
(* as it was: sign, exchange once, redeem once, run once what was signed,   *)
(* and after a restart, begin again with the same approvals.                *)
KeepsContract == Contract!Spec
=============================================================================
