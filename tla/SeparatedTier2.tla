---------------------------- MODULE SeparatedTier2 ----------------------------
(***************************************************************************)
(* The separated Tier 2 deployment: the vault of OAuthVault mints, the     *)
(* resource server of JwtResourceServer validates and executes.  They      *)
(* share nothing but the minted tokens, which callers carry, and each may  *)
(* restart on its own.  A dispatcher built with a resource_server has no   *)
(* vault, so the vault's own consume takes no part.                        *)
(***************************************************************************)
EXTENDS OAuthVault

CONSTANTS RsThreads, RsVerifier, KnownActions, RunnableActions, MaxRsRestarts

ASSUME RsAssumption ==
    /\ RsVerifier \in Verifiers
    /\ KnownActions \subseteq Actions
    /\ RunnableActions \subseteq KnownActions
    /\ MaxRsRestarts \in Nat

(* What the resource server pins every token to tells other parties' tokens *)
(* from those of its vault: they are not HS256, not under the secret the    *)
(* two share, or name another issuer.                                       *)
ASSUME RsForeignAssumption ==
    \A tok \in ForeignTokens :
        tok.alg # "HS256" \/ tok.key # RsVerifier.secret \/ tok.iss # RsVerifier.issuer

VARIABLES rs_consumed, rs_call, rs_outcome, rs_epoch, rs_log

RS == INSTANCE JwtResourceServer

rsVars == <<rs_consumed, rs_call, rs_outcome, rs_epoch, rs_log>>
allVars == <<vars, rsVars>>

T2Init == Init /\ RS!RsInit

VaultStep == (MintNext \/ Restart) /\ UNCHANGED rsVars
RsStep == RS!RsNext(Held) /\ UNCHANGED vars
ClockStep == Tick /\ UNCHANGED rsVars

T2Next == VaultStep \/ RsStep \/ ClockStep

T2Spec == T2Init /\ [][T2Next]_allVars

-----------------------------------------------------------------------------
FormOf(e) == Canonical(grants[e.jti].payload)

(* The resource server, which never sees a human signature, executes only   *)
(* what a human signed, as far as == tells actions apart, and the vault     *)
(* minted a token for.                                                      *)
RsParameterBinding ==
    \A i \in DOMAIN rs_log :
        /\ rs_log[i].jti \in DOMAIN grants
        /\ \E p \in approvals :
            /\ Canonical(p) = FormOf(rs_log[i])
            /\ SameAction(p.action, rs_log[i].action)
            /\ p.rar_type \in RsVerifier.rar

(* One signature executes at most once per pair of lives: twice only if the *)
(* vault restarted between the two mints or the resource server between the *)
(* two executions.                                                          *)
OneExecutionPerPairOfLives ==
    \A i, j \in DOMAIN rs_log :
        /\ FormOf(rs_log[i]) = FormOf(rs_log[j])
        /\ grants[rs_log[i].jti].epoch = grants[rs_log[j].jti].epoch
        /\ rs_log[i].epoch = rs_log[j].epoch
        => i = j

(* The token is spent before the command is looked up.  No race, refusal or *)
(* drifted call loses an approval in this way: a jti that is recorded has   *)
(* been executed in this life of the server, or is about to be, or is bound *)
(* to an action that == does not tell from one the server cannot run.       *)
RsTokenLostOnlyToBadCall ==
    \A j \in rs_consumed :
        \/ \E i \in DOMAIN rs_log : rs_log[i].jti = j /\ rs_log[i].epoch = rs_epoch
        \/ \E t \in RsThreads : rs_call[t].op = "command" /\ rs_call[t].token.jti = j
        \/ \E a \in Actions \ RunnableActions : SameAction(grants[j].payload.action, a)

(* However either process restarts, no execution under a signature begins   *)
(* after the exp the human signed, or later than the max TTL after the      *)
(* mint of the token it used.                                               *)
RsReplayWindowBounded ==
    \A i \in DOMAIN rs_log :
        LET g == grants[rs_log[i].jti]
        IN  /\ g.at <= rs_log[i].at
            /\ rs_log[i].at <= g.payload.exp
            /\ rs_log[i].at <= g.at + MaxTTL

-----------------------------------------------------------------------------
(* The inductive invariant: that of the vault, and what ties the resource   *)
(* server's memory and history to the grants.                               *)
RsCallsInv ==
    \A t \in RsThreads :
        rs_call[t].op \in {"consume", "command"} =>
            LET j == rs_call[t].token.jti
            IN  /\ j \in DOMAIN grants
                /\ rs_call[t].token = grants[j].token
                /\ grants[j].at <= rs_call[t].at
                /\ rs_call[t].at <= grants[j].payload.exp

RsCommandsInv ==
    \A t \in RsThreads :
        rs_call[t].op = "command" =>
            LET j == rs_call[t].token.jti
            IN  /\ j \in rs_consumed
                /\ SameAction(grants[j].payload.action, rs_call[t].action)
                /\ grants[j].payload.rar_type \in RsVerifier.rar
                /\ \A i \in DOMAIN rs_log :
                      rs_log[i].epoch = rs_epoch => rs_log[i].jti # j
                /\ \A u \in RsThreads \ {t} :
                      rs_call[u].op = "command" => rs_call[u].token.jti # j

RsLogInv ==
    \A i \in DOMAIN rs_log :
        LET j == rs_log[i].jti
        IN  /\ j \in DOMAIN grants
            /\ rs_log[i].epoch <= rs_epoch
            /\ rs_log[i].epoch = rs_epoch => j \in rs_consumed
            /\ SameAction(grants[j].payload.action, rs_log[i].action)
            /\ grants[j].payload.rar_type \in RsVerifier.rar
            /\ grants[j].at <= rs_log[i].at
            /\ rs_log[i].at <= grants[j].payload.exp

RsSpentOncePerLife ==
    \A i, j \in DOMAIN rs_log :
        rs_log[i].jti = rs_log[j].jti /\ rs_log[i].epoch = rs_log[j].epoch => i = j

T2IInv ==
    /\ IInv
    /\ RS!RsTypeOK
    /\ rs_consumed \subseteq DOMAIN grants
    /\ RsCallsInv
    /\ RsCommandsInv
    /\ RsLogInv
    /\ RsSpentOncePerLife
    /\ RsTokenLostOnlyToBadCall

-----------------------------------------------------------------------------
RsContract ==
    INSTANCE Delegation WITH
        Consents      <- SignableForms,
        SelfContained <- TRUE,
        approved      <- {Canonical(p) : p \in approvals},
        issued        <- {CredentialOf(j) : j \in DOMAIN grants},
        redeemed      <- {CredentialOf(j) : j \in rs_consumed},
        life          <- [issuer |-> epoch, executor |-> rs_epoch],
        log           <- [i \in DOMAIN rs_log |->
                            [credential |-> CredentialOf(rs_log[i].jti),
                             life       |-> rs_log[i].epoch,
                             action     |-> rs_log[i].action]]

(* Vault and resource server together keep the delegation contract although *)
(* they share no record of what was used and restart on their own.          *)
RsKeepsContract == RsContract!Spec
=============================================================================
