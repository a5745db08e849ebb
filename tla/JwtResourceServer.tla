--------------------------- MODULE JwtResourceServer ---------------------------
(***************************************************************************)
(* The separated resource server: it validates a Vault-minted JWT against  *)
(* its own configuration and its own record of consumed jtis, then         *)
(* executes the command.  execute is three steps of a thread: the checks   *)
(* that need no lock, the lock section, the command.                       *)
(*                                                                         *)
(* A component: `now` belongs to the environment, which also says which    *)
(* tokens are presented.                                                   *)
(***************************************************************************)
EXTENDS JwtTokens

CONSTANTS
    RsThreads,        \* threads of the resource server's process
    RsVerifier,       \* verification_secret, expected issuer, audience, rar types
    KnownActions,     \* actions whose command is in the registry
    RunnableActions,  \* those of them whose args the command's execute() can take
    MaxRsRestarts     \* bound: restarts of the resource server

VARIABLES
    now,          \* the clock
    rs_consumed,  \* _consumed
    rs_call,      \* per thread: the call to execute in progress
    rs_outcome,   \* the latest RsOutcome
    rs_epoch,     \* how many times the resource server has restarted
    rs_log        \* history: every command execution

RsIdle == [op |-> "idle"]

RsOutcomes ==
    {"none", "executed", "unknown", "MalformedCredential", "SignatureMismatch",
     "CredentialExpired", "UnknownIssuer", "WrongAudience", "CredentialReplay",
     "CredentialDrift", "TypeError"}

RsCalls ==
    {RsIdle} \cup [op: {"consume", "command"}, token: Tokens, action: Actions, at: Nat]

RsEntries == [jti: Nat, action: RunnableActions, at: Nat, epoch: 0..MaxRsRestarts]

RsTypeOK ==
    /\ rs_consumed \subseteq Nat
    /\ rs_call \in [RsThreads -> RsCalls]
    /\ rs_outcome \in RsOutcomes
    /\ rs_epoch \in 0..MaxRsRestarts
    /\ rs_log \in Seq(RsEntries)

RsInit ==
    /\ rs_consumed = {}
    /\ rs_call = [t \in RsThreads |-> RsIdle]
    /\ rs_outcome = "none"
    /\ rs_epoch = 0
    /\ rs_log = << >>

RsReturn(t, result) ==
    /\ rs_call' = [rs_call EXCEPT ![t] = RsIdle]
    /\ rs_outcome' = result

ExecuteRefuse(t, tok, action) ==
    /\ rs_call[t] = RsIdle
    /\ ~TokenAccepted(tok, RsVerifier, now)
    /\ RsReturn(t, TokenRefusal(tok, RsVerifier, now))
    /\ UNCHANGED <<rs_consumed, rs_epoch, rs_log>>

ExecuteValidate(t, tok, action) ==
    /\ rs_call[t] = RsIdle
    /\ TokenAccepted(tok, RsVerifier, now)
    /\ rs_call' = [rs_call EXCEPT ![t] =
            [op |-> "consume", token |-> tok, action |-> action, at |-> now]]
    /\ UNCHANGED <<rs_consumed, rs_outcome, rs_epoch, rs_log>>

ConsumeRefuseBurns(t) ==   \* mutant: the jti is recorded before the args are compared
    /\ rs_call[t].op = "consume"
    /\ ~BoundTo(rs_call[t].token, rs_call[t].action, RsVerifier, rs_consumed)
    /\ rs_consumed' = rs_consumed \cup {rs_call[t].token.jti}
    /\ RsReturn(t, BindingRefusal(rs_call[t].token, rs_consumed))
    /\ UNCHANGED <<rs_epoch, rs_log>>

ConsumeRefuse(t) ==
    /\ rs_call[t].op = "consume"
    /\ ~BoundTo(rs_call[t].token, rs_call[t].action, RsVerifier, rs_consumed)
    /\ RsReturn(t, BindingRefusal(rs_call[t].token, rs_consumed))
    /\ UNCHANGED <<rs_consumed, rs_epoch, rs_log>>

Consume(t) ==
    /\ rs_call[t].op = "consume"
    /\ BoundTo(rs_call[t].token, rs_call[t].action, RsVerifier, rs_consumed)
    /\ rs_consumed' = rs_consumed \cup {rs_call[t].token.jti}
    /\ rs_call' = [rs_call EXCEPT ![t].op = "command"]
    /\ UNCHANGED <<rs_outcome, rs_epoch, rs_log>>

(* The registry is looked up only now, with the token already spent.        *)
ExecuteUnknown(t) ==
    /\ rs_call[t].op = "command"
    /\ rs_call[t].action \notin KnownActions
    /\ RsReturn(t, "unknown")
    /\ UNCHANGED <<rs_consumed, rs_epoch, rs_log>>

(* execute(client=..., **args) is given a name twice, or not all it needs:  *)
(* the exception is none of those caught and leaves the resource server.    *)
ExecuteRaises(t) ==
    /\ rs_call[t].op = "command"
    /\ rs_call[t].action \in KnownActions \ RunnableActions
    /\ RsReturn(t, "TypeError")
    /\ UNCHANGED <<rs_consumed, rs_epoch, rs_log>>

ExecuteUnlooked(t) ==   \* mutant: the registry is not consulted
    /\ rs_call[t].op = "command"
    /\ rs_log' = Append(rs_log, [jti |-> rs_call[t].token.jti,
                                 action |-> rs_call[t].action,
                                 at |-> rs_call[t].at, epoch |-> rs_epoch])
    /\ RsReturn(t, "executed")
    /\ UNCHANGED <<rs_consumed, rs_epoch>>

(* The command runs.  Whether it then returns or raises an ApiError, which  *)
(* becomes an RsError, makes no difference to the token.                    *)
ExecuteCommand(t) ==
    /\ rs_call[t].op = "command"
    /\ rs_call[t].action \in RunnableActions
    /\ rs_log' = Append(rs_log, [jti |-> rs_call[t].token.jti,
                                 action |-> rs_call[t].action,
                                 at |-> rs_call[t].at, epoch |-> rs_epoch])
    /\ RsReturn(t, "executed")
    /\ UNCHANGED <<rs_consumed, rs_epoch>>

RsRestart ==
    /\ rs_epoch < MaxRsRestarts
    /\ rs_epoch' = rs_epoch + 1
    /\ rs_consumed' = {}
    /\ rs_call' = [t \in RsThreads |-> RsIdle]
    /\ UNCHANGED <<rs_outcome, rs_log>>

(* A step of the resource server when callers may present `tokens`.         *)
RsNext(tokens) ==
    \/ \E t \in RsThreads :
        \/ \E tok \in tokens, a \in Actions :
                ExecuteRefuse(t, tok, a) \/ ExecuteValidate(t, tok, a)
        \/ ConsumeRefuse(t) \/ Consume(t)
        \/ ExecuteUnknown(t) \/ ExecuteRaises(t) \/ ExecuteCommand(t)
    \/ RsRestart
=============================================================================
