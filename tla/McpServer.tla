------------------------------- MODULE McpServer -------------------------------
(***************************************************************************)
(* The single-agent deployment: the MCP server with its HITL gate, the     *)
(* dispatcher, the Tier 1 vault, the consent surface and the audit log of  *)
(* one bridge process.                                                     *)
(*                                                                         *)
(* A call of a gated tool is dispatched without a token, which asks for    *)
(* approval; the gate then looks for the human's decision under an id that *)
(* depends on the caller and the action alone.  Without one it answers     *)
(* with an elicitation, with one it mints, dispatches again with the       *)
(* credential, and the server writes the audit row.                        *)
(*                                                                         *)
(* The handler never awaits, so tool calls do not interleave with each     *)
(* other; consent requests, the clock and the clients that poll /result    *)
(* for the signed payload and take it to the vault themselves do.  Such a  *)
(* client may keep the payload over a restart of the process.              *)
(***************************************************************************)
EXTENDS InProcessVault, ConsentServer

CONSTANTS
    Loop,               \* the thread of the MCP server's event loop
    Scopes,             \* caller -> its token's scopes
    GateRar,            \* the rar_type the gate was built with
    MaxHeld,            \* bound: payloads that clients fetch from /result
    MaxSinkFailures     \* bound: writes the audit database fails

SessionIdOfAction(caller, action) ==    \* mutant: the caller is left out of the hash
    [caller |-> CHOOSE c \in Contexts : TRUE, action |-> action]

(* consent_session_id: deterministic, and one per caller and action.        *)
SessionId(caller, action) == [caller |-> caller, action |-> action]

ASSUME McpAssumption ==
    /\ Loop \in Threads
    /\ Scopes \in [Contexts -> SUBSET {"tasks.read", "tasks.write"}]
    /\ GateRar \in RarTypes
    /\ MaxHeld \in Nat /\ MaxSinkFailures \in Nat
    /\ \A c \in Contexts, a \in Actions : SessionId(c, a) \in SessionIds

(* The gated tools take strings only, which == tells apart.                 *)
ASSUME StringArgsAssumption ==
    \A a, b \in Actions : SameAction(a, b) => a = b

VARIABLES
    minted,        \* the gate's _minted: session id -> credential
    handler,       \* the tool call being served
    reply,         \* what the latest tool call gave its client
    unaudited,     \* history: tool calls' executions without a row in the database
    sink_failures  \* audit rows that were lost to a failed write

gate == <<minted, handler, reply>>
sink == <<unaudited, sink_failures>>
mcpVars == <<vars, consentVars, gate, sink>>

Free == [stage |-> "free"]

Handlers ==
    {Free}
        \cup [stage: {"resume", "begin", "mint"}, caller: Contexts, action: Actions]
        \cup [stage: {"dispatch"}, caller: Contexts, action: Actions, token: Jtis]
        \cup [stage: {"audit"}, kind: {"done", "refused", "unauthorized"},
              entry: Nat]

Replies ==
    {"none", "elicitation", "done", "refused", "unauthorized", "exception"}

McpTypeOK ==
    /\ TypeOK
    /\ ConsentTypeOK
    /\ DOMAIN minted \subseteq SessionIds
    /\ \A s \in DOMAIN minted : minted[s] \in DOMAIN grants
    /\ handler \in Handlers
    /\ reply \in Replies
    /\ unaudited \subseteq DOMAIN log
    /\ sink_failures \in 0..MaxSinkFailures

McpInit ==
    /\ Init
    /\ ConsentInit
    /\ minted = [s \in {} |-> 0]
    /\ handler = Free
    /\ reply = "none"
    /\ unaudited = {}
    /\ sink_failures = 0

-----------------------------------------------------------------------------
(* _call_tool: the stage before the row is written, and the answer.         *)
Audit(kind, entry) ==
    handler' = [stage |-> "audit", kind |-> kind, entry |-> entry]

Answer(kind) ==
    /\ handler' = Free
    /\ reply' = kind

(* The first dispatch of a gated tool, without a token: scopes are checked  *)
(* before the approval is asked for.                                        *)
CallGated(caller, action) ==
    /\ handler = Free
    /\ IF "tasks.write" \in Scopes[caller]
       THEN handler' = [stage |-> "resume", caller |-> caller, action |-> action]
       ELSE Audit("unauthorized", 0)
    /\ UNCHANGED <<vars, consentVars, minted, reply, sink>>

(* A read tool runs at once in the task store.                              *)
CallRead(caller) ==
    /\ handler = Free
    /\ Audit(IF "tasks.read" \in Scopes[caller] THEN "done" ELSE "unauthorized", 0)
    /\ UNCHANGED <<vars, consentVars, minted, reply, sink>>

CallUnknown ==
    /\ handler = Free
    /\ Answer("exception")
    /\ UNCHANGED <<vars, consentVars, minted, sink>>

Sid == SessionId(handler.caller, handler.action)

Dispatching(token) ==
    handler' = [stage |-> "dispatch", caller |-> handler.caller,
                action |-> handler.action, token |-> token]

(* try_resume *)
ResumeCached ==
    /\ handler.stage = "resume"
    /\ Sid \in DOMAIN minted
    /\ Dispatching(minted[Sid])
    /\ UNCHANGED <<vars, consentVars, minted, reply, sink>>

ResumePending ==
    /\ handler.stage = "resume"
    /\ Sid \notin DOMAIN minted
    /\ ~Signed(Sid)
    /\ handler' = [handler EXCEPT !.stage = "begin"]
    /\ UNCHANGED <<vars, consentVars, minted, reply, sink>>

ResumeRefused ==
    /\ handler.stage = "resume"
    /\ Sid \notin DOMAIN minted
    /\ Signed(Sid)
    /\ MintRefuse(Loop, requests[Sid].signed)
    /\ Answer("exception")
    /\ UNCHANGED <<consentVars, minted, sink>>

ResumeApprovedEarly ==   \* mutant: the credential is cached before it is minted
    /\ handler.stage = "resume"
    /\ Sid \notin DOMAIN minted
    /\ Signed(Sid)
    /\ MintVerify(Loop, requests[Sid].signed)
    /\ minted' = [s \in DOMAIN minted \cup {Sid} |->
                     IF s = Sid THEN Len(grants) + 1 ELSE minted[s]]
    /\ handler' = [handler EXCEPT !.stage = "mint"]
    /\ UNCHANGED <<consentVars, reply, sink>>

ResumeApproved ==
    /\ handler.stage = "resume"
    /\ Sid \notin DOMAIN minted
    /\ Signed(Sid)
    /\ MintVerify(Loop, requests[Sid].signed)
    /\ handler' = [handler EXCEPT !.stage = "mint"]
    /\ UNCHANGED <<consentVars, minted, reply, sink>>

GateReplay ==
    /\ handler.stage = "mint"
    /\ MintReplay(Loop)
    /\ Answer("exception")
    /\ UNCHANGED <<consentVars, minted, sink>>

GateMintLost ==   \* mutant: an error after mint, before _minted is set
    /\ handler.stage = "mint"
    /\ MintRecord(Loop)
    /\ Answer("exception")
    /\ UNCHANGED <<consentVars, minted, sink>>

GateMint ==
    /\ handler.stage = "mint"
    /\ MintRecord(Loop)
    /\ minted' = [s \in DOMAIN minted \cup {Sid} |->
                     IF s = Sid THEN Len(grants') ELSE minted[s]]
    /\ Dispatching(Len(grants'))
    /\ UNCHANGED <<consentVars, reply, sink>>

(* begin, and the error that carries the elicitation to the client.         *)
Begin ==
    /\ handler.stage = "begin"
    /\ Create(Sid, handler.action, GateRar, handler.caller)
    /\ Answer("elicitation")
    /\ UNCHANGED <<vars, window, held, minted, sink>>

(* The second dispatch, with the credential.                                *)
DispatchRefused ==
    /\ handler.stage = "dispatch"
    /\ ConsumeRefuse(Loop, handler.token, handler.action)
    /\ Audit("refused", 0)
    /\ UNCHANGED <<consentVars, minted, reply, sink>>

Dispatch ==
    /\ handler.stage = "dispatch"
    /\ Consume(Loop, handler.token, handler.action)
    /\ UNCHANGED <<consentVars, gate, sink>>

DispatchUnaudited ==   \* mutant: the resumed call returns before the audit
    /\ handler.stage = "dispatch"
    /\ Perform(Loop)
    /\ unaudited' = unaudited \cup {Len(log')}
    /\ Answer("done")
    /\ UNCHANGED <<consentVars, minted, sink_failures>>

DispatchPerform ==
    /\ handler.stage = "dispatch"
    /\ Perform(Loop)
    /\ unaudited' = unaudited \cup {Len(log')}
    /\ Audit("done", Len(log'))
    /\ UNCHANGED <<consentVars, minted, reply, sink_failures>>

(* AuditSink.write never raises: a row the database does not take is lost   *)
(* and the call is answered all the same.                                   *)
AuditWrite ==
    /\ handler.stage = "audit"
    /\ unaudited' = unaudited \ {handler.entry}
    /\ Answer(handler.kind)
    /\ UNCHANGED <<vars, consentVars, minted, sink_failures>>

AuditFails ==
    /\ handler.stage = "audit"
    /\ sink_failures < MaxSinkFailures
    /\ sink_failures' = sink_failures + 1
    /\ Answer(handler.kind)
    /\ UNCHANGED <<vars, consentVars, minted, unaudited>>

ServeStep ==
    \/ ResumeCached \/ ResumePending \/ ResumeRefused \/ ResumeApproved
    \/ GateReplay \/ GateMint \/ Begin
    \/ DispatchRefused \/ Dispatch \/ DispatchPerform
    \/ AuditWrite

-----------------------------------------------------------------------------
(* The human at the consent page. *)
HumanApproves(w, ttl) ==
    /\ window[w].open
    /\ LET r == requests[window[w].sid]
       IN  /\ Sign(r.action, r.rar_type, r.approver, ttl)
           /\ Approve(w, SignAuthorizationDetails(r.action, r.rar_type, r.approver,
                                                  FALSE, Secret, ttl, now))
    /\ UNCHANGED <<gate, sink>>

HumanDenies(w) == Deny(w) /\ UNCHANGED <<vars, gate, sink>>

HumanStep ==
    \E w \in Windows :
        \/ \E sid \in SessionIds :
                OpenSubmission(w, sid) /\ UNCHANGED <<vars, gate, sink>>
        \/ \E ttl \in TTLs : HumanApproves(w, ttl)
        \/ HumanDenies(w)
        \/ BadDecision(w) /\ UNCHANGED <<vars, gate, sink>>

(* A client asks /result for the decision on a session it knows.            *)
Poll(sid) ==
    /\ Cardinality(held) < MaxHeld
    /\ PollResult(sid, epoch)
    /\ UNCHANGED <<vars, gate, sink>>

(* Another client takes a payload it has got from /result, in this life of  *)
(* the process or before, to the vault, and the credential it gets to the   *)
(* dispatcher.                                                              *)
PollerStep(t) ==
    /\ \/ \E h \in held : MintRefuse(t, h.payload) \/ MintVerify(t, h.payload)
       \/ MintReplay(t)
       \/ MintRecord(t)
       \/ \E jti \in Jtis, a \in Actions : ConsumeRefuse(t, jti, a) \/ Consume(t, jti, a)
       \/ Perform(t)
    /\ UNCHANGED <<consentVars, gate, sink>>

ClockStep == Tick /\ UNCHANGED <<consentVars, gate, sink>>

(* Only the audit database, and what clients hold, outlives the process.    *)
McpRestart ==
    /\ Restart
    /\ ForgetSessions
    /\ minted' = [s \in {} |-> 0]
    /\ handler' = Free
    /\ reply' = "none"
    /\ UNCHANGED sink

McpNext ==
    \/ \E c \in Contexts, a \in Actions : CallGated(c, a)
    \/ \E c \in Contexts : CallRead(c)
    \/ CallUnknown
    \/ ServeStep
    \/ AuditFails
    \/ HumanStep
    \/ \E sid \in SessionIds : Poll(sid)
    \/ \E t \in Threads \ {Loop} : PollerStep(t)
    \/ ClockStep
    \/ McpRestart

McpSpec == McpInit /\ [][McpNext]_mcpVars

(* The event loop serves a call it has begun, and clients retry each call   *)
(* as the elicitation tells them to, whatever else is called in between.    *)
ServeFairness ==
    /\ WF_mcpVars(ServeStep)
    /\ \A c \in Contexts, a \in Actions : SF_mcpVars(CallGated(c, a))

FairMcpSpec == McpSpec /\ ServeFairness
-----------------------------------------------------------------------------
(* Whatever was executed in this life of the process is the action of a     *)
(* payload that stands approved, and not denied, in the consent session of  *)
(* a caller whose scopes cover it, also when windows and pollers race for   *)
(* the session; unless a client got the payload from /result in an earlier  *)
(* life and kept it: then neither the session nor a denial of this life     *)
(* counts.                                                                  *)
SessionOf(p) == SessionId(p.context, p.action)

StandsApproved(p) ==
    /\ SessionOf(p) \in DOMAIN requests
    /\ requests[SessionOf(p)].signed = p
    /\ ~requests[SessionOf(p)].denied

KeptFromEarlierLife(p) == \E h \in held : h.payload = p /\ h.life < epoch

ExecutionsWereConsented ==
    \A i \in DOMAIN log :
        log[i].epoch = epoch =>
            LET p == grants[log[i].jti].payload
            IN  /\ log[i].action = p.action
                /\ "tasks.write" \in Scopes[p.context]
                /\ StandsApproved(p) \/ KeptFromEarlierLife(p)

(* The gate dispatches for a caller only under that caller's own approval   *)
(* of that action: nobody's retry picks up somebody else's credential.      *)
OwnApproval ==
    handler.stage = "dispatch" =>
        LET p == grants[handler.token].payload
        IN  p.context = handler.caller /\ p.action = handler.action

(* A decision is never revised, by a second window, by a late submission or *)
(* by a tool call that asks again; only a restart forgets it.               *)
DecisionStands ==
    [][epoch' = epoch =>
        \A s \in DOMAIN requests :
            Decided(requests[s]) => s \in DOMAIN requests' /\ requests'[s] = requests[s]]_mcpVars

(* Tool calls' executions that have no audit row are accounted for: each is *)
(* still being served, or its write failed, or the process stopped before.  *)
InService == IF handler.stage = "audit" THEN {handler.entry} ELSE {}
RowsAccountedFor ==
    Cardinality(unaudited \ InService) <= sink_failures + epoch

(* Once the human has approved an action, the client's retries get it       *)
(* executed, unless the approval lapses or the process forgets it first.    *)
Executed(p) ==
    \E i \in DOMAIN log : log[i].epoch = epoch /\ grants[log[i].jti].payload = p

ApprovedRuns ==
    \A c \in Contexts, a \in Actions :
        LET sid == SessionId(c, a)
        IN  Signed(sid) ~>
                \/ ~Signed(sid)
                \/ Executed(requests[sid].signed)
                \/ LapsedAtMint(requests[sid].signed, now)

-----------------------------------------------------------------------------
(* The single-agent deployment keeps the contract of Delegation across      *)
(* restarts, also when the pollers of /result race the gate: what the vault *)
(* promises holds of the whole process.                                     *)
ServerKeepsContract == Contract!Spec

-----------------------------------------------------------------------------
(* Why these hold at every step.  The page signs for nobody but the user    *)
(* whose session it is, with the secret that the vault knows.               *)
SignedInv == \A p \in approvals : ~p.frozen /\ SignatureVerifies(p, Secret)

SessionsInv ==
    \A s \in DOMAIN requests :
        LET r == requests[s]
        IN  /\ s = SessionId(r.approver, r.action)
            /\ "tasks.write" \in Scopes[r.approver]
            /\ r.signed # NotSigned =>
                  /\ r.signed \in approvals
                  /\ r.signed.context = r.approver
                  /\ r.signed.action = r.action
                  /\ ~r.denied

WindowsInv == \A w \in Windows : window[w].open => window[w].sid \in DOMAIN requests

(* What a client got from /result, a human approved there for somebody with *)
(* the scope; in this life it stands approved still.                        *)
Consented(p) == SessionOf(p) \in DOMAIN requests /\ requests[SessionOf(p)].signed = p

HeldInv ==
    \A h \in held :
        /\ h.payload \in approvals
        /\ h.life <= epoch
        /\ h.life = epoch => Consented(h.payload)
        /\ "tasks.write" \in Scopes[h.payload.context]

(* A payload on its way through the vault stands approved in its session or *)
(* was kept by a client, and so was that of every credential of this life.  *)
Warranted(p) == Consented(p) \/ KeptFromEarlierLife(p)

ConsentedInv ==
    /\ \A t \in Threads : call[t].op = "mint" => Warranted(call[t].payload)
    /\ \A j \in DOMAIN grants : grants[j].epoch = epoch => Warranted(grants[j].payload)

MintedInv ==
    \A s \in DOMAIN minted :
        /\ grants[minted[s]].epoch = epoch
        /\ s = SessionOf(grants[minted[s]].payload)

(* What the handler is doing against what its thread does in the vault.     *)
HandlerInv ==
    /\ handler.stage \in {"resume", "begin", "mint", "dispatch"} =>
          "tasks.write" \in Scopes[handler.caller]
    /\ handler.stage \notin {"mint", "dispatch"} => call[Loop] = Idle
    /\ handler.stage = "mint" =>
          call[Loop].op = "mint" /\ SessionOf(call[Loop].payload) = Sid
    /\ handler.stage = "dispatch" =>
          /\ handler.token \in DOMAIN grants
          /\ \/ call[Loop] = Idle
             \/ /\ call[Loop].op = "perform"
                /\ call[Loop].jti = handler.token
                /\ call[Loop].action = handler.action

(* The invariant that carries itself over every step.                       *)
McpIInv ==
    /\ McpTypeOK /\ IInv
    /\ SignedInv /\ SessionsInv /\ WindowsInv
    /\ HeldInv /\ ConsentedInv /\ MintedInv /\ HandlerInv
    /\ OwnApproval /\ ExecutionsWereConsented /\ RowsAccountedFor
=============================================================================
