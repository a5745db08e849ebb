--------------------------- MODULE McpServerProofs ---------------------------
(***************************************************************************)
(* Proofs about the single-agent deployment for every number of callers,   *)
(* scopes, actions, consent windows, pollers, restarts and audit failures. *)
(* What was proved of the vault carries over, because each of its steps is *)
(* a step of the vault or leaves it alone.                                 *)
(***************************************************************************)
EXTENDS McpServer, InProcessVaultProofs, FiniteSetTheorems

(* The invariant's parts.                                                   *)
LEMMA Parts ==
    ASSUME McpIInv
    PROVE  /\ TypeOK /\ ConsentTypeOK /\ McpTypeOK /\ IInv
           /\ SignedInv /\ SessionsInv /\ WindowsInv
           /\ HeldInv /\ ConsentedInv /\ MintedInv /\ HandlerInv
           /\ OwnApproval /\ ExecutionsWereConsented /\ RowsAccountedFor
BY DEF McpIInv, McpTypeOK

(* An undecided session is told from a signed one.                          *)
LEMMA NotSignedIsNoPayload == NotSigned \notin Payloads
BY DEF NotSigned, Payloads

(* What a session holds.                                                    *)
LEMMA RequestTyped ==
    ASSUME ConsentTypeOK, NEW s \in DOMAIN requests
    PROVE  /\ requests[s] \in ConsentRequests
           /\ s \in SessionIds
           /\ requests[s].action \in Actions
           /\ requests[s].rar_type \in RarTypes
           /\ requests[s].approver \in Contexts
           /\ requests[s].denied \in BOOLEAN
           /\ requests[s].signed \in Payloads \cup {NotSigned}
BY DEF ConsentTypeOK, ConsentRequests

(* What the handler holds at each of its stages.                            *)
LEMMA HandlerTyped ==
    ASSUME handler \in Handlers
    PROVE  /\ handler.stage \in {"free", "resume", "begin", "mint", "dispatch", "audit"}
           /\ handler = Free <=> handler.stage = "free"
           /\ handler.stage \in {"resume", "begin", "mint", "dispatch"} =>
                 /\ handler.caller \in Contexts /\ handler.action \in Actions
                 /\ Sid \in SessionIds
           /\ handler.stage = "dispatch" => handler.token \in Jtis
           /\ handler.stage = "audit" =>
                 /\ handler.kind \in {"done", "refused", "unauthorized"}
                 /\ handler.entry \in Nat
<1>1. handler.stage \in {"resume", "begin", "mint", "dispatch"} =>
         handler.caller \in Contexts /\ handler.action \in Actions
  BY DEF Handlers, Free
<1>2. handler.stage \in {"resume", "begin", "mint", "dispatch"} => Sid \in SessionIds
  BY <1>1, McpAssumption DEF Sid
<1> QED
  BY <1>1, <1>2 DEF Handlers, Free

(* Two callers, or two actions, never share a session.                      *)
LEMMA SessionIdInjective ==
    ASSUME NEW c, NEW a, NEW d, NEW b, SessionId(c, a) = SessionId(d, b)
    PROVE  c = d /\ a = b
BY DEF SessionId

-----------------------------------------------------------------------------
(* The steps of the deployment as steps of the vault.                       *)

(* What the page signed is something a client can present.                  *)
LEMMA ApprovedPresentable ==
    ASSUME TypeOK, SignedInv, NEW p \in approvals
    PROVE  p \in Presentable
<1>1. p \in Payloads /\ p.exp \in Nat
  BY DEF TypeOK, Payloads
<1>2. p.exp \in ClaimableExps
  <2>1. p.exp = p.exp + 0
    BY <1>1
  <2> QED
    BY <2>1 DEF ClaimableExps
<1>3. p.signature \in HeldSignatures
  BY VaultAssumption DEF SignedInv, SignatureVerifies, HeldSignatures
<1>4. p.frozen \in {FALSE}
  BY <1>1 DEF SignedInv, Payloads
<1>5. /\ p.action \in Actions /\ p.rar_type \in RarTypes /\ p.context \in Contexts
      /\ p = [action |-> p.action, rar_type |-> p.rar_type, exp |-> p.exp,
              context |-> p.context, frozen |-> p.frozen, signature |-> p.signature]
  BY <1>1 DEF Payloads
<1> QED
  BY <1>2, <1>3, <1>4, <1>5 DEF Presentable

(* What is signed in a session is one of the approvals.                     *)
LEMMA SignedSession ==
    ASSUME SessionsInv, NEW s, Signed(s)
    PROVE  /\ s \in DOMAIN requests
           /\ requests[s].signed \in approvals
           /\ SessionOf(requests[s].signed) = s
           /\ ~requests[s].denied
BY DEF SessionsInv, Signed, SessionOf

(* Each step of the deployment is a step of the vault, or leaves it alone.  *)
LEMMA VaultStep ==
    ASSUME McpIInv, [McpNext]_mcpVars
    PROVE  [Next]_vars
<1>1. TypeOK /\ ConsentTypeOK /\ SignedInv /\ SessionsInv /\ WindowsInv /\ HeldInv
      /\ handler \in Handlers /\ Loop \in Threads
  BY Parts, McpAssumption DEF McpTypeOK
<1>2. ASSUME NEW s, Signed(s) PROVE requests[s].signed \in Presentable
  BY <1>1, <1>2, SignedSession, ApprovedPresentable
<1>3. CASE ServeStep
  <2>1. CASE ResumeRefused \/ ResumeApproved
    BY <1>1, <1>2, <2>1 DEF ResumeRefused, ResumeApproved, Next
  <2>2. CASE GateReplay \/ GateMint
    BY <1>1, <2>2 DEF GateReplay, GateMint, Next
  <2>3. CASE DispatchRefused \/ Dispatch \/ DispatchPerform
    <3>1. handler.stage = "dispatch" => handler.token \in Jtis /\ handler.action \in Actions
      BY <1>1, HandlerTyped
    <3> QED
      BY <1>1, <2>3, <3>1 DEF DispatchRefused, Dispatch, DispatchPerform, Next
  <2>4. CASE ResumeCached \/ ResumePending \/ Begin \/ AuditWrite
    BY <2>4 DEF ResumeCached, ResumePending, Begin, AuditWrite
  <2> QED
    BY <1>3, <2>1, <2>2, <2>3, <2>4 DEF ServeStep
<1>4. CASE HumanStep
  <2>1. ASSUME NEW w \in Windows, NEW ttl \in TTLs, HumanApproves(w, ttl)
        PROVE  Next
    <3>1. window[w].sid \in DOMAIN requests
      BY <1>1, <2>1 DEF HumanApproves, WindowsInv
    <3>2. /\ requests[window[w].sid].action \in Actions
          /\ requests[window[w].sid].rar_type \in RarTypes
          /\ requests[window[w].sid].approver \in Contexts
      BY <1>1, <3>1, RequestTyped
    <3> QED
      BY <2>1, <3>2 DEF HumanApproves, Next
  <2> QED
    BY <1>4, <2>1 DEF HumanStep, HumanDenies
<1>5. ASSUME NEW t \in Threads \ {Loop}, PollerStep(t) PROVE Next
  <2>1. \A h \in held : h.payload \in Presentable
    BY <1>1, ApprovedPresentable DEF HeldInv
  <2> QED
    BY <1>5, <2>1 DEF PollerStep, Next
<1>6. CASE ClockStep \/ McpRestart
  BY <1>6 DEF ClockStep, McpRestart, Next
<1>7. CASE AuditFails \/ CallUnknown \/ (\E c \in Contexts : CallRead(c))
           \/ (\E c \in Contexts, a \in Actions : CallGated(c, a))
           \/ (\E sid \in SessionIds : Poll(sid))
  BY <1>7 DEF AuditFails, CallUnknown, CallRead, CallGated, Poll
<1>8. CASE UNCHANGED mcpVars
  BY <1>8 DEF mcpVars
<1> QED
  BY <1>3, <1>4, <1>5, <1>6, <1>7, <1>8 DEF McpNext

(* A step of the vault leaves the credentials that were issued.             *)
LEMMA GrantsGrow ==
    ASSUME TypeOK, [Next]_vars
    PROVE  \A j \in DOMAIN grants : j \in DOMAIN grants' /\ grants'[j] = grants[j]
<1>1. CASE \E t \in Threads : MintRecord(t)
  BY <1>1, MintRecordGrants
<1>2. CASE UNCHANGED grants
  BY <1>2
<1> QED
  BY <1>1, <1>2
  DEF Next, Sign, MintRefuse, MintVerify, MintReplay, ConsumeRefuse, Consume, Perform,
      Tick, Restart, vars, history

-----------------------------------------------------------------------------
(* The sessions of one life only grow, and a decided one stays as it is.    *)
RequestsGrow ==
    \A s \in DOMAIN requests :
        /\ s \in DOMAIN requests'
        /\ requests'[s].action = requests[s].action
        /\ requests'[s].approver = requests[s].approver
        /\ Decided(requests[s]) => requests'[s] = requests[s]

(* Within one life, no step forgets a session or revises a decision.        *)
LEMMA RequestsStep ==
    ASSUME McpIInv, [McpNext]_mcpVars
    PROVE  McpRestart \/ (epoch' = epoch /\ RequestsGrow)
<1>1. ConsentTypeOK /\ WindowsInv
  BY Parts
<1>2. ASSUME requests' = requests PROVE RequestsGrow
  BY <1>2 DEF RequestsGrow
<1>3. CASE ServeStep /\ ~Begin
  <2>1. requests' = requests /\ epoch' = epoch
    BY <1>3
    DEF ServeStep, ResumeCached, ResumePending, ResumeRefused, ResumeApproved, GateReplay,
        GateMint, DispatchRefused, Dispatch, DispatchPerform, AuditWrite, MintRefuse,
        MintVerify, MintReplay, MintRecord, ConsumeRefuse, Consume, Perform, vars, consentVars
  <2> QED
    BY <1>2, <2>1
<1>4. CASE Begin
  BY <1>4 DEF Begin, Create, RequestsGrow, vars
<1>5. CASE HumanStep
  <2>1. ASSUME NEW w \in Windows, window[w].open, NEW p, SubmitSigned(window[w].sid, p)
        PROVE  RequestsGrow
    BY <1>1, <2>1, RequestTyped DEF SubmitSigned, RequestsGrow, WindowsInv, ConsentRequests
  <2>2. ASSUME NEW w \in Windows, window[w].open, RecordDenial(window[w].sid)
        PROVE  RequestsGrow
    BY <1>1, <2>2, RequestTyped DEF RecordDenial, RequestsGrow, WindowsInv, ConsentRequests
  <2>3. epoch' = epoch
    BY <1>5 DEF HumanStep, HumanApproves, HumanDenies, Sign, vars
  <2>4. ASSUME NEW w \in Windows, NEW ttl \in TTLs, HumanApproves(w, ttl)
        PROVE  RequestsGrow
    BY <2>1, <2>4 DEF HumanApproves, Approve
  <2>5. ASSUME NEW w \in Windows, HumanDenies(w)
        PROVE  RequestsGrow
    BY <2>2, <2>5 DEF HumanDenies, Deny
  <2>6. ASSUME NEW w \in Windows, BadDecision(w) \/ \E s \in SessionIds : OpenSubmission(w, s)
        PROVE  RequestsGrow
    BY <1>2, <2>6 DEF BadDecision, OpenSubmission
  <2> QED
    BY <1>5, <2>3, <2>4, <2>5, <2>6 DEF HumanStep
<1>6. CASE \E t \in Threads : PollerStep(t)
  <2>1. requests' = requests /\ epoch' = epoch
    BY <1>6
    DEF PollerStep, MintRefuse, MintVerify, MintReplay, MintRecord, ConsumeRefuse, Consume,
        Perform, consentVars
  <2> QED
    BY <1>2, <2>1
<1>7. CASE ClockStep \/ AuditFails \/ CallUnknown \/ (\E c \in Contexts : CallRead(c))
           \/ (\E c \in Contexts, a \in Actions : CallGated(c, a)) \/ UNCHANGED mcpVars
           \/ (\E sid \in SessionIds : Poll(sid))
  <2>1. requests' = requests /\ epoch' = epoch
    BY <1>7 DEF ClockStep, Tick, AuditFails, CallUnknown, CallRead, CallGated, Poll,
                PollResult, vars, consentVars, mcpVars
  <2> QED
    BY <1>2, <2>1
<1> QED
  BY <1>3, <1>4, <1>5, <1>6, <1>7 DEF McpNext

(* Only four kinds of step touch sessions and submissions, and a fifth what *)
(* clients hold.                                                            *)
LEMMA ConsentCases ==
    ASSUME [McpNext]_mcpVars
    PROVE  /\ UNCHANGED <<requests, window>> \/ Begin \/ HumanStep \/ McpRestart
           /\ held' = held \/ \E sid \in SessionIds : Poll(sid)
<1>1. CASE HumanStep
  BY <1>1 DEF HumanStep, HumanApproves, HumanDenies, OpenSubmission, Approve, Deny, BadDecision
<1>2. CASE McpRestart
  BY <1>2 DEF McpRestart, ForgetSessions
<1>3. CASE \E sid \in SessionIds : Poll(sid)
  BY <1>3 DEF Poll, PollResult
<1>4. CASE ServeStep
  <2>1. held' = held
    BY <1>4
    DEF ServeStep, ResumeCached, ResumePending, ResumeRefused, ResumeApproved,
        GateReplay, GateMint, Begin, DispatchRefused, Dispatch, DispatchPerform,
        AuditWrite, consentVars
  <2>2. UNCHANGED <<requests, window>> \/ Begin
    BY <1>4
    DEF ServeStep, ResumeCached, ResumePending, ResumeRefused, ResumeApproved,
        GateReplay, GateMint, DispatchRefused, Dispatch, DispatchPerform,
        AuditWrite, consentVars
  <2> QED
    BY <2>1, <2>2
<1>5. CASE \/ \E c \in Contexts, a \in Actions : CallGated(c, a)
           \/ \E c \in Contexts : CallRead(c)
           \/ CallUnknown \/ AuditFails \/ ClockStep
           \/ \E t \in Threads \ {Loop} : PollerStep(t)
           \/ UNCHANGED mcpVars
  <2>1. UNCHANGED consentVars
    BY <1>5
    DEF CallGated, CallRead, CallUnknown, AuditFails, ClockStep, PollerStep, mcpVars
  <2> QED
    BY <2>1 DEF consentVars
<1> QED
  BY <1>1, <1>2, <1>3, <1>4, <1>5 DEF McpNext

(* What the page signs for the user of a session.                           *)
LEMMA SignedByPage ==
    ASSUME TypeOK, NEW r \in ConsentRequests, NEW ttl \in TTLs, NEW p,
           p = SignAuthorizationDetails(r.action, r.rar_type, r.approver,
                                        FALSE, Secret, ttl, now)
    PROVE  /\ p \in Payloads
           /\ p.action = r.action /\ p.context = r.approver
           /\ ~p.frozen /\ SignatureVerifies(p, Secret)
<1>1. /\ r.action \in Actions /\ r.rar_type \in RarTypes /\ r.approver \in Contexts
      /\ ttl \in Nat /\ now \in Nat /\ Secret \in Keys
  BY VaultAssumption DEF ConsentRequests, TypeOK
<1>2. p \in Payloads
  BY <1>1, SignTyped
<1> QED
  BY <1>2 DEF SignAuthorizationDetails, SignatureVerifies, Canonical

(* What a session may become at one decision of the human.                  *)
DecisionOn(sid) ==
    /\ sid \in DOMAIN requests
    /\ \/ requests' = requests
       \/ requests' = [requests EXCEPT ![sid].denied = TRUE]
       \/ \E p \in approvals' \cap Payloads :
             /\ requests' = [requests EXCEPT ![sid].signed = p]
             /\ p.action = requests[sid].action
             /\ p.context = requests[sid].approver
    /\ requests' # requests => ~Decided(requests[sid])

(* What the human does opens a submission or decides one session.           *)
LEMMA HumanCases ==
    ASSUME McpIInv, HumanStep
    PROVE  \E w \in Windows :
              \/ \E sid \in SessionIds : OpenSubmission(w, sid) /\ UNCHANGED vars
              \/ /\ DecisionOn(window[w].sid)
                 /\ Close(w)
<1>1. TypeOK /\ ConsentTypeOK /\ WindowsInv
  BY Parts
<1>2. ASSUME NEW w \in Windows, NEW ttl \in TTLs, HumanApproves(w, ttl)
      PROVE  DecisionOn(window[w].sid) /\ Close(w)
  <2> DEFINE sid == window[w].sid
             r   == requests[sid]
             p   == SignAuthorizationDetails(r.action, r.rar_type, r.approver,
                                             FALSE, Secret, ttl, now)
  <2>1. sid \in DOMAIN requests
    BY <1>1, <1>2 DEF HumanApproves, WindowsInv
  <2>2. r \in ConsentRequests
    BY <1>1, <2>1, RequestTyped
  <2>3. p \in Payloads /\ p.action = r.action /\ p.context = r.approver
    BY <1>1, <2>2, SignedByPage
  <2>4. /\ p \in approvals'
        /\ Close(w)
        /\ SubmitSigned(sid, p)
    BY <1>2 DEF HumanApproves, Sign, Approve
  <2> HIDE DEF sid, p
  <2> QED
    BY <2>1, <2>3, <2>4 DEF SubmitSigned, DecisionOn, sid
<1>3. ASSUME NEW w \in Windows, HumanDenies(w)
      PROVE  DecisionOn(window[w].sid) /\ Close(w)
  BY <1>1, <1>3 DEF HumanDenies, Deny, RecordDenial, DecisionOn, WindowsInv
<1>4. ASSUME NEW w \in Windows, BadDecision(w)
      PROVE  DecisionOn(window[w].sid) /\ Close(w)
  BY <1>1, <1>4 DEF BadDecision, DecisionOn, WindowsInv
<1> QED
  BY <1>2, <1>3, <1>4 DEF HumanStep

(* A decided session keeps its types.                                       *)
LEMMA DecisionTyped ==
    ASSUME ConsentTypeOK, NEW sid, DecisionOn(sid)
    PROVE  /\ DOMAIN requests' = DOMAIN requests
           /\ \A s \in DOMAIN requests : requests'[s] \in ConsentRequests
           /\ \A s \in DOMAIN requests \ {sid} : requests'[s] = requests[s]
<1> USE RequestTyped
<1>1. CASE requests' = requests
  BY <1>1
<1>2. CASE requests' = [requests EXCEPT ![sid].denied = TRUE]
  BY <1>2 DEF DecisionOn, ConsentRequests
<1>3. CASE \E p \in Payloads : requests' = [requests EXCEPT ![sid].signed = p]
  BY <1>3 DEF DecisionOn, ConsentRequests
<1> QED
  BY <1>1, <1>2, <1>3 DEF DecisionOn

(* Asking for an approval opens a session under the caller's own id.        *)
LEMMA BeginCases ==
    ASSUME McpIInv, Begin
    PROVE  /\ Sid \in SessionIds
           /\ handler.caller \in Contexts /\ handler.action \in Actions
           /\ "tasks.write" \in Scopes[handler.caller]
           /\ Proposed(handler.action, GateRar, handler.caller) \in ConsentRequests
           /\ DOMAIN requests' = DOMAIN requests \cup {Sid}
           /\ \A s \in DOMAIN requests : requests'[s] = requests[s]
           /\ Sid \notin DOMAIN requests =>
                 requests'[Sid] = Proposed(handler.action, GateRar, handler.caller)
           /\ window' = window
<1>1. handler \in Handlers /\ HandlerInv
  BY Parts DEF McpTypeOK
<1>2. handler.stage = "begin"
  BY DEF Begin
<1>3. /\ Sid \in SessionIds
      /\ handler.caller \in Contexts /\ handler.action \in Actions
  BY <1>1, <1>2, HandlerTyped
<1>4. "tasks.write" \in Scopes[handler.caller]
  BY <1>1, <1>2 DEF HandlerInv
<1>5. Proposed(handler.action, GateRar, handler.caller) \in ConsentRequests
  BY <1>3, McpAssumption DEF Proposed, ConsentRequests
<1>6. window' = window
  BY DEF Begin
<1>7. Create(Sid, handler.action, GateRar, handler.caller)
  BY DEF Begin
<1> QED
  BY <1>3, <1>4, <1>5, <1>6, <1>7 DEF Create

-----------------------------------------------------------------------------
(* The consent surface at every step.                                       *)

(* What clients get from /result is a payload that was approved there, for  *)
(* somebody with the scope, and that stands for the rest of this life.      *)
LEMMA PollFacts ==
    ASSUME McpIInv, NEW sid, Poll(sid)
    PROVE  LET p == requests[sid].signed
           IN  /\ p \in Payloads /\ p \in approvals
               /\ Consented(p)
               /\ "tasks.write" \in Scopes[p.context]
               /\ held' = held \cup {[payload |-> p, life |-> epoch]}
               /\ epoch \in Nat
<1>1. TypeOK /\ SessionsInv
  BY Parts
<1>2. Signed(sid) /\ held' = held \cup {[payload |-> requests[sid].signed, life |-> epoch]}
  BY DEF Poll, PollResult
<1>3. /\ sid \in DOMAIN requests
      /\ requests[sid].signed \in approvals
      /\ SessionOf(requests[sid].signed) = sid
  BY <1>1, <1>2, SignedSession
<1>4. "tasks.write" \in Scopes[requests[sid].signed.context]
  BY <1>1, <1>2, <1>3 DEF SessionsInv, Signed
<1>5. requests[sid].signed \in Payloads /\ epoch \in Nat
  BY <1>1, <1>3, VaultAssumption DEF TypeOK
<1> QED
  BY <1>2, <1>3, <1>4, <1>5 DEF Consented

(* What clients hold is well-typed after each step.                         *)
LEMMA HeldTyped ==
    McpIInv /\ [McpNext]_mcpVars => held' \subseteq [payload: Payloads, life: Nat]
<1> SUFFICES ASSUME McpIInv, [McpNext]_mcpVars
             PROVE  held' \subseteq [payload: Payloads, life: Nat]
  OBVIOUS
<1>1. held \subseteq [payload: Payloads, life: Nat]
  BY Parts DEF ConsentTypeOK
<1>2. ASSUME NEW sid \in SessionIds, Poll(sid)
      PROVE  held' \subseteq [payload: Payloads, life: Nat]
  <2> DEFINE new == [payload |-> requests[sid].signed, life |-> epoch]
  <2>1. new \in [payload: Payloads, life: Nat] /\ held' = held \cup {new}
    BY <1>2, PollFacts
  <2> QED
    BY <1>1, <2>1
<1> QED
  BY <1>1, <1>2, ConsentCases

(* Sessions and submissions stay well-typed.                                *)
LEMMA ConsentTyped == McpIInv /\ [McpNext]_mcpVars => ConsentTypeOK' /\ WindowsInv'
<1> SUFFICES ASSUME McpIInv, [McpNext]_mcpVars PROVE ConsentTypeOK' /\ WindowsInv'
  OBVIOUS
<1>1. ConsentTypeOK /\ WindowsInv /\ held' \subseteq [payload: Payloads, life: Nat]
  BY Parts, HeldTyped
<1>2. CASE UNCHANGED <<requests, window>>
  BY <1>1, <1>2 DEF ConsentTypeOK, WindowsInv
<1>3. CASE Begin
  BY <1>1, <1>3, BeginCases DEF ConsentTypeOK, WindowsInv
<1>4. CASE HumanStep
  <2>1. PICK w \in Windows :
              \/ \E sid \in SessionIds : OpenSubmission(w, sid)
              \/ DecisionOn(window[w].sid) /\ Close(w)
    BY <1>4, HumanCases
  <2>2. ASSUME NEW sid \in SessionIds, OpenSubmission(w, sid)
        PROVE  ConsentTypeOK' /\ WindowsInv'
    <3>1. [open |-> TRUE, sid |-> sid] \in [open: {TRUE}, sid: SessionIds]
      OBVIOUS
    <3>2. /\ requests' = requests /\ sid \in DOMAIN requests
          /\ window' = [window EXCEPT ![w] = [open |-> TRUE, sid |-> sid]]
      BY <2>2 DEF OpenSubmission
    <3>3. window \in [Windows -> {Closed} \cup [open: {TRUE}, sid: SessionIds]]
      BY <1>1 DEF ConsentTypeOK
    <3>4. ConsentTypeOK'
      BY <1>1, <3>1, <3>2, <3>3 DEF ConsentTypeOK
    <3>5. WindowsInv'
      BY <1>1, <3>2, <3>3 DEF WindowsInv
    <3> QED
      BY <3>4, <3>5
  <2>3. CASE DecisionOn(window[w].sid) /\ Close(w)
    <3>1. ConsentTypeOK'
      BY <1>1, <2>3, DecisionTyped DEF ConsentTypeOK, Close
    <3>2. WindowsInv'
      BY <1>1, <2>3, DecisionTyped DEF ConsentTypeOK, Close, Closed, WindowsInv
    <3> QED
      BY <3>1, <3>2
  <2> QED
    BY <2>1, <2>2, <2>3
<1>5. CASE McpRestart
  BY <1>1, <1>5 DEF McpRestart, ForgetSessions, ConsentTypeOK, WindowsInv, Closed
<1> QED
  BY <1>2, <1>3, <1>4, <1>5, ConsentCases

(* Approvals come from the page alone.                                      *)
LEMMA SignedStep == McpIInv /\ [McpNext]_mcpVars => SignedInv'
<1> SUFFICES ASSUME McpIInv, [McpNext]_mcpVars PROVE SignedInv'
  OBVIOUS
<1>1. TypeOK /\ ConsentTypeOK /\ WindowsInv /\ SignedInv
  BY Parts
<1>2. CASE approvals' = approvals
  BY <1>1, <1>2 DEF SignedInv
<1>3. ASSUME NEW w \in Windows, NEW ttl \in TTLs, HumanApproves(w, ttl)
      PROVE  SignedInv'
  <2> DEFINE r == requests[window[w].sid]
             p == SignAuthorizationDetails(r.action, r.rar_type, r.approver,
                                           FALSE, Secret, ttl, now)
  <2>1. r \in ConsentRequests
    BY <1>1, <1>3, RequestTyped DEF HumanApproves, WindowsInv
  <2>2. ~p.frozen /\ SignatureVerifies(p, Secret)
    BY <1>1, <2>1, SignedByPage
  <2>3. approvals' = approvals \cup {p}
    BY <1>3 DEF HumanApproves, Sign
  <2> HIDE DEF p
  <2> QED
    BY <1>1, <2>2, <2>3 DEF SignedInv
<1>4. CASE HumanStep
  BY <1>2, <1>3, <1>4
  DEF HumanStep, HumanDenies, vars, history
<1>5. CASE ServeStep \/ \E t \in Threads : PollerStep(t)
  <2>1. approvals' = approvals
    BY <1>5
    DEF ServeStep, ResumeCached, ResumePending, ResumeRefused, ResumeApproved, GateReplay,
        GateMint, Begin, DispatchRefused, Dispatch, DispatchPerform, AuditWrite, PollerStep,
        MintRefuse, MintVerify, MintReplay, MintRecord, ConsumeRefuse, Consume, Perform,
        vars, history
  <2> QED
    BY <1>2, <2>1
<1>6. CASE ClockStep \/ McpRestart \/ AuditFails \/ CallUnknown \/ UNCHANGED mcpVars
           \/ (\E c \in Contexts : CallRead(c))
           \/ (\E c \in Contexts, a \in Actions : CallGated(c, a))
           \/ (\E sid \in SessionIds : Poll(sid))
  BY <1>2, <1>6
  DEF ClockStep, Tick, McpRestart, Restart, AuditFails, CallUnknown, CallRead, CallGated,
      Poll, mcpVars, vars, history
<1> QED
  BY <1>4, <1>5, <1>6 DEF McpNext

(* A session stands for one caller and one action, and what is signed in it *)
(* was approved for exactly these.                                          *)
Stands(s, r, approved) ==
    /\ s = SessionId(r.approver, r.action)
    /\ "tasks.write" \in Scopes[r.approver]
    /\ r.signed # NotSigned =>
          /\ r.signed \in approved
          /\ r.signed.context = r.approver
          /\ r.signed.action = r.action
          /\ ~r.denied

(* Every session keeps standing for its caller and action after each step.  *)
LEMMA SessionsStep == McpIInv /\ [McpNext]_mcpVars => SessionsInv'
<1> SUFFICES ASSUME McpIInv, [McpNext]_mcpVars PROVE SessionsInv'
  OBVIOUS
<1>1. ConsentTypeOK /\ SessionsInv /\ approvals \subseteq approvals'
  BY Parts, VaultStep, HistoryGrows
<1>2. \A s \in DOMAIN requests : Stands(s, requests[s], approvals')
  BY <1>1 DEF SessionsInv, Stands
<1>3. SUFFICES \A s \in DOMAIN requests' : Stands(s, requests'[s], approvals')
  BY DEF SessionsInv, Stands
<1>4. CASE UNCHANGED <<requests, window>>
  BY <1>2, <1>4
<1>5. CASE Begin
  <2>1. Stands(Sid, Proposed(handler.action, GateRar, handler.caller), approvals')
    BY <1>5, BeginCases DEF Stands, Proposed, Sid
  <2> HIDE DEF Sid
  <2> QED
    BY <1>2, <1>5, <2>1, BeginCases
<1>6. CASE HumanStep
  <2>1. PICK w \in Windows :
              \/ \E sid \in SessionIds : OpenSubmission(w, sid)
              \/ DecisionOn(window[w].sid)
    BY <1>6, HumanCases
  <2>2. CASE \E sid \in SessionIds : OpenSubmission(w, sid)
    BY <1>2, <2>2 DEF OpenSubmission
  <2>3. CASE DecisionOn(window[w].sid)
    <3> DEFINE sid == window[w].sid
    <3> HIDE DEF sid
    <3>1. sid \in DOMAIN requests /\ requests[sid] \in ConsentRequests
      BY <1>1, <2>3, RequestTyped DEF DecisionOn, sid
    <3>2. DOMAIN requests' = DOMAIN requests
          /\ \A s \in DOMAIN requests \ {sid} : requests'[s] = requests[s]
      BY <1>1, <2>3, DecisionTyped DEF sid
    <3>3. Stands(sid, requests'[sid], approvals')
      <4>0. Stands(sid, requests[sid], approvals')
        BY <1>2, <3>1
      <4>1. CASE requests' = requests
        BY <4>0, <4>1
      <4>2. CASE requests' = [requests EXCEPT ![sid].denied = TRUE] /\ requests' # requests
        <5>1. requests[sid].signed = NotSigned
          BY <2>3, <4>2 DEF DecisionOn, Decided, sid
        <5>2. requests'[sid] = [requests[sid] EXCEPT !.denied = TRUE]
          BY <3>1, <4>2
        <5> QED
          BY <3>1, <4>0, <5>1, <5>2 DEF Stands, ConsentRequests
      <4>3. ASSUME NEW p \in approvals' \cap Payloads,
                   requests' = [requests EXCEPT ![sid].signed = p],
                   requests' # requests,
                   p.action = requests[sid].action,
                   p.context = requests[sid].approver
            PROVE  Stands(sid, requests'[sid], approvals')
        <5>1. ~requests[sid].denied
          BY <2>3, <4>3 DEF DecisionOn, Decided, sid
        <5>2. requests'[sid] = [requests[sid] EXCEPT !.signed = p]
          BY <3>1, <4>3
        <5> QED
          BY <3>1, <4>0, <4>3, <5>1, <5>2 DEF Stands, ConsentRequests
      <4> QED
        BY <2>3, <4>1, <4>2, <4>3 DEF DecisionOn, sid
    <3> QED
      BY <1>2, <3>2, <3>3
  <2> QED
    BY <2>1, <2>2, <2>3
<1>7. CASE McpRestart
  BY <1>7 DEF McpRestart, ForgetSessions
<1> QED
  BY <1>4, <1>5, <1>6, <1>7, ConsentCases

-----------------------------------------------------------------------------
(* Consent behind payloads and credentials.                                 *)

(* Consent that was given stays for the life of the process.                *)
LEMMA ConsentStays ==
    ASSUME RequestsGrow, NEW p \in Payloads, Consented(p)
    PROVE  SessionOf(p) \in DOMAIN requests' /\ requests'[SessionOf(p)].signed = p
BY NotSignedIsNoPayload DEF RequestsGrow, Consented, Decided

(* A payload on its way through the vault came from a session or from what  *)
(* a client holds.                                                          *)
LEMMA MintCalls ==
    ASSUME McpIInv, [McpNext]_mcpVars, NEW t \in Threads, call'[t].op = "mint"
    PROVE  \/ call'[t] = call[t]
           \/ \E s : Signed(s) /\ call'[t].payload = requests[s].signed
           \/ \E h \in held : call'[t].payload = h.payload
<1> DEFINE Goal == \/ call'[t] = call[t]
                   \/ \E s : Signed(s) /\ call'[t].payload = requests[s].signed
                   \/ \E h \in held : call'[t].payload = h.payload
<1>0. call \in [Threads -> Calls] /\ Loop \in Threads
  BY Parts, McpAssumption DEF TypeOK
<1>1. ASSUME NEW u \in Threads, NEW s, Signed(s), MintVerify(u, requests[s].signed)
      PROVE  Goal
  BY <1>0, <1>1 DEF MintVerify
<1>2. ASSUME NEW u \in Threads, NEW p, MintRefuse(u, p)
      PROVE  Goal
  BY <1>0, <1>2 DEF MintRefuse, Return, Idle
<1>3. ASSUME NEW u \in Threads, MintReplay(u) \/ MintRecord(u) \/ Perform(u)
      PROVE  Goal
  BY <1>0, <1>3 DEF MintReplay, MintRecord, Perform, Return, Idle
<1>4. ASSUME NEW u \in Threads, NEW j, NEW a, ConsumeRefuse(u, j, a)
      PROVE  Goal
  BY <1>0, <1>4 DEF ConsumeRefuse, Return, Idle
<1>5. ASSUME NEW u \in Threads, NEW j, NEW a, Consume(u, j, a)
      PROVE  Goal
  BY <1>0, <1>5 DEF Consume
<1>6. ASSUME call' = call PROVE Goal
  BY <1>6
<1>7. CASE \E u \in Threads \ {Loop} : PollerStep(u)
  <2>1. ASSUME NEW u \in Threads, NEW h \in held, MintVerify(u, h.payload) PROVE Goal
    BY <1>0, <2>1 DEF MintVerify
  <2> QED
    BY <1>2, <1>3, <1>4, <1>5, <1>7, <2>1 DEF PollerStep
<1>8. CASE ServeStep
  <2>1. CASE ResumeRefused \/ ResumeApproved
    BY <1>0, <1>1, <1>2, <2>1 DEF ResumeRefused, ResumeApproved
  <2>2. CASE GateReplay \/ GateMint \/ DispatchPerform
    BY <1>0, <1>3, <2>2 DEF GateReplay, GateMint, DispatchPerform
  <2>3. CASE DispatchRefused \/ Dispatch
    BY <1>0, <1>4, <1>5, <2>3 DEF DispatchRefused, Dispatch
  <2>4. CASE ResumeCached \/ ResumePending \/ Begin \/ AuditWrite
    BY <1>6, <2>4 DEF ResumeCached, ResumePending, Begin, AuditWrite, vars
  <2> QED
    BY <1>8, <2>1, <2>2, <2>3, <2>4 DEF ServeStep
<1>9. CASE HumanStep
  BY <1>6, <1>9 DEF HumanStep, HumanApproves, HumanDenies, Sign, vars
<1>10. CASE McpRestart
  BY <1>10 DEF McpRestart, Restart, Idle
<1>11. CASE ClockStep \/ AuditFails \/ CallUnknown \/ UNCHANGED mcpVars
            \/ (\E c \in Contexts : CallRead(c))
            \/ (\E c \in Contexts, a \in Actions : CallGated(c, a))
            \/ (\E sid \in SessionIds : Poll(sid))
  BY <1>6, <1>11
  DEF ClockStep, Tick, AuditFails, CallUnknown, CallRead, CallGated, Poll, vars, mcpVars
<1> QED
  BY <1>7, <1>8, <1>9, <1>10, <1>11 DEF McpNext

(* A credential is new only when a thread's mint has just issued it.        *)
LEMMA NewGrants ==
    ASSUME TypeOK, [Next]_vars, NEW j \in DOMAIN grants', j \notin DOMAIN grants
    PROVE  /\ epoch' = epoch
           /\ grants'[j].epoch = epoch
           /\ \E t \in Threads :
                 call[t].op = "mint" /\ grants'[j].payload = call[t].payload
<1>1. PICK t \in Threads : MintRecord(t)
  BY DEF Next, Sign, MintRefuse, MintVerify, MintReplay, ConsumeRefuse, Consume, Perform,
         Tick, Restart, vars, history
<1> QED
  BY <1>1, MintRecordGrants DEF MintRecord

(* What was warranted stays so for the life of the process.                 *)
LEMMA WarrantStays ==
    ASSUME McpIInv, [McpNext]_mcpVars, epoch' = epoch, RequestsGrow,
           NEW p \in Payloads, Warranted(p)
    PROVE  \/ SessionOf(p) \in DOMAIN requests' /\ requests'[SessionOf(p)].signed = p
           \/ \E h \in held' : h.payload = p /\ h.life < epoch'
<1>1. held \subseteq held'
  BY ConsentCases DEF Poll, PollResult
<1> QED
  BY <1>1, ConsentStays DEF Warranted, KeptFromEarlierLife

(* What clients hold was approved, and of this life still stands.           *)
LEMMA HeldStep == McpIInv /\ [McpNext]_mcpVars => HeldInv'
<1> SUFFICES ASSUME McpIInv, [McpNext]_mcpVars PROVE HeldInv'
  OBVIOUS
<1>1. /\ TypeOK /\ HeldInv /\ approvals \subseteq approvals'
      /\ held \subseteq [payload: Payloads, life: Nat]
      /\ epoch \in Nat
  BY Parts, VaultStep, HistoryGrows, VaultAssumption DEF ConsentTypeOK, TypeOK
<1> DEFINE Fine(h) ==
             /\ h.payload \in approvals'
             /\ h.life <= epoch'
             /\ h.life = epoch' =>
                   /\ SessionOf(h.payload) \in DOMAIN requests'
                   /\ requests'[SessionOf(h.payload)].signed = h.payload
             /\ "tasks.write" \in Scopes[h.payload.context]
<1>2. SUFFICES \A h \in held' : Fine(h)
  BY DEF HeldInv, Consented, SessionOf
<1>3. ASSUME NEW h \in held PROVE Fine(h)
  <2>1. /\ h.payload \in approvals' /\ "tasks.write" \in Scopes[h.payload.context]
        /\ h.payload \in Payloads /\ h.life \in Nat /\ h.life <= epoch
        /\ h.life = epoch => Consented(h.payload)
    BY <1>1, <1>3 DEF HeldInv
  <2>2. CASE epoch' = epoch /\ RequestsGrow
    BY <2>1, <2>2, ConsentStays
  <2>3. CASE McpRestart
    <3>1. epoch' = epoch + 1
      BY <2>3 DEF McpRestart, Restart
    <3>2. h.life <= epoch' /\ h.life # epoch'
      BY <1>1, <2>1, <3>1
    <3> QED
      BY <2>1, <3>2
  <2> QED
    BY <2>2, <2>3, RequestsStep
<1>4. ASSUME NEW sid \in SessionIds, Poll(sid) PROVE \A h \in held' : Fine(h)
  <2> DEFINE p == requests[sid].signed
             new == [payload |-> p, life |-> epoch]
  <2>1. UNCHANGED <<requests, epoch>>
    BY <1>4 DEF Poll, PollResult, vars
  <2>2. /\ p \in approvals /\ "tasks.write" \in Scopes[p.context]
        /\ Consented(p) /\ held' = held \cup {new}
    BY <1>4, PollFacts
  <2>3. new.payload = p /\ new.life = epoch
    OBVIOUS
  <2> HIDE DEF p, new
  <2>4. Fine(new)
    BY <1>1, <2>1, <2>2, <2>3 DEF Consented
  <2> HIDE DEF Fine
  <2> QED
    BY <1>3, <2>2, <2>4
<1> HIDE DEF Fine
<1> QED
  BY <1>3, <1>4, ConsentCases

(* Consent stands behind every payload and credential after each step.      *)
LEMMA ConsentedStep == McpIInv /\ [McpNext]_mcpVars => ConsentedInv'
<1> SUFFICES ASSUME McpIInv, [McpNext]_mcpVars PROVE ConsentedInv'
  OBVIOUS
<1>1. TypeOK /\ IInv /\ GrantsInv /\ SessionsInv /\ HeldInv /\ ConsentedInv /\ [Next]_vars
      /\ held \subseteq [payload: Payloads, life: Nat] /\ epoch \in Nat
  BY Parts, VaultStep, VaultAssumption DEF IInv, ConsentTypeOK, TypeOK
<1> DEFINE Stays(p) ==
             \/ SessionOf(p) \in DOMAIN requests' /\ requests'[SessionOf(p)].signed = p
             \/ \E h \in held' : h.payload = p /\ h.life < epoch'
<1>2. ASSUME NEW t \in Threads, call[t].op = "mint"
      PROVE  call[t].payload \in Payloads /\ Warranted(call[t].payload)
  BY <1>1, <1>2, MintCallFacts DEF IInv, ConsentedInv
<1>3. CASE epoch' = epoch /\ RequestsGrow
  <2>0. ASSUME NEW p \in Payloads, Warranted(p) PROVE Stays(p)
    BY <1>3, <2>0, WarrantStays
  <2> HIDE DEF Stays
  <2>1. ASSUME NEW t \in Threads, call'[t].op = "mint"
        PROVE  Stays(call'[t].payload)
    <3>1. call'[t].payload \in Payloads /\ Warranted(call'[t].payload)
      <4>1. CASE call'[t] = call[t]
        BY <1>2, <2>1, <4>1
      <4>2. ASSUME NEW s, Signed(s), call'[t].payload = requests[s].signed
            PROVE  call'[t].payload \in Payloads /\ Warranted(call'[t].payload)
        BY <1>1, <4>2, SignedSession DEF TypeOK, Consented, Warranted
      <4>3. ASSUME NEW h \in held, call'[t].payload = h.payload
            PROVE  call'[t].payload \in Payloads /\ Warranted(call'[t].payload)
        <5>1. h.payload \in Payloads /\ h.life \in Nat /\ h.life <= epoch
          BY <1>1, <4>3 DEF HeldInv
        <5>2. h.life < epoch \/ h.life = epoch
          BY <1>1, <5>1
        <5>3. h.life = epoch => Consented(h.payload)
          BY <1>1, <4>3 DEF HeldInv
        <5> QED
          BY <4>3, <5>1, <5>2, <5>3 DEF Warranted, KeptFromEarlierLife
      <4> QED
        BY <2>1, <4>1, <4>2, <4>3, MintCalls
    <3> QED
      BY <2>0, <3>1
  <2>2. ASSUME NEW j \in DOMAIN grants', grants'[j].epoch = epoch
        PROVE  Stays(grants'[j].payload)
    <3>1. grants'[j].payload \in Payloads /\ Warranted(grants'[j].payload)
      <4>1. CASE j \in DOMAIN grants
        BY <1>1, <2>2, <4>1, GrantsGrow, GrantTyped DEF ConsentedInv
      <4>2. CASE j \notin DOMAIN grants
        BY <1>1, <1>2, <4>2, NewGrants
      <4> QED
        BY <4>1, <4>2
    <3> QED
      BY <2>0, <3>1
  <2> QED
    BY <1>3, <2>1, <2>2
    DEF ConsentedInv, Warranted, Consented, KeptFromEarlierLife, SessionOf, Stays
<1>4. CASE McpRestart
  <2>1. \A t \in Threads : call'[t].op # "mint"
    BY <1>4 DEF McpRestart, Restart, Idle
  <2>2. grants' = grants /\ epoch' = epoch + 1 /\ epoch \in Nat
    BY <1>1, <1>4 DEF McpRestart, Restart, history
  <2>3. \A j \in DOMAIN grants : grants[j].epoch <= epoch /\ grants[j].epoch \in Nat
    BY <1>1, GrantTyped DEF GrantsInv
  <2>4. \A j \in DOMAIN grants' : grants'[j].epoch # epoch'
    BY <2>2, <2>3
  <2> QED
    BY <2>1, <2>4 DEF ConsentedInv
<1> QED
  BY <1>3, <1>4, RequestsStep

(* So what was executed in this life was consented to.                      *)
LEMMA ConsentedExecutions ==
    ASSUME TypeOK, IInv, SessionsInv, HeldInv, ConsentedInv
    PROVE  ExecutionsWereConsented
<1> SUFFICES ASSUME NEW i \in DOMAIN log, log[i].epoch = epoch
             PROVE  LET p == grants[log[i].jti].payload
                    IN  /\ log[i].action = p.action
                        /\ "tasks.write" \in Scopes[p.context]
                        /\ StandsApproved(p) \/ KeptFromEarlierLife(p)
  BY DEF ExecutionsWereConsented
<1> DEFINE p == grants[log[i].jti].payload
<1>1. /\ log[i].jti \in DOMAIN grants
      /\ grants[log[i].jti].epoch = epoch
      /\ SameAction(p.action, log[i].action)
  BY DEF IInv, LogInv
<1>2. p \in Payloads /\ Warranted(p)
  BY <1>1, GrantTyped DEF ConsentedInv
<1>3. p.action = log[i].action
  <2>1. p.action \in Actions /\ log[i].action \in Actions
    BY <1>2, EntryTyped DEF Payloads, Entries
  <2> QED
    BY <1>1, <2>1, StringArgsAssumption
<1>4. p # NotSigned
  BY <1>2, NotSignedIsNoPayload
<1> HIDE DEF p
<1>5. CASE Consented(p)
  <2>1. /\ StandsApproved(p)
        /\ "tasks.write" \in Scopes[p.context]
    BY <1>4, <1>5 DEF Consented, StandsApproved, SessionsInv
  <2> QED
    BY <1>3, <2>1 DEF p
<1>6. CASE KeptFromEarlierLife(p)
  <2>1. "tasks.write" \in Scopes[p.context]
    BY <1>6 DEF KeptFromEarlierLife, HeldInv
  <2> QED
    BY <1>3, <1>6, <2>1 DEF p
<1> QED
  BY <1>2, <1>5, <1>6 DEF Warranted

-----------------------------------------------------------------------------
(* What the gate remembers and what the handler is doing.                   *)

(* A grant is known under a jti.                                            *)
LEMMA GrantJtis ==
    ASSUME TypeOK
    PROVE  DOMAIN grants = 1..Len(grants) /\ DOMAIN grants \subseteq Jtis /\ Len(grants) \in Nat
<1>1. /\ DOMAIN grants = 1..Len(grants) /\ Len(grants) \in Nat
      /\ Len(grants) <= MaxMints /\ MaxMints \in Nat
  BY VaultAssumption DEF TypeOK
<1> QED
  BY <1>1 DEF Jtis

(* A mint by the gate, seen by the gate.                                    *)
LEMMA GateMintFacts ==
    ASSUME McpIInv, GateMint
    PROVE  /\ Sid \in SessionIds
           /\ handler.caller \in Contexts /\ handler.action \in Actions
           /\ "tasks.write" \in Scopes[handler.caller]
           /\ Len(grants') = Len(grants) + 1 /\ Len(grants') \in Jtis
           /\ Len(grants') \in DOMAIN grants'
           /\ grants'[Len(grants')].payload = call[Loop].payload
           /\ SessionOf(call[Loop].payload) = Sid
           /\ grants'[Len(grants')].epoch = epoch /\ epoch' = epoch
           /\ call'[Loop] = Idle
<1>1. TypeOK /\ handler \in Handlers /\ HandlerInv /\ Loop \in Threads
  BY Parts, McpAssumption DEF McpTypeOK
<1>2. handler.stage = "mint" /\ MintRecord(Loop)
  BY DEF GateMint
<1>3. /\ Sid \in SessionIds
      /\ handler.caller \in Contexts /\ handler.action \in Actions
  BY <1>1, <1>2, HandlerTyped
<1>4. "tasks.write" \in Scopes[handler.caller] /\ SessionOf(call[Loop].payload) = Sid
  BY <1>1, <1>2 DEF HandlerInv
<1>5. Len(grants) \in Nat /\ MaxMints \in Nat /\ Len(grants) < MaxMints
  BY <1>1, <1>2, GrantJtis, VaultAssumption DEF MintRecord
<1>6. Len(grants') = Len(grants) + 1
  BY <1>1, <1>2 DEF MintRecord, TypeOK
<1>7. Len(grants') \in Jtis
  BY <1>5, <1>6 DEF Jtis
<1>8. epoch' = epoch /\ call'[Loop] = Idle
  BY <1>1, <1>2 DEF MintRecord, Return, TypeOK
<1>9. /\ Len(grants') \in DOMAIN grants'
      /\ grants'[Len(grants')].payload = call[Loop].payload
      /\ grants'[Len(grants')].epoch = epoch
  <2> DEFINE new == Len(grants) + 1
  <2>1. /\ DOMAIN grants' = DOMAIN grants \cup {new}
        /\ grants'[new] = [payload |-> call[Loop].payload,
                           at |-> call[Loop].at, epoch |-> epoch]
    BY <1>1, <1>2, MintRecordGrants
  <2> HIDE DEF new
  <2>2. Len(grants') = new
    BY <1>6 DEF new
  <2> QED
    BY <2>1, <2>2
<1> QED
  BY <1>3, <1>4, <1>6, <1>7, <1>8, <1>9

(* The cached credentials are of this life and of the session they are      *)
(* cached under.                                                            *)
LEMMA MintedStep ==
    McpIInv /\ [McpNext]_mcpVars =>
        /\ MintedInv'
        /\ DOMAIN minted' \subseteq SessionIds
        /\ \A s \in DOMAIN minted' : minted'[s] \in DOMAIN grants'
<1> SUFFICES ASSUME McpIInv, [McpNext]_mcpVars
             PROVE  /\ MintedInv'
                    /\ DOMAIN minted' \subseteq SessionIds
                    /\ \A s \in DOMAIN minted' : minted'[s] \in DOMAIN grants'
  OBVIOUS
<1>1. /\ TypeOK /\ MintedInv
      /\ DOMAIN minted \subseteq SessionIds
      /\ \A s \in DOMAIN minted : minted[s] \in DOMAIN grants
  BY Parts DEF McpTypeOK
<1>2. \A j \in DOMAIN grants : j \in DOMAIN grants' /\ grants'[j] = grants[j]
  BY <1>1, VaultStep, GrantsGrow
<1>3. CASE minted' = minted /\ epoch' = epoch
  BY <1>1, <1>2, <1>3 DEF MintedInv, SessionOf
<1>4. CASE GateMint
  <2>1. minted' = [s \in DOMAIN minted \cup {Sid} |->
                      IF s = Sid THEN Len(grants') ELSE minted[s]]
    BY <1>4 DEF GateMint
  <2> HIDE DEF Sid
  <2>2. /\ DOMAIN minted' \subseteq SessionIds
        /\ \A s \in DOMAIN minted' : minted'[s] \in DOMAIN grants'
    BY <1>1, <1>2, <1>4, <2>1, GateMintFacts
  <2>3. ASSUME NEW s \in DOMAIN minted'
        PROVE  /\ grants'[minted'[s]].epoch = epoch'
               /\ s = SessionOf(grants'[minted'[s]].payload)
    <3>1. CASE s = Sid
      BY <1>4, <2>1, <3>1, GateMintFacts
    <3>2. CASE s # Sid
      BY <1>1, <1>2, <1>4, <2>1, <3>2, GateMintFacts DEF MintedInv
    <3> QED
      BY <3>1, <3>2
  <2> QED
    BY <2>2, <2>3 DEF MintedInv, SessionOf
<1>5. CASE McpRestart
  BY <1>5 DEF McpRestart, MintedInv
<1>6. McpRestart \/ epoch' = epoch
  BY RequestsStep
<1>7. minted' = minted \/ GateMint \/ McpRestart
  BY DEF McpNext, ServeStep, ResumeCached, ResumePending, ResumeRefused, ResumeApproved,
         GateReplay, Begin, DispatchRefused, Dispatch, DispatchPerform, AuditWrite,
         AuditFails, CallGated, CallRead, CallUnknown, Poll, PollerStep, ClockStep, HumanStep,
         HumanApproves, HumanDenies, gate, mcpVars
<1> QED
  BY <1>3, <1>4, <1>5, <1>6, <1>7

(* While the handler and its thread's call stay, so does what relates them. *)
HandlerFine == handler \in Handlers /\ HandlerInv /\ OwnApproval

(* A step that touches neither keeps them in step.                          *)
LEMMA HandlerStays ==
    ASSUME McpIInv, [McpNext]_mcpVars, handler' = handler, call'[Loop] = call[Loop]
    PROVE  HandlerFine'
<1>1. TypeOK /\ handler \in Handlers /\ HandlerInv /\ OwnApproval
  BY Parts DEF McpTypeOK
<1>2. \A j \in DOMAIN grants : j \in DOMAIN grants' /\ grants'[j] = grants[j]
  BY <1>1, VaultStep, GrantsGrow
<1>3. HandlerInv'
  BY <1>1, <1>2 DEF HandlerInv, Sid
<1>4. OwnApproval'
  BY <1>1, <1>2 DEF HandlerInv, OwnApproval
<1> QED
  BY <1>1, <1>3, <1>4 DEF HandlerFine

(* Between calls, and at the audit, the thread is idle in the vault.        *)
LEMMA HandlerRests ==
    ASSUME call'[Loop] = Idle,
           \/ handler' = Free
           \/ /\ handler'.stage = "audit"
              /\ handler' \in Handlers
    PROVE  HandlerFine'
<1>1. handler' \in Handlers /\ handler'.stage \in {"free", "audit"}
  BY DEF Handlers, Free
<1> QED
  BY <1>1 DEF HandlerFine, HandlerInv, OwnApproval

(* What the server hands the audit sink is well-formed.                     *)
LEMMA AuditTyped ==
    ASSUME NEW kind \in {"done", "refused", "unauthorized"}, NEW entry \in Nat,
           Audit(kind, entry)
    PROVE  handler'.stage = "audit" /\ handler' \in Handlers
BY DEF Audit, Handlers

(* The handler keeps in step with its thread's call in the vault, and       *)
(* dispatches only under its own caller's approval.                         *)
LEMMA HandlerStep == McpIInv /\ [McpNext]_mcpVars => HandlerFine'
<1> SUFFICES ASSUME McpIInv, [McpNext]_mcpVars PROVE HandlerFine'
  OBVIOUS
<1>1. /\ TypeOK /\ SessionsInv /\ MintedInv /\ handler \in Handlers /\ HandlerInv
      /\ OwnApproval /\ Loop \in Threads /\ call \in [Threads -> Calls]
      /\ \A s \in DOMAIN minted : minted[s] \in DOMAIN grants
  BY Parts, McpAssumption DEF McpTypeOK, TypeOK
<1>2. handler.stage \in {"free", "resume", "begin", "audit"} => call[Loop] = Idle
  BY <1>1 DEF HandlerInv
<1>3. handler = Free => handler.stage = "free"
  BY DEF Free
<1>4. ASSUME NEW c \in Contexts, NEW a \in Actions, CallGated(c, a)
      PROVE  HandlerFine'
  <2>1. call'[Loop] = Idle
    BY <1>2, <1>3, <1>4 DEF CallGated, vars
  <2>2. CASE "tasks.write" \in Scopes[c]
    <3>1. handler' = [stage |-> "resume", caller |-> c, action |-> a]
      BY <1>4, <2>2 DEF CallGated
    <3>2. handler' \in Handlers
      BY <3>1 DEF Handlers
    <3> QED
      BY <2>1, <2>2, <3>1, <3>2 DEF HandlerFine, HandlerInv, OwnApproval
  <2>3. CASE "tasks.write" \notin Scopes[c]
    BY <1>4, <2>1, <2>3, AuditTyped, HandlerRests DEF CallGated
  <2> QED
    BY <2>2, <2>3
<1>5. ASSUME NEW c \in Contexts, CallRead(c) PROVE HandlerFine'
  BY <1>2, <1>3, <1>5, AuditTyped, HandlerRests DEF CallRead, vars
<1>6. CASE CallUnknown
  BY <1>2, <1>3, <1>6, HandlerRests DEF CallUnknown, Answer, vars
<1>7. CASE ResumeCached
  <2>1. /\ handler.caller \in Contexts /\ handler.action \in Actions
        /\ "tasks.write" \in Scopes[handler.caller]
        /\ call'[Loop] = Idle /\ grants' = grants
    BY <1>1, <1>2, <1>7, HandlerTyped DEF ResumeCached, HandlerInv, vars, history
  <2>2. /\ minted[Sid] \in DOMAIN grants /\ minted[Sid] \in Jtis
        /\ Sid = SessionOf(grants[minted[Sid]].payload)
    BY <1>1, <1>7, GrantJtis DEF ResumeCached, MintedInv
  <2>3. handler' = [stage |-> "dispatch", caller |-> handler.caller,
                    action |-> handler.action, token |-> minted[Sid]]
    BY <1>7 DEF ResumeCached, Dispatching
  <2>4. handler' \in Handlers
    BY <2>1, <2>2, <2>3 DEF Handlers
  <2>5. /\ grants[minted[Sid]].payload.context = handler.caller
        /\ grants[minted[Sid]].payload.action = handler.action
    BY <2>2, SessionIdInjective DEF Sid, SessionOf
  <2> QED
    BY <2>1, <2>2, <2>3, <2>4, <2>5 DEF HandlerFine, HandlerInv, OwnApproval
<1>8. CASE ResumePending
  <2>1. /\ handler.caller \in Contexts /\ handler.action \in Actions
        /\ "tasks.write" \in Scopes[handler.caller]
        /\ call'[Loop] = Idle
    BY <1>1, <1>2, <1>8, HandlerTyped DEF ResumePending, HandlerInv, vars
  <2>2. handler' = [handler EXCEPT !.stage = "begin"] /\ handler.stage = "resume"
    BY <1>8 DEF ResumePending
  <2>3. /\ handler' \in Handlers
        /\ handler'.stage = "begin" /\ handler'.caller = handler.caller
    BY <1>1, <2>2 DEF Handlers, Free
  <2> QED
    BY <2>1, <2>3 DEF HandlerFine, HandlerInv, OwnApproval
<1>9. CASE ResumeRefused
  BY <1>1, <1>9, HandlerRests DEF ResumeRefused, MintRefuse, Return, Answer
<1>10. CASE ResumeApproved
  <2>1. "tasks.write" \in Scopes[handler.caller]
    BY <1>1, <1>10 DEF ResumeApproved, HandlerInv
  <2>2. handler' = [handler EXCEPT !.stage = "mint"] /\ handler.stage = "resume"
    BY <1>10 DEF ResumeApproved
  <2>3. /\ handler' \in Handlers
        /\ handler'.stage = "mint" /\ handler'.caller = handler.caller
        /\ handler'.action = handler.action
    BY <1>1, <2>2 DEF Handlers, Free
  <2>4. /\ call'[Loop].op = "mint" /\ call'[Loop].payload = requests[Sid].signed
        /\ SessionOf(requests[Sid].signed) = Sid
    BY <1>1, <1>10, SignedSession DEF ResumeApproved, MintVerify
  <2>5. SessionOf(call'[Loop].payload) = SessionId(handler'.caller, handler'.action)
    BY <2>3, <2>4 DEF Sid
  <2> QED
    BY <2>1, <2>3, <2>4, <2>5 DEF HandlerFine, HandlerInv, OwnApproval, SessionOf, Sid
<1>11. CASE GateReplay
  BY <1>1, <1>11, HandlerRests DEF GateReplay, MintReplay, Return, Answer
<1>12. CASE GateMint
  <2>1. handler' = [stage |-> "dispatch", caller |-> handler.caller,
                    action |-> handler.action, token |-> Len(grants')]
    BY <1>12 DEF GateMint, Dispatching
  <2>2. handler' \in Handlers
    BY <1>12, <2>1, GateMintFacts DEF Handlers
  <2>3. /\ grants'[Len(grants')].payload.context = handler.caller
        /\ grants'[Len(grants')].payload.action = handler.action
    BY <1>12, GateMintFacts, SessionIdInjective DEF Sid, SessionOf
  <2>4. HandlerInv'
    BY <1>12, <2>1, GateMintFacts DEF HandlerInv
  <2> QED
    BY <2>1, <2>2, <2>3, <2>4 DEF HandlerFine, OwnApproval
<1>13. CASE Begin
  BY <1>2, <1>13, HandlerRests DEF Begin, Answer, vars
<1>14. CASE DispatchRefused
  BY <1>1, <1>14, HandlerRests, AuditTyped
  DEF DispatchRefused, ConsumeRefuse, Return
<1>15. CASE Dispatch
  <2>1. /\ handler' = handler /\ handler.stage = "dispatch" /\ grants' = grants
        /\ call'[Loop] = [op |-> "perform", jti |-> handler.token,
                          action |-> handler.action, at |-> now]
    BY <1>1, <1>15 DEF Dispatch, Consume, gate, history
  <2> QED
    BY <1>1, <2>1 DEF HandlerFine, HandlerInv, OwnApproval
<1>16. CASE DispatchPerform
  <2>1. Len(log') \in Nat
    BY <1>1, VaultStep, NextTyped DEF TypeOK
  <2>2. call'[Loop] = Idle
    BY <1>1, <1>16 DEF DispatchPerform, Perform, Return
  <2> QED
    BY <1>16, <2>1, <2>2, HandlerRests, AuditTyped DEF DispatchPerform
<1>17. CASE AuditWrite \/ AuditFails
  BY <1>2, <1>17, HandlerRests DEF AuditWrite, AuditFails, Answer, vars
<1>18. CASE HumanStep \/ ClockStep \/ UNCHANGED mcpVars \/ (\E sid \in SessionIds : Poll(sid))
  BY <1>18, HandlerStays
  DEF HumanStep, HumanApproves, HumanDenies, Sign, ClockStep, Tick, Poll, gate, vars, mcpVars
<1>19. ASSUME NEW t \in Threads \ {Loop}, PollerStep(t) PROVE HandlerFine'
  <2>1. call'[Loop] = call[Loop]
    BY <1>1, <1>19
    DEF PollerStep, MintRefuse, MintVerify, MintReplay, MintRecord, ConsumeRefuse, Consume,
        Perform, Return
  <2>2. handler' = handler
    BY <1>19 DEF PollerStep, gate
  <2> QED
    BY <2>1, <2>2, HandlerStays
<1>20. CASE McpRestart
  BY <1>1, <1>20, HandlerRests DEF McpRestart, Restart
<1> QED
  BY <1>4, <1>5, <1>6, <1>7, <1>8, <1>9, <1>10, <1>11, <1>12, <1>13, <1>14, <1>15, <1>16,
     <1>17, <1>18, <1>19, <1>20
  DEF McpNext, ServeStep

-----------------------------------------------------------------------------
(* The audit log.                                                           *)

(* Executions stay in the history.                                          *)
LEMMA LogGrows ==
    ASSUME TypeOK, [Next]_vars
    PROVE  DOMAIN log \subseteq DOMAIN log'
<1>1. CASE \E t \in Threads : Perform(t)
  BY <1>1, PerformLog
<1>2. CASE UNCHANGED log
  BY <1>2
<1> QED
  BY <1>1, <1>2
  DEF Next, Sign, MintRefuse, MintVerify, MintReplay, MintRecord, ConsumeRefuse, Consume,
      Tick, Restart, vars, history

(* What the handler's step means to the rows that are owed: one more        *)
(* execution is in service, one more row is lost and counted, one row is    *)
(* written, or nothing changes.                                             *)
Owed == unaudited \ InService

(* Every step does one of these.                                            *)
LEMMA SinkCases ==
    ASSUME McpIInv, [McpNext]_mcpVars
    PROVE  /\ reply' \in Replies
           /\ unaudited' \subseteq DOMAIN log'
           /\ sink_failures' \in 0..MaxSinkFailures
           /\ epoch' \in Nat
           /\ \/ /\ Owed' \subseteq Owed
                 /\ sink_failures' = sink_failures /\ epoch' \in {epoch, epoch + 1}
              \/ /\ \E x : Owed' \subseteq Owed \cup {x}
                 /\ sink_failures' + epoch' = sink_failures + epoch + 1
<1>1. /\ TypeOK /\ handler \in Handlers /\ reply \in Replies
      /\ unaudited \subseteq DOMAIN log
      /\ sink_failures \in 0..MaxSinkFailures /\ MaxSinkFailures \in Nat
      /\ epoch \in Nat /\ Loop \in Threads
  BY Parts, McpAssumption, VaultAssumption DEF McpTypeOK, TypeOK
<1>2. DOMAIN log \subseteq DOMAIN log' /\ TypeOK'
  BY <1>1, VaultStep, LogGrows, NextTyped
<1>3. handler.stage # "audit" => InService = {}
  BY DEF InService
<1>4. handler'.stage # "audit" => InService' = {}
  BY DEF InService
<1>5. \A h \in Handlers : h = Free \/ h.stage # "free"
  BY DEF Handlers
<1>6. Free.stage = "free"
  BY DEF Free
<1>7. ASSUME NEW kind \in {"elicitation", "done", "refused", "unauthorized", "exception"},
             Answer(kind)
      PROVE  reply' \in Replies /\ InService' = {}
  BY <1>4, <1>6, <1>7 DEF Answer, Replies
<1>8. CASE AuditWrite
  <2>1. handler.stage = "audit" /\ InService = {handler.entry}
        /\ handler.kind \in {"done", "refused", "unauthorized"}
    BY <1>1, <1>8, HandlerTyped DEF AuditWrite, InService
  <2>2. unaudited' = unaudited \ {handler.entry} /\ sink_failures' = sink_failures
        /\ epoch' = epoch /\ Answer(handler.kind)
    BY <1>8 DEF AuditWrite, vars
  <2> QED
    BY <1>1, <1>2, <1>7, <2>1, <2>2 DEF Owed
<1>9. CASE AuditFails
  <2>1. handler.stage = "audit" /\ InService = {handler.entry}
        /\ handler.kind \in {"done", "refused", "unauthorized"}
    BY <1>1, <1>9, HandlerTyped DEF AuditFails, InService
  <2>2. unaudited' = unaudited /\ sink_failures' = sink_failures + 1
        /\ sink_failures < MaxSinkFailures /\ epoch' = epoch /\ Answer(handler.kind)
    BY <1>9 DEF AuditFails, vars
  <2>3. InService' = {} /\ reply' \in Replies
    BY <1>7, <2>1, <2>2
  <2>4. Owed' \subseteq Owed \cup {handler.entry}
    BY <2>1, <2>2, <2>3 DEF Owed
  <2> QED
    BY <1>1, <1>2, <2>2, <2>3, <2>4
<1>10. CASE McpRestart
  <2>1. unaudited' = unaudited /\ sink_failures' = sink_failures /\ epoch' = epoch + 1
    BY <1>10 DEF McpRestart, Restart, sink
  <2>2. InService' = {} /\ reply' \in Replies
    BY <1>4, <1>6, <1>10 DEF McpRestart, Replies
  <2>3. \E x : Owed' \subseteq Owed \cup {x}
    BY <2>1, <2>2 DEF Owed, InService
  <2> QED
    BY <1>1, <1>2, <2>1, <2>2, <2>3
<1>11. CASE DispatchPerform
  <2>1. /\ handler.stage = "dispatch" /\ Perform(Loop)
        /\ unaudited' = unaudited \cup {Len(log')} /\ Audit("done", Len(log'))
        /\ reply' = reply /\ sink_failures' = sink_failures /\ epoch' = epoch
    BY <1>11 DEF DispatchPerform, Perform
  <2>2. InService = {} /\ InService' = {Len(log')}
    BY <1>3, <2>1 DEF Audit, InService
  <2>3. Len(log') \in DOMAIN log'
    <3>1. Len(log) \in Nat /\ Len(log') = Len(log) + 1 /\ DOMAIN log' = 1..Len(log')
      BY <1>1, <1>2, <2>1 DEF Perform, TypeOK
    <3> QED
      BY <3>1
  <2>4. Owed' \subseteq Owed
    BY <2>1, <2>2 DEF Owed
  <2> QED
    BY <1>1, <1>2, <2>1, <2>3, <2>4
<1>12. ASSUME unaudited' = unaudited, sink_failures' = sink_failures, epoch' = epoch,
              reply' \in Replies, handler' = handler \/ handler.stage # "audit"
       PROVE  /\ unaudited' \subseteq DOMAIN log'
              /\ sink_failures' \in 0..MaxSinkFailures
              /\ Owed' \subseteq Owed
  BY <1>1, <1>2, <1>3, <1>12 DEF Owed, InService
<1>13. CASE \/ \E c \in Contexts, a \in Actions : CallGated(c, a)
            \/ \E c \in Contexts : CallRead(c)
            \/ CallUnknown
  <2>1. unaudited' = unaudited /\ sink_failures' = sink_failures /\ epoch' = epoch
        /\ handler = Free
    BY <1>13 DEF CallGated, CallRead, CallUnknown, vars, sink
  <2>2. reply' \in Replies
    BY <1>1, <1>7, <1>13 DEF CallGated, CallRead, CallUnknown
  <2> QED
    BY <1>1, <1>6, <1>12, <2>1, <2>2
<1>14. CASE ServeStep /\ ~AuditWrite /\ ~DispatchPerform
  <2>1. unaudited' = unaudited /\ sink_failures' = sink_failures /\ epoch' = epoch
        /\ handler.stage # "audit"
    BY <1>14
    DEF ServeStep, ResumeCached, ResumePending, ResumeRefused, ResumeApproved, GateReplay,
        GateMint, Begin, DispatchRefused, Dispatch, MintRefuse, MintVerify, MintReplay,
        MintRecord, ConsumeRefuse, Consume, vars, sink
  <2>2. reply' = reply \/ \E k \in {"elicitation", "exception"} : Answer(k)
    BY <1>14
    DEF ServeStep, ResumeCached, ResumePending, ResumeRefused, ResumeApproved, GateReplay,
        GateMint, Begin, DispatchRefused, Dispatch, gate
  <2>3. reply' \in Replies
    BY <1>1, <1>7, <2>2
  <2> QED
    BY <1>1, <1>12, <2>1, <2>3
<1>15. CASE \/ HumanStep \/ ClockStep \/ UNCHANGED mcpVars
            \/ \E sid \in SessionIds : Poll(sid)
            \/ \E t \in Threads : PollerStep(t)
  <2>1. UNCHANGED <<unaudited, sink_failures, epoch, reply, handler>>
    BY <1>15
    DEF HumanStep, HumanApproves, HumanDenies, Sign, ClockStep, Tick, Poll, PollerStep, MintRefuse,
        MintVerify, MintReplay, MintRecord, ConsumeRefuse, Consume, Perform, gate, sink, vars,
        mcpVars
  <2> QED
    BY <1>1, <1>12, <2>1
<1> QED
  BY <1>8, <1>9, <1>10, <1>11, <1>13, <1>14, <1>15 DEF McpNext

(* A row is owed for no more executions than writes failed and restarts.    *)
LEMMA RowsStep == McpIInv /\ [McpNext]_mcpVars => RowsAccountedFor'
<1> SUFFICES ASSUME McpIInv, [McpNext]_mcpVars PROVE RowsAccountedFor'
  OBVIOUS
<1>1. IsFiniteSet(Owed)
  <2>1. DOMAIN log = 1..Len(log) /\ Len(log) \in Nat /\ unaudited \subseteq DOMAIN log
    BY Parts DEF McpTypeOK, TypeOK
  <2>2. IsFiniteSet(1..Len(log))
    BY <2>1, FS_Interval
  <2>3. Owed \in SUBSET (1..Len(log))
    BY <2>1 DEF Owed
  <2> QED
    BY <2>2, <2>3, FS_Subset
<1>2. Cardinality(Owed) \in Nat /\ Cardinality(Owed) <= sink_failures + epoch
  BY <1>1, Parts, FS_CardinalityType DEF RowsAccountedFor, Owed
<1>3. sink_failures \in Nat /\ epoch \in Nat
  BY Parts, McpAssumption, VaultAssumption DEF McpTypeOK, TypeOK
<1>4. ASSUME NEW O, O \subseteq Owed
      PROVE  Cardinality(O) \in Nat /\ Cardinality(O) <= Cardinality(Owed)
  BY <1>1, <1>4, FS_Subset, FS_CardinalityType
<1>5. ASSUME NEW O, NEW x, O \subseteq Owed \cup {x}
      PROVE  Cardinality(O) \in Nat /\ Cardinality(O) <= Cardinality(Owed) + 1
  <2>1. IsFiniteSet(Owed \cup {x}) /\ Cardinality(Owed \cup {x}) <= Cardinality(Owed) + 1
        /\ Cardinality(Owed \cup {x}) \in Nat
    <3>1. /\ IsFiniteSet(Owed \cup {x})
          /\ Cardinality(Owed \cup {x})
                = IF x \in Owed THEN Cardinality(Owed) ELSE Cardinality(Owed) + 1
      BY <1>1, FS_AddElement
    <3> QED
      BY <1>2, <3>1
  <2>2. Cardinality(O) \in Nat /\ Cardinality(O) <= Cardinality(Owed \cup {x})
    BY <1>5, <2>1, FS_Subset, FS_CardinalityType
  <2> QED
    BY <1>2, <2>1, <2>2
<1>6. Cardinality(Owed') <= sink_failures' + epoch'
  <2>1. CASE Owed' \subseteq Owed /\ sink_failures' = sink_failures
             /\ epoch' \in {epoch, epoch + 1}
    <3>1. Cardinality(Owed') \in Nat /\ Cardinality(Owed') <= Cardinality(Owed)
      BY <1>4, <2>1
    <3> QED
      BY <1>2, <1>3, <2>1, <3>1
  <2>2. ASSUME NEW x, Owed' \subseteq Owed \cup {x},
               sink_failures' + epoch' = sink_failures + epoch + 1
        PROVE  Cardinality(Owed') <= sink_failures' + epoch'
    <3>1. Cardinality(Owed') \in Nat /\ Cardinality(Owed') <= Cardinality(Owed) + 1
      BY <1>5, <2>2
    <3> QED
      BY <1>2, <1>3, <2>2, <3>1
  <2> QED
    BY <2>1, <2>2, SinkCases
<1> QED
  BY <1>6 DEF RowsAccountedFor, Owed

-----------------------------------------------------------------------------
(* The invariant of the deployment.                                         *)

(* A fresh process has no sessions, no credentials and no calls.            *)
LEMMA McpInitIInv == McpInit => McpIInv
<1> SUFFICES ASSUME McpInit PROVE McpIInv
  OBVIOUS
<1>1. IInv
  BY InitIInv DEF McpInit
<1>2. McpTypeOK
  <2>1. TypeOK /\ ConsentTypeOK
    BY <1>1 DEF McpInit, IInv, ConsentInit, ConsentTypeOK
  <2>2. handler \in Handlers /\ reply \in Replies /\ sink_failures \in 0..MaxSinkFailures
    BY McpAssumption DEF McpInit, Handlers, Replies
  <2> QED
    BY <2>1, <2>2 DEF McpInit, McpTypeOK
<1>3. SignedInv /\ SessionsInv /\ WindowsInv /\ HeldInv
  BY DEF McpInit, Init, history, ConsentInit, Closed, SignedInv, SessionsInv, WindowsInv,
         HeldInv
<1>4. ConsentedInv /\ MintedInv
  BY DEF McpInit, Init, history, Idle, ConsentedInv, MintedInv
<1>5. HandlerInv /\ OwnApproval
  BY McpAssumption DEF McpInit, Init, Free, HandlerInv, OwnApproval
<1>6. ExecutionsWereConsented
  BY <1>1, <1>2, <1>3, <1>4, ConsentedExecutions DEF McpTypeOK
<1>7. RowsAccountedFor
  <2>1. Owed = {} /\ sink_failures = 0 /\ epoch = 0
    BY DEF McpInit, Init, Owed
  <2>2. Cardinality(Owed) = 0
    BY <2>1, FS_EmptySet
  <2> QED
    BY <2>1, <2>2 DEF RowsAccountedFor, Owed
<1> QED
  BY <1>1, <1>2, <1>3, <1>4, <1>5, <1>6, <1>7 DEF McpIInv

(* The same of the next state.                                              *)
LEMMA ConsentedExecutionsNext ==
    TypeOK' /\ IInv' /\ SessionsInv' /\ HeldInv' /\ ConsentedInv'
        => ExecutionsWereConsented'
<1>1. TypeOK /\ IInv /\ SessionsInv /\ HeldInv /\ ConsentedInv => ExecutionsWereConsented
  BY ConsentedExecutions
<1> QED
  BY <1>1, PTL

(* Every step of the deployment, and stuttering, keeps the invariant.       *)
LEMMA McpNextIInv == McpIInv /\ [McpNext]_mcpVars => McpIInv'
<1> SUFFICES ASSUME McpIInv, [McpNext]_mcpVars PROVE McpIInv'
  OBVIOUS
<1>1. IInv'
  BY Parts, VaultStep, NextIInv
<1>2. /\ ConsentTypeOK' /\ WindowsInv' /\ SignedInv' /\ SessionsInv'
      /\ HeldInv' /\ ConsentedInv'
  BY ConsentTyped, SignedStep, SessionsStep, HeldStep, ConsentedStep
<1>3. handler' \in Handlers /\ HandlerInv' /\ OwnApproval'
  BY HandlerStep DEF HandlerFine
<1>4. McpTypeOK' /\ MintedInv'
  BY <1>1, <1>2, <1>3, MintedStep, SinkCases DEF McpTypeOK, IInv
<1>5. ExecutionsWereConsented'
  <2>1. TypeOK' /\ IInv' /\ SessionsInv' /\ HeldInv' /\ ConsentedInv'
    BY <1>1, <1>2 DEF IInv
  <2> QED
    BY <2>1, ConsentedExecutionsNext
<1> QED
  BY <1>1, <1>2, <1>3, <1>4, <1>5, RowsStep DEF McpIInv

(* The consent sessions, the gate's cache, its handler, the vault and the   *)
(* audit log stay consistent with one another through every interleaving of *)
(* tool calls, decisions, pollers, failed writes and restarts.              *)
THEOREM McpInvariance == McpSpec => []McpIInv
  BY McpInitIInv, McpNextIInv, PTL DEF McpSpec

(* The gate, the pollers and the dispatcher use the vault as any client may: *)
(* all that is proved of InProcessVault holds of the vault in this process. *)
THEOREM ServerRefinesVault == McpSpec => Spec
<1>1. McpInit => Init
  BY DEF McpInit
<1>2. McpIInv /\ [McpNext]_mcpVars => [Next]_vars
  BY VaultStep
<1> QED
  BY <1>1, <1>2, McpInvariance, PTL DEF McpSpec, Spec

(* Whatever one life of the process executed stands approved, and not       *)
(* denied, in the session of the caller it was approved for, or a client    *)
(* got its payload from /result in an earlier life.                         *)
THEOREM ConsentBehindExecutions == McpSpec => []ExecutionsWereConsented
<1>1. McpIInv => ExecutionsWereConsented
  BY DEF McpIInv
<1> QED
  BY <1>1, McpInvariance, PTL

(* The gate dispatches for a caller under that caller's own approval only.  *)
THEOREM DispatchUnderOwnApproval == McpSpec => []OwnApproval
<1>1. McpIInv => OwnApproval
  BY DEF McpIInv
<1> QED
  BY <1>1, McpInvariance, PTL

(* Executions without an audit row are accounted for by failed writes and   *)
(* restarts, however many of either there are.                              *)
THEOREM RowsAreAccountedFor == McpSpec => []RowsAccountedFor
<1>1. McpIInv => RowsAccountedFor
  BY DEF McpIInv
<1> QED
  BY <1>1, McpInvariance, PTL

(* No decision is revised as long as the process lives.                     *)
THEOREM DecisionsStand == McpSpec => DecisionStands
<1>1. McpIInv /\ [McpNext]_mcpVars =>
         [epoch' = epoch =>
            \A s \in DOMAIN requests :
                Decided(requests[s]) =>
                    s \in DOMAIN requests' /\ requests'[s] = requests[s]]_mcpVars
  <2> SUFFICES ASSUME McpIInv, [McpNext]_mcpVars, epoch' = epoch
               PROVE  \A s \in DOMAIN requests :
                         Decided(requests[s]) =>
                            s \in DOMAIN requests' /\ requests'[s] = requests[s]
    OBVIOUS
  <2>1. epoch \in Nat
    BY Parts, VaultAssumption DEF TypeOK
  <2>2. ~McpRestart
    BY <2>1 DEF McpRestart, Restart
  <2> QED
    BY <2>2, RequestsStep DEF RequestsGrow
<1> QED
  BY <1>1, McpInvariance, PTL DEF McpSpec, DecisionStands

(* The whole deployment keeps the delegation contract.                      *)
THEOREM DeploymentKeepsContract == McpSpec => ServerKeepsContract
<1>1. McpInit => Contract!Init /\ ApprovalsSignable
  BY ContractInit DEF McpInit, Init, history, ApprovalsSignable
<1>2. McpIInv /\ ApprovalsSignable /\ [McpNext]_mcpVars =>
         ApprovalsSignable' /\ [Contract!Next]_(Contract!vars)
  BY Parts, VaultStep, ApprovalsSignableStep, ContractStep
<1> QED
  BY <1>1, <1>2, McpInvariance, PTL DEF McpSpec, ServerKeepsContract, Contract!Spec
=============================================================================
