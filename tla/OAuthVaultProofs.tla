--------------------------- MODULE OAuthVaultProofs ---------------------------
(***************************************************************************)
(* Proofs about the Tier 2 vault for every number of threads, approvals,   *)
(* tokens and restarts, every clock resolution and max TTL, and whatever   *)
(* foreign tokens callers hold, as long as the vault can tell them apart.  *)
(***************************************************************************)
EXTENDS OAuthVault, AuthorizationProofs

(* Callers present well-formed payloads.                                    *)
LEMMA PresentableTyped ==
    ASSUME approvals \subseteq Payloads, NEW q \in Presentable
    PROVE  q \in Payloads
<1>1. PICK p \in approvals, a \in Actions, k \in Keys :
          q = Altered(p, a, k)
  BY DEF Presentable
<1>2. p \in Payloads
  BY <1>1
<1>3. p.signature \in Signatures
  BY <1>2 DEF Payloads
<1>4. [p.signature EXCEPT !.key = k] \in Signatures
  BY <1>3 DEF Signatures
<1> QED
  BY <1>1, <1>2, <1>4 DEF Payloads, Altered

(* Elements of grants are well-typed.                                       *)
LEMMA GrantTyped ==
    ASSUME TypeOK, NEW j \in DOMAIN grants
    PROVE  /\ grants[j] \in Grants
           /\ grants[j].token \in Tokens
           /\ grants[j].payload \in Payloads
           /\ grants[j].payload.exp \in Nat
           /\ grants[j].at \in Nat
           /\ grants[j].epoch \in Nat
<1>1. grants[j] \in Grants
  BY ElementOfSeq DEF TypeOK
<1> QED
  BY <1>1 DEF Grants, Payloads

(* Elements of the log are well-typed.                                      *)
LEMMA EntryTyped ==
    ASSUME TypeOK, NEW i \in DOMAIN log
    PROVE  log[i] \in Entries /\ log[i].at \in Nat /\ log[i].epoch \in Nat
<1>1. log[i] \in Entries
  BY ElementOfSeq DEF TypeOK
<1> QED
  BY <1>1 DEF Entries

(* Callers present well-formed tokens.                                      *)
LEMMA HeldTyped ==
    ASSUME TypeOK, NEW tok \in Held
    PROVE  tok \in Tokens
  BY GrantTyped, OAuthAssumption DEF Held

(* The token minted for a payload is well-formed.                           *)
LEMMA TokenTyped ==
    ASSUME NEW p \in Payloads, NEW jti \in Nat
    PROVE  TokenFor(p, jti) \in Tokens
<1>1. [type |-> p.rar_type, action |-> p.action] \in Details
  BY DEF Details, Payloads
<1>2. <<[type |-> p.rar_type, action |-> p.action]>> \in {<<d>> : d \in Details}
  BY <1>1
<1>3. /\ Self.secret \in Keys /\ Self.issuer \in Issuers
      /\ Self.audience \in Audiences
  BY OAuthAssumption DEF Verifiers
<1>4. p.exp \in Nat
  BY DEF Payloads
<1> QED
  BY <1>2, <1>3, <1>4, AlgorithmAssumption DEF TokenFor, Tokens

(* What a call past its first step holds.                                   *)
LEMMA CallTyped ==
    ASSUME TypeOK, NEW t \in Threads
    PROVE  /\ call[t].op \in {"mint", "encode"} =>
                call[t].payload \in Payloads /\ call[t].at \in Nat
           /\ call[t].op \in {"consume", "perform"} =>
                /\ call[t].token \in Tokens
                /\ call[t].token.jti \in Nat
                /\ call[t].action \in Actions
                /\ call[t].at \in Nat
<1>1. call[t] \in Calls
  BY DEF TypeOK
<1>2. ASSUME NEW tok \in Tokens PROVE tok.jti \in Nat
  BY DEF Tokens
<1> QED
  BY <1>1, <1>2 DEF Calls, Idle

-----------------------------------------------------------------------------
(* Type correctness.                                                        *)

(* A fresh vault is well-typed.                                             *)
LEMMA InitTyped == Init => TypeOK
  BY OAuthAssumption DEF Init, TypeOK, Calls, Idle, Outcomes, memory, history

(* Returning to the caller keeps a thread's state well-typed.               *)
LEMMA ReturnTyped ==
    ASSUME TypeOK, NEW t \in Threads, NEW result \in Outcomes,
           Return(t, result)
    PROVE  call' \in [Threads -> Calls] /\ outcome' \in Outcomes
  BY DEF Return, TypeOK, Calls, Idle

(* A change of `op` within the same kind of call keeps it well-typed.       *)
LEMMA AdvanceTyped ==
    ASSUME TypeOK, NEW t \in Threads
    PROVE  /\ call[t].op = "mint" => [call[t] EXCEPT !.op = "encode"] \in Calls
           /\ call[t].op = "consume" => [call[t] EXCEPT !.op = "perform"] \in Calls
<1>1. call[t] \in Calls
  BY DEF TypeOK
<1>2. CASE call[t].op = "mint"
  <2>1. call[t] \in [op: {"mint", "encode"}, payload: Payloads, at: Nat]
    BY <1>1, <1>2 DEF Calls, Idle
  <2>2. [call[t] EXCEPT !.op = "encode"] \in
            [op: {"mint", "encode"}, payload: Payloads, at: Nat]
    BY <2>1
  <2> QED
    BY <1>2, <2>2 DEF Calls
<1>3. CASE call[t].op = "consume"
  <2>1. call[t] \in
            [op: {"consume", "perform"}, token: Tokens, action: Actions, at: Nat]
    BY <1>1, <1>3 DEF Calls, Idle
  <2>2. [call[t] EXCEPT !.op = "perform"] \in
            [op: {"consume", "perform"}, token: Tokens, action: Actions, at: Nat]
    BY <2>1
  <2> QED
    BY <1>3, <2>2 DEF Calls
<1> QED
  BY <1>2, <1>3

(* Encoding appends one grant and leaves the earlier ones.                  *)
LEMMA MintEncodeGrants ==
    ASSUME TypeOK, NEW t \in Threads, MintEncode(t)
    PROVE  LET new == Len(grants) + 1
           IN  /\ new \in Nat
               /\ new \notin DOMAIN grants
               /\ DOMAIN grants' = DOMAIN grants \cup {new}
               /\ \A j \in DOMAIN grants : grants'[j] = grants[j]
               /\ grants'[new].token = TokenFor(call[t].payload, new)
               /\ grants'[new].payload = call[t].payload
               /\ grants'[new].at = call[t].at
               /\ grants'[new].epoch = epoch
               /\ grants' \in Seq(Grants)
<1> DEFINE new == Len(grants) + 1
           g == [token |-> TokenFor(call[t].payload, new),
                 payload |-> call[t].payload, at |-> call[t].at, epoch |-> epoch]
<1>1. call[t].payload \in Payloads /\ call[t].at \in Nat
  BY CallTyped DEF MintEncode
<1>2. new \in Nat /\ grants \in Seq(Grants)
  BY DEF TypeOK
<1>3. TokenFor(call[t].payload, new) \in Tokens
  BY <1>1, <1>2, TokenTyped
<1>4. g \in Grants
  BY <1>1, <1>3 DEF Grants, TypeOK
<1>5. grants' = Append(grants, g)
  BY DEF MintEncode
<1> HIDE DEF g
<1>6. grants' \in Seq(Grants)
  BY <1>2, <1>4, <1>5
<1>7. /\ new \notin DOMAIN grants
      /\ DOMAIN grants' = DOMAIN grants \cup {new}
      /\ \A j \in DOMAIN grants : grants'[j] = grants[j]
      /\ grants'[new] = g
  BY <1>2, <1>4, <1>5, Appended
<1> QED
  BY <1>2, <1>6, <1>7 DEF g

(* Executing a command appends one entry and leaves the earlier ones.       *)
LEMMA PerformLog ==
    ASSUME TypeOK, NEW t \in Threads, Perform(t)
    PROVE  LET new == Len(log) + 1
           IN  /\ new \notin DOMAIN log
               /\ DOMAIN log' = DOMAIN log \cup {new}
               /\ \A i \in DOMAIN log : log'[i] = log[i]
               /\ log'[new].jti = call[t].token.jti
               /\ log'[new].action = call[t].action
               /\ log'[new].at = call[t].at
               /\ log'[new].epoch = epoch
               /\ log' \in Seq(Entries)
<1> DEFINE e == [jti |-> call[t].token.jti, action |-> call[t].action,
                 at |-> call[t].at, epoch |-> epoch]
<1>1. e \in Entries
  BY CallTyped DEF Perform, Entries, TypeOK
<1>2. log' = Append(log, e) /\ log \in Seq(Entries)
  BY DEF Perform, TypeOK
<1> HIDE DEF e
<1>3. log' \in Seq(Entries)
  BY <1>1, <1>2
<1>4. LET new == Len(log) + 1
      IN  /\ new \notin DOMAIN log
          /\ DOMAIN log' = DOMAIN log \cup {new}
          /\ \A i \in DOMAIN log : log'[i] = log[i]
          /\ log'[new] = e
  BY <1>1, <1>2, Appended
<1> QED
  BY <1>3, <1>4 DEF e

(* Every step of Next, and stuttering, keeps every variable in its type.    *)
LEMMA NextTyped == TypeOK /\ [Next]_vars => TypeOK'
<1> SUFFICES ASSUME TypeOK, [Next]_vars PROVE TypeOK'
  OBVIOUS
<1> USE DEF memory, history
<1>1. ASSUME NEW a \in Actions, NEW r \in RarTypes, NEW c \in Contexts,
             NEW f \in BOOLEAN, NEW ttl \in TTLs, Sign(a, r, c, f, ttl)
      PROVE  TypeOK'
  <2>1. now \in Nat /\ ttl \in Nat
    BY OAuthAssumption DEF TypeOK
  <2>2. SignAuthorizationDetails(a, r, c, f, UserSecret, ttl, now) \in Payloads
    BY <2>1, SignTyped, OAuthAssumption
  <2> QED
    BY <1>1, <2>2 DEF Sign, TypeOK
<1>2. ASSUME NEW t \in Threads, NEW p \in Presentable, MintRefuse(t, p)
      PROVE  TypeOK'
  <2>1. MintRefusal(p) \in Outcomes
    BY DEF MintRefusal, Outcomes
  <2> QED
    BY <1>2, <2>1, ReturnTyped DEF MintRefuse, TypeOK
<1>3. ASSUME NEW t \in Threads, NEW p \in Presentable, MintVerify(t, p)
      PROVE  TypeOK'
  <2>1. p \in Payloads /\ now \in Nat
    BY PresentableTyped, OAuthAssumption DEF TypeOK
  <2>2. [op |-> "mint", payload |-> p, at |-> now] \in Calls
    BY <2>1 DEF Calls
  <2> QED
    BY <1>3, <2>2 DEF MintVerify, TypeOK
<1>4. ASSUME NEW t \in Threads, MintReplay(t) \/ MintEncodeFails(t) PROVE TypeOK'
  <2>1. {"SignatureReplay", "TypeError"} \subseteq Outcomes
    BY DEF Outcomes
  <2>2. call' \in [Threads -> Calls] /\ outcome' \in Outcomes
    BY <1>4, <2>1, ReturnTyped DEF MintReplay, MintEncodeFails
  <2> QED
    BY <1>4, <2>2 DEF MintReplay, MintEncodeFails, TypeOK
<1>5. ASSUME NEW t \in Threads, MintRecord(t) PROVE TypeOK'
  <2>1. Canonical(call[t].payload) \in CanonicalForms
    BY <1>5, CallTyped, CanonicalTyped DEF MintRecord
  <2>2. call' \in [Threads -> Calls]
    BY <1>5, AdvanceTyped DEF MintRecord, TypeOK
  <2> QED
    BY <1>5, <2>1, <2>2 DEF MintRecord, TypeOK
<1>6. ASSUME NEW t \in Threads, MintEncode(t) PROVE TypeOK'
  <2>1. call' \in [Threads -> Calls] /\ outcome' \in Outcomes
    BY <1>6, ReturnTyped DEF MintEncode, Outcomes
  <2>2. grants' \in Seq(Grants)
    BY <1>6, MintEncodeGrants
  <2> QED
    BY <1>6, <2>1, <2>2 DEF MintEncode, TypeOK
<1>7. ASSUME NEW t \in Threads, NEW tok \in Held, NEW a \in Actions,
             ConsumeRefuse(t, tok, a)
      PROVE  TypeOK'
  <2>1. TokenRefusal(tok, Self, now) \in Outcomes
    BY DEF TokenRefusal, Outcomes
  <2> QED
    BY <1>7, <2>1, ReturnTyped DEF ConsumeRefuse, TypeOK
<1>8. ASSUME NEW t \in Threads, NEW tok \in Held, NEW a \in Actions,
             ConsumeCheck(t, tok, a)
      PROVE  TypeOK'
  <2>1. now \in Nat
    BY OAuthAssumption DEF TypeOK
  <2>2. [op |-> "consume", token |-> tok, action |-> a, at |-> now] \in Calls
    BY <2>1, HeldTyped DEF Calls
  <2> QED
    BY <1>8, <2>2 DEF ConsumeCheck, TypeOK
<1>9. ASSUME NEW t \in Threads, ConsumeRebuff(t) PROVE TypeOK'
  <2>1. BindingRefusal(call[t].token, consumed) \in Outcomes
    BY DEF BindingRefusal, Outcomes
  <2> QED
    BY <1>9, <2>1, ReturnTyped DEF ConsumeRebuff, TypeOK
<1>10. ASSUME NEW t \in Threads, ConsumeRecord(t) PROVE TypeOK'
  <2>1. call[t].token.jti \in Nat
    BY <1>10, CallTyped DEF ConsumeRecord
  <2>2. call' \in [Threads -> Calls]
    BY <1>10, AdvanceTyped DEF ConsumeRecord, TypeOK
  <2> QED
    BY <1>10, <2>1, <2>2 DEF ConsumeRecord, TypeOK
<1>11. ASSUME NEW t \in Threads, Perform(t) PROVE TypeOK'
  <2>1. call' \in [Threads -> Calls] /\ outcome' \in Outcomes
    BY <1>11, ReturnTyped DEF Perform, Outcomes
  <2>2. log' \in Seq(Entries)
    BY <1>11, PerformLog
  <2> QED
    BY <1>11, <2>1, <2>2 DEF Perform, TypeOK
<1>12. CASE Tick
  BY <1>12, OAuthAssumption DEF Tick, TypeOK
<1>13. CASE Restart
  <2>1. epoch' \in 0..MaxRestarts
    BY <1>13, OAuthAssumption DEF Restart, TypeOK
  <2>2. call' \in [Threads -> Calls]
    BY <1>13 DEF Restart, Calls, Idle
  <2> QED
    BY <1>13, <2>1, <2>2 DEF Restart, TypeOK
<1>14. CASE UNCHANGED vars
  BY <1>14 DEF vars, TypeOK
<1> QED
  BY <1>1, <1>2, <1>3, <1>4, <1>5, <1>6, <1>7, <1>8, <1>9, <1>10, <1>11, <1>12,
     <1>13, <1>14 DEF Next, MintNext, ConsumeNext

(* The vault's memory, the calls in progress and the histories always have  *)
(* their types.                                                             *)
THEOREM TypeCorrect == Spec => []TypeOK
  BY InitTyped, NextTyped, PTL DEF Spec

-----------------------------------------------------------------------------
(* Facts the invariance proof uses more than once.                          *)

(* Approvals, grants and the clock only grow.                               *)
LEMMA HistoryGrows ==
    ASSUME TypeOK, [Next]_vars
    PROVE  /\ approvals \subseteq approvals'
           /\ now \in Nat /\ now' \in Nat /\ now <= now'
           /\ DOMAIN grants \subseteq DOMAIN grants'
           /\ \A j \in DOMAIN grants : grants'[j] = grants[j]
<1>1. now \in Nat
  BY OAuthAssumption DEF TypeOK
<1>2. approvals \subseteq approvals' /\ now' \in {now, now + 1}
  BY DEF Next, MintNext, ConsumeNext, Sign, MintRefuse, MintVerify, MintReplay,
         MintRecord, MintEncode, MintEncodeFails, ConsumeRefuse, ConsumeCheck,
         ConsumeRebuff, ConsumeRecord, Perform, Tick, Restart, vars, history
<1>3. CASE grants' = grants
  BY <1>1, <1>2, <1>3
<1>4. CASE grants' # grants
  <2>1. PICK t \in Threads : MintEncode(t)
    BY <1>4
    DEF Next, MintNext, ConsumeNext, Sign, MintRefuse, MintVerify, MintReplay,
        MintRecord, MintEncodeFails, ConsumeRefuse, ConsumeCheck, ConsumeRebuff,
        ConsumeRecord, Perform, Tick, Restart, vars, history
  <2>2. /\ DOMAIN grants \subseteq DOMAIN grants'
        /\ \A j \in DOMAIN grants : grants'[j] = grants[j]
    BY <2>1, MintEncodeGrants
  <2> QED
    BY <1>1, <1>2, <2>2
<1> QED
  BY <1>3, <1>4

(* A presented payload whose signature verifies is the one that was signed. *)
LEMMA VerifiedIsApproved ==
    ASSUME TypeOK, ApprovalsInv, NEW q \in Presentable,
           SignatureVerifies(q, UserSecret)
    PROVE  q \in approvals
<1>1. PICK p \in approvals, a \in Actions, k \in Keys : q = Altered(p, a, k)
  BY DEF Presentable
<1>2. p \in Payloads /\ p.signature \in Signatures
  BY DEF TypeOK, Payloads
<1>3. /\ q.signature = [p.signature EXCEPT !.key = k]
      /\ q.action = a
  BY <1>1, <1>2 DEF Altered, Payloads
<1>4. p.signature = [key |-> UserSecret, bytes |-> Canonical(p)]
  BY DEF ApprovalsInv, Hmac
<1>5. q.signature = [key |-> UserSecret, bytes |-> Canonical(q)]
  BY DEF SignatureVerifies, Hmac
<1>6. Canonical(q) = Canonical(p) /\ k = UserSecret
  BY <1>3, <1>4, <1>5
<1>7. a = p.action
  BY <1>3, <1>6 DEF Canonical
<1>8. q = p
  <2>1. [p.signature EXCEPT !.key = k] = p.signature
    BY <1>2, <1>4, <1>6 DEF Signatures
  <2>2. [p EXCEPT !.action = a] = p
    BY <1>2, <1>7 DEF Payloads
  <2>3. [p EXCEPT !.signature = p.signature] = p
    BY <1>2 DEF Payloads
  <2> QED
    BY <1>1, <2>1, <2>2, <2>3 DEF Altered
<1> QED
  BY <1>8

(* Mint lets a payload pass only if it was signed and is within its bounds. *)
LEMMA MintableFacts ==
    ASSUME TypeOK, ApprovalsInv, NEW p \in Presentable, Mintable(p)
    PROVE  PassedMint(p, now)
<1>1. p.exp \in Nat /\ now \in Nat
  BY PresentableTyped, OAuthAssumption DEF TypeOK, Payloads
<1> QED
  BY <1>1, VerifiedIsApproved, MaxTTLAssumption
  DEF Mintable, PassedMint, LapsedAtMint, TooLongAtMint, RarTypeExpected

(* The vault accepts only its own tokens, and none that has lapsed.         *)
LEMMA AcceptedIsMinted ==
    ASSUME TypeOK, GrantsInv, NEW tok \in Held, TokenAccepted(tok, Self, now)
    PROVE  /\ tok.jti \in DOMAIN grants
           /\ tok = grants[tok.jti].token
           /\ now <= grants[tok.jti].payload.exp
<1>1. tok \notin ForeignTokens
  BY ForeignAssumption DEF TokenAccepted
<1>2. PICK j \in DOMAIN grants : tok = grants[j].token
  BY <1>1 DEF Held
<1>3. tok = TokenFor(grants[j].payload, j)
  BY <1>2 DEF GrantsInv
<1>4. tok.jti = j /\ tok.exp = grants[j].payload.exp
  BY <1>3 DEF TokenFor
<1>5. ~(now > tok.exp) /\ tok.exp \in Nat /\ now \in Nat
  BY <1>4, GrantTyped, OAuthAssumption
  DEF TokenAccepted, LapsedAtConsume, TypeOK
<1> QED
  BY <1>2, <1>4, <1>5

-----------------------------------------------------------------------------
(* Each part of the inductive invariant is preserved by every step.         *)

(* What is signed stays signed, under a form that can be signed in time.    *)
LEMMA ApprovalsStep == TypeOK /\ ApprovalsInv /\ [Next]_vars => ApprovalsInv'
<1> SUFFICES ASSUME TypeOK, ApprovalsInv, [Next]_vars PROVE ApprovalsInv'
  OBVIOUS
<1>1. CASE UNCHANGED approvals
  BY <1>1 DEF ApprovalsInv
<1>2. ASSUME NEW a \in Actions, NEW r \in RarTypes, NEW c \in Contexts,
             NEW f \in BOOLEAN, NEW ttl \in TTLs, Sign(a, r, c, f, ttl)
      PROVE  ApprovalsInv'
  <2> DEFINE p == SignAuthorizationDetails(a, r, c, f, UserSecret, ttl, now)
  <2>1. p.signature = Hmac(UserSecret, Canonical(p))
    BY DEF SignAuthorizationDetails, Canonical
  <2>2. Canonical(p) \in SignableForms
    BY DEF TypeOK, Canonical, SignAuthorizationDetails, SignableForms
  <2>3. approvals' = approvals \cup {p}
    BY <1>2 DEF Sign
  <2> HIDE DEF p
  <2> QED
    BY <2>1, <2>2, <2>3 DEF ApprovalsInv
<1> QED
  BY <1>1, <1>2
  DEF Next, MintNext, ConsumeNext, MintRefuse, MintVerify, MintReplay, MintRecord,
      MintEncode, MintEncodeFails, ConsumeRefuse, ConsumeCheck, ConsumeRebuff,
      ConsumeRecord, Perform, Tick, Restart, vars, history

(* A mint in progress keeps a payload that passed the checks.               *)
LEMMA MintCallsStep == IInv /\ [Next]_vars => MintCallsInv'
<1> SUFFICES ASSUME IInv, [Next]_vars PROVE MintCallsInv'
  OBVIOUS
<1> USE DEF memory, history
<1>0. TypeOK /\ ApprovalsInv /\ MintCallsInv
  BY DEF IInv
<1>g. approvals \subseteq approvals' /\ now \in Nat /\ now' \in Nat /\ now <= now'
  BY <1>0, HistoryGrows
<1>1. ASSUME \A u \in Threads :
                \/ call'[u] = call[u]
                \/ call'[u].op \notin {"mint", "encode"}
                \/ /\ call[u].op = "mint"
                   /\ call'[u].payload = call[u].payload
                   /\ call'[u].at = call[u].at
      PROVE  MintCallsInv'
  <2> SUFFICES ASSUME NEW u \in Threads, call'[u].op \in {"mint", "encode"}
               PROVE  PassedMint(call[u].payload, call[u].at)'
    BY DEF MintCallsInv
  <2>1. /\ call[u].op \in {"mint", "encode"}
        /\ call'[u].payload = call[u].payload
        /\ call'[u].at = call[u].at
    BY <1>1
  <2>2. PassedMint(call[u].payload, call[u].at) /\ call[u].at \in Nat
    BY <1>0, <2>1, CallTyped DEF MintCallsInv
  <2> QED
    BY <1>g, <2>1, <2>2 DEF PassedMint
<1>2. ASSUME NEW t \in Threads, NEW p \in Presentable, MintVerify(t, p)
      PROVE  MintCallsInv'
  <2>1. PassedMint(p, now)
    BY <1>0, <1>2, MintableFacts DEF MintVerify
  <2>2. /\ call'[t] = [op |-> "mint", payload |-> p, at |-> now]
        /\ \A u \in Threads \ {t} : call'[u] = call[u]
        /\ UNCHANGED <<now, approvals>>
    BY <1>0, <1>2 DEF MintVerify, TypeOK
  <2> QED
    BY <1>0, <2>1, <2>2 DEF MintCallsInv, PassedMint
<1>3. ASSUME NEW t \in Threads, MintRecord(t) PROVE MintCallsInv'
  BY <1>0, <1>1, <1>3 DEF MintRecord, TypeOK, Calls, Idle
<1>4. ASSUME NEW t \in Threads, NEW x, call' = [call EXCEPT ![t] = x],
             x.op \notin {"mint", "encode"}
      PROVE  MintCallsInv'
  BY <1>0, <1>1, <1>4 DEF TypeOK
<1>5. ASSUME NEW t \in Threads, ConsumeRecord(t) PROVE MintCallsInv'
  BY <1>0, <1>1, <1>5 DEF ConsumeRecord, TypeOK, Calls, Idle
<1>6. ASSUME NEW t \in Threads,
             \/ \E p \in Presentable : MintRefuse(t, p)
             \/ MintReplay(t) \/ MintEncode(t) \/ MintEncodeFails(t)
             \/ \E tok \in Held, a \in Actions : ConsumeRefuse(t, tok, a)
             \/ ConsumeRebuff(t) \/ Perform(t)
      PROVE  MintCallsInv'
  <2>1. call' = [call EXCEPT ![t] = Idle]
    BY <1>6 DEF MintRefuse, MintReplay, MintEncode, MintEncodeFails,
                ConsumeRefuse, ConsumeRebuff, Perform, Return
  <2> QED
    BY <1>4, <2>1 DEF Idle
<1>7. ASSUME NEW t \in Threads, NEW tok \in Held, NEW a \in Actions,
             ConsumeCheck(t, tok, a)
      PROVE  MintCallsInv'
  BY <1>4, <1>7 DEF ConsumeCheck
<1>8. CASE UNCHANGED call \/ Restart
  BY <1>0, <1>1, <1>8 DEF Restart, Idle
<1> QED
  BY <1>2, <1>3, <1>5, <1>6, <1>7, <1>8
  DEF Next, MintNext, ConsumeNext, Sign, Tick, vars

(* A mint past its lock section stays the only one with its signature.      *)
LEMMA EncodeCallsStep == IInv /\ [Next]_vars => EncodeCallsInv'
<1> SUFFICES ASSUME IInv, [Next]_vars PROVE EncodeCallsInv'
  OBVIOUS
<1> USE DEF memory, history
<1>0. TypeOK /\ EncodeCallsInv /\ GrantsInv
  BY DEF IInv
<1>1. ASSUME UNCHANGED <<consumed_signatures, grants, epoch>>,
             \A u \in Threads : call'[u] = call[u] \/ call'[u].op # "encode"
      PROVE  EncodeCallsInv'
  BY <1>0, <1>1 DEF EncodeCallsInv
<1>2. ASSUME NEW t \in Threads, MintRecord(t) PROVE EncodeCallsInv'
  <2> DEFINE c == Canonical(call[t].payload)
  <2>1. /\ call'[t].op = "encode" /\ call'[t].payload = call[t].payload
        /\ \A u \in Threads \ {t} : call'[u] = call[u]
    BY <1>0, <1>2 DEF MintRecord, TypeOK, Calls, Idle
  <2>2. /\ c \notin consumed_signatures
        /\ consumed_signatures' = consumed_signatures \cup {c}
        /\ UNCHANGED <<grants, epoch>>
    BY <1>2 DEF MintRecord, AlreadyExchanged
  <2>3. \A j \in DOMAIN grants :
            grants[j].epoch = epoch => Canonical(grants[j].payload) # c
    BY <1>0, <2>2 DEF GrantsInv
  <2>4. \A u \in Threads \ {t} :
            call[u].op = "encode" => Canonical(call[u].payload) # c
    BY <1>0, <2>2 DEF EncodeCallsInv
  <2> HIDE DEF c
  <2>5. Canonical(call'[t].payload) = c
    BY <2>1 DEF c
  <2> QED
    BY <1>0, <2>1, <2>2, <2>3, <2>4, <2>5 DEF EncodeCallsInv
<1>3. ASSUME NEW t \in Threads, MintEncode(t) PROVE EncodeCallsInv'
  <2> DEFINE c == Canonical(call[t].payload)
             new == Len(grants) + 1
  <2>1. /\ call'[t].op # "encode"
        /\ \A u \in Threads \ {t} : call'[u] = call[u]
        /\ call[t].op = "encode"
        /\ UNCHANGED <<consumed_signatures, epoch>>
    BY <1>0, <1>3 DEF MintEncode, Return, TypeOK, Idle
  <2>2. /\ DOMAIN grants' = DOMAIN grants \cup {new}
        /\ \A j \in DOMAIN grants : grants'[j] = grants[j]
        /\ grants'[new].payload = call[t].payload
    BY <1>0, <1>3, MintEncodeGrants
  <2>3. \A u \in Threads \ {t} :
            call[u].op = "encode" => Canonical(call[u].payload) # c
    BY <1>0, <2>1 DEF EncodeCallsInv
  <2>4. Canonical(grants'[new].payload) = c
    BY <2>2 DEF Canonical
  <2> HIDE DEF c, new
  <2> SUFFICES ASSUME NEW u \in Threads \ {t}, call[u].op = "encode"
               PROVE  /\ Canonical(call[u].payload) \in consumed_signatures
                      /\ \A j \in DOMAIN grants' :
                            grants'[j].epoch = epoch =>
                               Canonical(grants'[j].payload) # Canonical(call[u].payload)
                      /\ \A v \in Threads \ {u} : call'[v].op = "encode" =>
                               Canonical(call'[v].payload) # Canonical(call[u].payload)
    BY <2>1 DEF EncodeCallsInv
  <2> QED
    BY <1>0, <2>1, <2>2, <2>3, <2>4 DEF EncodeCallsInv
<1>4. ASSUME NEW t \in Threads, call' = [call EXCEPT ![t] = Idle],
             UNCHANGED <<consumed_signatures, grants, epoch>>
      PROVE  EncodeCallsInv'
  BY <1>0, <1>1, <1>4 DEF TypeOK, Idle
<1>5. ASSUME NEW t \in Threads, ConsumeRecord(t) PROVE EncodeCallsInv'
  BY <1>0, <1>1, <1>5 DEF ConsumeRecord, TypeOK, Calls, Idle
<1>6. ASSUME NEW t \in Threads,
             \/ \E p \in Presentable : MintRefuse(t, p)
             \/ MintReplay(t) \/ MintEncodeFails(t)
             \/ \E tok \in Held, a \in Actions : ConsumeRefuse(t, tok, a)
             \/ ConsumeRebuff(t) \/ Perform(t)
      PROVE  EncodeCallsInv'
  <2>1. /\ call' = [call EXCEPT ![t] = Idle]
        /\ UNCHANGED <<consumed_signatures, grants, epoch>>
    BY <1>6 DEF MintRefuse, MintReplay, MintEncodeFails,
                ConsumeRefuse, ConsumeRebuff, Perform, Return
  <2> QED
    BY <1>4, <2>1
<1>7. ASSUME NEW t \in Threads,
             \/ \E p \in Presentable : MintVerify(t, p)
             \/ \E tok \in Held, a \in Actions : ConsumeCheck(t, tok, a)
      PROVE  EncodeCallsInv'
  BY <1>0, <1>1, <1>7 DEF MintVerify, ConsumeCheck, TypeOK
<1>8. CASE UNCHANGED <<consumed_signatures, grants, epoch, call>>
  BY <1>1, <1>8
<1>9. CASE Restart
  BY <1>9 DEF Restart, EncodeCallsInv, Idle
<1> QED
  BY <1>2, <1>3, <1>5, <1>6, <1>7, <1>8, <1>9
  DEF Next, MintNext, ConsumeNext, Sign, Tick, vars

(* A token past the first checks stays one that was minted.                 *)
LEMMA TokenCallsStep == IInv /\ [Next]_vars => TokenCallsInv'
<1> SUFFICES ASSUME IInv, [Next]_vars PROVE TokenCallsInv'
  OBVIOUS
<1> USE DEF memory, history
<1>0. TypeOK /\ TokenCallsInv /\ GrantsInv
  BY DEF IInv
<1>g. /\ DOMAIN grants \subseteq DOMAIN grants'
      /\ \A j \in DOMAIN grants : grants'[j] = grants[j]
  BY <1>0, HistoryGrows
<1>1. ASSUME \A u \in Threads :
                \/ call'[u] = call[u]
                \/ call'[u].op \notin {"consume", "perform"}
                \/ /\ call[u].op = "consume"
                   /\ call'[u].token = call[u].token
                   /\ call'[u].at = call[u].at
      PROVE  TokenCallsInv'
  BY <1>0, <1>1, <1>g DEF TokenCallsInv
<1>2. ASSUME NEW t \in Threads, NEW tok \in Held, NEW a \in Actions,
             ConsumeCheck(t, tok, a)
      PROVE  TokenCallsInv'
  <2>1. /\ tok.jti \in DOMAIN grants
        /\ tok = grants[tok.jti].token
        /\ now <= grants[tok.jti].payload.exp
    BY <1>0, <1>2, AcceptedIsMinted DEF ConsumeCheck
  <2>2. grants[tok.jti].at <= now
    BY <1>0, <2>1 DEF GrantsInv, PassedMint
  <2>3. /\ call'[t] = [op |-> "consume", token |-> tok, action |-> a, at |-> now]
        /\ \A u \in Threads \ {t} : call'[u] = call[u]
        /\ UNCHANGED grants
    BY <1>0, <1>2 DEF ConsumeCheck, TypeOK
  <2> QED
    BY <1>0, <2>1, <2>2, <2>3 DEF TokenCallsInv
<1>3. ASSUME NEW t \in Threads, ConsumeRecord(t) PROVE TokenCallsInv'
  BY <1>0, <1>1, <1>3 DEF ConsumeRecord, TypeOK, Calls, Idle
<1>4. ASSUME NEW t \in Threads, MintRecord(t) PROVE TokenCallsInv'
  BY <1>0, <1>1, <1>4 DEF MintRecord, TypeOK, Calls, Idle
<1>5. ASSUME NEW t \in Threads, NEW p \in Presentable, MintVerify(t, p)
      PROVE  TokenCallsInv'
  BY <1>0, <1>1, <1>5 DEF MintVerify, TypeOK
<1>6. ASSUME NEW t \in Threads,
             \/ \E p \in Presentable : MintRefuse(t, p)
             \/ MintReplay(t) \/ MintEncode(t) \/ MintEncodeFails(t)
             \/ \E tok \in Held, a \in Actions : ConsumeRefuse(t, tok, a)
             \/ ConsumeRebuff(t) \/ Perform(t)
      PROVE  TokenCallsInv'
  <2>1. call' = [call EXCEPT ![t] = Idle]
    BY <1>6 DEF MintRefuse, MintReplay, MintEncode, MintEncodeFails,
                ConsumeRefuse, ConsumeRebuff, Perform, Return
  <2> QED
    BY <1>0, <1>1, <2>1 DEF TypeOK, Idle
<1>7. CASE UNCHANGED call \/ Restart
  BY <1>0, <1>1, <1>7 DEF Restart, Idle
<1> QED
  BY <1>2, <1>3, <1>4, <1>5, <1>6, <1>7
  DEF Next, MintNext, ConsumeNext, Sign, Tick, vars

(* Passing the binding check means asking for the action that was approved. *)
LEMMA BoundFacts ==
    ASSUME TypeOK, TokenCallsInv, GrantsInv, NEW t \in Threads,
           call[t].op = "consume",
           BoundTo(call[t].token, call[t].action, Self, consumed)
    PROVE  LET j == call[t].token.jti
           IN  /\ j \in DOMAIN grants
               /\ j \notin consumed
               /\ SameAction(grants[j].payload.action, call[t].action)
<1> DEFINE j == call[t].token.jti
           p == grants[j].payload
<1>1. j \in DOMAIN grants /\ call[t].token = grants[j].token
  BY DEF TokenCallsInv
<1>2. call[t].token = TokenFor(p, j)
  BY <1>1 DEF GrantsInv
<1>3. call[t].token.details[1].action = p.action
  <2>1. call[t].token.details = <<[type |-> p.rar_type, action |-> p.action]>>
    BY <1>2 DEF TokenFor
  <2> QED
    BY <2>1
<1> QED
  BY <1>1, <1>3 DEF BoundTo

(* A token about to be executed stays recorded, unused and held alone.      *)
LEMMA PerformCallsStep == IInv /\ [Next]_vars => PerformCallsInv'
<1> SUFFICES ASSUME IInv, [Next]_vars PROVE PerformCallsInv'
  OBVIOUS
<1> USE DEF memory, history
<1>0. TypeOK /\ TokenCallsInv /\ PerformCallsInv /\ GrantsInv /\ LogInv
  BY DEF IInv
<1>g. /\ DOMAIN grants \subseteq DOMAIN grants'
      /\ \A j \in DOMAIN grants : grants'[j] = grants[j]
  BY <1>0, HistoryGrows
<1>c. consumed \subseteq DOMAIN grants
  BY <1>0 DEF GrantsInv
<1>1. ASSUME UNCHANGED <<consumed, log, epoch>>,
             \A u \in Threads : call'[u] = call[u] \/ call'[u].op # "perform"
      PROVE  PerformCallsInv'
  BY <1>0, <1>1, <1>g, <1>c DEF PerformCallsInv
<1>2. ASSUME NEW t \in Threads, ConsumeRecord(t) PROVE PerformCallsInv'
  <2> DEFINE j == call[t].token.jti
  <2>1. /\ j \notin consumed
        /\ SameAction(grants[j].payload.action, call[t].action)
    BY <1>0, <1>2, BoundFacts DEF ConsumeRecord
  <2>2. /\ call'[t].op = "perform"
        /\ call'[t].token.jti = j
        /\ call'[t].action = call[t].action
        /\ \A u \in Threads \ {t} : call'[u] = call[u]
    BY <1>0, <1>2 DEF ConsumeRecord, TypeOK, Calls, Idle
  <2>3. consumed' = consumed \cup {j} /\ UNCHANGED <<grants, log, epoch>>
    BY <1>2 DEF ConsumeRecord
  <2>4. \A i \in DOMAIN log : log[i].epoch = epoch => log[i].jti # j
    BY <1>0, <2>1 DEF LogInv
  <2>5. \A u \in Threads \ {t} : call[u].op = "perform" => call[u].token.jti # j
    BY <1>0, <2>1 DEF PerformCallsInv
  <2> HIDE DEF j
  <2> QED
    BY <1>0, <2>1, <2>2, <2>3, <2>4, <2>5 DEF PerformCallsInv
<1>3. ASSUME NEW t \in Threads, Perform(t) PROVE PerformCallsInv'
  <2> DEFINE new == Len(log) + 1
  <2>1. /\ call'[t].op # "perform"
        /\ \A u \in Threads \ {t} : call'[u] = call[u]
        /\ call[t].op = "perform"
        /\ UNCHANGED <<consumed, grants, epoch>>
    BY <1>0, <1>3 DEF Perform, Return, TypeOK, Idle
  <2>2. /\ DOMAIN log' = DOMAIN log \cup {new}
        /\ \A i \in DOMAIN log : log'[i] = log[i]
        /\ log'[new].jti = call[t].token.jti
    BY <1>0, <1>3, PerformLog
  <2>3. \A u \in Threads \ {t} :
            call[u].op = "perform" => call[u].token.jti # call[t].token.jti
    BY <1>0, <2>1 DEF PerformCallsInv
  <2> HIDE DEF new
  <2> QED
    BY <1>0, <2>1, <2>2, <2>3 DEF PerformCallsInv
<1>4. ASSUME NEW t \in Threads, MintRecord(t) PROVE PerformCallsInv'
  BY <1>0, <1>1, <1>4 DEF MintRecord, TypeOK, Calls, Idle
<1>5. ASSUME NEW t \in Threads,
             \/ \E p \in Presentable : MintVerify(t, p)
             \/ \E tok \in Held, a \in Actions : ConsumeCheck(t, tok, a)
      PROVE  PerformCallsInv'
  BY <1>0, <1>1, <1>5 DEF MintVerify, ConsumeCheck, TypeOK
<1>6. ASSUME NEW t \in Threads,
             \/ \E p \in Presentable : MintRefuse(t, p)
             \/ MintReplay(t) \/ MintEncode(t) \/ MintEncodeFails(t)
             \/ \E tok \in Held, a \in Actions : ConsumeRefuse(t, tok, a)
             \/ ConsumeRebuff(t)
      PROVE  PerformCallsInv'
  <2>1. /\ call' = [call EXCEPT ![t] = Idle]
        /\ UNCHANGED <<consumed, log, epoch>>
    BY <1>6 DEF MintRefuse, MintReplay, MintEncode, MintEncodeFails,
                ConsumeRefuse, ConsumeRebuff, Return
  <2> QED
    BY <1>0, <1>1, <2>1 DEF TypeOK, Idle
<1>7. CASE UNCHANGED <<consumed, log, epoch, call>>
  BY <1>1, <1>7
<1>8. CASE Restart
  BY <1>8 DEF Restart, PerformCallsInv, Idle
<1> QED
  BY <1>2, <1>3, <1>4, <1>5, <1>6, <1>7, <1>8
  DEF Next, MintNext, ConsumeNext, Sign, Tick, vars

(* The grants keep matching the vault's memory and the approvals.           *)
LEMMA GrantsStep == IInv /\ [Next]_vars => GrantsInv'
<1> SUFFICES ASSUME IInv, [Next]_vars PROVE GrantsInv'
  OBVIOUS
<1> USE DEF memory, history
<1>0. TypeOK /\ MintCallsInv /\ EncodeCallsInv /\ TokenCallsInv /\ GrantsInv
  BY DEF IInv
<1>g. /\ approvals \subseteq approvals'
      /\ now \in Nat /\ now' \in Nat /\ now <= now'
  BY <1>0, HistoryGrows
<1>a. \A j \in DOMAIN grants :
          /\ grants[j].payload \in approvals'
          /\ grants[j].payload.rar_type \in Self.rar
          /\ grants[j].at <= now'
          /\ grants[j].at <= grants[j].payload.exp
          /\ grants[j].payload.exp <= grants[j].at + MaxTTL
  <2>1. ASSUME NEW j \in DOMAIN grants PROVE grants[j].at \in Nat
    BY <1>0, GrantTyped
  <2> QED
    BY <1>0, <1>g, <2>1 DEF GrantsInv, PassedMint
<1>1. ASSUME UNCHANGED <<grants, epoch, consumed>>,
             consumed_signatures \subseteq consumed_signatures'
      PROVE  GrantsInv'
  BY <1>0, <1>a, <1>1 DEF GrantsInv, PassedMint
<1>2. ASSUME NEW t \in Threads, MintEncode(t) PROVE GrantsInv'
  <2> DEFINE new == Len(grants) + 1
             p == call[t].payload
  <2>1. /\ DOMAIN grants' = DOMAIN grants \cup {new}
        /\ \A j \in DOMAIN grants : grants'[j] = grants[j]
        /\ grants'[new].token = TokenFor(p, new)
        /\ grants'[new].payload = p
        /\ grants'[new].at = call[t].at
        /\ grants'[new].epoch = epoch
    BY <1>0, <1>2, MintEncodeGrants
  <2>2. /\ PassedMint(p, call[t].at)
        /\ Canonical(p) \in consumed_signatures
    BY <1>0, <1>2 DEF MintEncode, MintCallsInv, EncodeCallsInv
  <2>3. /\ UNCHANGED <<now, consumed, consumed_signatures, approvals, epoch>>
        /\ epoch \in Nat
    BY <1>0, <1>2 DEF MintEncode, TypeOK
  <2>4. Canonical(grants'[new].payload) \in consumed_signatures
    BY <2>1, <2>2
  <2>5. \A j \in DOMAIN grants' :
            /\ grants'[j].payload \in approvals'
            /\ grants'[j].payload.rar_type \in Self.rar
            /\ grants'[j].at <= now'
            /\ grants'[j].at <= grants'[j].payload.exp
            /\ grants'[j].payload.exp <= grants'[j].at + MaxTTL
    BY <1>a, <2>1, <2>2, <2>3 DEF PassedMint
  <2> HIDE DEF new, p
  <2> QED
    BY <1>0, <2>1, <2>3, <2>4, <2>5 DEF GrantsInv, PassedMint
<1>3. ASSUME NEW t \in Threads, ConsumeRecord(t) PROVE GrantsInv'
  <2>1. call[t].token.jti \in DOMAIN grants
    BY <1>0, <1>3 DEF ConsumeRecord, TokenCallsInv
  <2> QED
    BY <1>0, <1>a, <1>3, <2>1 DEF ConsumeRecord, GrantsInv, PassedMint
<1>4. CASE Restart
  <2>1. ASSUME NEW j \in DOMAIN grants
        PROVE  grants[j].epoch \in Nat /\ grants[j].epoch <= epoch
    BY <1>0, GrantTyped DEF GrantsInv
  <2>2. /\ epoch \in Nat /\ epoch' = epoch + 1
        /\ UNCHANGED grants /\ consumed' = {}
    BY <1>0, <1>4 DEF Restart, TypeOK
  <2> QED
    BY <1>0, <1>a, <2>1, <2>2 DEF GrantsInv, PassedMint
<1> QED
  BY <1>1, <1>2, <1>3, <1>4
  DEF Next, MintNext, ConsumeNext, Sign, MintRefuse, MintVerify, MintReplay,
      MintRecord, MintEncodeFails, ConsumeRefuse, ConsumeCheck, ConsumeRebuff,
      Perform, Tick, vars

(* What the log says of a token stays true, and no token is executed twice  *)
(* in one life.                                                             *)
LEMMA LogStep == IInv /\ [Next]_vars => LogInv' /\ TokenSpentOncePerLife'
<1> SUFFICES ASSUME IInv, [Next]_vars PROVE LogInv' /\ TokenSpentOncePerLife'
  OBVIOUS
<1> USE DEF memory, history
<1>0. /\ TypeOK /\ TokenCallsInv /\ PerformCallsInv
      /\ GrantsInv /\ LogInv /\ TokenSpentOncePerLife
  BY DEF IInv
<1>g. /\ DOMAIN grants \subseteq DOMAIN grants'
      /\ \A j \in DOMAIN grants : grants'[j] = grants[j]
  BY <1>0, HistoryGrows
<1>1. ASSUME UNCHANGED <<log, epoch>>, consumed \subseteq consumed'
      PROVE  LogInv' /\ TokenSpentOncePerLife'
  BY <1>0, <1>1, <1>g DEF LogInv, TokenSpentOncePerLife
<1>2. ASSUME NEW t \in Threads, Perform(t)
      PROVE  LogInv' /\ TokenSpentOncePerLife'
  <2> DEFINE new == Len(log) + 1
             j == call[t].token.jti
  <2>1. /\ DOMAIN log' = DOMAIN log \cup {new}
        /\ new \notin DOMAIN log
        /\ \A i \in DOMAIN log : log'[i] = log[i]
        /\ log'[new].jti = j
        /\ log'[new].action = call[t].action
        /\ log'[new].at = call[t].at
        /\ log'[new].epoch = epoch
    BY <1>0, <1>2, PerformLog
  <2>2. UNCHANGED <<consumed, grants, epoch>> /\ epoch \in Nat
    BY <1>0, <1>2 DEF Perform, TypeOK
  <2>3. /\ j \in consumed
        /\ j \in DOMAIN grants
        /\ SameAction(grants[j].payload.action, call[t].action)
        /\ grants[j].at <= call[t].at
        /\ call[t].at <= grants[j].payload.exp
        /\ \A i \in DOMAIN log : log[i].epoch = epoch => log[i].jti # j
    BY <1>0, <1>2 DEF Perform, TokenCallsInv, PerformCallsInv
  <2>4. LogInv'
    BY <1>0, <2>1, <2>2, <2>3 DEF LogInv
  <2>5. TokenSpentOncePerLife'
    BY <1>0, <2>1, <2>3 DEF TokenSpentOncePerLife
  <2> QED
    BY <2>4, <2>5
<1>3. CASE Restart
  <2>1. UNCHANGED <<log, grants>> /\ epoch' = epoch + 1 /\ epoch \in Nat
    BY <1>0, <1>3 DEF Restart, TypeOK
  <2>2. ASSUME NEW i \in DOMAIN log
        PROVE  log[i].epoch \in Nat /\ log[i].epoch <= epoch
    BY <1>0, EntryTyped DEF LogInv
  <2>3. \A i \in DOMAIN log : log[i].epoch # epoch' /\ log[i].epoch <= epoch'
    BY <2>1, <2>2
  <2> QED
    BY <1>0, <2>1, <2>3 DEF LogInv, TokenSpentOncePerLife
<1> QED
  BY <1>1, <1>2, <1>3
  DEF Next, MintNext, ConsumeNext, Sign, MintRefuse, MintVerify, MintReplay,
      MintRecord, MintEncode, MintEncodeFails, ConsumeRefuse, ConsumeCheck,
      ConsumeRebuff, ConsumeRecord, Tick, vars

(* One signature keeps one token per life, and a spent signature keeps what *)
(* it was spent on.                                                         *)
LEMMA SignatureStep ==
    IInv /\ [Next]_vars =>
        SignatureExchangedOncePerLife' /\ SignatureLostOnlyToEncoding'
<1> DEFINE Goal == SignatureExchangedOncePerLife /\ SignatureLostOnlyToEncoding
<1> SUFFICES ASSUME IInv, [Next]_vars PROVE Goal'
  OBVIOUS
<1> USE DEF memory, history
<1>0. TypeOK /\ MintCallsInv /\ EncodeCallsInv /\ GrantsInv /\ Goal
  BY DEF IInv
<1>g. approvals \subseteq approvals'
  BY <1>0, HistoryGrows
<1>1. ASSUME UNCHANGED <<consumed_signatures, grants>>,
             \A u \in Threads : call[u].op = "encode" => call'[u] = call[u]
      PROVE  Goal'
  BY <1>0, <1>g, <1>1
  DEF SignatureExchangedOncePerLife, SignatureLostOnlyToEncoding, HasToken
<1>2. ASSUME NEW t \in Threads, MintRecord(t) PROVE Goal'
  <2> DEFINE c == Canonical(call[t].payload)
  <2>1. /\ call'[t].op = "encode"
        /\ call'[t].payload = call[t].payload
        /\ call[t].op = "mint"
        /\ \A u \in Threads \ {t} : call'[u] = call[u]
        /\ consumed_signatures' = consumed_signatures \cup {c}
        /\ UNCHANGED <<grants, approvals>>
    BY <1>0, <1>2 DEF MintRecord, TypeOK, Calls, Idle
  <2>2. Canonical(call'[t].payload) = c
    BY <2>1
  <2>3. ASSUME NEW d, HasToken(d) \/ d = c PROVE HasToken(d)'
    BY <2>1, <2>2, <2>3 DEF HasToken
  <2> HIDE DEF c
  <2> QED
    BY <1>0, <2>1, <2>3
    DEF SignatureExchangedOncePerLife, SignatureLostOnlyToEncoding
<1>3. ASSUME NEW t \in Threads, MintEncode(t) PROVE Goal'
  <2> DEFINE new == Len(grants) + 1
             p == call[t].payload
  <2>1. /\ new \notin DOMAIN grants
        /\ DOMAIN grants' = DOMAIN grants \cup {new}
        /\ \A j \in DOMAIN grants : grants'[j] = grants[j]
        /\ grants'[new].payload = p
        /\ grants'[new].epoch = epoch
    BY <1>0, <1>3, MintEncodeGrants
  <2>2. /\ call[t].op = "encode"
        /\ \A u \in Threads \ {t} : call'[u] = call[u]
        /\ UNCHANGED <<consumed_signatures, approvals>>
    BY <1>0, <1>3 DEF MintEncode, Return, TypeOK
  <2>3. \A j \in DOMAIN grants :
            grants[j].epoch = epoch => Canonical(grants[j].payload) # Canonical(p)
    BY <1>0, <2>2 DEF EncodeCallsInv
  <2>4. Canonical(grants'[new].payload) = Canonical(p)
    BY <2>1
  <2>5. SignatureExchangedOncePerLife'
    BY <1>0, <2>1, <2>3, <2>4 DEF SignatureExchangedOncePerLife
  <2>6. \A d : HasToken(d) => HasToken(d)'
    BY <2>1, <2>2, <2>4 DEF HasToken
  <2>7. SignatureLostOnlyToEncoding'
    BY <1>0, <2>2, <2>6 DEF SignatureLostOnlyToEncoding
  <2> QED
    BY <2>5, <2>7
<1>4. ASSUME NEW t \in Threads, MintEncodeFails(t) PROVE Goal'
  <2> DEFINE p == call[t].payload
  <2>1. /\ ~Encodable(p)
        /\ p \in approvals
        /\ \A u \in Threads \ {t} : call'[u] = call[u]
        /\ UNCHANGED <<consumed_signatures, grants, approvals>>
    BY <1>0, <1>4 DEF MintEncodeFails, Return, TypeOK, MintCallsInv, PassedMint
  <2>2. ASSUME NEW d, HasToken(d) PROVE HasToken(d)' \/ d = Canonical(p)
    BY <2>1, <2>2 DEF HasToken
  <2>3. SignatureLostOnlyToEncoding'
    BY <1>0, <2>1, <2>2 DEF SignatureLostOnlyToEncoding
  <2> QED
    BY <1>0, <2>1, <2>3 DEF SignatureExchangedOncePerLife
<1>5. ASSUME NEW t \in Threads,
             \/ \E p \in Presentable : MintRefuse(t, p) \/ MintVerify(t, p)
             \/ MintReplay(t)
             \/ \E tok \in Held, a \in Actions :
                   ConsumeRefuse(t, tok, a) \/ ConsumeCheck(t, tok, a)
             \/ ConsumeRebuff(t) \/ ConsumeRecord(t) \/ Perform(t)
      PROVE  Goal'
  <2>1. /\ call[t].op # "encode"
        /\ \A u \in Threads \ {t} : call'[u] = call[u]
        /\ UNCHANGED <<consumed_signatures, grants>>
    BY <1>0, <1>5
    DEF MintRefuse, MintVerify, MintReplay, ConsumeRefuse, ConsumeCheck,
        ConsumeRebuff, ConsumeRecord, Perform, Return, TypeOK, Idle
  <2> QED
    BY <1>1, <2>1
<1>6. CASE UNCHANGED <<consumed_signatures, grants, call>>
  BY <1>1, <1>6
<1>7. CASE Restart
  BY <1>0, <1>7
  DEF Restart, SignatureExchangedOncePerLife, SignatureLostOnlyToEncoding
<1> QED
  BY <1>2, <1>3, <1>4, <1>5, <1>6, <1>7
  DEF Next, MintNext, ConsumeNext, Sign, Tick, vars

-----------------------------------------------------------------------------
(* The inductive invariant, and the properties that follow from it.         *)

(* The inductive invariant holds of a fresh vault.                          *)
LEMMA InitIInv == Init => IInv
<1> SUFFICES ASSUME Init PROVE IInv
  OBVIOUS
<1>1. TypeOK
  BY InitTyped
<1>2. /\ ApprovalsInv /\ MintCallsInv /\ EncodeCallsInv
      /\ TokenCallsInv /\ PerformCallsInv /\ GrantsInv /\ LogInv
  BY DEF Init, memory, history, ApprovalsInv, MintCallsInv, EncodeCallsInv,
         TokenCallsInv, PerformCallsInv, GrantsInv, LogInv, Idle
<1>3. /\ TokenSpentOncePerLife
      /\ SignatureExchangedOncePerLife
      /\ SignatureLostOnlyToEncoding
  BY DEF Init, TokenSpentOncePerLife, SignatureExchangedOncePerLife,
         SignatureLostOnlyToEncoding
<1> QED
  BY <1>1, <1>2, <1>3 DEF IInv

(* Every step of Next, and stuttering, preserves the inductive invariant.   *)
LEMMA NextIInv == IInv /\ [Next]_vars => IInv'
<1> SUFFICES ASSUME IInv, [Next]_vars PROVE IInv'
  OBVIOUS
<1>1. TypeOK' /\ ApprovalsInv'
  BY NextTyped, ApprovalsStep DEF IInv
<1> QED
  BY <1>1, MintCallsStep, EncodeCallsStep, TokenCallsStep, PerformCallsStep,
     GrantsStep, LogStep, SignatureStep
  DEF IInv

(* The vault's memory, its calls in progress and the histories stay         *)
(* consistent with one another in every reachable state.                    *)
THEOREM Invariance == Spec => []IInv
  BY InitIInv, NextIInv, PTL DEF Spec

(* However threads interleave between the checks of consume and its record, *)
(* a token is executed at most once in a life of the process.               *)
THEOREM SingleUsePerLife == Spec => []TokenSpentOncePerLife
<1>1. IInv => TokenSpentOncePerLife
  BY DEF IInv
<1> QED
  BY <1>1, Invariance, PTL

(* Only an action a human signed, or one that == does not tell from it, is  *)
(* executed, and never on a foreign token.                                  *)
THEOREM BindingHolds == Spec => []ParameterBinding
<1>1. IInv => ParameterBinding
  <2> SUFFICES ASSUME IInv, NEW i \in DOMAIN log
               PROVE  /\ log[i].jti \in DOMAIN grants
                      /\ \E p \in approvals :
                            /\ Canonical(p) = Canonical(grants[log[i].jti].payload)
                            /\ SameAction(p.action, log[i].action)
                            /\ p.rar_type \in Self.rar
    BY DEF ParameterBinding
  <2> DEFINE p == grants[log[i].jti].payload
  <2>1. log[i].jti \in DOMAIN grants /\ SameAction(p.action, log[i].action)
    BY DEF IInv, LogInv
  <2>2. p \in approvals /\ p.rar_type \in Self.rar
    BY <2>1 DEF IInv, GrantsInv, PassedMint
  <2> QED
    BY <2>1, <2>2
<1> QED
  BY <1>1, Invariance, PTL

(* Restarts do not stretch the life of a token: no execution begins outside *)
(* the interval from its mint to its exp, which MaxTTL bounds.              *)
THEOREM ReplayWindow == Spec => []ReplayWindowBounded
<1>1. IInv => ReplayWindowBounded
  <2> SUFFICES ASSUME IInv, NEW i \in DOMAIN log
               PROVE  LET g == grants[log[i].jti]
                      IN  /\ g.at <= log[i].at
                          /\ log[i].at <= g.payload.exp
                          /\ log[i].at <= g.at + MaxTTL
    BY DEF ReplayWindowBounded
  <2> DEFINE g == grants[log[i].jti]
  <2>1. /\ log[i].jti \in DOMAIN grants
        /\ g.at <= log[i].at
        /\ log[i].at <= g.payload.exp
    BY DEF IInv, LogInv
  <2>2. g.payload.exp <= g.at + MaxTTL
    BY <2>1 DEF IInv, GrantsInv, PassedMint
  <2>3. /\ log[i].at \in Nat
        /\ g.payload.exp \in Nat
        /\ g.at + MaxTTL \in Nat
    BY <2>1, EntryTyped, GrantTyped, MaxTTLAssumption DEF IInv
  <2> QED
    BY <2>1, <2>2, <2>3
<1> QED
  BY <1>1, Invariance, PTL

(* Racing presentations of one signature yield one token per life of the    *)
(* process, although the token is made after the lock is released.          *)
THEOREM OneTokenPerLife == Spec => []SignatureExchangedOncePerLife
<1>1. IInv => SignatureExchangedOncePerLife
  BY DEF IInv
<1> QED
  BY <1>1, Invariance, PTL

(* The only way to lose a signature is to have signed args that the JWT     *)
(* encoder rejects.                                                         *)
THEOREM NothingElseLosesSignatures == Spec => []SignatureLostOnlyToEncoding
<1>1. IInv => SignatureLostOnlyToEncoding
  BY DEF IInv
<1> QED
  BY <1>1, Invariance, PTL

-----------------------------------------------------------------------------
(* The vault implements the delegation contract, restarts included.         *)

(* A form has at most one token in each life, so what the contract sees of  *)
(* a token tells which one it is.                                           *)
LEMMA SameCredential ==
    ASSUME IInv, NEW i \in DOMAIN grants, NEW j \in DOMAIN grants,
           CredentialOf(i) = CredentialOf(j)
    PROVE  i = j
  BY DEF CredentialOf, IInv, SignatureExchangedOncePerLife

(* A fresh vault is a fresh delegation.                                     *)
LEMMA ContractInit == Init => Contract!Init
<1> SUFFICES ASSUME Init PROVE Contract!Init
  OBVIOUS
<1>1. [i \in DOMAIN log |->
          [credential |-> CredentialOf(log[i].jti), life |-> log[i].epoch,
           action |-> log[i].action]] = << >>
  BY DEF Init, history
<1> QED
  BY <1>1 DEF Init, memory, history, Contract!Init

(* What the contract sees of the grants when one is added.                  *)
LEMMA IssuedGrows ==
    ASSUME IInv, NEW t \in Threads, MintEncode(t)
    PROVE  LET k == [consent |-> Canonical(call[t].payload), life |-> epoch]
           IN  /\ \A j \in DOMAIN grants : CredentialOf(j)' = CredentialOf(j)
               /\ {CredentialOf(j) : j \in DOMAIN grants}' =
                    {CredentialOf(j) : j \in DOMAIN grants} \cup {k}
               /\ k \notin {CredentialOf(j) : j \in DOMAIN grants}
<1> DEFINE k == [consent |-> Canonical(call[t].payload), life |-> epoch]
           new == Len(grants) + 1
           Cred(g) == [consent |-> Canonical(g.payload), life |-> g.epoch]
           seen == {Cred(grants[j]) : j \in DOMAIN grants}
<1>0. TypeOK /\ EncodeCallsInv
  BY DEF IInv
<1>1. /\ DOMAIN grants' = DOMAIN grants \cup {new}
      /\ \A j \in DOMAIN grants : grants'[j] = grants[j]
      /\ grants'[new].payload = call[t].payload
      /\ grants'[new].epoch = epoch
  BY <1>0, MintEncodeGrants
<1>2. Cred(grants'[new]) = k
  BY <1>1
<1>3. \A j \in DOMAIN grants : Cred(grants'[j]) = Cred(grants[j])
  BY <1>1
<1>4. \A j \in DOMAIN grants : CredentialOf(j)' = CredentialOf(j)
  BY <1>1 DEF CredentialOf
<1>5. {Cred(grants'[j]) : j \in DOMAIN grants'} = seen \cup {k}
  <2> HIDE DEF Cred, k, new
  <2> QED
    BY <1>1, <1>2, <1>3
<1>6. k \notin seen
  BY <1>0 DEF MintEncode, EncodeCallsInv
<1> QED
  BY <1>4, <1>5, <1>6 DEF CredentialOf

(* Every step of the vault is a step of the contract or a stutter.          *)
LEMMA ContractStep == IInv /\ [Next]_vars => [Contract!Next]_(Contract!vars)
<1> SUFFICES ASSUME IInv, [Next]_vars PROVE [Contract!Next]_(Contract!vars)
  OBVIOUS
<1> USE DEF memory, history
<1> DEFINE approvedC  == {Canonical(p) : p \in approvals}
           issuedC    == {CredentialOf(j) : j \in DOMAIN grants}
           redeemedC  == {CredentialOf(j) : j \in consumed}
           lifeC      == [issuer |-> epoch, executor |-> epoch]
           Seen(i)    == [credential |-> CredentialOf(log[i].jti),
                          life       |-> log[i].epoch,
                          action     |-> log[i].action]
           seenLog    == [i \in DOMAIN log |-> Seen(i)]
<1>0. /\ TypeOK /\ ApprovalsInv /\ MintCallsInv /\ EncodeCallsInv
      /\ TokenCallsInv /\ PerformCallsInv /\ GrantsInv /\ LogInv
  BY DEF IInv
<1>1. ASSUME UNCHANGED <<consumed, epoch, approvals, grants, log>>
      PROVE  UNCHANGED Contract!vars
  BY <1>1 DEF Contract!vars, CredentialOf
<1>2. ASSUME NEW a \in Actions, NEW r \in RarTypes, NEW c \in Contexts,
             NEW f \in BOOLEAN, NEW ttl \in TTLs, Sign(a, r, c, f, ttl)
      PROVE  Contract!Next
  <2> DEFINE p == SignAuthorizationDetails(a, r, c, f, UserSecret, ttl, now)
  <2>1. Canonical(p) \in SignableForms
    BY <1>0 DEF TypeOK, Canonical, SignAuthorizationDetails, SignableForms
  <2>2. approvedC' = approvedC \cup {Canonical(p)}
    BY <1>2 DEF Sign
  <2>3. UNCHANGED <<issuedC, redeemedC, lifeC, seenLog>>
    BY <1>2 DEF Sign, CredentialOf
  <2>4. Contract!Approve(Canonical(p))
    BY <2>2, <2>3 DEF Contract!Approve
  <2> QED
    BY <2>1, <2>4 DEF Contract!Next
<1>3. ASSUME NEW t \in Threads, MintEncode(t) PROVE Contract!Next
  <2> DEFINE c == Canonical(call[t].payload)
             k == [consent |-> c, life |-> epoch]
  <2>1. c \in approvedC /\ c \in SignableForms
    BY <1>0, <1>3 DEF MintEncode, MintCallsInv, PassedMint, ApprovalsInv
  <2>2. /\ \A j \in DOMAIN grants : CredentialOf(j)' = CredentialOf(j)
        /\ issuedC' = issuedC \cup {k}
        /\ k \notin issuedC
    BY <1>3, IssuedGrows
  <2>3. UNCHANGED <<consumed, log, epoch, approvals>>
    BY <1>3 DEF MintEncode
  <2>4. redeemedC' = redeemedC
    BY <1>0, <2>2, <2>3 DEF GrantsInv
  <2>5. seenLog' = seenLog
    BY <1>0, <2>2, <2>3 DEF LogInv
  <2>6. UNCHANGED <<approvedC, lifeC>>
    BY <2>3
  <2>7. Contract!Exchange(c)
    BY <2>1, <2>2, <2>4, <2>5, <2>6 DEF Contract!Exchange, Contract!CredentialFor
  <2> QED
    BY <2>1, <2>7 DEF Contract!Next
<1>4. ASSUME NEW t \in Threads, ConsumeRecord(t) PROVE Contract!Next
  <2> DEFINE jti == call[t].token.jti
             k == CredentialOf(jti)
  <2>1. jti \in DOMAIN grants /\ jti \notin consumed
    BY <1>0, <1>4, BoundFacts DEF ConsumeRecord
  <2>2. k \in issuedC
    BY <2>1
  <2>3. k \notin redeemedC
    <3>1. consumed \subseteq DOMAIN grants
      BY <1>0 DEF GrantsInv
    <3> QED
      BY <2>1, <3>1, SameCredential
  <2>4. redeemedC' = redeemedC \cup {k}
    BY <1>4 DEF ConsumeRecord, CredentialOf
  <2>5. UNCHANGED <<approvedC, issuedC, lifeC, seenLog>>
    BY <1>4 DEF ConsumeRecord, CredentialOf
  <2>6. Contract!Redeem(k)
    BY <2>2, <2>3, <2>4, <2>5 DEF Contract!Redeem, Contract!Honoured
  <2> QED
    BY <2>2, <2>6 DEF Contract!Next
<1>5. ASSUME NEW t \in Threads, Perform(t) PROVE Contract!Next
  <2> DEFINE jti    == call[t].token.jti
             action == call[t].action
             k      == CredentialOf(jti)
             new    == Len(log) + 1
  <2>1. /\ jti \in consumed /\ jti \in DOMAIN grants
        /\ SameAction(grants[jti].payload.action, action)
        /\ \A i \in DOMAIN log : log[i].epoch = epoch => log[i].jti # jti
    BY <1>0, <1>5 DEF Perform, TokenCallsInv, PerformCallsInv
  <2>2. k \in redeemedC /\ k \in issuedC
    BY <2>1
  <2>3. action \in DOMAIN ValueOf
    BY <1>0, <1>5, ValueAssumption, CallTyped DEF Perform
  <2>4. ValueOf[action] = ValueOf[k.consent.action]
    BY <2>1 DEF SameAction, CredentialOf, Canonical
  <2>5. \A i \in DOMAIN log : log[i].epoch = epoch => CredentialOf(log[i].jti) # k
    BY <1>0, <2>1, SameCredential DEF LogInv
  <2>6. /\ DOMAIN log' = DOMAIN log \cup {new}
        /\ new \notin DOMAIN log
        /\ \A i \in DOMAIN log : log'[i] = log[i]
        /\ log'[new].jti = jti /\ log'[new].action = action
        /\ log'[new].epoch = epoch
    BY <1>0, <1>5, PerformLog
  <2>7. UNCHANGED <<consumed, epoch, approvals, grants>>
    BY <1>5 DEF Perform
  <2>8. seenLog' = Append(seenLog, [credential |-> k, life |-> epoch,
                                    action |-> action])
    <3> DEFINE e == [credential |-> k, life |-> epoch, action |-> action]
               n == Len(log)
    <3>1. n \in Nat /\ DOMAIN log = 1..n
      BY <1>0 DEF TypeOK
    <3>2. seenLog = [i \in 1..n |-> seenLog[i]]
      BY <3>1
    <3>3. seenLog' = [i \in 1..n \cup {n + 1} |->
                        IF i = n + 1 THEN e ELSE seenLog[i]]
      BY <2>6, <2>7, <3>1 DEF CredentialOf
    <3>4. [i \in 1..n \cup {n + 1} |->
             IF i = n + 1 THEN e ELSE seenLog[i]] = Append(seenLog, e)
      <4> HIDE DEF e, n, seenLog
      <4> QED
        BY <3>1, <3>2, MappedAppend
    <3> QED
      <4> HIDE DEF e, n, seenLog
      <4>1. seenLog' = Append(seenLog, e)
        BY <3>3, <3>4
      <4> QED
        BY <4>1 DEF e
  <2>9. \A i \in DOMAIN seenLog :
            ~(seenLog[i].credential = k /\ seenLog[i].life = epoch)
    BY <2>5
  <2>10. UNCHANGED <<approvedC, issuedC, redeemedC, lifeC>>
    BY <2>7 DEF CredentialOf
  <2>11. lifeC.executor = epoch
    OBVIOUS
  <2>12. ASSUME NEW x, NEW y, x = k, y = action
         PROVE  Contract!Perform(x, y)
    BY <2>12, <2>2, <2>4, <2>8, <2>9, <2>10, <2>11, Zenon
    DEF Contract!Perform, Contract!Performed
  <2>13. \E x \in issuedC : \E y \in DOMAIN ValueOf : Contract!Perform(x, y)
    <3> HIDE DEF k, action, issuedC
    <3> QED
      BY <2>2, <2>3, <2>12, Zenon
  <2> QED
    BY <2>13, Zenon DEF Contract!Next
<1>6. ASSUME Restart PROVE Contract!Next
  <2> DEFINE both == {"issuer", "executor"}
  <2>1. lifeC' = [issuer   |-> lifeC.issuer + (IF "issuer" \in both THEN 1 ELSE 0),
                  executor |-> lifeC.executor + (IF "executor" \in both THEN 1 ELSE 0)]
    BY <1>6 DEF Restart
  <2>2. redeemedC' = {}
    BY <1>6 DEF Restart
  <2>3. UNCHANGED <<approvedC, issuedC, seenLog>>
    BY <1>6 DEF Restart, CredentialOf
  <2>4. Contract!Restart(both)
    BY <2>1, <2>2, <2>3 DEF Contract!Restart
  <2> QED
    BY <2>4 DEF Contract!Next
<1>7. ASSUME NEW t \in Threads,
             \/ \E p \in Presentable : MintRefuse(t, p) \/ MintVerify(t, p)
             \/ MintReplay(t) \/ MintRecord(t) \/ MintEncodeFails(t)
             \/ \E tok \in Held, a \in Actions :
                   ConsumeRefuse(t, tok, a) \/ ConsumeCheck(t, tok, a)
             \/ ConsumeRebuff(t)
      PROVE  UNCHANGED Contract!vars
  BY <1>1, <1>7
  DEF MintRefuse, MintVerify, MintReplay, MintRecord, MintEncodeFails,
      ConsumeRefuse, ConsumeCheck, ConsumeRebuff
<1>8. CASE Tick \/ UNCHANGED vars
  BY <1>1, <1>8 DEF Tick, vars
<1> QED
  BY <1>2, <1>3, <1>4, <1>5, <1>6, <1>7, <1>8 DEF Next, MintNext, ConsumeNext

(* Everything the vault and its dispatcher do, across any restarts, is a    *)
(* run of the delegation contract with self-contained credentials: tokens   *)
(* of an earlier life are honoured, once in each life.                      *)
THEOREM ImplementsContract == Spec => KeepsContract
  BY InitIInv, NextIInv, ContractInit, ContractStep, PTL
  DEF Spec, KeepsContract, Contract!Spec
=============================================================================
