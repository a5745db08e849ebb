------------------------- MODULE InProcessVaultProofs -------------------------
(***************************************************************************)
(* Proofs about the Tier 1 vault for every number of threads, approvals,   *)
(* credentials and restarts, every clock resolution and every max TTL.     *)
(***************************************************************************)
EXTENDS InProcessVault, AuthorizationProofs

(* Callers present well-formed payloads.                                    *)
LEMMA PresentableTyped ==
    ASSUME approvals \subseteq Payloads, NEW q \in Presentable
    PROVE  q \in Payloads
<1>1. HeldSignatures \subseteq Signatures
  BY CanonicalTyped DEF HeldSignatures, Signatures, Hmac
<1>2. ClaimableExps \subseteq Nat
  <2>1. ASSUME NEW p \in approvals, NEW late \in {0, MaxTTL}
        PROVE  p.exp + late \in Nat
    BY <2>1, MaxTTLAssumption DEF Payloads
  <2> QED
    BY <2>1 DEF ClaimableExps
<1> QED
  BY <1>1, <1>2 DEF Presentable, Payloads

-----------------------------------------------------------------------------
(* Type correctness.                                                        *)

(* A fresh vault is well-typed.                                             *)
LEMMA InitTyped == Init => TypeOK
  BY VaultAssumption
  DEF Init, TypeOK, Calls, Idle, Outcomes, Jtis, memory, history

(* Returning to the caller keeps a thread's state well-typed.               *)
LEMMA ReturnTyped ==
    ASSUME TypeOK, NEW t \in Threads, NEW result \in Outcomes,
           Return(t, result)
    PROVE  call' \in [Threads -> Calls] /\ outcome' \in Outcomes
  BY DEF Return, TypeOK, Calls, Idle

(* Every step of Next, and stuttering, keeps every variable in its type.    *)
LEMMA NextTyped == TypeOK /\ [Next]_vars => TypeOK'
<1> SUFFICES ASSUME TypeOK, [Next]_vars PROVE TypeOK'
  OBVIOUS
<1> USE DEF memory, history, ForgetAll, AlreadyExchanged
<1>1. ASSUME NEW a \in Actions, NEW r \in RarTypes, NEW c \in Contexts,
             NEW ttl \in TTLs, Sign(a, r, c, ttl)
      PROVE  TypeOK'
  <2>1. approvals' \subseteq Payloads
    <3>1. now \in Nat /\ ttl \in Nat /\ Secret \in Keys
      BY VaultAssumption DEF TypeOK
    <3>2. SignAuthorizationDetails(a, r, c, FALSE, Secret, ttl, now) \in Payloads
      BY <3>1, SignTyped
    <3> QED
      BY <1>1, <3>2 DEF Sign, TypeOK
  <2> QED
    BY <1>1, <2>1 DEF Sign, TypeOK
<1>2. ASSUME NEW t \in Threads, NEW p \in Presentable, MintRefuse(t, p)
      PROVE  TypeOK'
  <2>1. MintRefusal(p) \in Outcomes
    BY DEF MintRefusal, Outcomes, VaultErrors
  <2>2. call' \in [Threads -> Calls] /\ outcome' \in Outcomes
    BY <1>2, <2>1, ReturnTyped DEF MintRefuse
  <2> QED
    BY <1>2, <2>2 DEF MintRefuse, TypeOK
<1>3. ASSUME NEW t \in Threads, NEW p \in Presentable, MintVerify(t, p)
      PROVE  TypeOK'
  <2>1. p \in Payloads
    BY PresentableTyped DEF TypeOK
  <2>2. now \in Nat
    BY VaultAssumption DEF TypeOK
  <2>3. [op |-> "mint", payload |-> p, at |-> now] \in Calls
    BY <2>1, <2>2 DEF Calls
  <2>4. call' \in [Threads -> Calls]
    BY <1>3, <2>3 DEF MintVerify, TypeOK
  <2> QED
    BY <1>3, <2>4 DEF MintVerify, TypeOK
<1>4. ASSUME NEW t \in Threads, MintReplay(t) PROVE TypeOK'
  <2>1. call' \in [Threads -> Calls] /\ outcome' \in Outcomes
    BY <1>4, ReturnTyped DEF MintReplay, Outcomes, VaultErrors
  <2> QED
    BY <1>4, <2>1 DEF MintReplay, TypeOK
<1>5. ASSUME NEW t \in Threads, MintRecord(t) PROVE TypeOK'
  <2>1. call' \in [Threads -> Calls] /\ outcome' \in Outcomes
    BY <1>5, ReturnTyped DEF MintRecord, Outcomes
  <2>2. call[t].payload \in Payloads /\ call[t].at \in Nat
    BY <1>5 DEF MintRecord, TypeOK, Calls, Idle
  <2>3. Canonical(call[t].payload) \in CanonicalForms
    BY <2>2, CanonicalTyped
  <2>4. Len(grants) + 1 \in Jtis
    BY <1>5, VaultAssumption DEF MintRecord, TypeOK, Jtis
  <2>5. [payload |-> call[t].payload, at |-> call[t].at, epoch |-> epoch] \in Grants
    BY <2>2 DEF Grants, TypeOK
  <2>6. grants' \in Seq(Grants) /\ Len(grants') <= MaxMints
    BY <1>5, <2>5, VaultAssumption DEF MintRecord, TypeOK
  <2>7. /\ DOMAIN issued' \subseteq Jtis
        /\ \A j \in DOMAIN issued' : issued'[j] \in Payloads
    BY <1>5, <2>2, <2>4 DEF MintRecord, TypeOK
  <2>8. consumed_signatures' \subseteq CanonicalForms
    BY <1>5, <2>3 DEF MintRecord, TypeOK
  <2> QED
    BY <1>5, <2>1, <2>6, <2>7, <2>8 DEF MintRecord, TypeOK
<1>6. ASSUME NEW t \in Threads, NEW jti \in Jtis \cup {MalformedJti},
             NEW a \in Actions, ConsumeRefuse(t, jti, a)
      PROVE  TypeOK'
  <2>1. ConsumeRefusal(jti, a) \in Outcomes
    BY DEF ConsumeRefusal, Outcomes, VaultErrors
  <2>2. call' \in [Threads -> Calls] /\ outcome' \in Outcomes
    BY <1>6, <2>1, ReturnTyped DEF ConsumeRefuse
  <2> QED
    BY <1>6, <2>2 DEF ConsumeRefuse, TypeOK
<1>7. ASSUME NEW t \in Threads, NEW jti \in Jtis \cup {MalformedJti},
             NEW a \in Actions, Consume(t, jti, a)
      PROVE  TypeOK'
  <2>1. jti \in Jtis
    BY <1>7 DEF Consume, Consumable, TypeOK
  <2>2. [op |-> "perform", jti |-> jti, action |-> a, at |-> now] \in Calls
    BY <2>1, VaultAssumption DEF Calls, TypeOK
  <2>3. call' \in [Threads -> Calls]
    BY <1>7, <2>2 DEF Consume, TypeOK
  <2> QED
    BY <1>7, <2>1, <2>3 DEF Consume, TypeOK
<1>8. ASSUME NEW t \in Threads, Perform(t) PROVE TypeOK'
  <2>1. call' \in [Threads -> Calls] /\ outcome' \in Outcomes
    BY <1>8, ReturnTyped DEF Perform, Outcomes
  <2>2. /\ call[t].jti \in Jtis
        /\ call[t].action \in Actions
        /\ call[t].at \in Nat
    BY <1>8 DEF Perform, TypeOK, Calls, Idle
  <2>3. [jti |-> call[t].jti, action |-> call[t].action,
         at |-> call[t].at, epoch |-> epoch] \in Entries
    BY <2>2 DEF Entries, TypeOK
  <2>4. log' \in Seq(Entries)
    BY <1>8, <2>3 DEF Perform, TypeOK
  <2> QED
    BY <1>8, <2>1, <2>4 DEF Perform, TypeOK
<1>9. CASE Tick
  BY <1>9, VaultAssumption DEF Tick, TypeOK
<1>10. CASE Restart
  <2>1. epoch' \in 0..MaxRestarts
    BY <1>10, VaultAssumption DEF Restart, TypeOK
  <2>2. call' \in [Threads -> Calls]
    BY <1>10 DEF Restart, Calls, Idle
  <2> QED
    BY <1>10, <2>1, <2>2 DEF Restart, TypeOK
<1>11. CASE UNCHANGED vars
  BY <1>11 DEF vars, TypeOK
<1> QED
  BY <1>1, <1>2, <1>3, <1>4, <1>5, <1>6, <1>7, <1>8, <1>9, <1>10, <1>11 DEF Next

(* The vault's memory, the calls in progress and the histories always have  *)
(* their types.                                                             *)
THEOREM TypeCorrect == Spec => []TypeOK
  BY InitTyped, NextTyped, PTL DEF Spec

-----------------------------------------------------------------------------
(* Facts the invariance proof uses more than once.                          *)

(* Approvals and the clock only grow.                                       *)
LEMMA HistoryGrows ==
    ASSUME TypeOK, [Next]_vars
    PROVE  approvals \subseteq approvals' /\ now \in Nat /\ now' \in Nat /\ now <= now'
<1>1. now \in Nat
  BY VaultAssumption DEF TypeOK
<1>2. approvals \subseteq approvals' /\ now' \in {now, now + 1}
  BY DEF Next, Sign, MintRefuse, MintVerify, MintReplay, MintRecord,
         ConsumeRefuse, Consume, Perform, Tick, Restart, vars, history
<1> QED
  BY <1>1, <1>2

(* A payload that passed mint's checks has passed them for good.            *)
LEMMA PassedMintStable ==
    ASSUME TypeOK, [Next]_vars, NEW p, NEW at \in Nat, PassedMint(p, at)
    PROVE  PassedMint(p, at)'
<1>1. approvals \subseteq approvals' /\ now \in Nat /\ now' \in Nat /\ now <= now'
  BY HistoryGrows
<1> QED
  BY <1>1 DEF PassedMint, Approved

(* A presented payload whose signature verifies carries an approved form.   *)
LEMMA VerifiedIsApproved ==
    ASSUME NEW p \in Presentable, SignatureVerifies(p, Secret)
    PROVE  Approved(p)
<1>1. PICK k \in Keys, q \in approvals : p.signature = Hmac(k, Canonical(q))
  BY DEF Presentable, HeldSignatures
<1>2. Canonical(q) = Canonical(p)
  BY <1>1 DEF SignatureVerifies, Hmac
<1> QED
  BY <1>2 DEF Approved

(* A call past the checks of mint holds a payload that passed them.         *)
LEMMA MintCallFacts ==
    ASSUME TypeOK, CallsInv, NEW t \in Threads, call[t].op = "mint"
    PROVE  /\ call[t].payload \in Payloads
           /\ call[t].at \in Nat
           /\ PassedMint(call[t].payload, call[t].at)
  BY DEF TypeOK, CallsInv, Calls, Idle

(* A call about to execute holds the credential it consumed in this life.   *)
LEMMA PerformCallFacts ==
    ASSUME IInv, NEW t \in Threads, call[t].op = "perform"
    PROVE  /\ call[t].jti \in consumed
           /\ call[t].jti \in DOMAIN issued
           /\ call[t].jti \in DOMAIN grants
           /\ grants[call[t].jti].epoch = epoch
           /\ SameAction(grants[call[t].jti].payload.action, call[t].action)
           /\ grants[call[t].jti].at <= call[t].at
           /\ call[t].at <= grants[call[t].jti].payload.exp
           /\ \A i \in DOMAIN log : log[i].jti # call[t].jti
           /\ \A u \in Threads \ {t} :
                call[u].op = "perform" => call[u].jti # call[t].jti
  BY DEF IInv, CallsInv, GrantsInv

(* Elements of grants are well-typed.                                       *)
LEMMA GrantTyped ==
    ASSUME TypeOK, NEW j \in DOMAIN grants
    PROVE  /\ grants[j] \in Grants
           /\ grants[j].payload \in Payloads
           /\ grants[j].payload.exp \in Nat
           /\ grants[j].at \in Nat
           /\ grants[j].epoch \in Nat
<1>1. grants[j] \in Grants
  BY ElementOfSeq DEF TypeOK
<1> QED
  BY <1>1 DEF Grants, Payloads

(* Elements of the log are well-typed.                                      *)
LEMMA EntryTyped ==
    ASSUME TypeOK, NEW i \in DOMAIN log
    PROVE  log[i] \in Entries /\ log[i].at \in Nat /\ log[i].epoch \in Nat
<1>1. log[i] \in Entries
  BY ElementOfSeq DEF TypeOK
<1> QED
  BY <1>1 DEF Entries

(* Recording a mint appends one grant and leaves the earlier ones.          *)
LEMMA MintRecordGrants ==
    ASSUME TypeOK, NEW t \in Threads, MintRecord(t)
    PROVE  LET new == Len(grants) + 1
           IN  /\ new \notin DOMAIN grants
               /\ DOMAIN grants' = DOMAIN grants \cup {new}
               /\ \A j \in DOMAIN grants : grants'[j] = grants[j]
               /\ grants'[new] = [payload |-> call[t].payload,
                                  at |-> call[t].at, epoch |-> epoch]
<1>1. call[t].payload \in Payloads /\ call[t].at \in Nat
  BY DEF MintRecord, TypeOK, Calls, Idle
<1>2. [payload |-> call[t].payload, at |-> call[t].at, epoch |-> epoch] \in Grants
  BY <1>1 DEF Grants, TypeOK
<1> QED
  BY <1>2, Appended DEF TypeOK, MintRecord

(* Executing a command appends one entry and leaves the earlier ones.       *)
LEMMA PerformLog ==
    ASSUME TypeOK, NEW t \in Threads, Perform(t)
    PROVE  LET new == Len(log) + 1
           IN  /\ new \notin DOMAIN log
               /\ DOMAIN log' = DOMAIN log \cup {new}
               /\ \A i \in DOMAIN log : log'[i] = log[i]
               /\ log'[new] = [jti |-> call[t].jti, action |-> call[t].action,
                               at |-> call[t].at, epoch |-> epoch]
<1>1. /\ call[t].jti \in Jtis
      /\ call[t].action \in Actions
      /\ call[t].at \in Nat
  BY DEF Perform, TypeOK, Calls, Idle
<1>2. [jti |-> call[t].jti, action |-> call[t].action,
       at |-> call[t].at, epoch |-> epoch] \in Entries
  BY <1>1 DEF Entries, TypeOK
<1> QED
  BY <1>2, Appended DEF TypeOK, Perform

-----------------------------------------------------------------------------
(* Each part of the inductive invariant is preserved by every step.         *)

(* What is known of a call in progress stays true until its next step.      *)
LEMMA CallsStep == IInv /\ [Next]_vars => CallsInv'
<1> SUFFICES ASSUME IInv, [Next]_vars PROVE CallsInv'
  OBVIOUS
<1> USE DEF memory, history, ForgetAll, AlreadyExchanged
<1>0. TypeOK /\ CallsInv /\ GrantsInv /\ LogInv /\ TypeOK'
  BY NextTyped DEF IInv
<1>1. ASSUME NEW u \in Threads, call'[u] = call[u], call[u].op = "mint"
      PROVE  PassedMint(call[u].payload, call[u].at)'
  <2>1. call[u].at \in Nat /\ PassedMint(call[u].payload, call[u].at)
    BY <1>0, <1>1, MintCallFacts
  <2>2. approvals \subseteq approvals' /\ now \in Nat /\ now' \in Nat /\ now <= now'
    BY <1>0, HistoryGrows
  <2> QED
    BY <1>1, <2>1, <2>2 DEF PassedMint, Approved
<1>2. ASSUME UNCHANGED <<call, consumed, grants, log>> PROVE CallsInv'
  BY <1>0, <1>1, <1>2 DEF CallsInv
<1>3. ASSUME NEW t \in Threads, call' = [call EXCEPT ![t] = Idle],
             UNCHANGED <<consumed, grants, log>>
      PROVE  CallsInv'
  BY <1>0, <1>1, <1>3 DEF CallsInv, TypeOK, Idle
<1>4. ASSUME NEW t \in Threads, NEW p \in Presentable, MintVerify(t, p)
      PROVE  CallsInv'
  <2>1. Approved(p) /\ now <= p.exp /\ p.exp <= now + MaxTTL
    <3>1. p.exp \in Nat /\ now \in Nat
      BY <1>0, PresentableTyped, VaultAssumption DEF TypeOK, Payloads
    <3> QED
      BY <1>4, <3>1, VerifiedIsApproved, MaxTTLAssumption
      DEF MintVerify, Mintable, LapsedAtMint, TooLongAtMint
  <2>2. PassedMint(p, now)'
    BY <1>0, <1>4, <2>1, VaultAssumption
    DEF MintVerify, PassedMint, Approved, TypeOK
  <2>3. call'[t] = [op |-> "mint", payload |-> p, at |-> now]
    BY <1>0, <1>4 DEF MintVerify, TypeOK
  <2>4. \A u \in Threads \ {t} : call'[u] = call[u]
    BY <1>0, <1>4 DEF MintVerify, TypeOK
  <2>5. now' = now /\ UNCHANGED <<consumed, grants, log>>
    BY <1>4 DEF MintVerify
  <2>6. PassedMint(call[t].payload, call[t].at)'
    BY <2>2, <2>3, <2>5 DEF PassedMint, Approved
  <2> QED
    BY <1>0, <1>1, <2>3, <2>4, <2>5, <2>6 DEF CallsInv
<1>5. ASSUME NEW t \in Threads, MintRecord(t) PROVE CallsInv'
  <2>1. /\ call'[t] = Idle
        /\ \A u \in Threads \ {t} : call'[u] = call[u]
        /\ UNCHANGED <<consumed, log>>
    BY <1>0, <1>5 DEF MintRecord, Return, TypeOK
  <2>2. \A j \in consumed : grants'[j] = grants[j]
    BY <1>0, <1>5, MintRecordGrants DEF GrantsInv
  <2> QED
    BY <1>0, <1>1, <2>1, <2>2 DEF CallsInv, Idle
<1>6. ASSUME NEW t \in Threads, NEW jti \in Jtis \cup {MalformedJti},
             NEW a \in Actions, Consume(t, jti, a)
      PROVE  CallsInv'
  <2>1. /\ call'[t] = [op |-> "perform", jti |-> jti, action |-> a, at |-> now]
        /\ \A u \in Threads \ {t} : call'[u] = call[u]
        /\ consumed' = consumed \cup {jti}
        /\ jti \notin consumed
        /\ UNCHANGED <<grants, log>>
    BY <1>0, <1>6 DEF Consume, Consumable, TypeOK
  <2>2. /\ jti \in DOMAIN grants
        /\ issued[jti] = grants[jti].payload
        /\ grants[jti].epoch = epoch
    BY <1>0, <1>6 DEF Consume, Consumable, GrantsInv
  <2>3. SameAction(grants[jti].payload.action, a)
    BY <1>6, <2>2 DEF Consume, Consumable
  <2>4. grants[jti].at <= now
    BY <1>0, <2>2 DEF GrantsInv, PassedMint
  <2>5. now <= grants[jti].payload.exp
    <3>1. now \in Nat /\ issued[jti] \in Payloads
      BY <1>0, <1>6, VaultAssumption DEF TypeOK, Consume, Consumable
    <3> QED
      BY <1>6, <2>2, <3>1 DEF Consume, Consumable, LapsedAtConsume, Payloads
  <2>6. \A i \in DOMAIN log : log[i].jti # jti
    BY <1>0, <2>1, <2>2 DEF LogInv
  <2>7. \A u \in Threads \ {t} : call[u].op = "perform" => call[u].jti # jti
    BY <1>0, <2>1 DEF CallsInv
  <2> QED
    BY <1>0, <1>1, <2>1, <2>3, <2>4, <2>5, <2>6, <2>7 DEF CallsInv
<1>7. ASSUME NEW t \in Threads, Perform(t) PROVE CallsInv'
  <2>1. /\ call'[t] = Idle
        /\ \A u \in Threads \ {t} : call'[u] = call[u]
        /\ UNCHANGED <<consumed, grants>>
    BY <1>0, <1>7 DEF Perform, Return, TypeOK
  <2>2. \A u \in Threads \ {t} :
            call[u].op = "perform" =>
               \A i \in DOMAIN log' : log'[i].jti # call[u].jti
    BY <1>0, <1>7, PerformLog DEF CallsInv, Perform
  <2> QED
    BY <1>0, <1>1, <2>1, <2>2 DEF CallsInv, Idle
<1>8. CASE Restart
  BY <1>8 DEF Restart, CallsInv, Idle
<1>9. CASE Tick \/ UNCHANGED vars
  BY <1>2, <1>9 DEF Tick, vars
<1>10. ASSUME NEW a \in Actions, NEW r \in RarTypes, NEW c \in Contexts,
              NEW ttl \in TTLs, Sign(a, r, c, ttl)
       PROVE  CallsInv'
  BY <1>2, <1>10 DEF Sign
<1>11. ASSUME NEW t \in Threads,
              \/ \E p \in Presentable : MintRefuse(t, p)
              \/ MintReplay(t)
              \/ \E jti \in Jtis \cup {MalformedJti}, a \in Actions :
                    ConsumeRefuse(t, jti, a)
       PROVE  CallsInv'
  BY <1>3, <1>11 DEF MintRefuse, MintReplay, ConsumeRefuse, Return
<1> QED
  BY <1>4, <1>5, <1>6, <1>7, <1>8, <1>9, <1>10, <1>11 DEF Next

(* The ghost grants keep matching the vault's memory.                       *)
LEMMA GrantsStep == IInv /\ [Next]_vars => GrantsInv'
<1> SUFFICES ASSUME IInv, [Next]_vars PROVE GrantsInv'
  OBVIOUS
<1> USE DEF memory, history, ForgetAll, AlreadyExchanged
<1> DEFINE StillPassed(p, at) ==
              /\ \E q \in approvals' : Canonical(q) = Canonical(p)
              /\ at <= now'
              /\ at <= p.exp
              /\ p.exp <= at + MaxTTL
<1>0. TypeOK /\ CallsInv /\ GrantsInv
  BY DEF IInv
<1>1. ASSUME NEW p, NEW at \in Nat, PassedMint(p, at) PROVE StillPassed(p, at)
  <2>1. approvals \subseteq approvals' /\ now \in Nat /\ now' \in Nat /\ now <= now'
    BY <1>0, HistoryGrows
  <2> QED
    BY <1>1, <2>1 DEF PassedMint, Approved
<1>a. \A j \in DOMAIN grants : StillPassed(grants[j].payload, grants[j].at)
  <2>1. \A j \in DOMAIN grants : grants[j].at \in Nat
    BY <1>0, GrantTyped
  <2>2. \A j \in DOMAIN grants : PassedMint(grants[j].payload, grants[j].at)
    BY <1>0 DEF GrantsInv
  <2> QED
    BY <1>1, <2>1, <2>2
<1>b. ASSUME \A j \in DOMAIN grants' : StillPassed(grants'[j].payload, grants'[j].at)
      PROVE  \A j \in DOMAIN grants' : PassedMint(grants[j].payload, grants[j].at)'
  BY <1>b DEF PassedMint, Approved
<1> HIDE DEF StillPassed
<1>2. ASSUME UNCHANGED <<memory, grants, epoch>> PROVE GrantsInv'
  BY <1>0, <1>a, <1>b, <1>2 DEF GrantsInv
<1>3. ASSUME NEW t \in Threads, MintRecord(t) PROVE GrantsInv'
  <2> DEFINE new == Len(grants) + 1
             p == call[t].payload
  <2>1. /\ DOMAIN grants' = DOMAIN grants \cup {new}
        /\ new \notin DOMAIN grants
        /\ \A j \in DOMAIN grants : grants'[j] = grants[j]
        /\ grants'[new] = [payload |-> p, at |-> call[t].at, epoch |-> epoch]
    BY <1>0, <1>3, MintRecordGrants
  <2>2. /\ epoch' = epoch /\ epoch \in Nat
        /\ consumed' = consumed
        /\ consumed_signatures' = consumed_signatures \cup {Canonical(p)}
        /\ DOMAIN issued' = DOMAIN issued \cup {new}
        /\ \A j \in DOMAIN issued' : issued'[j] = IF j = new THEN p ELSE issued[j]
    BY <1>0, <1>3 DEF MintRecord, TypeOK
  <2>3. StillPassed(p, call[t].at)
    BY <1>0, <1>1, <1>3, MintCallFacts DEF MintRecord
  <2>4. \A j \in DOMAIN grants' :
            /\ grants'[j].epoch <= epoch'
            /\ grants'[j].epoch = epoch' =>
                 Canonical(grants'[j].payload) \in consumed_signatures'
    BY <1>0, <2>1, <2>2 DEF GrantsInv
  <2>5. \A j \in DOMAIN grants' : PassedMint(grants[j].payload, grants[j].at)'
    BY <1>a, <1>b, <2>1, <2>3
  <2>6. \A j \in DOMAIN issued' :
            /\ j \in DOMAIN grants'
            /\ issued'[j] = grants'[j].payload
            /\ grants'[j].epoch = epoch'
    BY <1>0, <2>1, <2>2 DEF GrantsInv
  <2> QED
    BY <1>0, <2>2, <2>4, <2>5, <2>6 DEF GrantsInv
<1>4. ASSUME NEW t \in Threads, NEW jti \in Jtis \cup {MalformedJti},
             NEW a \in Actions, Consume(t, jti, a)
      PROVE  GrantsInv'
  BY <1>0, <1>a, <1>b, <1>4 DEF Consume, Consumable, GrantsInv
<1>5. CASE Restart
  <2>1. /\ grants' = grants /\ epoch' = epoch + 1 /\ epoch \in Nat
        /\ DOMAIN issued' = {} /\ consumed' = {}
    BY <1>0, <1>5 DEF Restart, TypeOK
  <2>2. \A j \in DOMAIN grants : grants[j].epoch \in Nat /\ grants[j].epoch <= epoch
    BY <1>0, GrantTyped DEF GrantsInv
  <2> QED
    BY <1>a, <1>b, <2>1, <2>2 DEF GrantsInv
<1>6. CASE Tick \/ UNCHANGED vars
  BY <1>2, <1>6 DEF Tick, vars
<1>7. ASSUME NEW a \in Actions, NEW r \in RarTypes, NEW c \in Contexts,
             NEW ttl \in TTLs, Sign(a, r, c, ttl)
      PROVE  GrantsInv'
  BY <1>2, <1>7 DEF Sign
<1>8. ASSUME NEW t \in Threads,
             \/ \E p \in Presentable : MintRefuse(t, p) \/ MintVerify(t, p)
             \/ MintReplay(t)
             \/ \E jti \in Jtis \cup {MalformedJti}, a \in Actions :
                   ConsumeRefuse(t, jti, a)
             \/ Perform(t)
      PROVE  GrantsInv'
  BY <1>2, <1>8 DEF MintRefuse, MintVerify, MintReplay, ConsumeRefuse, Perform
<1> QED
  BY <1>3, <1>4, <1>5, <1>6, <1>7, <1>8 DEF Next

(* What the log says of a credential stays true of its grant.               *)
LEMMA LogStep == IInv /\ [Next]_vars => LogInv' /\ CredentialSpentOnce'
<1> SUFFICES ASSUME IInv, [Next]_vars PROVE LogInv' /\ CredentialSpentOnce'
  OBVIOUS
<1> USE DEF memory, history, ForgetAll, AlreadyExchanged
<1>0. TypeOK /\ CallsInv /\ GrantsInv /\ LogInv /\ CredentialSpentOnce
  BY DEF IInv
<1>1. ASSUME UNCHANGED <<log, epoch>>, consumed \subseteq consumed',
             DOMAIN grants \subseteq DOMAIN grants',
             \A j \in DOMAIN grants : grants'[j] = grants[j]
      PROVE  LogInv' /\ CredentialSpentOnce'
  BY <1>0, <1>1 DEF LogInv, CredentialSpentOnce
<1>2. ASSUME NEW t \in Threads, MintRecord(t)
      PROVE  LogInv' /\ CredentialSpentOnce'
  <2>1. /\ DOMAIN grants \subseteq DOMAIN grants'
        /\ \A j \in DOMAIN grants : grants'[j] = grants[j]
    BY <1>0, <1>2, MintRecordGrants
  <2> QED
    BY <1>1, <1>2, <2>1 DEF MintRecord
<1>3. ASSUME NEW t \in Threads, NEW jti \in Jtis \cup {MalformedJti},
             NEW a \in Actions, Consume(t, jti, a)
      PROVE  LogInv' /\ CredentialSpentOnce'
  BY <1>1, <1>3 DEF Consume
<1>4. ASSUME NEW t \in Threads, Perform(t)
      PROVE  LogInv' /\ CredentialSpentOnce'
  <2> DEFINE new == Len(log) + 1
  <2>1. /\ DOMAIN log' = DOMAIN log \cup {new}
        /\ new \notin DOMAIN log
        /\ \A i \in DOMAIN log : log'[i] = log[i]
        /\ log'[new] = [jti |-> call[t].jti, action |-> call[t].action,
                        at |-> call[t].at, epoch |-> epoch]
    BY <1>0, <1>4, PerformLog
  <2>2. UNCHANGED <<consumed, grants, epoch>>
    BY <1>4 DEF Perform
  <2>3. /\ call[t].jti \in consumed
        /\ call[t].jti \in DOMAIN grants
        /\ grants[call[t].jti].epoch = epoch
        /\ SameAction(grants[call[t].jti].payload.action, call[t].action)
        /\ grants[call[t].jti].at <= call[t].at
        /\ call[t].at <= grants[call[t].jti].payload.exp
        /\ \A i \in DOMAIN log : log[i].jti # call[t].jti
    BY <1>4, PerformCallFacts DEF Perform
  <2>4. LogInv'
    BY <1>0, <2>1, <2>2, <2>3 DEF LogInv
  <2>5. CredentialSpentOnce'
    BY <1>0, <2>1, <2>3 DEF CredentialSpentOnce
  <2> QED
    BY <2>4, <2>5
<1>5. CASE Restart
  <2>1. UNCHANGED <<log, grants>> /\ epoch' = epoch + 1 /\ epoch \in Nat
    BY <1>0, <1>5 DEF Restart, TypeOK
  <2>2. \A i \in DOMAIN log : log[i].epoch # epoch'
    <3>1. ASSUME NEW i \in DOMAIN log PROVE log[i].epoch \in Nat /\ log[i].epoch <= epoch
      BY <1>0, EntryTyped DEF LogInv, GrantsInv
    <3> QED
      BY <2>1, <3>1
  <2> QED
    BY <1>0, <2>1, <2>2 DEF LogInv, CredentialSpentOnce
<1>6. CASE Tick \/ UNCHANGED vars
  BY <1>1, <1>6 DEF Tick, vars
<1>7. ASSUME NEW a \in Actions, NEW r \in RarTypes, NEW c \in Contexts,
             NEW ttl \in TTLs, Sign(a, r, c, ttl)
      PROVE  LogInv' /\ CredentialSpentOnce'
  BY <1>1, <1>7 DEF Sign
<1>8. ASSUME NEW t \in Threads,
             \/ \E p \in Presentable : MintRefuse(t, p) \/ MintVerify(t, p)
             \/ MintReplay(t)
             \/ \E jti \in Jtis \cup {MalformedJti}, a \in Actions :
                   ConsumeRefuse(t, jti, a)
      PROVE  LogInv' /\ CredentialSpentOnce'
  BY <1>1, <1>8 DEF MintRefuse, MintVerify, MintReplay, ConsumeRefuse
<1> QED
  BY <1>2, <1>3, <1>4, <1>5, <1>6, <1>7, <1>8 DEF Next

(* One signature keeps one credential per life of the process, and a spent  *)
(* signature keeps its credential.                                          *)
LEMMA SignatureStep ==
    IInv /\ [Next]_vars =>
        SignatureExchangedOncePerLife' /\ SpentSignatureHasCredential'
<1> DEFINE Goal == SignatureExchangedOncePerLife /\ SpentSignatureHasCredential
<1> SUFFICES ASSUME IInv, [Next]_vars PROVE Goal'
  OBVIOUS
<1> USE DEF memory, history, ForgetAll, AlreadyExchanged
<1>0. TypeOK /\ GrantsInv /\ Goal
  BY DEF IInv
<1>1. ASSUME UNCHANGED <<issued, consumed_signatures, grants>> PROVE Goal'
  BY <1>0, <1>1 DEF SignatureExchangedOncePerLife, SpentSignatureHasCredential
<1>2. ASSUME NEW t \in Threads, MintRecord(t) PROVE Goal'
  <2> DEFINE new == Len(grants) + 1
             p == call[t].payload
  <2>1. /\ new \notin DOMAIN grants
        /\ DOMAIN grants' = DOMAIN grants \cup {new}
        /\ \A j \in DOMAIN grants : grants'[j] = grants[j]
        /\ grants'[new] = [payload |-> p, at |-> call[t].at, epoch |-> epoch]
    BY <1>0, <1>2, MintRecordGrants
  <2>2. /\ Canonical(p) \notin consumed_signatures
        /\ consumed_signatures' = consumed_signatures \cup {Canonical(p)}
        /\ issued' = [j \in DOMAIN issued \cup {new} |->
                         IF j = new THEN p ELSE issued[j]]
    BY <1>2 DEF MintRecord
  <2>3. \A j \in DOMAIN grants :
            grants[j].epoch = epoch => Canonical(grants[j].payload) # Canonical(p)
    BY <1>0, <2>2 DEF GrantsInv
  <2>4. SignatureExchangedOncePerLife'
    BY <1>0, <2>1, <2>3 DEF SignatureExchangedOncePerLife
  <2>5. SpentSignatureHasCredential'
    <3>1. ASSUME NEW c \in consumed_signatures'
          PROVE  \E j \in DOMAIN issued' : Canonical(issued'[j]) = c
      <4>1. CASE c = Canonical(p)
        BY <2>2, <4>1
      <4>2. CASE c \in consumed_signatures
        <5>1. PICK j \in DOMAIN issued : Canonical(issued[j]) = c
          BY <1>0, <4>2 DEF SpentSignatureHasCredential
        <5>2. j # new
          BY <1>0, <2>1 DEF GrantsInv
        <5> QED
          BY <2>2, <5>1, <5>2
      <4> QED
        BY <2>2, <4>1, <4>2
    <3> QED
      BY <3>1 DEF SpentSignatureHasCredential
  <2> QED
    BY <2>4, <2>5
<1>3. CASE Restart
  BY <1>0, <1>3
  DEF Restart, SignatureExchangedOncePerLife, SpentSignatureHasCredential
<1>4. CASE Tick \/ UNCHANGED vars
  BY <1>1, <1>4 DEF Tick, vars
<1>5. ASSUME NEW a \in Actions, NEW r \in RarTypes, NEW c \in Contexts,
             NEW ttl \in TTLs, Sign(a, r, c, ttl)
      PROVE  Goal'
  BY <1>1, <1>5 DEF Sign
<1>6. ASSUME NEW t \in Threads,
             \/ \E p \in Presentable : MintRefuse(t, p) \/ MintVerify(t, p)
             \/ MintReplay(t)
             \/ \E jti \in Jtis \cup {MalformedJti}, a \in Actions :
                   ConsumeRefuse(t, jti, a) \/ Consume(t, jti, a)
             \/ Perform(t)
      PROVE  Goal'
  BY <1>1, <1>6
  DEF MintRefuse, MintVerify, MintReplay, ConsumeRefuse, Consume, Perform
<1> QED
  BY <1>2, <1>3, <1>4, <1>5, <1>6 DEF Next

-----------------------------------------------------------------------------
(* The inductive invariant, and the properties that follow from it.         *)

(* The inductive invariant holds of a fresh vault.                          *)
LEMMA InitIInv == Init => IInv
<1> SUFFICES ASSUME Init PROVE IInv
  OBVIOUS
<1>1. TypeOK
  BY InitTyped
<1>2. CallsInv /\ GrantsInv /\ LogInv
  BY DEF Init, memory, history, CallsInv, GrantsInv, LogInv, Idle
<1>3. /\ CredentialSpentOnce
      /\ SignatureExchangedOncePerLife
      /\ SpentSignatureHasCredential
  BY DEF Init, CredentialSpentOnce, SignatureExchangedOncePerLife,
         SpentSignatureHasCredential
<1> QED
  BY <1>1, <1>2, <1>3 DEF IInv

(* Every step of Next, and stuttering, preserves the inductive invariant.   *)
LEMMA NextIInv == IInv /\ [Next]_vars => IInv'
<1> SUFFICES ASSUME IInv, [Next]_vars PROVE IInv'
  OBVIOUS
<1>1. TypeOK'
  BY NextTyped DEF IInv
<1> QED
  BY <1>1, CallsStep, GrantsStep, LogStep, SignatureStep DEF IInv

(* The vault's memory, its calls in progress and the histories stay         *)
(* consistent with one another in every reachable state.                    *)
THEOREM Invariance == Spec => []IInv
  BY InitIInv, NextIInv, PTL DEF Spec

(* No credential is executed twice, for any number of threads, restarts and *)
(* presentations (consume's check and its record share a lock section).     *)
THEOREM SingleUse == Spec => []CredentialSpentOnce
<1>1. IInv => CredentialSpentOnce
  BY DEF IInv
<1> QED
  BY <1>1, Invariance, PTL

(* Only an action a human signed, or one that == does not tell from it, is  *)
(* executed under a credential.                                             *)
THEOREM BindingHolds == Spec => []ParameterBinding
<1>1. IInv => ParameterBinding
  <2> SUFFICES ASSUME IInv, NEW i \in DOMAIN log
               PROVE  \E p \in approvals :
                         /\ Canonical(p) = Canonical(grants[log[i].jti].payload)
                         /\ SameAction(p.action, log[i].action)
    BY DEF ParameterBinding
  <2> DEFINE g == grants[log[i].jti].payload
  <2>1. log[i].jti \in DOMAIN grants /\ SameAction(g.action, log[i].action)
    BY DEF IInv, LogInv
  <2>2. PICK p \in approvals : Canonical(p) = Canonical(g)
    BY <2>1 DEF IInv, GrantsInv, PassedMint, Approved
  <2>3. p.action = g.action
    BY <2>2 DEF Canonical
  <2> QED
    BY <2>1, <2>2, <2>3
<1> QED
  BY <1>1, Invariance, PTL

(* A credential never outlives the process that issued it.                  *)
THEOREM RestartClosure == Spec => []CredentialDiesWithProcess
<1>1. IInv => CredentialDiesWithProcess
  BY DEF IInv, LogInv, CredentialDiesWithProcess
<1> QED
  BY <1>1, Invariance, PTL

(* Credentials are used after their mint, by their exp and within MaxTTL.   *)
THEOREM Lifetime == Spec => []LifetimeEnforced
<1>1. IInv => LifetimeEnforced
  <2> SUFFICES ASSUME IInv, NEW i \in DOMAIN log
               PROVE  LET g == grants[log[i].jti]
                      IN  /\ g.at <= log[i].at
                          /\ log[i].at <= g.payload.exp
                          /\ log[i].at <= g.at + MaxTTL
    BY DEF LifetimeEnforced
  <2> DEFINE g == grants[log[i].jti]
  <2>1. /\ log[i].jti \in DOMAIN grants
        /\ g.at <= log[i].at
        /\ log[i].at <= g.payload.exp
    BY DEF IInv, LogInv
  <2>2. g.payload.exp <= g.at + MaxTTL
    BY <2>1 DEF IInv, GrantsInv, PassedMint
  <2>3. /\ log[i].at \in Nat
        /\ g.payload.exp \in Nat
        /\ g.at + MaxTTL \in Nat
    BY <2>1, EntryTyped, GrantTyped, MaxTTLAssumption DEF IInv
  <2> QED
    BY <2>1, <2>2, <2>3
<1> QED
  BY <1>1, Invariance, PTL

(* Racing presentations of one signature yield one credential per life of   *)
(* the process.                                                             *)
THEOREM OneCredentialPerLife == Spec => []SignatureExchangedOncePerLife
<1>1. IInv => SignatureExchangedOncePerLife
  BY DEF IInv
<1> QED
  BY <1>1, Invariance, PTL

(* No signature is used up without a credential to show for it.             *)
THEOREM NoSignatureLost == Spec => []SpentSignatureHasCredential
<1>1. IInv => SpentSignatureHasCredential
  BY DEF IInv
<1> QED
  BY <1>1, Invariance, PTL

-----------------------------------------------------------------------------
(* The vault implements the delegation contract, restarts included.         *)

(* Every approved form is one a signer can have signed in time.             *)
ApprovalsSignable == \A p \in approvals : Canonical(p) \in SignableForms

(* What a human signs now has a form that can be signed in time.            *)
LEMMA SignedIsSignable ==
    ASSUME TypeOK, NEW a \in Actions, NEW r \in RarTypes, NEW c \in Contexts,
           NEW ttl \in TTLs
    PROVE  Canonical(SignAuthorizationDetails(a, r, c, FALSE, Secret, ttl, now))
              \in SignableForms
  BY DEF TypeOK, Canonical, SignAuthorizationDetails, SignableForms

(* Every step of Next, and stuttering, keeps the approved forms signable.   *)
LEMMA ApprovalsSignableStep ==
    TypeOK /\ ApprovalsSignable /\ [Next]_vars => ApprovalsSignable'
<1> SUFFICES ASSUME TypeOK, ApprovalsSignable, [Next]_vars PROVE ApprovalsSignable'
  OBVIOUS
<1>1. CASE UNCHANGED approvals
  BY <1>1 DEF ApprovalsSignable
<1>2. ASSUME NEW a \in Actions, NEW r \in RarTypes, NEW c \in Contexts,
             NEW ttl \in TTLs, Sign(a, r, c, ttl)
      PROVE  ApprovalsSignable'
  BY <1>2, SignedIsSignable DEF Sign, ApprovalsSignable
<1> QED
  BY <1>1, <1>2
  DEF Next, MintRefuse, MintVerify, MintReplay, MintRecord,
      ConsumeRefuse, Consume, Perform, Tick, Restart, vars, history

(* A form has at most one credential in each life, so what the contract     *)
(* sees of a credential tells which one it is.                              *)
LEMMA SameCredential ==
    ASSUME IInv, NEW i \in DOMAIN grants, NEW j \in DOMAIN grants,
           CredentialOf(i) = CredentialOf(j)
    PROVE  i = j
  BY DEF CredentialOf, IInv, SignatureExchangedOncePerLife

(* A fresh vault is a fresh delegation.                                     *)
LEMMA ContractInit == Init => Contract!Init
<1> SUFFICES ASSUME Init PROVE Contract!Init
  OBVIOUS
<1>1. [i \in DOMAIN log |->
          [credential |-> CredentialOf(log[i].jti), life |-> log[i].epoch,
           action |-> log[i].action]] = << >>
  BY DEF Init, history
<1> QED
  BY <1>1 DEF Init, memory, history, Contract!Init

(* Every step of the vault is a step of the contract or a stutter.          *)
LEMMA ContractStep ==
    ASSUME IInv, ApprovalsSignable, [Next]_vars
    PROVE  [Contract!Next]_(Contract!vars)
<1> USE DEF memory, history, ForgetAll, AlreadyExchanged
<1> DEFINE approvedC  == {Canonical(p) : p \in approvals}
           issuedC    == {CredentialOf(j) : j \in DOMAIN grants}
           redeemedC  == {CredentialOf(j) : j \in consumed}
           lifeC      == [issuer |-> epoch, executor |-> epoch]
           Seen(i)    == [credential |-> CredentialOf(log[i].jti),
                          life       |-> log[i].epoch,
                          action     |-> log[i].action]
           seenLog    == [i \in DOMAIN log |-> Seen(i)]
<1>0. TypeOK /\ CallsInv /\ GrantsInv /\ LogInv
  BY DEF IInv
<1>1. ASSUME UNCHANGED <<consumed, epoch, approvals, grants, log>>
      PROVE  UNCHANGED Contract!vars
  BY <1>1 DEF Contract!vars, CredentialOf
<1>2. ASSUME NEW a \in Actions, NEW r \in RarTypes, NEW c \in Contexts,
             NEW ttl \in TTLs, Sign(a, r, c, ttl)
      PROVE  Contract!Next
  <2> DEFINE p == SignAuthorizationDetails(a, r, c, FALSE, Secret, ttl, now)
  <2>1. Canonical(p) \in SignableForms
    BY <1>0, SignedIsSignable
  <2>2. approvedC' = approvedC \cup {Canonical(p)}
    BY <1>2 DEF Sign
  <2>3. UNCHANGED <<issuedC, redeemedC, lifeC, seenLog>>
    BY <1>2 DEF Sign, CredentialOf
  <2>4. Contract!Approve(Canonical(p))
    BY <2>2, <2>3 DEF Contract!Approve
  <2> QED
    BY <2>1, <2>4 DEF Contract!Next
<1>3. ASSUME NEW t \in Threads, MintRecord(t) PROVE Contract!Next
  <2> DEFINE c   == Canonical(call[t].payload)
             new == Len(grants) + 1
             k   == [consent |-> c, life |-> epoch]
  <2>1. c \in approvedC /\ c \in SignableForms
    BY <1>0, <1>3, MintCallFacts
    DEF MintRecord, PassedMint, Approved, ApprovalsSignable
  <2>2. k \notin issuedC
    BY <1>0, <1>3 DEF MintRecord, GrantsInv, CredentialOf
  <2>3. /\ DOMAIN grants' = DOMAIN grants \cup {new}
        /\ \A j \in DOMAIN grants : j # new /\ grants'[j] = grants[j]
        /\ grants'[new] = [payload |-> call[t].payload, at |-> call[t].at,
                           epoch |-> epoch]
    BY <1>0, <1>3, MintRecordGrants
  <2> DEFINE Cred(g) == [consent |-> Canonical(g.payload), life |-> g.epoch]
  <2>a. Cred(grants'[new]) = k
    BY <2>3 DEF Canonical
  <2>4. \A j \in DOMAIN grants : CredentialOf(j)' = CredentialOf(j)
    BY <2>3 DEF CredentialOf
  <2>5. issuedC' = issuedC \cup {k}
    <3>1. issuedC' = {Cred(grants'[j]) : j \in DOMAIN grants'}
      BY DEF CredentialOf
    <3>2. issuedC = {Cred(grants[j]) : j \in DOMAIN grants}
      BY DEF CredentialOf
    <3>3. \A j \in DOMAIN grants : Cred(grants'[j]) = Cred(grants[j])
      BY <2>3
    <3> QED
      <4> HIDE DEF Cred, k, issuedC
      <4> QED
        BY <3>1, <3>2, <3>3, <2>a, <2>3
  <2>6. redeemedC' = redeemedC
    BY <1>0, <1>3, <2>4 DEF MintRecord, GrantsInv
  <2>7. seenLog' = seenLog
    BY <1>0, <1>3, <2>4 DEF MintRecord, LogInv
  <2>8. UNCHANGED <<approvedC, lifeC>>
    BY <1>3 DEF MintRecord
  <2>9. Contract!Exchange(c)
    BY <2>1, <2>2, <2>5, <2>6, <2>7, <2>8
    DEF Contract!Exchange, Contract!CredentialFor
  <2> QED
    BY <2>1, <2>9 DEF Contract!Next
<1>4. ASSUME NEW t \in Threads, NEW jti \in Jtis \cup {MalformedJti},
             NEW a \in Actions, Consume(t, jti, a)
      PROVE  Contract!Next
  <2> DEFINE k == CredentialOf(jti)
  <2>1. jti \notin consumed /\ jti \in DOMAIN grants /\ grants[jti].epoch = epoch
    BY <1>0, <1>4 DEF Consume, Consumable, GrantsInv
  <2>2. k \in issuedC
    BY <2>1
  <2>3. k \notin redeemedC
    <3>1. consumed \subseteq DOMAIN grants
      BY <1>0 DEF GrantsInv
    <3> QED
      BY <2>1, <3>1, SameCredential
  <2>4. k.life = lifeC.issuer
    BY <2>1 DEF CredentialOf
  <2>5. redeemedC' = redeemedC \cup {k}
    BY <1>4 DEF Consume, CredentialOf
  <2>6. UNCHANGED <<approvedC, issuedC, lifeC, seenLog>>
    BY <1>4 DEF Consume, CredentialOf
  <2>7. Contract!Redeem(k)
    BY <2>2, <2>3, <2>4, <2>5, <2>6 DEF Contract!Redeem, Contract!Honoured
  <2> QED
    BY <2>2, <2>7 DEF Contract!Next
<1>5. ASSUME NEW t \in Threads, Perform(t) PROVE Contract!Next
  <2> DEFINE jti    == call[t].jti
             action == call[t].action
             k      == CredentialOf(jti)
             new    == Len(log) + 1
  <2>1. /\ jti \in consumed /\ jti \in DOMAIN grants
        /\ SameAction(grants[jti].payload.action, action)
        /\ \A i \in DOMAIN log : log[i].jti # jti
    BY <1>0, <1>5, PerformCallFacts DEF Perform
  <2>2. k \in redeemedC /\ k \in issuedC
    BY <2>1
  <2>3. action \in DOMAIN ValueOf
    BY <1>0, <1>5, ValueAssumption DEF Perform, TypeOK, Calls, Idle
  <2>4. ValueOf[action] = ValueOf[k.consent.action]
    BY <2>1 DEF SameAction, CredentialOf, Canonical
  <2>5. \A i \in DOMAIN log : CredentialOf(log[i].jti) # k
    BY <1>0, <2>1, SameCredential DEF LogInv
  <2>6. /\ new \notin DOMAIN log
        /\ DOMAIN log' = DOMAIN log \cup {new}
        /\ \A i \in DOMAIN log : log'[i] = log[i]
        /\ log'[new] = [jti |-> jti, action |-> action,
                        at |-> call[t].at, epoch |-> epoch]
    BY <1>0, <1>5, PerformLog
  <2>7. UNCHANGED <<consumed, epoch, approvals, grants>>
    BY <1>5 DEF Perform
  <2>8. seenLog' = Append(seenLog, [credential |-> k, life |-> epoch,
                                    action |-> action])
    <3> DEFINE e == [credential |-> k, life |-> epoch, action |-> action]
               n == Len(log)
    <3>1. n \in Nat /\ DOMAIN log = 1..n
      BY <1>0 DEF TypeOK
    <3>2. seenLog = [i \in 1..n |-> seenLog[i]]
      BY <3>1
    <3>3. seenLog' = [i \in 1..n \cup {n + 1} |->
                        IF i = n + 1 THEN e ELSE seenLog[i]]
      BY <2>6, <2>7, <3>1 DEF CredentialOf
    <3>4. [i \in 1..n \cup {n + 1} |->
             IF i = n + 1 THEN e ELSE seenLog[i]] = Append(seenLog, e)
      <4> HIDE DEF e, n, seenLog
      <4> QED
        BY <3>1, <3>2, MappedAppend
    <3> QED
      <4> HIDE DEF e, n, seenLog
      <4>1. seenLog' = Append(seenLog, e)
        BY <3>3, <3>4
      <4> QED
        BY <4>1 DEF e
  <2>9. \A i \in DOMAIN seenLog : seenLog[i].credential # k
    BY <2>5
  <2>10. UNCHANGED <<approvedC, issuedC, redeemedC, lifeC>>
    BY <2>7 DEF CredentialOf
  <2>11. lifeC.executor = epoch
    OBVIOUS
  <2>12. ASSUME NEW x, NEW y, x = k, y = action
         PROVE  Contract!Perform(x, y)
    BY <2>12, <2>2, <2>4, <2>8, <2>9, <2>10, <2>11, Zenon
    DEF Contract!Perform, Contract!Performed
  <2>13. \E x \in issuedC : \E y \in DOMAIN ValueOf : Contract!Perform(x, y)
    <3> HIDE DEF k, action, issuedC
    <3> QED
      BY <2>2, <2>3, <2>12, Zenon
  <2> QED
    BY <2>13, Zenon DEF Contract!Next
<1>6. ASSUME Restart PROVE Contract!Next
  <2> DEFINE both == {"issuer", "executor"}
  <2>1. lifeC' = [issuer   |-> lifeC.issuer + (IF "issuer" \in both THEN 1 ELSE 0),
                  executor |-> lifeC.executor + (IF "executor" \in both THEN 1 ELSE 0)]
    BY <1>6 DEF Restart
  <2>2. redeemedC' = {}
    BY <1>6 DEF Restart
  <2>3. UNCHANGED <<approvedC, issuedC, seenLog>>
    BY <1>6 DEF Restart, CredentialOf
  <2>4. Contract!Restart(both)
    BY <2>1, <2>2, <2>3 DEF Contract!Restart
  <2> QED
    BY <2>4 DEF Contract!Next
<1>7. CASE Tick \/ UNCHANGED vars
  BY <1>1, <1>7 DEF Tick, vars
<1>8. ASSUME NEW t \in Threads,
             \/ \E p \in Presentable : MintRefuse(t, p) \/ MintVerify(t, p)
             \/ MintReplay(t)
             \/ \E jti \in Jtis \cup {MalformedJti}, a \in Actions :
                   ConsumeRefuse(t, jti, a)
      PROVE  UNCHANGED Contract!vars
  BY <1>1, <1>8 DEF MintRefuse, MintVerify, MintReplay, ConsumeRefuse
<1> QED
  BY <1>2, <1>3, <1>4, <1>5, <1>6, <1>7, <1>8 DEF Next

(* Everything the vault and its dispatcher do, across any restarts, is a    *)
(* run of the delegation contract: one signature, one credential in each    *)
(* life of the process, one execution, of what was signed.                  *)
THEOREM ImplementsContract == Spec => KeepsContract
<1>1. Init => ApprovalsSignable
  BY DEF Init, history, ApprovalsSignable
<1>2. IInv /\ ApprovalsSignable /\ [Next]_vars => IInv' /\ ApprovalsSignable'
  BY NextIInv, ApprovalsSignableStep DEF IInv
<1>3. IInv /\ ApprovalsSignable /\ [Next]_vars => [Contract!Next]_(Contract!vars)
  BY ContractStep
<1> QED
  BY <1>1, <1>2, <1>3, InitIInv, ContractInit, PTL
  DEF Spec, KeepsContract, Contract!Spec
=============================================================================
