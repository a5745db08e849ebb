------------------------- MODULE SeparatedTier2Proofs -------------------------
(***************************************************************************)
(* Proofs about the separated deployment: a vault and a resource server    *)
(* that restart on their own.  What the vault guarantees is taken over     *)
(* from its own invariant, of which no step here is more than a step.      *)
(***************************************************************************)
EXTENDS SeparatedTier2, OAuthVaultProofs

(* A step of the deployment is a step of the vault or leaves it alone.      *)
LEMMA VaultSimulated == [T2Next]_allVars => [Next]_vars
  BY DEF T2Next, VaultStep, RsStep, ClockStep, Next, allVars

(* The two processes read tokens in the same way.                           *)
LEMMA SameReading ==
    /\ RS!Tokens = Tokens
    /\ \A tok, v, at : RS!TokenAccepted(tok, v, at) = TokenAccepted(tok, v, at)
    /\ \A tok, a, v, used : RS!BoundTo(tok, a, v, used) = BoundTo(tok, a, v, used)
  BY DEF RS!Tokens, Tokens, RS!Details, Details,
         RS!TokenAccepted, TokenAccepted, RS!LapsedAtConsume, LapsedAtConsume,
         RS!AudienceMatches, AudienceMatches, RS!BoundTo, BoundTo,
         RS!SameAction, SameAction

(* The resource server accepts only tokens its vault minted, none lapsed.   *)
LEMMA RsAcceptedIsMinted ==
    ASSUME TypeOK, GrantsInv, NEW tok \in Held, TokenAccepted(tok, RsVerifier, now)
    PROVE  /\ tok.jti \in DOMAIN grants
           /\ tok = grants[tok.jti].token
           /\ grants[tok.jti].at <= now
           /\ now <= grants[tok.jti].payload.exp
<1>1. tok \notin ForeignTokens
  BY RsForeignAssumption DEF TokenAccepted
<1>2. PICK j \in DOMAIN grants : tok = grants[j].token
  BY <1>1 DEF Held
<1>3. tok = TokenFor(grants[j].payload, j) /\ grants[j].at <= now
  BY <1>2 DEF GrantsInv, PassedMint
<1>4. tok.jti = j /\ tok.exp = grants[j].payload.exp
  BY <1>3 DEF TokenFor
<1>5. ~(now > tok.exp) /\ tok.exp \in Nat /\ now \in Nat
  BY <1>4, GrantTyped, OAuthAssumption DEF TokenAccepted, LapsedAtConsume, TypeOK
<1>6. now <= tok.exp
  BY <1>5
<1>7. grants[j].at <= now
  BY <1>3
<1> QED
  BY <1>2, <1>4, <1>6, <1>7

(* Passing the binding check means asking for an action the human signed    *)
(* under a type that the resource server takes.                             *)
LEMMA RsBoundFacts ==
    ASSUME GrantsInv, RsCallsInv, NEW t \in RsThreads, rs_call[t].op = "consume",
           BoundTo(rs_call[t].token, rs_call[t].action, RsVerifier, rs_consumed)
    PROVE  LET j == rs_call[t].token.jti
           IN  /\ j \in DOMAIN grants
               /\ j \notin rs_consumed
               /\ SameAction(grants[j].payload.action, rs_call[t].action)
               /\ grants[j].payload.rar_type \in RsVerifier.rar
<1> DEFINE j == rs_call[t].token.jti
           p == grants[j].payload
<1>1. j \in DOMAIN grants /\ rs_call[t].token = grants[j].token
  BY DEF RsCallsInv
<1>2. rs_call[t].token = TokenFor(p, j)
  BY <1>1 DEF GrantsInv
<1>3. rs_call[t].token.details = <<[type |-> p.rar_type, action |-> p.action]>>
  BY <1>2 DEF TokenFor
<1>4. /\ rs_call[t].token.details[1].action = p.action
      /\ rs_call[t].token.details[1].type = p.rar_type
  BY <1>3
<1> QED
  BY <1>1, <1>4 DEF BoundTo

-----------------------------------------------------------------------------
(* Types.                                                                   *)

(* What a call of the resource server in progress holds.                    *)
LEMMA RsCallTyped ==
    ASSUME RS!RsTypeOK, NEW t \in RsThreads
    PROVE  /\ rs_call[t] \in RS!RsCalls
           /\ rs_call[t].op \in {"consume", "command"} =>
                /\ rs_call[t] \in [op: {"consume", "command"}, token: Tokens,
                                   action: Actions, at: Nat]
                /\ rs_call[t].token.jti \in Nat
<1>1. rs_call[t] \in RS!RsCalls
  BY DEF RS!RsTypeOK
<1>2. ASSUME NEW tok \in Tokens PROVE tok.jti \in Nat
  BY DEF Tokens
<1> QED
  BY <1>1, <1>2, SameReading DEF RS!RsCalls, RS!RsIdle

(* Elements of the resource server's log are well-typed.                    *)
LEMMA RsEntryTyped ==
    ASSUME RS!RsTypeOK, NEW i \in DOMAIN rs_log
    PROVE  rs_log[i].at \in Nat /\ rs_log[i].epoch \in Nat
<1>1. rs_log[i] \in RS!RsEntries
  BY ElementOfSeq DEF RS!RsTypeOK
<1> QED
  BY <1>1 DEF RS!RsEntries

(* Executing a command appends one entry and leaves the earlier ones.       *)
LEMMA ExecuteCommandLog ==
    ASSUME RS!RsTypeOK, NEW t \in RsThreads, RS!ExecuteCommand(t)
    PROVE  LET new == Len(rs_log) + 1
           IN  /\ new \notin DOMAIN rs_log
               /\ DOMAIN rs_log' = DOMAIN rs_log \cup {new}
               /\ \A i \in DOMAIN rs_log : rs_log'[i] = rs_log[i]
               /\ rs_log'[new].jti = rs_call[t].token.jti
               /\ rs_log'[new].action = rs_call[t].action
               /\ rs_log'[new].at = rs_call[t].at
               /\ rs_log'[new].epoch = rs_epoch
               /\ rs_log' \in Seq(RS!RsEntries)
<1> DEFINE e == [jti |-> rs_call[t].token.jti, action |-> rs_call[t].action,
                 at |-> rs_call[t].at, epoch |-> rs_epoch]
<1>1. e \in RS!RsEntries
  BY RsCallTyped DEF RS!ExecuteCommand, RS!RsEntries, RS!RsTypeOK
<1>2. rs_log' = Append(rs_log, e) /\ rs_log \in Seq(RS!RsEntries)
  BY DEF RS!ExecuteCommand, RS!RsTypeOK
<1> HIDE DEF e
<1>3. rs_log' \in Seq(RS!RsEntries)
  BY <1>1, <1>2
<1>4. LET new == Len(rs_log) + 1
      IN  /\ new \notin DOMAIN rs_log
          /\ DOMAIN rs_log' = DOMAIN rs_log \cup {new}
          /\ \A i \in DOMAIN rs_log : rs_log'[i] = rs_log[i]
          /\ rs_log'[new] = e
  BY <1>1, <1>2, Appended
<1> QED
  BY <1>3, <1>4 DEF e

(* Every step keeps the resource server's variables in their types.         *)
LEMMA RsTyped ==
    TypeOK /\ RS!RsTypeOK /\ [T2Next]_allVars => RS!RsTypeOK'
<1> SUFFICES ASSUME TypeOK, RS!RsTypeOK, [T2Next]_allVars PROVE RS!RsTypeOK'
  OBVIOUS
<1>1. CASE UNCHANGED rsVars
  BY <1>1 DEF rsVars, RS!RsTypeOK
<1>2. ASSUME NEW t \in RsThreads, NEW result \in RS!RsOutcomes,
             RS!RsReturn(t, result), UNCHANGED <<rs_consumed, rs_epoch, rs_log>>
      PROVE  RS!RsTypeOK'
  BY <1>2 DEF RS!RsReturn, RS!RsTypeOK, RS!RsCalls
<1>3. ASSUME NEW t \in RsThreads, NEW tok \in Held, NEW a \in Actions,
             RS!ExecuteRefuse(t, tok, a)
      PROVE  RS!RsTypeOK'
  <2>1. RS!TokenRefusal(tok, RsVerifier, now) \in RS!RsOutcomes
    BY DEF RS!TokenRefusal, RS!RsOutcomes
  <2> QED
    BY <1>2, <1>3, <2>1 DEF RS!ExecuteRefuse
<1>4. ASSUME NEW t \in RsThreads, NEW tok \in Held, NEW a \in Actions,
             RS!ExecuteValidate(t, tok, a)
      PROVE  RS!RsTypeOK'
  <2>1. now \in Nat /\ tok \in RS!Tokens
    BY OAuthAssumption, HeldTyped, SameReading DEF TypeOK
  <2>2. [op |-> "consume", token |-> tok, action |-> a, at |-> now] \in RS!RsCalls
    BY <2>1 DEF RS!RsCalls
  <2> QED
    BY <1>4, <2>2 DEF RS!ExecuteValidate, RS!RsTypeOK
<1>5. ASSUME NEW t \in RsThreads, RS!ConsumeRefuse(t) PROVE RS!RsTypeOK'
  <2>1. RS!BindingRefusal(rs_call[t].token, rs_consumed) \in RS!RsOutcomes
    BY DEF RS!BindingRefusal, RS!RsOutcomes
  <2> QED
    BY <1>2, <1>5, <2>1 DEF RS!ConsumeRefuse
<1>6. ASSUME NEW t \in RsThreads, RS!Consume(t) PROVE RS!RsTypeOK'
  <2>1. /\ rs_call[t] \in [op: {"consume", "command"}, token: RS!Tokens,
                           action: Actions, at: Nat]
        /\ rs_call[t].token.jti \in Nat
    BY <1>6, RsCallTyped, SameReading DEF RS!Consume
  <2>2. [rs_call[t] EXCEPT !.op = "command"] \in
            [op: {"consume", "command"}, token: RS!Tokens, action: Actions, at: Nat]
    BY <2>1
  <2>3. [rs_call[t] EXCEPT !.op = "command"] \in RS!RsCalls
    BY <2>2 DEF RS!RsCalls
  <2> QED
    BY <1>6, <2>1, <2>3 DEF RS!Consume, RS!RsTypeOK
<1>7. ASSUME NEW t \in RsThreads, RS!ExecuteUnknown(t) \/ RS!ExecuteRaises(t)
      PROVE  RS!RsTypeOK'
  BY <1>2, <1>7 DEF RS!ExecuteUnknown, RS!ExecuteRaises, RS!RsOutcomes
<1>8. ASSUME NEW t \in RsThreads, RS!ExecuteCommand(t) PROVE RS!RsTypeOK'
  <2>1. rs_log' \in Seq(RS!RsEntries)
    BY <1>8, ExecuteCommandLog
  <2> QED
    BY <1>8, <2>1
    DEF RS!ExecuteCommand, RS!RsReturn, RS!RsTypeOK, RS!RsCalls, RS!RsOutcomes
<1>9. ASSUME RS!RsRestart PROVE RS!RsTypeOK'
  BY <1>9, RsAssumption DEF RS!RsRestart, RS!RsTypeOK, RS!RsCalls
<1> QED
  BY <1>1, <1>3, <1>4, <1>5, <1>6, <1>7, <1>8, <1>9
  DEF T2Next, VaultStep, RsStep, ClockStep, RS!RsNext, allVars

-----------------------------------------------------------------------------
(* The inductive invariant.                                                 *)

(* What a step of the vault or of the clock leaves of it.                   *)
LEMMA VaultKeepsRs ==
    ASSUME T2IInv, [Next]_vars, UNCHANGED rsVars
    PROVE  /\ rs_consumed' \subseteq DOMAIN grants'
           /\ RsCallsInv' /\ RsCommandsInv' /\ RsLogInv' /\ RsSpentOncePerLife'
           /\ RsTokenLostOnlyToBadCall'
<1>1. /\ DOMAIN grants \subseteq DOMAIN grants'
      /\ \A j \in DOMAIN grants : grants'[j] = grants[j]
  BY HistoryGrows DEF T2IInv, IInv
<1>2. /\ rs_consumed \subseteq DOMAIN grants
      /\ RsCallsInv /\ RsCommandsInv /\ RsLogInv /\ RsSpentOncePerLife
      /\ RsTokenLostOnlyToBadCall
  BY DEF T2IInv
<1>3. UNCHANGED <<rs_consumed, rs_call, rs_epoch, rs_log>>
  BY DEF rsVars
<1>4. rs_consumed' \subseteq DOMAIN grants' /\ RsCallsInv'
  BY <1>1, <1>2, <1>3 DEF RsCallsInv
<1>5. RsCommandsInv'
  BY <1>1, <1>2, <1>3 DEF RsCommandsInv
<1>6. RsLogInv' /\ RsSpentOncePerLife'
  BY <1>1, <1>2, <1>3 DEF RsLogInv, RsSpentOncePerLife
<1>7. RsTokenLostOnlyToBadCall'
  BY <1>1, <1>2, <1>3 DEF RsTokenLostOnlyToBadCall
<1> QED
  BY <1>4, <1>5, <1>6, <1>7

(* A token past the first checks of execute stays one that was minted.      *)
LEMMA RsCallsStep ==
    ASSUME T2IInv, UNCHANGED vars, RS!RsNext(Held)
    PROVE  RsCallsInv'
<1>0. TypeOK /\ GrantsInv /\ RS!RsTypeOK /\ RsCallsInv
  BY DEF T2IInv, IInv
<1>1. UNCHANGED <<now, grants>>
  BY DEF vars, history
<1>2. ASSUME \A u \in RsThreads :
                \/ rs_call'[u] = rs_call[u]
                \/ rs_call'[u].op \notin {"consume", "command"}
                \/ /\ rs_call[u].op = "consume"
                   /\ rs_call'[u].token = rs_call[u].token
                   /\ rs_call'[u].at = rs_call[u].at
      PROVE  RsCallsInv'
  BY <1>0, <1>1, <1>2 DEF RsCallsInv
<1>3. ASSUME NEW t \in RsThreads, NEW tok \in Held, NEW a \in Actions,
             RS!ExecuteValidate(t, tok, a)
      PROVE  RsCallsInv'
  <2>1. /\ tok.jti \in DOMAIN grants
        /\ tok = grants[tok.jti].token
        /\ grants[tok.jti].at <= now
        /\ now <= grants[tok.jti].payload.exp
    BY <1>0, <1>3, RsAcceptedIsMinted, SameReading DEF RS!ExecuteValidate
  <2>2. /\ rs_call'[t] = [op |-> "consume", token |-> tok, action |-> a, at |-> now]
        /\ \A u \in RsThreads \ {t} : rs_call'[u] = rs_call[u]
    BY <1>0, <1>3 DEF RS!ExecuteValidate, RS!RsTypeOK
  <2> QED
    BY <1>0, <1>1, <2>1, <2>2 DEF RsCallsInv
<1>4. ASSUME NEW t \in RsThreads, RS!Consume(t) PROVE RsCallsInv'
  <2>1. rs_call[t] \in [op: {"consume", "command"}, token: Tokens,
                        action: Actions, at: Nat]
    BY <1>0, <1>4, RsCallTyped DEF RS!Consume
  <2> QED
    BY <1>0, <1>2, <1>4, <2>1 DEF RS!Consume, RS!RsTypeOK
<1>5. ASSUME NEW t \in RsThreads,
             \/ \E tok \in Held, a \in Actions : RS!ExecuteRefuse(t, tok, a)
             \/ RS!ConsumeRefuse(t) \/ RS!ExecuteUnknown(t)
             \/ RS!ExecuteRaises(t) \/ RS!ExecuteCommand(t)
      PROVE  RsCallsInv'
  <2>1. rs_call' = [rs_call EXCEPT ![t] = RS!RsIdle]
    BY <1>5 DEF RS!ExecuteRefuse, RS!ConsumeRefuse, RS!ExecuteUnknown,
                RS!ExecuteRaises, RS!ExecuteCommand, RS!RsReturn
  <2> QED
    BY <1>0, <1>2, <2>1 DEF RS!RsTypeOK, RS!RsIdle
<1>6. CASE RS!RsRestart
  BY <1>2, <1>6 DEF RS!RsRestart, RS!RsIdle
<1> QED
  BY <1>3, <1>4, <1>5, <1>6 DEF RS!RsNext

(* A token whose command is about to run stays recorded, unused and held    *)
(* alone, and the record stays within the grants.                           *)
LEMMA RsCommandsStep ==
    ASSUME T2IInv, UNCHANGED vars, RS!RsNext(Held)
    PROVE  RsCommandsInv' /\ rs_consumed' \subseteq DOMAIN grants'
<1> DEFINE Goal == RsCommandsInv /\ rs_consumed \subseteq DOMAIN grants
<1> SUFFICES Goal'
  OBVIOUS
<1>0. /\ GrantsInv /\ RS!RsTypeOK /\ RsCallsInv /\ RsCommandsInv /\ RsLogInv
      /\ rs_consumed \subseteq DOMAIN grants
  BY DEF T2IInv, IInv
<1>1. UNCHANGED grants
  BY DEF vars, history
<1>2. ASSUME UNCHANGED <<rs_consumed, rs_log, rs_epoch>>,
             \A u \in RsThreads :
                rs_call'[u] = rs_call[u] \/ rs_call'[u].op # "command"
      PROVE  Goal'
  BY <1>0, <1>1, <1>2 DEF RsCommandsInv
<1>3. ASSUME NEW t \in RsThreads, RS!Consume(t) PROVE Goal'
  <2> DEFINE j == rs_call[t].token.jti
  <2>1. /\ j \in DOMAIN grants
        /\ j \notin rs_consumed
        /\ SameAction(grants[j].payload.action, rs_call[t].action)
        /\ grants[j].payload.rar_type \in RsVerifier.rar
    BY <1>0, <1>3, RsBoundFacts, SameReading DEF RS!Consume
  <2>a. rs_call[t] \in [op: {"consume", "command"}, token: Tokens,
                        action: Actions, at: Nat]
    BY <1>0, <1>3, RsCallTyped DEF RS!Consume
  <2>2. /\ rs_call'[t].op = "command"
        /\ rs_call'[t].token.jti = j
        /\ rs_call'[t].action = rs_call[t].action
        /\ \A u \in RsThreads \ {t} : rs_call'[u] = rs_call[u]
    BY <1>0, <1>3, <2>a DEF RS!Consume, RS!RsTypeOK
  <2>3. rs_consumed' = rs_consumed \cup {j} /\ UNCHANGED <<rs_log, rs_epoch>>
    BY <1>3 DEF RS!Consume
  <2>4. \A i \in DOMAIN rs_log : rs_log[i].epoch = rs_epoch => rs_log[i].jti # j
    BY <1>0, <2>1 DEF RsLogInv
  <2>5. \A u \in RsThreads \ {t} :
            rs_call[u].op = "command" => rs_call[u].token.jti # j
    BY <1>0, <2>1 DEF RsCommandsInv
  <2> HIDE DEF j
  <2>6. RsCommandsInv'
    BY <1>0, <1>1, <2>1, <2>2, <2>3, <2>4, <2>5 DEF RsCommandsInv
  <2> QED
    BY <1>0, <1>1, <2>1, <2>3, <2>6
<1>4. ASSUME NEW t \in RsThreads, RS!ExecuteCommand(t) PROVE Goal'
  <2> DEFINE new == Len(rs_log) + 1
  <2>1. /\ rs_call'[t].op # "command"
        /\ \A u \in RsThreads \ {t} : rs_call'[u] = rs_call[u]
        /\ rs_call[t].op = "command"
        /\ UNCHANGED <<rs_consumed, rs_epoch>>
    BY <1>0, <1>4 DEF RS!ExecuteCommand, RS!RsReturn, RS!RsTypeOK, RS!RsIdle
  <2>2. /\ DOMAIN rs_log' = DOMAIN rs_log \cup {new}
        /\ \A i \in DOMAIN rs_log : rs_log'[i] = rs_log[i]
        /\ rs_log'[new].jti = rs_call[t].token.jti
    BY <1>0, <1>4, ExecuteCommandLog
  <2>3. \A u \in RsThreads \ {t} : rs_call[u].op = "command" =>
            rs_call[u].token.jti # rs_call[t].token.jti
    BY <1>0, <2>1 DEF RsCommandsInv
  <2> HIDE DEF new
  <2> QED
    BY <1>0, <1>1, <2>1, <2>2, <2>3 DEF RsCommandsInv
<1>5. ASSUME NEW t \in RsThreads,
             \/ \E tok \in Held, a \in Actions :
                   RS!ExecuteRefuse(t, tok, a) \/ RS!ExecuteValidate(t, tok, a)
             \/ RS!ConsumeRefuse(t) \/ RS!ExecuteUnknown(t) \/ RS!ExecuteRaises(t)
      PROVE  Goal'
  <2>1. /\ \A u \in RsThreads :
              rs_call'[u] = rs_call[u] \/ rs_call'[u].op # "command"
        /\ UNCHANGED <<rs_consumed, rs_log, rs_epoch>>
    BY <1>0, <1>5
    DEF RS!ExecuteRefuse, RS!ExecuteValidate, RS!ConsumeRefuse,
        RS!ExecuteUnknown, RS!ExecuteRaises, RS!RsReturn, RS!RsTypeOK, RS!RsIdle
  <2> QED
    BY <1>2, <2>1
<1>6. CASE RS!RsRestart
  BY <1>6 DEF RS!RsRestart, RsCommandsInv, RS!RsIdle
<1> QED
  BY <1>3, <1>4, <1>5, <1>6 DEF RS!RsNext

(* What the log says of a token stays true, and no token is executed twice  *)
(* in one life of the resource server.                                      *)
LEMMA RsLogStep ==
    ASSUME T2IInv, UNCHANGED vars, RS!RsNext(Held)
    PROVE  RsLogInv' /\ RsSpentOncePerLife'
<1>0. /\ RS!RsTypeOK /\ RsCallsInv /\ RsCommandsInv /\ RsLogInv /\ RsSpentOncePerLife
      /\ rs_consumed \subseteq DOMAIN grants
  BY DEF T2IInv
<1>1. UNCHANGED grants
  BY DEF vars, history
<1>2. ASSUME UNCHANGED <<rs_log, rs_epoch>>, rs_consumed \subseteq rs_consumed'
      PROVE  RsLogInv' /\ RsSpentOncePerLife'
  BY <1>0, <1>1, <1>2 DEF RsLogInv, RsSpentOncePerLife
<1>3. ASSUME NEW t \in RsThreads, RS!ExecuteCommand(t)
      PROVE  RsLogInv' /\ RsSpentOncePerLife'
  <2> DEFINE new == Len(rs_log) + 1
             j == rs_call[t].token.jti
  <2>1. /\ DOMAIN rs_log' = DOMAIN rs_log \cup {new}
        /\ new \notin DOMAIN rs_log
        /\ \A i \in DOMAIN rs_log : rs_log'[i] = rs_log[i]
        /\ rs_log'[new].jti = j
        /\ rs_log'[new].action = rs_call[t].action
        /\ rs_log'[new].at = rs_call[t].at
        /\ rs_log'[new].epoch = rs_epoch
    BY <1>0, <1>3, ExecuteCommandLog
  <2>2. UNCHANGED <<rs_consumed, rs_epoch>> /\ rs_epoch \in Nat
    BY <1>0, <1>3 DEF RS!ExecuteCommand, RS!RsTypeOK
  <2>3. /\ j \in rs_consumed
        /\ j \in DOMAIN grants
        /\ SameAction(grants[j].payload.action, rs_call[t].action)
        /\ grants[j].payload.rar_type \in RsVerifier.rar
        /\ grants[j].at <= rs_call[t].at
        /\ rs_call[t].at <= grants[j].payload.exp
        /\ \A i \in DOMAIN rs_log : rs_log[i].epoch = rs_epoch => rs_log[i].jti # j
    BY <1>0, <1>3 DEF RS!ExecuteCommand, RsCallsInv, RsCommandsInv
  <2> HIDE DEF new, j
  <2>4. RsLogInv'
    BY <1>0, <1>1, <2>1, <2>2, <2>3 DEF RsLogInv
  <2>5. RsSpentOncePerLife'
    BY <1>0, <2>1, <2>3 DEF RsSpentOncePerLife
  <2> QED
    BY <2>4, <2>5
<1>4. CASE RS!RsRestart
  <2>1. UNCHANGED rs_log /\ rs_epoch' = rs_epoch + 1 /\ rs_epoch \in Nat
    BY <1>0, <1>4 DEF RS!RsRestart, RS!RsTypeOK
  <2>2. ASSUME NEW i \in DOMAIN rs_log
        PROVE  rs_log[i].epoch \in Nat /\ rs_log[i].epoch <= rs_epoch
    BY <1>0, RsEntryTyped DEF RsLogInv
  <2>3. \A i \in DOMAIN rs_log :
            rs_log[i].epoch # rs_epoch' /\ rs_log[i].epoch <= rs_epoch'
    BY <2>1, <2>2
  <2> QED
    BY <1>0, <1>1, <2>1, <2>3 DEF RsLogInv, RsSpentOncePerLife
<1> QED
  BY <1>2, <1>3, <1>4
  DEF RS!RsNext, RS!ExecuteRefuse, RS!ExecuteValidate, RS!ConsumeRefuse,
      RS!Consume, RS!ExecuteUnknown, RS!ExecuteRaises

(* A recorded token has been executed in this life of the resource server,  *)
(* or a thread is about to, or its action is none that the server can run.  *)
LEMMA RsLostStep ==
    ASSUME T2IInv, UNCHANGED vars, RS!RsNext(Held)
    PROVE  RsTokenLostOnlyToBadCall'
<1>0. /\ RS!RsTypeOK /\ RsCommandsInv /\ RsTokenLostOnlyToBadCall
      /\ rs_consumed \subseteq DOMAIN grants
  BY DEF T2IInv
<1>1. UNCHANGED grants
  BY DEF vars, history
<1>2. ASSUME UNCHANGED <<rs_consumed, rs_log, rs_epoch>>,
             \A u \in RsThreads :
                rs_call[u].op = "command" => rs_call'[u] = rs_call[u]
      PROVE  RsTokenLostOnlyToBadCall'
  BY <1>0, <1>1, <1>2 DEF RsTokenLostOnlyToBadCall
<1>3. ASSUME NEW t \in RsThreads,
             \/ \E tok \in Held, a \in Actions :
                   RS!ExecuteRefuse(t, tok, a) \/ RS!ExecuteValidate(t, tok, a)
             \/ RS!ConsumeRefuse(t)
      PROVE  RsTokenLostOnlyToBadCall'
  <2>1. /\ UNCHANGED <<rs_consumed, rs_log, rs_epoch>>
        /\ \A u \in RsThreads \ {t} : rs_call'[u] = rs_call[u]
        /\ rs_call[t].op # "command"
    BY <1>0, <1>3
    DEF RS!ExecuteRefuse, RS!ExecuteValidate, RS!ConsumeRefuse, RS!RsReturn,
        RS!RsTypeOK, RS!RsIdle
  <2> QED
    BY <1>2, <2>1
<1>4. ASSUME NEW t \in RsThreads, RS!Consume(t)
      PROVE  RsTokenLostOnlyToBadCall'
  <2> DEFINE j == rs_call[t].token.jti
  <2>1. rs_call[t] \in [op: {"consume", "command"}, token: Tokens,
                        action: Actions, at: Nat]
    BY <1>0, <1>4, RsCallTyped DEF RS!Consume
  <2>2. /\ rs_call'[t].op = "command"
        /\ rs_call'[t].token.jti = j
        /\ rs_call[t].op = "consume"
        /\ \A u \in RsThreads \ {t} : rs_call'[u] = rs_call[u]
    BY <1>0, <1>4, <2>1 DEF RS!Consume, RS!RsTypeOK
  <2>3. rs_consumed' = rs_consumed \cup {j} /\ UNCHANGED <<rs_log, rs_epoch>>
    BY <1>4 DEF RS!Consume
  <2> HIDE DEF j
  <2> QED
    BY <1>0, <1>1, <2>2, <2>3 DEF RsTokenLostOnlyToBadCall
<1>5. ASSUME NEW t \in RsThreads, RS!ExecuteUnknown(t) \/ RS!ExecuteRaises(t)
      PROVE  RsTokenLostOnlyToBadCall'
  <2> DEFINE j == rs_call[t].token.jti
  <2>1. /\ rs_call[t].op = "command"
        /\ \A u \in RsThreads \ {t} : rs_call'[u] = rs_call[u]
        /\ UNCHANGED <<rs_consumed, rs_log, rs_epoch>>
    BY <1>0, <1>5
    DEF RS!ExecuteUnknown, RS!ExecuteRaises, RS!RsReturn, RS!RsTypeOK
  <2>2. rs_call[t].action \in Actions
    BY <1>0, <2>1, RsCallTyped
  <2>3. rs_call[t].action \in Actions \ RunnableActions
    BY <1>5, <2>2, RsAssumption DEF RS!ExecuteUnknown, RS!ExecuteRaises
  <2>4. SameAction(grants[j].payload.action, rs_call[t].action)
    BY <1>0, <2>1 DEF RsCommandsInv
  <2> HIDE DEF j
  <2>5. \E a \in Actions \ RunnableActions : SameAction(grants[j].payload.action, a)
    BY <2>3, <2>4
  <2> QED
    BY <1>0, <1>1, <2>1, <2>5 DEF RsTokenLostOnlyToBadCall, j
<1>6. ASSUME NEW t \in RsThreads, RS!ExecuteCommand(t)
      PROVE  RsTokenLostOnlyToBadCall'
  <2> DEFINE new == Len(rs_log) + 1
             j == rs_call[t].token.jti
  <2>1. /\ DOMAIN rs_log' = DOMAIN rs_log \cup {new}
        /\ \A i \in DOMAIN rs_log : rs_log'[i] = rs_log[i]
        /\ rs_log'[new].jti = j
        /\ rs_log'[new].epoch = rs_epoch
    BY <1>0, <1>6, ExecuteCommandLog
  <2>2. /\ UNCHANGED <<rs_consumed, rs_epoch>>
        /\ \A u \in RsThreads \ {t} : rs_call'[u] = rs_call[u]
    BY <1>0, <1>6 DEF RS!ExecuteCommand, RS!RsReturn, RS!RsTypeOK
  <2> HIDE DEF new
  <2> QED
    BY <1>0, <1>1, <2>1, <2>2 DEF RsTokenLostOnlyToBadCall
<1>7. CASE RS!RsRestart
  BY <1>7 DEF RS!RsRestart, RsTokenLostOnlyToBadCall
<1> QED
  BY <1>3, <1>4, <1>5, <1>6, <1>7 DEF RS!RsNext

(* The invariant holds of a fresh deployment.                               *)
LEMMA InitT2IInv == T2Init => T2IInv
<1> SUFFICES ASSUME T2Init PROVE T2IInv
  OBVIOUS
<1>1. IInv
  BY InitIInv DEF T2Init
<1>2. RS!RsTypeOK
  BY RsAssumption
  DEF T2Init, RS!RsInit, RS!RsTypeOK, RS!RsCalls, RS!RsOutcomes
<1> QED
  BY <1>1, <1>2
  DEF T2Init, RS!RsInit, RS!RsIdle, T2IInv, RsCallsInv, RsCommandsInv, RsLogInv,
      RsSpentOncePerLife, RsTokenLostOnlyToBadCall

(* Every step of either process, or of the clock, preserves the invariant.  *)
LEMMA NextT2IInv == T2IInv /\ [T2Next]_allVars => T2IInv'
<1> SUFFICES ASSUME T2IInv, [T2Next]_allVars PROVE T2IInv'
  OBVIOUS
<1>1. IInv'
  BY VaultSimulated, NextIInv DEF T2IInv
<1>2. RS!RsTypeOK'
  BY RsTyped DEF T2IInv, IInv
<1>3. CASE UNCHANGED rsVars
  BY <1>1, <1>2, <1>3, VaultSimulated, VaultKeepsRs DEF T2IInv
<1>4. CASE RsStep
  BY <1>1, <1>2, <1>4, RsCallsStep, RsCommandsStep, RsLogStep,
     RsLostStep
  DEF RsStep, T2IInv
<1> QED
  BY <1>3, <1>4 DEF T2Next, VaultStep, ClockStep, allVars

(* Vault, resource server and the histories stay consistent with one        *)
(* another in every reachable state.                                        *)
THEOREM DeploymentInvariance == T2Spec => []T2IInv
  BY InitT2IInv, NextT2IInv, PTL DEF T2Spec

(* The vault of the deployment is the co-located one, some of whose steps   *)
(* nobody takes: what OAuthVault.mint guarantees there, it guarantees here. *)
THEOREM DeploymentRefinesVault == T2Spec => Spec
  BY VaultSimulated, PTL DEF T2Spec, T2Init, Spec

(* The resource server, which never sees the human's signature, executes    *)
(* only an action a human signed, or one that == does not tell from it.     *)
THEOREM RsBindingHolds == T2Spec => []RsParameterBinding
<1>1. T2IInv => RsParameterBinding
  <2> SUFFICES ASSUME T2IInv, NEW i \in DOMAIN rs_log
               PROVE  /\ rs_log[i].jti \in DOMAIN grants
                      /\ \E p \in approvals :
                            /\ Canonical(p) = FormOf(rs_log[i])
                            /\ SameAction(p.action, rs_log[i].action)
                            /\ p.rar_type \in RsVerifier.rar
    BY DEF RsParameterBinding
  <2> DEFINE p == grants[rs_log[i].jti].payload
  <2>1. /\ rs_log[i].jti \in DOMAIN grants
        /\ SameAction(p.action, rs_log[i].action)
        /\ p.rar_type \in RsVerifier.rar
    BY DEF T2IInv, RsLogInv
  <2>2. p \in approvals
    BY <2>1 DEF T2IInv, IInv, GrantsInv, PassedMint
  <2> QED
    BY <2>1, <2>2 DEF FormOf
<1> QED
  BY <1>1, DeploymentInvariance, PTL

(* One signature executes at most once for each pair of lives of the two    *)
(* processes.                                                               *)
THEOREM ExecutionPerPairOfLives == T2Spec => []OneExecutionPerPairOfLives
<1>1. T2IInv => OneExecutionPerPairOfLives
  BY DEF T2IInv, IInv, RsLogInv, RsSpentOncePerLife,
         SignatureExchangedOncePerLife, OneExecutionPerPairOfLives, FormOf
<1> QED
  BY <1>1, DeploymentInvariance, PTL

(* A token is lost only to a command the resource server cannot run: never  *)
(* to a race, a refusal or a call whose args drifted.                       *)
THEOREM RsTokensAreNotLost == T2Spec => []RsTokenLostOnlyToBadCall
<1>1. T2IInv => RsTokenLostOnlyToBadCall
  BY DEF T2IInv
<1> QED
  BY <1>1, DeploymentInvariance, PTL

(* However often either process restarts, no execution begins outside the   *)
(* interval from the token's mint to the exp that the human signed.         *)
THEOREM RsReplayWindow == T2Spec => []RsReplayWindowBounded
<1>1. T2IInv => RsReplayWindowBounded
  <2> SUFFICES ASSUME T2IInv, NEW i \in DOMAIN rs_log
               PROVE  LET g == grants[rs_log[i].jti]
                      IN  /\ g.at <= rs_log[i].at
                          /\ rs_log[i].at <= g.payload.exp
                          /\ rs_log[i].at <= g.at + MaxTTL
    BY DEF RsReplayWindowBounded
  <2> DEFINE g == grants[rs_log[i].jti]
  <2>1. /\ rs_log[i].jti \in DOMAIN grants
        /\ g.at <= rs_log[i].at
        /\ rs_log[i].at <= g.payload.exp
    BY DEF T2IInv, RsLogInv
  <2>2. g.payload.exp <= g.at + MaxTTL
    BY <2>1 DEF T2IInv, IInv, GrantsInv, PassedMint
  <2>3. /\ rs_log[i].at \in Nat
        /\ g.payload.exp \in Nat
        /\ g.at + MaxTTL \in Nat
    BY <2>1, RsEntryTyped, GrantTyped, MaxTTLAssumption DEF T2IInv, IInv
  <2> QED
    BY <2>1, <2>2, <2>3
<1> QED
  BY <1>1, DeploymentInvariance, PTL

-----------------------------------------------------------------------------
(* Vault and resource server together implement the delegation contract:    *)
(* one is its issuer, the other its executor.                               *)

(* A fresh deployment is a fresh delegation.                                *)
LEMMA RsContractInit == T2Init => RsContract!Init
<1> SUFFICES ASSUME T2Init PROVE RsContract!Init
  OBVIOUS
<1>1. [i \in DOMAIN rs_log |->
          [credential |-> CredentialOf(rs_log[i].jti), life |-> rs_log[i].epoch,
           action |-> rs_log[i].action]] = << >>
  BY DEF T2Init, RS!RsInit
<1> QED
  BY <1>1 DEF T2Init, RS!RsInit, Init, memory, history, RsContract!Init

(* Every step of the vault is a step of the issuer or a stutter.            *)
LEMMA IssuerStep ==
    ASSUME T2IInv, VaultStep
    PROVE  [RsContract!Next]_(RsContract!vars)
<1> USE DEF memory, history
<1> DEFINE approvedC  == {Canonical(p) : p \in approvals}
           issuedC    == {CredentialOf(j) : j \in DOMAIN grants}
           redeemedC  == {CredentialOf(j) : j \in rs_consumed}
           lifeC      == [issuer |-> epoch, executor |-> rs_epoch]
           Seen(i)    == [credential |-> CredentialOf(rs_log[i].jti),
                          life       |-> rs_log[i].epoch,
                          action     |-> rs_log[i].action]
           seenLog    == [i \in DOMAIN rs_log |-> Seen(i)]
<1>0. /\ IInv /\ TypeOK /\ ApprovalsInv /\ MintCallsInv /\ RsLogInv
      /\ rs_consumed \subseteq DOMAIN grants
      /\ UNCHANGED <<rs_consumed, rs_epoch, rs_log>>
  BY DEF T2IInv, IInv, VaultStep, rsVars
<1>1. ASSUME UNCHANGED <<epoch, approvals, grants>>
      PROVE  UNCHANGED RsContract!vars
  BY <1>0, <1>1 DEF RsContract!vars, CredentialOf
<1>2. ASSUME NEW a \in Actions, NEW r \in RarTypes, NEW c \in Contexts,
             NEW f \in BOOLEAN, NEW ttl \in TTLs, Sign(a, r, c, f, ttl)
      PROVE  RsContract!Next
  <2> DEFINE p == SignAuthorizationDetails(a, r, c, f, UserSecret, ttl, now)
  <2>1. Canonical(p) \in SignableForms
    BY <1>0 DEF TypeOK, Canonical, SignAuthorizationDetails, SignableForms
  <2>2. approvedC' = approvedC \cup {Canonical(p)}
    BY <1>2 DEF Sign
  <2>3. UNCHANGED <<issuedC, redeemedC, lifeC, seenLog>>
    BY <1>0, <1>2 DEF Sign, CredentialOf
  <2>4. RsContract!Approve(Canonical(p))
    BY <2>2, <2>3 DEF RsContract!Approve
  <2> QED
    BY <2>1, <2>4 DEF RsContract!Next
<1>3. ASSUME NEW t \in Threads, MintEncode(t) PROVE RsContract!Next
  <2> DEFINE c == Canonical(call[t].payload)
             k == [consent |-> c, life |-> epoch]
  <2>1. c \in approvedC /\ c \in SignableForms
    BY <1>0, <1>3 DEF MintEncode, MintCallsInv, PassedMint, ApprovalsInv
  <2>2. /\ \A j \in DOMAIN grants : CredentialOf(j)' = CredentialOf(j)
        /\ issuedC' = issuedC \cup {k}
        /\ k \notin issuedC
    BY <1>0, <1>3, IssuedGrows
  <2>3. UNCHANGED <<epoch, approvals>>
    BY <1>3 DEF MintEncode
  <2>4. redeemedC' = redeemedC
    BY <1>0, <2>2
  <2>5. seenLog' = seenLog
    BY <1>0, <2>2 DEF RsLogInv
  <2>6. UNCHANGED <<approvedC, lifeC>>
    BY <1>0, <2>3
  <2>7. RsContract!Exchange(c)
    BY <2>1, <2>2, <2>4, <2>5, <2>6
    DEF RsContract!Exchange, RsContract!CredentialFor
  <2> QED
    BY <2>1, <2>7 DEF RsContract!Next
<1>4. ASSUME Restart PROVE RsContract!Next
  <2> DEFINE who == {"issuer"}
  <2>1. lifeC' = [issuer   |-> lifeC.issuer + (IF "issuer" \in who THEN 1 ELSE 0),
                  executor |-> lifeC.executor + (IF "executor" \in who THEN 1 ELSE 0)]
    <3>1. epoch' = epoch + 1 /\ rs_epoch' = rs_epoch /\ rs_epoch + 0 = rs_epoch
      BY <1>0, <1>4 DEF Restart, T2IInv, RS!RsTypeOK
    <3>2. "issuer" \in who /\ "executor" \notin who
      OBVIOUS
    <3> QED
      BY <3>1, <3>2
  <2>2. UNCHANGED <<approvedC, issuedC, redeemedC, seenLog>>
    BY <1>0, <1>4 DEF Restart, CredentialOf
  <2>3. RsContract!Restart(who)
    BY <2>1, <2>2 DEF RsContract!Restart
  <2> QED
    BY <2>3 DEF RsContract!Next
<1>5. ASSUME NEW t \in Threads,
             \/ \E p \in Presentable : MintRefuse(t, p) \/ MintVerify(t, p)
             \/ MintReplay(t) \/ MintRecord(t) \/ MintEncodeFails(t)
      PROVE  UNCHANGED RsContract!vars
  BY <1>1, <1>5
  DEF MintRefuse, MintVerify, MintReplay, MintRecord, MintEncodeFails
<1> QED
  BY <1>2, <1>3, <1>4, <1>5 DEF VaultStep, MintNext

(* Every step of the resource server is a step of the executor or a         *)
(* stutter.                                                                 *)
LEMMA ExecutorStep ==
    ASSUME T2IInv, RsStep
    PROVE  [RsContract!Next]_(RsContract!vars)
<1> DEFINE approvedC  == {Canonical(p) : p \in approvals}
           issuedC    == {CredentialOf(j) : j \in DOMAIN grants}
           redeemedC  == {CredentialOf(j) : j \in rs_consumed}
           lifeC      == [issuer |-> epoch, executor |-> rs_epoch]
           Seen(i)    == [credential |-> CredentialOf(rs_log[i].jti),
                          life       |-> rs_log[i].epoch,
                          action     |-> rs_log[i].action]
           seenLog    == [i \in DOMAIN rs_log |-> Seen(i)]
<1>0. /\ IInv /\ GrantsInv /\ RS!RsTypeOK /\ RsCallsInv /\ RsCommandsInv /\ RsLogInv
      /\ rs_consumed \subseteq DOMAIN grants
      /\ UNCHANGED <<epoch, approvals, grants>>
      /\ RS!RsNext(Held)
  BY DEF T2IInv, IInv, RsStep, vars, history
<1>1. ASSUME UNCHANGED <<rs_consumed, rs_epoch, rs_log>>
      PROVE  UNCHANGED RsContract!vars
  BY <1>0, <1>1 DEF RsContract!vars, CredentialOf
<1>2. ASSUME NEW t \in RsThreads, RS!Consume(t) PROVE RsContract!Next
  <2> DEFINE jti == rs_call[t].token.jti
             k == CredentialOf(jti)
  <2>1. jti \in DOMAIN grants /\ jti \notin rs_consumed
    BY <1>0, <1>2, RsBoundFacts, SameReading DEF RS!Consume
  <2>2. k \in issuedC
    BY <2>1
  <2>3. k \notin redeemedC
    BY <1>0, <2>1, SameCredential
  <2>4. redeemedC' = redeemedC \cup {k}
    BY <1>0, <1>2 DEF RS!Consume, CredentialOf
  <2>5. UNCHANGED <<approvedC, issuedC, lifeC, seenLog>>
    BY <1>0, <1>2 DEF RS!Consume, CredentialOf
  <2>6. RsContract!Redeem(k)
    BY <2>2, <2>3, <2>4, <2>5 DEF RsContract!Redeem, RsContract!Honoured
  <2> QED
    BY <2>2, <2>6 DEF RsContract!Next
<1>3. ASSUME NEW t \in RsThreads, RS!ExecuteCommand(t) PROVE RsContract!Next
  <2> DEFINE jti    == rs_call[t].token.jti
             action == rs_call[t].action
             k      == CredentialOf(jti)
             new    == Len(rs_log) + 1
  <2>1. /\ jti \in rs_consumed /\ jti \in DOMAIN grants
        /\ SameAction(grants[jti].payload.action, action)
        /\ \A i \in DOMAIN rs_log :
              rs_log[i].epoch = rs_epoch => rs_log[i].jti # jti
    BY <1>0, <1>3 DEF RS!ExecuteCommand, RsCommandsInv
  <2>2. k \in redeemedC /\ k \in issuedC
    BY <2>1
  <2>3. action \in DOMAIN ValueOf
    BY <1>0, <1>3, ValueAssumption, RsCallTyped DEF RS!ExecuteCommand
  <2>4. ValueOf[action] = ValueOf[k.consent.action]
    BY <2>1 DEF SameAction, CredentialOf, Canonical
  <2>5. \A i \in DOMAIN rs_log :
            rs_log[i].epoch = rs_epoch => CredentialOf(rs_log[i].jti) # k
    BY <1>0, <2>1, SameCredential DEF RsLogInv
  <2>6. /\ DOMAIN rs_log' = DOMAIN rs_log \cup {new}
        /\ new \notin DOMAIN rs_log
        /\ \A i \in DOMAIN rs_log : rs_log'[i] = rs_log[i]
        /\ rs_log'[new].jti = jti /\ rs_log'[new].action = action
        /\ rs_log'[new].epoch = rs_epoch
    BY <1>0, <1>3, ExecuteCommandLog
  <2>7. UNCHANGED <<rs_consumed, rs_epoch, epoch, approvals, grants>>
    BY <1>0, <1>3 DEF RS!ExecuteCommand
  <2>8. seenLog' = Append(seenLog, [credential |-> k, life |-> rs_epoch,
                                    action |-> action])
    <3> DEFINE e == [credential |-> k, life |-> rs_epoch, action |-> action]
               n == Len(rs_log)
    <3>1. n \in Nat /\ DOMAIN rs_log = 1..n
      BY <1>0 DEF RS!RsTypeOK
    <3>2. seenLog = [i \in 1..n |-> seenLog[i]]
      BY <3>1
    <3>3. seenLog' = [i \in 1..n \cup {n + 1} |->
                        IF i = n + 1 THEN e ELSE seenLog[i]]
      BY <2>6, <2>7, <3>1 DEF CredentialOf
    <3>4. [i \in 1..n \cup {n + 1} |->
             IF i = n + 1 THEN e ELSE seenLog[i]] = Append(seenLog, e)
      <4> HIDE DEF e, n, seenLog
      <4> QED
        BY <3>1, <3>2, MappedAppend
    <3> QED
      <4> HIDE DEF e, n, seenLog
      <4>1. seenLog' = Append(seenLog, e)
        BY <3>3, <3>4
      <4> QED
        BY <4>1 DEF e
  <2>9. \A i \in DOMAIN seenLog :
            ~(seenLog[i].credential = k /\ seenLog[i].life = rs_epoch)
    BY <2>5
  <2>10. UNCHANGED <<approvedC, issuedC, redeemedC, lifeC>>
    BY <2>7 DEF CredentialOf
  <2>11. lifeC.executor = rs_epoch
    OBVIOUS
  <2>12. ASSUME NEW x, NEW y, x = k, y = action
         PROVE  RsContract!Perform(x, y)
    BY <2>12, <2>2, <2>4, <2>8, <2>9, <2>10, <2>11, Zenon
    DEF RsContract!Perform, RsContract!Performed
  <2>13. \E x \in issuedC : \E y \in DOMAIN ValueOf : RsContract!Perform(x, y)
    <3> HIDE DEF k, action, issuedC
    <3> QED
      BY <2>2, <2>3, <2>12, Zenon
  <2> QED
    BY <2>13, Zenon DEF RsContract!Next
<1>4. ASSUME RS!RsRestart PROVE RsContract!Next
  <2> DEFINE who == {"executor"}
  <2>1. lifeC' = [issuer   |-> lifeC.issuer + (IF "issuer" \in who THEN 1 ELSE 0),
                  executor |-> lifeC.executor + (IF "executor" \in who THEN 1 ELSE 0)]
    <3>1. rs_epoch' = rs_epoch + 1 /\ epoch' = epoch /\ epoch + 0 = epoch
      BY <1>0, <1>4 DEF RS!RsRestart, IInv, TypeOK
    <3>2. "executor" \in who /\ "issuer" \notin who
      OBVIOUS
    <3> QED
      BY <3>1, <3>2
  <2>2. redeemedC' = {}
    BY <1>4 DEF RS!RsRestart
  <2>3. UNCHANGED <<approvedC, issuedC, seenLog>>
    BY <1>0, <1>4 DEF RS!RsRestart, CredentialOf
  <2>4. RsContract!Restart(who)
    BY <2>1, <2>2, <2>3 DEF RsContract!Restart
  <2> QED
    BY <2>4 DEF RsContract!Next
<1>5. ASSUME NEW t \in RsThreads,
             \/ \E tok \in Held, a \in Actions :
                   RS!ExecuteRefuse(t, tok, a) \/ RS!ExecuteValidate(t, tok, a)
             \/ RS!ConsumeRefuse(t) \/ RS!ExecuteUnknown(t) \/ RS!ExecuteRaises(t)
      PROVE  UNCHANGED RsContract!vars
  BY <1>1, <1>5
  DEF RS!ExecuteRefuse, RS!ExecuteValidate, RS!ConsumeRefuse, RS!ExecuteUnknown,
      RS!ExecuteRaises
<1> QED
  BY <1>0, <1>2, <1>3, <1>4, <1>5 DEF RS!RsNext

(* Two processes that share no record of what was used and restart on their *)
(* own keep the delegation contract between them.                           *)
THEOREM DeploymentImplementsContract == T2Spec => RsKeepsContract
<1>1. ASSUME T2IInv, [T2Next]_allVars
      PROVE  [RsContract!Next]_(RsContract!vars)
  <2>1. CASE ClockStep \/ UNCHANGED allVars
    <3>1. UNCHANGED <<approvals, grants, epoch, rs_consumed, rs_epoch, rs_log>>
      BY <2>1 DEF ClockStep, Tick, allVars, vars, history, rsVars
    <3> QED
      BY <3>1 DEF RsContract!vars, CredentialOf
  <2> QED
    BY <1>1, <2>1, IssuerStep, ExecutorStep DEF T2Next
<1> QED
  BY <1>1, InitT2IInv, NextT2IInv, RsContractInit, PTL
  DEF T2Spec, RsKeepsContract, RsContract!Spec
=============================================================================
