--------------------------- MODULE A2aBridgeProofs ---------------------------
(***************************************************************************)
(* Proofs about the A2A surface for every number of tasks, contexts,       *)
(* actions, answers, approvals and restarts, and for ids of any segments.  *)
(***************************************************************************)
EXTENDS A2aBridge, InProcessVaultProofs

(* The invariant's parts.                                                   *)
LEMMA Parts ==
    ASSUME A2aIInv
    PROVE  /\ TypeOK /\ A2aTypeOK /\ IInv /\ SignedMintable
           /\ SentInv /\ ResumedInv /\ MintedInv
           /\ ElicitationsLeadBack /\ ResumedByOwnContext /\ SignedProposalsRun
BY DEF A2aIInv, A2aTypeOK

-----------------------------------------------------------------------------
(* Elicitation ids.                                                         *)

(* Splitting gives at least one part.                                       *)
LEMMA SplitLen == ASSUME NEW c, IsSplit(c) PROVE Len(c) \in Nat \ {0}
BY DEF IsSplit

(* ... which may be taken from any larger set.                              *)
LEMMA SplitIn ==
    ASSUME NEW c, IsSplit(c), NEW S, \A i \in 1..Len(c) : c[i] \in S
    PROVE  c \in Seq(S)
BY DEF IsSplit

(* Four sequences joined, of which the outer two have one element.          *)
LEMMA Joined ==
    ASSUME NEW S, NEW e \in S, NEW g \in S, NEW c \in Seq(S), NEW k \in Seq(S)
    PROVE  LET id == ((<< e >> \o c) \o k) \o << g >>
           IN  /\ Len(id) = 2 + Len(c) + Len(k)
               /\ Len(c) = 1 /\ Len(k) = 1 =>
                     id[1] = e /\ id[2] = c[1] /\ id[3] = k[1] /\ id[4] = g
<1> DEFINE x == << e >> \o c
           y == x \o k
           id == y \o << g >>
<1>1. << e >> \in Seq(S) /\ << g >> \in Seq(S) /\ Len(<< e >>) = 1 /\ Len(<< g >>) = 1
      /\ << e >>[1] = e /\ << g >>[1] = g /\ Len(c) \in Nat /\ Len(k) \in Nat
  OBVIOUS
<1>2. /\ x \in Seq(S) /\ Len(x) = 1 + Len(c)
      /\ \A i \in 1..(1 + Len(c)) : x[i] = IF i <= 1 THEN << e >>[i] ELSE c[i - 1]
  BY <1>1, ConcatProperties
<1> HIDE DEF x
<1>3. /\ y \in Seq(S) /\ Len(y) = Len(x) + Len(k)
      /\ \A i \in 1..(Len(x) + Len(k)) :
            y[i] = IF i <= Len(x) THEN x[i] ELSE k[i - Len(x)]
  BY <1>2, ConcatProperties
<1> HIDE DEF y
<1>4. /\ Len(id) = Len(y) + 1
      /\ \A i \in 1..(Len(y) + 1) :
            id[i] = IF i <= Len(y) THEN y[i] ELSE << g >>[i - Len(y)]
  BY <1>1, <1>3, ConcatProperties
<1> HIDE DEF id
<1>5. ASSUME Len(c) = 1, Len(k) = 1
      PROVE  id[1] = e /\ id[2] = c[1] /\ id[3] = k[1] /\ id[4] = g
  <2>1. x[1] = e /\ x[2] = c[1] /\ Len(x) = 2
    BY <1>1, <1>2, <1>5
  <2>2. y[1] = e /\ y[2] = c[1] /\ y[3] = k[1] /\ Len(y) = 3
    BY <1>1, <1>3, <1>5, <2>1
  <2> QED
    BY <1>1, <1>4, <2>2
<1>6. Len(id) = 2 + Len(c) + Len(k)
  BY <1>1, <1>2, <1>3, <1>4
<1> QED
  BY <1>5, <1>6 DEF id, y, x

(* An id of two colon-free parts reads back as these parts and its tag; one *)
(* of more parts does not have the length of an id.                         *)
LEMMA TaggedShape ==
    ASSUME NEW c, NEW k, NEW tag, IsSplit(c), IsSplit(k),
           NEW id, id = TaggedId(c, k, tag)
    PROVE  /\ Len(id) = 4 <=> Len(c) = 1 /\ Len(k) = 1
           /\ Len(id) = 4 => /\ c = << id[2] >> /\ k = << id[3] >>
                             /\ id[1] = "el" /\ id[4] = tag
<1> DEFINE S == {"el"} \cup {c[i] : i \in 1..Len(c)} \cup {k[i] : i \in 1..Len(k)}
                    \cup {tag}
<1>1. c \in Seq(S) /\ k \in Seq(S) /\ "el" \in S /\ tag \in S
  <2>1. /\ \A i \in 1..Len(c) : c[i] \in S
        /\ \A i \in 1..Len(k) : k[i] \in S
        /\ "el" \in S /\ tag \in S
    OBVIOUS
  <2> HIDE DEF S
  <2> QED
    BY <2>1, SplitIn
<1>2. Len(c) \in Nat \ {0} /\ Len(k) \in Nat \ {0}
  BY SplitLen
<1>3. id = ((<< "el" >> \o c) \o k) \o << tag >>
  BY DEF TaggedId
<1> HIDE DEF S
<1>4. /\ Len(id) = 2 + Len(c) + Len(k)
      /\ Len(c) = 1 /\ Len(k) = 1 =>
            id[1] = "el" /\ id[2] = c[1] /\ id[3] = k[1] /\ id[4] = tag
  BY <1>1, <1>3, Joined
<1>5. ASSUME Len(c) = 1, Len(k) = 1
      PROVE  /\ c = << id[2] >> /\ k = << id[3] >> /\ id[1] = "el"
             /\ id[4] = tag
  <2>1. c = << c[1] >> /\ k = << k[1] >>
    BY <1>1, <1>5
  <2> QED
    BY <1>4, <1>5, <2>1
<1>6. Len(id) = 4 <=> Len(c) = 1 /\ Len(k) = 1
  <2>1. /\ Len(c) \in Nat /\ Len(k) \in Nat /\ Len(c) >= 1 /\ Len(k) >= 1
        /\ Len(id) = 2 + Len(c) + Len(k)
    BY <1>2, <1>4
  <2>2. \A a, b \in Nat : a >= 1 /\ b >= 1 => (2 + a + b = 4 <=> a = 1 /\ b = 1)
    OBVIOUS
  <2> QED
    BY <2>1, <2>2
<1> QED
  BY <1>5, <1>6

(* Two texts of one part each, joined.                                      *)
LEMMA JoinedPair ==
    ASSUME NEW a, NEW b
    PROVE  << a >> \o << b >> = << a, b >>
<1> DEFINE S == {a, b}
           ab == << a >> \o << b >>
<1>1. << a >> \in Seq(S) /\ << b >> \in Seq(S) /\ Len(<< a >>) = 1 /\ Len(<< b >>) = 1
      /\ << a >>[1] = a /\ << b >>[1] = b
  OBVIOUS
<1>2. /\ ab \in Seq(S) /\ Len(ab) = Len(<< a >>) + Len(<< b >>)
      /\ \A i \in 1..(Len(<< a >>) + Len(<< b >>)) :
            ab[i] = IF i <= Len(<< a >>) THEN << a >>[i] ELSE << b >>[i - Len(<< a >>)]
  BY <1>1, ConcatProperties
<1> HIDE DEF ab, S
<1>3. ab \in Seq(S) /\ Len(ab) = 2 /\ ab[1] = a /\ ab[2] = b
  BY <1>1, <1>2
<1>4. ab = << a, b >>
  BY <1>3
<1> QED
  BY <1>4 DEF ab

(* So does the id of an elicitation, with the tag over both parts.          *)
LEMMA IdShape ==
    ASSUME NEW s, NEW c, NEW k, IsSplit(c), IsSplit(k),
           NEW id, id = ElicitationId(s, c, k)
    PROVE  /\ Len(id) = 4 <=> Len(c) = 1 /\ Len(k) = 1
           /\ Len(id) = 4 => /\ c = << id[2] >> /\ k = << id[3] >>
                             /\ id[1] = "el"
                             /\ id[4] = Tag(s, << id[2], id[3] >>)
<1>1. /\ Len(id) = 4 <=> Len(c) = 1 /\ Len(k) = 1
      /\ Len(id) = 4 => /\ c = << id[2] >> /\ k = << id[3] >>
                        /\ id[1] = "el" /\ id[4] = Tag(s, c \o k)
  BY TaggedShape DEF ElicitationId
<1>2. << id[2] >> \o << id[3] >> = << id[2], id[3] >>
  BY JoinedPair
<1> QED
  BY <1>1, <1>2

(* An id verifies under the secret that it was tagged with and no other,    *)
(* and names the context it was made for.                                   *)
LEMMA VerifiedId ==
    ASSUME NEW s, NEW secret, NEW t \in Threads,
           Verifies(secret, ElicitationId(s, ContextId[t], TaskId[t]))
    PROVE  /\ s = secret
           /\ ContextOf(ElicitationId(s, ContextId[t], TaskId[t])) = ContextId[t]
<1> DEFINE id == ElicitationId(s, ContextId[t], TaskId[t])
<1>1. IsSplit(ContextId[t]) /\ IsSplit(TaskId[t])
  BY A2aAssumption
<1>2. Len(id) = 4 /\ id[4] = Tag(secret, << id[2], id[3] >>)
  BY DEF Verifies
<1> HIDE DEF id
<1>3. ContextId[t] = << id[2] >> /\ id[4] = Tag(s, << id[2], id[3] >>)
  BY <1>1, <1>2, IdShape DEF id
<1> QED
  BY <1>2, <1>3 DEF Tag, ContextOf, id

(* What can be elicited gets an id that leads back.                         *)
LEMMA ElicitableVerifies ==
    ASSUME NEW s, NEW t \in Threads, Elicitable(ContextId[t], TaskId[t])
    PROVE  LET id == ElicitationId(s, ContextId[t], TaskId[t])
           IN  Verifies(s, id) /\ ContextOf(id) = ContextId[t]
<1> DEFINE id == ElicitationId(s, ContextId[t], TaskId[t])
<1>1. IsSplit(ContextId[t]) /\ IsSplit(TaskId[t])
  BY A2aAssumption
<1>2. Len(ContextId[t]) = 1 /\ Len(TaskId[t]) = 1
  <2>1. Len(ContextId[t]) \in Nat \ {0} /\ Len(TaskId[t]) \in Nat \ {0}
    BY <1>1, SplitLen
  <2>2. ~(Len(ContextId[t]) > 1) /\ ~(Len(TaskId[t]) > 1)
    BY DEF Elicitable, HasColon
  <2>3. \A n \in Nat \ {0} : ~(n > 1) => n = 1
    OBVIOUS
  <2> QED
    BY <2>1, <2>2, <2>3
<1> HIDE DEF id
<1>3. /\ Len(id) = 4 /\ id[1] = "el"
      /\ ContextId[t] = << id[2] >> /\ TaskId[t] = << id[3] >>
      /\ id[4] = Tag(s, << id[2], id[3] >>)
  BY <1>1, <1>2, IdShape DEF id
<1>4. id[2] # EmptyText /\ id[3] # EmptyText
  BY <1>3 DEF Elicitable, Empty
<1> QED
  BY <1>3, <1>4 DEF Verifies, ContextOf, id

(* What one task's id is under some secret, and verifies, cannot be another *)
(* secret's or lead to another context.                                     *)
LEMMA OneReading ==
    ASSUME NEW s, NEW secret, NEW t \in Threads, NEW u \in Threads,
           Elicitable(ContextId[u], TaskId[u]),
           ElicitationId(s, ContextId[t], TaskId[t]) =
               ElicitationId(secret, ContextId[u], TaskId[u])
    PROVE  LET id == ElicitationId(s, ContextId[t], TaskId[t])
           IN  Verifies(s, id) /\ ContextOf(id) = ContextId[t]
<1> DEFINE id == ElicitationId(s, ContextId[t], TaskId[t])
<1>1. Verifies(secret, id)
  BY ElicitableVerifies
<1>2. s = secret /\ ContextOf(id) = ContextId[t]
  BY <1>1, VerifiedId
<1> QED
  BY <1>1, <1>2

(* No elicitation of this life is a dead end.                               *)
LEMMA SentLeadsBack == A2aTypeOK /\ SentInv => ElicitationsLeadBack
<1> SUFFICES ASSUME A2aTypeOK, SentInv, NEW t \in Threads, NEW e \in elicitations,
                    e.id = ElicitationId(epoch, ContextId[t], TaskId[t])
             PROVE  Verifies(epoch, e.id) /\ ContextOf(e.id) = ContextId[t]
  BY DEF ElicitationsLeadBack
<1>1. PICK s \in 0..epoch, u \in Threads :
            /\ Elicitable(ContextId[u], TaskId[u])
            /\ e.id = ElicitationId(s, ContextId[u], TaskId[u])
  BY DEF SentInv
<1> QED
  BY <1>1, OneReading

(* The tag at the end of an elicitation that was sent.                      *)
LEMMA SentTag ==
    ASSUME NEW s, NEW v \in Threads, Elicitable(ContextId[v], TaskId[v]),
           NEW id, id = ElicitationId(s, ContextId[v], TaskId[v])
    PROVE  /\ id[Len(id)] = Tag(s, << id[2], id[3] >>)
           /\ ContextId[v] = << id[2] >> /\ TaskId[v] = << id[3] >>
<1>1. Len(id) = 4
  BY ElicitableVerifies DEF Verifies
<1>2. IsSplit(ContextId[v]) /\ IsSplit(TaskId[v])
  BY A2aAssumption
<1>3. /\ ContextId[v] = << id[2] >> /\ TaskId[v] = << id[3] >>
      /\ id[4] = Tag(s, << id[2], id[3] >>)
  BY <1>1, <1>2, IdShape
<1> QED
  BY <1>1, <1>3

(* What the host makes up verifies only as what it was sent in this life of *)
(* the process, tag and all.                                                *)
LEMMA HostIdSent ==
    ASSUME SentInv, epoch \in Nat, NEW id \in HostIds, Verifies(epoch, id)
    PROVE  \E e \in elicitations, u \in Threads :
              /\ e.id = id
              /\ id = ElicitationId(epoch, ContextId[u], TaskId[u])
<1>1. PICK t \in Threads, k \in Threads, tag \in SentTags \cup {Tag(-1, Empty)} :
            id = TaggedId(ContextId[t], TaskId[k], tag)
  BY DEF HostIds
<1>2. Len(id) = 4 /\ id[4] = Tag(epoch, << id[2], id[3] >>)
  BY DEF Verifies
<1>3. IsSplit(ContextId[t]) /\ IsSplit(TaskId[k])
  BY A2aAssumption
<1>4. ContextId[t] = << id[2] >> /\ TaskId[k] = << id[3] >> /\ id[4] = tag
  BY <1>1, <1>2, <1>3, TaggedShape
<1>5. tag # Tag(-1, Empty)
  <2>1. tag.secret = epoch /\ -1 # epoch
    BY <1>2, <1>4 DEF Tag
  <2> QED
    BY <2>1 DEF Tag
<1>6. PICK e \in elicitations : tag = e.id[Len(e.id)]
  BY <1>1, <1>5 DEF SentTags
<1> DEFINE sent == e.id
<1>7. PICK s \in 0..epoch, v \in Threads :
            /\ Elicitable(ContextId[v], TaskId[v])
            /\ sent = ElicitationId(s, ContextId[v], TaskId[v])
  BY DEF SentInv
<1>8. tag = sent[Len(sent)]
  BY <1>6
<1> HIDE DEF sent
<1>9. /\ sent[Len(sent)] = Tag(s, << sent[2], sent[3] >>)
      /\ ContextId[v] = << sent[2] >> /\ TaskId[v] = << sent[3] >>
  <2>1. /\ v \in Threads /\ Elicitable(ContextId[v], TaskId[v])
        /\ sent = ElicitationId(s, ContextId[v], TaskId[v])
    BY <1>7
  <2> QED
    BY <2>1, SentTag, Zenon
<1>10. Tag(s, << sent[2], sent[3] >>) = Tag(epoch, << id[2], id[3] >>)
  BY <1>2, <1>4, <1>8, <1>9
<1>11. s = epoch /\ sent[2] = id[2] /\ sent[3] = id[3]
  BY <1>10 DEF Tag
<1>12. ContextId[v] = ContextId[t] /\ TaskId[v] = TaskId[k]
  BY <1>4, <1>9, <1>11
<1>13. tag = Tag(s, ContextId[v] \o TaskId[v])
  <2>1. << sent[2] >> \o << sent[3] >> = << sent[2], sent[3] >>
    BY JoinedPair
  <2> QED
    BY <1>8, <1>9, <2>1
<1>14. id = sent
  BY <1>1, <1>7, <1>12, <1>13 DEF ElicitationId
<1> QED
  BY <1>6, <1>7, <1>11, <1>14 DEF sent

(* An answer that is taken is to an elicitation of this life of the process *)
(* and leads to the context that the elicitation was made for.              *)
LEMMA AnsweredId ==
    ASSUME A2aTypeOK, SentInv, NEW id \in HostIds, Verifies(epoch, id)
    PROVE  /\ id \in IdsUnder(0..epoch)
           /\ \E e \in elicitations, u \in Threads :
                 /\ e.id = id
                 /\ id = ElicitationId(epoch, ContextId[u], TaskId[u])
                 /\ ContextId[u] = ContextOf(id)
<1>1. epoch \in Nat /\ epoch \in 0..epoch
  BY VaultAssumption DEF A2aTypeOK, TypeOK
<1>2. PICK e \in elicitations, u \in Threads :
            /\ e.id = id
            /\ id = ElicitationId(epoch, ContextId[u], TaskId[u])
  BY <1>1, HostIdSent
<1>3. ContextOf(id) = ContextId[u]
  BY <1>2, VerifiedId
<1> QED
  BY <1>1, <1>2, <1>3 DEF IdsUnder

-----------------------------------------------------------------------------
(* Tasks and what they present.                                             *)

(* What a task holds in each of its states.                                 *)
LEMMA AgentTyped ==
    ASSUME A2aTypeOK, NEW t \in Threads
    PROVE  /\ agent[t].state \in {"working", "declined", "paused", "resumed", "minted", "ended"}
           /\ agent[t] = Working <=> agent[t].state = "working"
           /\ agent[t].state = "paused" => agent[t].action \in Actions
           /\ agent[t].state = "resumed" => agent[t] \in Resumed
           /\ agent[t].state = "minted" => agent[t] \in Minted
           /\ agent[t].state = "ended" => agent[t] \in Ended
           /\ agent[t].state \in {"resumed", "minted"} =>
                 /\ agent[t].action \in Actions
                 /\ agent[t].by \in IdsUnder(0..epoch)
                 /\ agent[t].genuine \in BOOLEAN
<1>1. agent[t] \in Agents
  BY DEF A2aTypeOK
<1> QED
  BY <1>1 DEF Agents, Working, Resumed, Minted, Ended

(* What can be presented, with its fields.                                  *)
LEMMA PresentableFields ==
    ASSUME NEW p \in Presentable
    PROVE  /\ p.exp \in ClaimableExps /\ p.signature \in HeldSignatures
           /\ p.action \in Actions /\ p.rar_type \in RarTypes /\ p.context \in Contexts
           /\ p.frozen = FALSE
           /\ p = [action |-> p.action, rar_type |-> p.rar_type, exp |-> p.exp,
                   context |-> p.context, frozen |-> p.frozen, signature |-> p.signature]
BY DEF Presentable

(* What can be presented can be presented later.                            *)
LEMMA PresentableStays ==
    ASSUME approvals \subseteq approvals', NEW p \in Presentable
    PROVE  p \in Presentable'
<1>0. p.exp \in ClaimableExps /\ p.signature \in HeldSignatures
  BY PresentableFields
<1>1. p.exp \in ClaimableExps'
  <2>1. PICK q \in approvals, late \in {0, MaxTTL} : p.exp = q.exp + late
    BY <1>0 DEF ClaimableExps
  <2>2. q \in approvals'
    OBVIOUS
  <2> QED
    BY <2>1, <2>2 DEF ClaimableExps
<1>2. p.signature \in HeldSignatures'
  <2>1. PICK k \in Keys, q \in approvals : p.signature = Hmac(k, Canonical(q))
    BY <1>0 DEF HeldSignatures
  <2>2. q \in approvals'
    OBVIOUS
  <2> QED
    BY <2>1, <2>2 DEF HeldSignatures
<1> QED
  BY <1>1, <1>2, PresentableFields DEF Presentable

(* The host passes on what somebody signed, if perhaps with another action. *)
LEMMA HostPresents ==
    ASSUME TypeOK, SignedMintable, NEW p \in HostPayloads
    PROVE  p \in Presentable
<1>1. PICK q \in approvals, a \in Actions : p = [q EXCEPT !.action = a]
  BY DEF HostPayloads
<1>2. q \in Payloads /\ q.exp \in Nat
  BY DEF TypeOK, Payloads
<1>3. p \in Payloads
      /\ p.exp = q.exp /\ p.signature = q.signature /\ p.frozen = q.frozen
  BY <1>1, <1>2 DEF Payloads
<1>4. p.exp \in ClaimableExps
  <2>1. p.exp = q.exp + 0
    BY <1>2, <1>3
  <2> QED
    BY <2>1 DEF ClaimableExps
<1>5. p.signature \in HeldSignatures
  BY <1>3, VaultAssumption DEF SignedMintable, SignatureVerifies, HeldSignatures
<1>6. p.frozen \in {FALSE}
  BY <1>3 DEF SignedMintable, Payloads
<1>7. /\ p.action \in Actions /\ p.rar_type \in RarTypes /\ p.context \in Contexts
      /\ p = [action |-> p.action, rar_type |-> p.rar_type, exp |-> p.exp,
              context |-> p.context, frozen |-> p.frozen, signature |-> p.signature]
  BY <1>3 DEF Payloads
<1> QED
  BY <1>4, <1>5, <1>6, <1>7 DEF Presentable

-----------------------------------------------------------------------------
(* Each step of the surface is a step of the vault, or leaves it alone.     *)
LEMMA VaultStep ==
    ASSUME A2aIInv, [A2aNext]_a2aVars
    PROVE  [Next]_vars
<1>1. A2aTypeOK /\ ResumedInv
  BY Parts
<1>2. ASSUME NEW t \in Threads, TaskMints(t) PROVE Next
  <2>1. agent[t].payload \in Presentable
    BY <1>1, <1>2 DEF TaskMints, ResumedInv
  <2> QED
    BY <1>2, <2>1 DEF TaskMints, Next
<1>3. ASSUME NEW t \in Threads, TaskDispatches(t) PROVE Next
  <2>1. agent[t].jti \in Jtis /\ agent[t].action \in Actions
    BY <1>1, <1>3, AgentTyped DEF TaskDispatches, Minted
  <2> QED
    BY <1>3, <2>1 DEF TaskDispatches, Next
<1>4. ASSUME NEW e \in elicitations, NEW rar \in RarTypes, NEW context \in Contexts,
             NEW ttl \in TTLs, HumanSigns(e, rar, context, ttl)
      PROVE  Next
  BY <1>1, <1>4 DEF HumanSigns, A2aTypeOK, Next
<1>5. CASE Tick \/ A2aRestart
  BY <1>5 DEF A2aRestart, Next
<1>6. ASSUME NEW t \in Threads,
             \/ \E action \in Actions : Propose(t, action)
             \/ Translate(t) \/ TranslateFails(t)
             \/ \E response \in Responses(HostIds, HostPayloads) : Answer(response, t)
      PROVE  UNCHANGED vars
  BY <1>6 DEF Propose, Translate, TranslateFails, Answer, a2aVars
<1>7. CASE UNCHANGED a2aVars
  BY <1>7 DEF a2aVars
<1> QED
  BY <1>2, <1>3, <1>4, <1>5, <1>6, <1>7 DEF A2aNext, Paused

(* What was issued in this life of the process stays issued.                *)
LEMMA IssuedStays ==
    ASSUME IInv, [Next]_vars
    PROVE  \/ Restart
           \/ /\ epoch' = epoch
              /\ \A j \in DOMAIN issued : j \in DOMAIN issued' /\ issued'[j] = issued[j]
<1>1. CASE \E t \in Threads : MintRecord(t)
  <2>1. PICK t \in Threads : MintRecord(t)
    BY <1>1
  <2>2. Len(grants) + 1 \notin DOMAIN issued
    BY <2>1, MintRecordGrants DEF IInv, GrantsInv
  <2> QED
    BY <2>1, <2>2 DEF MintRecord
<1>2. CASE UNCHANGED <<issued, epoch>>
  BY <1>2
<1> QED
  BY <1>1, <1>2
  DEF Next, Sign, MintRefuse, MintVerify, MintReplay, ConsumeRefuse, Consume, Perform, Tick,
      memory, history, vars

-----------------------------------------------------------------------------
(* What the invariant says of one task.                                     *)
FollowsElicitation(t) ==
    \E e \in elicitations, u \in Threads :
        /\ e.id = agent[t].by
        /\ e.id = ElicitationId(epoch, ContextId[u], TaskId[u])
        /\ ContextId[u] = ContextId[t]

TaskFine(t) ==
    /\ agent[t] \in Agents
    /\ call[t] # Idle => agent[t].state \in {"resumed", "minted"}
    /\ agent[t].state = "resumed" =>
          /\ agent[t].payload \in Presentable
          /\ call[t] # Idle => call[t].op = "mint" /\ call[t].payload = agent[t].payload
          /\ agent[t].genuine =>
                /\ agent[t].payload \in approvals
                /\ SameAction(agent[t].payload.action, agent[t].action)
    /\ agent[t].state = "minted" =>
          /\ agent[t].jti \in DOMAIN issued
          /\ agent[t].genuine => SameAction(issued[agent[t].jti].action, agent[t].action)
          /\ IF call[t] = Idle
             THEN agent[t].jti \notin consumed
             ELSE call[t].op = "perform"
    /\ agent[t].state \in {"resumed", "minted", "ended"} => FollowsElicitation(t)
    /\ agent[t].state = "ended" /\ agent[t].genuine =>
          agent[t].result \in {"performed", "CredentialExpired", "SignatureReplay"}

(* What it says of several tasks, and of what the host was sent.            *)
OwnCredentials ==
    \A t, u \in Threads :
        agent[t].state = "minted" /\ agent[u].state = "minted" /\ t # u =>
            agent[t].jti # agent[u].jti

Sent ==
    /\ \A e \in elicitations : e.action \in Actions /\ e.id \in IdsUnder(0..epoch)
    /\ SentInv

(* The invariant is that every task is fine, and what relates them.         *)
LEMMA FineParts ==
    A2aIInv <=>
        /\ IInv /\ SignedMintable
        /\ DOMAIN agent = Threads /\ agent = [t \in Threads |-> agent[t]]
        /\ Sent /\ OwnCredentials
        /\ \A t \in Threads : TaskFine(t)
<1>1. ASSUME A2aIInv
      PROVE  /\ IInv /\ SignedMintable
             /\ DOMAIN agent = Threads /\ agent = [t \in Threads |-> agent[t]]
             /\ Sent /\ OwnCredentials
             /\ \A t \in Threads : TaskFine(t)
  <2>1. A2aTypeOK /\ IInv /\ SignedMintable /\ SentInv /\ ResumedInv /\ MintedInv
        /\ ResumedByOwnContext /\ SignedProposalsRun
    BY <1>1, Parts
  <2>2. DOMAIN agent = Threads /\ agent = [t \in Threads |-> agent[t]] /\ Sent
    BY <2>1 DEF A2aTypeOK, Sent
  <2>3. OwnCredentials
    BY <2>1 DEF MintedInv, OwnCredentials
  <2>4. ASSUME NEW t \in Threads PROVE TaskFine(t)
    BY <2>1 DEF A2aTypeOK, ResumedInv, MintedInv, ResumedByOwnContext,
                SignedProposalsRun, FollowsElicitation, TaskFine
  <2> QED
    BY <2>1, <2>2, <2>3, <2>4
<1>2. ASSUME IInv, SignedMintable, DOMAIN agent = Threads,
             agent = [t \in Threads |-> agent[t]], Sent, OwnCredentials,
             \A t \in Threads : TaskFine(t)
      PROVE  A2aIInv
  <2>1. TypeOK
    BY <1>2 DEF IInv
  <2>2. A2aTypeOK
    BY <1>2, <2>1 DEF A2aTypeOK, TaskFine, Sent
  <2>3. ResumedInv /\ ResumedByOwnContext /\ SignedProposalsRun
    BY <1>2 DEF ResumedInv, ResumedByOwnContext, SignedProposalsRun,
                FollowsElicitation, TaskFine
  <2>4. MintedInv
    BY <1>2 DEF MintedInv, OwnCredentials, TaskFine
  <2>5. SentInv /\ ElicitationsLeadBack
    BY <1>2, <2>2, SentLeadsBack DEF Sent
  <2> QED
    BY <1>2, <2>2, <2>3, <2>4, <2>5 DEF A2aIInv
<1> QED
  BY <1>1, <1>2

-----------------------------------------------------------------------------
(* A task that does not step stays fine.                                    *)
LEMMA FineStays ==
    ASSUME A2aIInv, [A2aNext]_a2aVars, epoch' = epoch,
           elicitations \subseteq elicitations',
           NEW u \in Threads, agent'[u] = agent[u], call'[u] = call[u],
           agent[u].state = "minted" /\ call[u] = Idle => agent[u].jti \notin consumed'
    PROVE  TaskFine(u)'
<1>1. TaskFine(u) /\ IInv /\ TypeOK /\ [Next]_vars
  BY FineParts, Parts, VaultStep
<1>2. approvals \subseteq approvals'
  BY <1>1, HistoryGrows
<1>3. \A j \in DOMAIN issued : j \in DOMAIN issued' /\ issued'[j] = issued[j]
  <2>1. epoch \in Nat
    BY <1>1, VaultAssumption DEF TypeOK
  <2>2. ~Restart
    BY <2>1 DEF Restart
  <2> QED
    BY <1>1, <2>2, IssuedStays
<1>4. agent'[u] \in Agents'
  BY <1>1 DEF TaskFine, Agents, Resumed, Minted, Ended
<1>5. FollowsElicitation(u) => FollowsElicitation(u)'
  BY DEF FollowsElicitation
<1>6. agent[u].state = "resumed" => agent[u].payload \in Presentable'
  <2> SUFFICES ASSUME agent[u].state = "resumed" PROVE agent[u].payload \in Presentable'
    OBVIOUS
  <2>1. \A p \in Presentable : p \in Presentable'
    BY <1>2, PresentableStays
  <2> QED
    BY <1>1, <2>1 DEF TaskFine
<1>7. /\ call'[u] # Idle => agent'[u].state \in {"resumed", "minted"}
      /\ agent'[u].state = "ended" /\ agent'[u].genuine =>
            agent'[u].result \in {"performed", "CredentialExpired", "SignatureReplay"}
  BY <1>1 DEF TaskFine
<1>8. agent'[u].state = "resumed" =>
          /\ agent'[u].payload \in Presentable'
          /\ call'[u] # Idle => call'[u].op = "mint" /\ call'[u].payload = agent'[u].payload
          /\ agent'[u].genuine =>
                /\ agent'[u].payload \in approvals'
                /\ SameAction(agent'[u].payload.action, agent'[u].action)
  BY <1>1, <1>2, <1>6 DEF TaskFine
<1>9. agent'[u].state = "minted" =>
          /\ agent'[u].jti \in DOMAIN issued'
          /\ agent'[u].genuine => SameAction(issued'[agent'[u].jti].action, agent'[u].action)
          /\ IF call'[u] = Idle
             THEN agent'[u].jti \notin consumed'
             ELSE call'[u].op = "perform"
  BY <1>1, <1>3 DEF TaskFine
<1>10. agent'[u].state \in {"resumed", "minted", "ended"} => FollowsElicitation(u)'
  BY <1>1, <1>5 DEF TaskFine
<1> QED
  BY <1>4, <1>7, <1>8, <1>9, <1>10 DEF TaskFine

-----------------------------------------------------------------------------
(* A task that steps is fine afterwards.                                    *)
LEMMA FineProposed ==
    ASSUME A2aIInv, NEW t \in Threads, NEW action \in Actions, Propose(t, action)
    PROVE  TaskFine(t)'
<1>1. TaskFine(t) /\ DOMAIN agent = Threads
  BY FineParts
<1>2. agent'[t] = [state |-> "paused", action |-> action]
  BY <1>1 DEF Propose, Becomes
<1>3. agent'[t] \in Agents'
  BY <1>2 DEF Agents
<1>4. call'[t] = Idle
  BY <1>1 DEF Propose, Working, TaskFine, vars
<1> QED
  BY <1>2, <1>3, <1>4 DEF TaskFine

(* So is one whose pause is translated.                                     *)
LEMMA FineTranslated ==
    ASSUME A2aIInv, NEW t \in Threads, Translate(t)
    PROVE  TaskFine(t)'
<1>1. TaskFine(t)
  BY FineParts
<1>2. agent[t].state = "paused" /\ agent'[t] = agent[t] /\ call'[t] = call[t]
      /\ agent[t] = [state |-> "paused", action |-> agent[t].action]
      /\ agent[t].action \in Actions
  BY <1>1 DEF Translate, vars, TaskFine, Agents, Working, Resumed, Minted, Ended
<1>3. agent'[t] \in Agents'
  BY <1>2 DEF Agents
<1> QED
  BY <1>1, <1>2, <1>3 DEF TaskFine

(* So is one whose elicitation is answered.                                 *)
LEMMA FineAnswered ==
    ASSUME A2aIInv, NEW t \in Threads,
           agent[t].state = "paused",
           NEW response \in Responses(HostIds, HostPayloads), Answer(response, t)
    PROVE  TaskFine(t)'
<1>1. /\ TaskFine(t) /\ DOMAIN agent = Threads /\ A2aTypeOK /\ TypeOK /\ SignedMintable
      /\ SentInv
  BY FineParts, Parts
<1>2. UNCHANGED <<vars, elicitations>> /\ agent[t].state = "paused"
      /\ Verifies(epoch, response.id)
  BY DEF Answer, Resumable
<1>3. call'[t] = Idle
  BY <1>1, <1>2 DEF TaskFine, vars
<1>4. agent[t].action \in Actions
  BY <1>1, <1>2, AgentTyped
<1>5. CASE response.action = "accept"
  <2>1. PICK p \in response.payload :
            agent'[t] = [state |-> "resumed", action |-> agent[t].action, payload |-> p,
                         by |-> response.id, genuine |-> For(response, agent[t].action)]
    BY <1>1, <1>5 DEF Answer, Resume, Becomes
  <2>2. p \in HostPayloads /\ response.id \in HostIds /\ response.payload = {p}
    BY DEF Responses
  <2>3. p \in Presentable /\ p \in Payloads
    BY <1>1, <2>2, HostPresents, PresentableTyped DEF TypeOK
  <2>4. /\ response.id \in IdsUnder(0..epoch)
        /\ \E e \in elicitations, u \in Threads :
              /\ e.id = response.id
              /\ response.id = ElicitationId(epoch, ContextId[u], TaskId[u])
              /\ ContextId[u] = ContextOf(response.id)
    BY <1>1, <1>2, <2>2, AnsweredId
  <2>5. ContextOf(response.id) = ContextId[t]
    BY DEF Answer, Resume
  <2>6. FollowsElicitation(t)'
    <3>1. PICK e \in elicitations, u \in Threads :
              /\ e.id = response.id
              /\ response.id = ElicitationId(epoch, ContextId[u], TaskId[u])
              /\ ContextId[u] = ContextOf(response.id)
      BY <2>4
    <3>2. e \in elicitations' /\ epoch' = epoch /\ agent'[t].by = response.id
      BY <1>2, <2>1 DEF vars
    <3> QED
      BY <2>5, <3>1, <3>2 DEF FollowsElicitation
  <2>7. For(response, agent[t].action) \in BOOLEAN
        /\ (For(response, agent[t].action) =>
                p \in approvals /\ SameAction(p.action, agent[t].action))
    BY <2>2 DEF For
  <2>8. agent'[t] \in Resumed
    BY <1>4, <2>1, <2>3, <2>4, <2>7 DEF Resumed
  <2>9. epoch' = epoch /\ Presentable' = Presentable /\ approvals' = approvals
    BY <1>2 DEF vars, history, Presentable, ClaimableExps, HeldSignatures
  <2>10. agent'[t] \in Agents'
    BY <2>8, <2>9 DEF Agents, Resumed
  <2> QED
    BY <1>3, <2>1, <2>3, <2>6, <2>7, <2>9, <2>10 DEF TaskFine
<1>6. CASE response.action # "accept"
  <2>1. agent'[t] = [state |-> "declined"]
    BY <1>1, <1>6 DEF Answer, Resume, Becomes
  <2> QED
    BY <1>3, <2>1 DEF TaskFine, Agents
<1> QED
  BY <1>5, <1>6

(* How a task that was resumed ends.                                        *)
LEMMA FineEnds ==
    ASSUME A2aIInv, [A2aNext]_a2aVars, NEW t \in Threads,
           agent[t].state \in {"resumed", "minted"}, Ends(t),
           call'[t] = Idle, epoch' = epoch, elicitations' = elicitations,
           agent[t].genuine =>
               outcome' \in {"performed", "CredentialExpired", "SignatureReplay"}
    PROVE  TaskFine(t)'
<1>1. /\ TaskFine(t) /\ DOMAIN agent = Threads /\ A2aTypeOK /\ TypeOK'
  BY FineParts, Parts, VaultStep, NextTyped
<1>2. agent'[t] = [state |-> "ended", by |-> agent[t].by, genuine |-> agent[t].genuine,
                   result |-> outcome']
  BY <1>1 DEF Ends, Becomes
<1>3. outcome' \in Outcomes
  BY <1>1 DEF TypeOK
<1>4. agent'[t] \in Ended
  BY <1>1, <1>2, <1>3, AgentTyped DEF Ended
<1>5. agent'[t] \in Agents'
  BY <1>4 DEF Agents, Ended
<1>6. FollowsElicitation(t)'
  BY <1>1, <1>2 DEF TaskFine, FollowsElicitation
<1> QED
  BY <1>2, <1>5, <1>6 DEF TaskFine

(* So is one that takes its payload to the vault.                           *)
LEMMA FineMints ==
    ASSUME A2aIInv, [A2aNext]_a2aVars, NEW t \in Threads, TaskMints(t)
    PROVE  TaskFine(t)' /\ epoch' = epoch /\ consumed' = consumed
<1>1. /\ TaskFine(t) /\ DOMAIN agent = Threads /\ A2aTypeOK /\ TypeOK /\ SignedMintable
      /\ call \in [Threads -> Calls]
  BY FineParts, Parts DEF TypeOK
<1>2. /\ agent[t].state = "resumed" /\ elicitations' = elicitations
      /\ epoch' = epoch /\ consumed' = consumed
  BY DEF TaskMints, MintRefuse, MintReplay, MintVerify, MintRecord, memory
<1>3. CASE MintRefuse(t, agent[t].payload) /\ Ends(t)
  <2>1. call'[t] = Idle /\ outcome' = MintRefusal(agent[t].payload)
        /\ ~Mintable(agent[t].payload)
    BY <1>1, <1>3 DEF MintRefuse, Return
  <2>2. agent[t].genuine => outcome' = "CredentialExpired"
    BY <1>1, <1>2, <2>1 DEF TaskFine, SignedMintable, Mintable, MintRefusal
  <2> QED
    BY <1>2, <1>3, <2>1, <2>2, FineEnds
<1>4. CASE MintReplay(t) /\ Ends(t)
  <2>1. call'[t] = Idle /\ outcome' = "SignatureReplay"
    BY <1>1, <1>4 DEF MintReplay, Return
  <2> QED
    BY <1>2, <1>4, <2>1, FineEnds
<1>5. CASE MintVerify(t, agent[t].payload) /\ UNCHANGED agent
  <2>1. /\ call'[t] = [op |-> "mint", payload |-> agent[t].payload, at |-> now]
        /\ agent' = agent /\ approvals' = approvals
    BY <1>1, <1>5 DEF MintVerify, history
  <2>2. agent'[t] \in Agents' /\ Presentable' = Presentable
    BY <1>1, <1>2, <2>1
    DEF TaskFine, Agents, Resumed, Minted, Ended, Presentable, ClaimableExps, HeldSignatures
  <2>3. FollowsElicitation(t)'
    BY <1>1, <1>2, <2>1 DEF TaskFine, FollowsElicitation
  <2>4. /\ agent'[t].payload \in Presentable'
        /\ call'[t].op = "mint" /\ call'[t].payload = agent'[t].payload
        /\ agent'[t].genuine =>
              /\ agent'[t].payload \in approvals'
              /\ SameAction(agent'[t].payload.action, agent'[t].action)
    BY <1>1, <1>2, <2>1, <2>2 DEF TaskFine
  <2>5. agent'[t].state = "resumed"
    BY <1>2, <2>1
  <2> QED
    BY <1>2, <2>2, <2>3, <2>4, <2>5 DEF TaskFine
<1>6. CASE /\ MintRecord(t)
           /\ Becomes(t, [state |-> "minted", action |-> agent[t].action,
                          by |-> agent[t].by, genuine |-> agent[t].genuine,
                          jti |-> Len(grants')])
  <2>1. agent'[t] = [state |-> "minted", action |-> agent[t].action,
                     by |-> agent[t].by, genuine |-> agent[t].genuine,
                     jti |-> Len(grants')]
    BY <1>1, <1>6 DEF Becomes
  <2>2. Len(grants') = Len(grants) + 1 /\ Len(grants') \in Jtis
    BY <1>1, <1>6, VaultAssumption DEF MintRecord, TypeOK, Jtis
  <2> DEFINE new == Len(grants')
  <2>3. /\ new \in DOMAIN issued' /\ issued'[new] = call[t].payload
        /\ call'[t] = Idle /\ call[t] # Idle
    BY <1>1, <1>6, <2>2 DEF MintRecord, Return, Idle
  <2>4. new \notin consumed
    <3>1. new \notin DOMAIN grants /\ consumed \subseteq DOMAIN issued
          /\ DOMAIN issued \subseteq DOMAIN grants
      BY <1>1, <1>6, <2>2, MintRecordGrants, FineParts DEF IInv, GrantsInv
    <3> QED
      BY <3>1
  <2> HIDE DEF new
  <2>5. agent'[t] \in Minted
    BY <1>1, <1>2, <2>1, <2>2, AgentTyped DEF Minted, new
  <2>6. agent'[t] \in Agents'
    BY <1>2, <2>5 DEF Agents, Minted
  <2>7. FollowsElicitation(t)'
    BY <1>1, <1>2, <2>1 DEF TaskFine, FollowsElicitation
  <2>8. agent[t].genuine => SameAction(issued'[new].action, agent[t].action)
    BY <1>1, <1>2, <2>3 DEF TaskFine
  <2>9. /\ agent'[t].state = "minted" /\ agent'[t].jti = new
        /\ agent'[t].genuine = agent[t].genuine /\ agent'[t].action = agent[t].action
    BY <2>1 DEF new
  <2> QED
    BY <1>2, <2>3, <2>4, <2>6, <2>7, <2>8, <2>9 DEF TaskFine
<1> QED
  BY <1>2, <1>3, <1>4, <1>5, <1>6 DEF TaskMints

(* So is one that dispatches with its credential.                           *)
LEMMA FineDispatches ==
    ASSUME A2aIInv, [A2aNext]_a2aVars, NEW t \in Threads, TaskDispatches(t)
    PROVE  /\ TaskFine(t)' /\ epoch' = epoch
           /\ consumed' \subseteq consumed \cup {agent[t].jti}
<1>1. /\ TaskFine(t) /\ DOMAIN agent = Threads /\ A2aTypeOK /\ TypeOK
      /\ call \in [Threads -> Calls]
  BY FineParts, Parts DEF TypeOK
<1>2. /\ agent[t].state = "minted" /\ elicitations' = elicitations
      /\ epoch' = epoch /\ consumed' \subseteq consumed \cup {agent[t].jti}
  BY DEF TaskDispatches, ConsumeRefuse, Consume, Perform, memory
<1>3. CASE ConsumeRefuse(t, agent[t].jti, agent[t].action) /\ Ends(t)
  <2>1. /\ call[t] = Idle /\ call'[t] = Idle
        /\ outcome' = ConsumeRefusal(agent[t].jti, agent[t].action)
        /\ ~Consumable(agent[t].jti, agent[t].action)
    BY <1>1, <1>3 DEF ConsumeRefuse, Return
  <2>2. agent[t].jti # MalformedJti
    BY <1>1, <1>2, AgentTyped, VaultAssumption DEF Minted, Jtis, MalformedJti
  <2>3. agent[t].genuine => outcome' = "CredentialExpired"
    BY <1>1, <1>2, <2>1, <2>2 DEF TaskFine, Consumable, ConsumeRefusal
  <2> QED
    BY <1>2, <1>3, <2>1, <2>3, FineEnds
<1>4. CASE Consume(t, agent[t].jti, agent[t].action) /\ UNCHANGED agent
  <2>1. /\ call'[t] = [op |-> "perform", jti |-> agent[t].jti,
                       action |-> agent[t].action, at |-> now]
        /\ agent' = agent /\ issued' = issued
    BY <1>1, <1>4 DEF Consume
  <2>2. agent'[t] \in Agents'
    BY <1>1, <1>2, <2>1 DEF TaskFine, Agents, Resumed, Minted, Ended
  <2>3. FollowsElicitation(t)'
    BY <1>1, <1>2, <2>1 DEF TaskFine, FollowsElicitation
  <2>4. call'[t] # Idle /\ call'[t].op = "perform"
    BY <2>1 DEF Idle
  <2>5. /\ agent'[t].state = "minted"
        /\ agent'[t].jti \in DOMAIN issued'
        /\ agent'[t].genuine => SameAction(issued'[agent'[t].jti].action, agent'[t].action)
    BY <1>1, <1>2, <2>1 DEF TaskFine
  <2> QED
    BY <1>2, <2>2, <2>3, <2>4, <2>5 DEF TaskFine
<1>5. CASE Perform(t) /\ Ends(t)
  <2>1. call'[t] = Idle /\ outcome' = "performed"
    BY <1>1, <1>5 DEF Perform, Return
  <2> QED
    BY <1>2, <1>5, <2>1, FineEnds
<1> QED
  BY <1>2, <1>3, <1>4, <1>5 DEF TaskDispatches

-----------------------------------------------------------------------------
(* What the human signs mints until it lapses.                              *)
LEMMA SignedMintableStep == A2aIInv /\ [A2aNext]_a2aVars => SignedMintable'
<1> SUFFICES ASSUME A2aIInv, [A2aNext]_a2aVars PROVE SignedMintable'
  OBVIOUS
<1>1. TypeOK /\ A2aTypeOK /\ SignedMintable /\ [Next]_vars
  BY Parts, VaultStep
<1>2. now \in Nat /\ now' \in Nat /\ now <= now'
  BY <1>1, HistoryGrows
<1>3. ASSUME NEW p \in approvals
      PROVE  /\ SignatureVerifies(p, Secret) /\ RarTypeExpected(p, ExpectedRar)
             /\ ~(p.exp > now' + MaxTTL) /\ ~p.frozen
  <2>1. p.exp \in Nat
    BY <1>1 DEF TypeOK, Payloads
  <2> QED
    BY <1>1, <1>2, <2>1, MaxTTLAssumption DEF SignedMintable, TooLongAtMint
<1>4. CASE approvals' = approvals
  BY <1>3, <1>4 DEF SignedMintable, SignatureVerifies, RarTypeExpected, TooLongAtMint
<1>5. ASSUME NEW e \in elicitations, NEW rar \in RarTypes, NEW context \in Contexts,
             NEW ttl \in TTLs, HumanSigns(e, rar, context, ttl)
      PROVE  SignedMintable'
  <2> DEFINE p == SignAuthorizationDetails(e.action, rar, context, FALSE, Secret, ttl, now)
  <2>1. approvals' = approvals \cup {p} /\ now' = now
    BY <1>5 DEF HumanSigns, Sign
  <2>2. SignatureVerifies(p, Secret) /\ ~p.frozen /\ RarTypeExpected(p, ExpectedRar)
    BY SignerAssumption
    DEF SignAuthorizationDetails, SignatureVerifies, Canonical, RarTypeExpected
  <2>3. p.exp <= now + MaxTTL
    <3>1. now % TicksPerSecond \in Nat
      BY <1>2, TicksAssumption
    <3>2. ttl \in Nat /\ ttl <= MaxTTL /\ MaxTTL \in Nat
      BY VaultAssumption, SignerAssumption, MaxTTLAssumption
    <3>3. p.exp = (now - (now % TicksPerSecond)) + ttl
      BY DEF SignAuthorizationDetails, Expiry, WholeSeconds
    <3> HIDE DEF p
    <3>4. \A n, m, k, l \in Nat : k <= l => (n - m) + k <= n + l
      OBVIOUS
    <3> QED
      BY <1>2, <3>1, <3>2, <3>3, <3>4
  <2>4. p.exp \in Int
    <3>1. e.action \in Actions /\ ttl \in Nat /\ Secret \in Keys
      BY <1>1, VaultAssumption DEF A2aTypeOK
    <3>2. p \in Payloads
      BY <1>2, <3>1, SignTyped
    <3> HIDE DEF p
    <3> QED
      BY <3>2 DEF Payloads
  <2> HIDE DEF p
  <2>5. ~(p.exp > now' + MaxTTL)
    BY <1>2, <2>1, <2>3, <2>4, MaxTTLAssumption
  <2> QED
    BY <1>3, <2>1, <2>2, <2>5
    DEF SignedMintable, SignatureVerifies, RarTypeExpected, TooLongAtMint
<1>6. approvals' = approvals
      \/ \E e \in elicitations, rar \in RarTypes, context \in Contexts, ttl \in TTLs :
            HumanSigns(e, rar, context, ttl)
  BY DEF A2aNext, Propose, Translate, TranslateFails, Answer, TaskMints, TaskDispatches, A2aRestart,
         MintRefuse, MintVerify, MintReplay, MintRecord, ConsumeRefuse, Consume, Perform,
         Tick, Restart, vars, history, a2aVars
<1> QED
  BY <1>4, <1>5, <1>6

(* The steps, by whose they are.                                            *)
TaskStep(t) ==
    \/ \E action \in Actions : Propose(t, action)
    \/ Translate(t)
    \/ /\ agent[t].state = "paused"
       /\ \E response \in Responses(HostIds, HostPayloads) : Answer(response, t)
    \/ TaskMints(t)
    \/ TaskDispatches(t)

(* A step is a restart, one task's, or of no concern to the tasks.          *)
LEMMA StepCases ==
    ASSUME A2aIInv, [A2aNext]_a2aVars
    PROVE  \/ A2aRestart
           \/ UNCHANGED <<agent, elicitations, call, consumed, epoch>>
           \/ \E t \in Threads : TaskStep(t)
BY DEF A2aNext, TaskStep, Paused, TranslateFails, HumanSigns, Sign, Tick, memory, vars, a2aVars

(* What a step of one task leaves alone.                                    *)
LEMMA TaskStepFrame ==
    ASSUME A2aIInv, [A2aNext]_a2aVars, NEW t \in Threads, TaskStep(t)
    PROVE  /\ TaskFine(t)' /\ epoch' = epoch
           /\ elicitations \subseteq elicitations'
           /\ agent' = [agent EXCEPT ![t] = agent'[t]]
           /\ \A u \in Threads \ {t} : agent'[u] = agent[u] /\ call'[u] = call[u]
           /\ \/ consumed' = consumed
              \/ /\ agent[t].state = "minted"
                 /\ consumed' \subseteq consumed \cup {agent[t].jti}
<1>1. DOMAIN agent = Threads /\ call \in [Threads -> Calls]
      /\ agent = [u \in Threads |-> agent[u]]
  BY FineParts, Parts DEF TypeOK
<1>2. ASSUME NEW action \in Actions, Propose(t, action)
      PROVE  /\ TaskFine(t)' /\ epoch' = epoch /\ consumed' = consumed
             /\ elicitations \subseteq elicitations' /\ call' = call
             /\ agent' = [agent EXCEPT ![t] = agent'[t]]
  BY <1>1, <1>2, FineProposed DEF Propose, Becomes, vars, memory
<1>3. ASSUME agent[t].state = "paused",
             NEW response \in Responses(HostIds, HostPayloads), Answer(response, t)
      PROVE  /\ TaskFine(t)' /\ epoch' = epoch /\ consumed' = consumed
             /\ elicitations \subseteq elicitations' /\ call' = call
             /\ agent' = [agent EXCEPT ![t] = agent'[t]]
  <2>1. agent' = [agent EXCEPT ![t] = agent'[t]]
    BY <1>1, <1>3 DEF Answer, Becomes
  <2> QED
    BY <1>3, <2>1, FineAnswered DEF Answer, vars, memory
<1>4. ASSUME TaskMints(t) \/ TaskDispatches(t)
      PROVE  /\ agent' = [agent EXCEPT ![t] = agent'[t]]
             /\ elicitations' = elicitations
             /\ \A u \in Threads \ {t} : call'[u] = call[u]
  <2>1. elicitations' = elicitations
    BY <1>4 DEF TaskMints, TaskDispatches
  <2>2. \A u \in Threads \ {t} : call'[u] = call[u]
    BY <1>1, <1>4
    DEF TaskMints, TaskDispatches, MintRefuse, MintReplay, MintVerify, MintRecord,
        ConsumeRefuse, Consume, Perform, Return
  <2>3. agent' = [agent EXCEPT ![t] = agent'[t]]
    BY <1>1, <1>4 DEF TaskMints, TaskDispatches, Ends, Becomes
  <2> QED
    BY <2>1, <2>2, <2>3
<1>5. CASE TaskMints(t)
  BY <1>1, <1>4, <1>5, FineMints
<1>6. CASE TaskDispatches(t)
  <2>1. agent[t].state = "minted"
    BY <1>6 DEF TaskDispatches
  <2> QED
    BY <1>1, <1>4, <1>6, <2>1, FineDispatches
<1>7. CASE Translate(t)
  <2>1. agent' = agent /\ epoch' = epoch /\ consumed' = consumed /\ call' = call
        /\ elicitations \subseteq elicitations'
    BY <1>7 DEF Translate, vars, memory
  <2> QED
    BY <1>1, <1>7, <2>1, FineTranslated
<1> QED
  BY <1>1, <1>2, <1>3, <1>5, <1>6, <1>7 DEF TaskStep

-----------------------------------------------------------------------------
(* The invariant of the surface.                                            *)

(* Every task fine, no credential shared, every elicitation under a secret  *)
(* of this life or an earlier one: so it stays.                             *)
LEMMA TasksStep ==
    A2aIInv /\ [A2aNext]_a2aVars =>
        /\ DOMAIN agent' = Threads /\ agent' = [t \in Threads |-> agent'[t]]
        /\ OwnCredentials'
        /\ \A t \in Threads : TaskFine(t)'
<1> SUFFICES ASSUME A2aIInv, [A2aNext]_a2aVars
             PROVE  /\ DOMAIN agent' = Threads /\ agent' = [t \in Threads |-> agent'[t]]
                    /\ OwnCredentials'
                    /\ \A t \in Threads : TaskFine(t)'
  OBVIOUS
<1>1. /\ DOMAIN agent = Threads /\ agent = [t \in Threads |-> agent[t]]
      /\ OwnCredentials /\ TypeOK /\ IInv /\ A2aTypeOK
      /\ \A t \in Threads : TaskFine(t)
  BY FineParts, Parts
<1>2. CASE A2aRestart
  <2>1. agent' = [t \in Threads |-> Working]
    BY <1>2 DEF A2aRestart
  <2>2. ASSUME NEW t \in Threads PROVE TaskFine(t)'
    <3>1. agent'[t] = Working /\ call'[t] = Idle
      BY <1>2 DEF A2aRestart, Restart
    <3> QED
      BY <3>1 DEF TaskFine, Agents, Working
  <2>3. OwnCredentials'
    BY <2>1 DEF OwnCredentials, Working
  <2> QED
    BY <2>1, <2>2, <2>3
<1>3. CASE UNCHANGED <<agent, elicitations, call, consumed, epoch>>
  <2>1. ASSUME NEW u \in Threads PROVE TaskFine(u)'
    <3>1. agent[u].state = "minted" /\ call[u] = Idle => agent[u].jti \notin consumed'
      BY <1>1, <1>3 DEF TaskFine
    <3> QED
      BY <1>3, <3>1, FineStays
  <2> QED
    BY <1>1, <1>3, <2>1 DEF OwnCredentials
<1>4. ASSUME NEW t \in Threads, TaskStep(t)
      PROVE  /\ DOMAIN agent' = Threads /\ agent' = [u \in Threads |-> agent'[u]]
             /\ OwnCredentials'
             /\ \A u \in Threads : TaskFine(u)'
  <2>1. /\ TaskFine(t)' /\ epoch' = epoch
        /\ elicitations \subseteq elicitations'
        /\ \A u \in Threads \ {t} : agent'[u] = agent[u] /\ call'[u] = call[u]
        /\ \/ consumed' = consumed
           \/ /\ agent[t].state = "minted"
              /\ consumed' \subseteq consumed \cup {agent[t].jti}
    BY <1>4, TaskStepFrame
  <2>2. DOMAIN agent' = Threads /\ agent' = [u \in Threads |-> agent'[u]]
    <3>1. agent' = [agent EXCEPT ![t] = agent'[t]]
      BY <1>4, TaskStepFrame
    <3>2. agent' = [u \in Threads |-> IF u = t THEN agent'[t] ELSE agent[u]]
      BY <1>1, <3>1
    <3> QED
      BY <3>2
  <2>3. ASSUME NEW u \in Threads PROVE TaskFine(u)'
    <3>1. CASE u = t
      BY <2>1, <3>1
    <3>2. CASE u # t
      <4>1. agent[u].state = "minted" /\ call[u] = Idle => agent[u].jti \notin consumed'
        BY <1>1, <2>1, <3>2 DEF TaskFine, OwnCredentials
      <4> QED
        BY <2>1, <3>2, <4>1, FineStays
    <3> QED
      BY <3>1, <3>2
  <2>4. OwnCredentials'
    <3>1. CASE agent'[t].state = "minted" /\ agent[t].state # "minted"
      <4>1. MintRecord(t) /\ agent'[t].jti = Len(grants') /\ Len(grants') = Len(grants) + 1
        <5>1. /\ MintRecord(t)
              /\ agent'[t] = [state |-> "minted", action |-> agent[t].action,
                              by |-> agent[t].by, genuine |-> agent[t].genuine,
                              jti |-> Len(grants')]
          BY <1>1, <1>4, <3>1
          DEF TaskStep, Propose, Translate, Answer, TaskMints, TaskDispatches, Ends, Becomes
        <5> QED
          BY <1>1, <5>1 DEF MintRecord, TypeOK
      <4>2. agent'[t].jti \notin DOMAIN issued
        BY <1>1, <4>1, MintRecordGrants DEF IInv, GrantsInv
      <4>3. \A u \in Threads \ {t} : agent[u].state = "minted" => agent[u].jti # agent'[t].jti
        BY <1>1, <4>2 DEF TaskFine
      <4> QED
        BY <1>1, <2>1, <4>3 DEF OwnCredentials
    <3>2. CASE agent'[t].state # "minted"
      BY <1>1, <2>1, <3>2 DEF OwnCredentials
    <3>3. CASE agent'[t].state = "minted" /\ agent[t].state = "minted"
      <4>1. agent' = agent
        BY <1>1, <1>4, <3>3
        DEF TaskStep, Propose, Translate, Answer, TaskMints, TaskDispatches, Ends, Becomes, Working
      <4> QED
        BY <1>1, <4>1 DEF OwnCredentials
    <3> QED
      BY <3>1, <3>2, <3>3
  <2> QED
    BY <2>2, <2>3, <2>4
<1> QED
  BY <1>2, <1>3, <1>4, StepCases

(* Elicitations keep the secret of the life they were sent in.              *)
LEMMA SentStep == A2aIInv /\ [A2aNext]_a2aVars => Sent'
<1> SUFFICES ASSUME A2aIInv, [A2aNext]_a2aVars PROVE Sent'
  OBVIOUS
<1>1. Sent /\ TypeOK /\ A2aTypeOK /\ epoch \in Nat
  BY FineParts, Parts, VaultAssumption DEF TypeOK
<1>2. epoch' \in {epoch, epoch + 1}
  BY DEF A2aNext, Propose, Translate, TranslateFails, HumanSigns, Answer, TaskMints,
         TaskDispatches, A2aRestart, Sign, MintRefuse, MintVerify, MintReplay, MintRecord,
         ConsumeRefuse, Consume, Perform, Tick, Restart, vars, a2aVars
<1>3. /\ IdsUnder(0..epoch) \subseteq IdsUnder(0..epoch')
      /\ 0..epoch \subseteq 0..epoch'
  BY <1>1, <1>2 DEF IdsUnder
<1>4. ASSUME NEW t \in Threads, Translate(t)
      PROVE  Sent'
  <2> DEFINE id == ElicitationId(epoch, ContextId[t], TaskId[t])
  <2>1. epoch' = epoch
        /\ elicitations' = elicitations \cup {[id |-> id, action |-> agent[t].action]}
    BY <1>4 DEF Translate, vars
  <2>2. epoch \in 0..epoch
    BY <1>1
  <2>3. id \in IdsUnder(0..epoch)
    BY <2>2 DEF IdsUnder
  <2>4. agent[t].action \in Actions
    BY <1>1, <1>4, AgentTyped DEF Translate
  <2>5. Elicitable(ContextId[t], TaskId[t])
    BY <1>4 DEF Translate
  <2> DEFINE e == [id |-> id, action |-> agent[t].action]
             Made(d) == \E s \in 0..epoch, u \in Threads :
                            /\ Elicitable(ContextId[u], TaskId[u])
                            /\ d.id = ElicitationId(s, ContextId[u], TaskId[u])
  <2>6. Made(e)
    BY <2>2, <2>5
  <2>7. \A d \in elicitations : Made(d)
    BY <1>1 DEF Sent, SentInv
  <2>8. e.id = id /\ e.action = agent[t].action
    OBVIOUS
  <2> HIDE DEF id, e, Made
  <2>9. \A d \in elicitations' : Made(d)
    BY <2>1, <2>6, <2>7 DEF e
  <2>10. SentInv'
    BY <2>1, <2>9 DEF SentInv, Made
  <2>11. \A d \in elicitations' : d.action \in Actions /\ d.id \in IdsUnder(0..epoch)
    BY <1>1, <2>1, <2>3, <2>4, <2>8 DEF Sent, e
  <2> QED
    BY <2>1, <2>10, <2>11 DEF Sent
<1>5. CASE elicitations' = elicitations
  BY <1>1, <1>3, <1>5 DEF Sent, SentInv
<1>6. elicitations' = elicitations \/ \E t \in Threads : Translate(t)
  BY DEF A2aNext, Propose, TranslateFails, HumanSigns, Answer, TaskMints, TaskDispatches,
         A2aRestart, a2aVars
<1> QED
  BY <1>4, <1>5, <1>6

(* A fresh process has no tasks under way and has sent nothing.             *)
LEMMA A2aInitIInv == A2aInit => A2aIInv
<1> SUFFICES ASSUME A2aInit PROVE A2aIInv
  OBVIOUS
<1>1. IInv
  BY InitIInv DEF A2aInit
<1>2. \A t \in Threads : agent[t] = Working /\ call[t] = Idle
  BY DEF A2aInit, Init
<1>3. ASSUME NEW t \in Threads PROVE TaskFine(t)
  BY <1>2 DEF TaskFine, Agents, Working
<1>4. SignedMintable /\ Sent
  BY DEF A2aInit, Init, history, SignedMintable, Sent, SentInv
<1>5. OwnCredentials
  BY <1>2 DEF OwnCredentials, Working
<1>6. DOMAIN agent = Threads /\ agent = [t \in Threads |-> agent[t]]
  BY DEF A2aInit
<1> QED
  BY <1>1, <1>3, <1>4, <1>5, <1>6, FineParts

(* The invariant by its parts, in one name.                                 *)
Whole ==
    /\ IInv /\ SignedMintable
    /\ DOMAIN agent = Threads /\ agent = [t \in Threads |-> agent[t]]
    /\ Sent /\ OwnCredentials
    /\ \A t \in Threads : TaskFine(t)

(* The same of the next state.                                              *)
LEMMA WholeNext == Whole' => A2aIInv'
<1>1. Whole => A2aIInv
  BY FineParts DEF Whole
<1> QED
  BY <1>1, PTL

(* Every step of the surface, and stuttering, keeps the invariant.          *)
LEMMA A2aNextIInv == A2aIInv /\ [A2aNext]_a2aVars => A2aIInv'
<1> SUFFICES ASSUME A2aIInv, [A2aNext]_a2aVars PROVE A2aIInv'
  OBVIOUS
<1>1. IInv'
  BY Parts, VaultStep, NextIInv
<1> QED
  BY <1>1, SignedMintableStep, TasksStep, SentStep, WholeNext DEF Whole

(* Tasks, elicitations and the vault stay consistent with one another,      *)
(* whatever the host answers, in any order and any number of times.         *)
THEOREM A2aInvariance == A2aSpec => []A2aIInv
  BY A2aInitIInv, A2aNextIInv, PTL DEF A2aSpec

(* The tasks use the vault as any client may: all that is proved of         *)
(* InProcessVault holds of the vault behind the A2A surface.                *)
THEOREM SurfaceRefinesVault == A2aSpec => Spec
<1>1. A2aInit => Init
  BY DEF A2aInit
<1>2. A2aIInv /\ [A2aNext]_a2aVars => [Next]_vars
  BY VaultStep
<1> QED
  BY <1>1, <1>2, A2aInvariance, PTL DEF A2aSpec, Spec

(* Whoever is asked can answer: the id of every elicitation that this life  *)
(* of the process has sent leads an acceptance back to its task's context,  *)
(* for ids of any segments.                                                 *)
THEOREM NoElicitationIsADeadEnd == A2aSpec => []ElicitationsLeadBack
<1>1. A2aIInv => ElicitationsLeadBack
  BY Parts
<1> QED
  BY <1>1, A2aInvariance, PTL

(* No task resumes by a made-up id, another context's answer, or an answer  *)
(* to an earlier life of the process.                                       *)
THEOREM ResumedByOwnContextOnly == A2aSpec => []ResumedByOwnContext
<1>1. A2aIInv => ResumedByOwnContext
  BY Parts
<1> QED
  BY <1>1, A2aInvariance, PTL

(* What a human signed for a task's own proposal is turned down only for    *)
(* its time or because it was exchanged already.                            *)
THEOREM GenuineAnswersRun == A2aSpec => []SignedProposalsRun
<1>1. A2aIInv => SignedProposalsRun
  BY Parts
<1> QED
  BY <1>1, A2aInvariance, PTL

(* However often an answer is repeated, what was signed once runs once in   *)
(* each life of the process.                                                *)
THEOREM AnsweredOnce == A2aSpec => []AnswersRunOnce
<1>1. A2aIInv => AnswersRunOnce
  <2> SUFFICES ASSUME A2aIInv, NEW i \in DOMAIN log, NEW j \in DOMAIN log,
                      log[i].epoch = log[j].epoch,
                      Canonical(grants[log[i].jti].payload)
                          = Canonical(grants[log[j].jti].payload)
               PROVE  i = j
    BY DEF AnswersRunOnce
  <2>1. LogInv /\ CredentialSpentOnce /\ SignatureExchangedOncePerLife
    BY Parts DEF IInv
  <2>2. /\ log[i].jti \in DOMAIN grants /\ log[j].jti \in DOMAIN grants
        /\ grants[log[i].jti].epoch = grants[log[j].jti].epoch
    BY <2>1 DEF LogInv
  <2>3. log[i].jti = log[j].jti
    BY <2>1, <2>2 DEF SignatureExchangedOncePerLife
  <2> QED
    BY <2>1, <2>3 DEF CredentialSpentOnce
<1> QED
  BY <1>1, A2aInvariance, PTL
=============================================================================
