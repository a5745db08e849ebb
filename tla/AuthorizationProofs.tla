------------------------- MODULE AuthorizationProofs -------------------------
(***************************************************************************)
(* Lemmas on signed payloads and on the sequences that histories are kept  *)
(* in, for the proofs about the components that use them.                  *)
(***************************************************************************)
EXTENDS Authorization, SequenceTheorems, TLAPS

(* Rounding an instant down to a whole second gives an earlier instant.     *)
LEMMA WholeSecondsNat ==
    ASSUME NEW n \in Nat
    PROVE  WholeSeconds(n) \in Nat
<1>1. n % TicksPerSecond \in Nat
  BY TicksAssumption
<1>2. n = TicksPerSecond * (n \div TicksPerSecond) + (n % TicksPerSecond)
  BY TicksAssumption
<1>3. TicksPerSecond * (n \div TicksPerSecond) \in Nat
  BY TicksAssumption
<1> QED
  BY <1>1, <1>2, <1>3 DEF WholeSeconds

(* Whatever a signer produces is a well-formed payload.                     *)
LEMMA SignTyped ==
    ASSUME NEW action \in Actions, NEW rar \in RarTypes,
           NEW context \in Contexts, NEW frozen \in BOOLEAN,
           NEW secret \in Keys, NEW ttl \in Nat, NEW at \in Nat
    PROVE  SignAuthorizationDetails(action, rar, context, frozen, secret, ttl, at)
              \in Payloads
<1>1. WholeSeconds(at) + ttl \in Nat
  BY WholeSecondsNat
<1> QED
  BY <1>1
  DEF SignAuthorizationDetails, Expiry, Payloads, Signatures, CanonicalForms, Hmac

(* The canonical form of a payload is a canonical form.                     *)
LEMMA CanonicalTyped ==
    ASSUME NEW p \in Payloads
    PROVE  Canonical(p) \in CanonicalForms
  BY DEF Canonical, Payloads, CanonicalForms

-----------------------------------------------------------------------------
(* What a sequence looks like after one element is appended.                *)
LEMMA Appended ==
    ASSUME NEW S, NEW s \in Seq(S), NEW e \in S
    PROVE  LET n == Len(s) + 1
           IN  /\ n \notin DOMAIN s
               /\ DOMAIN Append(s, e) = DOMAIN s \cup {n}
               /\ \A i \in DOMAIN s : Append(s, e)[i] = s[i]
               /\ Append(s, e)[n] = e
<1>1. Len(s) \in Nat /\ DOMAIN s = 1..Len(s)
  OBVIOUS
<1>2. DOMAIN Append(s, e) = 1..(Len(s) + 1)
  OBVIOUS
<1>3. 1..(Len(s) + 1) = 1..Len(s) \cup {Len(s) + 1}
  BY <1>1
<1>4. Len(s) + 1 \notin 1..Len(s)
  BY <1>1
<1> QED
  BY <1>1, <1>2, <1>3, <1>4

(* A function on 1..m is a sequence of length m.                             *)
LEMMA FunctionIsSeq ==
    ASSUME NEW m \in Nat, NEW T, NEW h \in [1..m -> T]
    PROVE  h \in Seq(T) /\ Len(h) = m
  OBVIOUS

(* A function on one index more than a sequence has, which agrees with it   *)
(* on its indices, is the sequence with one entry appended.                 *)
LEMMA MappedAppend ==
    ASSUME NEW n \in Nat, NEW f, f = [i \in 1..n |-> f[i]], NEW e
    PROVE  [i \in 1..n \cup {n + 1} |-> IF i = n + 1 THEN e ELSE f[i]] = Append(f, e)
<1> DEFINE g == [i \in 1..n \cup {n + 1} |-> IF i = n + 1 THEN e ELSE f[i]]
           T == {e} \cup {f[i] : i \in 1..n}
<1>0. e \in T /\ f \in [1..n -> T]
  OBVIOUS
<1>1. f \in Seq(T) /\ Len(f) = n
  <2> HIDE DEF T
  <2> QED
    BY <1>0, FunctionIsSeq
<1>2. 1..n \cup {n + 1} = 1..(n + 1) /\ n + 1 \in Nat
  OBVIOUS
<1>3. g \in [1..(n + 1) -> T]
  BY <1>2
<1> HIDE DEF T
<1>4. g \in Seq(T) /\ Len(g) = n + 1
  <2> HIDE DEF g
  <2> QED
    BY <1>2, <1>3, FunctionIsSeq, Zenon
<1>5. /\ Append(f, e) \in Seq(T)
      /\ Len(Append(f, e)) = n + 1
      /\ \A i \in 1..n : Append(f, e)[i] = f[i]
      /\ Append(f, e)[n + 1] = e
  BY <1>0, <1>1, AppendProperties
<1>6. \A i \in 1..(n + 1) : g[i] = Append(f, e)[i]
  BY <1>2, <1>5
<1> HIDE DEF g
<1>7. g = Append(f, e)
  BY <1>4, <1>5, <1>6, SeqEqual
<1> QED
  BY <1>7 DEF g
=============================================================================
