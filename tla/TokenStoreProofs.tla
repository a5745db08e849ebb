--------------------------- MODULE TokenStoreProofs ---------------------------
(***************************************************************************)
(* Proofs about the bearer tokens for every number of administrators and   *)
(* tokens, and however many administrators are killed, as long as the      *)
(* directory has an inode for whoever creates a file.                      *)
(***************************************************************************)
EXTENDS TokenStore, FiniteSetTheorems, TLAPS

(* What the records of administrators have.                                 *)
LEMMA OperationTyped ==
    ASSUME NEW m \in Operations, m # AtRest
    PROVE  /\ m.step \in {"open", "write", "replace"}
           /\ m.op \in {"issue", "revoke"}
           /\ m.token \in Tokens
           /\ m.data \in Dicts
           /\ m.alone \in BOOLEAN
           /\ m.step # "open" => m.inode \in Inodes
BY DEF Operations, AtRest

LEMMA ActiveTyped ==
    ASSUME TokenTypeOK, NEW a \in Admins, admin[a].step # "rest"
    PROVE  /\ a \in Active
           /\ admin[a].step \in {"open", "write", "replace"}
           /\ admin[a].op \in {"issue", "revoke"}
           /\ admin[a].token \in Tokens
           /\ admin[a].data \in Dicts
           /\ admin[a].alone \in BOOLEAN
           /\ admin[a].step # "open" => admin[a].inode \in Inodes
BY OperationTyped DEF TokenTypeOK, Active, AtRest

(* An administrator that goes on to write keeps a well-formed record.       *)
LEMMA WriterTyped ==
    ASSUME NEW step \in {"write", "replace"}, NEW op \in {"issue", "revoke"},
           NEW token \in Tokens, NEW data \in Dicts, NEW alone \in BOOLEAN,
           NEW i \in Inodes
    PROVE  [step |-> step, op |-> op, token |-> token, data |-> data,
            alone |-> alone, inode |-> i] \in Operations
BY DEF Operations

LEMMA OpenTyped ==
    ASSUME NEW op \in {"issue", "revoke"}, NEW token \in Tokens, NEW data \in Dicts,
           NEW alone \in BOOLEAN
    PROVE  [step |-> "open", op |-> op, token |-> token, data |-> data,
            alone |-> alone] \in Operations
BY DEF Operations

(* Whoever comes along ends the solitude of an operation, and changes       *)
(* nothing else about it.                                                   *)
LEMMA NoLongerAlone ==
    ASSUME NEW m \in Operations, m # AtRest,
           NEW n, n = [m EXCEPT !.alone = FALSE]
    PROVE  /\ n \in Operations
           /\ n # AtRest
           /\ ~n.alone
           /\ n.step = m.step /\ n.op = m.op /\ n.token = m.token /\ n.data = m.data
BY DEF Operations, AtRest

(* A text that is moved on to the rename keeps its writer.                  *)
LEMMA OnToReplace ==
    ASSUME NEW m \in Operations, m.step = "write",
           NEW n, n = [m EXCEPT !.step = "replace"]
    PROVE  /\ n \in Operations
           /\ n # AtRest
           /\ n.step = "replace"
           /\ n.op = m.op /\ n.token = m.token /\ n.data = m.data /\ n.alone = m.alone
           /\ n.inode = m.inode
BY DEF Operations, AtRest

-----------------------------------------------------------------------------
LEMMA OneMore ==
    ASSUME NEW S, IsFiniteSet(S), Cardinality(S) \in Nat, NEW x
    PROVE  /\ IsFiniteSet(S \cup {x})
           /\ Cardinality(S \cup {x}) \in Nat
           /\ Cardinality(S \cup {x}) <= Cardinality(S) + 1
<1>1. IsFiniteSet(S \cup {x})
      /\ Cardinality(S \cup {x}) = IF x \in S THEN Cardinality(S) ELSE Cardinality(S) + 1
  BY FS_AddElement
<1> QED
  BY <1>1

(* Whoever creates the temporary file finds an inode that is not in use.    *)
LEMMA FreshInode ==
    ASSUME TokenTypeOK, NEW a \in Admins, admin[a].step = "open"
    PROVE  Fresh \in Inodes /\ Fresh # store /\ Fresh # tmp
<1> DEFINE W == {c \in Admins : admin[c].step \in {"write", "replace"}}
           T == {admin[b].inode : b \in W}
           f == [b \in W |-> admin[b].inode]
<1>1. W \in SUBSET Admins /\ W # Admins
  OBVIOUS
<1>2. IsFiniteSet(W) /\ Cardinality(W) \in Nat /\ Cardinality(W) < Cardinality(Admins)
  BY <1>1, FS_Subset, FS_CardinalityType, TokenStoreAssumption
<1>3. f \in Surjection(W, T)
  BY DEF Surjection
<1>4. IsFiniteSet(T) /\ Cardinality(T) \in Nat /\ Cardinality(T) <= Cardinality(W)
  BY <1>2, <1>3, FS_Surjection, FS_CardinalityType
<1>5. IsFiniteSet(T \cup {store}) /\ Cardinality(T \cup {store}) \in Nat
      /\ Cardinality(T \cup {store}) <= Cardinality(T) + 1
  BY <1>4, OneMore
<1>6. IsFiniteSet((T \cup {store}) \cup {tmp})
      /\ Cardinality((T \cup {store}) \cup {tmp}) \in Nat
      /\ Cardinality((T \cup {store}) \cup {tmp}) <= Cardinality(T \cup {store}) + 1
  BY <1>5, OneMore
<1>7. Cardinality(Admins) \in Nat /\ Cardinality(Inodes) \in Nat
  BY FS_CardinalityType, TokenStoreAssumption
<1>8. Cardinality((T \cup {store}) \cup {tmp}) < Cardinality(Inodes)
  BY <1>2, <1>4, <1>5, <1>6, <1>7, TokenStoreAssumption
<1>9. ~ (Inodes \subseteq (T \cup {store}) \cup {tmp})
  BY <1>6, <1>7, <1>8, FS_Subset
<1>10. \E i \in Inodes : i \in Unused
  BY <1>9 DEF Unused
<1>11. Fresh \in Unused
  BY <1>10 DEF Fresh
<1> QED
  BY <1>11 DEF Unused

(* What the store says is a dict, if it says anything.                      *)
LEMMA LoadedTyped ==
    ASSUME TokenTypeOK, Loadable
    PROVE  /\ Loaded \in Dicts
           /\ Loaded.known \in SUBSET Tokens
           /\ Loaded.revoked \in SUBSET Loaded.known
BY DEF TokenTypeOK, Loadable, Loaded, Dicts, EmptyDict

(* A settled revocation is in what the next load returns.                   *)
LEMMA SettledLoads ==
    ASSUME TokenTypeOK, SettledInv, Loadable
    PROVE  settled \subseteq Loaded.revoked
BY DEF TokenTypeOK, SettledInv, Loadable, Loaded, Decodes

-----------------------------------------------------------------------------
(* An operation begins: it has loaded what the store says, with one change. *)
LEMMA BeginKeeps ==
    ASSUME TokenIInv, NEW a \in Admins, admin[a] = AtRest, Loadable,
           NEW op \in {"issue", "revoke"}, NEW token \in Tokens, NEW data \in Dicts,
           Begin(a, op, token, data),
           UNCHANGED <<files, check, verdict, issuedTo, revokedBy, settled, crashes>>,
           drawn \subseteq drawn', drawn' \subseteq Tokens,
           targeted \subseteq targeted', targeted' \subseteq issuedTo,
           Loaded.known \subseteq data.known,
           Loaded.revoked \subseteq data.revoked,
           data.revoked \subseteq Loaded.revoked \cup targeted',
           op = "issue" => token \in drawn' \cap data.known,
           op = "revoke" => token \in targeted' \cap data.revoked
    PROVE  TokenIInv'
<1> DEFINE new == [step |-> "open", op |-> op, token |-> token, data |-> data,
                   alone |-> Alone(a)]
<1>1. new \in Operations /\ new # AtRest
  <2>1. Alone(a) \in BOOLEAN
    BY DEF Alone
  <2> QED
    BY <2>1, OpenTyped DEF AtRest
<1>2. /\ admin'[a] = new
      /\ \A b \in Admins \ {a} : admin[b] = AtRest => admin'[b] = AtRest
      /\ \A b \in Admins \ {a} :
            admin[b] # AtRest => admin'[b] = [admin[b] EXCEPT !.alone = FALSE]
      /\ DOMAIN admin' = Admins
      /\ admin' = [b \in Admins |-> admin'[b]]
  BY DEF Begin
<1>3. \A b \in Admins \ {a} : admin[b] # AtRest =>
        /\ admin'[b] \in Operations /\ admin'[b] # AtRest /\ ~admin'[b].alone
        /\ admin'[b].op = admin[b].op /\ admin'[b].token = admin[b].token
        /\ admin'[b].data = admin[b].data
  <2> SUFFICES ASSUME NEW b \in Admins \ {a}, admin[b] # AtRest
               PROVE  /\ admin'[b] \in Operations /\ admin'[b] # AtRest /\ ~admin'[b].alone
                      /\ admin'[b].op = admin[b].op /\ admin'[b].token = admin[b].token
                      /\ admin'[b].data = admin[b].data
    OBVIOUS
  <2>1. admin[b] \in Operations
    BY DEF TokenIInv, TokenTypeOK
  <2> QED
    BY <1>2, <2>1, NoLongerAlone
<1>4. raced' = (raced \/ ~Alone(a))
  BY DEF Begin
<1>5. /\ store' = store /\ tmp' = tmp /\ text' = text
      /\ Loaded' = Loaded /\ Loadable' = Loadable
      /\ \A i : Decodes(i)' = Decodes(i)
  BY DEF files, Loaded, Loadable, Decodes
<1> HIDE DEF new
<1>6. TokenTypeOK'
  <2>1. \A b \in Admins : admin'[b] \in Operations
    BY <1>1, <1>2, <1>3 DEF Operations
  <2>2. admin' \in [Admins -> Operations]
    BY <2>1, <1>2
  <2>3. raced' \in BOOLEAN
    BY <1>4 DEF TokenIInv, TokenTypeOK, Alone
  <2> QED
    BY <2>2, <2>3, <1>5 DEF TokenIInv, TokenTypeOK
<1>7. \A b \in Active' : b = a \/ b \in Active
  BY <1>2 DEF Active
<1>8. WritersInv'
  <2> SUFFICES ASSUME NEW b \in Active'
               PROVE  LET m == admin'[b]
                      IN  /\ m.op = "issue" => m.token \in drawn' \cap m.data.known
                          /\ m.op = "revoke" => m.token \in targeted' \cap m.data.revoked
                          /\ m.alone => Alone(b)'
                          /\ m.alone /\ m.step = "write" => tmp' = m.inode /\ text'[tmp'] = Blank
                          /\ m.alone /\ m.step = "replace" => tmp' = m.inode /\ text'[tmp'] = m.data
    BY DEF WritersInv
  <2>1. CASE b = a
    <3>1. Alone(a) => Alone(a)'
      BY <1>2 DEF Alone
    <3> QED
      BY <2>1, <3>1, <1>2 DEF new
  <2>2. CASE b # a
    <3>1. b \in Active
      BY <1>7, <2>2
    <3> QED
      BY <2>2, <3>1, <1>3 DEF TokenIInv, WritersInv, Active
  <2> QED
    BY <2>1, <2>2
<1>9. SettledInv'
  <2>1. settled \subseteq data.revoked
    BY SettledLoads DEF TokenIInv
  <2>2. \A b \in Active' : settled \subseteq admin'[b].data.revoked
    BY <2>1, <1>2, <1>3, <1>7 DEF TokenIInv, SettledInv, Active, new
  <2> QED
    BY <2>2, <1>5 DEF TokenIInv, SettledInv, Decodes
<1>10. QuietInv' /\ QuietStoreIsExact'
  <2>1. CASE raced'
    BY <2>1 DEF QuietInv, QuietStoreIsExact
  <2>2. CASE ~raced'
    <3>1. ~raced /\ Alone(a)
      BY <2>2, <1>4
    <3>2. \A b \in Active' : b = a
      BY <3>1, <1>2 DEF Active, Alone
    <3>3. /\ issuedTo \subseteq data.known /\ revokedBy \subseteq data.revoked
          /\ data.revoked \subseteq targeted'
      BY <3>1 DEF TokenIInv, QuietStoreIsExact
    <3> QED
      BY <2>2, <3>1, <3>2, <3>3, <1>2, <1>5
      DEF TokenIInv, QuietInv, QuietStoreIsExact, new
  <2> QED
    BY <2>1, <2>2
<1>11. CheckInv' /\ RevocationHolds' /\ LiveTokenHonoured'
  BY <1>4 DEF TokenIInv, CheckInv, RevocationHolds, LiveTokenHonoured
<1> QED
  BY <1>6, <1>8, <1>9, <1>10, <1>11 DEF TokenIInv

LEMMA IssueKeeps ==
    ASSUME TokenIInv, NEW a \in Admins, NEW t \in Tokens, Issue(a, t)
    PROVE  TokenIInv'
<1> DEFINE data == [Loaded EXCEPT !.known = @ \cup {t}]
<1>1. Loaded \in Dicts /\ Loadable
  BY LoadedTyped DEF TokenIInv, Issue
<1>2. /\ data \in Dicts
      /\ data.known = Loaded.known \cup {t}
      /\ data.revoked = Loaded.revoked
  BY <1>1 DEF Dicts
<1>3. /\ admin[a] = AtRest
      /\ Begin(a, "issue", t, data)
      /\ UNCHANGED <<files, check, verdict, issuedTo, revokedBy, settled, crashes>>
      /\ drawn' = drawn \cup {t} /\ targeted' = targeted
  BY DEF Issue
<1>4. drawn \subseteq Tokens /\ targeted \subseteq issuedTo
  BY DEF TokenIInv, TokenTypeOK
<1> HIDE DEF data
<1> QED
  BY <1>1, <1>2, <1>3, <1>4, BeginKeeps

LEMMA RevokeKeeps ==
    ASSUME TokenIInv, NEW a \in Admins, NEW t \in Tokens, Revoke(a, t)
    PROVE  TokenIInv'
<1> DEFINE data == [Loaded EXCEPT !.revoked = @ \cup {t}]
<1>1. Loaded \in Dicts /\ Loadable /\ t \in Loaded.known /\ t \in issuedTo
  BY LoadedTyped DEF TokenIInv, Revoke
<1>2. /\ data \in Dicts
      /\ data.known = Loaded.known
      /\ data.revoked = Loaded.revoked \cup {t}
  BY <1>1 DEF Dicts
<1>3. /\ admin[a] = AtRest
      /\ Begin(a, "revoke", t, data)
      /\ UNCHANGED <<files, check, verdict, issuedTo, revokedBy, settled, crashes>>
      /\ targeted' = targeted \cup {t} /\ drawn' = drawn
  BY DEF Revoke
<1>4. drawn \subseteq Tokens /\ targeted \subseteq issuedTo
  BY DEF TokenIInv, TokenTypeOK
<1> HIDE DEF data
<1> QED
  BY <1>1, <1>2, <1>3, <1>4, BeginKeeps

-----------------------------------------------------------------------------
(* An operation that goes on without another beginning or ending: its       *)
(* record changes in the step and the inode only.                           *)
LEMMA GoesOn ==
    ASSUME TokenIInv, NEW a \in Active, NEW m \in Operations, m # AtRest,
           admin' = [admin EXCEPT ![a] = m],
           m.op = admin[a].op, m.token = admin[a].token, m.data = admin[a].data,
           m.alone = admin[a].alone
    PROVE  /\ admin' \in [Admins -> Operations]
           /\ Active' = Active
           /\ \A b \in Active :
                 /\ admin'[b].op = admin[b].op /\ admin'[b].token = admin[b].token
                 /\ admin'[b].data = admin[b].data /\ admin'[b].alone = admin[b].alone
                 /\ Alone(b)' = Alone(b)
           /\ \A b \in Active \ {a} :
                 admin'[b] = admin[b] /\ ~admin[b].alone
<1>1. admin \in [Admins -> Operations] /\ a \in Admins
  BY DEF TokenIInv, TokenTypeOK, Active
<1>2. admin' \in [Admins -> Operations] /\ admin'[a] = m
      /\ \A b \in Admins \ {a} : admin'[b] = admin[b]
  BY <1>1
<1>3. Active' = Active
  BY <1>1, <1>2 DEF Active
<1>4. \A b \in Active : Alone(b)' = Alone(b)
  BY <1>1, <1>2, <1>3 DEF Active, Alone
<1>5. \A b \in Active \ {a} : ~admin[b].alone
  BY <1>1 DEF TokenIInv, WritersInv, Alone, Active
<1> QED
  BY <1>2, <1>3, <1>4, <1>5 DEF Active

LEMMA OpenTmpKeeps ==
    ASSUME TokenIInv, NEW a \in Admins, OpenTmp(a)
    PROVE  TokenIInv'
<1> DEFINE i == IF tmp = NoFile THEN Fresh ELSE tmp
           m == [step |-> "write", op |-> admin[a].op, token |-> admin[a].token,
                 data |-> admin[a].data, alone |-> admin[a].alone, inode |-> i]
<1>1. TokenTypeOK
  BY DEF TokenIInv
<1>2. a \in Active /\ i \in Inodes /\ m \in Operations /\ m # AtRest
  <2>1. i \in Inodes
    BY <1>1, FreshInode DEF OpenTmp, TokenTypeOK
  <2> QED
    BY <1>1, <2>1, ActiveTyped, WriterTyped DEF OpenTmp, AtRest
<1>3. /\ tmp' = i /\ text' = [text EXCEPT ![i] = Blank]
      /\ admin' = [admin EXCEPT ![a] = m]
      /\ UNCHANGED <<store, check, verdict, tokenHistory>>
  BY DEF OpenTmp
<1>4. tmp = NoFile => i # store
  BY <1>1, FreshInode DEF OpenTmp
<1>5. /\ m.step = "write" /\ m.inode = i /\ m.op = admin[a].op
      /\ m.token = admin[a].token /\ m.data = admin[a].data /\ m.alone = admin[a].alone
  OBVIOUS
<1> HIDE DEF i, m
<1>6. /\ admin' \in [Admins -> Operations] /\ admin'[a] = m
      /\ Active' = Active
      /\ \A b \in Active :
            /\ admin'[b].op = admin[b].op /\ admin'[b].token = admin[b].token
            /\ admin'[b].data = admin[b].data /\ admin'[b].alone = admin[b].alone
            /\ Alone(b)' = Alone(b)
      /\ \A b \in Active \ {a} : ~admin[b].alone
  BY <1>1, <1>2, <1>3, <1>5, GoesOn DEF TokenTypeOK
<1>8. TokenTypeOK'
  BY <1>1, <1>2, <1>3, <1>6 DEF TokenTypeOK, tokenHistory
<1>9. WritersInv'
  <2>1. text'[i] = Blank
    BY <1>1, <1>2, <1>3 DEF TokenTypeOK
  <2> QED
    BY <2>1, <1>3, <1>5, <1>6 DEF TokenIInv, WritersInv, tokenHistory
<1>10. \A k \in Inodes : text'[k] = text[k] \/ text'[k] = Blank
  BY <1>1, <1>3 DEF TokenTypeOK
<1>11. SettledInv'
  BY <1>1, <1>2, <1>3, <1>6, <1>10
  DEF TokenIInv, TokenTypeOK, SettledInv, Decodes, tokenHistory
<1>12. QuietInv' /\ QuietStoreIsExact'
  <2>1. CASE raced'
    BY <2>1 DEF QuietInv, QuietStoreIsExact
  <2>2. CASE ~raced'
    <3>1. ~raced
      BY <2>2, <1>3 DEF tokenHistory
    <3>2. i # store
      BY <3>1, <1>4 DEF TokenIInv, QuietInv, i
    <3>3. Loaded' = Loaded /\ Loadable' = Loadable
      BY <3>2, <1>1, <1>3 DEF Loaded, Loadable, TokenTypeOK
    <3> QED
      BY <3>1, <3>2, <3>3, <1>3, <1>6
      DEF TokenIInv, QuietInv, QuietStoreIsExact, tokenHistory
  <2> QED
    BY <2>1, <2>2
<1>13. CheckInv' /\ RevocationHolds' /\ LiveTokenHonoured'
  BY <1>3 DEF TokenIInv, CheckInv, RevocationHolds, LiveTokenHonoured, tokenHistory
<1> QED
  BY <1>8, <1>9, <1>11, <1>12, <1>13 DEF TokenIInv

LEMMA WriteTmpKeeps ==
    ASSUME TokenIInv, NEW a \in Admins, WriteTmp(a)
    PROVE  TokenIInv'
<1> DEFINE i == admin[a].inode
           m == [admin[a] EXCEPT !.step = "replace"]
<1>1. TokenTypeOK
  BY DEF TokenIInv
<1>2. a \in Active /\ i \in Inodes /\ admin[a].data \in Dicts
      /\ admin[a] \in Operations
  BY <1>1, ActiveTyped DEF WriteTmp, TokenTypeOK
<1>3. /\ admin' = [admin EXCEPT ![a] = m]
      /\ UNCHANGED <<store, tmp, check, verdict, tokenHistory>>
  BY DEF WriteTmp
<1>4. PICK after \in {admin[a].data} \cup (IF text[i] = Blank THEN {} ELSE {Garbled}) :
          text' = [text EXCEPT ![i] = after]
  BY DEF WriteTmp
<1>5. /\ m \in Operations /\ m # AtRest
      /\ m.step = "replace" /\ m.inode = i /\ m.op = admin[a].op
      /\ m.token = admin[a].token /\ m.data = admin[a].data /\ m.alone = admin[a].alone
  BY <1>2, OnToReplace DEF WriteTmp
<1> HIDE DEF m
<1>6. /\ admin' \in [Admins -> Operations] /\ admin'[a] = m
      /\ Active' = Active
      /\ \A b \in Active :
            /\ admin'[b].op = admin[b].op /\ admin'[b].token = admin[b].token
            /\ admin'[b].data = admin[b].data /\ admin'[b].alone = admin[b].alone
            /\ Alone(b)' = Alone(b)
      /\ \A b \in Active \ {a} : ~admin[b].alone
  BY <1>1, <1>2, <1>3, <1>5, GoesOn DEF TokenTypeOK
<1>7. after \in Dicts \cup {Garbled} /\ text'[i] = after
      /\ \A k \in Inodes \ {i} : text'[k] = text[k]
  BY <1>1, <1>2, <1>4 DEF TokenTypeOK
<1>8. TokenTypeOK'
  BY <1>1, <1>2, <1>3, <1>4, <1>6, <1>7 DEF TokenTypeOK, tokenHistory
<1>9. admin[a].alone => tmp = i /\ after = admin[a].data
  BY <1>2, <1>4 DEF TokenIInv, WritersInv, WriteTmp
<1>10. WritersInv'
  BY <1>3, <1>5, <1>6, <1>7, <1>9 DEF TokenIInv, WritersInv, tokenHistory
<1>11. SettledInv'
  <2>1. \A s \in settled : s \in admin[a].data.revoked
    BY <1>2 DEF TokenIInv, SettledInv
  <2>2. \A s \in settled : text'[i] \notin {Blank, Garbled} => s \in text'[i].revoked
    BY <2>1, <1>4, <1>7
  <2> QED
    BY <2>2, <1>1, <1>3, <1>6, <1>7
    DEF TokenIInv, TokenTypeOK, SettledInv, Decodes, tokenHistory
<1>12. QuietInv' /\ QuietStoreIsExact'
  <2>1. CASE raced'
    BY <2>1 DEF QuietInv, QuietStoreIsExact
  <2>2. CASE ~raced'
    <3>1. ~raced
      BY <2>2, <1>3 DEF tokenHistory
    <3>2. i # store
      BY <3>1, <1>2, <1>9, TokenStoreAssumption DEF TokenIInv, QuietInv
    <3>3. Loaded' = Loaded /\ Loadable' = Loadable
      BY <3>2, <1>1, <1>3, <1>7 DEF Loaded, Loadable, TokenTypeOK
    <3> QED
      BY <3>1, <3>2, <3>3, <1>3, <1>6
      DEF TokenIInv, QuietInv, QuietStoreIsExact, tokenHistory
  <2> QED
    BY <2>1, <2>2
<1>13. CheckInv' /\ RevocationHolds' /\ LiveTokenHonoured'
  BY <1>3 DEF TokenIInv, CheckInv, RevocationHolds, LiveTokenHonoured, tokenHistory
<1> QED
  BY <1>8, <1>10, <1>11, <1>12, <1>13 DEF TokenIInv

-----------------------------------------------------------------------------
(* An operation ends and leaves the files, or renames the temporary one.    *)
LEMMA Leaves ==
    ASSUME TokenIInv, NEW a \in Active, admin' = [admin EXCEPT ![a] = AtRest]
    PROVE  /\ admin' \in [Admins -> Operations]
           /\ Active' = Active \ {a}
           /\ \A b \in Active \ {a} : admin'[b] = admin[b] /\ ~admin[b].alone
<1>1. admin \in [Admins -> Operations] /\ a \in Admins /\ AtRest \in Operations
  BY DEF TokenIInv, TokenTypeOK, Active, Operations
<1>2. \A b \in Active \ {a} : ~admin[b].alone
  BY <1>1 DEF TokenIInv, WritersInv, Alone, Active
<1> QED
  BY <1>1, <1>2 DEF Active

LEMMA ReplaceKeeps ==
    ASSUME TokenIInv, NEW a \in Admins, Replace(a)
    PROVE  TokenIInv'
<1> DEFINE m == admin[a]
<1>1. TokenTypeOK /\ a \in Active
  BY ActiveTyped DEF TokenIInv, Replace
<1>2. /\ m.step = "replace" /\ tmp \in Inodes
      /\ store' = tmp /\ tmp' = NoFile /\ text' = text
      /\ admin' = [admin EXCEPT ![a] = AtRest]
      /\ issuedTo' = (IF m.op = "issue" THEN issuedTo \cup {m.token} ELSE issuedTo)
      /\ revokedBy' = (IF m.op = "revoke" THEN revokedBy \cup {m.token} ELSE revokedBy)
      /\ settled' = (IF m.op = "revoke" /\ m.alone THEN settled \cup {m.token} ELSE settled)
      /\ UNCHANGED <<check, verdict, drawn, targeted, raced, crashes>>
  BY <1>1 DEF Replace, TokenTypeOK
<1>3. /\ m.op \in {"issue", "revoke"} /\ m.token \in Tokens /\ m.data \in Dicts
      /\ m.op = "issue" => m.token \in drawn \cap m.data.known
      /\ m.op = "revoke" => m.token \in targeted \cap m.data.revoked
      /\ m.alone => text[tmp] = m.data /\ tmp # NoFile /\ Alone(a)
  BY <1>1, <1>2, ActiveTyped DEF TokenIInv, WritersInv, Replace
<1>4. /\ admin' \in [Admins -> Operations] /\ Active' = Active \ {a}
      /\ \A b \in Active \ {a} : admin'[b] = admin[b] /\ ~admin[b].alone
  BY <1>1, <1>2, Leaves
<1>5. m.alone => Active' = {}
  BY <1>3, <1>4 DEF Active, Alone
<1> HIDE DEF m
<1>6. TokenTypeOK'
  BY <1>1, <1>2, <1>3, <1>4 DEF TokenTypeOK
<1>7. WritersInv'
  BY <1>2, <1>4 DEF TokenIInv, WritersInv
<1>8. SettledInv'
  <2>1. \A s \in settled : Decodes(tmp) => s \in text[tmp].revoked
    BY <1>1, <1>2, TokenStoreAssumption DEF TokenIInv, SettledInv, TokenTypeOK
  <2>2. settled' # settled => m.alone /\ m.token \in text[tmp].revoked
    BY <1>2, <1>3
  <2>3. \A s \in settled' : Decodes(tmp) => s \in text[tmp].revoked
    BY <2>1, <2>2, <1>2
  <2>4. \A s \in settled' : \A b \in Active' : s \in admin'[b].data.revoked
    BY <2>2, <1>2, <1>4, <1>5 DEF TokenIInv, SettledInv
  <2> QED
    BY <2>3, <2>4, <1>2, TokenStoreAssumption DEF SettledInv, Decodes
<1>9. QuietInv' /\ QuietStoreIsExact'
  <2>1. CASE raced'
    BY <2>1 DEF QuietInv, QuietStoreIsExact
  <2>2. CASE ~raced'
    <3>1. m.alone
      BY <2>2, <1>1, <1>2 DEF TokenIInv, QuietInv, m
    <3>2. Active' = {} /\ text[tmp] = m.data /\ tmp # NoFile
      BY <3>1, <1>3, <1>5
    <3>3. Loaded' = m.data /\ Loadable'
      BY <3>2, <1>2, <1>3 DEF Loaded, Loadable, Dicts, Blank, Garbled
    <3>4. /\ issuedTo \subseteq m.data.known /\ revokedBy \subseteq m.data.revoked
          /\ m.data.revoked \subseteq targeted
      BY <2>2, <1>1, <1>2 DEF TokenIInv, QuietInv, m
    <3> QED
      BY <3>2, <3>3, <3>4, <1>2, <1>3 DEF QuietInv, QuietStoreIsExact
  <2> QED
    BY <2>1, <2>2
<1>10. CheckInv' /\ RevocationHolds' /\ LiveTokenHonoured'
  BY <1>2 DEF TokenIInv, CheckInv, RevocationHolds, LiveTokenHonoured
<1> QED
  BY <1>6, <1>7, <1>8, <1>9, <1>10 DEF TokenIInv

(* It fails or its process is killed: the files stay as they are.           *)
LEMMA LeavesFiles ==
    ASSUME TokenIInv, NEW a \in Active, admin' = [admin EXCEPT ![a] = AtRest],
           UNCHANGED <<files, check, verdict, issuedTo, drawn, targeted, revokedBy,
                       settled, raced>>,
           crashes' \in 0..MaxCrashes
    PROVE  TokenIInv'
<1>1. /\ admin' \in [Admins -> Operations] /\ Active' = Active \ {a}
      /\ \A b \in Active \ {a} : admin'[b] = admin[b] /\ ~admin[b].alone
  BY Leaves
<1>2. TokenTypeOK'
  BY <1>1 DEF TokenIInv, TokenTypeOK, files
<1>3. WritersInv' /\ SettledInv'
  BY <1>1 DEF TokenIInv, WritersInv, SettledInv, Decodes, files
<1>4. QuietInv' /\ QuietStoreIsExact'
  BY <1>1 DEF TokenIInv, QuietInv, QuietStoreIsExact, Loaded, Loadable, files
<1>5. CheckInv' /\ RevocationHolds' /\ LiveTokenHonoured'
  BY DEF TokenIInv, CheckInv, RevocationHolds, LiveTokenHonoured
<1> QED
  BY <1>2, <1>3, <1>4, <1>5 DEF TokenIInv

LEMMA ReplaceFailsKeeps ==
    ASSUME TokenIInv, NEW a \in Admins, ReplaceFails(a)
    PROVE  TokenIInv'
<1>1. a \in Active
  BY ActiveTyped DEF TokenIInv, ReplaceFails
<1> QED
  BY <1>1, LeavesFiles DEF ReplaceFails, tokenHistory, TokenIInv, TokenTypeOK

LEMMA CrashKeeps ==
    ASSUME TokenIInv, NEW a \in Admins, Crash(a)
    PROVE  TokenIInv'
<1>1. a \in Active /\ crashes' \in 0..MaxCrashes
  BY TokenStoreAssumption DEF TokenIInv, TokenTypeOK, Crash, Active
<1> QED
  BY <1>1, LeavesFiles DEF Crash

-----------------------------------------------------------------------------
(* The server's loads leave the files and the administrators alone.         *)
LEMMA ReadingKeeps ==
    ASSUME TokenIInv, UNCHANGED <<files, admin, tokenHistory>>,
           check' \in Checks, verdict' \in Verdicts,
           CheckInv', RevocationHolds', LiveTokenHonoured'
    PROVE  TokenIInv'
<1>1. TokenTypeOK'
  BY DEF TokenIInv, TokenTypeOK, files, tokenHistory
<1>2. WritersInv' /\ SettledInv'
  BY DEF TokenIInv, WritersInv, SettledInv, Active, Alone, Decodes, files, tokenHistory
<1>3. QuietInv' /\ QuietStoreIsExact'
  BY DEF TokenIInv, QuietInv, QuietStoreIsExact, Active, Loaded, Loadable, files, tokenHistory
<1> QED
  BY <1>1, <1>2, <1>3 DEF TokenIInv

LEMMA VerifyBearerKeeps ==
    ASSUME TokenIInv, NEW t \in Tokens, VerifyBearer(t)
    PROVE  TokenIInv'
<1> DEFINE c == [step |-> "revoked?", token |-> t,
                 live |-> t \in issuedTo, barred |-> t \in settled]
<1>1. check' = c /\ UNCHANGED <<files, admin, verdict, tokenHistory>>
  BY DEF VerifyBearer
<1>2. c \in Checks
  BY DEF Checks
<1>3. CheckInv' /\ RevocationHolds' /\ LiveTokenHonoured'
  BY <1>1 DEF TokenIInv, CheckInv, RevocationHolds, LiveTokenHonoured, tokenHistory
<1> QED
  BY <1>1, <1>2, <1>3, ReadingKeeps DEF TokenIInv, TokenTypeOK

(* A verification comes to a verdict that both promises allow.              *)
LEMMA ConcludeKeeps ==
    ASSUME TokenIInv, check # NoCheck,
           NEW reason \in {"honoured", "revoked", "invalid_hmac", "error"},
           Conclude(reason),
           check.token \in settled => reason # "honoured",
           check.token \in issuedTo \ targeted /\ ~raced => reason = "honoured"
    PROVE  TokenIInv'
<1>1. /\ verdict' = [reason |-> reason, token |-> check.token,
                     live |-> check.live, barred |-> check.barred]
      /\ check' = NoCheck
      /\ UNCHANGED <<files, admin, tokenHistory>>
  BY DEF Conclude
<1>2. check.token \in Tokens /\ check.live \in BOOLEAN /\ check.barred \in BOOLEAN
  BY DEF TokenIInv, TokenTypeOK, Checks
<1>3. verdict' \in Verdicts /\ check' \in Checks
  BY <1>1, <1>2 DEF Verdicts, Checks
<1>4. /\ check.live => check.token \in issuedTo
      /\ check.barred => check.token \in settled
  BY DEF TokenIInv, CheckInv
<1>5. CheckInv' /\ RevocationHolds' /\ LiveTokenHonoured'
  BY <1>1, <1>4 DEF CheckInv, RevocationHolds, LiveTokenHonoured, tokenHistory
<1> QED
  BY <1>1, <1>3, <1>5, ReadingKeeps

LEMMA IsRevokedKeeps ==
    ASSUME TokenIInv, IsRevoked
    PROVE  TokenIInv'
<1>1. check # NoCheck /\ check.step = "revoked?"
  BY DEF IsRevoked, NoCheck
<1>2. CASE ~Loadable /\ Conclude("error")
  <2>1. raced
    BY <1>2 DEF TokenIInv, QuietStoreIsExact
  <2> QED
    BY <1>1, <1>2, <2>1, ConcludeKeeps
<1>3. CASE Loadable /\ StoreSaysRevoked /\ Conclude("revoked")
  <2>1. raced \/ check.token \in targeted
    BY <1>3 DEF TokenIInv, QuietStoreIsExact, StoreSaysRevoked
  <2> QED
    BY <1>1, <1>3, <2>1, ConcludeKeeps
<1>4. CASE /\ check' = [check EXCEPT !.step = "lookup"]
           /\ UNCHANGED <<files, admin, verdict, tokenHistory>>
  <2>1. /\ check' \in Checks /\ check'.token = check.token
        /\ check'.live = check.live /\ check'.barred = check.barred
    BY <1>1, <1>4 DEF TokenIInv, TokenTypeOK, Checks, NoCheck
  <2>2. CheckInv' /\ RevocationHolds' /\ LiveTokenHonoured'
    BY <1>1, <1>4, <2>1
    DEF TokenIInv, CheckInv, RevocationHolds, LiveTokenHonoured, tokenHistory
  <2> QED
    BY <1>4, <2>1, <2>2, ReadingKeeps DEF TokenIInv, TokenTypeOK
<1> QED
  BY <1>2, <1>3, <1>4 DEF IsRevoked

LEMMA LookupActiveKeeps ==
    ASSUME TokenIInv, LookupActive
    PROVE  TokenIInv'
<1> DEFINE found == Loadable /\ check.token \in Loaded.known /\ ~StoreSaysRevoked
<1>1. check # NoCheck /\ Conclude(IF found THEN "honoured" ELSE "invalid_hmac")
  BY DEF LookupActive, NoCheck
<1>2. check.token \in settled => ~found
  BY SettledLoads DEF TokenIInv, StoreSaysRevoked
<1>3. check.token \in issuedTo \ targeted /\ ~raced => found
  BY DEF TokenIInv, QuietStoreIsExact, StoreSaysRevoked
<1> HIDE DEF found
<1> QED
  BY <1>1, <1>2, <1>3, ConcludeKeeps

-----------------------------------------------------------------------------
LEMMA InitTokenIInv ==
    ASSUME TokenInit
    PROVE  TokenIInv
<1>1. (CHOOSE t \in Tokens : TRUE) \in Tokens
  BY TokenStoreAssumption
<1>2. EmptyDict \in Dicts /\ AtRest \in Operations /\ NoCheck \in Checks
  BY DEF EmptyDict, Dicts, Operations, Checks
<1>3. TokenTypeOK
  <2>1. verdict \in Verdicts
    BY <1>1 DEF TokenInit, Verdicts
  <2>2. text \in [Inodes -> Dicts \cup {Blank, Garbled}] /\ admin \in [Admins -> Operations]
    BY <1>2 DEF TokenInit
  <2>3. 0 \in 0..MaxCrashes
    BY TokenStoreAssumption
  <2> QED
    BY <1>2, <2>1, <2>2, <2>3 DEF TokenInit, TokenTypeOK
<1>4. Loaded = EmptyDict /\ Loadable
  <2>1. EmptyDict \notin {Blank, Garbled}
    BY <1>2 DEF Dicts, Blank, Garbled
  <2> QED
    BY <2>1 DEF TokenInit, Loaded, Loadable
<1>5. Active = {}
  BY DEF TokenInit, Active
<1> QED
  BY <1>3, <1>4, <1>5
  DEF TokenInit, TokenIInv, WritersInv, SettledInv, QuietInv, CheckInv, EmptyDict,
      QuietStoreIsExact, RevocationHolds, LiveTokenHonoured

LEMMA NextTokenIInv ==
    ASSUME TokenIInv, [TokenNext]_tokenVars
    PROVE  TokenIInv'
<1>1. CASE \E a \in Admins, t \in Tokens : Issue(a, t) \/ Revoke(a, t)
  BY <1>1, IssueKeeps, RevokeKeeps
<1>2. CASE \E a \in Admins : OpenTmp(a) \/ WriteTmp(a) \/ Replace(a)
  BY <1>2, OpenTmpKeeps, WriteTmpKeeps, ReplaceKeeps
<1>3. CASE \E a \in Admins : ReplaceFails(a) \/ Crash(a)
  BY <1>3, ReplaceFailsKeeps, CrashKeeps
<1>4. CASE (\E t \in Tokens : VerifyBearer(t)) \/ IsRevoked \/ LookupActive
  BY <1>4, VerifyBearerKeeps, IsRevokedKeeps, LookupActiveKeeps
<1>5. CASE UNCHANGED tokenVars
  BY <1>5, ReadingKeeps
  DEF tokenVars, TokenIInv, TokenTypeOK, CheckInv, RevocationHolds, LiveTokenHonoured,
      tokenHistory
<1> QED
  BY <1>1, <1>2, <1>3, <1>4, <1>5 DEF TokenNext

(* Whatever administrators race, fail or are killed, at every step of a     *)
(* save, the inductive invariant holds; every variable keeps its type.      *)
THEOREM TokenInvariance == TokenSpec => []TokenIInv
BY InitTokenIInv, NextTokenIInv, PTL DEF TokenSpec

(* A revocation (TokenStore.revoke) that had the store to itself is        *)
(* never undone: no verification that starts later honours the token,       *)
(* though every later save may race, fail half-way or be killed.            *)
THEOREM RevocationIsFinal == TokenSpec => []RevocationHolds
<1>1. TokenIInv => RevocationHolds
  BY DEF TokenIInv
<1> QED
  BY <1>1, TokenInvariance, PTL

(* As long as issue and revoke do not overlap, the rename in _save makes    *)
(* each of them happen at once, or not at all when the process is killed:   *)
(* the store always decodes and says exactly what administrators were told. *)
THEOREM SavesAreAtomic == TokenSpec => []QuietStoreIsExact
<1>1. TokenIInv => QuietStoreIsExact
  BY DEF TokenIInv
<1> QED
  BY <1>1, TokenInvariance, PTL

(* Without overlap, both loads of verify_bearer find an issued token that   *)
(* nobody has set out to revoke.                                            *)
THEOREM LiveTokensAreHonoured == TokenSpec => []LiveTokenHonoured
<1>1. TokenIInv => LiveTokenHonoured
  BY DEF TokenIInv
<1> QED
  BY <1>1, TokenInvariance, PTL
=============================================================================
