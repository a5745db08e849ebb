------------------------------ MODULE TokenStore ------------------------------
(***************************************************************************)
(* The bearer tokens: a JSON file that administrators' processes rewrite   *)
(* (issue, revoke) and that the server reads twice for every request it    *)
(* verifies.                                                               *)
(*                                                                         *)
(* Nothing locks the file.  A save writes the whole text to one temporary  *)
(* path, shared by all, and renames it over the store.  The file system is *)
(* kept to what that depends on: two names, the inodes they stand for, and *)
(* each writer's open inode, which a rename by somebody else may have put  *)
(* in the store's place.                                                   *)
(***************************************************************************)
EXTENDS Integers, FiniteSets

CONSTANTS
    Admins,      \* processes that call issue and revoke
    Tokens,      \* raw tokens, each drawn by one call of issue
    Inodes,      \* inodes of the directory
    NoFile,      \* not an inode: the name does not exist
    MaxCrashes   \* bound: administrators killed in mid-operation

ASSUME TokenStoreAssumption ==
    /\ Tokens # {}
    /\ NoFile \notin Inodes
    /\ IsFiniteSet(Admins) /\ IsFiniteSet(Inodes)
    /\ Cardinality(Inodes) >= Cardinality(Admins) + 2
    /\ MaxCrashes \in Nat

VARIABLES
    store,      \* the inode behind self.path
    tmp,        \* the inode behind self.path.with_suffix(".tmp")
    text,       \* inode -> what its text decodes to
    admin,      \* per administrator: the operation in progress
    check,      \* the server's verification in progress
    verdict,    \* what the latest verification came to
    issuedTo,   \* history: tokens whose issue has returned
    drawn,      \* history: tokens that some issue has drawn
    targeted,   \* history: tokens that some revoke has set out to revoke
    revokedBy,  \* history: tokens whose revoke has returned True
    settled,    \* history: those whose revoke had the store to itself
    raced,      \* history: two operations have overlapped
    crashes     \* history: administrators killed

files == <<store, tmp, text>>
tokenHistory == <<issuedTo, drawn, targeted, revokedBy, settled, raced, crashes>>
tokenVars == <<files, admin, check, verdict, tokenHistory>>

-----------------------------------------------------------------------------
(* The decoded dict: which hashes it has, and which of them are _revoked.   *)
Dicts == {d \in [known: SUBSET Tokens, revoked: SUBSET Tokens] :
             d.revoked \subseteq d.known}
EmptyDict == [known |-> {}, revoked |-> {}]

(* Text that json.loads rejects: just truncated, or one text written over   *)
(* the longer end of another.                                               *)
Blank == [fault |-> "blank"]
Garbled == [fault |-> "garbled"]

AtRest == [step |-> "rest"]

Operations ==
    {AtRest}
        \cup [step: {"open"}, op: {"issue", "revoke"}, token: Tokens,
              data: Dicts, alone: BOOLEAN]
        \cup [step: {"write", "replace"}, op: {"issue", "revoke"}, token: Tokens,
              data: Dicts, alone: BOOLEAN, inode: Inodes]

NoCheck == [step |-> "none"]

Checks ==
    {NoCheck}
        \cup [step: {"revoked?", "lookup"}, token: Tokens, live: BOOLEAN, barred: BOOLEAN]

Verdicts ==
    [reason: {"none", "honoured", "revoked", "invalid_hmac", "error"},
     token: Tokens, live: BOOLEAN, barred: BOOLEAN]

TokenTypeOK ==
    /\ store \in Inodes \cup {NoFile}
    /\ tmp \in Inodes \cup {NoFile}
    /\ text \in [Inodes -> Dicts \cup {Blank, Garbled}]
    /\ admin \in [Admins -> Operations]
    /\ check \in Checks
    /\ verdict \in Verdicts
    /\ settled \subseteq revokedBy
    /\ revokedBy \subseteq targeted
    /\ targeted \subseteq issuedTo
    /\ issuedTo \subseteq drawn
    /\ drawn \subseteq Tokens
    /\ raced \in BOOLEAN
    /\ crashes \in 0..MaxCrashes

TokenInit ==
    /\ store = NoFile
    /\ tmp = NoFile
    /\ text = [i \in Inodes |-> Blank]
    /\ admin = [a \in Admins |-> AtRest]
    /\ check = NoCheck
    /\ verdict = [reason |-> "none", token |-> CHOOSE t \in Tokens : TRUE,
                  live |-> FALSE, barred |-> FALSE]
    /\ issuedTo = {}
    /\ drawn = {}
    /\ targeted = {}
    /\ revokedBy = {}
    /\ settled = {}
    /\ raced = FALSE
    /\ crashes = 0

-----------------------------------------------------------------------------
(* _load: no file is an empty dict, text that does not decode raises.       *)
Loaded == IF store = NoFile THEN EmptyDict ELSE text[store]
Loadable == Loaded \notin {Blank, Garbled}

Alone(a) == \A b \in Admins \ {a} : admin[b] = AtRest

(* Whoever starts while another is at work makes a race of both.            *)
Begin(a, op, token, data) ==
    /\ admin' = [b \in Admins |->
          IF b = a THEN [step |-> "open", op |-> op, token |-> token,
                         data |-> data, alone |-> Alone(a)]
          ELSE IF admin[b] = AtRest THEN AtRest
          ELSE [admin[b] EXCEPT !.alone = FALSE]]
    /\ raced' = (raced \/ ~Alone(a))

IssueAfresh(a, token) ==   \* mutant: issue does not load what is there
    /\ admin[a] = AtRest
    /\ token \notin drawn
    /\ drawn' = drawn \cup {token}
    /\ Begin(a, "issue", token, [EmptyDict EXCEPT !.known = {token}])
    /\ UNCHANGED <<files, check, verdict, issuedTo, targeted, revokedBy, settled, crashes>>

(* issue: draw a token, load, add its entry.                                *)
Issue(a, token) ==
    /\ admin[a] = AtRest
    /\ token \notin drawn
    /\ Loadable
    /\ drawn' = drawn \cup {token}
    /\ Begin(a, "issue", token, [Loaded EXCEPT !.known = @ \cup {token}])
    /\ UNCHANGED <<files, check, verdict, issuedTo, targeted, revokedBy, settled, crashes>>

RevokeUnchecked(a, token) ==   \* mutant: a tombstone for a token the file lacks
    /\ admin[a] = AtRest
    /\ token \in issuedTo
    /\ Loadable
    /\ targeted' = targeted \cup {token}
    /\ Begin(a, "revoke", token, [Loaded EXCEPT !.revoked = @ \cup {token}])
    /\ UNCHANGED <<files, check, verdict, issuedTo, drawn, revokedBy, settled, crashes>>

(* revoke of a token that the file has as active; of any other it returns   *)
(* False and writes nothing, and on text that does not decode both raise.   *)
Revoke(a, token) ==
    /\ admin[a] = AtRest
    /\ token \in issuedTo
    /\ Loadable
    /\ token \in Loaded.known \ Loaded.revoked
    /\ targeted' = targeted \cup {token}
    /\ Begin(a, "revoke", token, [Loaded EXCEPT !.revoked = @ \cup {token}])
    /\ UNCHANGED <<files, check, verdict, issuedTo, drawn, revokedBy, settled, crashes>>

-----------------------------------------------------------------------------
(* _save, in the steps other processes can see *)
Unused == Inodes \ ({store, tmp} \cup {admin[b].inode : b \in
                        {c \in Admins : admin[c].step \in {"write", "replace"}}})
Fresh == CHOOSE i \in Unused : TRUE

WriteInPlace(a) ==   \* mutant: the store itself is opened and rewritten
    /\ admin[a].step = "open"
    /\ LET i == IF store = NoFile THEN Fresh ELSE store
           m == admin[a]
       IN  /\ store' = i
           /\ text' = [text EXCEPT ![i] = Blank]
           /\ admin' = [admin EXCEPT ![a] =
                 [step |-> "write", op |-> m.op, token |-> m.token,
                  data |-> m.data, alone |-> m.alone, inode |-> i]]
    /\ UNCHANGED <<tmp, check, verdict, tokenHistory>>

(* open(tmp, "w"): the file there is truncated, whoever else writes to it.  *)
OpenTmp(a) ==
    /\ admin[a].step = "open"
    /\ LET i == IF tmp = NoFile THEN Fresh ELSE tmp
           m == admin[a]
       IN  /\ tmp' = i
           /\ text' = [text EXCEPT ![i] = Blank]
           /\ admin' = [admin EXCEPT ![a] =
                 [step |-> "write", op |-> m.op, token |-> m.token,
                  data |-> m.data, alone |-> m.alone, inode |-> i]]
    /\ UNCHANGED <<store, check, verdict, tokenHistory>>

(* The text goes to the open inode, wherever it has been renamed to; over   *)
(* text of another writer it may leave that one's longer end.               *)
WriteTmp(a) ==
    /\ admin[a].step = "write"
    /\ LET i == admin[a].inode
       IN  \E after \in {admin[a].data} \cup (IF text[i] = Blank THEN {} ELSE {Garbled}) :
               text' = [text EXCEPT ![i] = after]
    /\ admin' = [admin EXCEPT ![a].step = "replace"]
    /\ UNCHANGED <<store, tmp, check, verdict, tokenHistory>>

(* chmod and replace of whatever the temporary name stands for now; if the  *)
(* name is gone they raise, and the caller never learns its token.          *)
Replace(a) ==
    /\ admin[a].step = "replace"
    /\ tmp # NoFile
    /\ store' = tmp
    /\ tmp' = NoFile
    /\ issuedTo' = IF admin[a].op = "issue" THEN issuedTo \cup {admin[a].token}
                   ELSE issuedTo
    /\ revokedBy' = IF admin[a].op = "revoke" THEN revokedBy \cup {admin[a].token}
                    ELSE revokedBy
    /\ settled' = IF admin[a].op = "revoke" /\ admin[a].alone
                  THEN settled \cup {admin[a].token} ELSE settled
    /\ admin' = [admin EXCEPT ![a] = AtRest]
    /\ UNCHANGED <<text, check, verdict, drawn, targeted, raced, crashes>>

ReplaceFails(a) ==
    /\ admin[a].step = "replace"
    /\ tmp = NoFile
    /\ admin' = [admin EXCEPT ![a] = AtRest]
    /\ UNCHANGED <<files, check, verdict, tokenHistory>>

(* The process is killed: its file stays as it is.                          *)
Crash(a) ==
    /\ admin[a] # AtRest
    /\ crashes < MaxCrashes
    /\ crashes' = crashes + 1
    /\ admin' = [admin EXCEPT ![a] = AtRest]
    /\ UNCHANGED <<files, check, verdict, issuedTo, drawn, targeted, revokedBy, settled, raced>>

-----------------------------------------------------------------------------
(* verify_bearer of a token that a client holds, or of one nobody issued:   *)
(* `live` and `barred` record whether it had been issued, and revoked with  *)
(* the store to itself, before the verification began.                      *)
VerifyBearer(token) ==
    /\ check = NoCheck
    /\ token \notin drawn \ issuedTo
    /\ check' = [step |-> "revoked?", token |-> token,
                 live |-> token \in issuedTo, barred |-> token \in settled]
    /\ UNCHANGED <<files, admin, verdict, tokenHistory>>

Conclude(reason) ==
    /\ verdict' = [reason |-> reason, token |-> check.token,
                   live |-> check.live, barred |-> check.barred]
    /\ check' = NoCheck
    /\ UNCHANGED <<files, admin, tokenHistory>>

NeverRevoked == FALSE   \* mutant: the revocation flag is not looked at
StoreSaysRevoked == check.token \in Loaded.revoked

(* is_revoked is outside the try: an unreadable store is a server error.    *)
IsRevoked ==
    /\ check.step = "revoked?"
    /\ \/ ~Loadable /\ Conclude("error")
       \/ Loadable /\ StoreSaysRevoked /\ Conclude("revoked")
       \/ /\ Loadable /\ ~StoreSaysRevoked
          /\ check' = [check EXCEPT !.step = "lookup"]
          /\ UNCHANGED <<files, admin, verdict, tokenHistory>>

(* caller_from_token loads again; JSONDecodeError is a ValueError too.      *)
LookupActive ==
    /\ check.step = "lookup"
    /\ Conclude(IF Loadable /\ check.token \in Loaded.known /\ ~StoreSaysRevoked
                THEN "honoured" ELSE "invalid_hmac")

TokenNext ==
    \/ \E a \in Admins :
        \/ \E t \in Tokens : Issue(a, t) \/ Revoke(a, t)
        \/ OpenTmp(a) \/ WriteTmp(a) \/ Replace(a) \/ ReplaceFails(a) \/ Crash(a)
    \/ \E t \in Tokens : VerifyBearer(t)
    \/ IsRevoked
    \/ LookupActive

TokenSpec == TokenInit /\ [][TokenNext]_tokenVars
-----------------------------------------------------------------------------
(* As long as operations do not overlap, the store decodes and says what    *)
(* administrators were told, although any of them is killed at any step:    *)
(* the rename is what makes a save happen.                                  *)
QuietStoreIsExact ==
    ~raced =>
        /\ Loadable
        /\ issuedTo \subseteq Loaded.known
        /\ revokedBy \subseteq Loaded.revoked
        /\ Loaded.revoked \subseteq targeted

(* A token that was revoked while nothing else was writing is never         *)
(* honoured by a verification that starts later, whatever races, failed     *)
(* saves and killed writers follow: every later text was loaded after it.   *)
RevocationHolds == verdict.barred => verdict.reason # "honoured"

(* And until somebody sets out to revoke it, an issued token is honoured by *)
(* both loads of a verification that starts after issue returned, as long   *)
(* as operations do not overlap; only then is an answer 401 or 500 a fault. *)
LiveTokenHonoured ==
    /\ verdict.live
    /\ verdict.token \notin targeted
    /\ ~raced
    => verdict.reason \in {"none", "honoured"}

-----------------------------------------------------------------------------
(* Why these hold at every step.  An operation in progress carries its own  *)
(* change; one that has the store to itself finds in the temporary file     *)
(* what it put there.                                                       *)
Active == {a \in Admins : admin[a] # AtRest}
Decodes(i) == text[i] \notin {Blank, Garbled}

WritersInv ==
    \A a \in Active :
        LET m == admin[a]
        IN  /\ m.op = "issue" => m.token \in drawn \cap m.data.known
            /\ m.op = "revoke" => m.token \in targeted \cap m.data.revoked
            /\ m.alone => Alone(a)
            /\ m.alone /\ m.step = "write" => tmp = m.inode /\ text[tmp] = Blank
            /\ m.alone /\ m.step = "replace" => tmp = m.inode /\ text[tmp] = m.data

(* A settled revocation is in all that can still become the store: the text *)
(* behind either name, and the dict that each operation has loaded.         *)
SettledInv ==
    \A s \in settled :
        /\ store # NoFile
        /\ \A i \in {store, tmp} \ {NoFile} : Decodes(i) => s \in text[i].revoked
        /\ \A a \in Active : s \in admin[a].data.revoked

(* Without overlap nobody has the store open, and what is about to replace  *)
(* it keeps what it says.                                                   *)
QuietInv ==
    ~raced =>
        /\ tmp = NoFile \/ tmp # store
        /\ \A a \in Active :
              /\ admin[a].alone
              /\ issuedTo \subseteq admin[a].data.known
              /\ revokedBy \subseteq admin[a].data.revoked
              /\ admin[a].data.revoked \subseteq targeted

CheckInv ==
    check # NoCheck =>
        /\ check.live => check.token \in issuedTo
        /\ check.barred => check.token \in settled

(* The invariant that carries itself over every step.                       *)
TokenIInv ==
    /\ TokenTypeOK
    /\ WritersInv /\ SettledInv /\ QuietInv /\ CheckInv
    /\ QuietStoreIsExact /\ RevocationHolds /\ LiveTokenHonoured
=============================================================================
