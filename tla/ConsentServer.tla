---------------------------- MODULE ConsentServer ----------------------------
(***************************************************************************)
(* The consent surface (consent/url_mode.py): the store of pending         *)
(* approvals and the page on which the human decides them.                 *)
(*                                                                         *)
(* A component: the module that composes it says what a session stands     *)
(* for, who creates sessions and what a signature is.  A `window` is one   *)
(* POST to /submit: the handler looks the session up, then awaits the      *)
(* form, and any other request may be served before it acts on it.         *)
(***************************************************************************)
EXTENDS Authorization

CONSTANTS
    SessionIds,   \* consent session ids
    Windows       \* concurrent submissions of the consent page

VARIABLES
    requests,     \* _requests: session id -> ConsentRequest
    window,       \* per submission: the session it will decide
    held          \* what clients have got from /result, and in which life of the process

consentVars == <<requests, window, held>>

NotSigned == [signature |-> "none"]

(* ConsentRequest: the frozen ProposedAction, and the human's response.     *)
ConsentRequests ==
    [action: Actions, rar_type: RarTypes, approver: Contexts,
     signed: Payloads \cup {NotSigned}, denied: BOOLEAN]

Closed == [open |-> FALSE]

ConsentTypeOK ==
    /\ DOMAIN requests \subseteq SessionIds
    /\ \A s \in DOMAIN requests : requests[s] \in ConsentRequests
    /\ window \in [Windows -> {Closed} \cup [open: {TRUE}, sid: SessionIds]]
    /\ held \subseteq [payload: Payloads, life: Nat]

ConsentInit ==
    /\ requests = [s \in {} |-> {}]
    /\ window = [w \in Windows |-> Closed]
    /\ held = {}

-----------------------------------------------------------------------------
(* ConsentStore *)
Proposed(action, rar, approver) ==
    [action |-> action, rar_type |-> rar, approver |-> approver,
     signed |-> NotSigned, denied |-> FALSE]

(* Idempotent: the request that already exists under the id stays.          *)
Create(sid, action, rar, approver) ==
    requests' = IF sid \in DOMAIN requests
                THEN requests
                ELSE [s \in DOMAIN requests \cup {sid} |->
                        IF s = sid THEN Proposed(action, rar, approver)
                        ELSE requests[s]]

Signed(sid) == sid \in DOMAIN requests /\ requests[sid].signed # NotSigned

Decided(r) == r.signed # NotSigned \/ r.denied

SubmitSignedAnyway(sid, payload) ==   \* mutant: a denial does not close the session
    requests' = IF requests[sid].signed # NotSigned
                THEN requests
                ELSE [requests EXCEPT ![sid].signed = payload]

SubmitSigned(sid, payload) ==
    requests' = IF Decided(requests[sid])
                THEN requests
                ELSE [requests EXCEPT ![sid].signed = payload]

RecordDenialAnyway(sid) ==   \* mutant: a late denial marks an approved session
    requests' = [requests EXCEPT ![sid].denied = TRUE]

RecordDenial(sid) ==
    requests' = IF Decided(requests[sid])
                THEN requests
                ELSE [requests EXCEPT ![sid].denied = TRUE]

-----------------------------------------------------------------------------
(* POST /consent/<session_id>/submit *)
OpenSubmission(w, sid) ==
    /\ window[w] = Closed
    /\ sid \in DOMAIN requests
    /\ window' = [window EXCEPT ![w] = [open |-> TRUE, sid |-> sid]]
    /\ UNCHANGED <<requests, held>>

Close(w) == window' = [window EXCEPT ![w] = Closed]

(* The page answers "Denied." or "Approved." without looking whether the    *)
(* store took the decision.                                                 *)
Deny(w) ==
    /\ window[w].open
    /\ RecordDenial(window[w].sid)
    /\ Close(w)
    /\ UNCHANGED held

(* `payload` is what demo_sign_as_user makes of the proposed action.        *)
Approve(w, payload) ==
    /\ window[w].open
    /\ SubmitSigned(window[w].sid, payload)
    /\ Close(w)
    /\ UNCHANGED held

BadDecision(w) ==
    /\ window[w].open
    /\ Close(w)
    /\ UNCHANGED <<requests, held>>

(* GET /consent/<session_id>/result: the signed payload of an approved      *)
(* session leaves the process, for whoever knows the session's id.          *)
PollResult(sid, life) ==
    /\ Signed(sid)
    /\ ~requests[sid].denied
    /\ held' = held \cup {[payload |-> requests[sid].signed, life |-> life]}
    /\ UNCHANGED <<requests, window>>

(* The store and the requests being served are lost with the process, what  *)
(* clients hold is not.                                                     *)
ForgetSessions ==
    /\ requests' = [s \in {} |-> {}]
    /\ window' = [w \in Windows |-> Closed]
    /\ UNCHANGED held
=============================================================================
