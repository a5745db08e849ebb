----------------------------- MODULE Translation -----------------------------
(***************************************************************************)
(* The translation between an agent's auth_required event and the MCP      *)
(* host's elicitation, in both directions.                                 *)
(*                                                                         *)
(* Strings that are joined and split at ':' are sequences of the segments  *)
(* between the colons.  The tag of an elicitation id is an ideal HMAC over *)
(* such a string, under the secret of one life of the bridge process.      *)
(***************************************************************************)
EXTENDS Integers, Sequences

CONSTANT Unknown   \* an elicitation action that the protocol does not have

EmptyText == ""
Empty == << EmptyText >>
HasColon(id) == Len(id) > 1

Tag(secret, text) == [secret |-> secret, text |-> text]

ElicitableWithColons(context, task) ==   \* mutant: separators in ids pass
    context # Empty /\ task # Empty

(* a2a_auth_required_to_mcp_elicitation: what it accepts, and the id of the *)
(* elicitation it makes.                                                    *)
Elicitable(context, task) ==
    /\ context # Empty /\ task # Empty
    /\ ~HasColon(context) /\ ~HasColon(task)

TaggedId(context, task, tag) == << "el" >> \o context \o task \o << tag >>

ElicitationId(secret, context, task) ==
    TaggedId(context, task, Tag(secret, context \o task))

(* _context_id_from_elicitation_id *)
AnyTag(secret, id) ==   \* mutant: the tag is not compared
    /\ Len(id) = 4
    /\ id[1] = "el" /\ id[2] # EmptyText /\ id[3] # EmptyText

Verifies(secret, id) ==
    /\ Len(id) = 4
    /\ id[1] = "el" /\ id[2] # EmptyText /\ id[3] # EmptyText
    /\ id[4] = Tag(secret, << id[2], id[3] >>)

ContextOf(id) == << id[2] >>

(* mcp_elicitation_response_to_a2a_resume: which responses it accepts, and  *)
(* what it makes of them.  The message names a context and no task, and the *)
(* signed payload goes through as it is.                                    *)
Responses(ids, payloads) ==
    [id: ids, action: {"accept"}, payload: {{}} \cup {{p} : p \in payloads}]
        \cup [id: ids, action: {"decline", "cancel", Unknown}, payload: {{}}]

Resumable(secret, response) ==
    /\ Verifies(secret, response.id)
    /\ response.action \in {"accept", "decline", "cancel"}
    /\ response.action = "accept" => response.payload # {}

ResumeWithLaterExp(response) ==   \* mutant: the payload is rewritten on the way
    [context |-> ContextOf(response.id),
     approved |-> response.action = "accept",
     payload |-> {[p EXCEPT !.exp = @ + 1] : p \in response.payload}]

Resume(response) ==
    [context |-> ContextOf(response.id),
     approved |-> response.action = "accept",
     payload |-> response.payload]
=============================================================================
