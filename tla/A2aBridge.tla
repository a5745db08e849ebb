------------------------------- MODULE A2aBridge -------------------------------
(***************************************************************************)
(* The A2A surface: agent tasks pause on a gated command, the translation  *)
(* turns a pause into an elicitation and its answer into a message that    *)
(* resumes a paused task of the same context, and the resumed task takes   *)
(* the signed payload to the Tier 1 vault and dispatches what it had       *)
(* proposed.  Tasks are the vault's threads.                               *)
(*                                                                         *)
(* The repository has the translation, the vault and a walkthrough of one  *)
(* task; the agent's executor and the MCP host are external.  The host is  *)
(* taken to answer with any id and payload it has seen or can make up, at  *)
(* any time, repeatedly; the executor, which is told the context only, to  *)
(* pick any task that is paused there.                                     *)
(***************************************************************************)
EXTENDS InProcessVault, Translation

CONSTANTS
    ContextId,      \* task -> its context's id
    TaskId          \* task -> its own id, unique within the context

(* What splitting a string at ':' gives. *)
IsSplit(id) == id # << >> /\ id \in Seq({id[i] : i \in 1..Len(id)})

ASSUME A2aAssumption ==
    /\ DOMAIN ContextId = Threads
    /\ DOMAIN TaskId = Threads
    /\ \A t \in Threads : IsSplit(ContextId[t]) /\ IsSplit(TaskId[t])
    /\ \A t, u \in Threads :
           ContextId[t] = ContextId[u] /\ TaskId[t] = TaskId[u] => t = u

(* The human's side signs for 300 s, under the one RAR_TYPE that the vault  *)
(* is built to expect, and the vault's own maximum is 600 s.                *)
ASSUME SignerAssumption ==
    /\ \A ttl \in TTLs : ttl <= MaxTTL
    /\ RarTypes \subseteq ExpectedRar

VARIABLES
    agent,          \* per task: how far it is
    elicitations    \* history: what the host was sent, in all lives of the process

a2aVars == <<vars, agent, elicitations>>

-----------------------------------------------------------------------------
(* Ids by the secret they are tagged under: each life of the process has    *)
(* its own.                                                                 *)
IdsUnder(secrets) ==
    {ElicitationId(s, ContextId[t], TaskId[t]) : s \in secrets, t \in Threads}

(* What the host can answer to, and with: any context and task under any    *)
(* tag that it was sent or makes up; what was signed, or that with another  *)
(* action in it.                                                            *)
SentTags == {e.id[Len(e.id)] : e \in elicitations}

HostIds ==
    {TaggedId(ContextId[t], TaskId[u], tag) :
        t \in Threads, u \in Threads, tag \in SentTags \cup {Tag(-1, Empty)}}

HostPayloads == {[p EXCEPT !.action = a] : p \in approvals, a \in Actions}

Working == [state |-> "working"]

(* `by` is the id whose answer resumed the task, and `genuine` says that    *)
(* the host answered with the payload that a human signed for its proposal. *)
Resumed == [state: {"resumed"}, action: Actions, payload: Payloads, by: IdsUnder(0..epoch),
            genuine: BOOLEAN]
Minted == [state: {"minted"}, action: Actions, by: IdsUnder(0..epoch), genuine: BOOLEAN, jti: Jtis]
Ended == [state: {"ended"}, by: IdsUnder(0..epoch), genuine: BOOLEAN, result: Outcomes]

Agents ==
    {Working, [state |-> "declined"]}
        \cup [state: {"paused"}, action: Actions]
        \cup Resumed \cup Minted \cup Ended

A2aTypeOK ==
    /\ TypeOK
    /\ agent \in [Threads -> Agents]
    /\ \A e \in elicitations : e.action \in Actions /\ e.id \in IdsUnder(0..epoch)
    /\ \A t \in Threads : call[t] # Idle => agent[t].state \in {"resumed", "minted"}

A2aInit ==
    /\ Init
    /\ agent = [t \in Threads |-> Working]
    /\ elicitations = {}

-----------------------------------------------------------------------------
Becomes(t, a) == agent' = [agent EXCEPT ![t] = a]

(* The task's dispatch asks for approval: it pauses and says so.            *)
Propose(t, action) ==
    /\ agent[t] = Working
    /\ Becomes(t, [state |-> "paused", action |-> action])
    /\ UNCHANGED <<vars, elicitations>>

(* The event is translated for the host, once the task has paused.  Where   *)
(* it cannot be translated nothing is sent, and the task stays paused.      *)
Translate(t) ==
    /\ agent[t].state = "paused"
    /\ Elicitable(ContextId[t], TaskId[t])
    /\ elicitations' = elicitations \cup
          {[id |-> ElicitationId(epoch, ContextId[t], TaskId[t]), action |-> agent[t].action]}
    /\ UNCHANGED <<vars, agent>>

TranslateFails(t) ==
    /\ agent[t].state = "paused"
    /\ ~Elicitable(ContextId[t], TaskId[t])
    /\ UNCHANGED a2aVars

(* The human reviews an elicitation and signs what it shows.                *)
HumanSigns(e, rar, context, ttl) ==
    /\ Sign(e.action, rar, context, ttl)
    /\ UNCHANGED <<agent, elicitations>>

(* The host passes on what a human signed, and it is for this action.       *)
For(response, action) ==
    \A p \in response.payload : p \in approvals /\ SameAction(p.action, action)

(* The host answers, and one of the tasks that are paused in the context    *)
(* takes the message.  A response that cannot be translated, or whose       *)
(* context has nobody paused, changes nothing.                              *)
Paused == {t \in Threads : agent[t].state = "paused"}

Answer(response, t) ==
    /\ Resumable(epoch, response)
    /\ LET message == Resume(response)
       IN  /\ message.context = ContextId[t]
           /\ IF message.approved
              THEN \E p \in message.payload :
                     Becomes(t, [state |-> "resumed", action |-> agent[t].action,
                                 payload |-> p, by |-> response.id,
                                 genuine |-> For(response, agent[t].action)])
              ELSE Becomes(t, [state |-> "declined"])
    /\ UNCHANGED <<vars, elicitations>>

(* The resumed task mints, dispatches its own proposal with the credential, *)
(* and ends with the outcome of the step that fails or of the execution.    *)
Ends(t) ==
    Becomes(t, [state |-> "ended", by |-> agent[t].by, genuine |-> agent[t].genuine,
                result |-> outcome'])

TaskMints(t) ==
    /\ agent[t].state = "resumed"
    /\ \/ MintRefuse(t, agent[t].payload) /\ Ends(t)
       \/ MintReplay(t) /\ Ends(t)
       \/ MintVerify(t, agent[t].payload) /\ UNCHANGED agent
       \/ /\ MintRecord(t)
          /\ Becomes(t, [state |-> "minted", action |-> agent[t].action,
                         by |-> agent[t].by, genuine |-> agent[t].genuine,
                         jti |-> Len(grants')])
    /\ UNCHANGED elicitations

TaskDispatches(t) ==
    /\ agent[t].state = "minted"
    /\ \/ ConsumeRefuse(t, agent[t].jti, agent[t].action) /\ Ends(t)
       \/ Consume(t, agent[t].jti, agent[t].action) /\ UNCHANGED agent
       \/ Perform(t) /\ Ends(t)
    /\ UNCHANGED elicitations

(* Paused tasks, and the secret that elicitation ids are tagged under, go   *)
(* with the process; clients ask again.                                     *)
A2aRestart ==
    /\ Restart
    /\ agent' = [t \in Threads |-> Working]
    /\ UNCHANGED elicitations

A2aNext ==
    \/ \E t \in Threads :
        \/ \E action \in Actions : Propose(t, action)
        \/ Translate(t) \/ TranslateFails(t)
        \/ TaskMints(t)
        \/ TaskDispatches(t)
    \/ \E t \in Paused : \E response \in Responses(HostIds, HostPayloads) : Answer(response, t)
    \/ \E e \in elicitations, rar \in RarTypes, context \in Contexts, ttl \in TTLs :
        HumanSigns(e, rar, context, ttl)
    \/ Tick /\ UNCHANGED <<agent, elicitations>>
    \/ A2aRestart

A2aSpec == A2aInit /\ [][A2aNext]_a2aVars
-----------------------------------------------------------------------------
(* No elicitation is a dead end: the id of every one that this life of the  *)
(* process has sent verifies, and leads an acceptance back to the context   *)
(* of the task it was sent for.  A pause can be one: where the translation  *)
(* refuses the ids, the task waits and nobody was asked.                    *)
ElicitationsLeadBack ==
    \A t \in Threads :
        LET id == ElicitationId(epoch, ContextId[t], TaskId[t])
        IN  id \in {e.id : e \in elicitations} =>
                Verifies(epoch, id) /\ ContextOf(id) = ContextId[t]

(* A task resumes only by the answer to an elicitation that this life of    *)
(* the process has sent for a task of the same context: not by an id that   *)
(* was made up, nor by an answer that arrives after a restart.              *)
ResumedByOwnContext ==
    \A t \in Threads :
        agent[t].state \in {"resumed", "minted", "ended"} =>
            \E e \in elicitations, u \in Threads :
                /\ e.id = agent[t].by
                /\ e.id = ElicitationId(epoch, ContextId[u], TaskId[u])
                /\ ContextId[u] = ContextId[t]

(* The payload survives the round trip: a task that resumes with what a     *)
(* human signed for its own proposal is turned down only for its time, or   *)
(* because the payload was exchanged already.                               *)
SignedProposalsRun ==
    \A t \in Threads :
        agent[t].state = "ended" /\ agent[t].genuine =>
            agent[t].result \in {"performed", "CredentialExpired", "SignatureReplay"}

(* However often the host repeats an answer, and whichever tasks of the     *)
(* context it resumes, what a human signed once runs once in each life.     *)
AnswersRunOnce ==
    \A i, j \in DOMAIN log :
        /\ log[i].epoch = log[j].epoch
        /\ Canonical(grants[log[i].jti].payload) = Canonical(grants[log[j].jti].payload)
        => i = j

-----------------------------------------------------------------------------
(* Why these hold at every step.  Whatever was signed mints until it lapses. *)
SignedMintable ==
    \A p \in approvals :
        /\ SignatureVerifies(p, Secret)
        /\ RarTypeExpected(p, ExpectedRar)
        /\ ~TooLongAtMint(p, now)
        /\ ~p.frozen

(* What the host was sent was made for a task whose ids leave no doubt.     *)
SentInv ==
    \A e \in elicitations :
        \E s \in 0..epoch, t \in Threads :
            /\ Elicitable(ContextId[t], TaskId[t])
            /\ e.id = ElicitationId(s, ContextId[t], TaskId[t])

(* A resumed task presents what it was answered with, and nothing else.     *)
ResumedInv ==
    \A t \in Threads :
        agent[t].state = "resumed" =>
            /\ agent[t].payload \in Presentable
            /\ call[t] # Idle => call[t].op = "mint" /\ call[t].payload = agent[t].payload
            /\ agent[t].genuine =>
                  /\ agent[t].payload \in approvals
                  /\ SameAction(agent[t].payload.action, agent[t].action)

(* A task that has minted holds a credential of this life that is its own,  *)
(* unspent until it spends it.                                              *)
MintedInv ==
    \A t \in Threads :
        agent[t].state = "minted" =>
            /\ agent[t].jti \in DOMAIN issued
            /\ agent[t].genuine => SameAction(issued[agent[t].jti].action, agent[t].action)
            /\ \A u \in Threads \ {t} :
                   agent[u].state = "minted" => agent[u].jti # agent[t].jti
            /\ IF call[t] = Idle
               THEN agent[t].jti \notin consumed
               ELSE call[t].op = "perform"

(* The invariant that carries itself over every step.                       *)
A2aIInv ==
    /\ A2aTypeOK /\ IInv
    /\ SignedMintable
    /\ SentInv /\ ResumedInv /\ MintedInv
    /\ ElicitationsLeadBack /\ ResumedByOwnContext /\ SignedProposalsRun
=============================================================================
