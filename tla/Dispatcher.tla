------------------------------ MODULE Dispatcher ------------------------------
(***************************************************************************)
(* Dispatcher.execute with its five commands, over the task store and a    *)
(* vault.  Several threads call it for several callers; the vault is the   *)
(* delegation contract, whichever of the two vaults stands behind it: what *)
(* a human approves is the arguments of one delete-task call.              *)
(*                                                                         *)
(* The checks before the first look at the vault or the store read nothing *)
(* that changes, so they are part of the step that takes that look.        *)
(***************************************************************************)
EXTENDS TaskStore

CONSTANTS
    Callers,         \* identities behind bearer tokens
    InProcess,       \* not a caller: caller=None, the CLI and the walkthrough
    Unfit,           \* arguments of delete-task that its execute cannot be called with
    Scopes           \* caller -> its scopes

ASSUME DispatcherAssumption ==
    /\ InProcess \notin Callers
    /\ Unfit \cap Ids = {}
    /\ Scopes \in [Callers -> SUBSET {"tasks.read", "tasks.write"}]

VARIABLES
    approved, issued, redeemed, life, log    \* of the vault: see Delegation

(* The arguments of delete-task: an id stands for the call that names this  *)
(* task and that execute() takes.                                           *)
Arguments == Ids \cup Unfit

Deletions == [action: Arguments]

Vault == INSTANCE Delegation WITH
    Consents <- Deletions, ValueOf <- [args \in Arguments |-> args],
    SelfContained <- TRUE

vault == <<approved, issued, redeemed, life, log>>
dispatcherVars == <<storeVars, vault>>

-----------------------------------------------------------------------------
(* TOOL_SPECS and REGISTRY. *)
Declared ==
    [tool \in {"list-tasks", "get-task", "create-task", "update-task", "delete-task"} |->
        CASE tool = "list-tasks" -> {}
          [] tool = "create-task" -> {"title", "description"}
          [] tool = "update-task" -> {"task_id", "title", "description", "status"}
          [] OTHER -> {"task_id"}]

Required ==
    [tool \in DOMAIN Declared |->
        IF tool = "create-task" THEN {"title"} ELSE Declared[tool] \cap {"task_id"}]

Tools == DOMAIN Declared

Unknown == "no-such-command"

RequiredScope(tool) ==
    IF tool \in {"list-tasks", "get-task"} THEN "tasks.read" ELSE "tasks.write"

ReservedKeys == {"count", "status", "command"}

(* execute(client=..., **kwargs): names that are taken when kwargs come.    *)
TakenNames == {"client", "self"}

(* What callers send: a tool's name or some other, and either no args or    *)
(* those its schema asks for, with one more that it declares or that no     *)
(* schema knows.                                                            *)
Calls ==
    UNION {[tool: {tool}, caller: Callers \cup {InProcess},
            keys: {{}} \cup {Required[tool] \cup more :
                      more \in {{}} \cup {{key} :
                          key \in Declared[tool] \cup {"count"} \cup TakenNames}}] :
           tool \in Tools}
        \cup [tool: {Unknown}, caller: Callers \cup {InProcess}, keys: {{}}]

Known(c) == c.tool \in Tools
Collides(c) == c.keys \cap ReservedKeys # {}

(* A call without a caller is trusted with everything.                      *)
ScopesOf(caller) ==
    IF caller = InProcess THEN {"tasks.read", "tasks.write"} ELSE Scopes[caller]

InScope(c) == RequiredScope(c.tool) \in ScopesOf(c.caller)

(* Every execute swallows the names it does not know.                       *)
Fits(c) == Required[c.tool] \subseteq c.keys /\ c.keys \cap TakenNames = {}

AsDeclared(c) == Known(c) /\ c.keys \subseteq Declared[c.tool]

Admitted(c) == Known(c) /\ ~Collides(c) /\ InScope(c)

-----------------------------------------------------------------------------
Rejections ==
    [op: {"unknown", "ValueError", "Unauthorized", "ApprovalRequired", "TypeError"},
     as_declared: BOOLEAN]

(* delete-task between the vault's consume and the store.                   *)
Spending ==
    [op: {"delete-task"}, args: Arguments, caller: Callers \cup {InProcess},
     credential: [consent: Deletions, life: Nat]]

DispatcherTypeOK ==
    /\ StoreTypeOK(Spending, Rejections)
    /\ redeemed \subseteq issued
    /\ \A k \in issued : k.consent \in approved

DispatcherInit ==
    /\ StoreInit
    /\ Vault!Init

-----------------------------------------------------------------------------
(* The early returns, the ValueError and the TypeError of a command without *)
(* HITL, in the order of the code; all of them leave store and vault alone. *)
(* A missing token ends like a refused one.                                 *)
Rejection(c) ==
    IF ~Known(c) THEN "unknown"
    ELSE IF Collides(c) THEN "ValueError"
    ELSE IF ~InScope(c) THEN "Unauthorized"
    ELSE IF c.tool = "delete-task" THEN "ApprovalRequired"
    ELSE "TypeError"

RejectedCalls == {c \in Calls : ~Admitted(c) \/ c.tool = "delete-task" \/ ~Fits(c)}

Rejected ==
    {[op |-> Rejection(c), as_declared |-> AsDeclared(c)] : c \in RejectedCalls}

Reject(t) ==
    /\ work[t] = Free
    /\ \E result \in Rejected : Returns(result)
    /\ UNCHANGED <<tasks, object, lock, work, versions, vault>>

(* Commands without HITL go to the store at once.                           *)
Admits(caller, tool, keys) ==
    Admitted([tool |-> tool, keys |-> Required[tool] \cup keys, caller |-> caller])

ListTasks(t, caller) ==
    /\ Admits(caller, "list-tasks", {})
    /\ StoreList(t)
    /\ UNCHANGED vault

GetTask(t, caller, id) ==
    /\ Admits(caller, "get-task", {})
    /\ StoreGet(t, id) \/ StoreMissing(t, id, Free)
    /\ UNCHANGED vault

CreateTask(t, caller, id, title, description) ==
    /\ Admits(caller, "create-task", {"description"})
    /\ StoreCreate(t, id, title, description)
    /\ UNCHANGED vault

UpdateTask(t, caller, id, title, description) ==
    /\ Admits(caller, "update-task",
              {key \in {"title", "description"} :
                  [title |-> title, description |-> description][key] # Keep})
    /\ StoreUpdate(t, id, title, description) \/ StoreMissing(t, id, Free)
    /\ UNCHANGED vault

(* delete-task: consume the credential, then run the command, which may     *)
(* find that the task is gone, or not start at all: nothing looked at the   *)
(* names of the arguments before the credential was spent.                  *)
Consume(t, caller, args, k) ==
    /\ work[t] = Free
    /\ k.consent.action = args
    /\ Vault!Redeem(k)
    /\ work' = [work EXCEPT ![t] =
          [op |-> "delete-task", args |-> args, caller |-> caller, credential |-> k]]
    /\ ReturnsNothing
    /\ UNCHANGED <<tasks, object, lock, versions>>

KeysOf(args) == IF args \in Unfit THEN TakenNames ELSE {}

SpendBeforeScopes(t, caller, args, k) ==   \* mutant: scopes are checked after consume
    /\ IF Admits(caller, "delete-task", KeysOf(args))
       THEN Consume(t, caller, args, k)
       ELSE /\ work[t] = Free
            /\ k.consent.action = args
            /\ Vault!Redeem(k)
            /\ Returns([op |-> "Unauthorized", as_declared |-> TRUE])
            /\ UNCHANGED <<tasks, object, lock, work, versions>>

Spend(t, caller, args, k) ==
    /\ Admits(caller, "delete-task", KeysOf(args))
    /\ Consume(t, caller, args, k)

DeleteUnspent(t) ==   \* mutant: the command runs without looking at the vault's answer
    /\ \E id \in tasks : StoreDelete(t, id, Free)
    /\ UNCHANGED vault

DeleteTask(t) ==
    /\ work[t] \in Spending
    /\ work[t].args \in Ids
    /\ StoreDelete(t, work[t].args, work[t]) \/ StoreMissing(t, work[t].args, work[t])
    /\ Vault!Perform(work[t].credential, work[t].args)

(* The TypeError is none of the exceptions that are caught.                 *)
ExecuteRaises(t) ==
    /\ work[t] \in Spending
    /\ work[t].args \in Unfit
    /\ work' = [work EXCEPT ![t] = Free]
    /\ Returns([op |-> "TypeError", as_declared |-> FALSE])
    /\ UNCHANGED <<tasks, object, lock, versions, vault>>

Finish(t) == StoreStep(t) /\ UNCHANGED vault

(* The human and the vault's mint. *)
Grant(consent) ==
    /\ Vault!Approve(consent) \/ Vault!Exchange(consent)
    /\ ReturnsNothing
    /\ UNCHANGED <<tasks, object, lock, work, versions>>

DispatcherNext ==
    \/ \E t \in Threads, caller \in Callers \cup {InProcess} :
        \/ ListTasks(t, caller)
        \/ \E id \in Ids :
            \/ GetTask(t, caller, id)
            \/ \E title, description \in Texts :
                    CreateTask(t, caller, id, title, description)
            \/ \E title, description \in Texts \cup {Keep} :
                    UpdateTask(t, caller, id, title, description)
        \/ \E args \in Arguments, k \in issued : Spend(t, caller, args, k)
    \/ \E t \in Threads : Reject(t) \/ DeleteTask(t) \/ ExecuteRaises(t) \/ Finish(t)
    \/ \E consent \in Deletions : Grant(consent)

DispatcherSpec == DispatcherInit /\ [][DispatcherNext]_dispatcherVars
-----------------------------------------------------------------------------
(* A task that is gone was deleted under a credential of its own, which a   *)
(* human's approval of that very deletion stands behind, and each such task *)
(* took another credential.                                                 *)
Gone == {id \in Ids : versions[id] # << >>} \ tasks

DeletionsConsented ==
    \A id \in Gone :
        \E i \in DOMAIN log :
            /\ log[i].action = id
            /\ log[i].credential \in redeemed
            /\ log[i].credential.consent = [action |-> id]
            /\ log[i].credential.consent \in approved

(* No call that is refused costs an approval: a credential that was spent   *)
(* has run its command or is about to, whatever else the dispatcher refuses *)
(* the call for.  Only an approval of arguments that the command cannot be  *)
(* called with is lost, to the TypeError that leaves the dispatcher.        *)
SpentCredentialsRun ==
    \A k \in redeemed :
        \/ Vault!Performed(k)
        \/ \E t \in Threads : work[t] \in Spending /\ work[t].credential = k
        \/ k.consent.action \in Unfit

(* What the tool specifications say of their parameters: a call that sends  *)
(* nothing but what its tool declares is not a collision of names.          *)
DeclaredParametersAccepted ==
    outcome.op = "ValueError" => ~outcome.as_declared

-----------------------------------------------------------------------------
(* Why these hold at every step.                                            *)
Credentials == [consent: Deletions, life: Nat]

VaultInv ==
    /\ issued \subseteq Credentials
    /\ life \in [issuer: Nat, executor: Nat]
    /\ log \in Seq([credential: Credentials, life: Nat, action: Ids])
    /\ \A i \in DOMAIN log : log[i].credential \in redeemed

(* What is about to run was spent, by this call alone, for this task.       *)
SpendingInv ==
    \A t \in Threads :
        work[t] \in Spending =>
            /\ work[t].credential \in redeemed
            /\ work[t].credential.consent.action = work[t].args
            /\ ~Vault!Performed(work[t].credential)
            /\ \A u \in Threads \ {t} :
                  work[u] \in Spending => work[u].credential # work[t].credential

(* The invariant that carries itself over every step.                       *)
DispatcherIInv ==
    /\ DispatcherTypeOK
    /\ LockInv /\ VersionsInv /\ CopyInv /\ VaultInv /\ SpendingInv
    /\ ReturnsWholeTasks /\ DeletionsConsented /\ SpentCredentialsRun
=============================================================================
