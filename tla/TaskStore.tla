------------------------------- MODULE TaskStore -------------------------------
(***************************************************************************)
(* InMemoryTaskStore, the resource that the commands work on: a dict of    *)
(* Task objects behind one lock, called from several threads.              *)
(*                                                                         *)
(* The lock is held for all of list and update, and by get, create and     *)
(* delete only while they look at the dict: these copy the task after      *)
(* letting go of it, field by field (asdict).  update sets the fields in   *)
(* place, one at a time.  The other two fields of a task never change: its *)
(* id, and its status, which the dispatcher accepts from nobody.           *)
(***************************************************************************)
EXTENDS Integers, SequencesExt

CONSTANTS
    Ids,           \* task ids: uuid4 prefixes, taken to be unique
    Texts,         \* titles and descriptions
    Keep,          \* not a text: the argument is None
    Threads,       \* threads of the bridge process
    Nobody,        \* not a thread: the lock is free
    MaxVersions    \* bound: creations and updates

ASSUME TaskStoreAssumption ==
    /\ Keep \notin Texts
    /\ Nobody \notin Threads
    /\ MaxVersions \in Nat \ {0}

VARIABLES
    tasks,       \* ids in _tasks
    object,      \* id -> the fields of its Task object
    lock,        \* who holds _lock
    work,        \* per thread: its call, past its first step
    outcome,     \* what the latest step returned to its caller, if it did
    versions     \* history: id -> what its creation and each update left it as

storeVars == <<tasks, object, lock, work, outcome, versions>>

-----------------------------------------------------------------------------
Contents == [title: Texts, description: Texts]

Free == [op |-> "free"]

(* asdict in progress; `disturbed` once an update has set a field of the    *)
(* task since the lock was let go.                                          *)
Copying ==
    [op: {"get", "create", "delete"}, step: {"title"}, id: Ids, disturbed: BOOLEAN]
        \cup [op: {"get", "create", "delete"}, step: {"description"}, id: Ids,
              disturbed: BOOLEAN, title: Texts]

Updating == [op: {"update"}, id: Ids, description: Texts \cup {Keep}]

NoOutcome == [op |-> "none"]

Results ==
    {NoOutcome}
        \cup [op: {"get", "create", "delete"}, id: Ids, copy: Contents,
              disturbed: BOOLEAN]
        \cup [op: {"update"}, id: Ids, copy: Contents]
        \cup [op: {"list"}, copies: UNION {[S -> Contents] : S \in SUBSET Ids}]

StoreTypeOK(pending, rejections) ==
    /\ tasks \subseteq Ids
    /\ DOMAIN object = {id \in Ids : versions[id] # << >>}
    /\ \A id \in DOMAIN object : object[id] \in Contents
    /\ lock \in Threads \cup {Nobody}
    /\ work \in [Threads -> {Free} \cup Copying \cup Updating \cup pending]
    /\ outcome \in Results \cup rejections
    /\ versions \in [Ids -> Seq(Contents)]

StoreInit ==
    /\ tasks = {}
    /\ object = << >>
    /\ lock = Nobody
    /\ work = [t \in Threads |-> Free]
    /\ outcome = NoOutcome
    /\ versions = [id \in Ids |-> << >>]

-----------------------------------------------------------------------------
Returns(result) == outcome' = result
ReturnsNothing == Returns(NoOutcome)

CanGrow == MapThenSumSet(LAMBDA id : Len(versions[id]), Ids) < MaxVersions

(* The lock sections.  Each starts from `work[t] = from`: what the caller   *)
(* of the store was doing before.                                           *)
Locked(t, from) == work[t] = from /\ lock = Nobody

BeginCopy(t, op, id) ==
    work' = [work EXCEPT ![t] =
                [op |-> op, step |-> "title", id |-> id, disturbed |-> FALSE]]

StoreList(t) ==
    /\ Locked(t, Free)
    /\ Returns([op |-> "list", copies |-> [id \in tasks |-> object[id]]])
    /\ UNCHANGED <<tasks, object, lock, work, versions>>

StoreGet(t, id) ==
    /\ Locked(t, Free)
    /\ id \in tasks
    /\ BeginCopy(t, "get", id)
    /\ ReturnsNothing
    /\ UNCHANGED <<tasks, object, lock, versions>>

StoreCreate(t, id, title, description) ==
    /\ Locked(t, Free)
    /\ versions[id] = << >>
    /\ CanGrow
    /\ LET task == [title |-> title, description |-> description]
       IN  /\ object' = [i \in DOMAIN object \cup {id} |->
                            IF i = id THEN task ELSE object[i]]
           /\ versions' = [versions EXCEPT ![id] = << task >>]
    /\ tasks' = tasks \cup {id}
    /\ BeginCopy(t, "create", id)
    /\ ReturnsNothing
    /\ UNCHANGED lock

StoreDelete(t, id, from) ==
    /\ Locked(t, from)
    /\ id \in tasks
    /\ tasks' = tasks \ {id}
    /\ BeginCopy(t, "delete", id)
    /\ ReturnsNothing
    /\ UNCHANGED <<object, lock, versions>>

(* ApiError(404) of get, update and delete.                                 *)
StoreMissing(t, id, from) ==
    /\ Locked(t, from)
    /\ id \notin tasks
    /\ work' = [work EXCEPT ![t] = Free]
    /\ ReturnsNothing
    /\ UNCHANGED <<tasks, object, lock, versions>>

(* update sets the title, then the description; None leaves a field alone.  *)
SetEvenNone(field, id, value) ==   \* mutant: None is written like any value
    object' = [object EXCEPT ![id] = [@ EXCEPT ![field] = value]]

Set(field, id, value) ==
    object' = IF value = Keep THEN object
              ELSE [object EXCEPT ![id] = [@ EXCEPT ![field] = value]]

UpdatesOf(t, id, description) ==
    work' = [u \in Threads |->
        IF u = t THEN [op |-> "update", id |-> id, description |-> description]
        ELSE IF work[u] \in Copying /\ work[u].id = id
             THEN [work[u] EXCEPT !.disturbed = TRUE]
        ELSE work[u]]

StoreUpdateUnlocked(t, id, title, description) ==   \* mutant: update takes no lock
    /\ Locked(t, Free)
    /\ id \in tasks
    /\ CanGrow
    /\ Set("title", id, title)
    /\ UpdatesOf(t, id, description)
    /\ ReturnsNothing
    /\ UNCHANGED <<tasks, lock, versions>>

StoreUpdate(t, id, title, description) ==
    /\ Locked(t, Free)
    /\ id \in tasks
    /\ CanGrow
    /\ lock' = t
    /\ Set("title", id, title)
    /\ UpdatesOf(t, id, description)
    /\ ReturnsNothing
    /\ UNCHANGED <<tasks, versions>>

StoreUpdated(t) ==
    /\ work[t].op = "update"
    /\ LET id == work[t].id
       IN  /\ Set("description", id, work[t].description)
           /\ versions' = [versions EXCEPT ![id] = Append(@, object'[id])]
           /\ Returns([op |-> "update", id |-> id, copy |-> object'[id]])
    /\ lock' = Nobody
    /\ work' = [work EXCEPT ![t] = Free]
    /\ UNCHANGED tasks

-----------------------------------------------------------------------------
(* asdict, after the lock section. *)
CopyTitle(t) ==
    /\ work[t] \in Copying
    /\ work[t].step = "title"
    /\ work' = [work EXCEPT ![t] =
          [op |-> @.op, step |-> "description", id |-> @.id,
           disturbed |-> @.disturbed, title |-> object[@.id].title]]
    /\ ReturnsNothing
    /\ UNCHANGED <<tasks, object, lock, versions>>

CopyDescription(t) ==
    /\ work[t] \in Copying
    /\ work[t].step = "description"
    /\ Returns([op |-> work[t].op, id |-> work[t].id,
                copy |-> [title |-> work[t].title,
                          description |-> object[work[t].id].description],
                disturbed |-> work[t].disturbed])
    /\ work' = [work EXCEPT ![t] = Free]
    /\ UNCHANGED <<tasks, object, lock, versions>>

StoreStep(t) == StoreUpdated(t) \/ CopyTitle(t) \/ CopyDescription(t)

-----------------------------------------------------------------------------
Version(id, copy) == copy \in ToSet(versions[id])

(* list, update and delete return tasks that a creation or an update left   *)
(* as they are, never half of one update and half of another, and what      *)
(* delete returns is the task's last version.  get and create copy without  *)
(* the lock: their copy is whole unless an update of the same task came in  *)
(* between.                                                                 *)
ReturnsWholeTasks ==
    CASE outcome.op = "list" ->
            \A id \in DOMAIN outcome.copies : Version(id, outcome.copies[id])
      [] outcome.op = "update" -> Version(outcome.id, outcome.copy)
      [] outcome.op = "delete" -> outcome.copy = Last(versions[outcome.id])
      [] outcome.op \in {"get", "create"} ->
            outcome.disturbed \/ Version(outcome.id, outcome.copy)
      [] OTHER -> TRUE

-----------------------------------------------------------------------------
(* Why this holds at every step.  Only the holder of the lock updates.      *)
BeingUpdated(id) == \E t \in Threads : work[t].op = "update" /\ work[t].id = id

LockInv ==
    \A t \in Threads :
        work[t].op = "update" => lock = t /\ work[t].id \in tasks

(* An object is its last version, but for the title that an update has set. *)
VersionsInv ==
    /\ tasks \subseteq DOMAIN object
    /\ \A id \in DOMAIN object :
          /\ object[id].description = Last(versions[id]).description
          /\ BeingUpdated(id) \/ object[id].title = Last(versions[id]).title

(* Nobody updates a task whose copy is undisturbed, and no copy of a        *)
(* deleted task is ever disturbed.                                          *)
CopyInv ==
    \A t \in Threads :
        LET m == work[t]
        IN  m \in Copying =>
                /\ m.id \in DOMAIN object
                /\ m.op = "delete" => m.id \notin tasks /\ ~m.disturbed
                /\ \/ m.disturbed
                   \/ /\ ~BeingUpdated(m.id)
                      /\ m.step = "description" => m.title = Last(versions[m.id]).title
=============================================================================
