--------------------------- MODULE DispatcherProofs ---------------------------
(***************************************************************************)
(* Proofs about the dispatcher over its task store and a vault, for every  *)
(* number of threads, callers, scopes, tasks, texts and approvals.         *)
(***************************************************************************)
EXTENDS Dispatcher, SequenceTheorems, TLAPS

(* The store by itself, and what the dispatcher makes of store and vault.   *)
StorePart ==
    /\ StoreTypeOK(Spending, Rejections)
    /\ LockInv /\ VersionsInv /\ CopyInv /\ ReturnsWholeTasks

VaultPart ==
    /\ redeemed \subseteq issued
    /\ \A k \in issued : k.consent \in approved
    /\ VaultInv /\ SpendingInv /\ DeletionsConsented /\ SpentCredentialsRun

LEMMA Parts == DispatcherIInv <=> StorePart /\ VaultPart
BY DEF DispatcherIInv, DispatcherTypeOK, StorePart, VaultPart

-----------------------------------------------------------------------------
(* What a thread is doing can be told from the `op` of its record.          *)
Pieces == {Free} \cup Copying \cup Updating \cup Spending

LEMMA Kinds ==
    ASSUME NEW m \in Pieces
    PROVE  /\ m = Free <=> m.op = "free"
           /\ m \in Copying <=> m.op \in {"get", "create", "delete"}
           /\ m \in Updating <=> m.op = "update"
           /\ m \in Spending <=> m.op = "delete-task"
           /\ m.op \in {"free", "get", "create", "delete", "update", "delete-task"}
BY DEF Pieces, Free, Copying, Updating, Spending

LEMMA CopyingTyped ==
    ASSUME NEW m \in Copying
    PROVE  /\ m.op \in {"get", "create", "delete"}
           /\ m.step \in {"title", "description"}
           /\ m.id \in Ids
           /\ m.disturbed \in BOOLEAN
           /\ m.step = "description" => m.title \in Texts
BY DEF Copying

LEMMA BeginTyped ==
    ASSUME NEW op \in {"get", "create", "delete"}, NEW id \in Ids
    PROVE  [op |-> op, step |-> "title", id |-> id, disturbed |-> FALSE] \in Copying
BY DEF Copying

(* An update that comes in disturbs a copy and changes nothing else of it.  *)
LEMMA DisturbedTyped ==
    ASSUME NEW m \in Copying, NEW n, n = [m EXCEPT !.disturbed = TRUE]
    PROVE  /\ n \in Copying
           /\ n.disturbed
           /\ n.op = m.op /\ n.id = m.id /\ n.step = m.step
           /\ m.step = "description" => n.title = m.title
BY DEF Copying

LEMMA StoreTyped ==
    ASSUME StorePart
    PROVE  /\ tasks \subseteq Ids
           /\ DOMAIN object = {id \in Ids : versions[id] # << >>}
           /\ \A id \in DOMAIN object :
                 /\ object[id] \in Contents
                 /\ object[id] = [title |-> object[id].title,
                                  description |-> object[id].description]
                 /\ object[id].title \in Texts /\ object[id].description \in Texts
           /\ lock \in Threads \cup {Nobody}
           /\ work \in [Threads -> Pieces]
           /\ outcome \in Results \cup Rejections
           /\ versions \in [Ids -> Seq(Contents)]
<1>1. \A id \in DOMAIN object : object[id] \in Contents
  BY DEF StorePart, StoreTypeOK
<1>2. \A c \in Contents : /\ c = [title |-> c.title, description |-> c.description]
                          /\ c.title \in Texts /\ c.description \in Texts
  BY DEF Contents
<1> QED
  BY <1>1, <1>2 DEF StorePart, StoreTypeOK, Pieces

(* A task that exists has a last version, which is one of its versions.     *)
LEMMA Latest ==
    ASSUME StorePart, NEW id \in DOMAIN object
    PROVE  /\ Last(versions[id]) \in Contents
           /\ Last(versions[id]) =
                 [title |-> Last(versions[id]).title,
                  description |-> Last(versions[id]).description]
           /\ Version(id, Last(versions[id]))
<1>1. versions[id] \in Seq(Contents) /\ versions[id] # << >>
  BY StoreTyped
<1>2. Len(versions[id]) \in 1..Len(versions[id])
  BY <1>1, EmptySeq, LenProperties
<1>3. Last(versions[id]) \in Contents
  BY <1>1, <1>2, ElementOfSeq DEF Last
<1>4. Version(id, Last(versions[id]))
  BY <1>1, <1>2 DEF Version, Last, ToSet
<1> QED
  BY <1>3, <1>4 DEF Contents

(* An object that nobody is updating is its last version.                   *)
LEMMA Settled ==
    ASSUME StorePart, NEW id \in DOMAIN object, ~BeingUpdated(id)
    PROVE  object[id] = Last(versions[id])
BY Latest, StoreTyped DEF StorePart, VersionsInv

LEMMA NobodyUpdates ==
    ASSUME StorePart, lock = Nobody
    PROVE  \A t \in Threads : work[t].op # "update"
BY TaskStoreAssumption DEF StorePart, LockInv

-----------------------------------------------------------------------------
(* A step of one thread that touches no object and begins or ends no        *)
(* update; it may take tasks out of the dict while it has the lock.         *)
LEMMA QuietStep ==
    ASSUME StorePart, NEW t \in Threads,
           UNCHANGED <<object, lock, versions>>,
           tasks' \subseteq tasks, tasks' = tasks \/ lock = Nobody,
           NEW m \in Pieces, work' = [work EXCEPT ![t] = m],
           work[t].op # "update", m.op # "update",
           m \in Copying =>
               /\ m.id \in DOMAIN object
               /\ m.op = "delete" => m.id \notin tasks' /\ ~m.disturbed
               /\ \/ m.disturbed
                  \/ /\ ~BeingUpdated(m.id)
                     /\ m.step = "description" => m.title = Last(versions[m.id]).title,
           outcome' \in Results \cup Rejections,
           ReturnsWholeTasks'
    PROVE  StorePart'
<1>1. /\ work' \in [Threads -> Pieces] /\ work'[t] = m
      /\ \A u \in Threads \ {t} : work'[u] = work[u]
  BY StoreTyped
<1>2. \A id : BeingUpdated(id)' <=> BeingUpdated(id)
  BY <1>1 DEF BeingUpdated
<1>3. StoreTypeOK(Spending, Rejections)'
  BY <1>1 DEF StorePart, StoreTypeOK, Pieces
<1>4. LockInv'
  <2>1. CASE tasks' = tasks
    BY <2>1, <1>1 DEF StorePart, LockInv
  <2>2. CASE lock = Nobody
    BY <2>2, <1>1, NobodyUpdates DEF LockInv
  <2> QED
    BY <2>1, <2>2
<1>5. VersionsInv'
  BY <1>2 DEF StorePart, VersionsInv
<1>6. CopyInv'
  BY <1>1, <1>2 DEF StorePart, CopyInv
<1> QED
  BY <1>3, <1>4, <1>5, <1>6 DEF StorePart

LEMMA NothingReturned == ReturnsNothing => ReturnsWholeTasks' /\ outcome' \in Results
BY DEF ReturnsNothing, Returns, NoOutcome, ReturnsWholeTasks, Results

(* A step that leaves the thread where it was.                              *)
LEMMA StaysStep ==
    ASSUME StorePart, UNCHANGED <<tasks, object, lock, work, versions>>,
           outcome' \in Results \cup Rejections, ReturnsWholeTasks'
    PROVE  StorePart'
BY DEF StorePart, StoreTypeOK, LockInv, VersionsInv, CopyInv, BeingUpdated

LEMMA ListKeeps ==
    ASSUME StorePart, NEW t \in Threads, StoreList(t)
    PROVE  StorePart'
<1> DEFINE copies == [id \in tasks |-> object[id]]
<1>1. /\ lock = Nobody /\ outcome' = [op |-> "list", copies |-> copies]
      /\ UNCHANGED <<tasks, object, lock, work, versions>>
  BY DEF StoreList, Locked, Returns
<1>2. tasks \subseteq DOMAIN object
  BY DEF StorePart, VersionsInv
<1>3. \A id \in tasks : copies[id] \in Contents /\ Version(id, copies[id])
  BY <1>1, <1>2, NobodyUpdates, Settled, Latest DEF BeingUpdated
<1>4. copies \in [tasks -> Contents] /\ tasks \in SUBSET Ids
  BY <1>3, StoreTyped
<1> HIDE DEF copies
<1>5. outcome' \in Results
  BY <1>1, <1>4 DEF Results
<1>6. ReturnsWholeTasks'
  BY <1>1, <1>3, <1>4 DEF ReturnsWholeTasks, Version
<1> QED
  BY <1>1, <1>5, <1>6, StaysStep

LEMMA GetKeeps ==
    ASSUME StorePart, NEW t \in Threads, NEW id \in Ids, StoreGet(t, id)
    PROVE  StorePart'
<1> DEFINE m == [op |-> "get", step |-> "title", id |-> id, disturbed |-> FALSE]
<1>1. m \in Copying /\ m \in Pieces
  BY BeginTyped DEF Pieces
<1>2. /\ work[t] = Free /\ lock = Nobody /\ id \in tasks
      /\ work' = [work EXCEPT ![t] = m] /\ ReturnsNothing
      /\ UNCHANGED <<tasks, object, lock, versions>>
  BY DEF StoreGet, Locked, BeginCopy
<1>3. id \in DOMAIN object /\ ~BeingUpdated(id) /\ Free.op # "update"
  BY <1>2, NobodyUpdates DEF StorePart, VersionsInv, BeingUpdated, Free
<1> QED
  BY <1>1, <1>2, <1>3, NothingReturned, QuietStep

LEMMA DeleteKeeps ==
    ASSUME StorePart, NEW t \in Threads, NEW id \in Ids, NEW from, StoreDelete(t, id, from)
    PROVE  StorePart'
<1> DEFINE m == [op |-> "delete", step |-> "title", id |-> id, disturbed |-> FALSE]
<1>1. m \in Copying /\ m \in Pieces
  BY BeginTyped DEF Pieces
<1>2. /\ lock = Nobody /\ id \in tasks /\ tasks' = tasks \ {id}
      /\ work' = [work EXCEPT ![t] = m] /\ ReturnsNothing
      /\ UNCHANGED <<object, lock, versions>>
  BY DEF StoreDelete, Locked, BeginCopy
<1>3. id \in DOMAIN object /\ ~BeingUpdated(id) /\ work[t].op # "update"
  BY <1>2, NobodyUpdates DEF StorePart, VersionsInv, BeingUpdated
<1> QED
  BY <1>1, <1>2, <1>3, NothingReturned, QuietStep

LEMMA MissingKeeps ==
    ASSUME StorePart, NEW t \in Threads, NEW id, NEW from, StoreMissing(t, id, from)
    PROVE  StorePart'
<1>1. /\ lock = Nobody /\ work' = [work EXCEPT ![t] = Free] /\ ReturnsNothing
      /\ UNCHANGED <<tasks, object, lock, versions>>
  BY DEF StoreMissing, Locked
<1>2. Free \in Pieces /\ Free \notin Copying /\ Free.op # "update" /\ work[t].op # "update"
  BY <1>1, NobodyUpdates DEF Pieces, Free, Copying
<1> QED
  BY <1>1, <1>2, NothingReturned, QuietStep

LEMMA CopyTitleKeeps ==
    ASSUME StorePart, NEW t \in Threads, CopyTitle(t)
    PROVE  StorePart'
<1> DEFINE w == work[t]
           m == [op |-> w.op, step |-> "description", id |-> w.id,
                 disturbed |-> w.disturbed, title |-> object[w.id].title]
<1>1. /\ w \in Copying /\ w.step = "title"
      /\ work' = [work EXCEPT ![t] = m] /\ ReturnsNothing
      /\ UNCHANGED <<tasks, object, lock, versions>>
  BY DEF CopyTitle
<1>2. /\ w.id \in DOMAIN object
      /\ w.op = "delete" => w.id \notin tasks /\ ~w.disturbed
      /\ w.disturbed \/ ~BeingUpdated(w.id)
  BY <1>1 DEF StorePart, CopyInv
<1>3. m \in Copying /\ m \in Pieces /\ m.op # "update" /\ w.op # "update"
  BY <1>1, <1>2, StoreTyped, CopyingTyped DEF Copying, Pieces
<1>4. w.disturbed \/ m.title = Last(versions[w.id]).title
  BY <1>2 DEF StorePart, VersionsInv
<1> QED
  BY <1>1, <1>2, <1>3, <1>4, NothingReturned, QuietStep

LEMMA CopyDescriptionKeeps ==
    ASSUME StorePart, NEW t \in Threads, CopyDescription(t)
    PROVE  StorePart'
<1> DEFINE w == work[t]
           copy == [title |-> w.title, description |-> object[w.id].description]
<1>1. /\ w \in Copying /\ w.step = "description"
      /\ work' = [work EXCEPT ![t] = Free]
      /\ outcome' = [op |-> w.op, id |-> w.id, copy |-> copy, disturbed |-> w.disturbed]
      /\ UNCHANGED <<tasks, object, lock, versions>>
  BY DEF CopyDescription, Returns
<1>2. /\ w.id \in DOMAIN object
      /\ w.op = "delete" => ~w.disturbed
      /\ ~w.disturbed => w.title = Last(versions[w.id]).title
  BY <1>1 DEF StorePart, CopyInv
<1>3. w.op \in {"get", "create", "delete"} /\ w.id \in Ids /\ w.disturbed \in BOOLEAN
      /\ w.title \in Texts
  BY <1>1, CopyingTyped
<1>4. copy \in Contents
  BY <1>2, <1>3, StoreTyped DEF Contents
<1>5. ~w.disturbed => copy = Last(versions[w.id])
  BY <1>2, Latest DEF StorePart, VersionsInv
<1> HIDE DEF copy
<1>6. outcome' \in Results
  BY <1>1, <1>3, <1>4 DEF Results
<1>7. ReturnsWholeTasks'
  <2>1. w.disturbed \/ Version(w.id, copy)
    BY <1>2, <1>5, Latest
  <2> QED
    BY <2>1, <1>1, <1>2, <1>3, <1>5 DEF ReturnsWholeTasks, Version
<1>8. Free \in Pieces /\ Free \notin Copying /\ Free.op # "update" /\ w.op # "update"
  BY <1>3 DEF Pieces, Free, Copying
<1> QED
  BY <1>1, <1>6, <1>7, <1>8, QuietStep

(* create: a new object, which is its only version.                         *)
LEMMA CreateKeeps ==
    ASSUME StorePart, NEW t \in Threads, NEW id \in Ids,
           NEW title \in Texts, NEW description \in Texts,
           StoreCreate(t, id, title, description)
    PROVE  StorePart'
<1> DEFINE m == [op |-> "create", step |-> "title", id |-> id, disturbed |-> FALSE]
           task == [title |-> title, description |-> description]
<1>1. /\ work[t] = Free /\ lock = Nobody /\ versions[id] = << >>
      /\ object' = [i \in DOMAIN object \cup {id} |-> IF i = id THEN task ELSE object[i]]
      /\ versions' = [versions EXCEPT ![id] = << task >>]
      /\ tasks' = tasks \cup {id} /\ lock' = lock
      /\ work' = [work EXCEPT ![t] = m] /\ ReturnsNothing
  BY DEF StoreCreate, Locked, BeginCopy
<1>2. m \in Copying /\ m \in Pieces /\ task \in Contents
  BY BeginTyped DEF Pieces, Contents
<1>3. /\ id \notin DOMAIN object /\ id \notin tasks
      /\ DOMAIN object' = DOMAIN object \cup {id}
      /\ object'[id] = task
      /\ \A i \in DOMAIN object : object'[i] = object[i]
  BY <1>1, StoreTyped DEF StorePart, VersionsInv
<1>4. /\ versions' \in [Ids -> Seq(Contents)] /\ versions'[id] = << task >>
      /\ << task >> # << >> /\ Last(<< task >>) = task
      /\ \A i \in Ids \ {id} : versions'[i] = versions[i]
  BY <1>1, <1>2, StoreTyped DEF Last
<1>5. /\ work' \in [Threads -> Pieces] /\ work'[t] = m
      /\ \A u \in Threads \ {t} : work'[u] = work[u]
  BY <1>1, <1>2, StoreTyped
<1>6. \A u \in Threads : work[u].op # "update" /\ work'[u].op # "update"
  BY <1>1, <1>5, NobodyUpdates
<1>7. task.title = title /\ task.description = description
  OBVIOUS
<1> HIDE DEF task
<1>8. StoreTypeOK(Spending, Rejections)'
  <2>1. DOMAIN object' = {i \in Ids : versions'[i] # << >>}
    BY <1>3, <1>4, StoreTyped
  <2> QED
    BY <2>1, <1>1, <1>2, <1>3, <1>4, <1>5, StoreTyped, NothingReturned
    DEF StoreTypeOK, Pieces
<1>9. LockInv' /\ (\A i : ~BeingUpdated(i)')
  BY <1>6 DEF LockInv, BeingUpdated
<1>10. VersionsInv'
  <2>1. \A i \in DOMAIN object :
          /\ i \in Ids /\ i # id
          /\ object[i].description = Last(versions[i]).description
          /\ object[i].title = Last(versions[i]).title
    BY <1>3, <1>6, StoreTyped DEF StorePart, VersionsInv, BeingUpdated
  <2>2. tasks' \subseteq DOMAIN object'
    BY <1>1, <1>3 DEF StorePart, VersionsInv
  <2> QED
    BY <2>1, <2>2, <1>3, <1>4 DEF VersionsInv
<1>11. CopyInv'
  <2> SUFFICES ASSUME NEW u \in Threads, work'[u] \in Copying
               PROVE  /\ work'[u].id \in DOMAIN object'
                      /\ work'[u].op = "delete" => work'[u].id \notin tasks' /\ ~work'[u].disturbed
                      /\ \/ work'[u].disturbed
                         \/ work'[u].step = "description" =>
                                work'[u].title = Last(versions'[work'[u].id]).title
    BY <1>9 DEF CopyInv
  <2>1. CASE u = t
    BY <2>1, <1>3, <1>5
  <2>2. CASE u # t
    <3>1. work'[u] = work[u] /\ work[u].id \in DOMAIN object /\ work[u].id # id
          /\ work[u].id \in Ids
      BY <2>2, <1>3, <1>5, StoreTyped DEF StorePart, CopyInv
    <3> QED
      BY <3>1, <1>1, <1>3, <1>4 DEF StorePart, CopyInv
  <2> QED
    BY <2>1, <2>2
<1> QED
  BY <1>1, <1>8, <1>9, <1>10, <1>11, NothingReturned DEF StorePart

(* update takes the lock and sets the title; all copies are disturbed.      *)
LEMMA UpdateKeeps ==
    ASSUME StorePart, NEW t \in Threads, NEW id \in Ids,
           NEW title \in Texts \cup {Keep}, NEW description \in Texts \cup {Keep},
           StoreUpdate(t, id, title, description)
    PROVE  StorePart'
<1> DEFINE m == [op |-> "update", id |-> id, description |-> description]
<1>1. /\ work[t] = Free /\ lock = Nobody /\ id \in tasks /\ lock' = t
      /\ Set("title", id, title) /\ UpdatesOf(t, id, description) /\ ReturnsNothing
      /\ tasks' = tasks /\ versions' = versions
  BY DEF StoreUpdate, Locked
<1>2. m \in Updating /\ m \in Pieces
  BY DEF Updating, Pieces
<1>3. id \in DOMAIN object
  BY <1>1 DEF StorePart, VersionsInv
<1>4. /\ DOMAIN object' = DOMAIN object
      /\ \A i \in DOMAIN object :
            /\ object'[i] \in Contents
            /\ object'[i].description = object[i].description
            /\ i # id => object'[i] = object[i]
  BY <1>1, <1>3, StoreTyped DEF Set, Contents
<1>5. /\ work'[t] = m
      /\ \A u \in Threads \ {t} : work[u] \in Copying /\ work[u].id = id =>
            work'[u] = [work[u] EXCEPT !.disturbed = TRUE]
      /\ \A u \in Threads \ {t} : ~(work[u] \in Copying /\ work[u].id = id) =>
            work'[u] = work[u]
      /\ work' = [u \in Threads |-> work'[u]]
  BY <1>1 DEF UpdatesOf
<1> HIDE DEF m
<1>6. \A u \in Threads \ {t} :
        \/ /\ work[u] \in Copying /\ work'[u] \in Copying
           /\ work[u].id = id /\ work'[u].id = id
           /\ work'[u].disturbed /\ work'[u].op = work[u].op
        \/ /\ work'[u] = work[u]
           /\ ~(work[u] \in Copying /\ work[u].id = id)
  BY <1>5, DisturbedTyped
<1>7. work' \in [Threads -> Pieces]
  BY <1>2, <1>5, <1>6, StoreTyped DEF Pieces
<1>8. \A u \in Threads \ {t} : work'[u].op # "update"
  BY <1>1, <1>6, NobodyUpdates
<1>9. StoreTypeOK(Spending, Rejections)'
  BY <1>1, <1>4, <1>7, StoreTyped, NothingReturned DEF StoreTypeOK, Pieces
<1>10. /\ \A i : ~BeingUpdated(i) 
       /\ \A i : BeingUpdated(i)' <=> i = id
  BY <1>1, <1>2, <1>5, <1>8, NobodyUpdates DEF BeingUpdated, m
<1>11. LockInv'
  BY <1>1, <1>5, <1>8 DEF LockInv, m
<1>12. VersionsInv'
  BY <1>1, <1>4, <1>10 DEF StorePart, VersionsInv
<1>13. CopyInv'
  <2> SUFFICES ASSUME NEW u \in Threads, work'[u] \in Copying
               PROVE  /\ work'[u].id \in DOMAIN object'
                      /\ work'[u].op = "delete" => work'[u].id \notin tasks' /\ ~work'[u].disturbed
                      /\ \/ work'[u].disturbed
                         \/ /\ work'[u].id # id
                            /\ work'[u].step = "description" =>
                                  work'[u].title = Last(versions'[work'[u].id]).title
    BY <1>10 DEF CopyInv, BeingUpdated
  <2>1. u # t
    BY <1>2, <1>5, <1>7, Kinds DEF m
  <2>2. CASE /\ work[u] \in Copying /\ work[u].id = id /\ work'[u].id = id
             /\ work'[u].disturbed /\ work'[u].op = work[u].op
    BY <2>2, <1>1, <1>3, <1>4 DEF StorePart, CopyInv
  <2>3. CASE work'[u] = work[u] /\ ~(work[u] \in Copying /\ work[u].id = id)
    BY <2>3, <1>1, <1>4 DEF StorePart, CopyInv
  <2> QED
    BY <2>1, <2>2, <2>3, <1>6
<1> QED
  BY <1>1, <1>9, <1>11, <1>12, <1>13, NothingReturned DEF StorePart

(* It sets the description, lets go of the lock and returns a copy.         *)
LEMMA UpdatedKeeps ==
    ASSUME StorePart, NEW t \in Threads, StoreUpdated(t)
    PROVE  StorePart'
<1> DEFINE id == work[t].id
           object2 == object'[id]
<1>1. /\ work[t].op = "update" /\ Set("description", id, work[t].description)
      /\ versions' = [versions EXCEPT ![id] = Append(@, object2)]
      /\ outcome' = [op |-> "update", id |-> id, copy |-> object2]
      /\ lock' = Nobody /\ work' = [work EXCEPT ![t] = Free] /\ tasks' = tasks
  BY DEF StoreUpdated, Returns
<1>2. lock = t /\ id \in tasks /\ id \in DOMAIN object /\ id \in Ids
      /\ work[t].description \in Texts \cup {Keep}
  <2>1. work[t] \in Updating
    BY <1>1, StoreTyped, Kinds
  <2> QED
    BY <2>1, <1>1 DEF StorePart, LockInv, VersionsInv, Updating
<1>3. /\ DOMAIN object' = DOMAIN object
      /\ \A i \in DOMAIN object :
            /\ object'[i] \in Contents
            /\ i # id => object'[i] = object[i]
  BY <1>1, <1>2, StoreTyped DEF Set, Contents
<1>4. object2 \in Contents
  BY <1>2, <1>3
<1> HIDE DEF id, object2
<1>5. /\ versions' \in [Ids -> Seq(Contents)]
      /\ versions'[id] # << >> /\ Last(versions'[id]) = object2
      /\ object2 \in ToSet(versions'[id])
      /\ \A i \in Ids \ {id} : versions'[i] = versions[i]
  <2>1. versions[id] \in Seq(Contents)
    BY <1>2, StoreTyped
  <2>2. LET s == Append(versions[id], object2)
        IN  s \in Seq(Contents) /\ s # << >> /\ s[Len(s)] = object2 /\ Len(s) \in DOMAIN s
    BY <2>1, <1>4, AppendProperties, LenProperties
  <2> QED
    BY <2>2, <1>1, <1>2, StoreTyped DEF Last, ToSet
<1>6. /\ work' \in [Threads -> Pieces] /\ work'[t] = Free
      /\ \A u \in Threads \ {t} : work'[u] = work[u]
  BY <1>1, StoreTyped DEF Pieces
<1>7. \A u \in Threads \ {t} : work[u].op # "update"
  BY <1>2 DEF StorePart, LockInv
<1>8. \A i : /\ ~BeingUpdated(i)'
             /\ BeingUpdated(i) <=> i = id
  BY <1>1, <1>6, <1>7 DEF BeingUpdated, Free, id
<1>9. /\ outcome' \in Results
      /\ ReturnsWholeTasks'
  <2>1. outcome' \in Results
    BY <1>1, <1>2, <1>4 DEF Results
  <2> QED
    BY <2>1, <1>1, <1>5 DEF ReturnsWholeTasks, Version
<1>10. StoreTypeOK(Spending, Rejections)'
  <2>1. DOMAIN object' = {i \in Ids : versions'[i] # << >>}
    BY <1>2, <1>3, <1>5, StoreTyped
  <2> QED
    BY <2>1, <1>1, <1>3, <1>5, <1>6, <1>9, StoreTyped DEF StoreTypeOK, Pieces
<1>11. LockInv'
  BY <1>6, <1>7 DEF LockInv, Free
<1>12. VersionsInv'
  <2>1. tasks' \subseteq DOMAIN object'
    BY <1>1, <1>3 DEF StorePart, VersionsInv
  <2>2. \A i \in DOMAIN object \ {id} :
          /\ i \in Ids
          /\ object[i].description = Last(versions[i]).description
          /\ object[i].title = Last(versions[i]).title
    BY <1>8, StoreTyped DEF StorePart, VersionsInv
  <2> QED
    BY <2>1, <2>2, <1>3, <1>5 DEF VersionsInv, object2
<1>13. CopyInv'
  <2> SUFFICES ASSUME NEW u \in Threads, work'[u] \in Copying
               PROVE  /\ work'[u].id \in DOMAIN object'
                      /\ work'[u].op = "delete" => work'[u].id \notin tasks' /\ ~work'[u].disturbed
                      /\ \/ work'[u].disturbed
                         \/ work'[u].step = "description" =>
                                work'[u].title = Last(versions'[work'[u].id]).title
    BY <1>8 DEF CopyInv
  <2>1. work'[u] = work[u] /\ work[u].id \in DOMAIN object
    BY <1>6 DEF StorePart, CopyInv, Free, Copying
  <2>2. CASE work[u].id = id
    BY <2>1, <2>2, <1>1, <1>2, <1>3, <1>8 DEF StorePart, CopyInv
  <2>3. CASE work[u].id # id
    BY <2>1, <2>3, <1>1, <1>3, <1>5, StoreTyped DEF StorePart, CopyInv
  <2> QED
    BY <2>2, <2>3
<1> QED
  BY <1>9, <1>10, <1>11, <1>12, <1>13 DEF StorePart

-----------------------------------------------------------------------------
(* The steps of the store leave the spending threads where they are.        *)
SameSpending ==
    \A u \in Threads :
        work[u] \in Spending \/ work'[u] \in Spending => work'[u] = work[u]

LEMMA OneThread ==
    ASSUME StorePart, NEW t \in Threads, work[t] \notin Spending, NEW m, m \notin Spending,
           work' = [work EXCEPT ![t] = m]
    PROVE  SameSpending
BY StoreTyped DEF SameSpending

LEMMA NotSpending ==
    /\ Free \notin Spending
    /\ \A m \in Copying \cup Updating : m \notin Spending
BY DEF Free, Copying, Updating, Spending

(* A task is gone when its object is there and the dict has lost it.        *)
LEMMA GoneTasks == ASSUME StorePart PROVE Gone = DOMAIN object \ tasks
BY StoreTyped DEF Gone

LEMMA StoreCallsStay ==
    ASSUME StorePart, NEW t \in Threads, NEW id \in Ids,
           NEW title, NEW description \in Texts \cup {Keep},
           \/ StoreList(t) \/ StoreGet(t, id) \/ StoreMissing(t, id, Free)
           \/ StoreUpdate(t, id, title, description)
           \/ StoreCreate(t, id, title, description)
    PROVE  SameSpending /\ DOMAIN object' \ tasks' \subseteq DOMAIN object \ tasks
<1>1. work[t] = Free /\ Free \notin Spending
  BY NotSpending
  DEF StoreList, StoreGet, StoreMissing, StoreUpdate, StoreCreate, Locked
<1>2. CASE StoreList(t)
  BY <1>2 DEF StoreList, SameSpending
<1>3. CASE StoreGet(t, id)
  <2>1. [op |-> "get", step |-> "title", id |-> id, disturbed |-> FALSE] \notin Spending
    BY NotSpending, BeginTyped
  <2> QED
    BY <1>1, <1>3, <2>1, OneThread DEF StoreGet, BeginCopy
<1>4. CASE StoreMissing(t, id, Free)
  BY <1>1, <1>4, OneThread DEF StoreMissing
<1>5. CASE StoreCreate(t, id, title, description)
  <2>1. [op |-> "create", step |-> "title", id |-> id, disturbed |-> FALSE] \notin Spending
    BY NotSpending, BeginTyped
  <2> QED
    BY <1>1, <1>5, <2>1, OneThread DEF StoreCreate, BeginCopy
<1>6. CASE StoreUpdate(t, id, title, description)
  <2>1. [op |-> "update", id |-> id, description |-> description] \notin Spending
    BY NotSpending DEF Updating
  <2>2. \A m \in Copying : [m EXCEPT !.disturbed = TRUE] \notin Spending /\ m \notin Spending
    BY NotSpending, DisturbedTyped
  <2>3. SameSpending
    BY <1>1, <1>6, <2>1, <2>2 DEF StoreUpdate, UpdatesOf, SameSpending
  <2>4. DOMAIN object' = DOMAIN object /\ tasks' = tasks
    BY <1>6 DEF StoreUpdate, Set
  <2> QED
    BY <2>3, <2>4
<1> QED
  BY <1>2, <1>3, <1>4, <1>5, <1>6

LEMMA StoreStepStays ==
    ASSUME StorePart, NEW t \in Threads, StoreStep(t)
    PROVE  SameSpending /\ DOMAIN object' \ tasks' \subseteq DOMAIN object \ tasks
<1>1. CASE StoreUpdated(t)
  <2>1. work[t] \notin Spending
    BY <1>1, StoreTyped, Kinds DEF StoreUpdated
  <2>2. DOMAIN object' = DOMAIN object /\ tasks' = tasks
    BY <1>1 DEF StoreUpdated, Set
  <2> QED
    BY <1>1, <2>1, <2>2, NotSpending, OneThread DEF StoreUpdated
<1>2. CASE CopyTitle(t)
  <2> DEFINE m == [op |-> work[t].op, step |-> "description", id |-> work[t].id,
                   disturbed |-> work[t].disturbed, title |-> object[work[t].id].title]
  <2>1. work[t] \notin Spending /\ m \notin Spending
    BY <1>2, NotSpending, CopyingTyped DEF CopyTitle, Spending
  <2> QED
    BY <1>2, <2>1, OneThread DEF CopyTitle
<1>3. CASE CopyDescription(t)
  BY <1>3, NotSpending, OneThread DEF CopyDescription
<1> QED
  BY <1>1, <1>2, <1>3 DEF StoreStep

LEMMA VaultStays ==
    ASSUME StorePart, StorePart', VaultPart, UNCHANGED vault, SameSpending,
           DOMAIN object' \ tasks' \subseteq DOMAIN object \ tasks
    PROVE  VaultPart'
<1>1. Gone' \subseteq Gone
  <2>1. Gone' = DOMAIN object' \ tasks'
    BY StoreTyped DEF Gone, StorePart, StoreTypeOK
  <2> QED
    BY <2>1, GoneTasks
<1>2. /\ approved' = approved /\ issued' = issued /\ redeemed' = redeemed
      /\ life' = life /\ log' = log
  BY DEF vault
<1>3. VaultInv'
  BY <1>2 DEF VaultPart, VaultInv
<1>4. SpendingInv'
  BY <1>2 DEF VaultPart, SpendingInv, SameSpending, Vault!Performed
<1>5. DeletionsConsented'
  BY <1>1, <1>2 DEF VaultPart, DeletionsConsented
<1>6. SpentCredentialsRun'
  BY <1>2 DEF VaultPart, SpentCredentialsRun, SameSpending, Vault!Performed
<1> QED
  BY <1>2, <1>3, <1>4, <1>5, <1>6 DEF VaultPart

-----------------------------------------------------------------------------
(* The human signs and the vault mints.                                     *)
LEMMA GrantKeeps ==
    ASSUME StorePart, VaultPart, NEW consent \in Deletions, Grant(consent)
    PROVE  StorePart' /\ VaultPart'
<1>1. /\ UNCHANGED <<tasks, object, lock, work, versions>> /\ ReturnsNothing
      /\ UNCHANGED <<redeemed, life, log>>
  BY DEF Grant, Vault!Approve, Vault!Exchange
<1>2. StorePart'
  BY <1>1, StaysStep, NothingReturned
<1>3. /\ approved \subseteq approved' /\ issued \subseteq issued'
      /\ \A k \in issued' : k \in Credentials /\ k.consent \in approved'
  <2>1. CASE Vault!Approve(consent)
    BY <2>1 DEF Vault!Approve, VaultPart, VaultInv
  <2>2. CASE Vault!Exchange(consent)
    <3>1. [consent |-> consent, life |-> life.issuer] \in Credentials
      BY DEF VaultPart, VaultInv, Credentials
    <3> QED
      BY <2>2, <3>1 DEF Vault!Exchange, Vault!CredentialFor, VaultPart, VaultInv
  <2> QED
    BY <2>1, <2>2 DEF Grant
<1>4. VaultInv'
  BY <1>1, <1>3 DEF VaultPart, VaultInv
<1>5. SpendingInv' /\ SpentCredentialsRun'
  BY <1>1 DEF VaultPart, SpendingInv, SpentCredentialsRun, Vault!Performed
<1>6. DeletionsConsented'
  BY <1>1, <1>3 DEF VaultPart, DeletionsConsented, Gone
<1> QED
  BY <1>1, <1>2, <1>3, <1>4, <1>5, <1>6 DEF VaultPart

(* A credential is spent for the call that will run it, and has not run.    *)
LEMMA SpendKeeps ==
    ASSUME StorePart, VaultPart, NEW t \in Threads, NEW caller \in Callers \cup {InProcess},
           NEW args \in Arguments, NEW k \in issued, Spend(t, caller, args, k)
    PROVE  StorePart' /\ VaultPart'
<1> DEFINE m == [op |-> "delete-task", args |-> args, caller |-> caller, credential |-> k]
<1>1. /\ work[t] = Free /\ k.consent.action = args
      /\ k \notin redeemed /\ redeemed' = redeemed \cup {k}
      /\ UNCHANGED <<approved, issued, life, log>>
      /\ work' = [work EXCEPT ![t] = m] /\ ReturnsNothing
      /\ UNCHANGED <<tasks, object, lock, versions>>
  BY DEF Spend, Consume, Vault!Redeem
<1>2. k \in Credentials /\ m \in Spending /\ m \in Pieces
  BY DEF VaultPart, VaultInv, Spending, Credentials, Pieces
<1>3. /\ m.credential = k /\ m.args = args /\ m.op = "delete-task"
      /\ m \notin Copying /\ m.op # "update" /\ Free.op # "update"
  BY DEF Copying, Free
<1> HIDE DEF m
<1>4. StorePart'
  BY <1>1, <1>2, <1>3, QuietStep, NothingReturned
<1>5. /\ work'[t] = m /\ work[t] \notin Spending
      /\ \A u \in Threads \ {t} : work'[u] = work[u]
  BY <1>1, StoreTyped, NotSpending
<1>6. VaultInv'
  BY <1>1 DEF VaultPart, VaultInv
<1>7. SpendingInv'
  <2>1. ~Vault!Performed(k)
    BY <1>1 DEF VaultPart, VaultInv, Vault!Performed
  <2>2. \A u \in Threads \ {t} : work[u] \in Spending => work[u].credential # k
    BY <1>1 DEF VaultPart, SpendingInv
  <2> QED
    BY <1>1, <1>3, <1>5, <2>1, <2>2 DEF VaultPart, SpendingInv, Vault!Performed
<1>8. SpentCredentialsRun'
  BY <1>1, <1>2, <1>3, <1>5 DEF VaultPart, SpentCredentialsRun, Vault!Performed
<1>9. DeletionsConsented'
  BY <1>1 DEF VaultPart, DeletionsConsented, Gone
<1> QED
  BY <1>1, <1>4, <1>6, <1>7, <1>8, <1>9 DEF VaultPart

(* The command runs under its credential; what it deletes is what the human *)
(* signed.                                                                  *)
LEMMA DeleteTaskKeeps ==
    ASSUME StorePart, VaultPart, NEW t \in Threads, DeleteTask(t)
    PROVE  StorePart' /\ VaultPart'
<1> DEFINE id == work[t].args
           k == work[t].credential
           e == [credential |-> k, life |-> life.executor, action |-> id]
           n == Len(log) + 1
<1>1. /\ work[t] \in Spending
      /\ StoreDelete(t, id, work[t]) \/ StoreMissing(t, id, work[t])
      /\ k \in redeemed /\ log' = Append(log, e)
      /\ UNCHANGED <<approved, issued, redeemed, life>>
  BY DEF DeleteTask, Vault!Perform
<1>2. id \in Ids /\ k \in Credentials /\ k.consent.action = id /\ k \in issued
      /\ k.consent \in approved /\ k.consent \in Deletions
  BY <1>1 DEF DeleteTask, Spending, VaultPart, VaultInv, SpendingInv, Credentials
<1>3. k.consent = [action |-> id]
  BY <1>2 DEF Deletions
<1>4. StorePart'
  BY <1>1, <1>2, DeleteKeeps, MissingKeeps
<1>5. /\ work'[t] \notin Spending
      /\ \A u \in Threads \ {t} : work'[u] = work[u]
      /\ versions' = versions /\ tasks \ {id} \subseteq tasks'
  <2>1. [op |-> "delete", step |-> "title", id |-> id, disturbed |-> FALSE] \notin Spending
    BY <1>2, NotSpending, BeginTyped
  <2> QED
    BY <1>1, <2>1, StoreTyped, NotSpending DEF StoreDelete, StoreMissing, BeginCopy
<1>6. e \in [credential: Credentials, life: Nat, action: Ids]
  BY <1>2 DEF VaultPart, VaultInv
<1>7. /\ e.credential = k /\ e.life = life.executor /\ e.action = id
  OBVIOUS
<1> HIDE DEF id, k, e
<1>8. /\ log' \in Seq([credential: Credentials, life: Nat, action: Ids])
      /\ n \in DOMAIN log' /\ log'[n] = e
      /\ \A i \in DOMAIN log : i \in DOMAIN log' /\ log'[i] = log[i]
      /\ \A i \in DOMAIN log' : i = n \/ i \in DOMAIN log
  BY <1>1, <1>6 DEF VaultPart, VaultInv
<1> HIDE DEF n
<1>9. VaultInv'
  BY <1>1, <1>7, <1>8 DEF VaultPart, VaultInv
<1>10. SpendingInv'
  <2>1. \A u \in Threads \ {t} : work[u] \in Spending => work[u].credential # k
    BY <1>1 DEF VaultPart, SpendingInv, k
  <2>2. \A c : ~Vault!Performed(c) /\ c # k =>
            ~ \E i \in DOMAIN log' : log'[i].credential = c /\ log'[i].life = life'.executor
    BY <1>1, <1>7, <1>8 DEF Vault!Performed
  <2> SUFFICES ASSUME NEW u \in Threads, work'[u] \in Spending
               PROVE  /\ work'[u].credential \in redeemed'
                      /\ work'[u].credential.consent.action = work'[u].args
                      /\ ~ \E i \in DOMAIN log' :
                            /\ log'[i].credential = work'[u].credential
                            /\ log'[i].life = life'.executor
                      /\ \A v \in Threads \ {u} :
                            work'[v] \in Spending =>
                                work'[v].credential # work'[u].credential
    BY DEF SpendingInv, Vault!Performed
  <2>3. u # t /\ work'[u] = work[u]
    BY <1>5
  <2>4. ~Vault!Performed(work[u].credential) /\ work[u].credential # k
    BY <2>1, <2>3 DEF VaultPart, SpendingInv
  <2>5. \A v \in Threads \ {u} : work'[v] \in Spending => work'[v] = work[v]
    BY <1>5
  <2> QED
    BY <1>1, <2>2, <2>3, <2>4, <2>5 DEF VaultPart, SpendingInv
<1>11. SpentCredentialsRun'
  <2> SUFFICES ASSUME NEW c \in redeemed, c.consent.action \notin Unfit
               PROVE  \/ \E i \in DOMAIN log' :
                            log'[i].credential = c /\ log'[i].life = life'.executor
                      \/ \E u \in Threads : work'[u] \in Spending /\ work'[u].credential = c
    BY <1>1 DEF SpentCredentialsRun, Vault!Performed
  <2>1. CASE c = k
    BY <2>1, <1>1, <1>7, <1>8
  <2>2. CASE c # k /\ Vault!Performed(c)
    BY <2>2, <1>1, <1>8 DEF Vault!Performed
  <2>3. CASE c # k /\ ~Vault!Performed(c)
    BY <2>3, <1>5 DEF VaultPart, SpentCredentialsRun, k
  <2> QED
    BY <2>1, <2>2, <2>3
<1>12. DeletionsConsented'
  <2>1. Gone' \subseteq Gone \cup {id}
    BY <1>5 DEF Gone
  <2>2. \A g \in Gone : \E i \in DOMAIN log' :
            /\ log'[i].action = g /\ log'[i].credential \in redeemed
            /\ log'[i].credential.consent = [action |-> g]
            /\ log'[i].credential.consent \in approved
    BY <1>8 DEF VaultPart, DeletionsConsented
  <2>3. \E i \in DOMAIN log' :
            /\ log'[i].action = id /\ log'[i].credential \in redeemed
            /\ log'[i].credential.consent = [action |-> id]
            /\ log'[i].credential.consent \in approved
    BY <1>1, <1>2, <1>3, <1>7, <1>8
  <2> QED
    BY <2>1, <2>2, <2>3, <1>1 DEF DeletionsConsented
<1> QED
  BY <1>1, <1>4, <1>9, <1>10, <1>11, <1>12 DEF VaultPart

(* The credential that the command cannot run with is lost, and is the one  *)
(* of a call whose arguments do not fit.                                    *)
LEMMA RaisesKeeps ==
    ASSUME StorePart, VaultPart, NEW t \in Threads, ExecuteRaises(t)
    PROVE  StorePart' /\ VaultPart'
<1>1. /\ work[t] \in Spending /\ work[t].args \in Unfit
      /\ work' = [work EXCEPT ![t] = Free]
      /\ outcome' = [op |-> "TypeError", as_declared |-> FALSE]
      /\ UNCHANGED <<tasks, object, lock, versions>>
      /\ UNCHANGED <<approved, issued, redeemed, life, log>>
  BY DEF ExecuteRaises, Returns, vault
<1>2. /\ Free \in Pieces /\ Free \notin Copying /\ Free.op # "update"
      /\ work[t].op # "update" /\ Free \notin Spending
  BY <1>1 DEF Pieces, Free, Copying, Spending
<1>3. outcome' \in Rejections /\ ReturnsWholeTasks'
  BY <1>1 DEF Rejections, ReturnsWholeTasks
<1>4. StorePart'
  BY <1>1, <1>2, <1>3, QuietStep
<1>5. work'[t] = Free /\ \A u \in Threads \ {t} : work'[u] = work[u]
  BY <1>1, StoreTyped
<1>6. work[t].credential \in redeemed /\ work[t].credential.consent.action \in Unfit
  BY <1>1 DEF VaultPart, SpendingInv
<1>7. VaultInv'
  BY <1>1 DEF VaultPart, VaultInv
<1>8. SpendingInv'
  BY <1>1, <1>2, <1>5 DEF VaultPart, SpendingInv, Vault!Performed
<1>9. SpentCredentialsRun'
  BY <1>1, <1>5, <1>6 DEF VaultPart, SpentCredentialsRun, Vault!Performed
<1>10. DeletionsConsented'
  BY <1>1 DEF VaultPart, DeletionsConsented, Gone
<1> QED
  BY <1>1, <1>4, <1>7, <1>8, <1>9, <1>10 DEF VaultPart

-----------------------------------------------------------------------------
LEMMA InitDispatcherIInv ==
    ASSUME DispatcherInit
    PROVE  DispatcherIInv
<1>1. /\ tasks = {} /\ DOMAIN object = {} /\ lock = Nobody
      /\ work = [t \in Threads |-> Free] /\ outcome = NoOutcome
      /\ versions = [id \in Ids |-> << >>]
  BY DEF DispatcherInit, StoreInit
<1>2. /\ approved = {} /\ issued = {} /\ redeemed = {} /\ log = << >>
      /\ life = [issuer |-> 0, executor |-> 0]
  BY DEF DispatcherInit, Vault!Init
<1>3. \A t \in Threads : work[t] = Free /\ Free \notin Copying /\ Free \notin Spending
                        /\ Free.op # "update"
  BY <1>1 DEF Free, Copying, Spending
<1>4. /\ versions \in [Ids -> Seq(Contents)] /\ {id \in Ids : versions[id] # << >>} = {}
      /\ outcome \in Results
  BY <1>1, EmptySeq DEF Results
<1>5. StorePart
  BY <1>1, <1>3, <1>4
  DEF StorePart, StoreTypeOK, LockInv, VersionsInv, CopyInv, ReturnsWholeTasks, NoOutcome
<1>6. VaultPart
  BY <1>1, <1>2, <1>3, <1>4, EmptySeq
  DEF VaultPart, VaultInv, SpendingInv, SpentCredentialsRun, DeletionsConsented, Gone
<1> QED
  BY <1>5, <1>6, Parts

LEMMA RejectKeeps ==
    ASSUME StorePart, NEW t \in Threads, Reject(t)
    PROVE  StorePart'
<1>1. PICK result \in Rejected : outcome' = result
  BY DEF Reject, Returns
<1>2. result \in Rejections
  <2>1. PICK c \in RejectedCalls :
            result = [op |-> Rejection(c), as_declared |-> AsDeclared(c)]
    BY <1>1 DEF Rejected
  <2>2. Rejection(c) \in
            {"unknown", "ValueError", "Unauthorized", "ApprovalRequired", "TypeError"}
    BY DEF Rejection
  <2>3. AsDeclared(c) \in BOOLEAN
    BY DEF AsDeclared, Known
  <2> QED
    BY <2>1, <2>2, <2>3 DEF Rejections
<1>3. ReturnsWholeTasks'
  BY <1>1, <1>2 DEF Rejections, ReturnsWholeTasks
<1> QED
  BY <1>1, <1>2, <1>3, StaysStep DEF Reject

LEMMA NextDispatcherIInv ==
    ASSUME DispatcherIInv, [DispatcherNext]_dispatcherVars
    PROVE  DispatcherIInv'
<1>0. StorePart /\ VaultPart
  BY Parts
<1> SUFFICES StorePart' /\ VaultPart'
  BY DEF DispatcherIInv, DispatcherTypeOK, StorePart, VaultPart
<1>1. ASSUME NEW t \in Threads, NEW id \in Ids,
             NEW title \in Texts \cup {Keep}, NEW description \in Texts \cup {Keep},
             UNCHANGED vault,
             \/ StoreList(t) \/ StoreGet(t, id) \/ StoreMissing(t, id, Free)
             \/ StoreUpdate(t, id, title, description)
             \/ /\ title # Keep /\ description # Keep
                /\ StoreCreate(t, id, title, description)
      PROVE  StorePart' /\ VaultPart'
  <2>1. StorePart'
    BY <1>0, <1>1, ListKeeps, GetKeeps, MissingKeeps, UpdateKeeps, CreateKeeps
  <2> QED
    BY <1>0, <1>1, <2>1, StoreCallsStay, VaultStays
<1>2. ASSUME NEW t \in Threads, StoreList(t), UNCHANGED vault
      PROVE  StorePart' /\ VaultPart'
  BY <1>0, <1>2, ListKeeps, VaultStays DEF StoreList, SameSpending
<1>3. ASSUME NEW t \in Threads, NEW caller \in Callers \cup {InProcess},
             \/ ListTasks(t, caller)
             \/ \E id \in Ids :
                 \/ GetTask(t, caller, id)
                 \/ \E title, description \in Texts :
                        CreateTask(t, caller, id, title, description)
                 \/ \E title, description \in Texts \cup {Keep} :
                        UpdateTask(t, caller, id, title, description)
             \/ \E args \in Arguments, k \in issued : Spend(t, caller, args, k)
      PROVE  StorePart' /\ VaultPart'
  <2>1. CASE ListTasks(t, caller)
    BY <2>1, <1>2 DEF ListTasks
  <2>2. ASSUME NEW id \in Ids, GetTask(t, caller, id)
        PROVE  StorePart' /\ VaultPart'
    BY <2>2, <1>1 DEF GetTask
  <2>3. ASSUME NEW id \in Ids, NEW title \in Texts, NEW description \in Texts,
               CreateTask(t, caller, id, title, description)
        PROVE  StorePart' /\ VaultPart'
    BY <2>3, <1>1, TaskStoreAssumption DEF CreateTask
  <2>4. ASSUME NEW id \in Ids,
               NEW title \in Texts \cup {Keep}, NEW description \in Texts \cup {Keep},
               UpdateTask(t, caller, id, title, description)
        PROVE  StorePart' /\ VaultPart'
    BY <2>4, <1>1 DEF UpdateTask
  <2>5. ASSUME NEW args \in Arguments, NEW k \in issued, Spend(t, caller, args, k)
        PROVE  StorePart' /\ VaultPart'
    BY <2>5, <1>0, SpendKeeps
  <2> QED
    BY <1>3, <2>1, <2>2, <2>3, <2>4, <2>5
<1>4. ASSUME NEW t \in Threads,
             Reject(t) \/ DeleteTask(t) \/ ExecuteRaises(t) \/ Finish(t)
      PROVE  StorePart' /\ VaultPart'
  <2>1. CASE Reject(t)
    <3>1. StorePart'
      BY <2>1, <1>0, RejectKeeps
    <3> QED
      BY <2>1, <3>1, <1>0, VaultStays DEF Reject, SameSpending
  <2>2. CASE DeleteTask(t)
    BY <2>2, <1>0, DeleteTaskKeeps
  <2>3. CASE Finish(t)
    <3>1. StorePart'
      BY <2>3, <1>0, UpdatedKeeps, CopyTitleKeeps, CopyDescriptionKeeps
      DEF Finish, StoreStep
    <3> QED
      BY <2>3, <3>1, <1>0, StoreStepStays, VaultStays DEF Finish
  <2>4. CASE ExecuteRaises(t)
    BY <2>4, <1>0, RaisesKeeps
  <2> QED
    BY <1>4, <2>1, <2>2, <2>3, <2>4
<1>5. ASSUME NEW consent \in Deletions, Grant(consent)
      PROVE  StorePart' /\ VaultPart'
  BY <1>0, <1>5, GrantKeeps
<1>6. CASE UNCHANGED dispatcherVars
  <2>1. StorePart'
    BY <1>0, <1>6, StaysStep
    DEF dispatcherVars, storeVars, StorePart, StoreTypeOK, ReturnsWholeTasks, Version
  <2> QED
    BY <1>0, <1>6, <2>1, VaultStays DEF dispatcherVars, storeVars, SameSpending
<1> QED
  BY <1>3, <1>4, <1>5, <1>6 DEF DispatcherNext

(* However threads interleave inside and outside the lock, the inductive    *)
(* invariant holds; every variable keeps its type.                          *)
THEOREM DispatcherInvariance == DispatcherSpec => []DispatcherIInv
BY InitDispatcherIInv, NextDispatcherIInv, PTL DEF DispatcherSpec

(* What InMemoryTaskStore returns from under its lock is one version of     *)
(* the task, delete's the last one; get and create, which copy after the    *)
(* lock, return a version unless an update of that task came in between.    *)
THEOREM WholeTasks == DispatcherSpec => []ReturnsWholeTasks
<1>1. DispatcherIInv => ReturnsWholeTasks
  BY DEF DispatcherIInv
<1> QED
  BY <1>1, DispatcherInvariance, PTL

(* Dispatcher.execute deletes no task but under a credential of its own,    *)
(* spent before, that a human's approval of that very deletion stands       *)
(* behind.                                                                  *)
THEOREM EveryDeletionConsented == DispatcherSpec => []DeletionsConsented
<1>1. DispatcherIInv => DeletionsConsented
  BY DEF DispatcherIInv
<1> QED
  BY <1>1, DispatcherInvariance, PTL

(* Unknown names, reserved names, scopes and a missing token are looked at  *)
(* before the vault's consume: a credential that is spent has run its       *)
(* command or is about to, unless it was approved for arguments that the    *)
(* command cannot be called with.                                           *)
THEOREM NoCredentialWasted == DispatcherSpec => []SpentCredentialsRun
<1>1. DispatcherIInv => SpentCredentialsRun
  BY DEF DispatcherIInv
<1> QED
  BY <1>1, DispatcherInvariance, PTL
=============================================================================
