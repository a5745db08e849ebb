------------------------------ MODULE Delegation ------------------------------
(***************************************************************************)
(* What the bridge promises about a human approval, without saying how:    *)
(* "one signature = one credential = one execution", and the execution is  *)
(* the one that was approved, as far as the code can tell actions apart.   *)
(*                                                                         *)
(* A consent is the canonical form of what a human signed.  The issuer     *)
(* exchanges it for one credential in each of its lives, the executor      *)
(* redeems a credential once in each of its own, and a redeemed credential *)
(* runs its action once.  Issuer and executor keep their records in memory *)
(* only: a restart begins a new life, and what it forgets decides how far  *)
(* the promise reaches.  `log` is the sequence of command executions.      *)
(***************************************************************************)
EXTENDS Integers, Sequences

CONSTANTS
    Consents,        \* records with an `action` field
    ValueOf,         \* action -> what a comparison of actions sees of it
    SelfContained    \* a credential proves by itself that it was issued;
                     \* otherwise only the issuer's memory does

VARIABLES
    approved,    \* consents a human has signed
    issued,      \* credentials: [consent, life of the issuer]
    redeemed,    \* credentials accepted in this life of the executor
    life,        \* [issuer, executor]: how often each has restarted
    log          \* executions, oldest first: [credential, life, action]

vars == <<approved, issued, redeemed, life, log>>

Init ==
    /\ approved = {}
    /\ issued = {}
    /\ redeemed = {}
    /\ life = [issuer |-> 0, executor |-> 0]
    /\ log = << >>

Approve(c) ==
    /\ approved' = approved \cup {c}
    /\ UNCHANGED <<issued, redeemed, life, log>>

CredentialFor(c) == [consent |-> c, life |-> life.issuer]

Exchange(c) ==
    /\ c \in approved
    /\ CredentialFor(c) \notin issued
    /\ issued' = issued \cup {CredentialFor(c)}
    /\ UNCHANGED <<approved, redeemed, life, log>>

Honoured(k) == SelfContained \/ k.life = life.issuer

Redeem(k) ==
    /\ k \in issued \ redeemed
    /\ Honoured(k)
    /\ redeemed' = redeemed \cup {k}
    /\ UNCHANGED <<approved, issued, life, log>>

Performed(k) ==
    \E i \in DOMAIN log : log[i].credential = k /\ log[i].life = life.executor

Perform(k, action) ==
    /\ k \in redeemed
    /\ ~Performed(k)
    /\ ValueOf[action] = ValueOf[k.consent.action]
    /\ log' = Append(log, [credential |-> k, life |-> life.executor,
                           action |-> action])
    /\ UNCHANGED <<approved, issued, redeemed, life>>

Restart(who) ==
    /\ life' = [issuer   |-> life.issuer + (IF "issuer" \in who THEN 1 ELSE 0),
                executor |-> life.executor + (IF "executor" \in who THEN 1 ELSE 0)]
    /\ redeemed' = IF "executor" \in who THEN {} ELSE redeemed
    /\ UNCHANGED <<approved, issued, log>>

Next ==
    \/ \E c \in Consents : Approve(c) \/ Exchange(c)
    \/ \E k \in issued :
        Redeem(k) \/ \E action \in DOMAIN ValueOf : Perform(k, action)
    \/ \E who \in SUBSET {"issuer", "executor"} : Restart(who)

Spec == Init /\ [][Next]_vars
=============================================================================
