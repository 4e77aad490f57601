---------------------------- MODULE DeliveryPromise ----------------------------
(***************************************************************************)
(* What a durable queue of projections promises, whoever empties it: a     *)
(* record is settled only when all it holds has reached the index, it is   *)
(* given up only after the allowed number of failures, and it is dropped   *)
(* unsettled only when the scope it belongs to has been withdrawn.         *)
(***************************************************************************)
EXTENDS Naturals

CONSTANTS
    Records,        \* the records ever queued
    Scopes,         \* what a record belongs to
    Allowed         \* failures after which a record may be given up

VARIABLES
    standing,       \* record -> "none", "owed", "settled", "given_up", "dropped"
    scopeOf,        \* record -> its scope
    shown,          \* records all of whose items have reached the index
    failures,       \* record -> failed attempts so far
    withdrawn       \* scopes that were withdrawn

promiseVars == <<standing, scopeOf, shown, failures, withdrawn>>

Promised == {r \in Records : standing[r] # "none"}

PInit ==
    /\ standing = [r \in Records |-> "none"]
    /\ scopeOf \in [Records -> Scopes]
    /\ shown = {}
    /\ failures = [r \in Records |-> 0]
    /\ withdrawn = {}

\* A record is queued for a scope that still exists.
Promise(r, s) ==
    /\ standing[r] = "none" /\ s \notin withdrawn
    /\ standing' = [standing EXCEPT ![r] = "owed"]
    /\ scopeOf' = [scopeOf EXCEPT ![r] = s]
    /\ UNCHANGED <<shown, failures, withdrawn>>

\* The last item of a record reaches the index.
Show(r) ==
    /\ r \in Promised
    /\ shown' = shown \cup {r}
    /\ UNCHANGED <<standing, scopeOf, failures, withdrawn>>

\* A record is settled: never before the index has all of it.
Settle(r) ==
    /\ standing[r] \in {"owed", "settled", "given_up"} /\ r \in shown
    /\ standing' = [standing EXCEPT ![r] = "settled"]
    /\ UNCHANGED <<scopeOf, shown, failures, withdrawn>>

\* An attempt fails; the record stays owed, or is given up.
Fail(r) ==
    /\ standing[r] \in {"owed", "settled", "given_up"}
    /\ failures' = [failures EXCEPT ![r] = @ + 1]
    /\ \/ standing' = [standing EXCEPT ![r] = "owed"]
       \/ /\ failures'[r] >= Allowed
          /\ standing' = [standing EXCEPT ![r] = "given_up"]
    /\ UNCHANGED <<scopeOf, shown, withdrawn>>

\* An operator asks again for everything that was given up.
Renew ==
    /\ standing' = [r \in Records |->
                       IF standing[r] = "given_up" THEN "owed" ELSE standing[r]]
    /\ UNCHANGED <<scopeOf, shown, failures, withdrawn>>

\* Scopes are withdrawn, with any of the records of withdrawn scopes.
Withdraw(S, R) ==
    /\ withdrawn' = withdrawn \cup S
    /\ \A r \in R : r \in Promised /\ scopeOf[r] \in withdrawn'
    /\ standing' = [r \in Records |-> IF r \in R THEN "dropped" ELSE standing[r]]
    /\ UNCHANGED <<scopeOf, shown, failures>>

\* Settled records are forgotten in the end.
Forget(R) ==
    /\ \A r \in R : standing[r] = "settled"
    /\ standing' = [r \in Records |-> IF r \in R THEN "dropped" ELSE standing[r]]
    /\ UNCHANGED <<scopeOf, shown, failures, withdrawn>>

PNext ==
    \/ \E r \in Records, s \in Scopes : Promise(r, s)
    \/ \E r \in Records : Show(r) \/ Settle(r) \/ Fail(r)
    \/ Renew
    \/ \E S \in SUBSET Scopes, R \in SUBSET Records : Withdraw(S, R)
    \/ \E R \in SUBSET Records : Forget(R)

PSpec == PInit /\ [][PNext]_promiseVars
=============================================================================
