---------------------------- MODULE KeyedCharge ----------------------------
(***************************************************************************)
(* What the payment service promises about an Idempotency-Key: the first   *)
(* request that uses it makes the only payment under it, the payment is    *)
(* decided once, and a captured one may be refunded, once and for all.     *)
(***************************************************************************)
CONSTANTS Keys, Charges

VARIABLES
    by,      \* the request that made the payment of a key
    outcome  \* what became of it

vars == <<by, outcome>>

Init ==
    /\ by = [k \in Keys |-> "none"]
    /\ outcome = [k \in Keys |-> "none"]

Attempt(k, r) ==
    /\ outcome[k] = "none"
    /\ by' = [by EXCEPT ![k] = r]
    /\ outcome' = [outcome EXCEPT ![k] = "pending"]

Decide(k) ==
    /\ outcome[k] = "pending"
    /\ \E o \in {"captured", "failed"} : outcome' = [outcome EXCEPT ![k] = o]
    /\ UNCHANGED by

Return(k) ==
    /\ outcome[k] = "captured"
    /\ outcome' = [outcome EXCEPT ![k] = "refunded"]
    /\ UNCHANGED by

Next ==
    \E k \in Keys :
        \/ \E r \in Charges : Attempt(k, r)
        \/ Decide(k)
        \/ Return(k)

Spec == Init /\ [][Next]_vars
=============================================================================
