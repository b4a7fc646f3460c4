-------------------------- MODULE PaymentContract ---------------------------
(***************************************************************************)
(* What a one-time payment promises the user and the bookkeeper, whatever  *)
(* is lost between billing and YooKassa: money is asked for once and only  *)
(* while the payment is open; what YooKassa was paid, and nothing else, is *)
(* granted, once and for good; a payment is closed as never sent only if   *)
(* YooKassa holds nothing for it, and as cancelled only if YooKassa says   *)
(* so.  YooKassa may refuse a request after it has taken the same one, and *)
(* the deactivation of the user closes payments without asking.            *)
(***************************************************************************)
EXTENDS Naturals

CONSTANT Payments

VARIABLES
    state,      \* "NONE", "PENDING", "SUCCEEDED", "unsent", "refused", "cancelled"
    money,      \* at YooKassa: "none", "pending", "succeeded" or "canceled"
    grants,     \* periods granted for the payment
    revoked     \* the user's access was revoked at some time

pvars == <<state, money, grants, revoked>>

Init ==
    /\ state = [p \in Payments |-> "NONE"]
    /\ money = [p \in Payments |-> "none"]
    /\ grants = [p \in Payments |-> 0]
    /\ revoked = FALSE

Become(p, s) == state' = [state EXCEPT ![p] = s]

Open(p) ==
    /\ state[p] = "NONE" /\ Become(p, "PENDING")
    /\ UNCHANGED <<money, grants, revoked>>

\* The request reaches YooKassa.
Ask(p) ==
    /\ state[p] = "PENDING" /\ money[p] = "none"
    /\ money' = [money EXCEPT ![p] = "pending"]
    /\ UNCHANGED <<state, grants, revoked>>

\* The user pays, or the payment lapses at YooKassa.
Settle(p) ==
    /\ money[p] = "pending"
    /\ \E s \in {"succeeded", "canceled"} : money' = [money EXCEPT ![p] = s]
    /\ UNCHANGED <<state, grants, revoked>>

Grant(p) ==
    /\ money[p] = "succeeded" /\ state[p] # "SUCCEEDED" /\ Become(p, "SUCCEEDED")
    /\ grants' = [grants EXCEPT ![p] = @ + 1]
    /\ UNCHANGED <<money, revoked>>

\* A payment that never reached YooKassa is cancelled or expires.
Abandon(p) ==
    /\ state[p] = "PENDING" /\ (money[p] = "none" \/ revoked)
    /\ Become(p, "unsent")
    /\ UNCHANGED <<money, grants, revoked>>

Refuse(p) ==
    /\ state[p] = "PENDING" /\ Become(p, "refused")
    /\ UNCHANGED <<money, grants, revoked>>

Cancel(p) ==
    /\ state[p] = "PENDING" /\ money[p] = "canceled"
    /\ Become(p, "cancelled")
    /\ UNCHANGED <<money, grants, revoked>>

\* Billing learns of a payment at YooKassa that it had closed.
Learn(p) ==
    /\ state[p] \in {"refused", "unsent"} /\ money[p] # "none"
    /\ Become(p, "cancelled")
    /\ UNCHANGED <<money, grants, revoked>>

\* The user's access is revoked and open payments are closed.
Revoke ==
    /\ revoked' = TRUE
    /\ \E closed \in SUBSET {p \in Payments : state[p] = "PENDING"} :
         state' = [p \in Payments |-> IF p \in closed THEN "unsent" ELSE state[p]]
    /\ UNCHANGED <<money, grants>>

Next ==
    \/ \E p \in Payments : \/ Open(p) \/ Ask(p) \/ Settle(p) \/ Grant(p)
                           \/ Abandon(p) \/ Refuse(p) \/ Cancel(p) \/ Learn(p)
    \/ Revoke

Spec == Init /\ [][Next]_pvars
=============================================================================
