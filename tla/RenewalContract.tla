-------------------------- MODULE RenewalContract ---------------------------
(***************************************************************************)
(* What auto-renewal promises the user who has agreed to it.  The saved    *)
(* method is charged only while the renewal is on, for a period that has   *)
(* begun, and never while YooKassa has or may still take money for the     *)
(* same end of that period; a charge that was paid extends the             *)
(* subscription, once; nothing else does but a checkout that is paid and   *)
(* an administrator; and a renewal that was withdrawn comes back only with *)
(* a paid checkout.                                                        *)
(***************************************************************************)
EXTENDS Naturals

CONSTANTS
    Charges,    \* <<period, attempt>>
    Outcomes    \* the answers of YooKassa, "pending" and "succeeded" among them

VARIABLES
    money,      \* the charges at YooKassa, "none" before they get there
    credited,   \* the charges whose period was added
    period,     \* the current period
    mode,       \* "on", "paused" or "withdrawn"
    basket,     \* there is a checkout that can be paid
    acts        \* what people have done

rvars == <<money, credited, period, mode, basket, acts>>

Init ==
    /\ money = [k \in Charges |-> "none"]
    /\ credited = {} /\ period = 0
    /\ mode = "on" /\ basket = FALSE /\ acts = 0

Takes(a) == a \in {"pending", "succeeded"}

Charge(k) ==
    /\ mode = "on" /\ k[1] <= period
    /\ money[k] = "none"
    /\ \A l \in Charges : l[1] = k[1] => ~Takes(money[l])
    /\ \E a \in Outcomes : money' = [money EXCEPT ![k] = a]
    /\ UNCHANGED <<credited, period, mode, basket, acts>>

Settle(k) ==
    /\ money[k] = "pending"
    /\ \E a \in Outcomes \ {"pending"} : money' = [money EXCEPT ![k] = a]
    /\ UNCHANGED <<credited, period, mode, basket, acts>>

Credit(k) ==
    /\ money[k] = "succeeded" /\ k \notin credited
    /\ credited' = credited \cup {k} /\ period' = period + 1
    /\ UNCHANGED <<money, mode, basket, acts>>

\* A checkout is paid, and may turn the renewal on.
Buy ==
    /\ basket /\ ~basket' /\ period' = period + 1
    /\ mode' \in {mode, "on"}
    /\ UNCHANGED <<money, credited, acts>>

Give ==
    /\ acts' = acts + 1 /\ period' = period + 1
    /\ UNCHANGED <<money, credited, mode, basket>>

\* A pause, a refusal, a withdrawal, a resumption, a checkout that is opened or
\* closed.
Change ==
    /\ mode = "withdrawn" => mode' = "withdrawn"
    /\ mode' \in {"on", "paused", "withdrawn"}
    /\ acts' \in {acts, acts + 1}
    /\ UNCHANGED <<money, credited, period>>

Next ==
    \/ \E k \in Charges : Charge(k) \/ Settle(k) \/ Credit(k)
    \/ Buy \/ Give \/ Change

Spec == Init /\ [][Next]_rvars
=============================================================================
