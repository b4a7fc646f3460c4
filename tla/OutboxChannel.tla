--------------------------- MODULE OutboxChannel ----------------------------
(***************************************************************************)
(* What the transactional outbox promises the rest of a service: a row     *)
(* becomes one or more copies of its message at the broker, never before   *)
(* the row's availableAt; a row leaves the outbox without a copy only when *)
(* its contract is invalid.  Copies may come in any order.                 *)
(***************************************************************************)
EXTENDS Naturals

CONSTANTS
    Rows,       \* outbox rows
    Invalid     \* rows that do not satisfy the message contract

VARIABLES
    todo,       \* rows of which another copy may still be sent
    ripe,       \* rows whose availableAt has been reached
    copies      \* copies of each row's message the broker has accepted

cvars == <<todo, ripe, copies>>

Init ==
    /\ todo = Rows
    /\ ripe = {}
    /\ copies = [r \in Rows |-> 0]

Ripen(r) ==
    /\ ripe' = ripe \cup {r}
    /\ UNCHANGED <<todo, copies>>

Deliver(r) ==
    /\ r \in (todo \cap ripe) \ Invalid
    /\ copies' = [copies EXCEPT ![r] = @ + 1]
    /\ todo' \in {todo, todo \ {r}}
    /\ UNCHANGED ripe

Retire(r) ==
    /\ r \in todo
    /\ r \in Invalid \/ copies[r] > 0
    /\ todo' = todo \ {r}
    /\ UNCHANGED <<ripe, copies>>

Next == \E r \in Rows : Ripen(r) \/ Deliver(r) \/ Retire(r)

Spec == Init /\ [][Next]_cvars
=============================================================================
