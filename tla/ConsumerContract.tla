-------------------------- MODULE ConsumerContract --------------------------
(***************************************************************************)
(* What a consumer with a receipt per event promises (docs/backlog.md: a   *)
(* consumer is idempotent by the pair eventId + consumer): an event is     *)
(* carried out once, and once more only for each time its result was in    *)
(* doubt; it counts as delivered only if it was carried out, and for good; *)
(* what was given up nobody but an operator takes up again or closes.      *)
(***************************************************************************)
EXTENDS Naturals

VARIABLES
    phase,      \* "open", "delivered", "dead" or "closed"
    done,       \* times the event was carried out
    doubts      \* times the result was unknown, or could not be recorded or acknowledged

cvars == <<phase, done, doubts>>

Init ==
    /\ phase = "open"
    /\ done = 0
    /\ doubts = 0

\* The event is carried out; the answer may be lost at once.
Work ==
    /\ done <= doubts
    /\ done' = done + 1
    /\ doubts' \in {doubts, doubts + 1}
    /\ UNCHANGED phase

Doubt ==
    /\ doubts' = doubts + 1
    /\ UNCHANGED <<phase, done>>

Move(from, to) ==
    /\ phase = from /\ phase' = to
    /\ UNCHANGED <<done, doubts>>

Deliver == done > 0 /\ Move("open", "delivered")
GiveUp  == Move("open", "dead")
Drop    == Move("open", "closed")
Retry   == Move("dead", "open")
Close   == Move("dead", "closed")

Next == Work \/ Doubt \/ Deliver \/ GiveUp \/ Drop \/ Retry \/ Close

Spec == Init /\ [][Next]_cvars
=============================================================================
