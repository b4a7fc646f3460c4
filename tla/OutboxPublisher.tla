-------------------------- MODULE OutboxPublisher ---------------------------
(***************************************************************************)
(* The outbox publishers of apps/notification-delivery                     *)
(* (notification-delivery-outbox-publisher.service.ts): processes that     *)
(* poll the outbox table, claim batches of rows under a lease, renew the   *)
(* claim of each row, publish it with a broker confirm and mark it.        *)
(*                                                                         *)
(* One claimed batch has one lock token here: the code draws a UUID per    *)
(* row, but every update names the row as well.  The lease of a row is     *)
(* either running or "lapsed"; renewing it starts it anew.                 *)
(***************************************************************************)
EXTENDS Integers, FiniteSets

CONSTANTS
    Rows,           \* rows, numbered in the order of createdAt
    Invalid,        \* rows whose contract is not valid
    Publishers,     \* publisher processes
    BatchSize,      \* OUTBOX_BATCH_SIZE
    MaxFaults       \* bound: broker and database errors, crashes, overruns

ASSUME RowsAssumption == Rows \subseteq Nat \ {0} /\ Invalid \subseteq Rows
ASSUME BatchAssumption == BatchSize \in Nat \ {0} /\ MaxFaults \in Nat

VARIABLES
    status,      \* of each row: PENDING, PUBLISHING, PUBLISHED, FAILED, DELETED
    lock,        \* its lockToken, 0 for null
    lapsed,      \* rows whose leaseExpiresAt is over
    due,         \* rows whose availableAt is over
    proc,        \* local state of the publishers
    next,        \* the next lock token
    faults,      \* used budget of faults
    ripe,        \* rows that have been due (history)
    copies,      \* messages the broker accepted for each row (history)
    ambiguous    \* publications whose result was not recorded (history)

table   == <<status, lock, lapsed, due>>
history == <<copies, ambiguous>>
vars    == <<table, proc, next, faults, ripe, history>>

NoToken == 0
NoRow   == 0
Idle    == [pc |-> "loop", batch |-> {}, row |-> NoRow, tok |-> NoToken]
Ended   == {"PUBLISHED", "FAILED", "DELETED"}

Init ==
    /\ status = [r \in Rows |-> "PENDING"]
    /\ lock = [r \in Rows |-> NoToken]
    /\ lapsed = {}
    /\ due = {}
    /\ proc = [p \in Publishers |-> Idle]
    /\ next = 1
    /\ faults = 0
    /\ ripe = {}
    /\ copies = [r \in Rows |-> 0]
    /\ ambiguous = 0

At(p, step) == proc[p].pc = step
\* The condition of every claim-guarded update of row r by p.
Owns(p, r) == status[r] = "PUBLISHING" /\ lock[r] = proc[p].tok
\* p still works on row r, or has it in its batch.
Holds(p, r) == /\ r \in proc[p].batch \cup {proc[p].row}
               /\ lock[r] = proc[p].tok
Fault == faults < MaxFaults /\ faults' = faults + 1

\* Row r leaves PUBLISHING for status s.
Unlock(r, s) ==
    /\ status' = [status EXCEPT ![r] = s]
    /\ lock' = [lock EXCEPT ![r] = NoToken]
    /\ lapsed' = lapsed \ {r}

\* The loop of poll goes on with the next row of the batch.
NextRow(p) == proc' = [proc EXCEPT ![p].pc = "loop", ![p].row = NoRow]

-----------------------------------------------------------------------------
\* findMany ... orderBy createdAt take batchSize
Oldest(S) == {r \in S : Cardinality({q \in S : q < r}) < BatchSize}

\* Mutant: expired claims are not freed.
ClaimPendingOnly(p) ==
    LET pending == {r \in due : status[r] = "PENDING"}
    IN /\ At(p, "loop") /\ proc[p].batch = {}
       /\ \E batch \in SUBSET Oldest(pending) :
            /\ batch # {}
            /\ status' = [r \in Rows |-> IF r \in batch THEN "PUBLISHING"
                                         ELSE status[r]]
            /\ lock' = [r \in Rows |-> IF r \in batch THEN next ELSE lock[r]]
            /\ proc' = [proc EXCEPT ![p] =
                          [Idle EXCEPT !.batch = batch, !.tok = next]]
       /\ next' = next + 1
       /\ UNCHANGED <<lapsed, due, faults, ripe, history>>

\* Expired claims go back to PENDING; then candidates are claimed one by one,
\* except those a concurrent transaction has claimed first.
ClaimBatch(p) ==
    LET expired == {r \in lapsed : status[r] = "PUBLISHING"}
        pending == {r \in due : status[r] = "PENDING" \/ r \in expired}
    IN /\ At(p, "loop") /\ proc[p].batch = {}
       /\ \E batch \in SUBSET Oldest(pending) :
            /\ batch # {}
            /\ status' = [r \in Rows |-> IF r \in batch THEN "PUBLISHING"
                                         ELSE IF r \in expired THEN "PENDING"
                                         ELSE status[r]]
            /\ lock' = [r \in Rows |-> IF r \in batch THEN next
                                       ELSE IF r \in expired THEN NoToken
                                       ELSE lock[r]]
            /\ lapsed' = lapsed \ (expired \cup batch)
            /\ proc' = [proc EXCEPT ![p] =
                          [Idle EXCEPT !.batch = batch, !.tok = next]]
       /\ next' = next + 1
       /\ UNCHANGED <<due, faults, ripe, history>>

\* Mutant: the claim of a row is not renewed before it is published.
PublishUnrenewed(p) ==
    /\ At(p, "loop")
    /\ \E r \in proc[p].batch :
        /\ \A q \in proc[p].batch : r <= q
        /\ proc' = [proc EXCEPT ![p].pc = "publish", ![p].row = r,
                              ![p].batch = @ \ {r}]
    /\ UNCHANGED <<table, next, faults, ripe, history>>

RenewClaim(p) ==
    /\ At(p, "loop")
    /\ \E r \in proc[p].batch :
        /\ \A q \in proc[p].batch : r <= q
        /\ IF Owns(p, r)
           THEN /\ lapsed' = lapsed \ {r}
                /\ proc' = [proc EXCEPT ![p].pc = "publish", ![p].row = r,
                                      ![p].batch = @ \ {r}]
           ELSE /\ proc' = [proc EXCEPT ![p].batch = @ \ {r}]
                /\ UNCHANGED lapsed
    /\ UNCHANGED <<status, lock, due, next, faults, ripe, history>>

\* Mutant: a quarantined row keeps its lock token.
QuarantineKeepsLock(p) ==
    LET r == proc[p].row IN
    /\ At(p, "publish") /\ r \in Invalid
    /\ IF Owns(p, r) THEN status' = [status EXCEPT ![r] = "FAILED"]
                     ELSE UNCHANGED status
    /\ NextRow(p)
    /\ UNCHANGED <<lock, lapsed, due, next, faults, ripe, history>>

\* A row that fails getValidationError is never published.
Quarantine(p) ==
    LET r == proc[p].row IN
    /\ At(p, "publish") /\ r \in Invalid
    /\ IF Owns(p, r) THEN Unlock(r, "FAILED")
                     ELSE UNCHANGED <<status, lock, lapsed>>
    /\ NextRow(p)
    /\ UNCHANGED <<due, next, faults, ripe, history>>

\* The broker confirms the message and did not return it.
PublishConfirmed(p) ==
    LET r == proc[p].row IN
    /\ At(p, "publish") /\ r \notin Invalid
    /\ copies' = [copies EXCEPT ![r] = @ + 1]
    /\ proc' = [proc EXCEPT ![p].pc = "mark"]
    /\ UNCHANGED <<table, next, faults, ripe, ambiguous>>

\* No channel, a negative confirm, or a returned message.
PublishFails(p) ==
    /\ At(p, "publish") /\ proc[p].row \notin Invalid
    /\ Fault
    /\ proc' = [proc EXCEPT ![p].pc = "reschedule"]
    /\ UNCHANGED <<table, next, ripe, history>>

\* The broker has the message but the confirm does not arrive.
ConfirmLost(p) ==
    LET r == proc[p].row IN
    /\ At(p, "publish") /\ r \notin Invalid
    /\ Fault
    /\ copies' = [copies EXCEPT ![r] = @ + 1]
    /\ ambiguous' = ambiguous + 1
    /\ proc' = [proc EXCEPT ![p].pc = "reschedule"]
    /\ UNCHANGED <<table, next, ripe>>

MarkPublished(p) ==
    LET r == proc[p].row IN
    /\ At(p, "mark")
    /\ IF Owns(p, r) THEN Unlock(r, "PUBLISHED")
                     ELSE UNCHANGED <<status, lock, lapsed>>
    /\ NextRow(p)
    /\ UNCHANGED <<due, next, faults, ripe, history>>

\* A database error while marking is handled like a failed publication.
MarkFails(p) ==
    /\ At(p, "mark")
    /\ Fault
    /\ ambiguous' = ambiguous + 1
    /\ proc' = [proc EXCEPT ![p].pc = "reschedule"]
    /\ UNCHANGED <<table, next, ripe, copies>>

\* Mutant: after a failed publication the row is given up.
GiveUp(p) ==
    LET r == proc[p].row IN
    /\ At(p, "reschedule")
    /\ IF Owns(p, r) THEN Unlock(r, "FAILED")
                     ELSE UNCHANGED <<status, lock, lapsed>>
    /\ NextRow(p)
    /\ UNCHANGED <<due, next, faults, ripe, history>>

\* Back to PENDING, available again after the backoff delay.
Reschedule(p) ==
    LET r == proc[p].row IN
    /\ At(p, "reschedule")
    /\ IF Owns(p, r)
       THEN Unlock(r, "PENDING") /\ due' = due \ {r}
       ELSE UNCHANGED table
    /\ NextRow(p)
    /\ UNCHANGED <<next, faults, ripe, history>>

\* Shutdown: the rest of the batch is released row by row, up to the row
\* where a database error ends the loop, if one does.
ReleaseClaims(p) ==
    /\ At(p, "loop")
    /\ Fault
    /\ \E last \in proc[p].batch :
         LET own == {r \in proc[p].batch : r <= last /\ Owns(p, r)} IN
         /\ status' = [r \in Rows |-> IF r \in own THEN "PENDING" ELSE status[r]]
         /\ lock' = [r \in Rows |-> IF r \in own THEN NoToken ELSE lock[r]]
         /\ lapsed' = lapsed \ own
    /\ proc' = [proc EXCEPT ![p] = Idle]
    /\ UNCHANGED <<due, next, ripe, history>>

\* The process dies, or a database error ends the poll: the rest of the
\* batch stays locked until its lease is over.
PollAborted(p) ==
    /\ proc[p] # Idle
    /\ Fault
    /\ ambiguous' = ambiguous + (IF At(p, "mark") THEN 1 ELSE 0)
    /\ proc' = [proc EXCEPT ![p] = Idle]
    /\ UNCHANGED <<table, next, ripe, copies>>

-----------------------------------------------------------------------------
\* A lease with nobody at work on the row runs out.
LeaseLapses(r) ==
    /\ status[r] = "PUBLISHING" /\ r \notin lapsed
    /\ \A p \in Publishers : ~Holds(p, r)
    /\ lapsed' = lapsed \cup {r}
    /\ UNCHANGED <<status, lock, due, proc, next, faults, ripe, history>>

\* The publisher takes longer than the lease.
LeaseOverrun(p, r) ==
    /\ status[r] = "PUBLISHING" /\ r \notin lapsed
    /\ Holds(p, r)
    /\ Fault
    /\ lapsed' = lapsed \cup {r}
    /\ ambiguous' = ambiguous +
         (IF proc[p].row = r /\ proc[p].pc \in {"publish", "mark"}
          THEN 1 ELSE 0)
    /\ UNCHANGED <<status, lock, due, proc, next, ripe, copies>>

\* availableAt is reached: the first one, or the end of a backoff delay.
BecomesDue(r) ==
    /\ r \notin due
    /\ due' = due \cup {r}
    /\ ripe' = ripe \cup {r}
    /\ UNCHANGED <<status, lock, lapsed, proc, next, faults, history>>

\* Retention deletes published rows.
DeletePublished(r) ==
    /\ status[r] = "PUBLISHED"
    /\ status' = [status EXCEPT ![r] = "DELETED"]
    /\ UNCHANGED <<lock, lapsed, due, proc, next, faults, ripe, history>>

-----------------------------------------------------------------------------
PublisherStep(p) ==
    \/ ClaimBatch(p) \/ RenewClaim(p) \/ Quarantine(p)
    \/ PublishConfirmed(p) \/ MarkPublished(p) \/ Reschedule(p)

PublisherFault(p) ==
    \/ PublishFails(p) \/ ConfirmLost(p) \/ MarkFails(p)
    \/ ReleaseClaims(p) \/ PollAborted(p)
    \/ \E r \in Rows : LeaseOverrun(p, r)

Clock == \E r \in Rows : LeaseLapses(r) \/ BecomesDue(r)

Next ==
    \/ \E p \in Publishers : PublisherStep(p) \/ PublisherFault(p)
    \/ Clock
    \/ \E r \in Rows : DeletePublished(r)

Spec == Init /\ [][Next]_vars

\* Publishers poll on a timer and clocks advance.
Fairness ==
    /\ \A p \in Publishers : WF_vars(PublisherStep(p))
    /\ WF_vars(Clock)

FairSpec == Spec /\ Fairness

-----------------------------------------------------------------------------
Procs == [pc : {"loop", "publish", "mark", "reschedule"}, batch : SUBSET Rows,
          row : Nat, tok : Nat]

(***************************************************************************)
(* Types, and the claim columns go together: exactly the rows in           *)
(* PUBLISHING have a lock token, and only they have a lease to run out.    *)
(* Every update of publish, quarantine and releaseClaims resets them.      *)
(***************************************************************************)
TypeOK ==
    /\ status \in [Rows -> {"PENDING", "PUBLISHING"} \cup Ended]
    /\ lock \in [Rows -> Nat]
    /\ lapsed \subseteq Rows /\ due \subseteq Rows /\ ripe \subseteq Rows
    /\ proc \in [Publishers -> Procs]
    /\ next \in Nat /\ faults \in Nat /\ ambiguous \in Nat
    /\ copies \in [Rows -> Nat]
    /\ \A r \in Rows : lock[r] # NoToken <=> status[r] = "PUBLISHING"
    /\ \A r \in lapsed : status[r] = "PUBLISHING"

(***************************************************************************)
(* The broker gets at most one more copy of each message than there were   *)
(* publications whose result was not recorded: a lost confirm, a database  *)
(* error or crash before the mark, a lease that ran out during the         *)
(* publication.  A lease that ran out while the row waited in its batch    *)
(* costs no copy, because renewClaim notices.                              *)
(***************************************************************************)
CopiesAccounted == \A r \in Rows : copies[r] <= 1 + ambiguous

\* Rows a publisher may still send: unfinished ones, and those an overrun
\* publisher is about to send once more.
Todo == {r \in Rows : \/ status[r] \notin Ended
                      \/ \E p \in Publishers :
                            At(p, "publish") /\ proc[p].row = r}

Channel == INSTANCE OutboxChannel WITH todo <- Todo

(***************************************************************************)
(* The publishers implement the promise of the outbox: every row that      *)
(* leaves it was accepted by the broker or has an invalid contract, and no *)
(* message is sent before its availableAt.                                 *)
(***************************************************************************)
ImplementsChannel == Channel!Spec

(***************************************************************************)
(* Every row is eventually published or quarantined.                       *)
(***************************************************************************)
EveryRowEnds == \A r \in Rows : <>[](status[r] \in Ended)
=============================================================================
