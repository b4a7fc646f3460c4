---------------------------- MODULE BillingInbox ----------------------------
(***************************************************************************)
(* The consumers of apps/billing (billing-worker.service.ts): a message is *)
(* claimed in integration_delivery_receipts under a lease of 60 seconds    *)
(* that is not renewed, delivered, recorded and acknowledged; a failure    *)
(* writes a retry row or a dead-letter row to the outbox and a failure     *)
(* that an operator may retry or close (billing-messaging-admin).          *)
(*                                                                         *)
(* One event of one consumer: receipts, failures and claims are per event  *)
(* and consumer.  A claim token is the handler that drew it, since a       *)
(* handler serves one message at a time.  Messages and outbox rows differ  *)
(* only in their x-retry-attempt.  A message of the retry exchange comes   *)
(* out of its queue when the delay that was written to the receipt is over *)
(* (one clock).                                                            *)
(***************************************************************************)
EXTENDS Integers, FiniteSets

CONSTANTS
    Handlers,       \* concurrent handlers (prefetch, replicas)
    MaxRetry,       \* length of BILLING_RETRY_DELAYS_MS
    MaxManual,      \* bound: retries by the operator
    Faults,         \* kinds of faults that happen
    MaxFaults       \* bound: faults

Nobody == "nobody"
FaultKinds == {"duplicate", "channel", "overrun", "crash", "database"}

ASSUME InboxAssumption ==
    /\ Nobody \notin Handlers /\ Faults \subseteq FaultKinds
    /\ MaxRetry \in Nat /\ MaxManual \in Nat /\ MaxFaults \in Nat

VARIABLES
    valid,      \* the message passes preflightMessage
    ready,      \* messages in the queue, by attempt
    rows,       \* retry rows of the outbox, by attempt
    receipt,    \* status, claimToken, retryAvailableAt is not yet reached
    lapsed,     \* the lease of the receipt is over
    failure,    \* status of the failure row, retryingAt is set
    h,          \* local state of the handlers
    manual,     \* used budget of operator retries
    faults,     \* used budget of faults
    torn,       \* receipt and failure were left apart (history): a handler failed
                \* after it had lost its claim, or ended between the two writes
    done,       \* successful runs of deliver (history)
    doubts      \* runs whose success the receipt may not show, or not for good (history)

history == <<torn, done, doubts>>
vars == <<valid, ready, rows, receipt, lapsed, failure, h, manual, faults, history>>

Attempts == 0..MaxRetry
Final == {"DELIVERED", "DEAD_LETTERED", "CLOSED_NO_RETRY"}
ReceiptStatuses == Final \cup {"NONE", "PROCESSING", "RETRY_SCHEDULED"}
NoReceipt == [status |-> "NONE", claim |-> Nobody, wait |-> FALSE]
NoFailure == [status |-> "NONE", retrying |-> FALSE]
Idle == [pc |-> "idle", n |-> 0, lost |-> FALSE]

Init ==
    /\ valid \in BOOLEAN
    /\ ready = [n \in Attempts |-> IF n = 0 THEN 1 ELSE 0]
    /\ rows = [n \in Attempts |-> 0]
    /\ receipt = NoReceipt
    /\ lapsed = FALSE
    /\ failure = NoFailure
    /\ h = [c \in Handlers |-> Idle]
    /\ manual = 0
    /\ faults = 0
    /\ torn = FALSE /\ done = 0 /\ doubts = 0

At(c, step) == h[c].pc = step
Go(c, step) == h' = [h EXCEPT ![c].pc = step]
\* c has written the delivery to the receipt and not yet to the failure row.
Halfway(c) == /\ receipt.status = "DELIVERED" /\ receipt.claim = c
              /\ h[c].pc \in {"resolve", "fail"}
\* c has written the delivery to the receipt and may still take it back: its
\* claim stays there and it has not left the try block for good.
Revocable(c) == /\ receipt.status = "DELIVERED" /\ receipt.claim = c
                /\ h[c].pc \in {"resolve", "confirm", "fail"}
Working == {"deliver", "record", "resolve", "confirm", "fail"}
Doubt(condition) == doubts' = doubts + (IF condition THEN 1 ELSE 0)
Fault(kind) == kind \in Faults /\ faults < MaxFaults /\ faults' = faults + 1
Plus(f, n) == [f EXCEPT ![n] = @ + 1]
Minus(f, n) == [f EXCEPT ![n] = @ - 1]

-----------------------------------------------------------------------------
\* The queue

Take(c) ==
    /\ At(c, "idle")
    /\ \E n \in Attempts :
        /\ ready[n] > 0
        /\ ready' = Minus(ready, n)
        /\ h' = [h EXCEPT ![c] = [Idle EXCEPT !.pc = "claim", !.n = n]]
    /\ UNCHANGED <<valid, history, rows, receipt, lapsed, failure, manual, faults>>

\* The acknowledgement of a delivery ("confirm") or of anything else ("ack") ends
\* the handler.  On a channel that is gone it has no effect if the client does
\* not know yet; at "ack", outside the try block, it may also throw, and so does
\* the nack of consume: the handler ends as well, and the rejection that nobody
\* handles may take the process down (Crash of its other handlers).
Ack(c) ==
    /\ h[c].pc \in {"confirm", "ack"}
    /\ h' = [h EXCEPT ![c] = Idle]
    /\ UNCHANGED <<valid, history, ready, rows, receipt, lapsed, failure, manual, faults>>

\* The acknowledgement of a delivery is in the try block of deliver: on a closed
\* channel it throws, and counts as a failure of what was delivered and recorded.
AckThrows(c) ==
    /\ At(c, "confirm") /\ h[c].lost
    /\ Go(c, "fail")
    /\ Doubt(TRUE)
    /\ UNCHANGED <<valid, torn, done, ready, rows, receipt, lapsed, failure, manual,
                   faults>>

\* The broker takes back the unacknowledged message of c.
Requeue(c) == ready' = IF h[c].lost THEN ready ELSE Plus(ready, h[c].n)

\* The handler ends without an acknowledgement.
Abort(c) ==
    /\ Requeue(c)
    /\ h' = [h EXCEPT ![c] = Idle]
    /\ torn' = (torn \/ (Halfway(c) /\ failure.status \notin {"NONE", "RESOLVED"}))
    /\ UNCHANGED <<valid, rows, receipt, lapsed, failure, manual, done>>

\* claimReceipt, finalFailure or retryOrDeadLetter threw: nack with requeue.
Nack(c) ==
    /\ h[c].pc \in {"claim", "fail"}
    /\ Fault("database")
    /\ Abort(c)
    /\ UNCHANGED doubts

Crash(c) ==
    /\ ~At(c, "idle")
    /\ Fault("crash")
    /\ Doubt(At(c, "record"))
    /\ Abort(c)

\* The channel closes under a handler that goes on.
ChannelLost(c) ==
    /\ ~At(c, "idle") /\ ~h[c].lost
    /\ Fault("channel")
    /\ Requeue(c)
    /\ h' = [h EXCEPT ![c].lost = TRUE]
    /\ UNCHANGED <<valid, history, rows, receipt, lapsed, failure, manual>>

\* The outbox publisher: a row is marked after the broker has confirmed it, or
\* it is published again.
PublishRow(n) ==
    /\ rows[n] > 0
    /\ ready' = Plus(ready, n)
    /\ receipt' = [receipt EXCEPT !.wait = FALSE]
    /\ \/ rows' = Minus(rows, n) /\ UNCHANGED faults
       \/ Fault("duplicate") /\ UNCHANGED rows
    /\ UNCHANGED <<valid, history, lapsed, failure, h, manual>>

LeaseLapses ==
    /\ receipt.status = "PROCESSING" /\ ~lapsed
    /\ IF \E c \in Handlers : receipt.claim = c /\ h[c].pc \in Working
       THEN Fault("overrun") ELSE faults' = faults
    /\ lapsed' = TRUE
    /\ Doubt(\E c \in Handlers : receipt.claim = c /\ h[c].pc \in {"deliver", "record"})
    /\ UNCHANGED <<valid, torn, done, ready, rows, receipt, failure, h, manual>>

-----------------------------------------------------------------------------
\* The handler

\* Mutant: an invalid message is acknowledged and not reported.
FinalFailureUnreported(c) ==
    /\ At(c, "claim") /\ ~valid
    /\ Go(c, "ack")
    /\ UNCHANGED <<valid, history, ready, rows, receipt, lapsed, failure, manual, faults>>

\* finalFailure: the row of a known failure keeps its status.
FinalFailure(c) ==
    /\ At(c, "claim") /\ ~valid
    /\ failure' = [failure EXCEPT !.retrying = FALSE,
                                  !.status = IF @ = "NONE" THEN "OPEN" ELSE @]
    /\ Go(c, "ack")
    /\ UNCHANGED <<valid, history, ready, rows, receipt, lapsed, manual, faults>>

\* Mutant: a receipt that waits for its retry is refused even when it is due.
RefusedWaiting == \/ receipt.status \in Final \cup {"RETRY_SCHEDULED"}
                  \/ receipt.status = "PROCESSING" /\ ~lapsed

\* What claimReceipt answers null for: a finished receipt, a running lease, a
\* retry that is not due.
Refused == \/ receipt.status \in Final
           \/ receipt.status = "PROCESSING" /\ ~lapsed
           \/ receipt.status = "RETRY_SCHEDULED" /\ receipt.wait

ClaimReceipt(c) ==
    /\ At(c, "claim") /\ valid
    /\ IF Refused
       THEN Go(c, "ack") /\ UNCHANGED <<receipt, lapsed>>
       ELSE /\ receipt' = [status |-> "PROCESSING", claim |-> c, wait |-> FALSE]
            /\ lapsed' = FALSE
            /\ Go(c, "deliver")
    /\ UNCHANGED <<valid, history, ready, rows, failure, manual, faults>>

Deliver(c) ==
    /\ At(c, "deliver")
    /\ \/ Go(c, "record") /\ done' = done + 1
       \/ Go(c, "fail") /\ UNCHANGED done
    /\ UNCHANGED <<valid, torn, doubts, ready, rows, receipt, lapsed, failure, manual,
                   faults>>

\* Mutant: the delivery is recorded whoever holds the claim.
RecordUnclaimed(c) ==
    /\ At(c, "record")
    /\ receipt' = [receipt EXCEPT !.status = "DELIVERED"]
    /\ Go(c, "resolve")
    /\ UNCHANGED <<valid, history, ready, rows, lapsed, failure, manual, faults>>

\* The receipt is updated if the claim is still in it.
Record(c) ==
    /\ At(c, "record")
    /\ receipt' = IF receipt.claim = c THEN [receipt EXCEPT !.status = "DELIVERED"]
                  ELSE receipt
    /\ Go(c, "resolve")
    /\ UNCHANGED <<valid, history, ready, rows, lapsed, failure, manual, faults>>

\* Mutant: the resolution is written in the place of the status.
ResolveByResolution(c) ==
    /\ At(c, "resolve")
    /\ failure' = IF failure.status = "NONE" THEN failure
                  ELSE [status |-> "DELIVERED", retrying |-> FALSE]
    /\ Go(c, "confirm")
    /\ UNCHANGED <<valid, history, ready, rows, receipt, lapsed, manual, faults>>

\* The failure is updated in any case.
ResolveFailure(c) ==
    /\ At(c, "resolve")
    /\ failure' = IF failure.status = "NONE" THEN failure
                  ELSE [status |-> "RESOLVED", retrying |-> FALSE]
    /\ Go(c, "confirm")
    /\ UNCHANGED <<valid, history, ready, rows, receipt, lapsed, manual, faults>>

\* Both updates are in the try block of deliver, so their errors count as
\* failures of the delivery.
RecordingFails(c) ==
    /\ h[c].pc \in {"record", "resolve"}
    /\ Fault("database")
    /\ Go(c, "fail")
    /\ Doubt(TRUE)
    /\ UNCHANGED <<valid, torn, done, ready, rows, receipt, lapsed, failure, manual>>

\* Mutant: one retry more than there are retry queues.
RetryBeyondLast(c) ==
    /\ At(c, "fail")
    /\ receipt' = IF receipt.claim # c THEN receipt
                  ELSE [status |-> IF h[c].n <= MaxRetry THEN "RETRY_SCHEDULED"
                                   ELSE "DEAD_LETTERED",
                        claim |-> Nobody, wait |-> TRUE]
    /\ rows' = [n \in Attempts |-> IF n = h[c].n + 1 THEN rows[n] + 1 ELSE rows[n]]
    /\ failure' = [status |-> "RETRY_PENDING", retrying |-> TRUE]
    /\ Go(c, "ack")
    /\ torn' = (torn \/ receipt.claim # c)
    /\ UNCHANGED <<valid, done, doubts, ready, lapsed, manual, faults>>

\* Mutant: the failure of an event that is given up keeps its retry marker.
RetryOrDeadLetterMarked(c) ==
    LET n == h[c].n + 1
        retry == h[c].n + 1 <= MaxRetry
    IN /\ At(c, "fail")
       /\ receipt' = IF receipt.claim # c THEN receipt
                     ELSE [status |-> IF retry THEN "RETRY_SCHEDULED"
                                      ELSE "DEAD_LETTERED",
                           claim |-> Nobody, wait |-> retry]
       /\ rows' = IF retry THEN Plus(rows, n) ELSE rows
       /\ failure' = [failure EXCEPT !.status = IF retry THEN "RETRY_PENDING" ELSE "OPEN",
                                     !.retrying = @ \/ retry]
       /\ Go(c, "ack")
       /\ torn' = (torn \/ receipt.claim # c)
       /\ UNCHANGED <<valid, done, doubts, ready, lapsed, manual, faults>>

\* One transaction.  Only the update of the receipt is guarded by the claim.
RetryOrDeadLetter(c) ==
    LET n == h[c].n + 1
        retry == h[c].n + 1 <= MaxRetry
    IN /\ At(c, "fail")
       /\ receipt' = IF receipt.claim # c THEN receipt
                     ELSE [status |-> IF retry THEN "RETRY_SCHEDULED"
                                      ELSE "DEAD_LETTERED",
                           claim |-> Nobody, wait |-> retry]
       /\ rows' = IF retry THEN Plus(rows, n) ELSE rows
       /\ failure' = [status |-> IF retry THEN "RETRY_PENDING" ELSE "OPEN",
                      retrying |-> retry]
       /\ Go(c, "ack")
       /\ torn' = (torn \/ receipt.claim # c)
       /\ UNCHANGED <<valid, done, doubts, ready, lapsed, manual, faults>>

-----------------------------------------------------------------------------
\* The operator

\* A failure that is neither resolved nor being retried, of an event that is
\* not on its way: what retry and close accept.
CanAct ==
    /\ failure.status \notin {"NONE", "RESOLVED"} /\ ~failure.retrying
    /\ receipt.status \in {"NONE", "DEAD_LETTERED"}

Retry ==
    /\ CanAct /\ manual < MaxManual
    /\ manual' = manual + 1
    /\ rows' = Plus(rows, 0)
    /\ receipt' = [status |-> "RETRY_SCHEDULED", claim |-> Nobody, wait |-> FALSE]
    /\ failure' = [status |-> "RETRY_PENDING", retrying |-> TRUE]
    /\ UNCHANGED <<valid, history, ready, lapsed, h, faults>>

Close ==
    /\ CanAct
    /\ receipt' = [status |-> "CLOSED_NO_RETRY", claim |-> Nobody, wait |-> FALSE]
    /\ failure' = [failure EXCEPT !.status = "RESOLVED"]
    /\ UNCHANGED <<valid, history, ready, rows, lapsed, h, manual, faults>>

-----------------------------------------------------------------------------
HandlerStep(c) ==
    \/ Take(c) \/ Ack(c) \/ AckThrows(c) \/ FinalFailure(c) \/ ClaimReceipt(c)
    \/ Deliver(c) \/ Record(c) \/ ResolveFailure(c) \/ RetryOrDeadLetter(c)

Next ==
    \/ \E c \in Handlers : 
        HandlerStep(c) \/ RecordingFails(c) \/ Nack(c) \/ Crash(c) \/ ChannelLost(c)
    \/ \E n \in Attempts : PublishRow(n)
    \/ LeaseLapses
    \/ Retry
    \/ Close

Spec == Init /\ [][Next]_vars

\* Handlers go on, the broker delivers what is in the queue, the publisher
\* polls; the operator owes nothing.
LiveSpec ==
    /\ Spec
    /\ \A c \in Handlers : WF_vars(HandlerStep(c))
    /\ \A n \in Attempts : WF_vars(PublishRow(n))

-----------------------------------------------------------------------------
HandlerStates == [pc: {"idle", "claim", "ack"} \cup Working,
                  n: Attempts, lost: BOOLEAN]

TypeOK ==
    /\ ready \in [Attempts -> Nat] /\ rows \in [Attempts -> Nat]
    /\ receipt \in [status: ReceiptStatuses, claim: Handlers \cup {Nobody},
                    wait: BOOLEAN]
    /\ lapsed \in BOOLEAN
    /\ failure \in [status: {"NONE", "OPEN", "RETRY_PENDING", "RESOLVED"},
                    retrying: BOOLEAN]
    /\ h \in [Handlers -> HandlerStates]
    /\ manual \in 0..MaxManual /\ faults \in 0..MaxFaults
    /\ valid \in BOOLEAN /\ torn \in BOOLEAN /\ done \in Nat /\ doubts \in Nat

\* A message, a row or a handler will still deal with the event.
OnItsWay ==
    \/ \E n \in Attempts : ready[n] > 0 \/ rows[n] > 0
    \/ \E c \in Handlers : h[c].pc \notin {"idle", "ack"}

\* The receipt names a handler that has died or thrown.
Orphaned ==
    /\ receipt.status = "PROCESSING"
    /\ h[receipt.claim].pc \notin Working

\* What becomes of an event that nothing carries any more: it was delivered,
\* dead-lettered or closed, or reported as invalid.
Settled == receipt.status \in Final \/ (~valid /\ failure.status # "NONE")

\* An event is never acknowledged away: until it is settled something still
\* carries it ("acknowledge after success" of the consumers).
NoLostEvent == OnItsWay \/ Settled

\* Duplicates, lost channels, overrun leases and retries lose no event: the one
\* way to lose it is a receipt whose handler died or threw while the message
\* comes back before the lease is over (claimReceipt answers null).
LostOnlyIfOrphaned == NoLostEvent \/ Orphaned

\* A failure whose event is no longer on its way can be retried or closed by
\* the operator; it is never left as "being retried" or behind a receipt that
\* claims a delivery (the conflicts of retry and close).  The exceptions are an
\* invalid message, an orphaned receipt, a handler that failed too late and one
\* that ended between the two writes of a delivery.
OperatorCanAct ==
    /\ valid /\ ~torn /\ ~Orphaned /\ ~OnItsWay
    /\ failure.status \notin {"NONE", "RESOLVED"}
    => CanAct

\* The event as the contract of a consumer sees it: a delivery counts when its
\* handler can no longer take it back.
Phase == CASE /\ receipt.status = "DELIVERED"
              /\ \A c \in Handlers : ~Revocable(c) -> "delivered"
           [] receipt.status = "DEAD_LETTERED" -> "dead"
           [] receipt.status = "CLOSED_NO_RETRY" -> "closed"
           [] OTHER -> "open"

Contract == INSTANCE ConsumerContract WITH phase <- Phase

\* The consumers keep the contract of an idempotent consumer, with handlers that
\* overrun their lease, die, throw between the writes of a delivery, lose their
\* channel before they acknowledge it or work on copies of the message: deliver
\* succeeds again only where the receipt could not show that it had, or the
\* acknowledgement threw (claimReceipt, handle, retryOrDeadLetter); a delivery is
\* final once its handler has acknowledged it or ended, and not before; only the
\* operator leaves the dead letters.
ImplementsContract == Contract!Spec

\* Every event is settled again and again, whatever the operator retries and
\* however messages are repeated, unless its receipt is orphaned.
EventSettles == []<>(Settled \/ Orphaned)
=============================================================================
