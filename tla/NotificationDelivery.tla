------------------------ MODULE NotificationDelivery ------------------------
(***************************************************************************)
(* Delivery of one notification by apps/notification-delivery: the         *)
(* consumer (notification-delivery-worker), its claim on the receipt row   *)
(* (-receipt), retries and dead letters (-failure), outcome events         *)
(* (-outcome), the operator's controls (control/) and retention.           *)
(*                                                                         *)
(* Every statement of these services selects its rows by the pair          *)
(* (eventId, consumer), so different notifications never interact and one  *)
(* pair is modelled: its receipt row, its failure row, its outbox rows and *)
(* its messages.  Each PostgreSQL statement or transaction is one step;    *)
(* the statements of claimDelivery run outside a transaction and are       *)
(* separate steps, with the values read in between kept by the worker.     *)
(*                                                                         *)
(* Time.  A UUID written to the database together with a deadline stands   *)
(* for that deadline: a lock token for the end of its lease, a retry token *)
(* for its retryAvailableAt.  "passed" holds the tokens whose deadline is  *)
(* over, "stale" the retry tokens whose deadline is over by more than      *)
(* MANUAL_RETRY_STALE_MS.  Neither deadline is ever moved for an existing  *)
(* token.  All processes read the same clock.                              *)
(*                                                                         *)
(* Messages.  The queue holds message contents (retry attempt, delivery    *)
(* token); a copy may be delivered again because the publisher crashed     *)
(* before it marked the row, or because the channel was lost.              *)
(***************************************************************************)
EXTENDS Integers, FiniteSets

CONSTANTS
    Workers,        \* concurrent message handlers (prefetch x processes)
    Kinds,          \* classes of notification kinds considered
    MaxRetries,     \* retries of a recognised transient error (3 in the code)
    MaxFaults,      \* bound: crashes, database errors, overruns, ...
    MaxDefers,      \* bound: quiet-time deferrals of a reminder
    MaxManual       \* bound: retries ordered by an operator

(***************************************************************************)
(* Kinds with the same treatment form a class:                             *)
(*   plain       lead, payment and limit notifications                     *)
(*   tracked     daily summary, subscription expiry                        *)
(*   campaign    campaign e-mail                                           *)
(*   support     support e-mail and Telegram                               *)
(*   sla         WinCRM intake SLA                                         *)
(*   reminder    WinCRM task reminder                                      *)
(*   invitation  WinCRM invitation                                         *)
(***************************************************************************)
AllKinds == {"plain", "tracked", "campaign", "support", "sla", "reminder",
             "invitation"}

ASSUME KindsAssumption == Kinds \subseteq AllKinds
ASSUME BoundsAssumption ==
    /\ MaxRetries \in Nat \ {0}
    /\ MaxFaults \in Nat
    /\ MaxDefers \in Nat
    /\ MaxManual \in Nat

\* Kinds whose claim is read again between the context call and the send.
Fenced == {"support", "sla", "reminder"}
\* Kinds that ask the owning service whether the notification still stands.
Contextual == Fenced \cup {"invitation"}
\* Kinds whose result is reported to the requesting service.
Tracked == {"tracked", "campaign", "support"}
\* Kinds an operator may send again from the failure list.
ManuallyRetryable == AllKinds \ {"campaign"}

VARIABLES
    kind,        \* the class of this notification
    wellFormed,  \* its message satisfies the contract
    receipt,     \* notification_delivery_receipts row
    failure,     \* notification_delivery_failures row
    outbox,      \* unpublished outbox rows
    keys,        \* deduplication keys of the claim and malformed rows
    outcomes,    \* outcome events ever written to the outbox
    queue,       \* messages of the consumer's queue
    dlq,         \* messages of its dead-letter queue
    worker,      \* local state of the handlers
    passed,      \* tokens whose deadline is over
    stale,       \* retry tokens overdue by MANUAL_RETRY_STALE_MS
    next,        \* the next UUID
    faults, defers, manual,   \* used budgets
    sends,       \* messages the provider accepted (history)
    ambiguous    \* sends whose result the service could not know (history)

db      == <<receipt, failure, outbox, keys, outcomes, next>>
budgets == <<defers, manual>>
time    == <<passed, stale>>
history == <<sends, ambiguous>>
request == <<kind, wellFormed>>
vars    == <<request, db, queue, dlq, worker, time, faults, budgets, history>>

-----------------------------------------------------------------------------
NoToken == 0
Message == [token : Nat, attempt : Nat]
Row     == [type : {"request", "retry", "recovery", "dead"},
            gate : Nat, msg : Message]
Statuses == {"ABSENT", "PROCESSING", "RETRY_SCHEDULED", "DELIVERED",
             "DEAD_LETTERED", "CLOSED_NO_RETRY"}
Errors  == {"recognized", "unclassified", "permanent"}

ClaimSteps  == {"create", "read", "activate", "reclaim", "recover"}
HolderSteps == {"context", "check", "send", "sent", "skip", "defer",
                "failed", "release"}

NoMessage == [token |-> NoToken, attempt |-> 0]
Idle      == [pc |-> "idle", msg |-> NoMessage, tok |-> NoToken,
              late |-> NoToken, err |-> "none"]

Receipt(s)  == [status |-> s, lock |-> NoToken, retry |-> NoToken, attempt |-> 0]
Processing(t) ==
    [status |-> "PROCESSING", lock |-> t, retry |-> NoToken, attempt |-> 0]
RetryScheduled(r, a) ==
    [status |-> "RETRY_SCHEDULED", lock |-> NoToken, retry |-> r, attempt |-> a]
\* A failure row; active = NoToken stands for retryingAt = activeRetryToken = null.
Failure(s, r) == [status |-> s, active |-> r]

Settled == {"DELIVERED", "DEAD_LETTERED", "CLOSED_NO_RETRY"}
Final   == {"DELIVERED", "CLOSED_NO_RETRY"}
Resolved == failure.status \in Final

\* The request, written to the outbox of the service that wants it delivered.
RequestRow == [type |-> "request", gate |-> NoToken, msg |-> NoMessage]
RetryRow(r, a) ==
    [type |-> "retry", gate |-> r, msg |-> [token |-> r, attempt |-> a]]
RecoveryRow(t, m) == [type |-> "recovery", gate |-> t, msg |-> m]
DeadLetterRow(t) ==
    [type |-> "dead", gate |-> NoToken, msg |-> [token |-> t, attempt |-> 0]]

Init ==
    /\ kind \in Kinds
    /\ wellFormed \in BOOLEAN
    /\ receipt = Receipt("ABSENT")
    /\ failure = Failure("ABSENT", NoToken)
    /\ outbox = {RequestRow}
    /\ keys = {}
    /\ outcomes = {}
    /\ queue = {}
    /\ dlq = {}
    /\ worker = [w \in Workers |-> Idle]
    /\ passed = {} /\ stale = {}
    /\ next = 1
    /\ faults = 0 /\ defers = 0 /\ manual = 0
    /\ sends = 0 /\ ambiguous = 0

At(w, step)  == worker[w].pc = step
\* The condition of every claim-guarded update: status PROCESSING and the
\* worker's own lockToken (lockedBy follows from the token).
Owns(w) == receipt.status = "PROCESSING" /\ receipt.lock = worker[w].tok
Holds(w, t) == worker[w].pc \in HolderSteps /\ worker[w].tok = t

\* The handler goes on to a step, with the error it then deals with.
Move(w, step, e) ==
    worker' = [worker EXCEPT ![w] = [@ EXCEPT !.pc = step, !.err = e]]
Goto(w, step) == Move(w, step, "none")
Fail(w, e)    == Move(w, "failed", e)
\* ackMessage: the handler is done with the message.
Ack(w) == worker' = [worker EXCEPT ![w] = Idle] /\ UNCHANGED queue
\* nack(message, requeue = true).
Nack(w) == /\ worker' = [worker EXCEPT ![w] = Idle]
           /\ queue' = queue \cup {worker[w].msg}
Fault == faults < MaxFaults /\ faults' = faults + 1
Report(status) == IF kind \in Tracked THEN outcomes \cup {status} ELSE outcomes

-----------------------------------------------------------------------------
(* Outbox and broker. *)

Available(row) == row.gate = NoToken \/ row.gate \in passed

Deliver(row) ==
    IF row.type = "dead"
    THEN dlq' = dlq \cup {row.msg} /\ UNCHANGED queue
    ELSE queue' = queue \cup {row.msg} /\ UNCHANGED dlq

\* The broker confirms the message and the row becomes PUBLISHED.
Publish(row) ==
    /\ row \in outbox /\ Available(row)
    /\ Deliver(row)
    /\ outbox' = outbox \ {row}
    /\ UNCHANGED <<request, receipt, failure, keys, outcomes, next, worker,
                   time, faults, budgets, history>>

\* The broker has the message but the row is not marked: it is sent again.
PublishUnmarked(row) ==
    /\ row \in outbox /\ Available(row)
    /\ Fault
    /\ Deliver(row)
    /\ UNCHANGED <<request, db, worker, time, budgets, history>>

\* The channel is lost while the handler runs: the broker requeues.
ChannelLost(w) ==
    /\ worker[w].pc # "idle" /\ worker[w].msg \notin queue
    /\ Fault
    /\ queue' = queue \cup {worker[w].msg}
    /\ UNCHANGED <<request, db, dlq, worker, time, budgets, history>>

-----------------------------------------------------------------------------
(* claimDelivery *)

\* handle: a well-formed message is taken and claimDelivery reads the clock;
\* "late" records whether the lease in the receipt is over at that moment.
Take(w, m) ==
    /\ wellFormed
    /\ At(w, "idle") /\ m \in queue
    /\ queue' = queue \ {m}
    /\ worker' = [worker EXCEPT ![w] =
                    [Idle EXCEPT !.pc = "create", !.msg = m,
                        !.late = IF receipt.lock \in passed
                                 THEN receipt.lock ELSE NoToken]]
    /\ UNCHANGED <<request, db, dlq, time, faults, budgets, history>>

\* What deliver does first once the claim is held.
FirstStep == IF kind \in Contextual THEN "context" ELSE "send"

\* Take the claim under a fresh lock token.
Claim(w) ==
    /\ receipt' = Processing(next)
    /\ next' = next + 1
    /\ worker' = [worker EXCEPT ![w] =
                    [@ EXCEPT !.pc = FirstStep, !.tok = next, !.late = NoToken]]

ClaimCreate(w) ==
    /\ At(w, "create")
    /\ IF receipt.status = "ABSENT"
       THEN Claim(w)
       ELSE Goto(w, "read") /\ UNCHANGED <<receipt, next>>
    /\ UNCHANGED <<request, failure, outbox, keys, outcomes, queue, dlq, time,
                   faults, budgets, history>>

\* A scheduled retry is due and the message carries its token and attempt.
RetryMatches(w) ==
    /\ receipt.attempt = worker[w].msg.attempt
    /\ worker[w].msg.token # NoToken
    /\ receipt.retry = worker[w].msg.token
    /\ receipt.retry \in passed

\* The row found instead of the one to create decides how to go on.
ClaimRead(w) ==
    /\ At(w, "read")
    /\ \/ receipt.status = "ABSENT" /\ Nack(w)
       \/ receipt.status \in Settled /\ Ack(w)
       \/ /\ receipt.status = "RETRY_SCHEDULED"
          /\ IF RetryMatches(w)
             THEN Goto(w, "activate") /\ UNCHANGED queue
             ELSE Ack(w)
       \/ /\ receipt.status = "PROCESSING"
          /\ worker' = [worker EXCEPT ![w] = [@ EXCEPT
                !.pc = IF worker[w].late = receipt.lock
                        THEN "reclaim" ELSE "recover",
                !.tok = receipt.lock,
                !.late = NoToken]]
          /\ UNCHANGED queue
    /\ UNCHANGED <<request, db, dlq, time, faults, budgets, history>>

ClaimActivate(w) ==
    /\ At(w, "activate")
    /\ IF /\ receipt.status = "RETRY_SCHEDULED"
          /\ receipt.retry = worker[w].msg.token
          /\ receipt.attempt = worker[w].msg.attempt
       THEN Claim(w) /\ UNCHANGED queue
       ELSE Ack(w) /\ UNCHANGED <<receipt, next>>
    /\ UNCHANGED <<request, failure, outbox, keys, outcomes, dlq, time,
                   faults, budgets, history>>

\* tok is the expired token that was read.
ClaimReclaim(w) ==
    /\ At(w, "reclaim")
    /\ IF Owns(w)
       THEN Claim(w) /\ UNCHANGED queue
       ELSE Ack(w) /\ UNCHANGED <<receipt, next>>
    /\ UNCHANGED <<request, failure, outbox, keys, outcomes, dlq, time,
                   faults, budgets, history>>

\* Mutant: a message that meets an active claim is simply acknowledged.
AckActiveClaim(w) ==
    /\ At(w, "recover")
    /\ Ack(w)
    /\ UNCHANGED <<request, db, dlq, time, faults, budgets, history>>

\* tok is the live token that was read; one recovery row per token.
ScheduleClaimRecovery(w) ==
    /\ At(w, "recover")
    /\ LET t == worker[w].tok IN
        IF t \in keys
        THEN UNCHANGED <<keys, outbox>>
        ELSE /\ keys' = keys \cup {t}
             /\ outbox' = outbox \cup {RecoveryRow(t, worker[w].msg)}
    /\ Ack(w)
    /\ UNCHANGED <<request, receipt, failure, outcomes, next, dlq, time,
                   faults, budgets, history>>

-----------------------------------------------------------------------------
(* NotificationDeliveryAdapterService.deliver *)

\* The owning service answers: no longer wanted, later, or send.
ResolveContext(w) ==
    /\ At(w, "context")
    /\ \/ Goto(w, "skip")
       \/ kind = "reminder" /\ defers < MaxDefers /\ Goto(w, "defer")
       \/ kind \in Fenced /\ Goto(w, "check")
       \/ kind = "invitation" /\ Goto(w, "send")
    /\ UNCHANGED <<request, db, queue, dlq, time, faults, budgets, history>>

\* Mutant: the claim is not read again after the context call.
SendUnchecked(w) ==
    /\ At(w, "check")
    /\ Goto(w, "send")
    /\ UNCHANGED <<request, db, queue, dlq, time, faults, budgets, history>>

CheckClaim(w) ==
    /\ At(w, "check")
    /\ IF Owns(w) /\ worker[w].tok \notin passed
       THEN Goto(w, "send")
       ELSE Fail(w, "unclassified")
    /\ UNCHANGED <<request, db, queue, dlq, time, faults, budgets, history>>

\* A support notification wants 15 seconds of lease left.
CheckMargin(w) ==
    /\ At(w, "check") /\ kind = "support"
    /\ Fail(w, "unclassified")
    /\ UNCHANGED <<request, db, queue, dlq, time, faults, budgets, history>>

Send(w) ==
    /\ At(w, "send")
    /\ Goto(w, "sent")
    /\ sends' = sends + 1
    /\ UNCHANGED <<request, db, queue, dlq, time, faults, budgets, ambiguous>>

\* The context call or the provider reports an error.
AdapterFails(w, e) ==
    /\ worker[w].pc \in {"context", "send"}
    /\ Fail(w, e)
    /\ UNCHANGED <<request, db, queue, dlq, time, faults, budgets, history>>

\* The provider accepts the message and the answer is lost.
SendAnswerLost(w) ==
    /\ At(w, "send")
    /\ Fault
    /\ Fail(w, "recognized")
    /\ sends' = sends + 1 /\ ambiguous' = ambiguous + 1
    /\ UNCHANGED <<request, db, queue, dlq, time, budgets>>

-----------------------------------------------------------------------------
(* Finalization of a result *)

ResolveFailure(status) ==
    failure' = IF failure.status = "OPEN" THEN Failure(status, NoToken)
                                          ELSE failure

MarkDelivered(w) ==
    /\ At(w, "sent") /\ Owns(w)
    /\ receipt' = Receipt("DELIVERED")
    /\ ResolveFailure("DELIVERED")
    /\ outcomes' = Report("DELIVERED")
    /\ Ack(w)
    /\ UNCHANGED <<request, outbox, keys, next, dlq, time, faults, budgets,
                   history>>

\* Mutant: skipping closes the receipt only.
MarkSkippedReceiptOnly(w) ==
    /\ At(w, "skip") /\ Owns(w)
    /\ receipt' = Receipt("CLOSED_NO_RETRY")
    /\ outcomes' = Report("SKIPPED")
    /\ Ack(w)
    /\ UNCHANGED <<request, failure, outbox, keys, next, dlq, time, faults,
                   budgets, history>>

MarkSkipped(w) ==
    /\ At(w, "skip") /\ Owns(w)
    /\ receipt' = Receipt("CLOSED_NO_RETRY")
    /\ ResolveFailure("CLOSED_NO_RETRY")
    /\ outcomes' = Report("SKIPPED")
    /\ Ack(w)
    /\ UNCHANGED <<request, outbox, keys, next, dlq, time, faults, budgets,
                   history>>

\* Mutant: the headers of the deferred message keep the old delivery token.
DeferWithOldToken(w) ==
    /\ At(w, "defer") /\ Owns(w)
    /\ receipt' = RetryScheduled(next, worker[w].msg.attempt)
    /\ outbox' = outbox \cup {[type |-> "retry", gate |-> next,
                               msg |-> worker[w].msg]}
    /\ next' = next + 1
    /\ defers' = defers + 1
    /\ Ack(w)
    /\ UNCHANGED <<request, failure, keys, outcomes, dlq, time, faults, manual,
                   history>>

\* Quiet time: the attempt count is kept and the failure row is left alone.
DeferReminderDelivery(w) ==
    /\ At(w, "defer") /\ Owns(w)
    /\ receipt' = RetryScheduled(next, worker[w].msg.attempt)
    /\ outbox' = outbox \cup {RetryRow(next, worker[w].msg.attempt)}
    /\ next' = next + 1
    /\ defers' = defers + 1
    /\ Ack(w)
    /\ UNCHANGED <<request, failure, keys, outcomes, dlq, time, faults, manual,
                   history>>

\* The claim-guarded update found no row, so the transaction throws.
FinalizationLost(w) ==
    /\ worker[w].pc \in {"sent", "skip", "defer"} /\ ~Owns(w)
    /\ Nack(w)
    /\ UNCHANGED <<request, db, dlq, time, faults, budgets, history>>

\* The transaction fails: nothing is written and the message is requeued.
FinalizationFails(w) ==
    /\ worker[w].pc \in {"sent", "skip", "defer"} /\ Owns(w)
    /\ Fault
    /\ Nack(w)
    /\ ambiguous' = ambiguous + (IF At(w, "sent") THEN 1 ELSE 0)
    /\ UNCHANGED <<request, db, dlq, time, budgets, sends>>

-----------------------------------------------------------------------------
(* handleDeliveryFailure *)

MaxRetryPublications(e) == IF e = "recognized" THEN MaxRetries ELSE 1

\* Mutant: the claim columns of the receipt are not reset.
ScheduleRetryKeepsLock(w) ==
    LET a == worker[w].msg.attempt + 1 IN
    /\ receipt' = [RetryScheduled(next, a) EXCEPT !.lock = worker[w].tok]
    /\ failure' = Failure("OPEN", next)
    /\ outbox' = outbox \cup {RetryRow(next, a)}
    /\ next' = next + 1
    /\ UNCHANGED outcomes

ScheduleRetry(w) ==
    LET a == worker[w].msg.attempt + 1 IN
    /\ receipt' = RetryScheduled(next, a)
    /\ failure' = Failure("OPEN", next)
    /\ outbox' = outbox \cup {RetryRow(next, a)}
    /\ next' = next + 1
    /\ UNCHANGED outcomes

\* Mutant: the requesting service is not told.
MoveToDeadLetterSilently(w) ==
    /\ receipt' = Receipt("DEAD_LETTERED")
    /\ failure' = Failure("OPEN", NoToken)
    /\ outbox' = outbox \cup {DeadLetterRow(worker[w].tok)}
    /\ UNCHANGED <<next, outcomes>>

MoveToDeadLetter(w) ==
    /\ receipt' = Receipt("DEAD_LETTERED")
    /\ failure' = Failure("OPEN", NoToken)
    /\ outbox' = outbox \cup {DeadLetterRow(worker[w].tok)}
    /\ outcomes' = Report("FAILED")
    /\ UNCHANGED next

\* windowOpen: the retry would still fall into AUTOMATIC_RETRY_WINDOW_MS.
FinalizeDeliveryFailure(w) ==
    /\ At(w, "failed") /\ Owns(w)
    /\ \E windowOpen \in BOOLEAN :
        IF /\ worker[w].err # "permanent"
           /\ worker[w].msg.attempt + 1 <= MaxRetryPublications(worker[w].err)
           /\ windowOpen
        THEN ScheduleRetry(w)
        ELSE MoveToDeadLetter(w)
    /\ Ack(w)
    /\ UNCHANGED <<request, keys, dlq, time, faults, budgets, history>>

FailureFinalizationLost(w) ==
    /\ At(w, "failed") /\ ~Owns(w)
    /\ Goto(w, "release")
    /\ UNCHANGED <<request, db, queue, dlq, time, faults, budgets, history>>

FailureFinalizationFails(w) ==
    /\ At(w, "failed") /\ Owns(w)
    /\ Fault
    /\ Goto(w, "release")
    /\ UNCHANGED <<request, db, queue, dlq, time, budgets, history>>

\* The claim is deleted and the message requeued.
ReleaseClaim(w) ==
    /\ At(w, "release")
    /\ receipt' = IF Owns(w) THEN Receipt("ABSENT") ELSE receipt
    /\ Nack(w)
    /\ UNCHANGED <<request, failure, outbox, keys, outcomes, next, dlq, time,
                   faults, budgets, history>>

\* The error of releaseClaim is logged and swallowed.
ReleaseClaimFails(w) ==
    /\ At(w, "release")
    /\ Fault
    /\ Nack(w)
    /\ UNCHANGED <<request, db, dlq, time, budgets, history>>

-----------------------------------------------------------------------------
(* Malformed messages and the dead-letter queue *)

PersistMalformed(m) ==
    /\ ~wellFormed /\ m \in queue
    /\ queue' = queue \ {m}
    /\ IF receipt.status \in {"ABSENT", "DEAD_LETTERED"}
       THEN /\ receipt' = Receipt("DEAD_LETTERED")
            /\ IF Resolved
               THEN UNCHANGED <<failure, outbox, keys>>
               ELSE /\ failure' = Failure("OPEN", NoToken)
                    /\ keys' = keys \cup {NoToken}
                    /\ outbox' = IF NoToken \in keys THEN outbox
                                 ELSE outbox \cup {DeadLetterRow(NoToken)}
       ELSE UNCHANGED <<receipt, failure, outbox, keys>>
    /\ UNCHANGED <<request, outcomes, next, dlq, worker, time, faults,
                   budgets, history>>

\* Mutant: a dead letter is believed whatever the receipt says.
CollectWithoutReceipt(m) ==
    /\ m \in dlq
    /\ dlq' = dlq \ {m}
    /\ receipt' = Receipt("DEAD_LETTERED")
    /\ IF Resolved \/ failure.active # NoToken
       THEN UNCHANGED <<failure, outcomes>>
       ELSE /\ failure' = Failure("OPEN", NoToken)
            /\ outcomes' = IF wellFormed THEN Report("FAILED") ELSE outcomes
    /\ UNCHANGED <<request, outbox, keys, next, queue, worker, time, faults,
                   budgets, history>>

CollectDeadLetter(m) ==
    /\ m \in dlq
    /\ dlq' = dlq \ {m}
    /\ IF receipt.status \in {"ABSENT", "DEAD_LETTERED"}
       THEN /\ receipt' = Receipt("DEAD_LETTERED")
            /\ IF Resolved \/ failure.active # NoToken
               THEN UNCHANGED <<failure, outcomes>>
               ELSE /\ failure' = Failure("OPEN", NoToken)
                    /\ outcomes' = IF wellFormed THEN Report("FAILED")
                                                 ELSE outcomes
       ELSE UNCHANGED <<receipt, failure, outcomes>>
    /\ UNCHANGED <<request, outbox, keys, next, queue, worker, time, faults,
                   budgets, history>>

-----------------------------------------------------------------------------
(* The operator's controls *)

\* Mutant: an operator's retry is recorded and never published.
RetryFailureUnpublished ==
    /\ manual < MaxManual
    /\ failure.status = "OPEN" /\ kind \in ManuallyRetryable /\ wellFormed
    /\ receipt.status = "DEAD_LETTERED"
    /\ receipt' = RetryScheduled(next, 0)
    /\ failure' = Failure("OPEN", next)
    /\ passed' = passed \cup {next}
    /\ next' = next + 1
    /\ manual' = manual + 1
    /\ UNCHANGED <<request, outbox, keys, outcomes, queue, dlq, worker, stale,
                   faults, defers, history>>

RetryFailure ==
    /\ manual < MaxManual
    /\ failure.status = "OPEN" /\ kind \in ManuallyRetryable /\ wellFormed
    /\ \/ receipt.status = "DEAD_LETTERED"
       \/ receipt.status = "RETRY_SCHEDULED" /\ receipt.retry \in stale
    /\ failure.active = NoToken \/ failure.active \in stale
    /\ receipt' = RetryScheduled(next, 0)
    /\ failure' = Failure("OPEN", next)
    /\ outbox' = outbox \cup {RetryRow(next, 0)}
    /\ passed' = passed \cup {next}
    /\ next' = next + 1
    /\ manual' = manual + 1
    /\ UNCHANGED <<request, keys, outcomes, queue, dlq, worker, stale, faults,
                   defers, history>>

CloseFailure ==
    /\ failure.status = "OPEN" /\ failure.active = NoToken
    /\ receipt.status = "DEAD_LETTERED"
    /\ receipt' = Receipt("CLOSED_NO_RETRY")
    /\ failure' = Failure("CLOSED_NO_RETRY", NoToken)
    /\ UNCHANGED <<request, outbox, keys, outcomes, next, queue, dlq, worker,
                   time, faults, budgets, history>>

-----------------------------------------------------------------------------
(* Retention *)

\* A resolved failure is deleted after a year.
DeleteResolvedFailure ==
    /\ Resolved
    /\ failure' = Failure("ABSENT", NoToken)
    /\ UNCHANGED <<request, receipt, outbox, keys, outcomes, next, queue, dlq,
                   worker, time, faults, budgets, history>>

-----------------------------------------------------------------------------
(* Time and failures of the environment *)

\* Tokens whose deadline something still depends on.
Awaited == ({receipt.lock, receipt.retry} \cup {row.gate : row \in outbox})
           \ ({NoToken} \cup passed)

DeadlinePasses(t) ==
    /\ t \in Awaited
    /\ \A w \in Workers : ~Holds(w, t)
    /\ passed' = passed \cup {t}
    /\ UNCHANGED <<request, db, queue, dlq, worker, stale, faults, budgets,
                   history>>

\* The delivery takes longer than the lease.
LeaseOverrun(w) ==
    /\ worker[w].pc \in HolderSteps /\ worker[w].tok \in Awaited
    /\ Fault
    /\ passed' = passed \cup {worker[w].tok}
    /\ ambiguous' = ambiguous +
         (IF \/ worker[w].pc \in {"send", "sent"}
             \/ At(w, "context") /\ kind \notin Fenced THEN 1 ELSE 0)
    /\ UNCHANGED <<request, db, queue, dlq, worker, stale, budgets, sends>>

\* Only retryFailure reads the clock this way.
RetryOverdue(r) ==
    /\ manual < MaxManual
    /\ r \in ({receipt.retry, failure.active} \cap passed) \ stale
    /\ stale' = stale \cup {r}
    /\ UNCHANGED <<request, db, queue, dlq, worker, passed, faults, budgets,
                   history>>

\* The process dies; the broker requeues what it had not acknowledged.
Crash(w) ==
    /\ worker[w].pc # "idle"
    /\ Fault
    /\ Nack(w)
    /\ ambiguous' = ambiguous + (IF At(w, "sent") THEN 1 ELSE 0)
    /\ UNCHANGED <<request, db, dlq, time, budgets, sends>>

-----------------------------------------------------------------------------
HandlerStep(w) ==
    \/ \E m \in queue : Take(w, m)
    \/ ClaimCreate(w) \/ ClaimRead(w) \/ ClaimActivate(w) \/ ClaimReclaim(w)
    \/ ScheduleClaimRecovery(w)
    \/ ResolveContext(w) \/ CheckClaim(w) \/ CheckMargin(w) \/ Send(w)
    \/ \E e \in Errors : AdapterFails(w, e)
    \/ MarkDelivered(w) \/ MarkSkipped(w) \/ DeferReminderDelivery(w)
    \/ FinalizationLost(w)
    \/ FinalizeDeliveryFailure(w) \/ FailureFinalizationLost(w)
    \/ ReleaseClaim(w)

HandlerFault(w) ==
    \/ ChannelLost(w) \/ SendAnswerLost(w) \/ FinalizationFails(w)
    \/ FailureFinalizationFails(w) \/ ReleaseClaimFails(w)
    \/ LeaseOverrun(w) \/ Crash(w)

PublisherStep == \E row \in outbox : Publish(row)
CollectorStep == \/ \E m \in queue : PersistMalformed(m)
                 \/ \E m \in dlq : CollectDeadLetter(m)
Deadline      == \E t \in Awaited : DeadlinePasses(t)

Next ==
    \/ \E w \in Workers : HandlerStep(w) \/ HandlerFault(w)
    \/ PublisherStep
    \/ \E row \in outbox : PublishUnmarked(row)
    \/ CollectorStep
    \/ RetryFailure \/ CloseFailure
    \/ DeleteResolvedFailure
    \/ Deadline
    \/ \E r \in passed : RetryOverdue(r)

Spec == Init /\ [][Next]_vars

(***************************************************************************)
(* Handlers, publisher and collectors are event loops that keep running,   *)
(* and clocks advance; nothing obliges an operator to act, retention to    *)
(* run, or a fault to happen.                                              *)
(***************************************************************************)
Fairness ==
    /\ \A w \in Workers : WF_vars(HandlerStep(w))
    /\ WF_vars(PublisherStep)
    /\ WF_vars(CollectorStep)
    /\ WF_vars(Deadline)

FairSpec == Spec /\ Fairness

-----------------------------------------------------------------------------
ReceiptRows == [status : Statuses, lock : Nat, retry : Nat, attempt : Nat]
FailureRows == [status : {"ABSENT", "OPEN"} \cup Final, active : Nat]
Handlers    == [pc : {"idle"} \cup ClaimSteps \cup HolderSteps, msg : Message,
                tok : Nat, late : Nat, err : Errors \cup {"none"}]

Types ==
    /\ kind \in AllKinds /\ wellFormed \in BOOLEAN
    /\ receipt \in ReceiptRows /\ failure \in FailureRows
    /\ outbox \subseteq Row /\ keys \subseteq Nat
    /\ outcomes \subseteq {"DELIVERED", "FAILED", "SKIPPED"}
    /\ queue \subseteq Message /\ dlq \subseteq Message
    /\ worker \in [Workers -> Handlers]
    /\ passed \subseteq Nat /\ stale \subseteq Nat
    /\ next \in Nat \ {0}
    /\ faults \in Nat /\ defers \in Nat /\ manual \in Nat
    /\ sends \in Nat /\ ambiguous \in Nat

\* Exactly a claim has a lock token, exactly a scheduled retry a retry token.
ReceiptShape ==
    /\ receipt.lock # NoToken <=> receipt.status = "PROCESSING"
    /\ receipt.retry # NoToken <=> receipt.status = "RETRY_SCHEDULED"

(***************************************************************************)
(* Types, and the columns of the receipt go together with its status: all  *)
(* updates of the receipt service reset the ones the new status does not   *)
(* use, so no token outlives the state it guards.                          *)
(***************************************************************************)
TypeOK == Types /\ ReceiptShape

-----------------------------------------------------------------------------
(* What keeps an unsettled notification moving. *)

\* A message for the consumer is queued, or a row will become one.
MessageComing == queue # {} \/ \E row \in outbox : row.type # "dead"

\* The retry the receipt waits for: queued, to be published, or being claimed.
RetryComing ==
    LET m == [token |-> receipt.retry, attempt |-> receipt.attempt] IN
    \/ m \in queue
    \/ RetryRow(receipt.retry, receipt.attempt) \in outbox
    \/ \E w \in Workers : /\ worker[w].pc \in {"create", "read", "activate"}
                          /\ worker[w].msg = m

\* The claim with lock token t: its holder runs, or a message will take the
\* claim over.  A handler that has read the clock before the lease ended can
\* only write the recovery row, so it counts only while there is none.
ClaimCarried(t) ==
    \/ MessageComing
    \/ \E w \in Workers :
        \/ Holds(w, t)
        \/ At(w, "reclaim") /\ worker[w].tok = t
        \/ worker[w].pc \in {"create", "read"} /\ worker[w].late = t
        \/ /\ t \notin keys
           /\ \/ worker[w].pc \in {"create", "read"}
              \/ At(w, "recover") /\ worker[w].tok = t

(***************************************************************************)
(* A notification is never lost, whatever crashes, database errors, lost   *)
(* channels and overrun leases happen: without a receipt a message is on   *)
(* its way, a claim has a holder or a message that will take it over, a    *)
(* scheduled retry has its message, and a dead letter has an unresolved    *)
(* failure an operator can find.  (claimDelivery, scheduleClaimRecovery,   *)
(* releaseClaim, scheduleRetry, moveToDeadLetter, collectDeadLetter)       *)
(***************************************************************************)
NoLostNotification ==
    /\ receipt.status = "ABSENT" =>
          \/ MessageComing
          \/ \E w \in Workers : worker[w].pc \in {"create", "read"}
    /\ receipt.status = "PROCESSING" => ClaimCarried(receipt.lock)
    /\ receipt.status = "RETRY_SCHEDULED" => RetryComing
    /\ receipt.status = "DEAD_LETTERED" => failure.status = "OPEN"

(***************************************************************************)
(* The failure list agrees with the receipt: a failure is shown as         *)
(* resolved only with the resolution the receipt ended in, and a settled   *)
(* delivery leaves no open failure behind, although dead letters are       *)
(* collected long after the state they report.  (markDelivered,            *)
(* markSkipped, closeFailure, collectDeadLetter, upsertFailure)            *)
(***************************************************************************)
FailureAgrees ==
    /\ Resolved => receipt.status = failure.status
    /\ receipt.status \in Final => failure.status # "OPEN"

(***************************************************************************)
(* The provider gets the notification at most once more than there were    *)
(* sends whose result was unknown: a crash or database error after the     *)
(* send, a lost answer, or a lease that ran out during the send (before    *)
(* it too for kinds whose claim is not read again).  Duplicated messages,  *)
(* retries and operators alone never cause a second send.                  *)
(***************************************************************************)
SendsAccounted == sends <= 1 + ambiguous

(***************************************************************************)
(* The requesting service is told what happened: DELIVERED and SKIPPED     *)
(* only with the receipt in that state, and FAILED by the time the receipt *)
(* is a dead letter.  (createDeliveryOutcome and its callers)              *)
(***************************************************************************)
OutcomesAgree ==
    kind \in Tracked =>
      /\ "DELIVERED" \in outcomes <=> receipt.status = "DELIVERED"
      /\ "SKIPPED" \in outcomes => receipt.status = "CLOSED_NO_RETRY"
      /\ receipt.status = "DEAD_LETTERED" /\ wellFormed => "FAILED" \in outcomes

(***************************************************************************)
(* A delivered or closed notification stays so, and nothing more is        *)
(* reported about it: late retries, dead letters, handlers that lost their *)
(* claim and operators find the receipt and leave.                         *)
(***************************************************************************)
FinalIsFinal ==
    [][receipt.status \in Final => UNCHANGED <<receipt, outcomes>>]_vars

(***************************************************************************)
(* The collector "acks a stale DLQ copy without interrupting an active     *)
(* manual retry" (notification-delivery-worker.service.spec.ts): while a   *)
(* retry is active, collecting a dead letter leaves the receipt alone.     *)
(***************************************************************************)
StaleCopyInterruptsNothing ==
    [][failure.active # NoToken /\ (\E m \in dlq : m \notin dlq')
         => UNCHANGED receipt]_vars

\* The receipt as the contract of a consumer sees it.
Phase == CASE receipt.status = "DELIVERED" -> "delivered"
           [] receipt.status = "DEAD_LETTERED" -> "dead"
           [] receipt.status = "CLOSED_NO_RETRY" -> "closed"
           [] OTHER -> "open"

Contract == INSTANCE ConsumerContract
            WITH phase <- Phase, done <- sends, doubts <- ambiguous

(***************************************************************************)
(* Handlers, operators and collectors together keep the contract of a      *)
(* consumer: every single send was the first one or answers a doubt that   *)
(* no send has answered yet, a receipt is DELIVERED only after a send and  *)
(* for good, and a dead letter is left only by an operator.  (claimDelivery*)
(* to markDelivered, collectDeadLetter, retryFailure, closeFailure)        *)
(***************************************************************************)
ImplementsContract == Contract!Spec

(***************************************************************************)
(* Whenever a notification is not settled it is settled later: delivered,  *)
(* closed, or a dead letter in the failure list.                           *)
(***************************************************************************)
AlwaysSettles == []<>(receipt.status \in Settled)

=============================================================================
