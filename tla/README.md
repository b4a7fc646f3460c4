# Verification of the WinWidget services

TLA+ models of the delivery, job and payment machinery of this repository,
model-checked with TLC and proved with TLAPS. Paths are relative to the repository's `apps/`.

## 1. The system

WinWidget is a set of NestJS services. Each has its own PostgreSQL database
(Prisma), and they talk over HTTP and RabbitMQ. A service that wants something
done elsewhere writes an *outbox* row in the transaction of its own change; a
publisher turns rows into confirmed messages; consumers acknowledge after their
own transaction and recognise repetitions by `eventId` and consumer. Retries,
dead letters and manual replays are rows of the consumer's database. There are
no distributed transactions and no leader: several processes of each service run
the same loops and exclude each other with compare-and-set updates under a lease.

### Inventory

| Component | State | Operations | What is hard | What makes it correct |
|---|---|---|---|---|
| notification-delivery: worker, receipt, failure, outcome, adapter | receipt, failure and outbox rows of an event | claim, recover, send, finalize, retry, dead-letter, collect | crashes with a claim, leases that run out, unknown results of a send, late dead letters | nothing is lost, sends are accounted for, records agree, final is final |
| notification-delivery: control, retention | the same rows | retry, close, delete | operators beside automatic retries | the same |
| notification-delivery: outbox publisher, rabbitmq | outbox rows with lease | claim batch, renew, publish, mark, reschedule, quarantine, release | lost confirms, dead publishers, leases that end inside a batch | every row is published or quarantined, never early |
| operations: scheduled jobs, maintenance worker and scheduler, alerts | job rows with lease, idempotency keys, alert, trigger messages | enqueue, claim, defer, renew, complete, fail | nothing polls: the job lives on its triggers; answers lost after an effect | no job is lost, attempts bound sends, failures are alerted |
| operations: restore | permit, fence and phase of a restore | authorise, fence, restore, recover | a crash in the middle of replacing a database | no writer during a restore, a recoverable phase at any time |
| operations: audit | inbox receipts, failures | consume, retry, replay | duplicates, order | each audit event once |
| billing: one-time payments, provider worker | payments, provider operations with lease, what YooKassa holds | checkout, cancel, expire, claim, dispatch, verify, apply, settle, resolve, revoke | answers lost after the money moved, idempotency keys that YooKassa forgets, a user deactivated between two attempts | created once, granted once, never closed while in doubt |
| billing: consumers | inbox receipt with lease, failure, retry rows | claim, deliver, record, retry, dead-letter, operator's retry and close | redelivery while a lease runs | no event is acknowledged away |
| billing: auto-renewal | renewal, recurring payments, charge requests, capture operations | schedule, dispatch, refuse, retry, withdraw, confirm price, pause, resume, extend, revoke | a charge in flight while its user, an administrator or the price list changes the renewal | one charge per period, consent is respected |
| campaigns | campaigns, audience snapshots, deliveries | import, dispatch, outcome, retry | pause and retry against outcomes in flight | counters agree with deliveries |
| widgets | quota, callback codes, integration deliveries | reserve, confirm, deliver | limits under concurrency | the quota is not exceeded |
| identity | users, sessions, one-time codes | login, verify, refresh, revoke | attempts and refresh races | a code works once |
| support | conversations, notification intents | webhook, reply, outcome | outcomes before commits | intents settle |
| reporting | projections, summary runs | project, run | reordered events | projections converge |
| crm-access, crm-intake, crm-sales, crm-customers | team seats, intake entries, deals and tasks, customers | admit, accept, remind | sagas between services | a lead is accepted once |
| platform, api-gateway | site content; none | CRUD; proxy | little | - |

Notification delivery serves every other service, and its outbox, receipt and
lease patterns recur in most of them; the backup jobs are the system's scheduler
and its last line of defence. Those were modelled first, then billing, where a
mistake costs a customer money.

## 2. Plan

1. *Done.* `NotificationDelivery`: life of one notification, with proofs.
2. *Done.* `OutboxChannel`, `OutboxPublisher`: what the outbox promises and how
   the publishers keep it, with a proved refinement.
3. *Done.* `BackupJobs`: jobs, triggers and leases of Operations, with proofs.
4. *Done.* `BillingCheckout`, `BillingInbox`, `BillingRenewal`: one-time payments
   with the provider worker, the consumers, and auto-renewal, with proofs.
   `ConsumerContract`, `JobContract`, `PaymentContract`, `RenewalContract`: what
   each of them promises, with proved refinements.
5. Operations outbox publisher (`operations-outbox-publisher.service.ts`), a
   different lease protocol, against the same `OutboxChannel`.
6. Campaigns: dispatch, pause, outcomes and counters; composed with the outcome
   events of `NotificationDelivery`, and the multi-part Telegram checkpoint.
7. Database restore: permit, writer fence and recovery phases with crashes.
8. The administrator's `extend` and `activate` against a payment: both read
   `expiresAt` before they write it (`subscription-domain.service.ts:524`).
9. Widgets quota and callback codes; identity one-time codes and refresh.
10. Proofs for 5 to 8; for 5 the refinement of `OutboxChannel` with the mapping of
    `OutboxPublisher`.

## 3. Modules

| Module | Content |
|---|---|
| `NotificationDelivery` | one notification: consumer, receipt, failure, outcomes, operator, retention |
| `NotificationDeliveryProofs` | inductive invariant and theorems |
| `OutboxChannel` | abstract outbox: rows become copies, never early, none dropped |
| `OutboxPublisher` | publishers of the notification outbox; refinement mapping to `OutboxChannel` |
| `OutboxProofs` | invariant, refinement and the bound on copies |
| `ConsumerContract` | what a consumer with a receipt per event promises; `NotificationDelivery` and `BillingInbox` implement it |
| `JobContract` | what the scheduler promises for the jobs of a target; `BackupJobs` implements it |
| `PaymentContract` | what a one-time payment promises; `BillingCheckout` implements it |
| `RenewalContract` | what auto-renewal promises; `BillingRenewal` implements it |
| `BackupJobs` | scheduled and manual backup jobs of Operations |
| `BackupProofs` | inductive invariant and theorems |
| `BillingCheckout` | one-time payments, their provider operations and YooKassa |
| `BillingCheckoutProofs` | inductive invariants; created once, granted once, open while in doubt, the contract |
| `BillingInbox` | one event of one consumer of billing: receipt, retries, failure, operator |
| `BillingInboxProofs` | inductive invariant and theorems |
| `BillingRenewal` | auto-renewal of one user: scheduler, charges, and everyone who changes a renewal |
| `BillingRenewalProofs` | inductive invariant and theorems |
| `MC...` | symmetry sets and constant values for TLC |

A definition called "Mutant" in its comment is the plausible wrong version of
the definition after it; no specification uses it. `PROJECT.json` names, for each
property, the mutant that breaks it.

### NotificationDelivery

Every statement of these services is keyed by `(eventId, consumer)`, so one such
pair is modelled with the class of its kind (`plain`, `support`, `reminder`...).
`receipt` and `failure` are the two rows (`ABSENT` when there is none), `outbox`
the unpublished rows with the token (`gate`) whose deadline is their
`availableAt`, `keys` the deduplication keys that can collide, `outcomes` the
outcome events written, `queue` and `dlq` the messages, `worker` the local
variables of the running handlers.

| Code | Actions |
|---|---|
| `handle` | `Take`, then the steps below; `Ack` and `Nack` end it |
| `claimDelivery`, one action per statement | `ClaimCreate`, `ClaimRead`, `ClaimActivate`, `ClaimReclaim` |
| `scheduleClaimRecovery` | `ScheduleClaimRecovery` |
| `adapter.deliver` | `ResolveContext`, `CheckClaim`, `CheckMargin`, `Send`, `AdapterFails`, `SendAnswerLost` |
| `markDelivered`, `markSkipped`, `deferReminderDelivery` | actions of the same names; `FinalizationLost`, `FinalizationFails` |
| `handleDeliveryFailure` | `FinalizeDeliveryFailure` (`ScheduleRetry` or `MoveToDeadLetter`), `FailureFinalizationLost`, `FailureFinalizationFails`, `ReleaseClaim`, `ReleaseClaimFails` |
| `persistMalformed`, `collectDeadLetter` | `PersistMalformed`, `CollectDeadLetter` |
| `retryFailure`, `closeFailure`, `deleteResolvedFailures` | `RetryFailure`, `CloseFailure`, `DeleteResolvedFailure` |
| outbox and broker | `Publish`, `PublishUnmarked`, `ChannelLost` |
| clock, processes | `DeadlinePasses`, `LeaseOverrun`, `RetryOverdue`, `Crash` |

Time is the set of tokens whose deadline has passed. This is exact for this code
because a token's deadline is written with the token and never moved.
`claimDelivery` reads the clock once, before its first statement; the model keeps
the expired token seen then (`late`). Errors are `recognized` (three retries),
`unclassified` (one) or `permanent` (none); whether the retry window is open is
nondeterministic. A database error inside `claimDelivery` is a `Crash`: both put
the message back and change nothing else.

The outbox of this module is used through what `OutboxChannel` promises: a row is
published at least once, not before its time. `OutboxPublisher` shows that the
publishers keep that promise. Outcome rows are written by the same transactions
and published the same way; only the fact that they were written is kept.

### OutboxPublisher

Rows with `status`, `lock`, and whether the lease is over (`lapsed`) or
`availableAt` reached (`due`). A publisher is in its `loop`, or at `publish`,
`mark` or `reschedule` for the row in hand. A batch is any subset of the oldest
candidates because a concurrent transaction may win some of them; a poll that
wins none of them leaves no trace. `renewClaim` tests status and token but not the lease, so
it revives a claim that is over but that nobody has taken, as in the code. A lease that
ends with its holder at work (`LeaseOverrun`) is a fault; one without holder ends
in due course (`LeaseLapses`).

`Channel` maps the rows still to be sent (`Todo`): those not ended, and those an
overrun publisher is about to send once more after another one has marked them.

### BackupJobs

The jobs of one backup target. A job has `status`, `attempts`, lease `token`;
`lapsed` and `waiting` stand for its two dates. `triggers` counts the messages of
a job between outbox and queue. `claimBackup` reads the job (`ReadJob`) and then
decides (`ClaimTerminal`, `ClaimDeferred`, `ClaimExhausted`, `ClaimBackup`): the
transaction runs at READ COMMITTED, and `claimableSnapshot` is what protects the
update. `createAndSend` is `SendBackup` (Telegram accepts the dump) followed by
`Complete`, or by `BackupFails` or `LeaseLost` before or after the dump was
accepted. `held` says whether the handler's message is still unacknowledged on an
open channel: after `ConnectionLost` the handler goes on while its message is
delivered again. Rejected events (unknown job or type) and unusable inputs are
left out: the code that enqueues jobs never writes them.

### BillingCheckout

The payments of one user. `pay` and `op` are the two rows of a payment and of
each of its operations (`create`, `webhook`, `verify`, `receipt`), `prov` is what
YooKassa holds, `forgotten` the payments whose idempotency key it has dropped.
`due`, `aged` and `lapsed` are the three clocks: the checkout has expired, the
window of 23 hours has closed, the lease is over.

| Code | Actions |
|---|---|
| `create`, `cancelPending`, `cleanupStalePendingForUser`, `adminCheck`, `resolveUnknownProviderPayment` | `CreatePayment`, `CancelPending`, `SettleExpired`, `QueueVerification`, `ResolveUnknown` |
| `claim` | `Claim` |
| `createProviderPaymentUnderFence` | `Dispatch`: its fences (`Fenced`, `WindowClosed`, `StaleClaim`, `CheckoutFenced`), then `GetPayment` or `Call` |
| `process` of a lookup | `Read` |
| `applyProviderResponse` | `Apply`: `ApplySuccess`, `MarkProviderCancelled`, `BindProviderState` |
| `processOne`, `handleFailure` | `Finish`, `HandleFailure` |
| `webhook` | `Webhook` |
| `reconcileMissingPaymentReceipts` | `ReconcileReceipts` |
| `revokeBeforeDeactivate`, `applyIdentity` | `RevokeBeforeDeactivate`, `ApplyIdentity` |
| YooKassa (external), clocks, processes | `UserPays`, `ProviderCancels`, `ProviderForgets`, `CheckoutExpires`, `WindowCloses`, `LeaseLapses`, `Crash` |

The POST runs inside a database transaction that locks the user and the payment,
so the check of the claim and the call are one step; recording its answer, the
success and the end of the operation are separate steps, and a worker may die or
lose its lease between any two of them. A lost answer is a POST that YooKassa
carried out and a `retryable` error.

### BillingInbox

`receipt`, `failure`, the messages (`ready`) and the retry rows (`rows`) of one
event and consumer. `handle` is `Take`, `ClaimReceipt`, `Deliver`, `Record`,
`ResolveFailure` and `Ack`, or `RetryOrDeadLetter` after an error (`Deliver`,
`RecordingFails`, `AckThrows`); `FinalFailure` is the path of an invalid message. `Nack` is an error outside the `try` block. `Retry`
and `Close` are the operator's. What a handler does with a message when it delivers
it is one step that succeeds or fails.

`Record` and `ResolveFailure` are the two updates at the end of `handle` (lines 151
and 164), which share the `try` block and no transaction. An error in the second
(`RecordingFails`) is handled like one of the delivery: the receipt goes from
`DELIVERED` back to `RETRY_SCHEDULED` and the event is delivered again. A handler
that dies between them leaves a delivered event with a failure that shows a running
retry, which the operator can neither retry nor close. `torn` remembers that this,
or a failure reported by a handler that had lost its claim, has happened.

The acknowledgement of a delivery (line 174) is in the same `try` block, and
`ack` of `billing-rabbitmq.service.ts:226` does not catch what the client library
throws on a closed channel (the notification service does). A handler that has lost
its channel (`lost`) therefore has two ways on from `"confirm"`: the client does not
know yet and the acknowledgement is ignored (`Ack`), or it throws (`AckThrows`) and
`retryOrDeadLetter` runs with the claim still in the receipt, so that a recorded
delivery becomes `RETRY_SCHEDULED` or `DEAD_LETTERED`, its failure is reopened and the
event is delivered again. The other acknowledgements (`"ack"`: a refused claim, the
end of `retryOrDeadLetter` and of `finalFailure`) are outside the `try` block; when
one throws, so does the `nack` in the `catch` of `consume`, and the handler ends as it
would have. Nothing handles that rejection, so Node may end the process, which is a
`Crash` of its other handlers.

### BillingRenewal

One user. A recurring payment is named by its `recurringCycleKey`, the pair of
the period it extends and the attempt; `cycle` and `sub` number the periods, so
they stand for `nextChargeAt` and `expiresAt`.

| Code | Actions |
|---|---|
| `scheduleRenewals`, `createRecurringIntent` | `PauseInvalid`, `RevokeInvalid`, `CorrectDate`, `RequirePriceConfirmation`, `PauseBlocked`, `CreateIntent` |
| `closeExpiredRecurringDispatch` | `CloseExpired`, part of `DeliverCharge` and `Dispatch` |
| `deliverAutoRenewalCharge` | `DeliverCharge` |
| provider worker | `Claim`, `Dispatch` (with its fences), `Apply`, `HandleFailure`, `Verify` |
| `applyRecurringCancellation` | part of `Apply`, `HandleFailure` and `ResolveUnknown` |
| `disableUserAutoRenewal`, `confirmPrice` | `Withdraw`, `ConfirmPrice` |
| `adminRenewalAction`, `extend`, `activate`, `reconcile` | `AdminPause`, `AdminResume`, `AdminExtend`, `Reconcile` |
| `updateTariffPrices`, `resolveUnknownProviderPayment` | `UpdatePrice`, `ResolveUnknown` |
| Identity | `RevokeBeforeDeactivate`, `ApplyIdentity` |
| a one-time checkout beside the renewal | `OpenCheckout`, `CheckoutEnds`, `CheckoutPaid` |

An operation has one worker at a time here and YooKassa remembers its keys: the
leases and the forgotten keys are the subject of `BillingCheckout`. `meanwhile` is
a history variable: what an administrator did while a charge was awaited.

Two branches of the code are never taken in the model, and the reason is an
invariant of it: the scheduler's branch for a payment of the same key that was not
sent (`Resumable`), because every earlier charge of the current key is settled
(`PastCharges`, proved); and the resumption of a technical pause by its reason
`AUTO_RENEWAL_DELIVERY:`, which nothing writes.

## 4. Runs

The passing runs use two processes of the kind that competes, except
`billing_live` (one worker: the property is about progress) and `renewal` (one
worker for each operation, by the abstraction above). The systems may stop when all
work is done, so deadlock is not checked.

| Run | Bounds | Checks | Result |
|---|---|---|---|
| `nd_recovery` | kinds plain, reminder; 1 retry; 2 faults; 1 deferral; fairness | `TypeOK`, `NoLostNotification`, `SendsAccounted`, `AlwaysSettles` | holds, 501 thousand states |
| `nd_operator` | 4 kinds; 1 retry, fault, deferral, manual retry | `NoLostNotification`, `FailureAgrees`, `OutcomesAgree`, `FinalIsFinal`, `ImplementsContract` | holds, 1.1 million states |
| `nd_stale_dead_letter` | plain; 1 fault, 1 manual retry | `StaleCopyInterruptsNothing` | **violated**, see below |
| `outbox_publish` | 3 rows, one invalid; batches of 2; 2 faults; fairness | `TypeOK`, `CopiesAccounted`, `ImplementsChannel`, `EveryRowEnds` | holds, 272 thousand states |
| `backup_jobs` | a daily and two manual jobs, two keys; 2 attempts; 2 faults | `TypeOK`, `NoLostJob`, `FailureIsAlerted`, `OneActivePerAdmin`, `ImplementsContract` | holds, 548 thousand states |
| `backup_live` | a daily job; 2 attempts; 2 faults; fairness | `EveryJobEnds` | holds, 5.1 thousand states |
| `billing_checkout` | one payment with notifications and verifications; 2 faults; user not deactivated | `TypeOK`, `OneGrant`, `OneProviderPayment`, `InDoubtIsOpen`, `DoubtBlocks`, `ImplementsContract` | holds, 709 thousand states |
| `billing_live` | one payment with notifications and receipts; 2 faults; 1 deactivation; fairness | `PaidIsGranted`, `ReceiptFetched`, `ImplementsContract` | holds, 102 thousand states |
| `billing_fenced` | one payment; 1 fault, 1 deactivation | `DoubtBlocks` | **violated**, see below |
| `inbox_deliver` | 2 retries; 1 manual retry; 3 faults of 5 kinds; fairness | `TypeOK`, `LostOnlyIfOrphaned`, `OperatorCanAct`, `EventSettles`, `ImplementsContract` | holds, 1.2 million states |
| `inbox_lost` | 1 crash or database error | `NoLostEvent` | **violated**, see below |
| `renewal` | 1 retry; 2 of 3 charges; 2 events of which 2 may be faults | `TypeOK`, `OneChargePerCycle`, `OneOpenCharge`, `DispatchIsCarried`, `NotReactivated`, `ChargedAtTheEnd`, `ImplementsContract` | holds, 424 thousand states |

*Why the bounds are enough to be interesting.* Two faults allow a crash of a claim's
holder and a second failure of whoever recovers it. One manual retry with one
fault reaches every order of operator, dead letter, retry and release. Batches of
two out of three rows let a lease end while an earlier row of the batch is
published. Two faults against two attempts exhaust a job in every mixture of
crash, overrun and error. In `billing_checkout` two faults lose an answer and then
the record of the second one, with the key forgotten or the checkout expired in
between. In `inbox_deliver` three faults reach a duplicate, an overrun and a crash of
one event, or a lost channel whose acknowledgement throws and two more. The keys of `renewal` are the end of a period, its retry and the end of
the next period; the same properties were also checked with two retries, three
charges and four keys (3.1 million states) and with three events (5.2 million),
which take too long to be kept as runs. The contract of a payment was also checked
with two workers and a deactivation (3.9 million states) and with two payments (2.4
million). The invariants proved in section 5 do not
depend on any of these bounds.

`SendsAccounted` and `CopiesAccounted` use history variables: `ambiguous` counts
the sends (publications) whose result the service could not know or record. They
say what at-least-once means here: a second copy needs such an event; duplicated
messages, retries, lapses while waiting and operators never produce one.

*What the billing properties leave out.* Each of their exceptions is a way in
which the code gives up or needs a person, and is written in the property:

- `InDoubtIsOpen`, `DoubtBlocks`: a request that YooKassa rejects is closed, also
  when it is a second attempt and the answer to the first was lost. A
  deactivation is excluded by `MaxBlocks = 0`; with it `DoubtBlocks` fails, and
  that is the run `billing_fenced`.
- `PaidIsGranted`: a verification that ended `FAILED` or `UNKNOWN`.
- `LostOnlyIfOrphaned`, `EventSettles`: a receipt whose handler died or threw
  (`Orphaned`); the run `inbox_lost` shows what it leads to.
- `OperatorCanAct`: invalid messages, which have no receipt to act on, orphaned
  receipts, and the cases of `torn`: a handler that fails after it has lost its
  claim, which reopens the failure of an event that another handler has delivered,
  and one that ends between the two updates of a delivery.
- `DispatchIsCarried`: `Stranded` lists the three ways in which `dispatchPending`
  may stay set with nothing on its way: an operation that the worker fenced; a
  refusal of a payment whose price the user has confirmed anew in the meantime;
  a refusal during an administrator's pause that was then lifted.
- `ChargedAtTheEnd`: an administrator who extended the subscription, or resumed
  the renewal, while the charge was on its way.

### Contracts

`ImplementsContract` says of each component that whatever its processes, messages
and rows do is, seen from outside, a step of a short specification or none.

- `ConsumerContract` (`nd_operator`, `inbox_deliver`): an event is carried out once,
  and once more only for each time its result was in doubt; it counts as delivered
  only if it was carried out, and for good; only an operator takes up again or closes
  what was given up. The phase of an event is the status of its receipt. In billing
  an event whose handler has written `DELIVERED` and has neither acknowledged it nor
  ended (`Revocable`) is still open: the second update or the acknowledgement may yet
  throw and the handler takes the delivery back. So in billing a `DELIVERED` receipt
  alone is no promise; each time it is taken back counts as a doubt.
- `JobContract` (`backup_jobs`): a job is started at most `maxAttempts` times and
  sends at most one backup for each start; it succeeds only after a backup was
  sent, fails only when its attempts are used up, with an alert, which only a
  success resolves. A job that is queued, running or deferred is open. Two properties
  of the jobs that the contract contains, `SendsAccounted` and `TerminalStays`, are
  proved by name and not run besides.
- `PaymentContract` (`billing_checkout`, `billing_live`): money is asked for once and
  only for an open payment; what was paid is granted, once, whatever state the
  payment was in; it is closed as never sent only if YooKassa holds nothing, and as
  cancelled only on YooKassa's word. Two exceptions are steps of the contract:
  YooKassa may refuse a request after it has taken the same one (`Refuse`), and a
  revocation of the user's access closes payments without asking (`revoked`, which is
  `blocks > 0`). The state of a payment that is `CANCELLED` or `EXPIRED` is told by
  its id and `providerStatus`: with an id it is cancelled, with `rejected` refused,
  else unsent.
- `RenewalContract` (`renewal`): the saved method is charged only while the renewal
  is on, for a period that has begun, and never while YooKassa has or may still take
  money for the same end of a period; a paid charge extends the subscription once,
  and only a paid checkout or an administrator does so besides; a withdrawn renewal
  comes back only with a paid checkout. `ADMIN_PAUSED` and `TECHNICAL_PAUSE` are
  paused, `USER_DISABLED` and `REVOKED` withdrawn; the credited charges are the
  payments that are `SUCCEEDED`. The number of acts (`acts`) is visible in the
  contract so that an extension by an administrator is told from a second credit.

### Fairness

Handlers, publishers, workers and collectors are loops that run as long as the service
does (weak fairness of their steps); clocks advance (weak fairness of deadlines).
For jobs, RabbitMQ serves a queue in order, so a job whose triggers keep coming
back is not passed over for ever (strong fairness of the delivery of each job's
triggers). In billing a provider operation that stays claimable is claimed in the end
(strong fairness of its claim: the worker takes the oldest one, and an unfinished one
is put off by `availableAt`); YooKassa delivers the first notification of a payment
and registers the receipt at some time (strong fairness of the answer that has it);
the scheduler looks for missing receipts. The consumers of billing need only
their handlers and the publisher: a lease that ends is not assumed to help, since
nobody looks for it. Operators, administrators, users, retention and faults have no
fairness. The number of faults is bounded, which is the usual assumption that
failures cease for long enough.

### Findings

**A dead letter that ends a retry** (`nd_stale_dead_letter`).

`collectDeadLetter` (`notification-delivery-failure.service.ts`, from line 286)
creates a `DEAD_LETTERED` receipt when there is none and looks at the failure's
`retryingAt` and `activeRetryToken` only afterwards; returning `false` then
commits the new receipt. TLC finds this order:

1. a notification fails for good: dead-lettered, its dead letter still queued;
2. an operator retries it; the handler claims the retry and the send fails;
3. the failure finalization meets a database error, so `releaseClaim` deletes the
   receipt and the retry is requeued;
4. the dead letter of step 1 is collected: a `DEAD_LETTERED` receipt is created,
   and the failure, still retrying, is left alone.

The requeued retry is then acknowledged as dead-lettered and never sent, and the
failure shows an active retry until it counts as stale (five minutes). The test
"acks a stale DLQ copy without interrupting an active manual retry"
(`notification-delivery-worker.service.spec.ts:1483`) states the intent; it
mocks a receipt that is present. Looking at the failure before the receipt is
created would keep it. Nothing is lost (`NoLostNotification` holds): the failure
stays open and can be retried again.

**A payment in doubt that no longer blocks** (`billing_fenced`).
`createProviderPaymentUnderFence` (`billing-provider-worker.service.ts:296`) ends an
operation as `FAILED` when it finds the payment or the identity fenced, also on a
second attempt. TLC finds: the first attempt is with YooKassa when the user is
deactivated; its answer is lost and the operation goes back to `PENDING`, attempt 1;
the second attempt finds the identity deactivated and fences the operation. A
`FAILED` operation does not count as possibly sent, so when the checkout is over
the payment neither blocks another one nor is kept from the clean-up, although
YooKassa may hold it. `apps/billing/README.md:59` says that an operation with
`attempt > 0` counts as possibly sent and is not removed by the clean-up. Ending it
as `UNKNOWN` when `attempt > 1`, as the closed window does a few lines below, would
keep that.

**An event that is acknowledged away** (`inbox_lost`). `handle`
(`billing-worker.service.ts:143`) acknowledges a message when `claimReceipt` answers
`null`, and it answers `null` while a lease runs (lines 502 to 507). A handler that
dies, or throws where its error is answered by `nack` with requeue, leaves a
`PROCESSING` receipt with up to 60 seconds of lease, and its message comes back at
once: it is refused and acknowledged, and no message, row or failure is left. The
repository's `README.md:202` says that consumers acknowledge after success. The
notification service meets the same case with `scheduleClaimRecovery`.

## 5. Proofs

All theorems hold for every set of processes, rows and jobs and every value of
the bounds, from the assumptions the modules name (`KindsAssumption`,
`BoundsAssumption`; `RowsAssumption`, `BatchAssumption`; `JobsAssumption`,
`BackupBounds`, `HandlersAssumption`; `LookupsAssumption`, `BoundsAssumption`;
`InboxAssumption`), which TLC evaluates in each run.

**NotificationDelivery.** `NoLostNotification` is not inductive: a claim is
recovered by a message that must not be dropped as too early, and by a recovery
row that must still be there. `Inv` adds `MessagesDue` (a message is queued only
once its token's deadline has passed, so a matching retry is never "deferred"),
`RecoveryPending` (the recovery row of a running lease is unpublished, so
`skipDuplicates` loses nothing), `MalformedUnclaimed` (a malformed message is
never claimed or retried), `ActiveIsOpen`, and `DeadLettersReported` (dead letters
are written after their outcome, so a collected one reports nothing new). The
proof has one lemma per shape of step (a handler moves on, acknowledges, requeues,
claims; a retry is scheduled; the receipt is settled) and one per action. From
`Invariance` follow `TypeCorrect`, `NotificationSafe`, `FailuresListed` and `OutcomesReported`;
`FinalStays` shows that no action is able to change a final receipt. `SendsBounded`
adds who may still send: `Tokens` (tokens are drawn in order and a claim has one
holder) and `Accounted` (the sends of a notification, the handlers committed to
send it, and one if a check or a later claim may still lead to a send, are at most
one more than the sends with unknown result). `ContractRefined` needs both: a send
is a `Work` step because `Accounted` leaves room for it, and a receipt becomes
`DELIVERED` only from a handler that has sent.

**OutboxPublisher.** `Inv` adds `ClaimsRipe` (a claimed row, and the row in hand,
has been due), `Validated` (a row at `mark` or `reschedule` has a valid contract, and
`mark` comes after a confirmed publish)
and `EndsJustified` (an ended row has a copy or is invalid). `Refinement` maps
each step to a step of `OutboxChannel` or a stutter. `CopiesBounded` needs
to know who may still send: `Tokens` (a claim has one publisher at most) and
`Accounted` (the copies of a row, the publishers about to send it, and one if it may
be claimed again, are at most one more than the ambiguous publications; the set of
publishers about to send a row is part of it as finite, so the set of all of them
need not be).

**BackupJobs.** `Inv` adds `HasJob` (a busy handler has a job), `Knows` (what a
handler has learnt of a finished job stays true: a terminal snapshot, SUCCEEDED at
`resolve`, a sent backup at `complete` and `resolve`), `Requested` (an idempotency
key names a job that was created), `AttemptsSpent` (sent backups plus running senders do not
exceed the attempts; a count over handlers, hence the finiteness assumption) and
`SucceededSent`. `JobsNeverLost`, `SendsBounded`, `FailuresAlerted`,
`OneRequestActive` and `FinishedStays` follow. For `ContractRefined` the attempts of
a claim stay below their bound, a send spends one of them (`AttemptsSpent`), and
`SucceededSent` and `Knows` say that the success and the resolution of an alert come
after a backup.

**BillingCheckout.** `OneProviderPayment` rests on time: a POST repeated after its
key was forgotten would create a second payment. `IInv` has `CreatedAgrees` (the
history agrees with YooKassa, and a forgotten key belongs to an operation of which
the window of 23 hours has closed) and `AttemptsCount` (the attempts count the
claims that may have sent: when YooKassa holds the payment, a worker that has a
claim and has sent nothing under it is on attempt 2 or later), so a worker that
could send a second POST meets `WindowClosed`. `OneGrant` needs `AnswersTrue` (a success in
a worker's hands is one of YooKassa) and `KnownExists` (whoever knows or asks for an
id, it exists); `BusyHasOp`, `ProcessingCounted` and `NotBefore` connect workers,
claims and rows. `GrantedOnce` and `CreatedOnce` follow. `DoubtIsOpen` and
`DoubtIsBlocking` hold until access is first revoked (`blocks = 0`), whatever
`MaxBlocks` is; afterwards they are false, as `billing_fenced` shows. Their invariant `DoubtInv`
says of a payment that YooKassa holds and the database has no id for that it is
pending and possibly sent, or was rejected, and that a worker ends a creation only
after it has bound the payment; fencing a checkout that is over is harmless because
`AttemptsCount` leaves only first attempts that have sent nothing. `ContractRefined`
uses both invariants: `DoubtInv` to show that a payment closed as never sent has
nothing at YooKassa as long as nobody was revoked, `AnswersTrue` to show that a grant
or a cancellation follows YooKassa's word, and `PostOnce` that a POST asks for money
once. Each step is reduced to the one payment whose row it writes (`OneMoves`).

**BillingInbox.** `IInv` adds `WaitingIsPending` (an event without receipt or with a
scheduled retry has a row, a message or a handler whose message would come back),
`WaitHasRow` (a retry that is not due has its row, so refusing an early message loses
nothing), `ProcessingHasClaim`, `HolderIsProcessing` and `FailureOfFinal` (the failure
of a finished event). `EventsAreKept` and `FailuresCanBeHandled` follow.
`ContractRefined` is an account like that of `NotificationDelivery`: the deliveries
of an event, the handlers that may still deliver it and one if it may be claimed
again are at most one more than the doubts. Doubt arises when a lease is overrun, or
a handler dies or fails, with the delivery unrecorded, and when the second update or
the acknowledgement of a recorded delivery throws.

**BillingRenewal.** That a period is charged once is an argument about the order of
attempts: `EarlierRefused` (the attempts before a payment, or before the next one,
were refused by YooKassa in a way that may be retried), `FirstAttempt` (a renewal
that is not to be retried is at attempt 0), `PastCharges` (charges are for periods
that have been, and one that was closed unsent is not scheduled again),
`ProviderAgrees` (rows and workers know only what YooKassa has), `AwaitedIsOpen` (the
charge that is awaited is open or refused, also during a pause), `InPeriod`,
`ConsentVoid` and `OneOpenCharge`. The proof has a lemma for each shape of step
(charges left alone, one settled, one created, an operation moved on) and one for
each action. `ChargedOnce`, `OpenOnce`, `WaitsForACharge`, `StaysWithdrawn` and
`SentInTime` follow. In `ContractRefined` the charge of a period is allowed because
`EarlierRefused` says of every other attempt of it that it was refused or does not
exist yet, and a period is credited once because a `SUCCEEDED` payment is never
written to another status.

### Only model-checked

- Liveness (`AlwaysSettles`, `EveryRowEnds`, `EveryJobEnds`, `PaidIsGranted`,
  `ReceiptFetched`, `EventSettles`): fairness and ENABLED are beyond the prover.

The models use no recursion, so nothing depends on induction over data.

## 6. Not modelled

- The services of section 1 marked as planned, and pure CRUD, HTTP and rendering.
- Payloads, texts, headers other than token and attempt, metrics and logs;
  redaction; the extra event about an unusable Telegram destination.
- Multi-part campaign Telegram messages and their checkpoint.
- In billing: reminders, retention, the WinCRM orders, referral rewards, the events
  that a successful payment publishes, and what each consumer does with a message.
- The reads of `extend` and `activate` before their writes: the model takes each as
  one step. A second disabling of a renewal that is already disabled keeps its old
  `disabledAt`; the model follows that.
- Clock skew between hosts in notification delivery (a retry that is handled by a
  host whose clock is behind would be dropped as too early); in `BackupJobs`
  triggers may come early.
- The end of deduplication after retention has deleted a published row.
- The scheduler's own alert and the calendar arithmetic of the daily tick.
