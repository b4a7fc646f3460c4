--------------------------- MODULE BillingRenewal ---------------------------
(***************************************************************************)
(* Auto-renewal of apps/billing, for one user who has agreed to it: the    *)
(* scheduler writes a recurring payment and a charge request at the end of *)
(* a paid period, the consumer of the request queues a CAPTURE_RECURRING   *)
(* operation, a provider worker charges the saved method, and refusals     *)
(* are retried after 24 and 72 hours, while the user, administrators, the  *)
(* price list, Identity and one-time payments change the renewal.          *)
(*                                                                         *)
(* A recurring payment is named by its recurringCycleKey: the period it    *)
(* extends and the attempt.  Periods are numbered by their ends, so cycle  *)
(* and sub stand for nextChargeAt and expiresAt.  An operation has one     *)
(* worker at a time and YooKassa never forgets a key: what leases and      *)
(* forgotten keys do is the subject of BillingCheckout, and so are the     *)
(* steps of a one-time checkout, which only is opened, closed and paid     *)
(* here.  A charge request can be delivered late and again at any time.    *)
(***************************************************************************)
EXTENDS Integers, FiniteSets

CONSTANTS
    Keys,               \* bound: the charges that are scheduled
    Retries,            \* length of AUTO_RENEWAL_RETRY_DELAYS_MS
    MaxCharges,         \* bound: how many of them
    MaxFaults,          \* bound: lost or late answers, errors, crashes
    MaxEvents           \* bound: faults, and acts of users, administrators, Identity

ASSUME BoundsAssumption ==
    /\ Retries \in Nat /\ Keys \subseteq Nat \X (0..Retries)
    /\ MaxCharges \in Nat /\ MaxFaults \in Nat /\ MaxEvents \in Nat

VARIABLES
    ren,        \* the auto_renewals row of the user
    sub,        \* number of the subscription's period (expiresAt)
    over,       \* that period is over: its end was charged
    pay,        \* the recurring payments
    op,         \* their CAPTURE_RECURRING operations
    job,        \* local state of the worker of each operation
    charges,    \* charge requests that are not acknowledged
    expired,    \* payments whose checkoutExpiresAt is over
    aged,       \* operations created 23 hours ago
    prov,       \* the payments at YooKassa
    checkout,   \* the one-time checkout
    tariff,     \* the price of the plan
    identity,   \* the user, as in BillingCheckout
    meanwhile,  \* what an administrator did while a charge was awaited (history)
    faults, acts    \* used budgets

queue  == <<charges, expired, aged>>
user   == <<identity, meanwhile>>
world  == <<tariff, user, faults, acts>>
vars   == <<ren, sub, over, pay, op, job, queue, prov, checkout, world>>

RenewalStatuses == {"ACTIVE", "ADMIN_PAUSED", "TECHNICAL_PAUSE",
                    "USER_DISABLED", "REVOKED"}
Prices == {"old", "new"}
Errors == {"before", "after", "retryable", "rejected", "lookup"}
Outcomes == {"pending", "succeeded", "retryable", "refused", "permission_revoked"}

NoPay == [status |-> "NONE", provider |-> "queued", bound |-> FALSE, same |-> FALSE]
NoOp  == [status |-> "NONE", attempt |-> 0, known |-> FALSE]
Idle  == [step |-> "idle", again |-> FALSE, result |-> ""]
NoCheckout == [state |-> "none", auto |-> FALSE, valid |-> FALSE,
               withdrawn |-> FALSE, amount |-> "old"]

Init ==
    /\ ren = [status |-> "ACTIVE", dispatch |-> FALSE, attempt |-> 0,
              retry |-> FALSE, cycle |-> 0, amount |-> "old", pending |-> "none",
              method |-> TRUE]
    /\ sub = 0 /\ over = FALSE
    /\ pay = [k \in Keys |-> NoPay]
    /\ op = [k \in Keys |-> NoOp]
    /\ job = [k \in Keys |-> Idle]
    /\ charges = {} /\ expired = {} /\ aged = {}
    /\ prov = [k \in Keys |-> "none"]
    /\ checkout = NoCheckout
    /\ tariff = "old" /\ identity = "ACTIVE" /\ meanwhile = {}
    /\ faults = 0 /\ acts = 0

Fault == faults < MaxFaults /\ faults + acts < MaxEvents /\ faults' = faults + 1
Act == faults + acts < MaxEvents /\ acts' = acts + 1
MayHaveReached(k) == \/ op[k].status \in {"PROCESSING", "UNKNOWN"}
                     \/ op[k].status = "PENDING" /\ op[k].attempt > 0
\* The payment the renewal is waiting for.
Current == <<ren.cycle, ren.attempt>>
Withdrawn == ren.status \in {"USER_DISABLED", "REVOKED"}

\* Writing disabledAt makes an earlier consent of a checkout void, clearing it
\* makes it good again; withdrawn remembers that the user or an administrator
\* has withdrawn the consent since.
Disables(withdrawal) == checkout' =
    [checkout EXCEPT !.valid = FALSE,
                     !.withdrawn = @ \/ (checkout.auto /\ withdrawal)]
Enables == checkout' = [checkout EXCEPT !.valid = checkout.auto]

\* pauseInvalidRenewal, and the pause of closeExpiredRecurringDispatch.
Paused == [ren EXCEPT !.status = "TECHNICAL_PAUSE", !.retry = FALSE,
                      !.dispatch = FALSE]
Reset(r) == [r EXCEPT !.attempt = 0, !.retry = FALSE, !.dispatch = FALSE]

-----------------------------------------------------------------------------
\* The scheduler

\* Mutant: only checkouts are looked at.
CheckoutBlocking == checkout.state = "open"
\* A payment that keeps the scheduler from charging.
Blocking ==
    \/ \E k \in Keys :
        \/ pay[k].status = "PENDING"
        \/ pay[k].status = "CANCELLED" /\ pay[k].provider = "pending"
    \/ checkout.state = "open"

\* scheduleRenewals picks the renewal when its date comes.
Due ==
    /\ ren.status = "ACTIVE" /\ ren.pending = "none" /\ ~ren.dispatch
    /\ ren.retry => ren.attempt \in 1..Retries

ScheduledKey == <<ren.cycle, IF ren.retry THEN ren.attempt ELSE 0>>

\* createRecurringIntent: one transaction under the locks of the user's rows.
\* The switches, the plan, the charge window and the contacts are not in the
\* model: any of them may pause a renewal that is due.
PauseInvalid ==
    /\ Due /\ Act
    /\ ren' = Paused /\ Disables(FALSE)
    /\ UNCHANGED <<sub, over, pay, op, job, queue, prov, tariff, user,
                   faults>>

RevokeInvalid ==
    /\ Due /\ identity = "DEACTIVATED"
    /\ ren' = Reset([ren EXCEPT !.status = "REVOKED", !.method = FALSE])
    /\ Disables(TRUE)
    /\ UNCHANGED <<sub, over, pay, op, job, queue, prov, world>>

CorrectDate ==
    /\ Due /\ identity # "DEACTIVATED" /\ ren.cycle # sub
    /\ ren' = LET r == [ren EXCEPT !.cycle = sub]
              IN IF ren.retry THEN Reset(r) ELSE r
    /\ UNCHANGED <<sub, over, pay, op, job, queue, prov, checkout, world>>

InTime == /\ Due /\ identity # "DEACTIVATED" /\ ren.cycle = sub
          /\ ScheduledKey \in Keys
          /\ Cardinality({k \in Keys : pay[k].status # "NONE"}) < MaxCharges

RequirePriceConfirmation ==
    /\ InTime /\ tariff # ren.amount
    /\ ren' = [ren EXCEPT !.pending = tariff]
    /\ UNCHANGED <<sub, over, pay, op, job, queue, prov, checkout, world>>

\* A payment that was closed before it was sent is taken up again, whatever
\* else is open.
Resumable(k) == pay[k].status = "CANCELLED" /\ pay[k].provider = "not_sent" /\ ~pay[k].bound
Chargeable(k) == Resumable(k) \/ (pay[k].status = "NONE" /\ ~Blocking)

\* A method is missing, the key has been used, or a payment is in the way.
PauseBlocked ==
    /\ InTime /\ tariff = ren.amount
    /\ ~(ren.method /\ Chargeable(ScheduledKey))
    /\ ren' = Paused /\ Disables(FALSE)
    /\ UNCHANGED <<sub, over, pay, op, job, queue, prov, world>>

\* enqueueCharge
CreateIntent ==
    /\ InTime /\ tariff = ren.amount
    /\ ren.method /\ Chargeable(ScheduledKey)
    /\ pay' = [pay EXCEPT ![ScheduledKey] =
                  [NoPay EXCEPT !.status = "PENDING", !.same = TRUE]]
    /\ charges' = charges \cup {ScheduledKey}
    /\ ren' = [ren EXCEPT !.dispatch = TRUE]
    /\ over' = TRUE
    /\ expired' = expired \ {ScheduledKey}
    /\ UNCHANGED <<sub, op, job, aged, prov, checkout, world>>

-----------------------------------------------------------------------------
\* The charge request

\* The renewal still waits for k, and k has one of the states ps at YooKassa.
Awaited(k, ps) ==
    /\ ren.status = "ACTIVE" /\ ren.dispatch /\ k = Current
    /\ pay[k].status = "PENDING" /\ ~pay[k].bound /\ pay[k].provider \in ps

\* closeExpiredRecurringDispatch, when nothing can have been sent.
CloseExpired(k) ==
    /\ op' = IF op[k].status = "NONE" THEN op
             ELSE [op EXCEPT ![k].status = "FAILED"]
    /\ pay' = [pay EXCEPT ![k].status = "CANCELLED", ![k].provider = "not_sent"]
    /\ ren' = Paused
    /\ Disables(FALSE)

\* deliverAutoRenewalCharge.  In the other cases the consumer fails and the
\* request stays, to be retried or looked at.
DeliverCharge(k) ==
    /\ k \in charges /\ Awaited(k, {"queued"})
    /\ \/ /\ k \notin expired
          /\ op' = IF op[k].status \in {"NONE", "FAILED"}
                   THEN [op EXCEPT ![k].status = "PENDING"] ELSE op
          /\ UNCHANGED <<pay, ren, checkout>>
       \/ /\ k \in expired
          /\ op[k].status = "NONE" \/ (op[k].status = "PENDING" /\ op[k].attempt = 0)
          /\ CloseExpired(k)
    /\ \/ charges' = charges \ {k} /\ UNCHANGED faults
       \/ Fault /\ UNCHANGED charges
    /\ UNCHANGED <<sub, over, job, expired, aged, prov, tariff, user,
                   acts>>

-----------------------------------------------------------------------------
\* What an answer of YooKassa does

\* Mutant: every refusal is retried.
AnyRefusal(reason) == reason # "permission_revoked"
\* isAutoRenewalRetryableCancellation
Retryable(reason) == reason = "retryable"

\* Mutant: one retry too many.
RetryWithoutLimit(k, reason) ==
    IF ren.status # "ACTIVE" \/ k # Current \/ ~pay[k].same
    THEN UNCHANGED <<ren, checkout>>
    ELSE /\ ren' = [ren EXCEPT !.attempt = k[2] + 1, !.retry = TRUE,
                               !.dispatch = FALSE]
         /\ Enables
\* Mutant: only a refusal that may be retried is noted.
IgnoreLastRefusal(k, reason) ==
    IF \/ ren.status # "ACTIVE" \/ k # Current \/ ~pay[k].same
       \/ ~Retryable(reason) \/ k[2] >= Retries
    THEN UNCHANGED <<ren, checkout>>
    ELSE /\ ren' = [ren EXCEPT !.attempt = k[2] + 1, !.retry = TRUE,
                               !.dispatch = FALSE]
         /\ Enables
\* applyRecurringCancellation
ApplyRecurringCancellation(k, reason) ==
    IF ren.status # "ACTIVE" \/ k # Current \/ ~pay[k].same
    THEN UNCHANGED <<ren, checkout>>
    ELSE \/ /\ Retryable(reason) /\ k[2] < Retries
            /\ ren' = [ren EXCEPT !.attempt = k[2] + 1, !.retry = TRUE,
                                  !.dispatch = FALSE]
            /\ Enables
         \/ /\ ~(Retryable(reason) /\ k[2] < Retries)
            /\ ren' = IF reason = "permission_revoked"
                      THEN [Paused EXCEPT !.status = "REVOKED", !.method = FALSE]
                      ELSE Paused
            /\ Disables(reason = "permission_revoked")

\* Mutant: an answer that is heard again adds another period.
ApplySuccessAgain(k) ==
    /\ pay' = [pay EXCEPT ![k].status = "SUCCEEDED",
                          ![k].provider = "succeeded", ![k].bound = TRUE]
    /\ sub' = sub + 1 /\ over' = FALSE
    /\ ren' = Reset([ren EXCEPT !.cycle = sub + 1])
    /\ UNCHANGED checkout
\* PaymentSuccessTransaction for a recurring payment: the next period, and a
\* renewal that waits for its end whatever its status is.
ApplySuccess(k) ==
    IF pay[k].status = "SUCCEEDED" THEN UNCHANGED <<pay, ren, sub, over, checkout>>
    ELSE /\ pay' = [pay EXCEPT ![k].status = "SUCCEEDED",
                               ![k].provider = "succeeded", ![k].bound = TRUE]
         /\ sub' = sub + 1 /\ over' = FALSE
         /\ ren' = Reset([ren EXCEPT !.cycle = sub + 1])
         /\ UNCHANGED checkout

MarkProviderCancelled(k, reason) ==
    /\ UNCHANGED <<sub, over>>
    /\ IF \/ pay[k].status = "SUCCEEDED"
          \/ pay[k].status = "CANCELLED" /\ pay[k].provider = "canceled"
       THEN UNCHANGED <<pay, ren, checkout>>
       ELSE /\ pay' = [pay EXCEPT ![k].status = "CANCELLED",
                                  ![k].provider = "canceled", ![k].bound = TRUE]
            /\ ApplyRecurringCancellation(k, reason)

BindProviderState(k) ==
    /\ pay' = [pay EXCEPT ![k].provider = "pending", ![k].bound = TRUE]
    /\ UNCHANGED <<ren, sub, over, checkout>>

ApplyProviderResponse(k, a) ==
    \/ a = "succeeded" /\ ApplySuccess(k)
    \/ a = "pending" /\ BindProviderState(k)
    \/ a \notin {"succeeded", "pending"} /\ MarkProviderCancelled(k, a)

\* A notification or a verification, whose answer may be an old one.
Verify(k) ==
    /\ prov[k] # "none"
    /\ \/ ApplyProviderResponse(k, prov[k]) /\ UNCHANGED faults
       \/ prov[k] # "pending" /\ Fault /\ ApplyProviderResponse(k, "pending")
    /\ UNCHANGED <<op, job, queue, prov, tariff, user, acts>>

ProviderSettles(k) ==
    /\ prov[k] = "pending"
    /\ \E a \in Outcomes \ {"pending"} : prov' = [prov EXCEPT ![k] = a]
    /\ UNCHANGED <<ren, sub, over, pay, op, job, queue, checkout, world>>

-----------------------------------------------------------------------------
\* The provider worker

Leaves(k) == job' = [job EXCEPT ![k] = Idle]
Holds(k, step, result) ==
    job' = [job EXCEPT ![k].step = step, ![k].result = result]

\* An operation whose worker has died is taken over when its lease is over.
Claim(k) ==
    /\ job[k].step = "idle" /\ op[k].status \in {"PENDING", "PROCESSING"}
    /\ op' = [op EXCEPT ![k].status = "PROCESSING", ![k].attempt = @ + 1]
    /\ job' = [job EXCEPT ![k] = [Idle EXCEPT !.step = "claimed",
                                     !.again = op[k].status = "PROCESSING"]]
    /\ UNCHANGED <<ren, sub, over, pay, queue, prov, checkout, world>>

\* settleProviderOperationTerminal with UNKNOWN
SettleUnknown(k, known) ==
    /\ op' = [op EXCEPT ![k].status = "UNKNOWN", ![k].known = @ \/ known]
    /\ pay' = [pay EXCEPT ![k].provider = "unknown"]
    /\ UNCHANGED <<ren, checkout>>
Fence(k) ==
    /\ op' = [op EXCEPT ![k].status = "FAILED"]
    /\ UNCHANGED <<pay, ren, checkout>>

PaymentFenced(k) == pay[k].status # "PENDING" \/ identity = "DEACTIVATED"
\* The window of the key has closed, or a claim was taken over too late.
TooLate(k) ==
    /\ ~pay[k].bound
    /\ \/ op[k].attempt > 1 /\ k \in aged
       \/ job[k].again /\ k \in expired
\* The renewal no longer wants this charge.
RenewalFenced(k) ==
    ~(Awaited(k, {"queued", "creating"}) /\ ren.pending = "none" /\ ren.method)
DispatchExpired(k) == k \in expired /\ op[k].attempt <= 1

\* The POST, which a repeated key answers with what is there; the mark
\* "creating" is part of the transaction and lost with it.
Post(k) ==
    prov' \in IF prov[k] = "none"
              THEN {[prov EXCEPT ![k] = a] : a \in Outcomes} ELSE {prov}
Call(k) ==
    \/ /\ Post(k) /\ Holds(k, "answered", prov'[k])
       /\ pay' = [pay EXCEPT ![k].provider = "creating"]
       /\ UNCHANGED faults
    \/ /\ Fault /\ UNCHANGED pay
       /\ \/ Post(k) /\ \/ Holds(k, "failed", "retryable")
                        \/ Holds(k, "failed", "after")
                        \/ Leaves(k)
          \/ UNCHANGED prov /\ \E e \in {"before", "retryable", "rejected"} :
                                  Holds(k, "failed", e)

\* createProviderPaymentUnderFence for CAPTURE_RECURRING
Dispatch(k) ==
    /\ job[k].step = "claimed"
    /\ \/ /\ \/ PaymentFenced(k) /\ Fence(k)
             \/ ~PaymentFenced(k) /\ TooLate(k) /\ SettleUnknown(k, FALSE)
             \/ /\ ~PaymentFenced(k) /\ ~TooLate(k) /\ ~pay[k].bound
                /\ RenewalFenced(k)
                /\ IF pay[k].provider \in {"creating", "unknown"}
                   THEN SettleUnknown(k, FALSE) ELSE Fence(k)
             \/ /\ ~PaymentFenced(k) /\ ~TooLate(k) /\ ~pay[k].bound
                /\ ~RenewalFenced(k) /\ DispatchExpired(k)
                /\ IF pay[k].provider = "creating"
                   THEN SettleUnknown(k, FALSE) ELSE CloseExpired(k)
          /\ Leaves(k)
          /\ UNCHANGED <<prov, faults>>
       \/ /\ ~PaymentFenced(k) /\ pay[k].bound
          /\ \/ Holds(k, "answered", prov[k]) /\ UNCHANGED faults
             \/ Fault /\ Holds(k, "failed", "lookup")
          /\ UNCHANGED <<op, pay, ren, checkout, prov>>
       \/ /\ ~PaymentFenced(k) /\ ~TooLate(k) /\ ~pay[k].bound
          /\ ~RenewalFenced(k) /\ ~DispatchExpired(k)
          /\ Call(k)
          /\ UNCHANGED <<op, ren, checkout>>
    /\ UNCHANGED <<sub, over, queue, tariff, user, acts>>

\* applyProviderResponse and the update of processOne, between which the
\* worker may die.
Apply(k) ==
    /\ job[k].step = "answered"
    /\ ApplyProviderResponse(k, job[k].result)
    /\ \/ op' = [op EXCEPT ![k].status = IF @ = "PROCESSING" THEN "SUCCEEDED" ELSE @]
          /\ UNCHANGED faults
       \/ Fault /\ UNCHANGED op
    /\ Leaves(k)
    /\ UNCHANGED <<queue, prov, tariff, user, acts>>

\* handleFailure; "lookup" is a GET of a payment whose id is known.
HandleFailure(k) ==
    LET e == job[k].result
    IN /\ job[k].step = "failed"
       /\ \/ /\ op[k].status # "PROCESSING"
             /\ UNCHANGED <<op, pay, ren, checkout>>
          \/ /\ op[k].status = "PROCESSING"
             /\ \/ /\ \/ e = "before" /\ ~job[k].again
                      \/ e = "lookup"
                      \/ e = "retryable" /\ k \notin aged
                   /\ op' = [op EXCEPT ![k].status = "PENDING",
                                       ![k].attempt = IF e = "before" THEN @ - 1 ELSE @]
                   /\ UNCHANGED <<pay, ren, checkout>>
                \/ /\ pay[k].status = "PENDING" /\ e = "rejected"
                   /\ op' = [op EXCEPT ![k].status = "FAILED"]
                   /\ pay' = [pay EXCEPT ![k].status = "CANCELLED",
                                         ![k].provider = "rejected"]
                   /\ ApplyRecurringCancellation(k, "PROVIDER_REJECTED")
                \/ /\ pay[k].status = "PENDING"
                   /\ \/ e = "before" /\ job[k].again
                      \/ e = "retryable" /\ k \in aged
                      \/ e = "after"
                   /\ IF pay[k].bound /\ e # "after"
                      THEN UNCHANGED <<op, pay, ren, checkout>>
                      ELSE SettleUnknown(k, e = "after")
                \/ /\ pay[k].status # "PENDING"
                   /\ \/ e \in {"rejected", "after"}
                      \/ e = "before" /\ job[k].again
                      \/ e = "retryable" /\ k \in aged
                   /\ UNCHANGED <<op, pay, ren, checkout>>
       /\ Leaves(k)
       /\ UNCHANGED <<sub, over, queue, prov, world>>

Crash(k) ==
    /\ job[k].step # "idle" /\ Fault
    /\ Leaves(k)
    /\ UNCHANGED <<ren, sub, over, pay, op, queue, prov, checkout, tariff, user, acts>>

-----------------------------------------------------------------------------
\* The user, administrators and Identity

\* clearFutureRecurringPayments and its copies: what may have been sent stays
\* open and is reconciled, the rest is cancelled.
Received(k) == pay[k].bound \/ MayHaveReached(k)
ClearFuture ==
    /\ op' = [k \in Keys |->
          IF pay[k].status = "PENDING" /\ op[k].status = "PENDING"
          THEN [op[k] EXCEPT !.status = IF Received(k) THEN "UNKNOWN" ELSE "FAILED"]
          ELSE op[k]]
    /\ pay' = [k \in Keys |->
          IF pay[k].status # "PENDING" THEN pay[k]
          ELSE IF Received(k) THEN [pay[k] EXCEPT !.provider = "unknown"]
          ELSE [pay[k] EXCEPT !.status = "CANCELLED", !.provider = "not_sent"]]

\* disableUserAutoRenewal; an administrator's revoke and the cancellation of
\* the subscription do the same with REVOKED.
Withdraw(status) ==
    /\ Act
    /\ ClearFuture
    /\ IF Withdrawn /\ ~(status = "REVOKED" /\ ren.status = "USER_DISABLED")
       THEN UNCHANGED <<ren, checkout>>
       ELSE /\ ren' = Reset([ren EXCEPT !.status = status, !.method = FALSE])
            /\ Disables(TRUE)
    /\ UNCHANGED <<sub, over, job, queue, prov, tariff, user, faults>>

\* A new consent, which no payment of the renewal was made under.
Reconsent == pay' = [k \in Keys |-> [pay[k] EXCEPT !.same = FALSE]]

ConfirmPrice ==
    /\ Act
    /\ ren.pending = tariff /\ ~Withdrawn /\ identity # "DEACTIVATED"
    /\ ren' = [ren EXCEPT !.amount = tariff, !.pending = "none"]
    /\ Reconsent
    /\ UNCHANGED <<sub, over, op, job, queue, prov, checkout, tariff, user, faults>>

Noted(act) == meanwhile' = IF ren.dispatch THEN meanwhile \cup {act} ELSE meanwhile

\* adminRenewalAction (its resume-technical is for an error that this version
\* of the code never writes)
AdminPause ==
    /\ Act /\ ren.status = "ACTIVE"
    /\ ren' = [ren EXCEPT !.status = "ADMIN_PAUSED"] /\ Disables(FALSE)
    /\ UNCHANGED <<sub, over, pay, op, job, queue, prov, tariff, user,
                   faults>>
AdminResume ==
    /\ ren.status = "ADMIN_PAUSED"
    /\ identity # "DEACTIVATED" /\ ~over /\ ren.method
    /\ ren.pending = "none" /\ tariff = ren.amount
    /\ ren' = [ren EXCEPT !.status = "ACTIVE"] /\ Enables
    /\ Noted("resumed")
    /\ UNCHANGED <<sub, over, pay, op, job, queue, prov, tariff, identity, faults, acts>>

\* activate and extend add days to the subscription and leave the renewal alone.
AdminExtend ==
    /\ Act /\ identity # "DEACTIVATED"
    /\ sub' = sub + 1 /\ over' = FALSE
    /\ Noted("extended")
    /\ UNCHANGED <<ren, pay, op, job, queue, prov, checkout, tariff, identity, faults>>

\* reconcile: the verifications it queues are Verify.
Reconcile ==
    /\ ren' = [ren EXCEPT !.pending = IF tariff # ren.amount THEN tariff ELSE @,
                          !.status = IF ~ren.method /\ ~Withdrawn
                                     THEN "TECHNICAL_PAUSE" ELSE @]
    /\ IF ren'.status # ren.status THEN Disables(FALSE) ELSE UNCHANGED checkout
    /\ UNCHANGED <<sub, over, pay, op, job, queue, prov, world>>

\* An administrator changes the price of the plan.
UpdatePrice(price) ==
    /\ Act /\ tariff' = price /\ tariff # price
    /\ ren' = IF Withdrawn THEN ren
              ELSE [ren EXCEPT !.pending = IF price = ren.amount THEN "none" ELSE price]
    /\ UNCHANGED <<sub, over, pay, op, job, queue, prov, checkout, user, faults>>

\* resolveUnknownProviderPayment
ResolveUnknown(k) ==
    /\ k \in expired /\ pay[k].status = "PENDING" /\ ~pay[k].bound
    /\ pay[k].provider \in {"creating", "unknown"}
    /\ op[k].status = "UNKNOWN" /\ ~op[k].known
    /\ prov[k] = "none"
    /\ op' = [op EXCEPT ![k].status = "FAILED"]
    /\ pay' = [pay EXCEPT ![k].status = "CANCELLED", ![k].provider = "not_found"]
    /\ ApplyRecurringCancellation(k, "MANUAL_UNKNOWN_PROVIDER")
    /\ UNCHANGED <<sub, over, job, queue, prov, world>>

\* revokeBeforeDeactivate keeps the retry of the renewal.
RevokeBeforeDeactivate ==
    /\ Act /\ identity = "ACTIVE"
    /\ identity' = "REVOKED"
    /\ ClearFuture
    /\ ren' = [ren EXCEPT !.status = "REVOKED", !.method = FALSE, !.dispatch = FALSE]
    /\ Disables(TRUE)
    /\ UNCHANGED <<sub, over, job, queue, prov, tariff, meanwhile, faults>>

ApplyIdentity ==
    /\ \/ identity = "REVOKED" /\ identity' = "DEACTIVATED"
       \/ identity = "DEACTIVATED" /\ identity' = "ACTIVE"
    /\ UNCHANGED <<ren, sub, over, pay, op, job, queue, prov, checkout, tariff, meanwhile,
                   faults, acts>>

-----------------------------------------------------------------------------
\* One-time checkouts

OpenCheckout(auto) ==
    /\ Act
    /\ checkout.state \in {"none", "closed"} /\ identity # "DEACTIVATED"
    /\ \A k \in Keys : pay[k].status # "PENDING"
    /\ checkout' = [state |-> "open", auto |-> auto, valid |-> auto,
                    withdrawn |-> FALSE, amount |-> IF auto THEN tariff ELSE "old"]
    /\ UNCHANGED <<ren, sub, over, pay, op, job, queue, prov, tariff, user, faults>>

\* The checkout's hour is over; then it is cancelled or expired, and a late
\* payment does not bring its consent back.
CheckoutEnds ==
    /\ \/ checkout.state = "open" /\ checkout' = [checkout EXCEPT !.state = "due"]
       \/ /\ checkout.state \in {"open", "due"}
          /\ checkout' = [NoCheckout EXCEPT !.state = "closed"]
    /\ UNCHANGED <<ren, sub, over, pay, op, job, queue, prov, world>>

\* Mutant: the consent of the checkout is taken whenever it was given.
Renews == checkout.auto
\* The consent of the checkout starts the renewal again.
Restarts == checkout.auto /\ (ren.status = "ACTIVE" \/ checkout.valid)

\* Mutant: a one-time payment leaves the renewal alone.
PaidWithoutReset ==
    /\ checkout.state # "none"
    /\ sub' = sub + 1 /\ over' = FALSE
    /\ checkout' = NoCheckout
    /\ UNCHANGED <<ren, pay, op, job, queue, prov, world>>
\* PaymentSuccessTransaction for a one-time payment, which may be paid late.
CheckoutPaid ==
    /\ checkout.state # "none"
    /\ sub' = sub + 1 /\ over' = FALSE
    /\ checkout' = NoCheckout
    /\ \/ /\ Restarts
          /\ ren' = [status |-> "ACTIVE", dispatch |-> FALSE, attempt |-> 0,
                     retry |-> FALSE, cycle |-> sub + 1, amount |-> checkout.amount,
                     pending |-> "none", method |-> TRUE]
          /\ Reconsent
       \/ /\ ~Restarts
          /\ ren' = IF ren.status # "ACTIVE" THEN ren
                    ELSE Reset([ren EXCEPT !.cycle = sub + 1])
          /\ UNCHANGED pay
    /\ UNCHANGED <<op, job, queue, prov, world>>

-----------------------------------------------------------------------------
\* Time, which passes when something is about to look at it

DispatchDeadline(k) ==
    /\ pay[k].status = "PENDING" /\ ~pay[k].bound /\ k \notin expired
    /\ k \in charges \/ job[k].step \in {"claimed", "failed"} \/ op[k].status = "UNKNOWN"
    /\ expired' = expired \cup {k}
    /\ UNCHANGED <<ren, sub, over, pay, op, job, charges, aged, prov, checkout, world>>
WindowCloses(k) ==
    /\ k \in expired \ aged /\ ~pay[k].bound
    /\ \/ job[k].step = "claimed" /\ op[k].attempt > 1
       \/ job[k].step = "failed" /\ job[k].result = "retryable"
    /\ aged' = aged \cup {k}
    /\ UNCHANGED <<ren, sub, over, pay, op, job, charges, expired, prov, checkout, world>>

Next ==
    \/ PauseInvalid \/ RevokeInvalid \/ CorrectDate \/ RequirePriceConfirmation
    \/ PauseBlocked \/ CreateIntent
    \/ \E k \in Keys :
        \/ DeliverCharge(k) \/ ProviderSettles(k) \/ Verify(k)
        \/ Claim(k) \/ Dispatch(k) \/ Apply(k) \/ HandleFailure(k) \/ Crash(k)
        \/ ResolveUnknown(k) \/ DispatchDeadline(k) \/ WindowCloses(k)
    \/ \E s \in {"USER_DISABLED", "REVOKED"} : Withdraw(s)
    \/ ConfirmPrice \/ AdminPause \/ AdminResume \/ AdminExtend \/ Reconcile
    \/ \E p \in Prices : UpdatePrice(p)
    \/ RevokeBeforeDeactivate \/ ApplyIdentity
    \/ \E auto \in BOOLEAN : OpenCheckout(auto)
    \/ CheckoutEnds \/ CheckoutPaid

Spec == Init /\ [][Next]_vars

-----------------------------------------------------------------------------
TypeOK ==
    /\ ren \in [status: RenewalStatuses, dispatch: BOOLEAN, attempt: 0..Retries,
                retry: BOOLEAN, cycle: Nat, amount: Prices,
                pending: Prices \cup {"none"}, method: BOOLEAN]
    /\ sub \in Nat /\ over \in BOOLEAN
    /\ pay \in [Keys -> [status: {"NONE", "PENDING", "SUCCEEDED", "CANCELLED"},
                         provider: {"queued", "creating", "unknown", "pending",
                                    "rejected", "not_sent", "not_found", "canceled",
                                    "succeeded"},
                         bound: BOOLEAN, same: BOOLEAN]]
    /\ op \in [Keys -> [status: {"NONE", "PENDING", "PROCESSING", "SUCCEEDED",
                                 "FAILED", "UNKNOWN"},
                        attempt: Nat, known: BOOLEAN]]
    /\ job \in [Keys -> [step: {"idle", "claimed", "answered", "failed"}, again: BOOLEAN,
                         result: Outcomes \cup Errors \cup {""}]]
    /\ charges \subseteq Keys /\ expired \subseteq Keys /\ aged \subseteq Keys
    /\ prov \in [Keys -> Outcomes \cup {"none"}]
    /\ checkout \in [state: {"none", "open", "due", "closed"}, auto: BOOLEAN,
                     valid: BOOLEAN, withdrawn: BOOLEAN, amount: Prices]
    /\ tariff \in Prices /\ identity \in {"ACTIVE", "REVOKED", "DEACTIVATED"}
    /\ meanwhile \subseteq {"resumed", "extended"}
    /\ faults \in 0..MaxFaults /\ acts \in 0..MaxEvents

\* However charges are retried, repeated, lost, taken over and reconciled, and
\* whatever the user and administrators do meanwhile, YooKassa holds money for
\* the end of one period at most once (applyRecurringCancellation moves to the
\* next attempt only when the last one is known to be refused).
OneChargePerCycle == \A k, l \in Keys :
    k[1] = l[1] /\ {prov[k], prov[l]} \subseteq {"pending", "succeeded"} => k = l

\* At most one recurring payment of the user is open.
OneOpenCharge == \A k, l \in Keys :
    pay[k].status = "PENDING" /\ pay[l].status = "PENDING" => k = l

\* Something will still end the payment the renewal waits for: its request,
\* its operation, or a verification of its id.
Carried(k) ==
    /\ pay[k].status = "PENDING"
    /\ \/ k \in charges \/ pay[k].bound
       \/ op[k].status \in {"PENDING", "PROCESSING", "UNKNOWN"}

\* Nothing will: the worker has fenced the operation, for a price that was to
\* be confirmed or a pause; or the refusal came when the user had confirmed
\* another price, or while an administrator had paused the renewal, and was
\* not applied to it.
Stranded(k) == \/ pay[k].status = "PENDING" /\ op[k].status = "FAILED"
               \/ pay[k].status = "CANCELLED" /\ (~pay[k].same \/ "resumed" \in meanwhile)

\* While dispatchPending keeps the scheduler away, the charge it stands for is
\* on its way, but for the three ways in which it is stranded.
DispatchIsCarried ==
    ren.status = "ACTIVE" /\ ren.dispatch => Carried(Current) \/ Stranded(Current)

\* A renewal that was disabled or revoked comes back only by a consent that
\* was given after that.
NotReactivated == [][
    Withdrawn /\ ren'.status = "ACTIVE"
        => checkout.auto /\ ~checkout.withdrawn]_vars

\* A charge is sent for the first time only for a period that nothing has
\* extended since it was scheduled, unless an administrator has extended the
\* subscription or resumed the renewal in between: the worker does not compare
\* expiresAt with the date of the charge, and a one-time payment resets the
\* renewal only while it is ACTIVE.
ChargedAtTheEnd == [][\A k \in Keys :
    prov[k] = "none" /\ prov'[k] # "none" => sub = k[1] \/ meanwhile # {}]_vars

\* The renewal as the user sees it.
Credited == {k \in Keys : pay[k].status = "SUCCEEDED"}
Mode == IF ren.status = "ACTIVE" THEN "on"
        ELSE IF Withdrawn THEN "withdrawn" ELSE "paused"
Contract == INSTANCE RenewalContract WITH
    Charges <- Keys, money <- prov, credited <- Credited, period <- sub,
    mode <- Mode, basket <- checkout.state # "none"

\* Scheduler, consumer, worker, notifications, users and administrators
\* together keep the contract of a renewal: a period is charged once and only
\* while the renewal is on, and the subscription is extended once for each
\* charge that was paid, by the worker or by whoever hears of it first.
ImplementsContract == Contract!Spec
=============================================================================
