-------------------------- MODULE BillingCheckout ---------------------------
(***************************************************************************)
(* One-time payments of apps/billing: a checkout is a payment row and a    *)
(* CREATE_CHECKOUT provider operation, written together; provider workers  *)
(* (billing-provider-worker.service.ts) claim operations under a lease     *)
(* that is not renewed, call YooKassa and apply its answer                 *)
(* (payment-domain.service.ts, payment-success.transaction.ts).            *)
(*                                                                         *)
(* The payments are those of one user.  A lease token is the worker that   *)
(* drew it: a worker processes one operation at a time, so an old claim    *)
(* never meets a newer one of the same worker.  Time is three facts about  *)
(* a payment or an operation: its checkout has expired ("due", after an    *)
(* hour at most), the idempotency window of 23 hours has closed on the     *)
(* operation ("aged"), its lease is over ("lapsed").  YooKassa keeps an    *)
(* idempotency key for 24 hours.  The renewal, the referral and the events *)
(* that a successful payment also writes are outside this module.          *)
(***************************************************************************)
EXTENDS Integers, FiniteSets

CONSTANTS
    Payments,           \* payment ids
    Workers,            \* provider workers
    Lookups,            \* operations that only read at YooKassa
    MaxFaults,          \* bound: lost answers, errors, crashes, overruns
    MaxBlocks           \* bound: times the user is deactivated

Kinds == {"create", "webhook", "verify", "receipt"}

ASSUME LookupsAssumption == Lookups \subseteq Kinds \ {"create"}
ASSUME BoundsAssumption == MaxFaults \in Nat /\ MaxBlocks \in Nat

VARIABLES
    pay,        \* of each payment: status, providerStatus, yookassaId is set
    op,         \* of each operation: status, attempt, leaseToken, known id
    due,        \* payments whose checkoutExpiresAt is over
    aged,       \* operations created 23 hours ago
    lapsed,     \* operations whose leaseUntil is over
    prov,       \* the payment at YooKassa
    forgotten,  \* payments whose idempotency key YooKassa has dropped
    identity,   \* the user: "ACTIVE", "REVOKED" (of entitlements), "DEACTIVATED"
    proc,       \* local state of the workers
    faults,     \* used budget of faults
    blocks,     \* used budget of deactivations
    created,    \* payments YooKassa created for each payment (history)
    grants      \* periods granted for each payment (history)

clock == <<due, aged>>
bank  == <<prov, forgotten>>
vars  == <<pay, op, clock, lapsed, bank, identity, proc, faults, blocks,
           created, grants>>

Ops == (Lookups \cup {"create"}) \X Payments
Nobody == "nobody"

Statuses == {"NONE", "PENDING", "SUCCEEDED", "CANCELLED", "EXPIRED"}
ProviderStatuses == {"creating", "unknown", "pending", "rejected", "not_sent",
                     "not_found", "canceled", "succeeded"}
OpStatuses == {"NONE", "PENDING", "PROCESSING", "SUCCEEDED", "FAILED", "UNKNOWN"}
Answers == {"pending", "succeeded", "canceled"}
\* Why process threw: before the call, the call's outcome is unknown or may be
\* retried, YooKassa rejected it, or its answer could not be recorded.
Failures == {"before", "retryable", "rejected", "after"}

NoPayment == [status |-> "NONE", provider |-> "creating", bound |-> FALSE]
NoOp == [status |-> "NONE", attempt |-> 0, owner |-> Nobody, known |-> FALSE]
Queued == [NoOp EXCEPT !.status = "PENDING"]
Idle == [pc |-> "idle", o |-> <<>>, again |-> FALSE, answer |-> "",
         error |-> "", known |-> FALSE]

Create(p) == <<"create", p>>
At(w, step) == proc[w].pc = step
Go(w, step) == proc' = [proc EXCEPT ![w].pc = step]
Done(w) == proc' = [proc EXCEPT ![w] = Idle]
Fault == faults < MaxFaults /\ faults' = faults + 1
\* The claim w made is still the one in the row.
Owns(w) == LET o == proc[w].o
           IN op[o].status = "PROCESSING" /\ op[o].owner = w
\* providerOperationMayHaveReachedProvider
MayHaveReached(o) == \/ op[o].status \in {"PROCESSING", "UNKNOWN"}
                     \/ op[o].status = "PENDING" /\ op[o].attempt > 0

Released(o, s) == [op EXCEPT ![o].status = s, ![o].owner = Nobody]

Init ==
    /\ pay = [p \in Payments |-> NoPayment]
    /\ op = [o \in Ops |-> NoOp]
    /\ due = {} /\ aged = {} /\ lapsed = {}
    /\ prov = [p \in Payments |-> "none"]
    /\ forgotten = {}
    /\ identity = "ACTIVE"
    /\ proc = [w \in Workers |-> Idle]
    /\ faults = 0 /\ blocks = 0
    /\ created = [p \in Payments |-> 0]
    /\ grants = [p \in Payments |-> 0]

-----------------------------------------------------------------------------
\* The user and the administrators

\* Mutant: only payments that are not due stand in the way.
BlockingFresh(p) == pay[p].status = "PENDING" /\ p \notin due

\* A payment that stands in the way of another checkout.  The operation of a
\* notification has the id at YooKassa, not the payment's.
Blocking(p) ==
    /\ pay[p].status = "PENDING"
    /\ \/ p \notin due
       \/ \E o \in Ops : o[2] = p /\ o[1] # "webhook" /\ MayHaveReached(o)

\* The identity row is locked while the payment and its operation are written.
CreatePayment(p) ==
    /\ identity # "DEACTIVATED"
    /\ pay[p].status = "NONE"
    /\ \A q \in Payments : ~Blocking(q)
    /\ pay' = [pay EXCEPT ![p].status = "PENDING"]
    /\ op' = [op EXCEPT ![Create(p)] = Queued]
    /\ UNCHANGED <<clock, lapsed, bank, identity, proc, faults, blocks, created,
                   grants>>

\* Mutant: a request that waits for its retry counts as never sent.
CancelPendingTried(p) ==
    /\ pay[p].status = "PENDING" /\ ~pay[p].bound
    /\ op[Create(p)].status = "PENDING"
    /\ op' = [op EXCEPT ![Create(p)].status = "FAILED"]
    /\ pay' = [pay EXCEPT ![p].status = "CANCELLED", ![p].provider = "not_sent"]
    /\ UNCHANGED <<clock, lapsed, bank, identity, proc, faults, blocks, created,
                   grants>>

CancelPending(p) ==
    /\ pay[p].status = "PENDING" /\ ~pay[p].bound
    /\ op[Create(p)].status = "PENDING" /\ op[Create(p)].attempt = 0
    /\ op' = [op EXCEPT ![Create(p)].status = "FAILED"]
    /\ pay' = [pay EXCEPT ![p].status = "CANCELLED", ![p].provider = "not_sent"]
    /\ UNCHANGED <<clock, lapsed, bank, identity, proc, faults, blocks, created,
                   grants>>

\* Mutant: a checkout that was tried before expires like a fresh one.
SettleExpiredTried(p) ==
    /\ p \in due /\ pay[p].status = "PENDING" /\ ~pay[p].bound
    /\ op[Create(p)].status \in {"PENDING", "FAILED"}
    /\ op' = [op EXCEPT ![Create(p)].status = "FAILED"]
    /\ pay' = [pay EXCEPT ![p].status = "EXPIRED"]
    /\ UNCHANGED <<clock, lapsed, bank, identity, proc, faults, blocks, created,
                   grants>>

\* settleExpiredCheckoutUnderLock, run before every create and by an
\* administrator.
SettleExpired(p) ==
    /\ p \in due /\ pay[p].status = "PENDING" /\ ~pay[p].bound
    /\ op[Create(p)].status \in {"PENDING", "FAILED"}
    /\ IF MayHaveReached(Create(p))
       THEN /\ Create(p) \in aged
            /\ op' = [op EXCEPT ![Create(p)].status = "UNKNOWN"]
            /\ pay' = [pay EXCEPT ![p].provider = "unknown"]
       ELSE /\ op' = [op EXCEPT ![Create(p)].status = "FAILED"]
            /\ pay' = [pay EXCEPT ![p].status = "EXPIRED"]
    /\ UNCHANGED <<clock, lapsed, bank, identity, proc, faults, blocks, created,
                   grants>>

\* A verification operation of its own key for a payment whose id at YooKassa
\* is known: by verify, reconcile and adminCheck.  One at a time here.
QueueVerification(p) ==
    LET o == <<"verify", p>>
    IN /\ o \in Ops
       /\ \/ pay[p].bound /\ pay[p].status # "SUCCEEDED"
          \/ op[Create(p)].status = "UNKNOWN" /\ op[Create(p)].known
       /\ op[o].status \notin {"PENDING", "PROCESSING"}
       /\ op' = [op EXCEPT ![o] = Queued]
       /\ aged' = aged \ {o}
       /\ UNCHANGED <<pay, due, lapsed, bank, identity, proc, faults, blocks,
                      created, grants>>

\* resolveUnknownProviderPayment: somebody has looked for the payment at
\* YooKassa and confirms that there is none.
ResolveUnknown(p) ==
    /\ p \in due /\ pay[p].status = "PENDING" /\ ~pay[p].bound
    /\ pay[p].provider \in {"creating", "unknown"}
    /\ op[Create(p)].status = "UNKNOWN" /\ ~op[Create(p)].known
    /\ prov[p] = "none"
    /\ op' = Released(Create(p), "FAILED")
    /\ pay' = [pay EXCEPT ![p].status = "CANCELLED", ![p].provider = "not_found"]
    /\ UNCHANGED <<clock, lapsed, bank, identity, proc, faults, blocks, created,
                   grants>>

\* The operation of p that was created last: a verification, if there is one.
Latest(p) == IF <<"verify", p>> \in Ops /\ op[<<"verify", p>>].status # "NONE"
             THEN <<"verify", p>> ELSE Create(p)
MayHaveReceived(p) == pay[p].bound \/ MayHaveReached(Latest(p))

\* revokeBeforeDeactivate, which Identity calls before it deactivates the user.
RevokeBeforeDeactivate ==
    LET open == {p \in Payments : pay[p].status = "PENDING"}
        queued == {o \in Ops : /\ o[2] \in open /\ o = Latest(o[2])
                               /\ op[o].status = "PENDING"}
    IN /\ identity = "ACTIVE" /\ blocks < MaxBlocks
       /\ identity' = "REVOKED" /\ blocks' = blocks + 1
       /\ op' = [o \in Ops |-> IF o \notin queued THEN op[o]
                 ELSE [op[o] EXCEPT !.status = IF MayHaveReceived(o[2])
                                               THEN "UNKNOWN" ELSE "FAILED"]]
       /\ pay' = [p \in Payments |->
             IF p \notin open THEN pay[p]
             ELSE IF MayHaveReceived(p) THEN [pay[p] EXCEPT !.provider = "unknown"]
             ELSE [pay[p] EXCEPT !.status = "CANCELLED", !.provider = "not_sent"]]
       /\ UNCHANGED <<clock, lapsed, bank, proc, faults, created, grants>>

\* The projection learns that the user is deactivated, or let in again.
ApplyIdentity ==
    /\ \/ identity = "REVOKED" /\ identity' = "DEACTIVATED"
       \/ identity = "DEACTIVATED" /\ identity' = "ACTIVE"
    /\ UNCHANGED <<pay, op, clock, lapsed, bank, proc, faults, blocks, created,
                   grants>>

-----------------------------------------------------------------------------
\* YooKassa

\* The user pays on the page whose address the bound payment has.
UserPays(p) ==
    /\ prov[p] = "pending" /\ pay[p].bound
    /\ prov' = [prov EXCEPT ![p] = "succeeded"]
    /\ UNCHANGED <<pay, op, clock, lapsed, forgotten, identity, proc, faults,
                   blocks, created, grants>>

ProviderCancels(p) ==
    /\ prov[p] = "pending"
    /\ prov' = [prov EXCEPT ![p] = "canceled"]
    /\ UNCHANGED <<pay, op, clock, lapsed, forgotten, identity, proc, faults,
                   blocks, created, grants>>

\* A day after the first request the key no longer finds its payment.
ProviderForgets(p) ==
    /\ Create(p) \in aged /\ prov[p] # "none"
    /\ forgotten' = forgotten \cup {p}
    /\ UNCHANGED <<pay, op, clock, lapsed, prov, identity, proc, faults, blocks,
                   created, grants>>

\* A notification, possibly repeated: the operation of the provider's id is
\* created, or armed again unless a worker has it.
Webhook(p) ==
    LET o == <<"webhook", p>>
    IN /\ o \in Ops
       /\ prov[p] \in {"succeeded", "canceled"}
       /\ op[o].status \notin {"PENDING", "PROCESSING"}
       /\ op' = [op EXCEPT ![o].status = "PENDING"]
       /\ UNCHANGED <<pay, clock, lapsed, bank, identity, proc, faults, blocks,
                      created, grants>>

-----------------------------------------------------------------------------
\* Time

CheckoutExpires(p) ==
    /\ pay[p].status # "NONE" /\ p \notin due
    /\ due' = due \cup {p}
    /\ UNCHANGED <<pay, op, aged, lapsed, bank, identity, proc, faults, blocks,
                   created, grants>>

WindowCloses(o) ==
    /\ op[o].status # "NONE" /\ o \notin aged
    /\ o[1] # "receipt" /\ o[2] \in due
    /\ aged' = aged \cup {o}
    /\ UNCHANGED <<pay, op, due, lapsed, bank, identity, proc, faults, blocks,
                   created, grants>>

\* The lease is not renewed: a slow worker can overrun it.
LeaseLapses(o) ==
    /\ op[o].status = "PROCESSING" /\ o \notin lapsed
    /\ IF op[o].owner \in Workers /\ proc[op[o].owner].o = o
       THEN Fault ELSE faults' = faults
    /\ lapsed' = lapsed \cup {o}
    /\ UNCHANGED <<pay, op, clock, bank, identity, proc, blocks, created, grants>>

-----------------------------------------------------------------------------
\* The provider worker

\* Mutant: the operation of a worker that died is not taken over.
ClaimPendingOnly(w, o) ==
    /\ At(w, "idle")
    /\ op[o].status = "PENDING"
    /\ op' = [op EXCEPT ![o].status = "PROCESSING", ![o].owner = w,
                        ![o].attempt = IF o[1] = "create" THEN @ + 1 ELSE 1]
    /\ proc' = [proc EXCEPT ![w] =
                  [Idle EXCEPT !.pc = IF o[1] = "create" THEN "dispatch" ELSE "read",
                               !.o = o]]
    /\ UNCHANGED <<pay, clock, lapsed, bank, identity, faults, blocks, created, grants>>

\* The attempts of lookups only pace them: one or more are the same.
Claim(w, o) ==
    /\ At(w, "idle")
    /\ \/ op[o].status = "PENDING"
       \/ op[o].status = "PROCESSING" /\ o \in lapsed
    /\ op' = [op EXCEPT ![o].status = "PROCESSING", ![o].owner = w,
                        ![o].attempt = IF o[1] = "create" THEN @ + 1 ELSE 1]
    /\ lapsed' = lapsed \ {o}
    /\ proc' = [proc EXCEPT ![w] =
                  [Idle EXCEPT !.pc = IF o[1] = "create" THEN "dispatch" ELSE "read",
                               !.o = o, !.again = op[o].status = "PROCESSING"]]
    /\ UNCHANGED <<pay, clock, bank, identity, faults, blocks, created, grants>>

\* w has an answer of YooKassa in hand, or the reason it has none.
Answered(w, a) == proc' = [proc EXCEPT ![w].pc = "apply", ![w].answer = a]
Failed(w, e, id) ==
    proc' = [proc EXCEPT ![w].pc = "fail", ![w].error = e, ![w].known = id]

\* fenceProviderOperation
Fence(w) ==
    /\ op' = IF Owns(w) THEN Released(proc[w].o, "FAILED") ELSE op
    /\ Done(w)
    /\ UNCHANGED <<pay, prov, faults, created>>

\* settleProviderOperationTerminal leaves the payment open and the operation
\* to be reconciled, with the id of the payment at YooKassa if it is known.
SettleUnknown(w, known) ==
    LET o == proc[w].o
    IN /\ op' = [Released(o, "UNKNOWN") EXCEPT ![o].known = @ \/ known]
       /\ pay' = [pay EXCEPT ![o[2]].provider = "unknown"]

\* What a POST under the payment's idempotency key does at YooKassa.
Post(p) ==
    LET new == prov[p] = "none" \/ p \in forgotten
    IN /\ created' = [created EXCEPT ![p] = IF new THEN @ + 1 ELSE @]
       /\ prov' = [prov EXCEPT ![p] = IF new THEN "pending" ELSE @]

\* The checks made under the locks, in their order, before anything is sent.
Fenced(w) ==
    LET o == proc[w].o
    IN ~Owns(w) \/ pay[o[2]].status # "PENDING" \/ identity = "DEACTIVATED"
\* Mutant: the age of an operation that was tried before is not checked.
WindowNeverCloses(w) == FALSE

WindowClosed(w) ==
    LET o == proc[w].o
    IN ~pay[o[2]].bound /\ op[o].attempt > 1 /\ o \in aged
StaleClaim(w) ==
    LET o == proc[w].o
    IN ~pay[o[2]].bound /\ proc[w].again /\ o[2] \in due
CheckoutFenced(w) ==
    LET o == proc[w].o
    IN o[2] \in due /\ op[o].attempt <= 1

\* The call and what can become of it: answered, answered but lost, rejected,
\* or a crash of the worker before its answer is recorded.
Call(w, p) ==
    \/ Post(p) /\ Answered(w, prov'[p]) /\ UNCHANGED faults
    \/ Fault /\ Post(p) /\ Failed(w, "retryable", FALSE)
    \/ Fault /\ UNCHANGED <<prov, created>> /\ Failed(w, "retryable", FALSE)
    \/ Fault /\ UNCHANGED <<prov, created>> /\ Failed(w, "rejected", FALSE)
    \/ Fault /\ Post(p) /\ Failed(w, "after", TRUE)
    \/ Fault /\ Post(p) /\ Done(w)
GetPayment(w, p) ==
    /\ UNCHANGED <<prov, created>>
    /\ \/ Answered(w, prov[p]) /\ UNCHANGED faults
       \/ Fault /\ \E e \in {"retryable", "rejected", "after"} : Failed(w, e, TRUE)

\* createProviderPaymentUnderFence: one transaction that locks the payment and
\* the operation and holds the locks during the call.
Dispatch(w) ==
    LET o == proc[w].o
        p == proc[w].o[2]
    IN /\ At(w, "dispatch")
       /\ \/ /\ Fenced(w)
             /\ Fence(w)
          \/ /\ ~Fenced(w)
             /\ WindowClosed(w) \/ StaleClaim(w)
             /\ SettleUnknown(w, FALSE)
             /\ Done(w)
             /\ UNCHANGED <<prov, faults, created>>
          \/ /\ ~Fenced(w) /\ pay[p].bound
             /\ GetPayment(w, p)
             /\ UNCHANGED <<pay, op>>
          \/ /\ ~Fenced(w) /\ ~WindowClosed(w) /\ ~StaleClaim(w) /\ ~pay[p].bound
             /\ \/ CheckoutFenced(w) /\ Fence(w)
                \/ /\ ~CheckoutFenced(w)
                   /\ \/ Call(w, p)
                      \/ Fault /\ Failed(w, "before", FALSE) /\ UNCHANGED <<prov, created>>
                   /\ UNCHANGED <<pay, op>>
       /\ lapsed' = {x \in lapsed : op'[x].status = "PROCESSING"}
       /\ UNCHANGED <<clock, forgotten, identity, blocks, grants>>

\* getPayment of a verification, getReceipts of a receipt: the answer may be
\* old when it is applied.
Read(w) ==
    LET o == proc[w].o
    IN /\ At(w, "read")
       /\ \/ o[1] # "receipt" /\ Answered(w, prov[o[2]]) /\ UNCHANGED faults
          \/ o[1] = "receipt" /\ UNCHANGED faults
             /\ \E a \in Answers : Answered(w, a)
          \/ Fault /\ \E e \in {"retryable", "rejected"} : Failed(w, e, FALSE)
       /\ UNCHANGED <<pay, op, clock, lapsed, bank, identity, blocks, created, grants>>

\* Mutant: a payment that has succeeded is not recognised.
ApplySuccessAgain(p) ==
    /\ pay' = [pay EXCEPT ![p] = [status |-> "SUCCEEDED", bound |-> TRUE,
                                  provider |-> "succeeded"]]
    /\ grants' = [grants EXCEPT ![p] = @ + 1]
    /\ UNCHANGED op

\* PaymentSuccessTransaction.applyInTransaction: the payment, a period of the
\* subscription and the operation that fetches the receipt.
ApplySuccess(p) ==
    LET o == <<"receipt", p>>
    IN IF pay[p].status = "SUCCEEDED"
       THEN UNCHANGED <<pay, op, grants>>
       ELSE /\ pay' = [pay EXCEPT ![p] = [status |-> "SUCCEEDED", bound |-> TRUE,
                                          provider |-> "succeeded"]]
            /\ grants' = [grants EXCEPT ![p] = @ + 1]
            /\ op' = IF o \in Ops /\ op[o].status = "NONE"
                     THEN [op EXCEPT ![o] = Queued] ELSE op

MarkProviderCancelled(p) ==
    /\ pay' = IF pay[p].status = "SUCCEEDED" THEN pay
              ELSE [pay EXCEPT ![p] = [status |-> "CANCELLED", bound |-> TRUE,
                                       provider |-> "canceled"]]
    /\ UNCHANGED <<op, grants>>

\* Mutant: the payment takes the provider's status for its own.
BindRawStatus(p) ==
    /\ pay' = [pay EXCEPT ![p].bound = TRUE, ![p].status = "pending"]
    /\ UNCHANGED <<op, grants>>

\* bindProviderState writes whatever the status of the payment is.
BindProviderState(p) ==
    /\ pay' = [pay EXCEPT ![p].bound = TRUE, ![p].provider = "pending"]
    /\ UNCHANGED <<op, grants>>

\* applyProviderResponse, or the transaction that stores receipts.
Apply(w) ==
    LET o == proc[w].o
        p == proc[w].o[2]
    IN /\ At(w, "apply")
       /\ \/ /\ \/ /\ o[1] = "receipt"
                   /\ op' = [op EXCEPT ![o].known = @ \/ proc[w].answer = "succeeded"]
                   /\ UNCHANGED <<pay, grants>>
                \/ o[1] # "receipt" /\ proc[w].answer = "succeeded" /\ ApplySuccess(p)
                \/ o[1] # "receipt" /\ proc[w].answer = "canceled"
                   /\ MarkProviderCancelled(p)
                \/ o[1] # "receipt" /\ proc[w].answer = "pending" /\ BindProviderState(p)
             /\ Go(w, "finish")
             /\ UNCHANGED faults
          \/ /\ Fault
             /\ IF o[1] = "create" THEN Failed(w, "after", TRUE)
                ELSE Failed(w, "retryable", FALSE)
             /\ UNCHANGED <<pay, op, grants>>
       /\ UNCHANGED <<clock, lapsed, bank, identity, blocks, created>>

\* The update of processOne, if the claim is still the worker's.
Finish(w) ==
    LET o == proc[w].o
        completed == o[1] = "create" \/ proc[w].answer # "pending"
    IN /\ At(w, "finish")
       /\ op' = IF Owns(w)
                THEN Released(o, IF completed THEN "SUCCEEDED" ELSE "PENDING") ELSE op
       /\ lapsed' = {x \in lapsed : op'[x].status = "PROCESSING"}
       /\ Done(w)
       /\ UNCHANGED <<pay, clock, bank, identity, faults, blocks, created, grants>>

\* A rejection of a payment that YooKassa was not known to hold ends it; every
\* other failure that is not retried leaves it open.
Rejects(w) == proc[w].error = "rejected" /\ ~proc[w].known

\* settleProviderOperationTerminal raises a conflict otherwise.
Settles(w) ==
    LET p == proc[w].o[2]
    IN /\ Owns(w) /\ pay[p].status = "PENDING"
       /\ Rejects(w) \/ (pay[p].bound => proc[w].known)

\* A failure known to precede the call does not count as an attempt.
RetryCount(w) ==
    IF proc[w].error = "before" THEN op[proc[w].o].attempt - 1
    ELSE op[proc[w].o].attempt

\* handleFailure: which failures put the operation back in the queue.
Retries(w) ==
    LET o == proc[w].o
        creation == o[1] = "create"
    IN \/ proc[w].error = "before" /\ ~proc[w].again
       \/ /\ proc[w].error = "retryable"
          /\ o[1] = "receipt" \/ (creation /\ proc[w].known) \/ o \notin aged

\* A claim that has changed makes the update fail; the worker gives up.
HandleFailure(w) ==
    LET o == proc[w].o
        creation == o[1] = "create"
    IN /\ At(w, "fail")
       /\ \/ /\ Retries(w) /\ Owns(w)
             /\ op' = [Released(o, "PENDING") EXCEPT ![o].attempt = RetryCount(w)]
             /\ UNCHANGED pay
          \/ /\ ~Retries(w) /\ creation /\ Settles(w)
             /\ IF Rejects(w)
                THEN /\ op' = Released(o, "FAILED")
                     /\ pay' = [pay EXCEPT ![o[2]].status = "CANCELLED",
                                           ![o[2]].provider = "rejected"]
                ELSE SettleUnknown(w, proc[w].known)
          \/ /\ ~Retries(w) /\ ~creation /\ Owns(w)
             /\ op' = Released(o, IF Rejects(w) THEN "FAILED" ELSE "UNKNOWN")
             /\ UNCHANGED pay
          \/ /\ IF creation /\ ~Retries(w) THEN ~Settles(w) ELSE ~Owns(w)
             /\ UNCHANGED <<op, pay>>
       /\ lapsed' = {x \in lapsed : op'[x].status = "PROCESSING"}
       /\ Done(w)
       /\ UNCHANGED <<clock, bank, identity, faults, blocks, created, grants>>

\* The process dies, or the update that ends its work fails.
Crash(w) ==
    /\ ~At(w, "idle")
    /\ Fault
    /\ Done(w)
    /\ UNCHANGED <<pay, op, clock, lapsed, bank, identity, blocks, created, grants>>

\* Mutant: a receipt that could not be fetched is not asked for again.
ReconcileReceiptsOnce(p) ==
    LET o == <<"receipt", p>>
    IN /\ o \in Ops
       /\ pay[p].status = "SUCCEEDED"
       /\ op[o].status = "SUCCEEDED" /\ ~op[o].known
       /\ op' = [op EXCEPT ![o].status = "PENDING"]
       /\ UNCHANGED <<pay, clock, lapsed, bank, identity, proc, faults, blocks,
                      created, grants>>

\* The scheduler asks again for the receipt of a payment that has none.
ReconcileReceipts(p) ==
    LET o == <<"receipt", p>>
    IN /\ o \in Ops
       /\ pay[p].status = "SUCCEEDED"
       /\ op[o].status \in {"SUCCEEDED", "FAILED", "UNKNOWN"} /\ ~op[o].known
       /\ op' = [op EXCEPT ![o].status = "PENDING"]
       /\ UNCHANGED <<pay, clock, lapsed, bank, identity, proc, faults, blocks,
                      created, grants>>

-----------------------------------------------------------------------------
WorkerStep(w) ==
    \/ \E o \in Ops : Claim(w, o)
    \/ Dispatch(w)
    \/ Read(w)
    \/ Apply(w)
    \/ Finish(w)
    \/ HandleFailure(w)

Next ==
    \/ \E p \in Payments :
        \/ CreatePayment(p) \/ CancelPending(p) \/ SettleExpired(p)
        \/ QueueVerification(p) \/ ResolveUnknown(p)
        \/ UserPays(p) \/ ProviderCancels(p) \/ ProviderForgets(p) \/ Webhook(p)
        \/ CheckoutExpires(p) \/ ReconcileReceipts(p)
    \/ RevokeBeforeDeactivate \/ ApplyIdentity
    \/ \E o \in Ops : WindowCloses(o) \/ LeaseLapses(o)
    \/ \E w \in Workers : WorkerStep(w) \/ Crash(w)

Spec == Init /\ [][Next]_vars

\* Workers go on with what they took; an operation that stays claimable is
\* claimed in the end, because claims are made oldest first and a failed or
\* unfinished operation is put off (availableAt); YooKassa delivers the first
\* notification of a payment; the scheduler runs; the tax service registers.
Fairness ==
    /\ \A w \in Workers :
        /\ WF_vars(Dispatch(w) \/ Read(w) \/ Apply(w) \/ Finish(w) \/ HandleFailure(w))
        /\ SF_vars(At(w, "read") /\ proc[w].o[1] = "receipt"
                   /\ Read(w) /\ proc'[w].answer = "succeeded")
    /\ \A o \in Ops : /\ SF_vars(\E w \in Workers : Claim(w, o))
                       /\ WF_vars(LeaseLapses(o))
    /\ \A p \in Payments :
        /\ WF_vars(op[<<"webhook", p>>].status = "NONE" /\ Webhook(p))
        /\ WF_vars(ReconcileReceipts(p))
LiveSpec == Spec /\ Fairness

-----------------------------------------------------------------------------
TypeOK ==
    /\ pay \in [Payments -> [status: Statuses, provider: ProviderStatuses,
                             bound: BOOLEAN]]
    /\ op \in [Ops -> [status: OpStatuses, attempt: Nat,
                       owner: Workers \cup {Nobody}, known: BOOLEAN]]
    /\ due \subseteq Payments /\ forgotten \subseteq Payments
    /\ aged \subseteq Ops /\ lapsed \subseteq Ops
    /\ prov \in [Payments -> Answers \cup {"none"}]
    /\ identity \in {"ACTIVE", "REVOKED", "DEACTIVATED"}
    /\ proc \in [Workers -> [pc: {"idle", "dispatch", "read", "apply", "finish",
                                  "fail"},
                             o: Ops \cup {<<>>}, again: BOOLEAN, known: BOOLEAN,
                             answer: Answers \cup {""}, error: Failures \cup {""}]]
    /\ faults \in 0..MaxFaults /\ blocks \in 0..MaxBlocks
    /\ created \in [Payments -> Nat] /\ grants \in [Payments -> Nat]

\* Whatever answers, retries and notifications are applied, in whatever order
\* and by however many workers, a payment extends the subscription exactly
\* once, and only if it has SUCCEEDED and YooKassa holds the money
\* (applyInTransaction returns early for a payment that has succeeded).
OneGrant == \A p \in Payments :
    /\ grants[p] = IF pay[p].status = "SUCCEEDED" THEN 1 ELSE 0
    /\ pay[p].status = "SUCCEEDED" => prov[p] = "succeeded"

\* A payment is created at YooKassa at most once, although the POST is
\* repeated after lost answers, crashes and overrun leases and YooKassa drops
\* the idempotency key after a day (providerCreateWindowExpired).
OneProviderPayment == \A p \in Payments : created[p] <= 1

\* YooKassa holds a payment that the billing database has no id for.
InDoubt(p) == created[p] > 0 /\ ~pay[p].bound

\* A payment in doubt stays PENDING and its operation is one that is retried
\* or reconciled, so neither the user nor the clean-up closes it as never sent;
\* the exception is a request that YooKassa itself rejected
\* (providerOperationMayHaveReachedProvider and the uses of attempt > 0).
InDoubtIsOpen == \A p \in Payments : InDoubt(p) =>
    \/ pay[p].status = "PENDING" /\ MayHaveReached(Create(p))
    \/ pay[p].provider = "rejected"

\* While YooKassa may hold a payment of the user without the database knowing
\* its id, no other checkout is opened (the blocking condition of create).
DoubtBlocks == \A p \in Payments :
    InDoubt(p) => Blocking(p) \/ pay[p].provider = "rejected"

\* A payment as its contract sees it: a closed one was never sent, was refused
\* by YooKassa, or is known there.
Closed(p) == pay[p].status \in {"CANCELLED", "EXPIRED"}
StateOf(p) == IF ~Closed(p) THEN pay[p].status
              ELSE IF pay[p].provider = "rejected" THEN "refused"
              ELSE IF pay[p].bound THEN "cancelled" ELSE "unsent"
State == [p \in Payments |-> StateOf(p)]

Contract == INSTANCE PaymentContract
            WITH state <- State, money <- prov, revoked <- blocks > 0

\* Workers, notifications, verifications, users and administrators together keep
\* the contract of a payment: money is asked for only under an open payment
\* (createProviderPaymentUnderFence), a payment is abandoned only when nothing
\* was sent (cancelPending, settleExpiredCheckoutUnderLock), cancelled only on
\* YooKassa's word (markProviderCancelled), and an old answer never undoes or
\* repeats a grant (applyInTransaction).
ImplementsContract == Contract!Spec

\* A payment the user has made is granted in the end, unless its verification
\* has ended in a state that an administrator has to look at.
PaidIsGranted == \A p \in Payments :
    prov[p] = "succeeded" ~>
        \/ pay[p].status = "SUCCEEDED"
        \/ op[<<"webhook", p>>].status \in {"FAILED", "UNKNOWN"}

\* The receipt of every payment that succeeded is fetched in the end, whatever
\* became of the first operation (reconcileMissingPaymentReceipts).
ReceiptFetched == \A p \in Payments :
    pay[p].status = "SUCCEEDED" ~> op[<<"receipt", p>>].known
=============================================================================
