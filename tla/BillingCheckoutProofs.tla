------------------------- MODULE BillingCheckoutProofs -------------------------
(***************************************************************************)
(* Proofs about BillingCheckout: types, that YooKassa is asked for one     *)
(* payment at most, that a payment is granted once, and, for a user who is *)
(* not deactivated, that a payment in doubt stays open.                    *)
(***************************************************************************)
EXTENDS BillingCheckout, TLAPS

Busy(w) == proc[w].pc # "idle"

\* A worker at work has an operation that exists, and is in its branch.
BusyHasOp == \A w \in Workers : Busy(w) =>
    /\ proc[w].o \in Ops /\ op[proc[w].o].status # "NONE"
    /\ At(w, "dispatch") => proc[w].o[1] = "create"
    /\ At(w, "read") => proc[w].o[1] # "create"

\* The history agrees with YooKassa; a key that was dropped was a day old.
CreatedAgrees == \A p \in Payments :
    /\ created[p] = IF prov[p] = "none" THEN 0 ELSE 1
    /\ p \in forgotten => prov[p] # "none" /\ Create(p) \in aged

\* Whoever knows an id at YooKassa, or asks for it, knows a payment that is there.
KnownExists == \A p \in Payments : prov[p] = "none" =>
    /\ ~pay[p].bound /\ ~op[Create(p)].known
    /\ \A o \in Ops : o[2] = p /\ o[1] \in {"webhook", "verify"} => op[o].status = "NONE"
    /\ \A w \in Workers : Busy(w) /\ proc[w].o = Create(p) =>
        /\ ~At(w, "apply")
        /\ At(w, "fail") => ~proc[w].known

\* What YooKassa cannot change any more.
Ended == {"succeeded", "canceled"}

\* A success or a cancellation in hand is one of YooKassa.
AnswersTrue == \A w \in Workers :
    At(w, "apply") /\ proc[w].o[1] # "receipt" /\ proc[w].answer \in Ended
        => prov[proc[w].o[2]] = proc[w].answer

\* A claim has been counted.
ProcessingCounted == \A o \in Ops : op[o].status = "PROCESSING" => op[o].attempt >= 1

\* w has a claim of p's creation and has sent nothing under it.
Unsent(w, p) ==
    /\ Busy(w) /\ proc[w].o = Create(p) /\ Owns(w)
    /\ \/ At(w, "dispatch")
       \/ At(w, "fail") /\ proc[w].error = "before" /\ ~proc[w].again

\* The attempts count the claims that may have created the payment.
AttemptsCount == \A p \in Payments : prov[p] # "none" =>
    /\ op[Create(p)].attempt >= 1
    /\ \A w \in Workers : Unsent(w, p) => op[Create(p)].attempt >= 2

\* Nothing is sent for a payment before it is written.
NotBefore == \A p \in Payments : pay[p].status = "NONE" => prov[p] = "none"

IInv == /\ TypeOK
        /\ BusyHasOp
        /\ CreatedAgrees
        /\ KnownExists
        /\ AnswersTrue
        /\ ProcessingCounted
        /\ AttemptsCount
        /\ NotBefore
        /\ OneGrant

PayType == [status: Statuses, provider: ProviderStatuses, bound: BOOLEAN]
OpType == [status: OpStatuses, attempt: Nat, owner: Workers \cup {Nobody},
           known: BOOLEAN]
ProcType == [pc: {"idle", "dispatch", "read", "apply", "finish", "fail"},
             o: Ops \cup {<<>>}, again: BOOLEAN, known: BOOLEAN,
             answer: Answers \cup {""}, error: Failures \cup {""}]

-----------------------------------------------------------------------------
\* Operations and rows

\* An operation is its kind and its payment.
LEMMA OpsFacts ==
  ASSUME NEW o \in Ops
  PROVE  /\ o[2] \in Payments
         /\ o[1] \in Kinds
         /\ o = <<o[1], o[2]>>
         /\ o # <<>>
         /\ o[1] = "create" => o = Create(o[2])
<1>1. PICK k \in Lookups \cup {"create"}, p \in Payments : o = <<k, p>>
  BY DEF Ops
<1>2. k \in Kinds
  BY LookupsAssumption DEF Kinds
<1>3. o[1] = k /\ o[2] = p /\ o # <<>>
  BY <1>1
<1> QED
  BY <1>1, <1>2, <1>3 DEF Create

\* Every payment has an operation that creates it.
LEMMA CreateFacts ==
  ASSUME NEW p \in Payments
  PROVE  Create(p) \in Ops /\ Create(p)[1] = "create" /\ Create(p)[2] = p
  BY DEF Ops, Create

\* The types of the rows in TypeOK.
LEMMA Types ==
  ASSUME TypeOK
  PROVE  /\ pay \in [Payments -> PayType] /\ op \in [Ops -> OpType]
         /\ proc \in [Workers -> ProcType]
         /\ prov \in [Payments -> Answers \cup {"none"}]
         /\ created \in [Payments -> Nat] /\ grants \in [Payments -> Nat]
  BY DEF TypeOK, PayType, OpType, ProcType

-----------------------------------------------------------------------------
\* Steps that no worker takes

\* What such a step may do to the payment p, to YooKassa and to an operation.
PayQuiet(p) ==
    /\ pay'[p].bound = pay[p].bound
    /\ \/ pay'[p].status = pay[p].status
       \/ pay[p].status # "SUCCEEDED" /\ pay'[p].status \notin {"SUCCEEDED", "NONE"}
ProvQuiet(p) ==
    \/ prov'[p] = prov[p]
    \/ prov[p] = "pending" /\ prov'[p] \in {"succeeded", "canceled"}
KeyQuiet(p) ==
    /\ p \in forgotten' => p \in forgotten \/ (prov[p] # "none" /\ Create(p) \in aged)
    /\ Create(p) \in aged => Create(p) \in aged'
OpQuiet(o) ==
    \/ op'[o] = op[o]
    \/ /\ op'[o].status \notin {"NONE", "PROCESSING"}
       /\ o[1] = "create" => /\ op'[o].known => op[o].known
                             /\ op'[o].attempt = op[o].attempt \/ prov[o[2]] = "none"
       /\ o[1] \in {"webhook", "verify"} /\ op[o].status = "NONE" => prov[o[2]] # "none"

\* Such a step keeps the invariant.
LEMMA QuietStep ==
  ASSUME IInv, TypeOK', proc' = proc, created' = created, grants' = grants,
         \A p \in Payments : PayQuiet(p) /\ ProvQuiet(p) /\ KeyQuiet(p),
         \A o \in Ops : OpQuiet(o)
  PROVE  IInv'
<1>1. \A p \in Payments : prov'[p] = "none" <=> prov[p] = "none"
  BY DEF ProvQuiet
<1>2. \A p \in Payments : prov[p] \in Ended => prov'[p] = prov[p]
  BY DEF ProvQuiet, Ended
<1>3. BusyHasOp'
  BY DEF IInv, BusyHasOp, Busy, At, OpQuiet
<1>4. CreatedAgrees'
  BY <1>1 DEF IInv, CreatedAgrees, KeyQuiet
<1>5. KnownExists'
  <2> SUFFICES ASSUME NEW p \in Payments, prov'[p] = "none"
               PROVE  /\ ~pay'[p].bound /\ ~op'[Create(p)].known
                      /\ \A o \in Ops : o[2] = p /\ o[1] \in {"webhook", "verify"}
                            => op'[o].status = "NONE"
                      /\ \A w \in Workers : Busy(w) /\ proc[w].o = Create(p) =>
                            /\ ~At(w, "apply")
                            /\ At(w, "fail") => ~proc[w].known
    BY DEF KnownExists, Busy, At
  <2>1. prov[p] = "none"
    BY <1>1
  <2>2. ~op'[Create(p)].known
    BY <2>1, CreateFacts DEF IInv, KnownExists, OpQuiet
  <2>3. ~pay'[p].bound
    BY <2>1 DEF IInv, KnownExists, PayQuiet
  <2>4. \A o \in Ops : o[2] = p /\ o[1] \in {"webhook", "verify"} => op'[o].status = "NONE"
    BY <2>1 DEF IInv, KnownExists, OpQuiet
  <2> QED
    BY <2>1, <2>2, <2>3, <2>4 DEF IInv, KnownExists
<1>6. AnswersTrue'
  <2> SUFFICES ASSUME NEW w \in Workers, At(w, "apply"), proc[w].o[1] # "receipt",
                      proc[w].answer \in Ended
               PROVE  prov'[proc[w].o[2]] = proc[w].answer
    BY DEF AnswersTrue, At
  <2>1. prov[proc[w].o[2]] = proc[w].answer
    BY DEF IInv, AnswersTrue
  <2>2. proc[w].o[2] \in Payments
    BY OpsFacts DEF IInv, BusyHasOp, Busy, At
  <2> QED
    BY <1>2, <2>1, <2>2
<1>7. ProcessingCounted'
  BY DEF IInv, ProcessingCounted, OpQuiet
<1>8. AttemptsCount'
  <2> SUFFICES ASSUME NEW p \in Payments, prov'[p] # "none"
               PROVE  /\ op'[Create(p)].attempt >= 1
                      /\ \A w \in Workers : Unsent(w, p)' => op'[Create(p)].attempt >= 2
    BY DEF AttemptsCount
  <2>1. /\ op'[Create(p)].attempt = op[Create(p)].attempt
        /\ op'[Create(p)] = op[Create(p)] \/ op'[Create(p)].status # "PROCESSING"
    BY <1>1, CreateFacts DEF OpQuiet
  <2>2. \A w \in Workers : Unsent(w, p)' => Unsent(w, p)
    BY <2>1 DEF Unsent, Busy, Owns, At
  <2> QED
    BY <1>1, <2>1, <2>2 DEF IInv, AttemptsCount
<1>9. NotBefore'
  BY <1>1 DEF IInv, NotBefore, PayQuiet
<1>10. OneGrant'
  BY <1>2 DEF IInv, OneGrant, PayQuiet, Ended
<1> QED
  BY <1>3, <1>4, <1>5, <1>6, <1>7, <1>8, <1>9, <1>10 DEF IInv

-----------------------------------------------------------------------------
\* What the updates of rows do

\* Only the row p of the payments changes, to one that has the type.
PayOnly(p, s, v, b) ==
    /\ pay' \in [Payments -> PayType]
    /\ pay'[p].status = s /\ pay'[p].provider = v /\ pay'[p].bound = b
    /\ \A q \in Payments \ {p} : pay'[q] = pay[q]

\* Writing the status.
LEMMA PayStatus ==
  ASSUME TypeOK, NEW p \in Payments, NEW s \in Statuses,
         pay' = [pay EXCEPT ![p].status = s]
  PROVE  PayOnly(p, s, pay[p].provider, pay[p].bound)
  BY Types DEF PayType, PayOnly

\* Writing providerStatus.
LEMMA PayProvider ==
  ASSUME TypeOK, NEW p \in Payments, NEW v \in ProviderStatuses,
         pay' = [pay EXCEPT ![p].provider = v]
  PROVE  PayOnly(p, pay[p].status, v, pay[p].bound)
  BY Types DEF PayType, PayOnly

\* Writing both.
LEMMA PayBoth ==
  ASSUME TypeOK, NEW p \in Payments, NEW s \in Statuses, NEW v \in ProviderStatuses,
         pay' = [pay EXCEPT ![p].status = s, ![p].provider = v]
  PROVE  PayOnly(p, s, v, pay[p].bound)
  BY Types DEF PayType, PayOnly

\* Only the operation o changes, to one that has the type.
OpOnly(o, s, a, k) ==
    /\ op' \in [Ops -> OpType]
    /\ op'[o].status = s /\ op'[o].attempt = a /\ op'[o].known = k
    /\ \A x \in Ops \ {o} : op'[x] = op[x]

\* Writing the status.
LEMMA OpStatus ==
  ASSUME TypeOK, NEW o \in Ops, NEW s \in OpStatuses,
         op' = [op EXCEPT ![o].status = s]
  PROVE  OpOnly(o, s, op[o].attempt, op[o].known)
  BY Types DEF OpType, OpOnly

\* Writing the status and dropping the lease.
LEMMA OpReleased ==
  ASSUME TypeOK, NEW o \in Ops, NEW s \in OpStatuses, op' = Released(o, s)
  PROVE  OpOnly(o, s, op[o].attempt, op[o].known)
  BY Types DEF OpType, OpOnly, Released

\* A new operation.
LEMMA OpQueued ==
  ASSUME TypeOK, NEW o \in Ops, op' = [op EXCEPT ![o] = Queued]
  PROVE  OpOnly(o, "PENDING", 0, FALSE)
<1>1. /\ Queued \in OpType /\ Queued.status = "PENDING" /\ Queued.attempt = 0
      /\ Queued.known = FALSE
  BY DEF Queued, NoOp, OpType, OpStatuses
<1> QED
  BY <1>1, Types DEF OpOnly

\* A fault is counted within its bound.
LEMMA FaultBound ==
  ASSUME TypeOK, Fault \/ faults' = faults PROVE faults' \in 0..MaxFaults
<1>1. faults \in 0..MaxFaults
  BY DEF TypeOK
<1> QED
  BY <1>1, BoundsAssumption DEF Fault

-----------------------------------------------------------------------------
\* The steps of users, administrators, YooKassa and time

\* A new checkout.
LEMMA CreatePaymentStep ==
  ASSUME IInv, NEW p \in Payments, CreatePayment(p) PROVE IInv'
<1>1. TypeOK
  BY DEF IInv
<1>2. PayOnly(p, "PENDING", pay[p].provider, pay[p].bound)
  BY <1>1, PayStatus DEF CreatePayment, Statuses
<1>3. OpOnly(Create(p), "PENDING", 0, FALSE)
  BY <1>1, OpQueued, CreateFacts DEF CreatePayment
<1>4. prov[p] = "none"
  BY DEF IInv, NotBefore, CreatePayment
<1>5. TypeOK'
  BY <1>1, <1>2, <1>3
  DEF TypeOK, CreatePayment, PayOnly, OpOnly, PayType, OpType, clock, bank
<1>6. \A o \in Ops : OpQuiet(o)
  BY <1>3, <1>4, CreateFacts DEF OpQuiet, OpOnly
<1>7. \A q \in Payments : PayQuiet(q) /\ ProvQuiet(q) /\ KeyQuiet(q)
  BY <1>2 DEF PayQuiet, ProvQuiet, KeyQuiet, CreatePayment, PayOnly, clock, bank
<1> QED
  BY <1>5, <1>6, <1>7, QuietStep DEF CreatePayment

\* A checkout that was not sent is cancelled.
LEMMA CancelPendingStep ==
  ASSUME IInv, NEW p \in Payments, CancelPending(p) PROVE IInv'
<1>1. TypeOK
  BY DEF IInv
<1>2. PayOnly(p, "CANCELLED", "not_sent", pay[p].bound)
  BY <1>1, PayBoth DEF CancelPending, Statuses, ProviderStatuses
<1>3. OpOnly(Create(p), "FAILED", op[Create(p)].attempt, op[Create(p)].known)
  BY <1>1, OpStatus, CreateFacts DEF CancelPending, OpStatuses
<1>5. TypeOK'
  BY <1>1, <1>2, <1>3
  DEF TypeOK, CancelPending, PayOnly, OpOnly, PayType, OpType, clock, bank
<1>6. \A o \in Ops : OpQuiet(o)
  BY <1>3, CreateFacts DEF OpQuiet, OpOnly
<1>7. \A q \in Payments : PayQuiet(q) /\ ProvQuiet(q) /\ KeyQuiet(q)
  BY <1>2 DEF PayQuiet, ProvQuiet, KeyQuiet, CancelPending, PayOnly, clock, bank
<1> QED
  BY <1>5, <1>6, <1>7, QuietStep DEF CancelPending

\* A checkout whose time is over is closed, or left to be reconciled.
LEMMA SettleExpiredStep ==
  ASSUME IInv, NEW p \in Payments, SettleExpired(p) PROVE IInv'
<1>1. TypeOK
  BY DEF IInv
<1>2. \/ PayOnly(p, "EXPIRED", pay[p].provider, pay[p].bound)
      \/ PayOnly(p, pay[p].status, "unknown", pay[p].bound)
  BY <1>1, PayStatus, PayProvider DEF SettleExpired, Statuses, ProviderStatuses
<1>3. \E s \in {"FAILED", "UNKNOWN"} :
        OpOnly(Create(p), s, op[Create(p)].attempt, op[Create(p)].known)
  BY <1>1, OpStatus, CreateFacts DEF SettleExpired, OpStatuses
<1>5. TypeOK'
  BY <1>1, <1>2, <1>3
  DEF TypeOK, SettleExpired, PayOnly, OpOnly, PayType, OpType, clock, bank
<1>6. \A o \in Ops : OpQuiet(o)
  BY <1>3, CreateFacts DEF OpQuiet, OpOnly
<1>7. \A q \in Payments : PayQuiet(q) /\ ProvQuiet(q) /\ KeyQuiet(q)
  BY <1>2 DEF PayQuiet, ProvQuiet, KeyQuiet, SettleExpired, PayOnly, clock, bank
<1> QED
  BY <1>5, <1>6, <1>7, QuietStep DEF SettleExpired

\* A verification is queued for an id that is known.
LEMMA QueueVerificationStep ==
  ASSUME IInv, NEW p \in Payments, QueueVerification(p) PROVE IInv'
<1> DEFINE o == <<"verify", p>>
<1>1. TypeOK
  BY DEF IInv
<1>2. o \in Ops /\ o[1] = "verify" /\ o[2] = p /\ o # Create(p)
  BY CreateFacts DEF QueueVerification
<1>3. OpOnly(o, "PENDING", 0, FALSE)
  BY <1>1, <1>2, OpQueued DEF QueueVerification
<1>4. prov[p] # "none"
  BY DEF IInv, KnownExists, QueueVerification
<1>5. TypeOK'
  BY <1>1, <1>3
  DEF TypeOK, QueueVerification, OpOnly, OpType, bank
<1>6. \A x \in Ops : OpQuiet(x)
  BY <1>2, <1>3, <1>4 DEF OpQuiet, OpOnly
<1>7. \A q \in Payments : PayQuiet(q) /\ ProvQuiet(q) /\ KeyQuiet(q)
  <2> TAKE q \in Payments
  <2>1. Create(q) # o
    BY <1>2, CreateFacts
  <2> QED
    BY <2>1 DEF PayQuiet, ProvQuiet, KeyQuiet, QueueVerification, bank
<1> QED
  BY <1>5, <1>6, <1>7, QuietStep DEF QueueVerification

\* An administrator closes a payment that YooKassa does not have.
LEMMA ResolveUnknownStep ==
  ASSUME IInv, NEW p \in Payments, ResolveUnknown(p) PROVE IInv'
<1>1. TypeOK
  BY DEF IInv
<1>2. PayOnly(p, "CANCELLED", "not_found", pay[p].bound)
  BY <1>1, PayBoth DEF ResolveUnknown, Statuses, ProviderStatuses
<1>3. OpOnly(Create(p), "FAILED", op[Create(p)].attempt, op[Create(p)].known)
  BY <1>1, OpReleased, CreateFacts DEF ResolveUnknown, OpStatuses
<1>5. TypeOK'
  BY <1>1, <1>2, <1>3
  DEF TypeOK, ResolveUnknown, PayOnly, OpOnly, PayType, OpType, clock, bank
<1>6. \A o \in Ops : OpQuiet(o)
  BY <1>3, CreateFacts DEF OpQuiet, OpOnly
<1>7. \A q \in Payments : PayQuiet(q) /\ ProvQuiet(q) /\ KeyQuiet(q)
  BY <1>2 DEF PayQuiet, ProvQuiet, KeyQuiet, ResolveUnknown, PayOnly, clock, bank
<1> QED
  BY <1>5, <1>6, <1>7, QuietStep DEF ResolveUnknown

\* Identity takes the user's entitlements away.
LEMMA RevokeStep ==
  ASSUME IInv, RevokeBeforeDeactivate PROVE IInv'
<1>1. TypeOK
  BY DEF IInv
<1>2. \A p \in Payments : /\ pay'[p] \in PayType /\ PayQuiet(p)
  BY <1>1, Types
  DEF RevokeBeforeDeactivate, PayQuiet, PayType, Statuses, ProviderStatuses
<1>3. \A o \in Ops : op'[o] \in OpType /\ OpQuiet(o)
  BY <1>1, Types DEF RevokeBeforeDeactivate, OpQuiet, OpType, OpStatuses
<1>4. pay' \in [Payments -> PayType] /\ op' \in [Ops -> OpType]
  BY <1>2, <1>3 DEF RevokeBeforeDeactivate
<1>5. TypeOK'
  <2>0. blocks \in 0..MaxBlocks /\ blocks < MaxBlocks /\ blocks' = blocks + 1
    BY <1>1 DEF TypeOK, RevokeBeforeDeactivate
  <2>1. blocks' \in 0..MaxBlocks
    BY <2>0, BoundsAssumption
  <2> QED
    BY <1>1, <1>4, <2>1
    DEF TypeOK, RevokeBeforeDeactivate, PayType, OpType, clock, bank
<1>6. \A q \in Payments : ProvQuiet(q) /\ KeyQuiet(q)
  BY DEF ProvQuiet, KeyQuiet, RevokeBeforeDeactivate, clock, bank
<1> QED
  BY <1>2, <1>3, <1>5, <1>6, QuietStep DEF RevokeBeforeDeactivate

\* YooKassa and its notifications.
LEMMA ProviderStep ==
  ASSUME IInv, NEW p \in Payments,
         \/ UserPays(p) \/ ProviderCancels(p) \/ ProviderForgets(p)
  PROVE  IInv'
<1>1. TypeOK
  BY DEF IInv
<1>2. TypeOK'
  BY <1>1 DEF TypeOK, UserPays, ProviderCancels, ProviderForgets, Answers, clock
<1>3. \A q \in Payments : ProvQuiet(q) /\ KeyQuiet(q)
  BY <1>1 DEF TypeOK, UserPays, ProviderCancels, ProviderForgets, ProvQuiet, KeyQuiet, clock
<1>4. pay' = pay /\ op' = op /\ proc' = proc /\ created' = created /\ grants' = grants
  BY DEF UserPays, ProviderCancels, ProviderForgets
<1> QED
  BY <1>2, <1>3, <1>4, QuietStep DEF PayQuiet, OpQuiet

\* A notification arms its operation, and the scheduler that of a receipt.
LEMMA ArmStep ==
  ASSUME IInv, NEW p \in Payments, Webhook(p) \/ ReconcileReceipts(p)
  PROVE  IInv'
<1>1. TypeOK
  BY DEF IInv
<1>2. PICK k \in {"webhook", "receipt"} :
        /\ <<k, p>> \in Ops /\ op' = [op EXCEPT ![<<k, p>>].status = "PENDING"]
        /\ k = "webhook" => prov[p] # "none"
  BY DEF Webhook, ReconcileReceipts
<1> DEFINE o == <<k, p>>
<1>3. o \in Ops /\ o[1] = k /\ o[2] = p
  BY <1>2
<1>4. OpOnly(o, "PENDING", op[o].attempt, op[o].known)
  BY <1>1, <1>2, <1>3, OpStatus DEF OpStatuses
<1> HIDE DEF o
<1>5. /\ UNCHANGED <<pay, clock, lapsed, bank, identity, proc, faults, blocks,
                     created, grants>>
  BY DEF Webhook, ReconcileReceipts
<1>6. TypeOK'
  BY <1>1, <1>4, <1>5 DEF TypeOK, OpOnly, OpType, clock, bank
<1>7. \A x \in Ops : OpQuiet(x)
  BY <1>2, <1>3, <1>4 DEF OpQuiet, OpOnly
<1> QED
  BY <1>5, <1>6, <1>7, QuietStep DEF PayQuiet, ProvQuiet, KeyQuiet, clock, bank

\* Time passes, and the projection of the user changes.
LEMMA ClockStep ==
  ASSUME IInv,
         \/ ApplyIdentity
         \/ \E p \in Payments : CheckoutExpires(p)
         \/ \E o \in Ops : WindowCloses(o) \/ LeaseLapses(o)
  PROVE  IInv'
<1>1. TypeOK
  BY DEF IInv
<1>2. TypeOK'
  <2>1. faults' \in 0..MaxFaults
    BY <1>1, FaultBound
    DEF TypeOK, ApplyIdentity, CheckoutExpires, WindowCloses, LeaseLapses
  <2> QED
    BY <1>1, <2>1
    DEF TypeOK, ApplyIdentity, CheckoutExpires, WindowCloses, LeaseLapses, clock, bank
<1>3. /\ UNCHANGED <<pay, op, prov, forgotten, proc, created, grants>>
      /\ aged \subseteq aged'
  BY DEF ApplyIdentity, CheckoutExpires, WindowCloses, LeaseLapses, clock, bank
<1> QED
  BY <1>2, <1>3, QuietStep DEF PayQuiet, ProvQuiet, KeyQuiet, OpQuiet

-----------------------------------------------------------------------------
\* The steps of a worker w

\* What they may do to a payment, at YooKassa and to an operation.
WorkPay(p) ==
    /\ pay'[p].bound => pay[p].bound \/ prov[p] # "none"
    /\ \/ pay'[p].status = pay[p].status /\ grants'[p] = grants[p]
       \/ /\ pay[p].status # "SUCCEEDED" /\ pay'[p].status \notin {"SUCCEEDED", "NONE"}
          /\ grants'[p] = grants[p]
       \/ /\ pay[p].status # "SUCCEEDED" /\ pay'[p].status = "SUCCEEDED"
          /\ prov[p] = "succeeded" /\ grants'[p] = grants[p] + 1
WorkProv(w, p) ==
    \/ prov'[p] = prov[p] /\ created'[p] = created[p]
    \/ /\ prov[p] = "none" /\ prov'[p] = "pending" /\ created'[p] = created[p] + 1
       /\ Owns(w) /\ proc[w].o = Create(p) /\ pay[p].status = "PENDING"
       /\ op' = op /\ pay' = pay
WorkOp(w, o) ==
    /\ op[o].status # "NONE" => op'[o].status # "NONE"
    /\ op'[o].status = "PROCESSING" => op'[o].attempt >= 1
    /\ o[1] \in {"webhook", "verify"} /\ op'[o].status # "NONE" => op[o].status # "NONE"
    /\ o[1] = "create" => /\ op'[o].known => op[o].known \/ prov[o[2]] # "none"
                          /\ prov[o[2]] # "none" => op'[o].attempt >= 1
                          /\ \/ op'[o] = op[o] \/ op'[o].status # "PROCESSING"
                             \/ op'[o].owner = w
\* Where they leave w.
Moved(w) ==
    proc'[w].pc # "idle" =>
        /\ proc'[w].o \in Ops /\ op'[proc'[w].o].status # "NONE"
        /\ proc'[w].pc = "dispatch" => proc'[w].o[1] = "create"
        /\ proc'[w].pc = "read" => proc'[w].o[1] # "create"
        /\ proc'[w].o[1] = "create" /\ prov'[proc'[w].o[2]] = "none" =>
            proc'[w].pc # "apply" /\ (proc'[w].pc = "fail" => ~proc'[w].known)
        /\ /\ proc'[w].pc = "apply" /\ proc'[w].o[1] # "receipt"
           /\ proc'[w].answer \in Ended
           => prov'[proc'[w].o[2]] = proc'[w].answer
        /\ \A p \in Payments :
            prov'[p] # "none" /\ Unsent(w, p)' => op'[Create(p)].attempt >= 2

\* Such a step keeps the invariant.
LEMMA WorkStep ==
  ASSUME IInv, TypeOK', NEW w \in Workers, forgotten' = forgotten, aged' = aged,
         \A v \in Workers \ {w} : proc'[v] = proc[v],
         \A p \in Payments : WorkPay(p) /\ WorkProv(w, p),
         \A o \in Ops : WorkOp(w, o),
         Moved(w)
  PROVE  IInv'
<1>1. \A p \in Payments : prov'[p] = "none" => prov[p] = "none"
  BY DEF WorkProv
<1>2. \A p \in Payments : prov[p] \in Ended => prov'[p] = prov[p]
  BY DEF WorkProv, Ended
<1>3. BusyHasOp'
  <2> SUFFICES ASSUME NEW v \in Workers, proc'[v].pc # "idle"
               PROVE  /\ proc'[v].o \in Ops /\ op'[proc'[v].o].status # "NONE"
                      /\ proc'[v].pc = "dispatch" => proc'[v].o[1] = "create"
                      /\ proc'[v].pc = "read" => proc'[v].o[1] # "create"
    BY DEF BusyHasOp, Busy, At
  <2>1. CASE v = w
    BY <2>1 DEF Moved
  <2>2. CASE v # w
    BY <2>2 DEF IInv, BusyHasOp, Busy, At, WorkOp
  <2> QED
    BY <2>1, <2>2
<1>4. CreatedAgrees'
  BY DEF IInv, CreatedAgrees, WorkProv
<1>5. KnownExists'
  <2> SUFFICES ASSUME NEW p \in Payments, prov'[p] = "none"
               PROVE  /\ ~pay'[p].bound /\ ~op'[Create(p)].known
                      /\ \A o \in Ops : o[2] = p /\ o[1] \in {"webhook", "verify"}
                            => op'[o].status = "NONE"
                      /\ \A v \in Workers : proc'[v].pc # "idle" /\ proc'[v].o = Create(p) =>
                            /\ proc'[v].pc # "apply"
                            /\ proc'[v].pc = "fail" => ~proc'[v].known
    BY DEF KnownExists, Busy, At
  <2>1. prov[p] = "none"
    BY <1>1
  <2>2. ~op'[Create(p)].known
    BY <2>1, CreateFacts DEF IInv, KnownExists, WorkOp
  <2>3. ~pay'[p].bound
    BY <2>1 DEF IInv, KnownExists, WorkPay
  <2>4. \A o \in Ops : o[2] = p /\ o[1] \in {"webhook", "verify"} => op'[o].status = "NONE"
    BY <2>1 DEF IInv, KnownExists, WorkOp
  <2>5. ASSUME NEW v \in Workers, proc'[v].pc # "idle", proc'[v].o = Create(p)
        PROVE  proc'[v].pc # "apply" /\ (proc'[v].pc = "fail" => ~proc'[v].known)
    <3>1. CASE v = w
      BY <2>5, <3>1, CreateFacts DEF Moved
    <3>2. CASE v # w
      BY <2>1, <2>5, <3>2 DEF IInv, KnownExists, Busy, At
    <3> QED
      BY <3>1, <3>2
  <2> QED
    BY <2>2, <2>3, <2>4, <2>5
<1>6. AnswersTrue'
  <2> SUFFICES ASSUME NEW v \in Workers, proc'[v].pc = "apply",
                      proc'[v].o[1] # "receipt", proc'[v].answer \in Ended
               PROVE  prov'[proc'[v].o[2]] = proc'[v].answer
    BY DEF AnswersTrue, At
  <2>1. CASE v = w
    BY <2>1 DEF Moved
  <2>2. CASE v # w
    <3>1. proc'[v] = proc[v] /\ prov[proc[v].o[2]] = proc[v].answer
      BY <2>2 DEF IInv, AnswersTrue, At
    <3>2. proc[v].o[2] \in Payments
      BY <3>1, OpsFacts DEF IInv, BusyHasOp, Busy, At
    <3> QED
      BY <1>2, <3>1, <3>2
  <2> QED
    BY <2>1, <2>2
<1>7. ProcessingCounted'
  BY DEF ProcessingCounted, WorkOp
<1>8. AttemptsCount'
  <2> SUFFICES ASSUME NEW p \in Payments, prov'[p] # "none"
               PROVE  /\ op'[Create(p)].attempt >= 1
                      /\ \A v \in Workers : Unsent(v, p)' => op'[Create(p)].attempt >= 2
    BY DEF AttemptsCount
  <2> DEFINE c == Create(p)
  <2>0. c \in Ops /\ c[1] = "create" /\ c[2] = p
    BY CreateFacts
  <2>1. CASE prov[p] # "none"
    <3>1. op'[c].attempt >= 1
      BY <2>0, <2>1 DEF WorkOp
    <3>2. ASSUME NEW v \in Workers, Unsent(v, p)' PROVE op'[c].attempt >= 2
      <4>1. CASE v = w
        BY <3>2, <4>1 DEF Moved, Unsent, Busy
      <4>2. CASE v # w
        <5>1. op'[c].status = "PROCESSING" /\ op'[c].owner = v /\ proc'[v] = proc[v]
          BY <3>2, <4>2 DEF Unsent, Owns
        <5>2. op'[c] = op[c]
          BY <2>0, <4>2, <5>1 DEF WorkOp
        <5>3. Unsent(v, p)
          BY <3>2, <5>1, <5>2 DEF Unsent, Owns, Busy, At
        <5> QED
          BY <2>1, <5>2, <5>3 DEF IInv, AttemptsCount
      <4> QED
        BY <4>1, <4>2
    <3> QED
      BY <3>1, <3>2
  <2>2. CASE prov[p] = "none"
    <3>1. /\ op' = op /\ op[c].status = "PROCESSING" /\ op[c].owner = w
      BY <2>2 DEF WorkProv, Owns
    <3>2. op'[c].attempt >= 1
      BY <2>0, <3>1 DEF IInv, ProcessingCounted
    <3>3. ASSUME NEW v \in Workers, Unsent(v, p)' PROVE op'[c].attempt >= 2
      <4>1. v = w
        BY <3>1, <3>3 DEF Unsent, Owns
      <4> QED
        BY <3>3, <4>1 DEF Moved, Unsent, Busy
    <3> QED
      BY <3>2, <3>3
  <2> QED
    BY <2>1, <2>2
<1>9. NotBefore'
  BY DEF IInv, NotBefore, WorkPay, WorkProv
<1>10. OneGrant'
  <2>1. \A p \in Payments : grants[p] \in Nat
    BY Types DEF IInv
  <2> QED
    BY <1>2, <2>1 DEF IInv, OneGrant, WorkPay, Ended
<1> QED
  BY <1>3, <1>4, <1>5, <1>6, <1>7, <1>8, <1>9, <1>10 DEF IInv

\* Only w moves, to a state that has the type.
ProcOnly(w) ==
    /\ proc' \in [Workers -> ProcType]
    /\ \A v \in Workers \ {w} : proc'[v] = proc[v]

\* A worker that ends.
LEMMA DoneType ==
  ASSUME TypeOK, NEW w \in Workers, Done(w)
  PROVE  ProcOnly(w) /\ proc'[w].pc = "idle"
<1>1. Idle \in ProcType /\ Idle.pc = "idle"
  BY DEF Idle, ProcType
<1> QED
  BY <1>1, Types DEF Done, ProcOnly

\* A worker that goes to another step.
LEMMA GoType ==
  ASSUME TypeOK, NEW w \in Workers,
         NEW s \in {"idle", "dispatch", "read", "apply", "finish", "fail"}, Go(w, s)
  PROVE  ProcOnly(w) /\ proc'[w].pc = s /\ proc'[w].o = proc[w].o
  BY Types DEF Go, ProcOnly, ProcType

\* A worker that gets an answer.
LEMMA AnsweredType ==
  ASSUME TypeOK, NEW w \in Workers, NEW a \in Answers, Answered(w, a)
  PROVE  /\ ProcOnly(w) /\ proc'[w].pc = "apply" /\ proc'[w].o = proc[w].o
         /\ proc'[w].answer = a
  BY Types DEF Answered, ProcOnly, ProcType

\* A worker whose call fails.
LEMMA FailedType ==
  ASSUME TypeOK, NEW w \in Workers, NEW e \in Failures, NEW k \in BOOLEAN,
         Failed(w, e, k)
  PROVE  /\ ProcOnly(w) /\ proc'[w].pc = "fail" /\ proc'[w].o = proc[w].o
         /\ proc'[w].error = e /\ proc'[w].known = k
         /\ proc'[w].again = proc[w].again
<1> DEFINE r == [proc[w] EXCEPT !.pc = "fail", !.error = e, !.known = k]
<1>1. proc[w] \in ProcType
  BY Types
<1>2. /\ r \in ProcType /\ r.pc = "fail" /\ r.o = proc[w].o /\ r.error = e
      /\ r.known = k /\ r.again = proc[w].again
  BY <1>1 DEF ProcType
<1>3. proc' = [proc EXCEPT ![w] = r]
  BY DEF Failed
<1> HIDE DEF r
<1> QED
  BY <1>2, <1>3, Types DEF ProcOnly

\* A worker that stands idle is where it may be.
LEMMA IdleMoved ==
  ASSUME NEW w \in Workers, proc'[w].pc = "idle" PROVE Moved(w)
  BY DEF Moved

\* A payment, YooKassa's payment and an operation that stay as they are.
LEMMA Same ==
  ASSUME IInv, NEW w \in Workers
  PROVE  /\ pay' = pay /\ grants' = grants => \A p \in Payments : WorkPay(p)
         /\ prov' = prov /\ created' = created => \A p \in Payments : WorkProv(w, p)
         /\ \A o \in Ops : op'[o] = op[o] => WorkOp(w, o)
<1>1. \A o \in Ops : op[o].status = "PROCESSING" => op[o].attempt >= 1
  BY DEF IInv, ProcessingCounted
<1>2. \A o \in Ops : o[1] = "create" /\ prov[o[2]] # "none" => op[o].attempt >= 1
  <2> SUFFICES ASSUME NEW o \in Ops, o[1] = "create", prov[o[2]] # "none"
               PROVE  op[o].attempt >= 1
    OBVIOUS
  <2>1. o = Create(o[2]) /\ o[2] \in Payments
    BY OpsFacts
  <2> QED
    BY <2>1 DEF IInv, AttemptsCount
<1>3. ASSUME NEW o \in Ops, op'[o] = op[o] PROVE WorkOp(w, o)
  BY <1>1, <1>2, <1>3 DEF WorkOp
<1> QED
  BY <1>3 DEF WorkPay, WorkProv

\* A worker claims an operation.
LEMMA ClaimStep ==
  ASSUME IInv, NEW w \in Workers, NEW o \in Ops, Claim(w, o) PROVE IInv'
<1>0. TypeOK
  BY DEF IInv
<1> DEFINE r == [Idle EXCEPT !.pc = IF o[1] = "create" THEN "dispatch" ELSE "read",
                             !.o = o, !.again = op[o].status = "PROCESSING"]
<1>1. /\ r \in ProcType /\ r.o = o
      /\ r.pc = IF o[1] = "create" THEN "dispatch" ELSE "read"
  BY DEF Idle, ProcType
<1>2. proc' = [proc EXCEPT ![w] = r]
  BY DEF Claim
<1> HIDE DEF r
<1>3. /\ ProcOnly(w) /\ proc'[w].o = o
      /\ proc'[w].pc = IF o[1] = "create" THEN "dispatch" ELSE "read"
  BY <1>0, <1>1, <1>2, Types DEF ProcOnly
<1>4. op[o].status # "NONE" /\ op[o] \in OpType
  BY <1>0, Types DEF Claim
<1>5. OpOnly(o, "PROCESSING", IF o[1] = "create" THEN op[o].attempt + 1 ELSE 1, op[o].known)
      /\ op'[o].owner = w
  <2> DEFINE a == IF o[1] = "create" THEN op[o].attempt + 1 ELSE 1
             n == [op[o] EXCEPT !.status = "PROCESSING", !.owner = w, !.attempt = a]
  <2>1. a \in Nat
    BY <1>4 DEF OpType
  <2>2. op' = [op EXCEPT ![o] = n]
    BY DEF Claim
  <2> HIDE DEF a
  <2>3. /\ n \in OpType /\ n.status = "PROCESSING" /\ n.attempt = a
        /\ n.known = op[o].known /\ n.owner = w
    BY <1>4, <2>1 DEF OpType, OpStatuses
  <2> HIDE DEF n
  <2>4. OpOnly(o, "PROCESSING", a, op[o].known) /\ op'[o].owner = w
    BY <1>0, <2>2, <2>3, Types DEF OpOnly
  <2> QED
    BY <2>4 DEF a
<1>6. TypeOK'
  BY <1>0, <1>3, <1>5 DEF TypeOK, Claim, OpOnly, OpType, ProcOnly, ProcType, clock, bank
<1>7. \A x \in Ops : WorkOp(w, x)
  <2> TAKE x \in Ops
  <2>1. CASE x = o
    BY <1>4, <1>5, <2>1 DEF WorkOp, OpOnly, OpType
  <2>2. CASE x # o
    BY <1>5, <2>2, Same DEF OpOnly
  <2> QED
    BY <2>1, <2>2
<1>8. ASSUME NEW p \in Payments, prov'[p] # "none", Unsent(w, p)'
      PROVE  op'[Create(p)].attempt >= 2
  <2>1. o = Create(p) /\ o[1] = "create"
    BY <1>3, <1>8, CreateFacts DEF Unsent
  <2>2. op[o].attempt >= 1
    BY <1>8, <2>1 DEF IInv, AttemptsCount, Claim, bank
  <2> QED
    BY <1>4, <1>5, <2>1, <2>2 DEF OpOnly, OpType
<1>9. Moved(w)
  BY <1>3, <1>5, <1>8 DEF Moved, OpOnly
<1> QED
  BY <1>3, <1>6, <1>7, <1>9, Same, WorkStep DEF Claim, ProcOnly, clock, bank

\* A worker dies.
LEMMA CrashStep ==
  ASSUME IInv, NEW w \in Workers, Crash(w) PROVE IInv'
<1>0. TypeOK
  BY DEF IInv
<1>1. ProcOnly(w) /\ proc'[w].pc = "idle"
  BY <1>0, DoneType DEF Crash
<1>2. TypeOK'
  <2>1. faults' \in 0..MaxFaults
    BY <1>0, FaultBound DEF Crash
  <2> QED
    BY <1>0, <1>1, <2>1 DEF TypeOK, Crash, ProcOnly, ProcType, clock, bank
<1> QED
  BY <1>1, <1>2, IdleMoved, Same, WorkStep DEF Crash, ProcOnly, clock, bank

\* A worker at work, and the operation it has.
LEMMA BusyFacts ==
  ASSUME IInv, NEW w \in Workers, proc[w].pc # "idle"
  PROVE  LET o == proc[w].o
         IN  /\ o \in Ops /\ o[2] \in Payments /\ op[o].status # "NONE"
             /\ o[1] = "create" => o = Create(o[2])
             /\ o[1] \in {"webhook", "verify"} => prov[o[2]] # "none"
             /\ o[1] = "create" /\ prov[o[2]] = "none" =>
                   proc[w].pc # "apply" /\ (proc[w].pc = "fail" => ~proc[w].known)
             /\ o[1] = "create" /\ prov[o[2]] # "none" => op[o].attempt >= 1
<1> DEFINE o == proc[w].o
<1>1. o \in Ops /\ op[o].status # "NONE"
  BY DEF IInv, BusyHasOp, Busy
<1>2. o[2] \in Payments /\ (o[1] = "create" => o = Create(o[2]))
  BY <1>1, OpsFacts
<1>3. o[1] \in {"webhook", "verify"} => prov[o[2]] # "none"
  BY <1>1, <1>2 DEF IInv, KnownExists
<1>4. o[1] = "create" /\ prov[o[2]] = "none" =>
          proc[w].pc # "apply" /\ (proc[w].pc = "fail" => ~proc[w].known)
  BY <1>2 DEF IInv, KnownExists, Busy, At
<1>5. o[1] = "create" /\ prov[o[2]] # "none" => op[o].attempt >= 1
  BY <1>2 DEF IInv, AttemptsCount
<1> QED
  BY <1>1, <1>2, <1>3, <1>4, <1>5

\* A worker puts the operation it has in another state.
LEMMA Releases ==
  ASSUME IInv, NEW w \in Workers, proc[w].pc # "idle",
         NEW s \in {"PENDING", "SUCCEEDED", "FAILED", "UNKNOWN"}, NEW a \in Nat, NEW k,
         OpOnly(proc[w].o, s, a, k),
         proc[w].o[1] = "create" =>
            /\ a = op[proc[w].o].attempt \/ (prov[proc[w].o[2]] # "none" => a >= 1)
            /\ k => op[proc[w].o].known \/ prov[proc[w].o[2]] # "none"
  PROVE  \A x \in Ops : WorkOp(w, x)
<1> DEFINE o == proc[w].o
<1>0. /\ o \in Ops /\ op[o].status # "NONE"
      /\ o[1] = "create" /\ prov[o[2]] # "none" => op[o].attempt >= 1
  BY BusyFacts
<1> TAKE x \in Ops
<1>1. CASE x = o
  BY <1>0, <1>1 DEF WorkOp, OpOnly
<1>2. CASE x # o
  BY <1>2, Same DEF OpOnly
<1> QED
  BY <1>1, <1>2

\* A worker reads a payment or a receipt.
LEMMA ReadStep ==
  ASSUME IInv, NEW w \in Workers, Read(w) PROVE IInv'
<1> DEFINE o == proc[w].o
<1>0. TypeOK /\ proc[w].pc = "read"
  BY DEF IInv, Read, At
<1>1. /\ o \in Ops /\ o[2] \in Payments /\ op[o].status # "NONE" /\ o[1] # "create"
      /\ o[1] \in {"webhook", "verify"} => prov[o[2]] # "none"
      /\ o[1] \in {"webhook", "verify", "receipt"}
  BY <1>0, BusyFacts, OpsFacts DEF IInv, BusyHasOp, Busy, At, Kinds
<1>2. UNCHANGED <<pay, op, clock, lapsed, bank, identity, blocks, created, grants>>
  BY DEF Read
<1>3. faults' \in 0..MaxFaults
  BY <1>0, FaultBound DEF Read
<1>4. CASE \E a \in Answers : Answered(w, a) /\ (o[1] # "receipt" => a = prov[o[2]])
  <2>1. PICK a \in Answers : Answered(w, a) /\ (o[1] # "receipt" => a = prov[o[2]])
    BY <1>4
  <2>2. /\ ProcOnly(w) /\ proc'[w].pc = "apply" /\ proc'[w].o = o
        /\ proc'[w].answer = a
    BY <1>0, <2>1, AnsweredType
  <2>3. Moved(w)
    <3>1. op' = op /\ prov' = prov
      BY <1>2 DEF bank
    <3> QED
      BY <1>1, <2>1, <2>2, <3>1 DEF Moved, Unsent, At
  <2>4. TypeOK'
    BY <1>0, <1>2, <1>3, <2>2 DEF TypeOK, ProcOnly, ProcType, clock, bank
  <2> QED
    BY <1>2, <2>2, <2>3, <2>4, Same, WorkStep DEF ProcOnly, clock, bank
<1>5. CASE \E e \in {"retryable", "rejected"} : Failed(w, e, FALSE)
  <2>1. PICK e \in {"retryable", "rejected"} : Failed(w, e, FALSE)
    BY <1>5
  <2>2. /\ ProcOnly(w) /\ proc'[w].pc = "fail" /\ proc'[w].o = o
        /\ proc'[w].error # "before"
    BY <1>0, <2>1, FailedType DEF Failures
  <2>3. Moved(w)
    <3>1. op' = op /\ prov' = prov
      BY <1>2 DEF bank
    <3>2. proc'[w].o \in Ops /\ op'[proc'[w].o].status # "NONE" /\ proc'[w].o[1] # "create"
      BY <1>1, <2>2, <3>1
    <3> QED
      BY <2>2, <3>2 DEF Moved, Unsent, At
  <2>4. TypeOK'
    BY <1>0, <1>2, <1>3, <2>2 DEF TypeOK, ProcOnly, ProcType, clock, bank
  <2> QED
    BY <1>2, <2>2, <2>3, <2>4, Same, WorkStep DEF ProcOnly, clock, bank
<1>6. prov[o[2]] # "none" => prov[o[2]] \in Answers
  BY <1>0, <1>1 DEF TypeOK
<1> QED
  BY <1>1, <1>4, <1>5, <1>6 DEF Read

\* A worker ends its operation.
LEMMA FinishStep ==
  ASSUME IInv, NEW w \in Workers, Finish(w) PROVE IInv'
<1> DEFINE o == proc[w].o
<1>0. TypeOK /\ proc[w].pc = "finish"
  BY DEF IInv, Finish, At
<1>1. o \in Ops /\ op[o] \in OpType
  BY <1>0, BusyFacts, Types
<1>2. ProcOnly(w) /\ proc'[w].pc = "idle"
  BY <1>0, DoneType DEF Finish
<1>3. \/ op' = op
      \/ \E s \in {"PENDING", "SUCCEEDED"} : op' = Released(o, s)
  BY DEF Finish
<1>4. op' \in [Ops -> OpType] /\ \A x \in Ops : WorkOp(w, x)
  <2>1. CASE op' = op
    BY <1>0, <2>1, Same, Types
  <2>2. ASSUME NEW s \in {"PENDING", "SUCCEEDED"}, op' = Released(o, s)
        PROVE  op' \in [Ops -> OpType] /\ \A x \in Ops : WorkOp(w, x)
    <3>1. OpOnly(o, s, op[o].attempt, op[o].known)
      BY <1>0, <1>1, <2>2, OpReleased DEF OpStatuses
    <3>2. op[o].attempt \in Nat
      BY <1>1 DEF OpType
    <3>3. \A x \in Ops : WorkOp(w, x)
      BY <1>0, <3>1, <3>2, Releases
    <3> QED
      BY <3>1, <3>3 DEF OpOnly
  <2> QED
    BY <1>3, <2>1, <2>2
<1>5. UNCHANGED <<pay, clock, bank, identity, faults, blocks, created, grants>>
      /\ lapsed' \subseteq lapsed
  BY DEF Finish
<1>6. TypeOK'
  BY <1>0, <1>2, <1>4, <1>5 DEF TypeOK, OpType, ProcOnly, ProcType, clock, bank
<1> QED
  BY <1>2, <1>4, <1>5, <1>6, IdleMoved, Same, WorkStep DEF ProcOnly, clock, bank

\* A worker records what YooKassa has answered.
LEMMA ApplyStep ==
  ASSUME IInv, NEW w \in Workers, Apply(w) PROVE IInv'
<1> DEFINE o == proc[w].o
           p == proc[w].o[2]
<1>0. TypeOK /\ proc[w].pc = "apply"
  BY DEF IInv, Apply, At
<1>1. /\ o \in Ops /\ p \in Payments /\ op[o].status # "NONE"
      /\ o[1] # "receipt" => prov[p] # "none"
      /\ o[1] # "receipt" /\ proc[w].answer = "succeeded" => prov[p] = "succeeded"
  BY <1>0, BusyFacts, OpsFacts DEF IInv, AnswersTrue, At, Kinds, Ended
<1>2. UNCHANGED <<clock, lapsed, bank, identity, blocks, created>>
  BY DEF Apply
<1>3. faults' \in 0..MaxFaults
  BY <1>0, FaultBound DEF Apply
<1>4. /\ pay \in [Payments -> PayType] /\ op \in [Ops -> OpType]
      /\ grants \in [Payments -> Nat]
  BY <1>0, Types
<1>5. CASE Go(w, "finish") /\ \/ /\ o[1] = "receipt"
                                 /\ op' = [op EXCEPT ![o].known = @ \/ proc[w].answer = "succeeded"]
                                 /\ UNCHANGED <<pay, grants>>
                              \/ o[1] # "receipt" /\ proc[w].answer = "succeeded" /\ ApplySuccess(p)
                              \/ o[1] # "receipt" /\ MarkProviderCancelled(p)
                              \/ o[1] # "receipt" /\ BindProviderState(p)
  <2>1. ProcOnly(w) /\ proc'[w].pc = "finish" /\ proc'[w].o = o
    BY <1>0, <1>5, GoType
  <2>2. /\ pay' \in [Payments -> PayType] /\ grants' \in [Payments -> Nat]
        /\ \A q \in Payments : WorkPay(q)
    <3>1. CASE UNCHANGED <<pay, grants>>
      BY <1>4, <3>1, Same
    <3>2. CASE o[1] # "receipt" /\ proc[w].answer = "succeeded" /\ ApplySuccess(p)
               /\ pay[p].status # "SUCCEEDED"
      <4>1. /\ pay' = [pay EXCEPT ![p] = [status |-> "SUCCEEDED", bound |-> TRUE,
                                          provider |-> "succeeded"]]
            /\ grants' = [grants EXCEPT ![p] = @ + 1]
        BY <3>2 DEF ApplySuccess
      <4> QED
        BY <1>1, <1>4, <3>2, <4>1 DEF WorkPay, PayType, Statuses, ProviderStatuses
    <3>3. CASE o[1] # "receipt" /\ MarkProviderCancelled(p) /\ pay[p].status # "SUCCEEDED"
      <4>1. /\ pay' = [pay EXCEPT ![p] = [status |-> "CANCELLED", bound |-> TRUE,
                                          provider |-> "canceled"]]
            /\ grants' = grants
        BY <3>3 DEF MarkProviderCancelled
      <4> QED
        BY <1>1, <1>4, <3>3, <4>1 DEF WorkPay, PayType, Statuses, ProviderStatuses
    <3>4. CASE o[1] # "receipt" /\ BindProviderState(p)
      <4>1. /\ pay' = [pay EXCEPT ![p].bound = TRUE, ![p].provider = "pending"]
            /\ grants' = grants
        BY <3>4 DEF BindProviderState
      <4> QED
        BY <1>1, <1>4, <3>4, <4>1 DEF WorkPay, PayType, ProviderStatuses
    <3> QED
      BY <1>5, <3>1, <3>2, <3>3, <3>4 DEF ApplySuccess, MarkProviderCancelled
  <2>3. op' \in [Ops -> OpType] /\ op'[o].status # "NONE" /\ \A x \in Ops : WorkOp(w, x)
    <3>1. CASE op' = op
      BY <1>1, <1>4, <3>1, Same
    <3>2. CASE o[1] = "receipt"
               /\ op' = [op EXCEPT ![o].known = @ \/ proc[w].answer = "succeeded"]
      <4>1. /\ op' \in [Ops -> OpType]
            /\ op'[o].status = op[o].status /\ op'[o].attempt = op[o].attempt
            /\ op'[o].owner = op[o].owner
            /\ \A x \in Ops \ {o} : op'[x] = op[x]
        BY <1>1, <1>4, <3>2 DEF OpType
      <4>2. WorkOp(w, o)
        <5>1. op[o].status = "PROCESSING" => op[o].attempt >= 1
          BY <1>1 DEF IInv, ProcessingCounted
        <5> QED
          BY <1>1, <3>2, <4>1, <5>1 DEF WorkOp
      <4> QED
        BY <1>1, <4>1, <4>2, Same
    <3>3. CASE <<"receipt", p>> \in Ops /\ op[<<"receipt", p>>].status = "NONE"
               /\ op' = [op EXCEPT ![<<"receipt", p>>] = Queued]
      <4> DEFINE x == <<"receipt", p>>
      <4>1. x \in Ops /\ x[1] = "receipt" /\ x # o
        BY <1>1, <3>3
      <4>2. OpOnly(x, "PENDING", 0, FALSE)
        BY <1>0, <3>3, OpQueued
      <4> HIDE DEF x
      <4>3. WorkOp(w, x)
        BY <4>1, <4>2 DEF WorkOp, OpOnly
      <4> QED
        BY <1>1, <4>1, <4>2, <4>3, Same DEF OpOnly
    <3> QED
      BY <1>5, <3>1, <3>2, <3>3 DEF ApplySuccess, MarkProviderCancelled, BindProviderState
  <2>4. Moved(w)
    BY <1>1, <2>1, <2>3 DEF Moved, Unsent, At
  <2>5. TypeOK'
    BY <1>0, <1>2, <1>3, <2>1, <2>2, <2>3
    DEF TypeOK, PayType, OpType, ProcOnly, ProcType, clock, bank
  <2> QED
    BY <1>2, <2>1, <2>2, <2>3, <2>4, <2>5, Same, WorkStep DEF ProcOnly, clock, bank
<1>6. CASE /\ \E e \in {"after", "retryable"}, k \in BOOLEAN :
                 Failed(w, e, k) /\ (k => o[1] = "create")
           /\ UNCHANGED <<pay, op, grants>>
  <2>1. PICK e \in {"after", "retryable"}, k \in BOOLEAN :
            Failed(w, e, k) /\ (k => o[1] = "create")
    BY <1>6
  <2>2. /\ ProcOnly(w) /\ proc'[w].pc = "fail" /\ proc'[w].o = o
        /\ proc'[w].error # "before"
    BY <1>0, <2>1, FailedType DEF Failures
  <2>3. Moved(w)
    <3>1. op' = op /\ prov' = prov
      BY <1>2, <1>6 DEF bank
    <3>2. /\ proc'[w].o \in Ops /\ op'[proc'[w].o].status # "NONE"
          /\ proc'[w].o[1] = "create" => prov'[proc'[w].o[2]] # "none"
      BY <1>1, <2>2, <3>1
    <3> QED
      BY <2>2, <3>2 DEF Moved, Unsent, At
  <2>4. TypeOK'
    BY <1>0, <1>2, <1>3, <1>6, <2>2 DEF TypeOK, ProcOnly, ProcType, clock, bank
  <2> QED
    BY <1>2, <1>6, <2>2, <2>3, <2>4, Same, WorkStep DEF ProcOnly, clock, bank
<1> QED
  BY <1>5, <1>6 DEF Apply

\* A worker deals with a failure.
LEMMA HandleFailureStep ==
  ASSUME IInv, NEW w \in Workers, HandleFailure(w) PROVE IInv'
<1> DEFINE o == proc[w].o
           p == proc[w].o[2]
<1>0. TypeOK /\ proc[w].pc = "fail"
  BY DEF IInv, HandleFailure, At
<1>1. /\ o \in Ops /\ p \in Payments /\ op[o] \in OpType /\ pay[p] \in PayType
      /\ o[1] = "create" => o = Create(p)
      /\ o[1] = "create" /\ prov[p] = "none" => ~proc[w].known
      /\ o[1] = "create" /\ prov[p] # "none" => op[o].attempt >= 1
  BY <1>0, BusyFacts, Types
<1>2. /\ UNCHANGED <<clock, bank, identity, faults, blocks, created, grants>>
      /\ lapsed' \subseteq lapsed
  BY DEF HandleFailure
<1>3. ProcOnly(w) /\ proc'[w].pc = "idle"
  BY <1>0, DoneType DEF HandleFailure
<1> DEFINE Good == /\ op' \in [Ops -> OpType] /\ \A x \in Ops : WorkOp(w, x)
                   /\ pay' \in [Payments -> PayType] /\ \A q \in Payments : WorkPay(q)
<1>4. pay' = pay => pay' \in [Payments -> PayType] /\ \A q \in Payments : WorkPay(q)
  BY <1>0, <1>2, Types, Same
<1>5. op' = op => op' \in [Ops -> OpType] /\ \A x \in Ops : WorkOp(w, x)
  BY <1>0, Types, Same
<1>6. ASSUME NEW s \in {"PENDING", "SUCCEEDED", "FAILED", "UNKNOWN"}, op' = Released(o, s)
      PROVE  op' \in [Ops -> OpType] /\ \A x \in Ops : WorkOp(w, x)
  <2>1. OpOnly(o, s, op[o].attempt, op[o].known)
    BY <1>0, <1>1, <1>6, OpReleased DEF OpStatuses
  <2>2. op[o].attempt \in Nat
    BY <1>1 DEF OpType
  <2>3. \A x \in Ops : WorkOp(w, x)
    BY <1>0, <2>1, <2>2, Releases
  <2> QED
    BY <2>1, <2>3 DEF OpOnly
<1>7. ASSUME Retries(w), Owns(w), UNCHANGED pay,
             op' = [Released(o, "PENDING") EXCEPT ![o].attempt = RetryCount(w)]
      PROVE  Good
  <2> DEFINE a == RetryCount(w)
  <2>1. op[o].attempt >= 1 /\ op[o].attempt \in Nat
    BY <1>1, <1>7 DEF Owns, IInv, ProcessingCounted, OpType
  <2>2. a \in Nat /\ (a = op[o].attempt \/ (proc[w].error = "before" /\ a = op[o].attempt - 1))
    BY <2>1 DEF RetryCount
  <2>3. proc[w].error = "before" => ~proc[w].again
    BY <1>7 DEF Retries
  <2>4. /\ o[1] = "create" /\ prov[p] # "none" => a >= 1
    <3> SUFFICES ASSUME o[1] = "create", prov[p] # "none", a = op[o].attempt - 1,
                        proc[w].error = "before"
                 PROVE  a >= 1
      BY <1>1, <2>2
    <3>1. Unsent(w, p)
      BY <1>0, <1>1, <1>7, <2>3 DEF Unsent, Busy, At
    <3>2. op[o].attempt >= 2
      BY <1>1, <3>1 DEF IInv, AttemptsCount
    <3> QED
      BY <2>1, <3>2
  <2> HIDE DEF a
  <2>5. OpOnly(o, "PENDING", a, op[o].known)
    <3>1. op' = [Released(o, "PENDING") EXCEPT ![o].attempt = a]
      BY <1>7 DEF a
    <3> QED
      BY <1>0, <1>1, <2>2, <3>1, Types DEF Released, OpOnly, OpType, OpStatuses
  <2>6. \A x \in Ops : WorkOp(w, x)
    BY <1>0, <2>2, <2>4, <2>5, Releases
  <2> QED
    BY <1>4, <1>7, <2>5, <2>6 DEF OpOnly
<1>8. ASSUME Settles(w), o[1] = "create", op' = Released(o, "FAILED"),
             pay' = [pay EXCEPT ![p].status = "CANCELLED", ![p].provider = "rejected"]
      PROVE  Good
  <2>1. pay[p].status = "PENDING"
    BY <1>8 DEF Settles
  <2>2. PayOnly(p, "CANCELLED", "rejected", pay[p].bound)
    BY <1>0, <1>1, <1>8, PayBoth DEF Statuses, ProviderStatuses
  <2>3. \A q \in Payments : WorkPay(q)
    BY <1>2, <2>1, <2>2 DEF WorkPay, PayOnly
  <2> QED
    BY <1>6, <1>8, <2>2, <2>3 DEF PayOnly
<1>9. ASSUME Settles(w), o[1] = "create", SettleUnknown(w, proc[w].known)
      PROVE  Good
  <2>1. PayOnly(p, pay[p].status, "unknown", pay[p].bound)
    BY <1>0, <1>1, <1>9, PayProvider DEF SettleUnknown, ProviderStatuses
  <2>2. \A q \in Payments : WorkPay(q)
    BY <1>2, <2>1 DEF WorkPay, PayOnly
  <2>3. proc[w].known \in BOOLEAN /\ op[o].known \in BOOLEAN
    BY <1>0, <1>1, Types DEF ProcType, OpType
  <2> DEFINE k == op[o].known \/ proc[w].known
  <2>4. OpOnly(o, "UNKNOWN", op[o].attempt, k)
    <3>1. op' = [Released(o, "UNKNOWN") EXCEPT ![o].known = op[o].known \/ proc[w].known]
      BY <1>0, <1>1, <1>9, Types DEF SettleUnknown, Released, OpType
    <3> QED
      BY <1>0, <1>1, <2>3, <3>1, Types DEF Released, OpOnly, OpType, OpStatuses
  <2>5. op[o].attempt \in Nat /\ (k => op[o].known \/ (o[1] = "create" => prov[p] # "none"))
    BY <1>1 DEF OpType
  <2> HIDE DEF k
  <2>6. \A x \in Ops : WorkOp(w, x)
    BY <1>0, <1>9, <2>4, <2>5, Releases
  <2> QED
    BY <2>1, <2>2, <2>4, <2>6 DEF PayOnly, OpOnly
<1>10. ASSUME NEW s \in {"FAILED", "UNKNOWN"}, op' = Released(o, s), UNCHANGED pay
       PROVE  Good
  BY <1>4, <1>6, <1>10
<1>11. Good
  BY <1>4, <1>5, <1>7, <1>8, <1>9, <1>10 DEF HandleFailure
<1>12. TypeOK'
  BY <1>0, <1>2, <1>3, <1>11
  DEF TypeOK, PayType, OpType, ProcOnly, ProcType, clock, bank
<1> QED
  BY <1>2, <1>3, <1>11, <1>12, IdleMoved, Same, WorkStep DEF ProcOnly, clock, bank

\* A worker at the dispatch that has passed the checks sends at most one
\* request that creates a payment.
LEMMA PostOnce ==
  ASSUME IInv, NEW w \in Workers, proc[w].pc = "dispatch",
         ~Fenced(w), ~WindowClosed(w), ~pay[proc[w].o[2]].bound, Post(proc[w].o[2]),
         UNCHANGED <<pay, op>>
  PROVE  /\ \A q \in Payments : WorkProv(w, q)
         /\ prov' \in [Payments -> Answers \cup {"none"}]
         /\ created' \in [Payments -> Nat]
         /\ prov'[proc[w].o[2]] \in Answers
<1> DEFINE o == proc[w].o
           p == proc[w].o[2]
<1>0. TypeOK
  BY DEF IInv
<1>1. o \in Ops /\ p \in Payments /\ o = Create(p)
  BY BusyFacts DEF IInv, BusyHasOp, Busy, At
<1>2. Owns(w) /\ pay[p].status = "PENDING"
  BY DEF Fenced
<1>3. p \notin forgotten
  <2> SUFFICES ASSUME p \in forgotten PROVE FALSE
    OBVIOUS
  <2>1. prov[p] # "none" /\ o \in aged
    BY <1>1 DEF IInv, CreatedAgrees
  <2>2. Unsent(w, p)
    BY <1>1, <1>2 DEF Unsent, Busy, At
  <2>3. op[o].attempt >= 2 /\ op[o].attempt \in Nat
    BY <1>0, <1>1, <2>1, <2>2, Types DEF IInv, AttemptsCount, OpType
  <2> QED
    BY <2>1, <2>3 DEF WindowClosed
<1>4. /\ prov \in [Payments -> Answers \cup {"none"}]
      /\ created \in [Payments -> Nat]
  BY <1>0, Types
<1>5. CASE prov[p] = "none"
  <2>1. /\ prov' = [prov EXCEPT ![p] = "pending"]
        /\ created' = [created EXCEPT ![p] = @ + 1]
    BY <1>5 DEF Post
  <2>2. WorkProv(w, p)
    BY <1>1, <1>2, <1>4, <1>5, <2>1 DEF WorkProv
  <2>3. \A q \in Payments \ {p} : WorkProv(w, q)
    BY <1>4, <2>1 DEF WorkProv
  <2>4. prov' \in [Payments -> Answers \cup {"none"}] /\ prov'[p] \in Answers
    BY <1>1, <1>4, <2>1 DEF Answers
  <2>5. created' \in [Payments -> Nat]
    BY <1>1, <1>4, <2>1
  <2> QED
    BY <2>2, <2>3, <2>4, <2>5
<1>6. CASE prov[p] # "none"
  <2>1. prov' = prov /\ created' = created
    BY <1>1, <1>3, <1>4, <1>6 DEF Post
  <2> QED
    BY <1>1, <1>4, <1>6, <2>1 DEF WorkProv
<1> QED
  BY <1>5, <1>6

\* The dispatch of a request.
LEMMA DispatchStep ==
  ASSUME IInv, NEW w \in Workers, Dispatch(w) PROVE IInv'
<1> DEFINE o == proc[w].o
           p == proc[w].o[2]
<1>0. TypeOK /\ proc[w].pc = "dispatch"
  BY DEF IInv, Dispatch, At
<1>1. /\ o \in Ops /\ p \in Payments /\ o = Create(p) /\ o[1] = "create"
      /\ op[o] \in OpType /\ op[o].status # "NONE"
  BY <1>0, BusyFacts, Types DEF IInv, BusyHasOp, Busy, At
<1>2. /\ UNCHANGED <<clock, forgotten, identity, blocks, grants>>
      /\ lapsed' \subseteq lapsed
  BY DEF Dispatch
<1>3. ASSUME Fence(w) PROVE IInv'
  <2>1. ProcOnly(w) /\ proc'[w].pc = "idle"
    BY <1>0, <1>3, DoneType DEF Fence
  <2>2. op' \in [Ops -> OpType] /\ \A x \in Ops : WorkOp(w, x)
    <3>1. CASE op' = op
      BY <1>0, <3>1, Types, Same
    <3>2. CASE op' = Released(o, "FAILED")
      <4>1. OpOnly(o, "FAILED", op[o].attempt, op[o].known)
        BY <1>0, <1>1, <3>2, OpReleased DEF OpStatuses
      <4>2. op[o].attempt \in Nat
        BY <1>1 DEF OpType
      <4>3. \A x \in Ops : WorkOp(w, x)
        BY <1>0, <4>1, <4>2, Releases
      <4> QED
        BY <4>1, <4>3 DEF OpOnly
    <3> QED
      BY <1>3, <3>1, <3>2 DEF Fence
  <2>3. UNCHANGED <<pay, prov, faults, created>>
    BY <1>3 DEF Fence
  <2>4. TypeOK'
    BY <1>0, <1>2, <2>1, <2>2, <2>3 DEF TypeOK, OpType, ProcOnly, ProcType, clock
  <2> QED
    BY <1>2, <2>1, <2>2, <2>3, <2>4, IdleMoved, Same, WorkStep DEF ProcOnly, clock
<1>4. ASSUME SettleUnknown(w, FALSE), Done(w), UNCHANGED <<prov, faults, created>>
      PROVE  IInv'
  <2>1. ProcOnly(w) /\ proc'[w].pc = "idle"
    BY <1>0, <1>4, DoneType
  <2>2. OpOnly(o, "UNKNOWN", op[o].attempt, op[o].known)
    BY <1>0, <1>1, <1>4, Types DEF SettleUnknown, Released, OpOnly, OpType, OpStatuses
  <2>3. op[o].attempt \in Nat
    BY <1>1 DEF OpType
  <2>4. \A x \in Ops : WorkOp(w, x)
    BY <1>0, <2>2, <2>3, Releases
  <2>5. PayOnly(p, pay[p].status, "unknown", pay[p].bound)
    BY <1>0, <1>1, <1>4, PayProvider DEF SettleUnknown, ProviderStatuses
  <2>6. \A q \in Payments : WorkPay(q)
    BY <1>2, <2>5 DEF WorkPay, PayOnly
  <2>7. TypeOK'
    BY <1>0, <1>2, <1>4, <2>1, <2>2, <2>5
    DEF TypeOK, PayOnly, PayType, OpOnly, OpType, ProcOnly, ProcType, clock
  <2> QED
    BY <1>2, <1>4, <2>1, <2>4, <2>6, <2>7, IdleMoved, Same, WorkStep DEF ProcOnly, clock
<1>5. ASSUME GetPayment(w, p), pay[p].bound, UNCHANGED <<pay, op>> PROVE IInv'
  <2>1. prov[p] # "none" /\ prov[p] \in Answers
    BY <1>0, <1>1, <1>5 DEF IInv, KnownExists, TypeOK
  <2>2. prov' = prov /\ created' = created
    BY <1>5 DEF GetPayment
  <2>3. ProcOnly(w) /\ Moved(w)
    <3>1. CASE Answered(w, prov[p])
      <4>1. /\ ProcOnly(w) /\ proc'[w].pc = "apply" /\ proc'[w].o = o
            /\ proc'[w].answer = prov[p]
        BY <1>0, <2>1, <3>1, AnsweredType
      <4> QED
        BY <1>1, <1>5, <2>1, <2>2, <4>1 DEF Moved, Unsent, At
    <3>2. ASSUME NEW e \in {"retryable", "rejected", "after"}, Failed(w, e, TRUE)
          PROVE  ProcOnly(w) /\ Moved(w)
      <4>1. /\ ProcOnly(w) /\ proc'[w].pc = "fail" /\ proc'[w].o = o
            /\ proc'[w].error # "before"
        BY <1>0, <3>2, FailedType DEF Failures
      <4> QED
        BY <1>1, <1>5, <2>1, <2>2, <4>1 DEF Moved, Unsent, At
    <3> QED
      BY <1>5, <3>1, <3>2 DEF GetPayment
  <2>4. faults' \in 0..MaxFaults
    BY <1>0, <1>5, FaultBound DEF GetPayment
  <2>5. TypeOK'
    BY <1>0, <1>2, <1>5, <2>2, <2>3, <2>4 DEF TypeOK, ProcOnly, ProcType, clock
  <2> QED
    BY <1>2, <1>5, <2>2, <2>3, <2>5, Same, WorkStep DEF ProcOnly, clock
<1>6. ASSUME Call(w, p), ~Fenced(w), ~WindowClosed(w), ~pay[p].bound, UNCHANGED <<pay, op>>
      PROVE  IInv'
  <2>1. Post(p) \/ UNCHANGED <<prov, created>>
    BY <1>6 DEF Call
  <2>2. /\ \A q \in Payments : WorkProv(w, q)
        /\ prov' \in [Payments -> Answers \cup {"none"}]
        /\ created' \in [Payments -> Nat]
        /\ Post(p) => prov'[p] \in Answers
    BY <1>0, <1>6, <2>1, PostOnce, Same, Types
  <2>3. ProcOnly(w) /\ Moved(w)
    <3>0. "none" \notin Answers
      BY DEF Answers
    <3>1. CASE Post(p) /\ Answered(w, prov'[p])
      <4>1. /\ ProcOnly(w) /\ proc'[w].pc = "apply" /\ proc'[w].o = o
            /\ proc'[w].answer = prov'[p]
        BY <1>0, <2>2, <3>1, AnsweredType
      <4> QED
        BY <1>1, <1>6, <2>2, <3>0, <3>1, <4>1 DEF Moved, Unsent, At
    <3>2. ASSUME NEW e \in {"retryable", "rejected"}, Failed(w, e, FALSE)
          PROVE  ProcOnly(w) /\ Moved(w)
      <4>1. /\ ProcOnly(w) /\ proc'[w].pc = "fail" /\ proc'[w].o = o
            /\ proc'[w].error # "before" /\ ~proc'[w].known
        BY <1>0, <3>2, FailedType DEF Failures
      <4> QED
        BY <1>1, <1>6, <4>1 DEF Moved, Unsent, At
    <3>3. CASE Post(p) /\ Failed(w, "after", TRUE)
      <4>1. /\ ProcOnly(w) /\ proc'[w].pc = "fail" /\ proc'[w].o = o
            /\ proc'[w].error # "before"
        BY <1>0, <3>3, FailedType DEF Failures
      <4>2. prov'[p] # "none"
        BY <2>2, <3>0, <3>3
      <4> QED
        BY <1>1, <1>6, <4>1, <4>2 DEF Moved, Unsent, At
    <3>4. CASE Done(w)
      BY <1>0, <3>4, DoneType, IdleMoved
    <3> QED
      BY <1>6, <3>1, <3>2, <3>3, <3>4 DEF Call
  <2>4. faults' \in 0..MaxFaults
    BY <1>0, <1>6, FaultBound DEF Call
  <2>5. TypeOK'
    BY <1>0, <1>2, <1>6, <2>2, <2>3, <2>4 DEF TypeOK, ProcOnly, ProcType, clock
  <2> QED
    BY <1>2, <1>6, <2>2, <2>3, <2>5, Same, WorkStep DEF ProcOnly, clock
<1>7. ASSUME ~Fenced(w), Fault, Failed(w, "before", FALSE),
             UNCHANGED <<pay, op, prov, created>>
      PROVE  IInv'
  <2>1. /\ ProcOnly(w) /\ proc'[w].pc = "fail" /\ proc'[w].o = o
        /\ proc'[w].known = FALSE
    BY <1>0, <1>7, FailedType DEF Failures
  <2>2. ASSUME NEW q \in Payments, prov'[q] # "none", Unsent(w, q)'
        PROVE  op'[Create(q)].attempt >= 2
    <3>1. Create(q) = o /\ q = p
      BY <1>1, <2>1, <2>2, CreateFacts DEF Unsent
    <3>2. Unsent(w, p)
      BY <1>0, <1>1, <1>7 DEF Unsent, Busy, At, Fenced
    <3> QED
      BY <1>1, <1>7, <2>2, <3>1, <3>2 DEF IInv, AttemptsCount
  <2>3. Moved(w)
    BY <1>1, <1>7, <2>1, <2>2 DEF Moved
  <2>4. faults' \in 0..MaxFaults
    BY <1>0, <1>7, FaultBound
  <2>5. TypeOK'
    BY <1>0, <1>2, <1>7, <2>1, <2>4 DEF TypeOK, ProcOnly, ProcType, clock
  <2> QED
    BY <1>2, <1>7, <2>1, <2>3, <2>5, Same, WorkStep DEF ProcOnly, clock
<1> QED
  BY <1>3, <1>4, <1>5, <1>6, <1>7 DEF Dispatch

-----------------------------------------------------------------------------
\* The results

\* Nothing has happened.
LEMMA InitInv == Init => IInv
<1> SUFFICES ASSUME Init PROVE IInv
  OBVIOUS
<1>1. NoPayment \in PayType /\ NoOp \in OpType /\ Idle \in ProcType
  BY DEF NoPayment, NoOp, Idle, PayType, OpType, ProcType, Statuses, ProviderStatuses,
         OpStatuses
<1>2. TypeOK
  <2>1. faults \in 0..MaxFaults /\ blocks \in 0..MaxBlocks
    BY BoundsAssumption DEF Init
  <2>2. /\ pay \in [Payments -> PayType] /\ op \in [Ops -> OpType]
        /\ proc \in [Workers -> ProcType]
    BY <1>1 DEF Init
  <2> QED
    BY <2>1, <2>2 DEF Init, TypeOK, PayType, OpType, ProcType
<1>3. /\ \A w \in Workers : proc[w].pc = "idle"
      /\ \A p \in Payments : /\ pay[p].status = "NONE" /\ ~pay[p].bound
                             /\ prov[p] = "none" /\ created[p] = 0 /\ grants[p] = 0
      /\ \A o \in Ops : op[o].status = "NONE" /\ ~op[o].known
      /\ forgotten = {}
  BY DEF Init, Idle, NoPayment, NoOp
<1> QED
  BY <1>2, <1>3, CreateFacts
  DEF IInv, BusyHasOp, CreatedAgrees, KnownExists, AnswersTrue, ProcessingCounted,
      AttemptsCount, NotBefore, OneGrant, Busy, At

\* The invariant holds in every state.
THEOREM Invariance == Spec => []IInv
<1>1. IInv /\ [Next]_vars => IInv'
  <2> SUFFICES ASSUME IInv, [Next]_vars PROVE IInv'
    OBVIOUS
  <2>1. CASE UNCHANGED vars
    <3>1. /\ UNCHANGED <<pay, op, due, aged, lapsed, prov, forgotten, identity, proc>>
          /\ UNCHANGED <<faults, blocks, created, grants>>
      BY <2>1 DEF vars, clock, bank
    <3>2. TypeOK'
      BY <3>1 DEF IInv, TypeOK
    <3> QED
      BY <3>1, <3>2, QuietStep DEF PayQuiet, ProvQuiet, KeyQuiet, OpQuiet
  <2>2. CASE \E w \in Workers : WorkerStep(w) \/ Crash(w)
    BY <2>2, ClaimStep, DispatchStep, ReadStep, ApplyStep, FinishStep,
       HandleFailureStep, CrashStep DEF WorkerStep
  <2> QED
    BY <2>1, <2>2, CreatePaymentStep, CancelPendingStep, SettleExpiredStep,
       QueueVerificationStep, ResolveUnknownStep, RevokeStep, ProviderStep, ArmStep,
       ClockStep DEF Next
<1> QED
  BY <1>1, InitInv, PTL DEF Spec

\* The variables have their types.
THEOREM TypeCorrect == Spec => []TypeOK
<1>1. IInv => TypeOK
  BY DEF IInv
<1> QED
  BY <1>1, Invariance, PTL

\* However many workers there are, and whatever is lost, repeated or taken
\* over, a payment is granted once, and only when YooKassa holds the money.
THEOREM GrantedOnce == Spec => []OneGrant
<1>1. IInv => OneGrant
  BY DEF IInv
<1> QED
  BY <1>1, Invariance, PTL

\* A payment is created at YooKassa at most once, whatever happens to the
\* requests and although the idempotency key is dropped.
THEOREM CreatedOnce == Spec => []OneProviderPayment
<1>1. IInv => OneProviderPayment
  BY DEF IInv, CreatedAgrees, OneProviderPayment
<1> QED
  BY <1>1, Invariance, PTL

-----------------------------------------------------------------------------
\* Payments in doubt, of a user who is not deactivated

\* What the database says of a payment that YooKassa may hold.
Kept(p) ==
    /\ pay[p].status = "SUCCEEDED" => pay[p].bound
    /\ pay[p].provider = "rejected" => pay[p].status \notin {"NONE", "PENDING"}
    /\ prov[p] # "none" /\ ~pay[p].bound =>
        \/ pay[p].provider = "rejected"
        \/ pay[p].status = "PENDING" /\ MayHaveReached(Create(p))

\* A worker that ends its creation has bound the payment.
FinishBound == \A w \in Workers :
    At(w, "finish") /\ proc[w].o[1] = "create" => pay[proc[w].o[2]].bound

DoubtInv == /\ identity = "ACTIVE"
            /\ \A p \in Payments : Kept(p)
            /\ FinishBound

\* A payment whose rows the step leaves alone.
LEMMA Untouched ==
  ASSUME NEW p \in Payments, Kept(p), pay'[p] = pay[p], op'[Create(p)] = op[Create(p)],
         prov'[p] # "none" => prov[p] # "none"
  PROVE  Kept(p)'
  BY DEF Kept, MayHaveReached

\* A step that binds no worker to its end.
LEMMA FinishKept ==
  ASSUME FinishBound, NEW w,
         \A p \in Payments : pay[p].bound => pay'[p].bound,
         \A v \in Workers \ {w} : proc'[v] = proc[v],
         \A v \in Workers : proc[v].pc # "idle" => proc[v].o[2] \in Payments,
         w \in Workers => proc'[w] = proc[w] \/ proc'[w].pc # "finish"
  PROVE  FinishBound'
  BY DEF FinishBound, At

\* What users, administrators, YooKassa and time do to the payment p.
LEMMA DoubtOutside ==
  ASSUME IInv, DoubtInv, NEW p \in Payments,
         \/ CreatePayment(p) \/ CancelPending(p) \/ SettleExpired(p)
         \/ QueueVerification(p) \/ ResolveUnknown(p)
         \/ UserPays(p) \/ ProviderCancels(p) \/ ProviderForgets(p) \/ Webhook(p)
         \/ CheckoutExpires(p) \/ ReconcileReceipts(p)
  PROVE  DoubtInv'
<1>0. /\ TypeOK /\ \A q \in Payments : Kept(q)
  BY DEF IInv, DoubtInv
<1>1. identity' = "ACTIVE" /\ proc' = proc
  BY DEF DoubtInv, CreatePayment, CancelPending, SettleExpired, QueueVerification,
     ResolveUnknown, UserPays, ProviderCancels, ProviderForgets, Webhook, CheckoutExpires,
     ReconcileReceipts
<1>2. /\ pay \in [Payments -> PayType] /\ op \in [Ops -> OpType]
      /\ prov \in [Payments -> Answers \cup {"none"}]
  BY <1>0, Types
<1>3. \A q \in Payments : Create(q) \in Ops /\ Create(q)[1] = "create" /\ Create(q)[2] = q
  BY CreateFacts
<1>4. prov[p] # "none" => op[Create(p)].attempt >= 1
  BY DEF IInv, AttemptsCount
<1>5. CASE \/ QueueVerification(p) \/ UserPays(p) \/ ProviderCancels(p) \/ ProviderForgets(p)
           \/ Webhook(p) \/ CheckoutExpires(p) \/ ReconcileReceipts(p)
  <2>0. \A q \in Payments, k \in {"verify", "webhook", "receipt"} : Create(q) # <<k, p>>
    BY DEF Create
  <2>1. UNCHANGED pay /\ \A q \in Payments : op'[Create(q)] = op[Create(q)]
    <3>1. CASE QueueVerification(p)
      BY <1>2, <1>3, <2>0, <3>1 DEF QueueVerification
    <3>2. CASE Webhook(p)
      BY <1>2, <1>3, <2>0, <3>2 DEF Webhook
    <3>3. CASE ReconcileReceipts(p)
      BY <1>2, <1>3, <2>0, <3>3 DEF ReconcileReceipts
    <3> QED
      BY <1>5, <3>1, <3>2, <3>3
      DEF UserPays, ProviderCancels, ProviderForgets, CheckoutExpires
  <2>2. \A q \in Payments : prov'[q] # "none" => prov[q] # "none"
    BY <1>2, <1>5 DEF UserPays, ProviderCancels, ProviderForgets, QueueVerification,
       Webhook, CheckoutExpires, ReconcileReceipts, bank
  <2>3. \A q \in Payments : Kept(q)'
    BY <1>0, <2>1, <2>2, Untouched
  <2>4. FinishBound'
    BY <1>1, <2>1 DEF DoubtInv, FinishBound, At
  <2> QED
    BY <1>1, <2>3, <2>4 DEF DoubtInv
<1>6. CASE CreatePayment(p) \/ CancelPending(p) \/ SettleExpired(p) \/ ResolveUnknown(p)
  <2>1. prov' = prov /\ \A q \in Payments \ {p} :
            pay'[q] = pay[q] /\ op'[Create(q)] = op[Create(q)]
    BY <1>2, <1>3, <1>6 DEF CreatePayment, CancelPending, SettleExpired, ResolveUnknown,
       Released, bank, Create
  <2>2. \A q \in Payments : pay'[q].bound = pay[q].bound
    BY <1>2, <1>6 DEF CreatePayment, CancelPending, SettleExpired, ResolveUnknown, PayType
  <2>3. Kept(p)'
    <3>1. CASE CreatePayment(p)
      <4>1. prov[p] = "none"
        BY <3>1 DEF IInv, NotBefore, CreatePayment
      <4>2. pay'[p].status = "PENDING" /\ pay'[p].provider = pay[p].provider
        BY <1>2, <3>1 DEF CreatePayment, PayType
      <4> QED
        BY <1>0, <2>1, <3>1, <4>1, <4>2 DEF Kept, CreatePayment
    <3>2. CASE CancelPending(p) \/ ResolveUnknown(p)
      <4>1. prov[p] = "none"
        BY <1>4, <3>2 DEF CancelPending, ResolveUnknown
      <4>2. pay'[p].status = "CANCELLED" /\ pay'[p].provider # "rejected"
        BY <1>2, <3>2 DEF CancelPending, ResolveUnknown, PayType
      <4> QED
        BY <2>1, <4>1, <4>2 DEF Kept
    <3>3. CASE SettleExpired(p) /\ MayHaveReached(Create(p))
      <4>1. pay'[p].status = "PENDING" /\ pay'[p].provider = "unknown"
        BY <1>2, <3>3 DEF SettleExpired, PayType
      <4>2. op'[Create(p)].status = "UNKNOWN"
        BY <1>2, <1>3, <3>3 DEF SettleExpired, OpType
      <4> QED
        BY <4>1, <4>2 DEF Kept, MayHaveReached
    <3>4. CASE SettleExpired(p) /\ ~MayHaveReached(Create(p))
      <4>1. pay'[p].status = "EXPIRED" /\ pay'[p].provider = pay[p].provider
        BY <1>2, <3>4 DEF SettleExpired, PayType
      <4>2. prov[p] = "none" /\ pay[p].provider # "rejected"
        BY <1>0, <3>4 DEF Kept, SettleExpired
      <4> QED
        BY <2>1, <4>1, <4>2 DEF Kept
    <3> QED
      BY <1>6, <3>1, <3>2, <3>3, <3>4
  <2>4. \A q \in Payments : Kept(q)'
    BY <1>0, <2>1, <2>3, Untouched
  <2>5. FinishBound'
    BY <1>1, <2>2, FinishKept, BusyFacts DEF DoubtInv
  <2> QED
    BY <1>1, <2>4, <2>5 DEF DoubtInv
<1> QED
  BY <1>5, <1>6

\* What a step of the worker w has to show.
LEMMA DoubtWork ==
  ASSUME IInv, DoubtInv, NEW w \in Workers, identity' = identity, ProcOnly(w),
         proc'[w].pc = "finish" /\ proc'[w].o[1] = "create" => pay'[proc'[w].o[2]].bound,
         \A p \in Payments : Kept(p)' /\ (pay[p].bound => pay'[p].bound)
  PROVE  DoubtInv'
<1>1. \A v \in Workers : proc[v].pc # "idle" => proc[v].o[2] \in Payments
  BY BusyFacts
<1> QED
  BY <1>1 DEF DoubtInv, FinishBound, At, ProcOnly

\* A worker claims an operation.
LEMMA DoubtClaim ==
  ASSUME IInv, DoubtInv, NEW w \in Workers, NEW o \in Ops, Claim(w, o) PROVE DoubtInv'
<1>0. TypeOK /\ op \in [Ops -> OpType] /\ proc \in [Workers -> ProcType]
  BY Types DEF IInv
<1>1. UNCHANGED <<pay, prov, identity>>
  BY DEF Claim, bank
<1>2. op'[o].status = "PROCESSING" /\ \A x \in Ops \ {o} : op'[x] = op[x]
  BY <1>0 DEF Claim, OpType
<1> DEFINE r == [Idle EXCEPT !.pc = IF o[1] = "create" THEN "dispatch" ELSE "read",
                             !.o = o, !.again = op[o].status = "PROCESSING"]
<1>3. r \in ProcType /\ r.pc # "finish"
  BY DEF Idle, ProcType
<1>4. proc' = [proc EXCEPT ![w] = r]
  BY DEF Claim
<1> HIDE DEF r
<1>5. ProcOnly(w) /\ proc'[w].pc # "finish"
  BY <1>0, <1>3, <1>4 DEF ProcOnly
<1>6. ASSUME NEW p \in Payments PROVE Kept(p)'
  <2>1. Create(p) \in Ops /\ Kept(p)
    BY CreateFacts DEF DoubtInv
  <2>2. CASE Create(p) # o
    BY <1>1, <1>2, <2>1, <2>2, Untouched
  <2>3. CASE Create(p) = o
    BY <1>1, <1>2, <2>1, <2>3 DEF Kept, MayHaveReached
  <2> QED
    BY <2>2, <2>3
<1> QED
  BY <1>1, <1>5, <1>6, DoubtWork

\* A worker reads, or dies.
LEMMA DoubtQuiet ==
  ASSUME IInv, DoubtInv, NEW w \in Workers, Read(w) \/ Crash(w) PROVE DoubtInv'
<1>0. TypeOK
  BY DEF IInv
<1>1. UNCHANGED <<pay, op, prov, identity>>
  BY DEF Read, Crash, bank
<1>2. ProcOnly(w) /\ proc'[w].pc # "finish"
  <2>1. CASE Done(w)
    BY <1>0, <2>1, DoneType
  <2>2. ASSUME NEW e \in {"retryable", "rejected"}, Failed(w, e, FALSE)
        PROVE  ProcOnly(w) /\ proc'[w].pc # "finish"
    BY <1>0, <2>2, FailedType DEF Failures
  <2>3. ASSUME NEW a \in Answers, Answered(w, a)
        PROVE  ProcOnly(w) /\ proc'[w].pc # "finish"
    BY <1>0, <2>3, AnsweredType
  <2>4. CASE At(w, "read") /\ proc[w].o[1] # "receipt" /\ Answered(w, prov[proc[w].o[2]])
    <3>1. proc[w].o \in Ops /\ proc[w].o[2] \in Payments /\ proc[w].o[1] # "create"
          /\ (proc[w].o[1] \in {"webhook", "verify"} => prov[proc[w].o[2]] # "none")
      BY <2>4, BusyFacts DEF At, IInv, BusyHasOp, Busy
    <3>2. prov[proc[w].o[2]] \in Answers
      BY <1>0, <2>4, <3>1, Types, OpsFacts DEF Kinds
    <3> QED
      BY <2>3, <2>4, <3>2
  <2> QED
    BY <2>1, <2>2, <2>3, <2>4 DEF Read, Crash
<1>3. \A p \in Payments : Kept(p)'
  BY <1>1, Untouched DEF DoubtInv
<1> QED
  BY <1>1, <1>2, <1>3, DoubtWork

\* A worker applies an answer.
LEMMA DoubtApply ==
  ASSUME IInv, DoubtInv, NEW w \in Workers, Apply(w) PROVE DoubtInv'
<1> DEFINE o == proc[w].o
           p == proc[w].o[2]
<1>0. TypeOK /\ proc[w].pc = "apply" /\ \A q \in Payments : Kept(q)
  BY DEF IInv, Apply, At, DoubtInv
<1>1. o \in Ops /\ p \in Payments
  BY <1>0, BusyFacts
<1>2. UNCHANGED <<prov, identity>>
  BY DEF Apply, bank
<1>3. /\ pay \in [Payments -> PayType] /\ op \in [Ops -> OpType]
  BY <1>0, Types
<1>4. \A q \in Payments : op'[Create(q)] = op[Create(q)]
  <2>1. \A q \in Payments : Create(q) \in Ops /\ Create(q) # <<"receipt", p>>
                            /\ (o[1] = "receipt" => Create(q) # o)
    BY CreateFacts DEF Create
  <2>2. CASE op' = op
    BY <2>2
  <2>3. CASE o[1] = "receipt"
             /\ op' = [op EXCEPT ![o].known = @ \/ proc[w].answer = "succeeded"]
    BY <1>1, <1>3, <2>1, <2>3
  <2>4. CASE op' = [op EXCEPT ![<<"receipt", p>>] = Queued]
    BY <1>3, <2>1, <2>4
  <2> QED
    BY <2>2, <2>3, <2>4
    DEF Apply, ApplySuccess, MarkProviderCancelled, BindProviderState
<1>5. CASE Go(w, "finish") /\ o[1] # "receipt"
           /\ (ApplySuccess(p) \/ MarkProviderCancelled(p) \/ BindProviderState(p))
  <2>1. ProcOnly(w) /\ proc'[w].o = o
    BY <1>0, <1>5, GoType
  <2>2. /\ \A q \in Payments \ {p} : pay'[q] = pay[q]
        /\ pay'[p].bound
        /\ pay'[p].provider = "rejected" => pay[p].provider = "rejected" /\ pay' = pay
    <3>1. CASE pay' = pay /\ pay[p].status = "SUCCEEDED"
      BY <1>0, <1>1, <3>1 DEF Kept
    <3>2. CASE \E s \in {"SUCCEEDED", "CANCELLED"}, v \in {"succeeded", "canceled"} :
                 pay' = [pay EXCEPT ![p] = [status |-> s, bound |-> TRUE, provider |-> v]]
      BY <1>1, <1>3, <3>2
    <3>3. CASE BindProviderState(p)
      BY <1>1, <1>3, <3>3 DEF BindProviderState, PayType
    <3> QED
      BY <1>5, <3>1, <3>2, <3>3 DEF ApplySuccess, MarkProviderCancelled
  <2>3. ASSUME NEW q \in Payments, q = p PROVE Kept(q)'
    BY <1>0, <2>2, <2>3 DEF Kept
  <2>4. \A q \in Payments \ {p} : Kept(q)'
    BY <1>0, <1>2, <1>4, <2>2, Untouched
  <2> QED
    BY <1>1, <1>2, <2>1, <2>2, <2>3, <2>4, DoubtWork
<1>6. CASE /\ UNCHANGED pay
           /\ \/ Go(w, "finish") /\ o[1] = "receipt"
              \/ \E e \in {"after", "retryable"}, k \in BOOLEAN : Failed(w, e, k)
  <2>1. ProcOnly(w) /\ ~(proc'[w].pc = "finish" /\ proc'[w].o[1] = "create")
    BY <1>0, <1>6, GoType, FailedType DEF Failures
  <2>2. \A q \in Payments : Kept(q)'
    BY <1>0, <1>2, <1>4, <1>6, Untouched
  <2> QED
    BY <1>2, <1>6, <2>1, <2>2, DoubtWork
<1> QED
  BY <1>5, <1>6 DEF Apply

\* A worker writes its operation o, and to the payment of a creation nothing
\* but what keeps it.
LEMMA DoubtOp ==
  ASSUME IInv, DoubtInv, NEW w \in Workers, NEW o \in Ops, NEW s, NEW a, NEW k,
         UNCHANGED <<pay, prov, identity>>, ProcOnly(w), proc'[w].pc # "finish",
         OpOnly(o, s, a, k),
         o[1] = "create" /\ prov[o[2]] # "none" /\ ~pay[o[2]].bound
            /\ pay[o[2]].status = "PENDING"
         => s = "UNKNOWN" \/ (s = "PENDING" /\ a \in Nat /\ a >= 1)
  PROVE  DoubtInv'
<1>1. ASSUME NEW p \in Payments PROVE Kept(p)'
  <2>1. Create(p) \in Ops /\ Kept(p) /\ Create(p)[1] = "create" /\ Create(p)[2] = p
    BY CreateFacts DEF DoubtInv
  <2>2. CASE Create(p) # o
    <3>1. op'[Create(p)] = op[Create(p)]
      BY <2>1, <2>2 DEF OpOnly
    <3> QED
      BY <2>1, <3>1, Untouched
  <2>3. CASE Create(p) = o
    <3>1. op'[Create(p)].status = s /\ op'[Create(p)].attempt = a
      BY <2>3 DEF OpOnly
    <3> QED
      BY <2>1, <2>3, <3>1 DEF Kept, MayHaveReached
  <2> QED
    BY <2>2, <2>3
<1> QED
  BY <1>1, DoubtWork

\* A worker ends.
LEMMA DoubtFinish ==
  ASSUME IInv, DoubtInv, NEW w \in Workers, Finish(w) PROVE DoubtInv'
<1> DEFINE o == proc[w].o
<1>0. TypeOK /\ proc[w].pc = "finish"
  BY DEF IInv, Finish, At
<1>1. o \in Ops /\ (o[1] = "create" => pay[o[2]].bound)
  BY <1>0, BusyFacts DEF DoubtInv, FinishBound, At
<1>2. ProcOnly(w) /\ proc'[w].pc = "idle"
  BY <1>0, DoneType DEF Finish
<1>3. UNCHANGED <<pay, prov, identity>>
  BY DEF Finish, bank
<1>4. CASE op' = op
  <2>1. \A p \in Payments : Kept(p)'
    BY <1>3, <1>4, Untouched DEF DoubtInv
  <2> QED
    BY <1>2, <1>3, <2>1, DoubtWork
<1>5. ASSUME NEW s \in {"SUCCEEDED", "PENDING"}, op' = Released(o, s) PROVE DoubtInv'
  <2>1. OpOnly(o, s, op[o].attempt, op[o].known)
    BY <1>0, <1>1, <1>5, OpReleased DEF OpStatuses
  <2> QED
    BY <1>1, <1>2, <1>3, <2>1, DoubtOp
<1> QED
  BY <1>4, <1>5 DEF Finish

\* A worker puts an operation in doubt.
LEMMA DoubtUnknown ==
  ASSUME IInv, DoubtInv, NEW w \in Workers, NEW k \in BOOLEAN, SettleUnknown(w, k), Done(w),
         proc[w].pc # "idle", proc[w].o[1] = "create", pay[proc[w].o[2]].status = "PENDING",
         UNCHANGED <<prov, identity>>
  PROVE  DoubtInv'
<1> DEFINE o == proc[w].o
           p == proc[w].o[2]
<1>0. TypeOK /\ \A q \in Payments : Kept(q)
  BY DEF IInv, DoubtInv
<1>1. o \in Ops /\ p \in Payments /\ o = Create(p)
  BY BusyFacts
<1>2. ProcOnly(w) /\ proc'[w].pc = "idle"
  BY <1>0, DoneType
<1>3. PayOnly(p, pay[p].status, "unknown", pay[p].bound)
  BY <1>0, <1>1, PayProvider DEF SettleUnknown, ProviderStatuses
<1>4. op'[o].status = "UNKNOWN" /\ \A x \in Ops \ {o} : op'[x] = op[x]
  BY <1>0, <1>1, Types DEF SettleUnknown, Released, OpType
<1>5. ASSUME NEW q \in Payments, q = p PROVE Kept(q)'
  BY <1>0, <1>1, <1>3, <1>4, <1>5 DEF Kept, PayOnly, MayHaveReached
<1>6. ASSUME NEW q \in Payments \ {p} PROVE Kept(q)'
  <2>1. Create(q) \in Ops /\ Create(q) # o
    BY <1>1, CreateFacts
  <2> QED
    BY <1>0, <1>3, <1>4, <2>1, Untouched DEF PayOnly
<1>7. \A q \in Payments : pay[q].bound => pay'[q].bound
  BY <1>3 DEF PayOnly
<1> QED
  BY <1>2, <1>5, <1>6, <1>7, DoubtWork

\* A worker deals with a failure.
LEMMA DoubtFailure ==
  ASSUME IInv, DoubtInv, NEW w \in Workers, HandleFailure(w) PROVE DoubtInv'
<1> DEFINE o == proc[w].o
           p == proc[w].o[2]
<1>0. TypeOK /\ proc[w].pc = "fail" /\ \A q \in Payments : Kept(q)
  BY DEF IInv, HandleFailure, At, DoubtInv
<1>1. /\ o \in Ops /\ p \in Payments /\ op[o] \in OpType /\ proc[w].known \in BOOLEAN
      /\ o[1] = "create" => o = Create(p)
  BY <1>0, BusyFacts, Types DEF ProcType
<1>2. UNCHANGED <<prov, identity>> /\ Done(w)
  BY DEF HandleFailure, bank
<1>3. ProcOnly(w) /\ proc'[w].pc = "idle"
  BY <1>0, <1>2, DoneType
<1>4. CASE UNCHANGED <<op, pay>>
  <2>1. \A q \in Payments : Kept(q)'
    BY <1>0, <1>2, <1>4, Untouched
  <2> QED
    BY <1>2, <1>3, <1>4, <2>1, DoubtWork
<1>5. ASSUME Retries(w), Owns(w), UNCHANGED pay,
             op' = [Released(o, "PENDING") EXCEPT ![o].attempt = RetryCount(w)]
      PROVE  DoubtInv'
  <2> DEFINE a == RetryCount(w)
  <2>1. op[o].attempt >= 1 /\ op[o].attempt \in Nat
    BY <1>1, <1>5 DEF Owns, IInv, ProcessingCounted, OpType
  <2>2. a \in Nat /\ (a = op[o].attempt \/ (proc[w].error = "before" /\ a = op[o].attempt - 1))
    BY <2>1 DEF RetryCount
  <2>3. o[1] = "create" /\ prov[p] # "none" => a >= 1
    <3> SUFFICES ASSUME o[1] = "create", prov[p] # "none", a = op[o].attempt - 1,
                        proc[w].error = "before"
                 PROVE  a >= 1
      BY <2>1, <2>2
    <3>1. Unsent(w, p)
      BY <1>0, <1>1, <1>5 DEF Unsent, Busy, At, Retries
    <3>2. op[o].attempt >= 2
      BY <1>1, <3>1 DEF IInv, AttemptsCount
    <3> QED
      BY <2>1, <3>2
  <2>4. op' = [Released(o, "PENDING") EXCEPT ![o].attempt = a]
    BY <1>5
  <2> HIDE DEF a
  <2>5. OpOnly(o, "PENDING", a, op[o].known)
    BY <1>0, <1>1, <2>2, <2>4, Types DEF Released, OpOnly, OpType, OpStatuses
  <2> QED
    BY <1>1, <1>2, <1>3, <1>5, <2>2, <2>3, <2>5, DoubtOp
<1>6. ASSUME Settles(w), o[1] = "create", op' = Released(o, "FAILED"),
             pay' = [pay EXCEPT ![p].status = "CANCELLED", ![p].provider = "rejected"]
      PROVE  DoubtInv'
  <2>1. PayOnly(p, "CANCELLED", "rejected", pay[p].bound)
    BY <1>0, <1>1, <1>6, PayBoth DEF Statuses, ProviderStatuses
  <2>2. OpOnly(o, "FAILED", op[o].attempt, op[o].known)
    BY <1>0, <1>1, <1>6, OpReleased DEF OpStatuses
  <2>3. ASSUME NEW q \in Payments, q = p PROVE Kept(q)'
    BY <2>1, <2>3 DEF Kept, PayOnly
  <2>4. ASSUME NEW q \in Payments \ {p} PROVE Kept(q)'
    <3>1. Create(q) \in Ops /\ Create(q) # o
      BY <1>1, <1>6, CreateFacts
    <3> QED
      BY <1>0, <1>2, <2>1, <2>2, <3>1, Untouched DEF PayOnly, OpOnly
  <2>5. \A q \in Payments : pay[q].bound => pay'[q].bound
    BY <2>1 DEF PayOnly
  <2> QED
    BY <1>2, <1>3, <2>3, <2>4, <2>5, DoubtWork
<1>7. ASSUME Settles(w), o[1] = "create", SettleUnknown(w, proc[w].known)
      PROVE  DoubtInv'
  BY <1>0, <1>1, <1>2, <1>7, DoubtUnknown DEF Settles
<1>8. ASSUME NEW s \in {"FAILED", "UNKNOWN"}, op' = Released(o, s), UNCHANGED pay,
             o[1] # "create"
      PROVE  DoubtInv'
  <2>1. OpOnly(o, s, op[o].attempt, op[o].known)
    BY <1>0, <1>1, <1>8, OpReleased DEF OpStatuses
  <2> QED
    BY <1>1, <1>2, <1>3, <1>8, <2>1, DoubtOp
<1> QED
  BY <1>4, <1>5, <1>6, <1>7, <1>8 DEF HandleFailure

\* The dispatch of a request.
LEMMA DoubtDispatch ==
  ASSUME IInv, DoubtInv, NEW w \in Workers, Dispatch(w) PROVE DoubtInv'
<1> DEFINE o == proc[w].o
           p == proc[w].o[2]
<1>0. TypeOK /\ proc[w].pc = "dispatch" /\ \A q \in Payments : Kept(q)
  BY DEF IInv, Dispatch, At, DoubtInv
<1>1. /\ o \in Ops /\ p \in Payments /\ o = Create(p) /\ o[1] = "create"
      /\ op[o] \in OpType
  BY <1>0, BusyFacts, Types DEF IInv, BusyHasOp, Busy, At
<1>2. identity' = identity /\ identity = "ACTIVE"
  BY DEF Dispatch, DoubtInv
<1>3. ASSUME Fence(w), Fenced(w) \/ CheckoutFenced(w)
      PROVE  DoubtInv'
  <2>1. ProcOnly(w) /\ proc'[w].pc = "idle"
    BY <1>0, <1>3, DoneType DEF Fence
  <2>2. UNCHANGED <<pay, prov>>
    BY <1>3 DEF Fence
  <2>3. CASE op' = op
    <3>1. \A q \in Payments : Kept(q)'
      BY <1>0, <2>2, <2>3, Untouched
    <3> QED
      BY <1>2, <2>1, <2>2, <3>1, DoubtWork
  <2>4. CASE Owns(w) /\ op' = Released(o, "FAILED")
    <3>1. OpOnly(o, "FAILED", op[o].attempt, op[o].known)
      BY <1>0, <1>1, <2>4, OpReleased DEF OpStatuses
    <3>2. Unsent(w, p) /\ op[o].attempt \in Nat
      BY <1>0, <1>1, <2>4 DEF Unsent, Busy, At, OpType
    <3>3. prov[p] # "none" => op[o].attempt >= 2
      BY <1>1, <3>2 DEF IInv, AttemptsCount
    <3>4. pay[p].status # "PENDING" \/ prov[p] = "none"
      BY <1>2, <1>3, <2>4, <3>2, <3>3 DEF Fenced, CheckoutFenced
    <3> QED
      BY <1>1, <1>2, <2>1, <2>2, <3>1, <3>4, DoubtOp
  <2> QED
    BY <1>3, <2>3, <2>4 DEF Fence
<1>4. ASSUME SettleUnknown(w, FALSE), Done(w), ~Fenced(w), UNCHANGED prov
      PROVE  DoubtInv'
  BY <1>0, <1>1, <1>2, <1>4, DoubtUnknown DEF Fenced
<1>5. ASSUME UNCHANGED <<pay, op>>, ~Fenced(w), ProcOnly(w), proc'[w].pc # "finish",
             Post(p) \/ UNCHANGED prov
      PROVE  DoubtInv'
  <2>1. pay[p].status = "PENDING" /\ op[o].status = "PROCESSING"
    BY <1>5 DEF Fenced, Owns
  <2>2. \A q \in Payments \ {p} : prov'[q] = prov[q]
    BY <1>0, <1>5, Types DEF Post
  <2>3. ASSUME NEW q \in Payments, q = p PROVE Kept(q)'
    BY <1>0, <1>1, <1>5, <2>1, <2>3 DEF Kept, MayHaveReached
  <2>4. \A q \in Payments \ {p} : Kept(q)'
    BY <1>0, <1>5, <2>2, Untouched
  <2> QED
    BY <1>2, <1>5, <2>3, <2>4, DoubtWork
<1>6. ASSUME NEW e \in Failures, NEW k \in BOOLEAN, Failed(w, e, k)
      PROVE  ProcOnly(w) /\ proc'[w].pc # "finish"
  BY <1>0, <1>6, FailedType
<1>7. ASSUME NEW a, Answered(w, a), a \in Answers
      PROVE  ProcOnly(w) /\ proc'[w].pc # "finish"
  BY <1>0, <1>7, AnsweredType
<1>8. ASSUME GetPayment(w, p), pay[p].bound, ~Fenced(w), UNCHANGED <<pay, op>> PROVE DoubtInv'
  <2>1. prov[p] \in Answers /\ prov' = prov
    BY <1>0, <1>1, <1>8 DEF IInv, KnownExists, TypeOK, GetPayment
  <2>2. ProcOnly(w) /\ proc'[w].pc # "finish"
    BY <1>6, <1>7, <1>8, <2>1 DEF GetPayment, Failures
  <2> QED
    BY <1>5, <1>8, <2>1, <2>2
<1>9. ASSUME Call(w, p), ~Fenced(w), ~WindowClosed(w), ~pay[p].bound, UNCHANGED <<pay, op>>
      PROVE  DoubtInv'
  <2>1. Post(p) => prov'[p] \in Answers
    BY <1>0, <1>9, PostOnce
  <2>2. CASE Done(w)
    <3>1. ProcOnly(w) /\ proc'[w].pc # "finish"
      BY <1>0, <2>2, DoneType
    <3> QED
      BY <1>5, <1>9, <3>1 DEF Call
  <2>3. CASE ~Done(w)
    <3>1. ProcOnly(w) /\ proc'[w].pc # "finish"
      BY <1>6, <1>7, <1>9, <2>1, <2>3 DEF Call, Failures
    <3> QED
      BY <1>5, <1>9, <3>1 DEF Call
  <2> QED
    BY <2>2, <2>3
<1>10. ASSUME Failed(w, "before", FALSE), ~Fenced(w), UNCHANGED <<pay, op, prov>>
       PROVE  DoubtInv'
  BY <1>5, <1>6, <1>10 DEF Failures
<1> QED
  BY <1>3, <1>4, <1>8, <1>9, <1>10 DEF Dispatch

\* Only the deactivation of the user uses its budget.
LEMMA BlocksSteps ==
  ASSUME IInv, [Next]_vars
  PROVE  \/ blocks' = blocks /\ ~RevokeBeforeDeactivate
         \/ RevokeBeforeDeactivate /\ blocks' # 0
<1>0. TypeOK
  BY DEF IInv
<1>1. CASE RevokeBeforeDeactivate
  <2>1. blocks' = blocks + 1
    BY <1>1, Zenon DEF RevokeBeforeDeactivate
  <2>2. blocks \in 0..MaxBlocks
    BY <1>0, Zenon DEF TypeOK
  <2> QED
    BY <1>1, <2>1, <2>2, BoundsAssumption
<1>2. UNCHANGED vars => blocks' = blocks
  BY DEF vars
<1>3. ApplyIdentity => blocks' = blocks
  BY DEF ApplyIdentity
<1>4. ASSUME NEW o \in Ops PROVE WindowCloses(o) \/ LeaseLapses(o) => blocks' = blocks
  BY DEF WindowCloses, LeaseLapses
<1>5. ASSUME NEW w \in Workers PROVE WorkerStep(w) \/ Crash(w) => blocks' = blocks
  <2>1. ASSUME NEW o \in Ops PROVE Claim(w, o) => blocks' = blocks
    BY DEF Claim
  <2>2. Dispatch(w) => blocks' = blocks
    BY DEF Dispatch
  <2>3. Read(w) => blocks' = blocks
    BY DEF Read
  <2>4. Apply(w) => blocks' = blocks
    BY DEF Apply
  <2>5. Finish(w) => blocks' = blocks
    BY DEF Finish
  <2>6. HandleFailure(w) => blocks' = blocks
    BY DEF HandleFailure
  <2>7. Crash(w) => blocks' = blocks
    BY DEF Crash
  <2> QED
    BY <2>1, <2>2, <2>3, <2>4, <2>5, <2>6, <2>7 DEF WorkerStep
<1>6. ASSUME NEW p \in Payments
      PROVE  /\ CreatePayment(p) \/ CancelPending(p) \/ SettleExpired(p) => blocks' = blocks
             /\ QueueVerification(p) \/ ResolveUnknown(p) => blocks' = blocks
             /\ UserPays(p) \/ ProviderCancels(p) \/ ProviderForgets(p) => blocks' = blocks
             /\ Webhook(p) \/ CheckoutExpires(p) \/ ReconcileReceipts(p) => blocks' = blocks
  <2>1. CreatePayment(p) \/ CancelPending(p) \/ SettleExpired(p) => blocks' = blocks
    BY DEF CreatePayment, CancelPending, SettleExpired
  <2>2. QueueVerification(p) \/ ResolveUnknown(p) => blocks' = blocks
    BY DEF QueueVerification, ResolveUnknown
  <2>3. UserPays(p) \/ ProviderCancels(p) \/ ProviderForgets(p) => blocks' = blocks
    BY DEF UserPays, ProviderCancels, ProviderForgets
  <2>4. Webhook(p) \/ CheckoutExpires(p) \/ ReconcileReceipts(p) => blocks' = blocks
    BY DEF Webhook, CheckoutExpires, ReconcileReceipts
  <2> QED
    BY <2>1, <2>2, <2>3, <2>4
<1> QED
  BY <1>1, <1>2, <1>3, <1>4, <1>5, <1>6 DEF Next

\* Payments of a user whose access was not revoked so far.
THEOREM DoubtInvariance == Spec => [](blocks = 0 => DoubtInv)
<1>1. Init => DoubtInv
  <2> SUFFICES ASSUME Init PROVE DoubtInv
    OBVIOUS
  <2>1. /\ \A w \in Workers : proc[w].pc = "idle"
        /\ \A p \in Payments : /\ pay[p].status = "NONE" /\ pay[p].provider = "creating"
                               /\ prov[p] = "none"
    BY DEF Init, Idle, NoPayment
  <2> QED
    BY <2>1 DEF Init, DoubtInv, Kept, FinishBound, At
<1>2. IInv /\ DoubtInv /\ [Next]_vars => DoubtInv' \/ RevokeBeforeDeactivate
  <2> SUFFICES ASSUME IInv, DoubtInv, [Next]_vars, ~RevokeBeforeDeactivate PROVE DoubtInv'
    OBVIOUS
  <2>1. CASE UNCHANGED vars \/ \E o \in Ops : WindowCloses(o) \/ LeaseLapses(o)
    <3>1. UNCHANGED <<pay, op, prov, identity, proc>>
      BY <2>1 DEF vars, bank, WindowCloses, LeaseLapses
    <3>2. \A p \in Payments : Kept(p)'
      BY <3>1, Untouched DEF DoubtInv
    <3> QED
      BY <3>1, <3>2 DEF DoubtInv, FinishBound, At
  <2>2. ~ApplyIdentity
    BY DEF ApplyIdentity, DoubtInv
  <2>3. CASE \E w \in Workers : WorkerStep(w) \/ Crash(w)
    BY <2>3, DoubtClaim, DoubtDispatch, DoubtQuiet, DoubtApply, DoubtFinish, DoubtFailure
    DEF WorkerStep
  <2> QED
    BY <2>1, <2>2, <2>3, DoubtOutside DEF Next
<1>3. IInv /\ (blocks = 0 => DoubtInv) /\ [Next]_vars => (blocks = 0 => DoubtInv)'
  BY <1>2, BlocksSteps
<1> QED
  BY <1>1, <1>3, Invariance, PTL DEF Spec

\* Before the user's access is revoked for the first time, a payment in doubt is
\* open and may have reached YooKassa.
THEOREM DoubtIsOpen == Spec => [](blocks = 0 => InDoubtIsOpen)
<1>1. IInv /\ DoubtInv => InDoubtIsOpen
  BY DEF IInv, CreatedAgrees, DoubtInv, Kept, InDoubtIsOpen, InDoubt
<1> QED
  BY <1>1, Invariance, DoubtInvariance, PTL

\* It blocks any other checkout of the user.
THEOREM DoubtIsBlocking == Spec => [](blocks = 0 => DoubtBlocks)
<1>1. InDoubtIsOpen => DoubtBlocks
  <2> SUFFICES ASSUME InDoubtIsOpen, NEW p \in Payments, InDoubt(p),
                      pay[p].provider # "rejected"
               PROVE  Blocking(p)
    BY DEF DoubtBlocks
  <2>1. pay[p].status = "PENDING" /\ MayHaveReached(Create(p))
    BY DEF InDoubtIsOpen
  <2>2. Create(p) \in Ops /\ Create(p)[2] = p /\ Create(p)[1] # "webhook"
    BY CreateFacts
  <2> QED
    BY <2>1, <2>2 DEF Blocking
<1> QED
  BY <1>1, DoubtIsOpen, PTL

-----------------------------------------------------------------------------
\* The contract of a payment

\* A step that touches the row of the payment p alone.
RowOnly(p) == \A q \in Payments \ {p} : pay'[q] = pay[q]

\* It changes the state of that payment alone.
LEMMA OneMoves ==
  ASSUME NEW p \in Payments, RowOnly(p)
  PROVE  /\ State' = [State EXCEPT ![p] = StateOf(p)']
         /\ StateOf(p)' = StateOf(p) => State' = State
         /\ State[p] = StateOf(p)
<1>1. \A q \in Payments \ {p} : StateOf(q)' = StateOf(q)
  BY DEF RowOnly, StateOf, Closed
<1> QED
  BY <1>1 DEF State

\* Steps that leave the rows of the payments alone.
LEMMA NoneMoves ==
  ASSUME UNCHANGED pay PROVE UNCHANGED State
  BY DEF State, StateOf, Closed

\* A payment that is closed without an id was never sent, or was refused.
LEMMA ClosesUnbound ==
  ASSUME IInv, NEW p \in Payments, RowOnly(p), pay[p].status = "PENDING",
         Closed(p)', ~pay'[p].bound, prov[p] = "none" \/ blocks > 0,
         UNCHANGED <<prov, grants, blocks>>
  PROVE  Contract!Abandon(p) \/ Contract!Refuse(p)
<1>1. State[p] = "PENDING" /\ StateOf(p)' \in {"unsent", "refused"}
  BY OneMoves DEF StateOf, Closed
<1> QED
  BY <1>1, OneMoves DEF Contract!Abandon, Contract!Refuse, Contract!Become

\* What users, administrators, YooKassa and time do to the payment p.
LEMMA ContractOutside ==
  ASSUME IInv, blocks = 0 => DoubtInv, NEW p \in Payments,
         \/ CreatePayment(p) \/ CancelPending(p) \/ SettleExpired(p)
         \/ QueueVerification(p) \/ ResolveUnknown(p)
         \/ UserPays(p) \/ ProviderCancels(p) \/ ProviderForgets(p) \/ Webhook(p)
         \/ CheckoutExpires(p) \/ ReconcileReceipts(p)
  PROVE  [Contract!Next]_(Contract!pvars)
<1>0. TypeOK
  BY DEF IInv
<1>1. /\ pay \in [Payments -> PayType] /\ op \in [Ops -> OpType]
      /\ prov \in [Payments -> Answers \cup {"none"}]
      /\ Create(p) \in Ops
  BY <1>0, Types, CreateFacts
<1>2. blocks \in Nat
  <2>1. blocks \in 0..MaxBlocks
    BY <1>0, Zenon DEF TypeOK
  <2> QED
    BY <2>1, BoundsAssumption
<1>3. prov[p] # "none" => op[Create(p)].attempt >= 1
  BY DEF IInv, AttemptsCount
<1>4. CASE CreatePayment(p)
  <2>1. /\ pay[p].status = "NONE" /\ pay' = [pay EXCEPT ![p].status = "PENDING"]
        /\ UNCHANGED <<prov, grants, blocks>>
    BY <1>4 DEF CreatePayment, bank
  <2>2. RowOnly(p) /\ pay'[p].status = "PENDING"
    BY <1>1, <2>1 DEF RowOnly, PayType
  <2>3. StateOf(p) = "NONE" /\ StateOf(p)' = "PENDING"
    BY <2>1, <2>2 DEF StateOf, Closed
  <2>4. Contract!Open(p)
    BY <2>1, <2>2, <2>3, OneMoves DEF Contract!Open, Contract!Become
  <2> QED
    BY <2>4 DEF Contract!Next
<1>5. CASE CancelPending(p)
  <2>1. /\ pay[p].status = "PENDING" /\ ~pay[p].bound /\ op[Create(p)].attempt = 0
        /\ pay' = [pay EXCEPT ![p].status = "CANCELLED", ![p].provider = "not_sent"]
        /\ UNCHANGED <<prov, grants, blocks>>
    BY <1>5 DEF CancelPending, bank
  <2>2. RowOnly(p) /\ pay'[p].status = "CANCELLED" /\ ~pay'[p].bound
    BY <1>1, <2>1 DEF RowOnly, PayType
  <2>3. prov[p] = "none"
    BY <1>3, <2>1
  <2>4. Contract!Abandon(p) \/ Contract!Refuse(p)
    BY <2>1, <2>2, <2>3, ClosesUnbound DEF Closed
  <2> QED
    BY <2>4 DEF Contract!Next
<1>6. CASE SettleExpired(p) /\ MayHaveReached(Create(p))
  <2>1. /\ pay[p].status = "PENDING" /\ pay' = [pay EXCEPT ![p].provider = "unknown"]
        /\ UNCHANGED <<prov, grants, blocks>>
    BY <1>6 DEF SettleExpired, bank
  <2>2. RowOnly(p) /\ pay'[p].status = "PENDING"
    BY <1>1, <2>1 DEF RowOnly, PayType
  <2>3. StateOf(p)' = StateOf(p)
    BY <2>1, <2>2 DEF StateOf, Closed
  <2> QED
    BY <2>1, <2>2, <2>3, OneMoves DEF Contract!pvars
<1>7. CASE SettleExpired(p) /\ ~MayHaveReached(Create(p))
  <2>1. /\ pay[p].status = "PENDING" /\ ~pay[p].bound
        /\ pay' = [pay EXCEPT ![p].status = "EXPIRED"]
        /\ UNCHANGED <<prov, grants, blocks>>
    BY <1>7 DEF SettleExpired, bank
  <2>2. RowOnly(p) /\ pay'[p].status = "EXPIRED" /\ ~pay'[p].bound
    BY <1>1, <2>1 DEF RowOnly, PayType
  <2>3. prov[p] = "none" \/ blocks > 0
    BY <1>2, <1>7, <2>1 DEF DoubtInv, Kept
  <2>4. Contract!Abandon(p) \/ Contract!Refuse(p)
    BY <2>1, <2>2, <2>3, ClosesUnbound DEF Closed
  <2> QED
    BY <2>4 DEF Contract!Next
<1>8. CASE ResolveUnknown(p)
  <2>1. /\ pay[p].status = "PENDING" /\ ~pay[p].bound /\ prov[p] = "none"
        /\ pay' = [pay EXCEPT ![p].status = "CANCELLED", ![p].provider = "not_found"]
        /\ UNCHANGED <<prov, grants, blocks>>
    BY <1>8 DEF ResolveUnknown, bank
  <2>2. RowOnly(p) /\ pay'[p].status = "CANCELLED" /\ ~pay'[p].bound
    BY <1>1, <2>1 DEF RowOnly, PayType
  <2>3. Contract!Abandon(p) \/ Contract!Refuse(p)
    BY <2>1, <2>2, ClosesUnbound DEF Closed
  <2> QED
    BY <2>3 DEF Contract!Next
<1>9. CASE UserPays(p) \/ ProviderCancels(p)
  <2>1. /\ prov[p] = "pending" /\ UNCHANGED <<pay, grants, blocks>>
        /\ \E s \in {"succeeded", "canceled"} : prov' = [prov EXCEPT ![p] = s]
    BY <1>9 DEF UserPays, ProviderCancels
  <2>2. Contract!Settle(p)
    BY <2>1, NoneMoves DEF Contract!Settle
  <2> QED
    BY <2>2 DEF Contract!Next
<1>10. CASE \/ QueueVerification(p) \/ ProviderForgets(p) \/ Webhook(p)
            \/ CheckoutExpires(p) \/ ReconcileReceipts(p)
  <2>1. UNCHANGED <<pay, prov, grants, blocks>>
    BY <1>10 DEF QueueVerification, ProviderForgets, Webhook, CheckoutExpires,
       ReconcileReceipts, bank
  <2> QED
    BY <2>1, NoneMoves DEF Contract!pvars
<1> QED
  BY <1>4, <1>5, <1>6, <1>7, <1>8, <1>9, <1>10

\* The deactivation closes open payments.
LEMMA ContractRevoke ==
  ASSUME IInv, RevokeBeforeDeactivate PROVE Contract!Next
<1>0. TypeOK
  BY DEF IInv
<1>1. pay \in [Payments -> PayType]
  BY <1>0, Types
<1>2. UNCHANGED <<prov, grants>>
  BY DEF RevokeBeforeDeactivate, bank
<1>3. (blocks > 0)' = TRUE
  <2>1. blocks' = blocks + 1
    BY Zenon DEF RevokeBeforeDeactivate
  <2>2. blocks \in 0..MaxBlocks
    BY <1>0, Zenon DEF TypeOK
  <2> QED
    BY <2>1, <2>2, BoundsAssumption
<1> DEFINE open == {p \in Payments : pay[p].status = "PENDING"}
           closed == {p \in Payments : pay[p].status = "PENDING" /\ ~MayHaveReceived(p)}
<1>4. pay' = [p \in Payments |->
             IF p \notin open THEN pay[p]
             ELSE IF MayHaveReceived(p) THEN [pay[p] EXCEPT !.provider = "unknown"]
             ELSE [pay[p] EXCEPT !.status = "CANCELLED", !.provider = "not_sent"]]
  BY Zenon DEF RevokeBeforeDeactivate
<1>5. ASSUME NEW p \in Payments
      PROVE  StateOf(p)' = IF p \in closed THEN "unsent" ELSE StateOf(p)
  <2>1. CASE p \notin open
    <3>1. pay'[p] = pay[p]
      BY <1>4, <2>1
    <3> QED
      BY <2>1, <3>1 DEF StateOf, Closed
  <2>2. CASE p \in open /\ MayHaveReceived(p)
    <3>1. pay'[p].status = "PENDING" /\ pay[p].status = "PENDING"
      BY <1>1, <1>4, <2>2 DEF PayType
    <3> QED
      BY <2>2, <3>1 DEF StateOf, Closed
  <2>3. CASE p \in open /\ ~MayHaveReceived(p)
    <3>1. /\ pay'[p].status = "CANCELLED" /\ pay'[p].provider = "not_sent"
          /\ pay'[p].bound = pay[p].bound
      BY <1>1, <1>4, <2>3 DEF PayType
    <3>2. ~pay[p].bound
      BY <2>3 DEF MayHaveReceived
    <3> QED
      BY <2>3, <3>1, <3>2 DEF StateOf, Closed
  <2> QED
    BY <2>1, <2>2, <2>3
<1>6. \A p \in Payments : State[p] = StateOf(p)
  BY DEF State
<1>7. \A p \in closed : State[p] = "PENDING"
  BY <1>6 DEF StateOf, Closed
<1>8. State' = [p \in Payments |-> IF p \in closed THEN "unsent" ELSE State[p]]
  BY <1>5, <1>6 DEF State
<1> HIDE DEF open, closed
<1>9. closed \in SUBSET {p \in Payments : State[p] = "PENDING"}
  BY <1>7 DEF closed
<1> QED
  BY <1>2, <1>3, <1>8, <1>9 DEF Contract!Next, Contract!Revoke

\* A worker records an answer: the payment is granted, cancelled or found.
LEMMA ContractApply ==
  ASSUME IInv, NEW w \in Workers, Apply(w)
  PROVE  [Contract!Next]_(Contract!pvars)
<1> DEFINE o == proc[w].o
<1>0. TypeOK /\ proc[w].pc = "apply"
  BY DEF IInv, Apply, At
<1>p. PICK p \in Payments : p = proc[w].o[2]
  BY <1>0, BusyFacts
<1>1. /\ o \in Ops
      /\ o[1] # "receipt" => prov[p] # "none"
      /\ o[1] # "receipt" /\ proc[w].answer \in Ended => prov[p] = proc[w].answer
  BY <1>0, <1>p, BusyFacts, OpsFacts DEF IInv, AnswersTrue, At, Kinds
<1>2. UNCHANGED <<prov, blocks>>
  BY DEF Apply, bank
<1>3. pay \in [Payments -> PayType] /\ grants \in [Payments -> Nat]
  BY <1>0, Types
<1>4. CASE UNCHANGED <<pay, grants>>
  BY <1>2, <1>4, NoneMoves DEF Contract!pvars
<1>5. CASE o[1] # "receipt" /\ proc[w].answer = "succeeded" /\ ApplySuccess(p)
           /\ pay[p].status # "SUCCEEDED"
  <2>1. /\ pay' = [pay EXCEPT ![p] = [status |-> "SUCCEEDED", bound |-> TRUE,
                                      provider |-> "succeeded"]]
        /\ grants' = [grants EXCEPT ![p] = @ + 1]
    BY <1>5 DEF ApplySuccess
  <2>2. RowOnly(p) /\ pay'[p].status = "SUCCEEDED"
    BY <1>1, <1>3, <2>1 DEF RowOnly
  <2>3. StateOf(p) # "SUCCEEDED" /\ StateOf(p)' = "SUCCEEDED"
    BY <1>5, <2>2 DEF StateOf, Closed
  <2>4. prov[p] = "succeeded"
    BY <1>1, <1>5 DEF Ended
  <2>5. Contract!Grant(p)
    BY <1>1, <1>2, <2>1, <2>2, <2>3, <2>4, OneMoves DEF Contract!Grant, Contract!Become
  <2> QED
    BY <1>1, <2>5 DEF Contract!Next
<1>6. ASSUME NEW s \in {"refused", "unsent"}, StateOf(p) = s, StateOf(p)' = "cancelled",
             RowOnly(p), grants' = grants, o[1] # "receipt"
      PROVE  Contract!Learn(p)
  BY <1>1, <1>2, <1>6, OneMoves DEF Contract!Learn, Contract!Become
<1>7. CASE o[1] # "receipt" /\ proc[w].answer = "canceled" /\ MarkProviderCancelled(p)
           /\ pay[p].status # "SUCCEEDED"
  <2>1. /\ pay' = [pay EXCEPT ![p] = [status |-> "CANCELLED", bound |-> TRUE,
                                      provider |-> "canceled"]]
        /\ grants' = grants
    BY <1>7 DEF MarkProviderCancelled
  <2>2. /\ RowOnly(p) /\ pay'[p].status = "CANCELLED" /\ pay'[p].bound
        /\ pay'[p].provider = "canceled"
    BY <1>1, <1>3, <2>1 DEF RowOnly
  <2>3. StateOf(p)' = "cancelled"
    BY <2>2 DEF StateOf, Closed
  <2>4. prov[p] = "canceled"
    BY <1>1, <1>7 DEF Ended
  <2>5. pay[p].status \in Statuses \ {"NONE", "SUCCEEDED"}
    BY <1>1, <1>3, <1>7, <2>4 DEF PayType, IInv, NotBefore
  <2>6. StateOf(p) \in {"PENDING", "refused", "unsent", "cancelled"}
    BY <2>5 DEF StateOf, Closed, Statuses
  <2>7. CASE StateOf(p) = "PENDING"
    <3>1. Contract!Cancel(p)
      BY <1>1, <1>2, <2>1, <2>2, <2>3, <2>4, <2>7, OneMoves
      DEF Contract!Cancel, Contract!Become
    <3> QED
      BY <1>1, <3>1 DEF Contract!Next
  <2>8. CASE StateOf(p) \in {"refused", "unsent"}
    BY <1>1, <1>6, <1>7, <2>1, <2>2, <2>3, <2>8 DEF Contract!Next
  <2>9. CASE StateOf(p) = "cancelled"
    BY <1>1, <1>2, <2>1, <2>2, <2>3, <2>9, OneMoves DEF Contract!pvars
  <2> QED
    BY <2>6, <2>7, <2>8, <2>9
<1>8. CASE o[1] # "receipt" /\ BindProviderState(p)
  <2>1. /\ pay' = [pay EXCEPT ![p].bound = TRUE, ![p].provider = "pending"]
        /\ grants' = grants
    BY <1>8 DEF BindProviderState
  <2>2. /\ RowOnly(p) /\ pay'[p].status = pay[p].status /\ pay'[p].bound
        /\ pay'[p].provider = "pending"
    BY <1>1, <1>3, <2>1 DEF RowOnly, PayType
  <2>3. CASE ~Closed(p) \/ StateOf(p) = "cancelled"
    <3>1. StateOf(p)' = StateOf(p)
      BY <2>2, <2>3 DEF StateOf, Closed
    <3> QED
      BY <1>1, <1>2, <2>1, <2>2, <3>1, OneMoves DEF Contract!pvars
  <2>4. CASE Closed(p) /\ StateOf(p) # "cancelled"
    <3>1. StateOf(p) \in {"refused", "unsent"} /\ StateOf(p)' = "cancelled"
      BY <2>2, <2>4 DEF StateOf, Closed
    <3> QED
      BY <1>1, <1>6, <1>8, <2>1, <2>2, <3>1 DEF Contract!Next
  <2> QED
    BY <2>3, <2>4
<1>9. \/ UNCHANGED <<pay, grants>>
      \/ o[1] # "receipt" /\ proc[w].answer = "succeeded" /\ ApplySuccess(p)
      \/ o[1] # "receipt" /\ proc[w].answer = "canceled" /\ MarkProviderCancelled(p)
      \/ o[1] # "receipt" /\ BindProviderState(p)
  BY <1>p DEF Apply
<1> QED
  BY <1>4, <1>5, <1>7, <1>8, <1>9 DEF ApplySuccess, MarkProviderCancelled

\* An operation that is left to be reconciled leaves its payment open.
LEMMA ContractUnknown ==
  ASSUME IInv, NEW w \in Workers, proc[w].pc # "idle", NEW k, SettleUnknown(w, k),
         pay[proc[w].o[2]].status = "PENDING", UNCHANGED <<prov, grants, blocks>>
  PROVE  UNCHANGED Contract!pvars
<1>p. PICK p \in Payments : p = proc[w].o[2]
  BY BusyFacts
<1>1. TypeOK
  BY DEF IInv
<1>2. PayOnly(p, "PENDING", "unknown", pay[p].bound)
  BY <1>1, <1>p, PayProvider DEF SettleUnknown, ProviderStatuses
<1>3. RowOnly(p) /\ StateOf(p)' = StateOf(p)
  BY <1>2, <1>p DEF PayOnly, RowOnly, StateOf, Closed
<1> QED
  BY <1>3, OneMoves DEF Contract!pvars

\* A worker deals with a failure: YooKassa may have refused the payment.
LEMMA ContractFailure ==
  ASSUME IInv, NEW w \in Workers, HandleFailure(w)
  PROVE  [Contract!Next]_(Contract!pvars)
<1>0. TypeOK /\ proc[w].pc = "fail"
  BY DEF IInv, HandleFailure, At
<1>p. PICK p \in Payments : p = proc[w].o[2]
  BY <1>0, BusyFacts
<1>2. UNCHANGED <<prov, grants, blocks>>
  BY DEF HandleFailure, bank
<1>3. CASE UNCHANGED pay
  BY <1>2, <1>3, NoneMoves DEF Contract!pvars
<1>4. CASE Settles(w) /\ pay' = [pay EXCEPT ![p].status = "CANCELLED", ![p].provider = "rejected"]
  <2>1. PayOnly(p, "CANCELLED", "rejected", pay[p].bound) /\ pay[p].status = "PENDING"
    BY <1>0, <1>4, <1>p, PayBoth DEF Settles, Statuses, ProviderStatuses
  <2>2. RowOnly(p) /\ StateOf(p) = "PENDING" /\ StateOf(p)' = "refused"
    BY <2>1 DEF PayOnly, RowOnly, StateOf, Closed
  <2>3. Contract!Refuse(p)
    BY <1>2, <2>2, OneMoves DEF Contract!Refuse, Contract!Become
  <2> QED
    BY <2>3 DEF Contract!Next
<1>5. CASE Settles(w) /\ SettleUnknown(w, proc[w].known)
  <2>1. pay[p].status = "PENDING"
    BY <1>5, <1>p DEF Settles
  <2> QED
    BY <1>0, <1>2, <1>5, <2>1, <1>p, ContractUnknown
<1>6. \/ UNCHANGED pay
      \/ Settles(w) /\ pay' = [pay EXCEPT ![p].status = "CANCELLED", ![p].provider = "rejected"]
      \/ Settles(w) /\ SettleUnknown(w, proc[w].known)
  BY <1>p DEF HandleFailure
<1> QED
  BY <1>3, <1>4, <1>5, <1>6

\* A request is sent for an open payment, and asks for money once.
LEMMA ContractDispatch ==
  ASSUME IInv, NEW w \in Workers, Dispatch(w)
  PROVE  [Contract!Next]_(Contract!pvars)
<1> DEFINE p == proc[w].o[2]
<1>0. TypeOK /\ proc[w].pc = "dispatch"
  BY DEF IInv, Dispatch, At
<1>1. p \in Payments
  BY <1>0, BusyFacts
<1>2. UNCHANGED <<grants, blocks>>
  BY DEF Dispatch
<1>3. CASE UNCHANGED <<pay, prov>>
  BY <1>2, <1>3, NoneMoves DEF Contract!pvars
<1>4. CASE ~Fenced(w) /\ SettleUnknown(w, FALSE) /\ UNCHANGED prov
  <2>1. pay[p].status = "PENDING"
    BY <1>4 DEF Fenced
  <2> QED
    BY <1>0, <1>2, <1>4, <2>1, ContractUnknown
<1>5. CASE /\ ~Fenced(w) /\ ~WindowClosed(w) /\ ~pay[p].bound /\ Post(p)
           /\ UNCHANGED <<pay, op>>
  <2>1. pay[p].status = "PENDING"
    BY <1>5 DEF Fenced
  <2>2. WorkProv(w, p)
    BY <1>0, <1>1, <1>5, PostOnce
  <2>3. CASE prov[p] = "none" /\ prov'[p] = "pending"
    <3>1. prov \in [Payments -> Answers \cup {"none"}]
      BY <1>0, Types
    <3>2. prov' = [prov EXCEPT ![p] = "pending"]
      BY <1>1, <1>5, <2>3, <3>1 DEF Post
    <3>3. State[p] = "PENDING" /\ State' = State
      BY <1>1, <1>5, <2>1, NoneMoves DEF State, StateOf, Closed
    <3>4. Contract!Ask(p)
      BY <1>2, <2>3, <3>2, <3>3 DEF Contract!Ask
    <3> QED
      BY <1>1, <3>4 DEF Contract!Next
  <2>4. CASE prov'[p] = prov[p]
    <3>1. prov \in [Payments -> Answers \cup {"none"}]
      BY <1>0, Types
    <3>2. prov' = prov
      BY <1>1, <1>5, <2>4, <3>1 DEF Post
    <3> QED
      BY <1>3, <1>5, <3>2
  <2> QED
    BY <2>2, <2>3, <2>4 DEF WorkProv
<1>6. \/ UNCHANGED <<pay, prov>>
      \/ ~Fenced(w) /\ SettleUnknown(w, FALSE) /\ UNCHANGED prov
      \/ /\ ~Fenced(w) /\ ~WindowClosed(w) /\ ~pay[p].bound /\ Post(p)
         /\ UNCHANGED <<pay, op>>
  BY DEF Dispatch, Fence, GetPayment, Call
<1> QED
  BY <1>3, <1>4, <1>5, <1>6

\* Every step is one of the contract, or none.
LEMMA ContractStep ==
  ASSUME IInv, blocks = 0 => DoubtInv, [Next]_vars
  PROVE  [Contract!Next]_(Contract!pvars)
<1>1. CASE UNCHANGED <<pay, prov, grants, blocks>>
  BY <1>1, NoneMoves DEF Contract!pvars
<1>2. UNCHANGED vars => UNCHANGED <<pay, prov, grants, blocks>>
  BY DEF vars, bank
<1>3. ApplyIdentity => UNCHANGED <<pay, prov, grants, blocks>>
  BY DEF ApplyIdentity, bank
<1>4. ASSUME NEW o \in Ops
      PROVE  WindowCloses(o) \/ LeaseLapses(o) => UNCHANGED <<pay, prov, grants, blocks>>
  BY DEF WindowCloses, LeaseLapses, bank
<1>5. ASSUME NEW w \in Workers, WorkerStep(w) \/ Crash(w)
      PROVE  [Contract!Next]_(Contract!pvars)
  <2>1. ASSUME NEW o \in Ops PROVE Claim(w, o) => UNCHANGED <<pay, prov, grants, blocks>>
    BY DEF Claim, bank
  <2>2. Read(w) => UNCHANGED <<pay, prov, grants, blocks>>
    BY DEF Read, bank
  <2>3. Finish(w) => UNCHANGED <<pay, prov, grants, blocks>>
    BY DEF Finish, bank
  <2>4. Crash(w) => UNCHANGED <<pay, prov, grants, blocks>>
    BY DEF Crash, bank
  <2> QED
    BY <1>1, <1>5, <2>1, <2>2, <2>3, <2>4, ContractDispatch, ContractApply, ContractFailure
    DEF WorkerStep
<1> QED
  BY <1>1, <1>2, <1>3, <1>4, <1>5, ContractOutside, ContractRevoke DEF Next

(***************************************************************************)
(* The checkout implements the contract of a payment, for any payments,    *)
(* workers, lookups, faults and deactivations: until the user's access is  *)
(* first revoked nothing that YooKassa may hold is abandoned, and at all   *)
(* times money is asked for once, under an open payment, and granted once. *)
(***************************************************************************)
THEOREM ContractRefined == Spec => ImplementsContract
<1>1. Init => Contract!Init
  <2> SUFFICES ASSUME Init PROVE Contract!Init
    OBVIOUS
  <2>1. \A p \in Payments : StateOf(p) = "NONE"
    BY DEF Init, NoPayment, StateOf, Closed
  <2>2. (blocks > 0) = FALSE
    BY DEF Init
  <2> QED
    BY <2>1, <2>2 DEF Init, Contract!Init, State
<1>2. IInv /\ (blocks = 0 => DoubtInv) /\ [Next]_vars => [Contract!Next]_(Contract!pvars)
  BY ContractStep
<1> QED
  BY Invariance, DoubtInvariance, <1>1, <1>2, PTL DEF Spec, ImplementsContract, Contract!Spec
=============================================================================
