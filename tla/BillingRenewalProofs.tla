------------------------- MODULE BillingRenewalProofs -------------------------
(***************************************************************************)
(* Proofs about BillingRenewal: types, and that a renewal charges a period *)
(* once, keeps one charge open, carries it to its end, sends it in time,   *)
(* does not come back after it was withdrawn and keeps its contract.       *)
(***************************************************************************)
EXTENDS BillingRenewal, TLAPS

Live == {"ACTIVE", "ADMIN_PAUSED"}

\* Before k in the same period.
Earlier(l, k) == l[1] = k[1] /\ l[2] < k[2]

\* A consent that was withdrawn is void while the renewal is.
ConsentVoid == Withdrawn => ~(checkout.valid /\ checkout.withdrawn)

\* A charge that is awaited is for the current period.
InPeriod == ren.status = "ACTIVE" /\ ren.dispatch => ren.cycle = sub \/ meanwhile # {}

\* Charges are for periods that have been; one that was closed before it was
\* sent is never scheduled again.
PastCharges == \A k \in Keys :
    /\ pay[k].status # "NONE" => k[1] <= sub
    /\ ren.status \in Live /\ Resumable(k) => k[1] < sub

\* What YooKassa has, and what is known of it, was written before.
ProviderAgrees == \A k \in Keys :
    /\ prov[k] # "none" => pay[k].status # "NONE"
    /\ pay[k].bound => prov[k] # "none"
    /\ job[k].step = "answered" =>
        prov[k] # "none" /\ job[k].result \in {"pending", prov[k]}
    /\ op[k].status = "PROCESSING" => op[k].attempt >= 1
    /\ \/ op[k].status = "SUCCEEDED" \/ pay[k].status = "SUCCEEDED"
       \/ pay[k].provider = "canceled"
       => pay[k].bound

\* The attempts before a payment, or before the attempt that is next, have
\* been refused by YooKassa in a way that may be retried.
EarlierRefused ==
    /\ \A k, l \in Keys :
        pay[k].status # "NONE" /\ Earlier(l, k) => prov[l] = "retryable"
    /\ ren.retry => \A l \in Keys : Earlier(l, Current) => prov[l] = "retryable"

\* A renewal that is not to be retried is at its first attempt.
FirstAttempt == ren.status \in Live /\ ~ren.retry => ren.attempt = 0

\* The charge that is awaited, also while the renewal is paused.
Open(k) == pay[k].status = "PENDING" /\ (Carried(k) \/ op[k].status = "FAILED")
Refused(k) ==
    /\ pay[k].status = "CANCELLED"
    /\ ren.status = "ACTIVE" => ~pay[k].same \/ "resumed" \in meanwhile
AwaitedIsOpen ==
    ren.status \in Live /\ ren.dispatch =>
        Current \in Keys /\ (Open(Current) \/ Refused(Current))

IInv == /\ TypeOK
        /\ ConsentVoid
        /\ InPeriod
        /\ PastCharges
        /\ ProviderAgrees
        /\ EarlierRefused
        /\ FirstAttempt
        /\ AwaitedIsOpen
        /\ OneOpenCharge

RenType == [status: RenewalStatuses, dispatch: BOOLEAN, attempt: 0..Retries,
            retry: BOOLEAN, cycle: Nat, amount: Prices,
            pending: Prices \cup {"none"}, method: BOOLEAN]
PayType == [status: {"NONE", "PENDING", "SUCCEEDED", "CANCELLED"},
            provider: {"queued", "creating", "unknown", "pending", "rejected",
                       "not_sent", "not_found", "canceled", "succeeded"},
            bound: BOOLEAN, same: BOOLEAN]
OpType == [status: {"NONE", "PENDING", "PROCESSING", "SUCCEEDED", "FAILED", "UNKNOWN"},
           attempt: Nat, known: BOOLEAN]
JobType == [step: {"idle", "claimed", "answered", "failed"}, again: BOOLEAN,
            result: Outcomes \cup Errors \cup {""}]
CheckoutType == [state: {"none", "open", "due", "closed"}, auto: BOOLEAN,
                 valid: BOOLEAN, withdrawn: BOOLEAN, amount: Prices]

-----------------------------------------------------------------------------
\* Rows and their updates

\* The types of the rows in TypeOK.
LEMMA Types ==
  ASSUME TypeOK
  PROVE  /\ ren \in RenType /\ sub \in Nat /\ pay \in [Keys -> PayType]
         /\ op \in [Keys -> OpType] /\ job \in [Keys -> JobType]
         /\ checkout \in CheckoutType /\ prov \in [Keys -> Outcomes \cup {"none"}]
  BY DEF TypeOK, RenType, PayType, OpType, JobType, CheckoutType

\* A key is a period and an attempt.
LEMMA KeyFacts ==
  ASSUME NEW k \in Keys
  PROVE  k[1] \in Nat /\ k[2] \in 0..Retries /\ k = <<k[1], k[2]>>
<1>1. k \in Nat \X (0..Retries)
  BY BoundsAssumption
<1> QED
  BY <1>1

\* The key the renewal waits for.
LEMMA CurrentFacts ==
  Current[1] = ren.cycle /\ Current[2] = ren.attempt
  BY DEF Current

\* A pause keeps the attempt and ends the wait.
LEMMA PausedFacts ==
  ASSUME TypeOK
  PROVE  /\ Paused \in RenType /\ Paused.status = "TECHNICAL_PAUSE"
         /\ Paused.retry = FALSE /\ Paused.dispatch = FALSE
         /\ [Paused EXCEPT !.status = "REVOKED", !.method = FALSE] \in RenType
         /\ [Paused EXCEPT !.status = "REVOKED", !.method = FALSE].status = "REVOKED"
         /\ [Paused EXCEPT !.status = "REVOKED", !.method = FALSE].retry = FALSE
<1> DEFINE r == Paused
<1>1. r \in RenType /\ r.status = "TECHNICAL_PAUSE" /\ r.retry = FALSE /\ r.dispatch = FALSE
  BY Types DEF Paused, RenType, RenewalStatuses
<1> HIDE DEF r
<1>2. LET n == [r EXCEPT !.status = "REVOKED", !.method = FALSE]
      IN  n \in RenType /\ n.status = "REVOKED" /\ n.retry = FALSE
  BY <1>1 DEF RenType, RenewalStatuses
<1> QED
  BY <1>1, <1>2 DEF r

\* A reset starts the attempts over.
LEMMA ResetFacts ==
  ASSUME NEW r \in RenType
  PROVE  /\ Reset(r) \in RenType /\ Reset(r).status = r.status
         /\ Reset(r).attempt = 0 /\ Reset(r).retry = FALSE
         /\ Reset(r).dispatch = FALSE /\ Reset(r).cycle = r.cycle
<1>1. 0 \in 0..Retries
  BY BoundsAssumption
<1> QED
  BY <1>1 DEF Reset, RenType

\* A consent that is made void.
LEMMA DisablesFacts ==
  ASSUME TypeOK, NEW b \in BOOLEAN, Disables(b)
  PROVE  checkout' \in CheckoutType /\ ~checkout'.valid
  BY Types DEF Disables, CheckoutType

\* A consent that is made good.
LEMMA EnablesFacts ==
  ASSUME TypeOK, Enables PROVE checkout' \in CheckoutType
  BY Types DEF Enables, CheckoutType

\* Faults and acts stay within their bounds.
LEMMA Budgets ==
  ASSUME TypeOK
  PROVE  /\ Fault \/ faults' = faults => faults' \in 0..MaxFaults
         /\ Act \/ acts' = acts => acts' \in 0..MaxEvents
<1>1. faults \in 0..MaxFaults /\ acts \in 0..MaxEvents
  BY DEF TypeOK
<1> QED
  BY <1>1, BoundsAssumption DEF Fault, Act

-----------------------------------------------------------------------------
\* Steps that leave the charges alone

\* What they may do to the renewal.
RenQuiet ==
    /\ sub' \in Nat /\ sub' >= sub /\ meanwhile \subseteq meanwhile'
    /\ ren'.status \in Live => ren.status \in Live \/ sub' > sub
    /\ ren'.retry => ren.retry /\ ren'.cycle = ren.cycle /\ ren'.attempt = ren.attempt
    /\ ren'.status \in Live /\ ~ren'.retry => ren'.attempt = 0
    /\ ren'.status \in Live /\ ren'.dispatch =>
        /\ ren.status \in Live /\ ren.dispatch
        /\ ren'.cycle = ren.cycle /\ ren'.attempt = ren.attempt
        /\ ren'.status = "ACTIVE" =>
            \/ ren.status = "ACTIVE" /\ (sub' = sub \/ meanwhile' # {})
            \/ "resumed" \in meanwhile'

PayQuiet(k) ==
    /\ pay'[k].status = pay[k].status /\ pay'[k].provider = pay[k].provider
    /\ pay'[k].bound = pay[k].bound /\ (pay'[k].same => pay[k].same)

\* Such a step keeps the invariant.
LEMMA QuietStep ==
  ASSUME IInv, TypeOK', ConsentVoid', RenQuiet,
         UNCHANGED <<op, job, charges, prov>>,
         \A k \in Keys : PayQuiet(k)
  PROVE  IInv'
<1>0. /\ TypeOK /\ sub \in Nat /\ \A k \in Keys : k[1] \in Nat
  BY Types, KeyFacts DEF IInv
<1>1. InPeriod'
  BY DEF IInv, InPeriod, RenQuiet, Live
<1>2. PastCharges'
  BY <1>0 DEF IInv, PastCharges, RenQuiet, PayQuiet, Resumable
<1>3. ProviderAgrees'
  BY DEF IInv, ProviderAgrees, PayQuiet
<1>4. EarlierRefused'
  <2>1. ren'.retry => Current' = Current
    BY DEF RenQuiet, Current
  <2> QED
    BY <2>1 DEF IInv, EarlierRefused, RenQuiet, PayQuiet
<1>5. FirstAttempt'
  BY DEF FirstAttempt, RenQuiet
<1>6. AwaitedIsOpen'
  <2> SUFFICES ASSUME ren'.status \in Live, ren'.dispatch
               PROVE  Current' \in Keys /\ (Open(Current)' \/ Refused(Current)')
    BY DEF AwaitedIsOpen
  <2>1. Current' = Current /\ ren.status \in Live /\ ren.dispatch
    BY DEF RenQuiet, Current
  <2>2. Current \in Keys /\ (Open(Current) \/ Refused(Current))
    BY <2>1 DEF IInv, AwaitedIsOpen
  <2> DEFINE k == Current
  <2>3. Open(k) => pay'[k].status = "PENDING"
                   /\ \/ k \in charges' \/ pay'[k].bound \/ op'[k].status = "FAILED"
                      \/ op'[k].status \in {"PENDING", "PROCESSING", "UNKNOWN"}
    BY <2>2 DEF Open, Carried, PayQuiet
  <2>4. Refused(k) => pay'[k].status = "CANCELLED"
                      /\ (ren'.status = "ACTIVE" => ~pay'[k].same \/ "resumed" \in meanwhile')
    BY <2>2 DEF Refused, PayQuiet, RenQuiet
  <2> QED
    BY <2>1, <2>2, <2>3, <2>4 DEF Open, Carried, Refused
<1>7. OneOpenCharge'
  BY DEF IInv, OneOpenCharge, PayQuiet
<1> QED
  BY <1>1, <1>2, <1>3, <1>4, <1>5, <1>6, <1>7 DEF IInv

\* The types of a step that changes the renewal and the checkout only.
LEMMA QuietTypes ==
  ASSUME TypeOK, ren' \in RenType, checkout' \in CheckoutType, sub' \in Nat,
         over' \in BOOLEAN, UNCHANGED <<pay, op, job, queue, prov>>,
         tariff' \in Prices, identity' \in {"ACTIVE", "REVOKED", "DEACTIVATED"},
         meanwhile' \subseteq {"resumed", "extended"},
         faults' \in 0..MaxFaults, acts' \in 0..MaxEvents
  PROVE  TypeOK'
  BY DEF TypeOK, RenType, CheckoutType, queue

\* Charges that do not change at all.
LEMMA SamePay ==
  ASSUME pay' = pay PROVE \A k \in Keys : PayQuiet(k)
  BY DEF PayQuiet

\* A renewal that is due and paused.
LEMMA PauseStep ==
  ASSUME IInv, PauseInvalid \/ PauseBlocked PROVE IInv'
<1>0. TypeOK
  BY DEF IInv
<1>1. /\ ren' = Paused /\ Disables(FALSE)
      /\ UNCHANGED <<sub, over, pay, op, job, queue, prov, tariff, user, faults>>
      /\ Act \/ acts' = acts
  BY DEF PauseInvalid, PauseBlocked, world
<1>2. /\ ren' \in RenType /\ ren'.status = "TECHNICAL_PAUSE" /\ ren'.retry = FALSE
  BY <1>0, <1>1, PausedFacts
<1>3. TypeOK'
  BY <1>0, <1>1, <1>2, DisablesFacts, Budgets, QuietTypes DEF TypeOK, user
<1>4. ConsentVoid'
  BY <1>2 DEF ConsentVoid, Withdrawn
<1>5. RenQuiet
  BY <1>0, <1>1, <1>2, Types DEF RenQuiet, Live, user
<1> QED
  BY <1>1, <1>3, <1>4, <1>5, SamePay, QuietStep DEF queue

\* The renewal of a user who is deactivated.
LEMMA RevokeInvalidStep ==
  ASSUME IInv, RevokeInvalid PROVE IInv'
<1>0. TypeOK
  BY DEF IInv
<1>1. /\ ren' = Reset([ren EXCEPT !.status = "REVOKED", !.method = FALSE])
      /\ Disables(TRUE)
      /\ UNCHANGED <<sub, over, pay, op, job, queue, prov, world>>
  BY DEF RevokeInvalid
<1>2. [ren EXCEPT !.status = "REVOKED", !.method = FALSE] \in RenType
      /\ [ren EXCEPT !.status = "REVOKED", !.method = FALSE].status = "REVOKED"
  BY <1>0, Types DEF RenType, RenewalStatuses
<1>3. ren' \in RenType /\ ren'.status = "REVOKED" /\ ren'.retry = FALSE
  BY <1>1, <1>2, ResetFacts
<1>4. TypeOK'
  BY <1>0, <1>1, <1>3, DisablesFacts, QuietTypes DEF TypeOK, world, user
<1>5. ConsentVoid'
  BY <1>0, <1>1, DisablesFacts DEF ConsentVoid
<1>6. RenQuiet
  BY <1>0, <1>1, <1>3, Types DEF RenQuiet, Live, world, user
<1> QED
  BY <1>1, <1>4, <1>5, <1>6, SamePay, QuietStep DEF queue

\* The date of the next charge is corrected.
LEMMA CorrectDateStep ==
  ASSUME IInv, CorrectDate PROVE IInv'
<1>0. TypeOK
  BY DEF IInv
<1> DEFINE r == [ren EXCEPT !.cycle = sub]
<1>1. /\ ren' = IF ren.retry THEN Reset(r) ELSE r
      /\ ren.status = "ACTIVE" /\ ~ren.dispatch
      /\ UNCHANGED <<sub, over, pay, op, job, queue, prov, checkout, world>>
  BY DEF CorrectDate, Due
<1>2. /\ r \in RenType /\ r.status = ren.status /\ r.retry = ren.retry
      /\ r.attempt = ren.attempt /\ r.dispatch = ren.dispatch
  BY <1>0, Types DEF RenType
<1> HIDE DEF r
<1>3. /\ ren' \in RenType /\ ren'.status = "ACTIVE" /\ ~ren'.retry /\ ~ren'.dispatch
      /\ ren.retry => ren'.attempt = 0
      /\ ~ren.retry => ren'.attempt = ren.attempt
  BY <1>1, <1>2, ResetFacts
<1>4. TypeOK'
  BY <1>0, <1>1, <1>3, Types, QuietTypes DEF TypeOK, world, user
<1>5. ConsentVoid'
  BY <1>3 DEF ConsentVoid, Withdrawn
<1>6. RenQuiet
  <2>1. ~ren.retry => ren.attempt = 0
    BY <1>1 DEF IInv, FirstAttempt, Live
  <2> QED
    BY <1>0, <1>1, <1>3, <2>1, Types DEF RenQuiet, Live, world, user
<1> QED
  BY <1>1, <1>4, <1>5, <1>6, SamePay, QuietStep DEF queue

\* What is written of a renewal besides its progress.
LEMMA RenFacts ==
  ASSUME TypeOK, NEW v \in Prices \cup {"none"}, NEW a \in Prices,
         NEW s \in RenewalStatuses,
         ren' = [ren EXCEPT !.status = s, !.pending = v, !.amount = a]
  PROVE  /\ ren' \in RenType /\ ren'.status = s
         /\ ren'.retry = ren.retry /\ ren'.attempt = ren.attempt
         /\ ren'.dispatch = ren.dispatch /\ ren'.cycle = ren.cycle
  BY Types DEF RenType

\* Prices: the renewal waits for a confirmation, or no longer does.
LEMMA PriceStep ==
  ASSUME IInv,
         RequirePriceConfirmation \/ ConfirmPrice \/ \E p \in Prices : UpdatePrice(p)
  PROVE  IInv'
<1>0. TypeOK
  BY DEF IInv
<1>1. /\ ren' \in RenType /\ tariff' \in Prices
      /\ ren'.status = ren.status /\ ren'.retry = ren.retry
      /\ ren'.attempt = ren.attempt /\ ren'.dispatch = ren.dispatch
      /\ ren'.cycle = ren.cycle
  <2>1. tariff' \in Prices
    BY <1>0 DEF TypeOK, RequirePriceConfirmation, ConfirmPrice, UpdatePrice, world
  <2>2. /\ ren \in RenType /\ ren.status \in RenewalStatuses
        /\ ren.amount \in Prices /\ ren.pending \in Prices \cup {"none"}
        /\ tariff \in Prices
    BY <1>0, Types DEF RenType, TypeOK
  <2>3. \E v \in Prices \cup {"none"}, a \in Prices :
            ren' = [ren EXCEPT !.status = ren.status, !.pending = v, !.amount = a]
    <3>1. CASE RequirePriceConfirmation
      <4>1. ren' = [ren EXCEPT !.status = ren.status, !.pending = tariff, !.amount = ren.amount]
        BY <2>2, <3>1 DEF RequirePriceConfirmation, RenType
      <4> QED
        BY <2>2, <4>1
    <3>2. CASE ConfirmPrice
      <4>1. ren' = [ren EXCEPT !.status = ren.status, !.pending = "none", !.amount = tariff]
        BY <2>2, <3>2 DEF ConfirmPrice, RenType
      <4> QED
        BY <2>2, <4>1
    <3>3. ASSUME NEW p \in Prices, UpdatePrice(p)
          PROVE  \E v \in Prices \cup {"none"}, a \in Prices :
                    ren' = [ren EXCEPT !.status = ren.status, !.pending = v, !.amount = a]
      <4> DEFINE v == IF Withdrawn THEN ren.pending
                      ELSE IF p = ren.amount THEN "none" ELSE p
      <4>1. ren' = [ren EXCEPT !.status = ren.status, !.pending = v, !.amount = ren.amount]
        BY <2>2, <3>3 DEF UpdatePrice, RenType
      <4>2. v \in Prices \cup {"none"}
        BY <2>2
      <4> QED
        BY <2>2, <4>1, <4>2
    <3> QED
      BY <3>1, <3>2, <3>3
  <2>4. PICK v \in Prices \cup {"none"}, a \in Prices :
            ren' = [ren EXCEPT !.status = ren.status, !.pending = v, !.amount = a]
    BY <2>3
  <2> QED
    BY <1>0, <2>1, <2>2, <2>4, RenFacts
<1>2. /\ UNCHANGED <<sub, over, op, job, queue, prov, checkout, user>>
      /\ faults' = faults /\ (Act \/ acts' = acts)
  BY DEF RequirePriceConfirmation, ConfirmPrice, UpdatePrice, world
<1>3. pay' \in [Keys -> PayType] /\ \A k \in Keys : PayQuiet(k)
  <2>1. CASE pay' = pay
    BY <1>0, <2>1, Types, SamePay
  <2>2. CASE Reconsent
    BY <1>0, <2>2, Types DEF Reconsent, PayType, PayQuiet
  <2> QED
    BY <2>1, <2>2 DEF RequirePriceConfirmation, ConfirmPrice, UpdatePrice
<1>4. TypeOK'
  <2>1. faults' \in 0..MaxFaults /\ acts' \in 0..MaxEvents
    BY <1>0, <1>2, Budgets
  <2> QED
    BY <1>0, <1>1, <1>2, <1>3, <2>1 DEF TypeOK, RenType, PayType, queue, user
<1>5. ConsentVoid'
  BY <1>1, <1>2 DEF IInv, ConsentVoid, Withdrawn
<1>6. RenQuiet
  BY <1>0, <1>1, <1>2, Types DEF IInv, FirstAttempt, RenQuiet, Live, user
<1> QED
  BY <1>2, <1>3, <1>4, <1>5, <1>6, QuietStep DEF queue

\* An administrator pauses the renewal, or it is paused for a missing method.
LEMMA AdminPauseStep ==
  ASSUME IInv, AdminPause \/ Reconcile PROVE IInv'
<1>0. TypeOK
  BY DEF IInv
<1>1. /\ ren' \in RenType
      /\ ren'.status = ren.status \/ (ren'.status \in {"ADMIN_PAUSED", "TECHNICAL_PAUSE"}
                                        /\ (ren'.status = "ADMIN_PAUSED" => ren.status = "ACTIVE"))
      /\ ren'.retry = ren.retry /\ ren'.attempt = ren.attempt
      /\ ren'.dispatch = ren.dispatch /\ ren'.cycle = ren.cycle
  <2>1. /\ ren \in RenType /\ ren.status \in RenewalStatuses
        /\ ren.amount \in Prices /\ ren.pending \in Prices \cup {"none"}
        /\ tariff \in Prices
    BY <1>0, Types DEF RenType, TypeOK
  <2>2. CASE AdminPause
    BY <2>1, <2>2 DEF AdminPause, RenType, RenewalStatuses
  <2>3. CASE Reconcile
    <3> DEFINE v == IF tariff # ren.amount THEN tariff ELSE ren.pending
               s == IF ~ren.method /\ ~Withdrawn THEN "TECHNICAL_PAUSE" ELSE ren.status
    <3>1. ren' = [ren EXCEPT !.status = s, !.pending = v, !.amount = ren.amount]
      BY <2>1, <2>3 DEF Reconcile, RenType
    <3>2. v \in Prices \cup {"none"} /\ s \in RenewalStatuses
      BY <2>1 DEF RenewalStatuses
    <3>3. s = ren.status \/ s = "TECHNICAL_PAUSE"
      OBVIOUS
    <3> HIDE DEF s, v
    <3> QED
      BY <1>0, <2>1, <3>1, <3>2, <3>3, RenFacts
  <2> QED
    BY <2>2, <2>3
<1>2. /\ UNCHANGED <<sub, over, pay, op, job, queue, prov, tariff, user, faults>>
      /\ Act \/ acts' = acts
      /\ Disables(FALSE) \/ (checkout' = checkout /\ ren'.status = ren.status)
  BY DEF AdminPause, Reconcile, world
<1>3. checkout' \in CheckoutType
  BY <1>0, <1>2, DisablesFacts, Types
<1>4. TypeOK'
  BY <1>0, <1>1, <1>2, <1>3, Types, Budgets, QuietTypes DEF TypeOK, user
<1>5. ConsentVoid'
  BY <1>0, <1>2, DisablesFacts DEF IInv, ConsentVoid, Withdrawn
<1>6. RenQuiet
  BY <1>0, <1>1, <1>2, Types DEF IInv, FirstAttempt, RenQuiet, Live, user
<1> QED
  BY <1>2, <1>4, <1>5, <1>6, SamePay, QuietStep DEF queue

\* An administrator resumes it.
LEMMA AdminResumeStep ==
  ASSUME IInv, AdminResume PROVE IInv'
<1>0. TypeOK
  BY DEF IInv
<1>1. /\ ren' \in RenType /\ ren.status = "ADMIN_PAUSED" /\ ren'.status = "ACTIVE"
      /\ ren'.retry = ren.retry /\ ren'.attempt = ren.attempt
      /\ ren'.dispatch = ren.dispatch /\ ren'.cycle = ren.cycle
  BY <1>0, Types DEF AdminResume, RenType, RenewalStatuses
<1>2. /\ UNCHANGED <<sub, over, pay, op, job, queue, prov, tariff, identity, faults, acts>>
      /\ Enables
  BY DEF AdminResume
<1>3. /\ meanwhile \subseteq meanwhile' /\ meanwhile' \subseteq {"resumed", "extended"}
      /\ ren.dispatch => "resumed" \in meanwhile'
  BY <1>0 DEF TypeOK, AdminResume, Noted
<1>4. TypeOK'
  BY <1>0, <1>1, <1>2, <1>3, EnablesFacts, QuietTypes DEF TypeOK
<1>5. ConsentVoid'
  BY <1>1 DEF ConsentVoid, Withdrawn
<1>6. RenQuiet
  BY <1>0, <1>1, <1>2, <1>3, Types DEF IInv, FirstAttempt, RenQuiet, Live
<1> QED
  BY <1>2, <1>4, <1>5, <1>6, SamePay, QuietStep DEF queue

\* An administrator extends the subscription.
LEMMA AdminExtendStep ==
  ASSUME IInv, AdminExtend PROVE IInv'
<1>0. TypeOK /\ sub \in Nat
  BY Types DEF IInv
<1>1. /\ UNCHANGED <<ren, pay, op, job, queue, prov, checkout, tariff, identity, faults>>
      /\ sub' = sub + 1 /\ over' = FALSE /\ Act
  BY DEF AdminExtend
<1>3. /\ meanwhile \subseteq meanwhile' /\ meanwhile' \subseteq {"resumed", "extended"}
      /\ ren.dispatch => meanwhile' # {}
  BY <1>0 DEF TypeOK, AdminExtend, Noted
<1>4. TypeOK'
  <2>1. acts' \in 0..MaxEvents
    BY <1>0, <1>1, Budgets
  <2>2. ren' \in RenType /\ checkout' \in CheckoutType
    BY <1>0, <1>1, Types
  <2>3. sub' \in Nat
    BY <1>0, <1>1
  <2>4. over' \in BOOLEAN
    BY <1>1, Zenon
  <2> QED
    BY <1>0, <1>1, <1>3, <2>1, <2>2, <2>3, <2>4, QuietTypes DEF TypeOK
<1>5. ConsentVoid'
  BY <1>1 DEF IInv, ConsentVoid, Withdrawn
<1>6. RenQuiet
  BY <1>0, <1>1, <1>3 DEF IInv, FirstAttempt, RenQuiet
<1> QED
  BY <1>1, <1>4, <1>5, <1>6, SamePay, QuietStep DEF queue

\* The projection of the user, the opening and closing of checkouts, and time.
LEMMA OutsideStep ==
  ASSUME IInv,
         \/ ApplyIdentity \/ CheckoutEnds
         \/ \E auto \in BOOLEAN : OpenCheckout(auto)
         \/ \E k \in Keys : DispatchDeadline(k) \/ WindowCloses(k)
  PROVE  IInv'
<1>0. TypeOK
  BY DEF IInv
<1>1. /\ UNCHANGED <<ren, sub, over, pay, op, job, charges, prov, tariff, meanwhile, faults>>
      /\ Act \/ acts' = acts
  BY DEF ApplyIdentity, CheckoutEnds, OpenCheckout, DispatchDeadline, WindowCloses, queue,
         world, user
<1>2. /\ identity' \in {"ACTIVE", "REVOKED", "DEACTIVATED"}
      /\ expired' \subseteq Keys /\ aged' \subseteq Keys
  BY <1>0 DEF TypeOK, ApplyIdentity, CheckoutEnds, OpenCheckout, DispatchDeadline,
              WindowCloses, queue, world, user
<1>3. /\ checkout' \in CheckoutType
      /\ (checkout'.valid /\ checkout'.withdrawn) => (checkout.valid /\ checkout.withdrawn)
  <2>1. CASE checkout' = checkout
    BY <1>0, <2>1, Types
  <2>2. ASSUME NEW auto \in BOOLEAN, OpenCheckout(auto)
        PROVE  checkout' \in CheckoutType /\ ~checkout'.withdrawn
    <3> DEFINE a == IF auto THEN tariff ELSE "old"
    <3>1. a \in Prices
      BY <1>0 DEF TypeOK, Prices
    <3>2. checkout' = [state |-> "open", auto |-> auto, valid |-> auto,
                       withdrawn |-> FALSE, amount |-> a]
      BY <2>2 DEF OpenCheckout
    <3> HIDE DEF a
    <3> QED
      BY <3>1, <3>2 DEF CheckoutType
  <2>3. CASE checkout' = [checkout EXCEPT !.state = "due"]
    BY <1>0, <2>3, Types DEF CheckoutType
  <2>4. CASE checkout' = [NoCheckout EXCEPT !.state = "closed"]
    BY <2>4 DEF NoCheckout, CheckoutType, Prices
  <2> QED
    BY <2>1, <2>2, <2>3, <2>4 DEF ApplyIdentity, CheckoutEnds, DispatchDeadline, WindowCloses
<1>4. TypeOK'
  <2>1. acts' \in 0..MaxEvents
    BY <1>0, <1>1, Budgets
  <2> QED
    BY <1>0, <1>1, <1>2, <1>3, <2>1 DEF TypeOK, CheckoutType
<1>5. ConsentVoid'
  BY <1>1, <1>3 DEF IInv, ConsentVoid, Withdrawn
<1>6. RenQuiet
  BY <1>0, <1>1, Types DEF IInv, FirstAttempt, RenQuiet
<1> QED
  BY <1>1, <1>4, <1>5, <1>6, SamePay, QuietStep

\* A one-time payment succeeds.
LEMMA CheckoutPaidStep ==
  ASSUME IInv, CheckoutPaid PROVE IInv'
<1>0. TypeOK /\ sub \in Nat /\ sub + 1 \in Nat
  BY Types DEF IInv
<1>1. /\ UNCHANGED <<op, job, queue, prov, world>>
      /\ sub' = sub + 1 /\ over' = FALSE /\ checkout' = NoCheckout
  BY DEF CheckoutPaid
<1>2. checkout' \in CheckoutType /\ ~checkout'.valid
  BY <1>1 DEF NoCheckout, CheckoutType, Prices
<1>3. pay' \in [Keys -> PayType] /\ \A k \in Keys : PayQuiet(k)
  <2>1. CASE pay' = pay
    BY <1>0, <2>1, Types, SamePay
  <2>2. CASE Reconsent
    BY <1>0, <2>2, Types DEF Reconsent, PayType, PayQuiet
  <2> QED
    BY <2>1, <2>2 DEF CheckoutPaid
<1>4. /\ ren' \in RenType
      /\ \/ ~ren'.retry /\ ~ren'.dispatch /\ ren'.attempt = 0
         \/ ren' = ren /\ ren.status # "ACTIVE"
  <2>1. CASE Restarts
    <3>1. checkout.amount \in Prices
      BY <1>0, Types DEF CheckoutType
    <3>2. 0 \in 0..Retries
      BY BoundsAssumption
    <3> QED
      <4> DEFINE n == [status |-> "ACTIVE", dispatch |-> FALSE, attempt |-> 0,
                       retry |-> FALSE, cycle |-> sub + 1, amount |-> checkout.amount,
                       pending |-> "none", method |-> TRUE]
      <4>1. ren' = n
        BY <2>1 DEF CheckoutPaid
      <4>2. n \in RenType
        BY <1>0, <3>1, <3>2 DEF RenType, RenewalStatuses
      <4> QED
        BY <4>1, <4>2
  <2>2. CASE ~Restarts /\ ren.status = "ACTIVE"
    <3>1. [ren EXCEPT !.cycle = sub + 1] \in RenType
      BY <1>0, Types DEF RenType
    <3>2. ren' = Reset([ren EXCEPT !.cycle = sub + 1])
      BY <2>2 DEF CheckoutPaid
    <3> QED
      BY <3>1, <3>2, ResetFacts
  <2>3. CASE ~Restarts /\ ren.status # "ACTIVE"
    BY <1>0, <2>3, Types DEF CheckoutPaid
  <2> QED
    BY <2>1, <2>2, <2>3
<1>5. TypeOK'
  BY <1>0, <1>1, <1>2, <1>3, <1>4
  DEF TypeOK, RenType, PayType, CheckoutType, queue, world, user
<1>6. ConsentVoid'
  BY <1>2 DEF ConsentVoid
<1>7. RenQuiet
  BY <1>0, <1>1, <1>4 DEF IInv, FirstAttempt, RenQuiet, Live, world, user
<1> QED
  BY <1>1, <1>3, <1>5, <1>6, <1>7, QuietStep DEF queue

-----------------------------------------------------------------------------
\* The renewal is withdrawn

\* What ClearFuture does to a payment and its operation.
LEMMA ClearFacts ==
  ASSUME TypeOK, ClearFuture
  PROVE  /\ pay' \in [Keys -> PayType] /\ op' \in [Keys -> OpType]
         /\ \A k \in Keys :
              /\ pay'[k].bound = pay[k].bound
              /\ pay'[k].status = "NONE" <=> pay[k].status = "NONE"
              /\ pay'[k].status = "PENDING" => pay[k].status = "PENDING"
              /\ pay'[k].status = "SUCCEEDED" => pay[k].status = "SUCCEEDED"
              /\ pay'[k].provider = "canceled" => pay[k].provider = "canceled"
              /\ op'[k].status = "PROCESSING" => op[k] = op'[k]
              /\ op'[k].status = "SUCCEEDED" => op[k] = op'[k]
<1>1. pay \in [Keys -> PayType] /\ op \in [Keys -> OpType]
  BY Types
<1>2. /\ pay' \in [Keys -> PayType]
      /\ \A k \in Keys :
              /\ pay'[k].bound = pay[k].bound
              /\ pay'[k].status = "NONE" <=> pay[k].status = "NONE"
              /\ pay'[k].status = "PENDING" => pay[k].status = "PENDING"
              /\ pay'[k].status = "SUCCEEDED" => pay[k].status = "SUCCEEDED"
              /\ pay'[k].provider = "canceled" => pay[k].provider = "canceled"
  BY <1>1 DEF ClearFuture, PayType
<1>3. /\ op' \in [Keys -> OpType]
      /\ \A k \in Keys : /\ op'[k].status = "PROCESSING" => op[k] = op'[k]
                         /\ op'[k].status = "SUCCEEDED" => op[k] = op'[k]
  BY <1>1 DEF ClearFuture, OpType
<1> QED
  BY <1>2, <1>3

\* The user or an administrator ends the renewal, or Identity the account.
LEMMA WithdrawStep ==
  ASSUME IInv,
         \/ \E s \in {"USER_DISABLED", "REVOKED"} : Withdraw(s)
         \/ RevokeBeforeDeactivate
  PROVE  IInv'
<1>0. TypeOK
  BY DEF IInv
<1>1. /\ ClearFuture /\ Act
      /\ UNCHANGED <<sub, over, job, queue, prov, tariff, meanwhile, faults>>
      /\ identity' \in {"ACTIVE", "REVOKED", "DEACTIVATED"}
  BY <1>0 DEF TypeOK, Withdraw, RevokeBeforeDeactivate, user
<1>2. /\ ren' \in RenType /\ ren'.status \notin Live
      /\ ren'.retry => ren.retry /\ ren'.cycle = ren.cycle /\ ren'.attempt = ren.attempt
      /\ Disables(TRUE) \/ (checkout' = checkout /\ Withdrawn)
  <2>1. ASSUME NEW s \in {"USER_DISABLED", "REVOKED"}, Withdraw(s),
               ren' = Reset([ren EXCEPT !.status = s, !.method = FALSE])
        PROVE  ren' \in RenType /\ ren'.status = s /\ ~ren'.retry
    <3>1. [ren EXCEPT !.status = s, !.method = FALSE] \in RenType
          /\ [ren EXCEPT !.status = s, !.method = FALSE].status = s
      BY <1>0, Types DEF RenType, RenewalStatuses
    <3> QED
      BY <2>1, <3>1, ResetFacts
  <2>2. ASSUME NEW s \in {"USER_DISABLED", "REVOKED"}, Withdraw(s)
        PROVE  \/ ren' = ren /\ checkout' = checkout /\ Withdrawn
               \/ Disables(TRUE) /\ ren' = Reset([ren EXCEPT !.status = s, !.method = FALSE])
    BY <2>2 DEF Withdraw
  <2>3. ASSUME RevokeBeforeDeactivate
        PROVE  /\ ren' \in RenType /\ ren'.status = "REVOKED"
               /\ ren'.retry = ren.retry /\ ren'.cycle = ren.cycle
               /\ ren'.attempt = ren.attempt /\ Disables(TRUE)
    BY <1>0, <2>3, Types DEF RevokeBeforeDeactivate, RenType, RenewalStatuses
  <2>4. Withdrawn => ren.status \notin Live
    BY DEF Withdrawn, Live
  <2> QED
    BY <1>0, <2>1, <2>2, <2>3, <2>4, Types DEF Live
<1>3. checkout' \in CheckoutType /\ ConsentVoid'
  <2>1. CASE Disables(TRUE)
    BY <1>0, <2>1, DisablesFacts DEF ConsentVoid
  <2>2. CASE checkout' = checkout /\ Withdrawn
    BY <1>0, <2>2, Types DEF IInv, ConsentVoid
  <2> QED
    BY <1>2, <2>1, <2>2
<1>4. TypeOK'
  <2>1. acts' \in 0..MaxEvents
    BY <1>0, <1>1, Budgets
  <2> QED
    BY <1>0, <1>1, <1>2, <1>3, <2>1, ClearFacts
    DEF TypeOK, RenType, PayType, OpType, CheckoutType, queue
<1>5. InPeriod' /\ FirstAttempt' /\ AwaitedIsOpen'
  BY <1>2 DEF InPeriod, FirstAttempt, AwaitedIsOpen, Live
<1>6. PastCharges'
  BY <1>0, <1>1, <1>2, ClearFacts DEF IInv, PastCharges
<1>7. ProviderAgrees'
  BY <1>0, <1>1, ClearFacts DEF IInv, ProviderAgrees
<1>8. EarlierRefused'
  <2>1. ren'.retry => Current' = Current
    BY <1>2 DEF Current
  <2> QED
    BY <1>0, <1>1, <1>2, <2>1, ClearFacts DEF IInv, EarlierRefused
<1>9. OneOpenCharge'
  BY <1>0, <1>1, ClearFacts DEF IInv, OneOpenCharge
<1> QED
  BY <1>3, <1>4, <1>5, <1>6, <1>7, <1>8, <1>9 DEF IInv

-----------------------------------------------------------------------------
\* Steps of the charge k

\* What they may do to the renewal, ...
RenMove(k) ==
    /\ sub' \in Nat /\ sub' >= sub /\ meanwhile' = meanwhile
    /\ ren'.status \in Live => ren.status \in Live
    /\ ren'.retry =>
        \/ ren.retry /\ ren'.cycle = ren.cycle /\ ren'.attempt = ren.attempt
        \/ /\ ren'.cycle = k[1] /\ ren'.attempt = k[2] + 1
           /\ prov'[k] = "retryable" /\ pay[k].status # "NONE"
    /\ ren'.status \in Live /\ ~ren'.retry => ren'.attempt = 0
    /\ ren'.status \in Live /\ ren'.dispatch =>
        /\ ren'.status = ren.status /\ ren.dispatch /\ sub' = sub
        /\ ren'.cycle = ren.cycle /\ ren'.attempt = ren.attempt
        /\ k = Current =>
            /\ Open(k) => Open(k)' \/ Refused(k)'
            /\ Refused(k) => Refused(k)'
\* ... to the payment and YooKassa, ...
PayMove(k) ==
    /\ pay'[k].status = "NONE" <=> pay[k].status = "NONE"
    /\ pay'[k].status = "PENDING" => pay[k].status = "PENDING"
    /\ Resumable(k)' => Resumable(k) \/ ren'.status \notin Live
    /\ prov[k] = "retryable" => prov'[k] = "retryable"
\* ... and what k has to agree with afterwards.
KeyAgrees(k) ==
    /\ prov[k] # "none" => pay[k].status # "NONE"
    /\ pay[k].bound => prov[k] # "none"
    /\ job[k].step = "answered" =>
        prov[k] # "none" /\ job[k].result \in {"pending", prov[k]}
    /\ op[k].status = "PROCESSING" => op[k].attempt >= 1
    /\ \/ op[k].status = "SUCCEEDED" \/ pay[k].status = "SUCCEEDED"
       \/ pay[k].provider = "canceled"
       => pay[k].bound
\* The other charges.
OthersStay(k) == \A l \in Keys \ {k} :
    /\ pay'[l] = pay[l] /\ op'[l] = op[l] /\ job'[l] = job[l] /\ prov'[l] = prov[l]
    /\ l \in charges <=> l \in charges'

\* Such a step keeps the invariant.
LEMMA KeyStep ==
  ASSUME IInv, TypeOK', ConsentVoid', NEW k \in Keys,
         RenMove(k), PayMove(k), KeyAgrees(k)', OthersStay(k)
  PROVE  IInv'
<1>0. /\ TypeOK /\ sub \in Nat /\ \A l \in Keys : l[1] \in Nat /\ l[2] \in Nat
  BY Types, KeyFacts, BoundsAssumption DEF IInv
<1>1. InPeriod'
  BY DEF IInv, InPeriod, RenMove, Live
<1>2. PastCharges'
  <2> SUFFICES ASSUME NEW l \in Keys
               PROVE  /\ pay'[l].status # "NONE" => l[1] <= sub'
                      /\ ren'.status \in Live /\ Resumable(l)' => l[1] < sub'
    BY DEF PastCharges
  <2>1. pay'[l].status # "NONE" => pay[l].status # "NONE"
    BY DEF PayMove, OthersStay
  <2>2. ren'.status \in Live /\ Resumable(l)' => ren.status \in Live /\ Resumable(l)
    BY DEF PayMove, OthersStay, RenMove, Resumable
  <2> QED
    BY <1>0, <2>1, <2>2 DEF IInv, PastCharges, RenMove
<1>3. ProviderAgrees'
  <2> SUFFICES ASSUME NEW l \in Keys PROVE KeyAgrees(l)'
    BY DEF ProviderAgrees, KeyAgrees
  <2>1. CASE l = k
    BY <2>1
  <2>2. CASE l # k
    BY <2>2 DEF OthersStay, KeyAgrees, IInv, ProviderAgrees
  <2> QED
    BY <2>1, <2>2
<1>4. EarlierRefused'
  <2>1. \A l \in Keys : prov[l] = "retryable" => prov'[l] = "retryable"
    BY DEF PayMove, OthersStay
  <2>2. \A l \in Keys : pay'[l].status # "NONE" => pay[l].status # "NONE"
    BY DEF PayMove, OthersStay
  <2>3. \A j, l \in Keys : pay'[j].status # "NONE" /\ Earlier(l, j) => prov'[l] = "retryable"
    BY <2>1, <2>2 DEF IInv, EarlierRefused
  <2>4. ASSUME ren'.retry, NEW l \in Keys, Earlier(l, Current')
        PROVE  prov'[l] = "retryable"
    <3>1. Current'[1] = ren'.cycle /\ Current'[2] = ren'.attempt
      BY DEF Current
    <3>2. CASE ren.retry /\ ren'.cycle = ren.cycle /\ ren'.attempt = ren.attempt
      <4>1. Current' = Current
        BY <3>2 DEF Current
      <4> QED
        BY <2>1, <2>4, <3>2, <4>1 DEF IInv, EarlierRefused
    <3>3. CASE /\ ren'.cycle = k[1] /\ ren'.attempt = k[2] + 1
               /\ prov'[k] = "retryable" /\ pay[k].status # "NONE"
      <4>1. l[1] = k[1] /\ l[2] < k[2] + 1
        BY <2>4, <3>1, <3>3 DEF Earlier
      <4>2. CASE l[2] = k[2]
        <5>1. l = k
          BY <4>1, <4>2, KeyFacts
        <5> QED
          BY <3>3, <5>1
      <4>3. CASE l[2] < k[2]
        BY <2>1, <3>3, <4>1, <4>3 DEF IInv, EarlierRefused, Earlier
      <4> QED
        BY <1>0, <4>1, <4>2, <4>3
    <3> QED
      BY <2>4, <3>2, <3>3 DEF RenMove
  <2> QED
    BY <2>3, <2>4 DEF EarlierRefused, Earlier
<1>5. FirstAttempt'
  BY DEF FirstAttempt, RenMove
<1>6. AwaitedIsOpen'
  <2> SUFFICES ASSUME ren'.status \in Live, ren'.dispatch
               PROVE  Current' \in Keys /\ (Open(Current)' \/ Refused(Current)')
    BY DEF AwaitedIsOpen
  <2>1. /\ Current' = Current /\ ren.status = ren'.status /\ ren.dispatch
        /\ meanwhile' = meanwhile
    BY DEF RenMove, Current
  <2>2. Current \in Keys /\ (Open(Current) \/ Refused(Current))
    BY <2>1 DEF IInv, AwaitedIsOpen
  <2>3. CASE Current = k
    BY <2>1, <2>2, <2>3 DEF RenMove, Open, Carried, Refused
  <2>4. CASE Current # k
    BY <2>1, <2>2, <2>4 DEF OthersStay, Open, Carried, Refused
  <2> QED
    BY <2>3, <2>4
<1>7. OneOpenCharge'
  BY DEF IInv, OneOpenCharge, PayMove, OthersStay
<1> QED
  BY <1>1, <1>2, <1>3, <1>4, <1>5, <1>6, <1>7 DEF IInv

-----------------------------------------------------------------------------
\* Updates of one charge

\* Only the payment k changes, to status s, provider v, bound b, same m.
PayOnly(k, s, v, b) ==
    /\ pay' \in [Keys -> PayType]
    /\ pay'[k].status = s /\ pay'[k].provider = v /\ pay'[k].bound = b
    /\ pay'[k].same = pay[k].same
    /\ \A l \in Keys \ {k} : pay'[l] = pay[l]

\* Writing providerStatus.
LEMMA PayProvider ==
  ASSUME TypeOK, NEW k \in Keys,
         NEW v \in {"creating", "unknown"}, pay' = [pay EXCEPT ![k].provider = v]
  PROVE  PayOnly(k, pay[k].status, v, pay[k].bound)
  BY Types DEF PayType, PayOnly

\* Closing the payment.
LEMMA PayClosed ==
  ASSUME TypeOK, NEW k \in Keys, NEW v \in {"not_sent", "rejected", "not_found"},
         pay' = [pay EXCEPT ![k].status = "CANCELLED", ![k].provider = v]
  PROVE  PayOnly(k, "CANCELLED", v, pay[k].bound)
  BY Types DEF PayType, PayOnly

\* Recording an id with a status at YooKassa.
LEMMA PayBound ==
  ASSUME TypeOK, NEW k \in Keys,
         NEW s \in {"NONE", "PENDING", "SUCCEEDED", "CANCELLED"},
         NEW v \in {"pending", "succeeded", "canceled"},
         pay' = [pay EXCEPT ![k].status = s, ![k].provider = v, ![k].bound = TRUE]
  PROVE  PayOnly(k, s, v, TRUE)
  BY Types DEF PayType, PayOnly

\* Only the operation k changes.
OpOnly(k, s, a) ==
    /\ op' \in [Keys -> OpType]
    /\ op'[k].status = s /\ op'[k].attempt = a
    /\ \A l \in Keys \ {k} : op'[l] = op[l]

\* Writing its status.
LEMMA OpStatus ==
  ASSUME TypeOK, NEW k \in Keys,
         NEW s \in {"PENDING", "PROCESSING", "SUCCEEDED", "FAILED", "UNKNOWN"},
         op' = [op EXCEPT ![k].status = s]
  PROVE  OpOnly(k, s, op[k].attempt)
  BY Types DEF OpType, OpOnly

\* Only the worker of k moves.
JobOnly(k, s, r) ==
    /\ job' \in [Keys -> JobType]
    /\ job'[k].step = s /\ job'[k].result = r
    /\ \A l \in Keys \ {k} : job'[l] = job[l]

\* It ends.
LEMMA LeavesFacts ==
  ASSUME TypeOK, NEW k \in Keys, Leaves(k) PROVE JobOnly(k, "idle", "")
<1>1. Idle \in JobType /\ Idle.step = "idle" /\ Idle.result = ""
  BY DEF Idle, JobType
<1> QED
  BY <1>1, Types DEF Leaves, JobOnly

\* It goes on with an answer or an error.
LEMMA HoldsFacts ==
  ASSUME TypeOK, NEW k \in Keys, NEW s \in {"answered", "failed"},
         NEW r \in Outcomes \cup Errors, Holds(k, s, r)
  PROVE  JobOnly(k, s, r)
  BY Types DEF Holds, JobType, JobOnly

\* The invariant for k, and that a payment has a status.
LEMMA KeyInv ==
  ASSUME IInv, NEW k \in Keys
  PROVE  /\ KeyAgrees(k) /\ pay[k] \in PayType /\ op[k] \in OpType
         /\ job[k] \in JobType /\ prov[k] \in Outcomes \cup {"none"}
<1>1. KeyAgrees(k)
  BY DEF IInv, ProviderAgrees, KeyAgrees
<1> QED
  BY <1>1, Types DEF IInv

\* A renewal that does not change.
LEMMA RenSame ==
  ASSUME IInv, NEW k \in Keys, UNCHANGED <<ren, sub, meanwhile>>,
         Open(k) => Open(k)' \/ Refused(k)', Refused(k) => Refused(k)'
  PROVE  RenMove(k)
<1>1. sub \in Nat
  BY Types DEF IInv
<1> QED
  BY <1>1 DEF RenMove, IInv, FirstAttempt

-----------------------------------------------------------------------------
\* Answers of YooKassa

\* What a refusal does to the renewal.
LEMMA CancelFacts ==
  ASSUME IInv, NEW k \in Keys, NEW reason, ApplyRecurringCancellation(k, reason),
         pay[k].status # "NONE", reason = "retryable" => prov[k] = "retryable",
         pay'[k].status = "CANCELLED", pay'[k].same = pay[k].same,
         UNCHANGED <<sub, meanwhile, prov>>
  PROVE  /\ ren' \in RenType /\ checkout' \in CheckoutType /\ ConsentVoid'
         /\ RenMove(k)
<1>0. TypeOK /\ sub \in Nat /\ ren \in RenType
  BY Types DEF IInv
<1> DEFINE Ignored == ren.status # "ACTIVE" \/ k # Current \/ ~pay[k].same
           Again == Retryable(reason) /\ k[2] < Retries
<1>1. CASE Ignored
  <2>1. UNCHANGED <<ren, checkout>>
    BY <1>1 DEF ApplyRecurringCancellation
  <2>2. k = Current => Refused(k)' \/ ~(ren.status \in Live)
    BY <1>1, <2>1 DEF Refused
  <2>3. RenMove(k)
    BY <1>0, <2>1, <2>2 DEF RenMove, IInv, FirstAttempt
  <2> QED
    BY <1>0, <2>1, <2>3, Types DEF IInv, ConsentVoid, Withdrawn
<1>2. CASE ~Ignored /\ Again
  <2>1. /\ ren' = [ren EXCEPT !.attempt = k[2] + 1, !.retry = TRUE, !.dispatch = FALSE]
        /\ Enables
    BY <1>2 DEF ApplyRecurringCancellation
  <2>2. k[2] + 1 \in 0..Retries
    BY <1>2, KeyFacts, BoundsAssumption
  <2>3. /\ ren' \in RenType /\ ren'.status = ren.status /\ ren'.attempt = k[2] + 1
        /\ ~ren'.dispatch /\ ren'.cycle = ren.cycle /\ ren'.retry
    BY <1>0, <2>1, <2>2 DEF RenType
  <2>4. ren.cycle = k[1] /\ ren.status = "ACTIVE" /\ prov[k] = "retryable"
    BY <1>2, CurrentFacts DEF Retryable
  <2>5. RenMove(k)
    BY <1>0, <2>3, <2>4 DEF RenMove
  <2>6. checkout' \in CheckoutType /\ ConsentVoid'
    BY <1>0, <2>1, <2>3, <2>4, EnablesFacts DEF ConsentVoid, Withdrawn
  <2> QED
    BY <2>3, <2>5, <2>6
<1>3. CASE ~Ignored /\ ~Again
  <2>1. /\ Disables(reason = "permission_revoked")
        /\ \/ ren' = [Paused EXCEPT !.status = "REVOKED", !.method = FALSE]
           \/ ren' = Paused
    BY <1>3 DEF ApplyRecurringCancellation
  <2>2. ren' \in RenType /\ ren'.status \notin Live /\ ~ren'.retry
    BY <1>0, <2>1, PausedFacts DEF Live
  <2>3. (reason = "permission_revoked") \in BOOLEAN
    OBVIOUS
  <2>4. checkout' \in CheckoutType /\ ConsentVoid'
    BY <1>0, <2>1, <2>3, DisablesFacts DEF ConsentVoid
  <2>5. RenMove(k)
    BY <1>0, <2>2 DEF RenMove
  <2> QED
    BY <2>2, <2>4, <2>5
<1> QED
  BY <1>1, <1>2, <1>3

\* What an answer does.
LEMMA ResponseFacts ==
  ASSUME IInv, NEW k \in Keys, NEW a \in Outcomes, prov[k] # "none",
         a \in {"pending", prov[k]}, ApplyProviderResponse(k, a),
         UNCHANGED <<meanwhile, prov>>
  PROVE  /\ pay' \in [Keys -> PayType] /\ ren' \in RenType
         /\ checkout' \in CheckoutType /\ sub' \in Nat /\ over' \in BOOLEAN
         /\ ConsentVoid' /\ RenMove(k) /\ PayMove(k)
         /\ pay'[k].bound /\ pay'[k].status # "NONE"
         /\ \A l \in Keys \ {k} : pay'[l] = pay[l]
<1>0. /\ TypeOK /\ sub \in Nat /\ ren \in RenType /\ KeyAgrees(k) /\ over \in BOOLEAN
      /\ pay \in [Keys -> PayType] /\ checkout \in CheckoutType
  BY Types, KeyInv DEF IInv, TypeOK
<1>1. pay[k].status # "NONE" /\ pay[k] \in PayType
  BY <1>0 DEF KeyAgrees
<1>2. CASE UNCHANGED <<pay, ren, sub, over, checkout>> /\ pay[k].bound
  <2>1. RenMove(k)
    <3>1. Open(k) => Open(k)'
      BY <1>2 DEF Open, Carried
    <3>2. Refused(k) => Refused(k)'
      BY <1>2 DEF Refused
    <3> QED
      BY <1>2, <3>1, <3>2, RenSame
  <2>2. PayMove(k)
    BY <1>2 DEF PayMove, Resumable
  <2>3. ConsentVoid'
    BY <1>2 DEF IInv, ConsentVoid, Withdrawn
  <2> QED
    BY <1>0, <1>1, <1>2, <2>1, <2>2, <2>3
<1>3. CASE a = "succeeded" /\ pay[k].status # "SUCCEEDED"
  <2>1. /\ pay' = [pay EXCEPT ![k].status = "SUCCEEDED",
                              ![k].provider = "succeeded", ![k].bound = TRUE]
        /\ sub' = sub + 1 /\ over' = FALSE
        /\ ren' = Reset([ren EXCEPT !.cycle = sub + 1])
        /\ UNCHANGED checkout
    BY <1>3 DEF ApplyProviderResponse, ApplySuccess
  <2>2. PayOnly(k, "SUCCEEDED", "succeeded", TRUE)
    BY <1>0, <2>1, PayBound
  <2>3. [ren EXCEPT !.cycle = sub + 1] \in RenType
        /\ [ren EXCEPT !.cycle = sub + 1].status = ren.status
    BY <1>0 DEF RenType
  <2>4. /\ ren' \in RenType /\ ren'.status = ren.status /\ ren'.attempt = 0
        /\ ~ren'.retry /\ ~ren'.dispatch
    BY <2>1, <2>3, ResetFacts
  <2>5. RenMove(k)
    BY <1>0, <2>1, <2>4 DEF RenMove
  <2>6. PayMove(k)
    BY <1>1, <2>2 DEF PayMove, PayOnly, Resumable
  <2>7. ConsentVoid'
    BY <2>1, <2>4 DEF IInv, ConsentVoid, Withdrawn
  <2>8. sub' \in Nat
    BY <1>0, <2>1
  <2>9. over' \in BOOLEAN
    BY <2>1, Zenon
  <2> QED
    BY <1>0, <2>1, <2>2, <2>4, <2>5, <2>6, <2>7, <2>8, <2>9 DEF PayOnly
<1>4. CASE a = "pending"
  <2>1. /\ pay' = [pay EXCEPT ![k].provider = "pending", ![k].bound = TRUE]
        /\ UNCHANGED <<ren, sub, over, checkout>>
    BY <1>4 DEF ApplyProviderResponse, BindProviderState
  <2>2. PayOnly(k, pay[k].status, "pending", TRUE)
    BY <1>0, <2>1 DEF PayOnly, PayType
  <2>3. RenMove(k)
    <3>1. Open(k) => Open(k)'
      BY <2>2 DEF Open, Carried, PayOnly
    <3>2. Refused(k) => Refused(k)'
      BY <2>1, <2>2 DEF Refused, PayOnly
    <3> QED
      BY <2>1, <3>1, <3>2, RenSame
  <2>4. PayMove(k)
    BY <2>2 DEF PayMove, PayOnly, Resumable
  <2>5. ConsentVoid'
    BY <2>1 DEF IInv, ConsentVoid, Withdrawn
  <2> QED
    BY <1>0, <1>1, <2>1, <2>2, <2>3, <2>4, <2>5 DEF PayOnly
<1>5. CASE /\ a \notin {"succeeded", "pending"}
           /\ ~(\/ pay[k].status = "SUCCEEDED"
                \/ pay[k].status = "CANCELLED" /\ pay[k].provider = "canceled")
  <2>1. /\ pay' = [pay EXCEPT ![k].status = "CANCELLED",
                              ![k].provider = "canceled", ![k].bound = TRUE]
        /\ UNCHANGED <<sub, over>> /\ ApplyRecurringCancellation(k, a)
    BY <1>5 DEF ApplyProviderResponse, MarkProviderCancelled
  <2>2. PayOnly(k, "CANCELLED", "canceled", TRUE)
    BY <1>0, <2>1, PayBound
  <2>3. /\ ren' \in RenType /\ checkout' \in CheckoutType /\ ConsentVoid' /\ RenMove(k)
    BY <1>1, <1>5, <2>1, <2>2, CancelFacts DEF PayOnly
  <2>4. PayMove(k)
    BY <1>1, <2>2 DEF PayMove, PayOnly, Resumable
  <2> QED
    BY <1>0, <2>1, <2>2, <2>3, <2>4 DEF PayOnly
<1> QED
  BY <1>0, <1>2, <1>3, <1>4, <1>5
  DEF ApplyProviderResponse, ApplySuccess, MarkProviderCancelled, KeyAgrees

-----------------------------------------------------------------------------
\* The actions of a charge

\* The types of a step of a charge.
LEMMA KeyTypes ==
  ASSUME TypeOK, ren' \in RenType, sub' \in Nat, over' \in BOOLEAN,
         pay' \in [Keys -> PayType], op' \in [Keys -> OpType], job' \in [Keys -> JobType],
         charges' \subseteq Keys, prov' \in [Keys -> Outcomes \cup {"none"}],
         checkout' \in CheckoutType, UNCHANGED <<expired, aged, tariff, user, acts>>,
         Fault \/ faults' = faults
  PROVE  TypeOK'
<1>1. faults' \in 0..MaxFaults
  BY Budgets
<1> QED
  BY <1>1 DEF TypeOK, RenType, PayType, OpType, JobType, CheckoutType, user

\* An answer is applied by a notification, a verification or the worker.
LEMMA AnswerStep ==
  ASSUME IInv, NEW k \in Keys, Verify(k) \/ Apply(k) PROVE IInv'
<1>0. TypeOK /\ KeyAgrees(k) /\ prov[k] \in Outcomes \cup {"none"}
  BY KeyInv DEF IInv
<1>1. \E a \in Outcomes : /\ prov[k] # "none" /\ a \in {"pending", prov[k]}
                          /\ ApplyProviderResponse(k, a)
  <2>0. "pending" \in Outcomes
    BY DEF Outcomes
  <2>1. CASE Verify(k)
    <3>1. prov[k] # "none" /\ prov[k] \in Outcomes
      BY <1>0, <2>1 DEF Verify
    <3>2. ApplyProviderResponse(k, prov[k]) \/ ApplyProviderResponse(k, "pending")
      BY <2>1 DEF Verify
    <3> QED
      BY <2>0, <3>1, <3>2
  <2>2. CASE Apply(k)
    <3>1. /\ prov[k] # "none" /\ job[k].result \in {"pending", prov[k]}
          /\ ApplyProviderResponse(k, job[k].result)
      BY <1>0, <2>2 DEF Apply, KeyAgrees
    <3>2. job[k].result \in Outcomes
      BY <1>0, <2>0, <3>1
    <3> QED
      BY <3>1, <3>2
  <2> QED
    BY <2>1, <2>2
<1>2. /\ UNCHANGED <<charges, expired, aged, prov, tariff, user, acts>>
      /\ Fault \/ faults' = faults
  BY DEF Verify, Apply, queue
<1>3. /\ op' \in [Keys -> OpType] /\ op'[k].attempt = op[k].attempt
      /\ op'[k].status \in {op[k].status, "SUCCEEDED"}
      /\ \A l \in Keys \ {k} : op'[l] = op[l]
  <2>0. op \in [Keys -> OpType]
    BY <1>0, Types
  <2>1. CASE op' = op
    BY <2>0, <2>1
  <2>2. CASE op' = [op EXCEPT ![k].status = IF @ = "PROCESSING" THEN "SUCCEEDED" ELSE @]
    BY <2>0, <2>2 DEF OpType
  <2> QED
    BY <2>1, <2>2 DEF Verify, Apply
<1>4. /\ job' \in [Keys -> JobType] /\ (job'[k].step = "answered" => job'[k] = job[k])
      /\ \A l \in Keys \ {k} : job'[l] = job[l]
  <2>1. CASE job' = job
    BY <1>0, <2>1, Types
  <2>2. CASE Leaves(k)
    BY <1>0, <2>2, LeavesFacts DEF JobOnly
  <2> QED
    BY <2>1, <2>2 DEF Verify, Apply
<1>5. PICK a \in Outcomes : /\ prov[k] # "none" /\ a \in {"pending", prov[k]}
                            /\ ApplyProviderResponse(k, a)
  BY <1>1
<1>6. UNCHANGED <<meanwhile, prov>>
  BY <1>2 DEF user
<1>7. /\ pay' \in [Keys -> PayType] /\ ren' \in RenType
      /\ checkout' \in CheckoutType /\ sub' \in Nat /\ over' \in BOOLEAN
      /\ ConsentVoid' /\ RenMove(k) /\ PayMove(k)
      /\ pay'[k].bound /\ pay'[k].status # "NONE"
      /\ \A l \in Keys \ {k} : pay'[l] = pay[l]
  BY <1>5, <1>6, ResponseFacts
<1>8. TypeOK'
  <2>1. charges' \subseteq Keys /\ prov' \in [Keys -> Outcomes \cup {"none"}]
    BY <1>0, <1>2 DEF TypeOK
  <2> QED
    BY <1>0, <1>2, <1>3, <1>4, <1>7, <2>1, KeyTypes
<1>9. KeyAgrees(k)'
  BY <1>0, <1>2, <1>3, <1>4, <1>5, <1>7 DEF KeyAgrees
<1>10. OthersStay(k)
  BY <1>2, <1>3, <1>4, <1>7 DEF OthersStay
<1> QED
  BY <1>7, <1>8, <1>9, <1>10, KeyStep

\* The payment is settled at YooKassa, an operation is claimed, a worker dies.
LEMMA WorkerStep ==
  ASSUME IInv, NEW k \in Keys, ProviderSettles(k) \/ Claim(k) \/ Crash(k) PROVE IInv'
<1>0. /\ TypeOK /\ KeyAgrees(k) /\ prov[k] \in Outcomes \cup {"none"} /\ op[k] \in OpType
      /\ pay[k] \in PayType /\ prov \in [Keys -> Outcomes \cup {"none"}]
      /\ op \in [Keys -> OpType] /\ job \in [Keys -> JobType]
  BY KeyInv, Types DEF IInv
<1>1. /\ UNCHANGED <<ren, sub, over, pay, charges, expired, aged, checkout, tariff, user, acts>>
      /\ Fault \/ faults' = faults
  BY DEF ProviderSettles, Claim, Crash, queue, world
<1>2. /\ prov' \in [Keys -> Outcomes \cup {"none"}]
      /\ prov'[k] = "none" <=> prov[k] = "none"
      /\ prov[k] = prov'[k] \/ prov[k] = "pending"
      /\ \A l \in Keys \ {k} : prov'[l] = prov[l]
  <2>1. CASE prov' = prov
    BY <1>0, <2>1
  <2>2. CASE ProviderSettles(k)
    <3>1. PICK a \in Outcomes \ {"pending"} : prov' = [prov EXCEPT ![k] = a]
      BY <2>2 DEF ProviderSettles
    <3>2. a # "none" /\ prov[k] = "pending"
      BY <2>2 DEF Outcomes, ProviderSettles
    <3> QED
      BY <1>0, <3>1, <3>2
  <2> QED
    BY <2>1, <2>2 DEF Claim, Crash
<1>3. /\ op' \in [Keys -> OpType] /\ \A l \in Keys \ {k} : op'[l] = op[l]
      /\ \/ op'[k] = op[k]
         \/ op'[k].status = "PROCESSING" /\ op'[k].attempt >= 1
      /\ \/ op'[k].status = "FAILED" <=> op[k].status = "FAILED"
         \/ op'[k].status = "PROCESSING"
  <2>1. CASE op' = op
    BY <1>0, <2>1
  <2>2. CASE Claim(k)
    <3>1. op' = [op EXCEPT ![k].status = "PROCESSING", ![k].attempt = @ + 1]
      BY <2>2 DEF Claim
    <3>2. op[k].attempt \in Nat
      BY <1>0 DEF OpType
    <3>3. /\ op' \in [Keys -> OpType] /\ \A l \in Keys \ {k} : op'[l] = op[l]
          /\ op'[k].status = "PROCESSING" /\ op'[k].attempt = op[k].attempt + 1
      BY <1>0, <3>1 DEF OpType
    <3> QED
      BY <3>2, <3>3
  <2> QED
    BY <2>1, <2>2 DEF ProviderSettles, Crash
<1>4. /\ job' \in [Keys -> JobType] /\ (job'[k].step = "answered" => job'[k] = job[k])
      /\ \A l \in Keys \ {k} : job'[l] = job[l]
  <2>1. CASE job' = job
    BY <1>0, <2>1
  <2>2. CASE Leaves(k)
    BY <1>0, <2>2, LeavesFacts DEF JobOnly
  <2>3. CASE Claim(k)
    <3> DEFINE j == [Idle EXCEPT !.step = "claimed", !.again = op[k].status = "PROCESSING"]
    <3>1. j \in JobType /\ j.step = "claimed"
      BY DEF Idle, JobType
    <3>2. job' = [job EXCEPT ![k] = j]
      BY <2>3 DEF Claim
    <3> HIDE DEF j
    <3> QED
      BY <1>0, <3>1, <3>2
  <2> QED
    BY <2>1, <2>2, <2>3 DEF ProviderSettles, Crash
<1>5. TypeOK'
  <2>1. /\ ren' \in RenType /\ sub' \in Nat /\ over' \in BOOLEAN
        /\ pay' \in [Keys -> PayType] /\ checkout' \in CheckoutType /\ charges' \subseteq Keys
    BY <1>0, <1>1, Types DEF TypeOK
  <2> QED
    BY <1>0, <1>1, <1>2, <1>3, <1>4, <2>1, KeyTypes
<1>6. RenMove(k)
  <2>1. Open(k) => Open(k)'
    BY <1>1, <1>3 DEF Open, Carried
  <2>2. Refused(k) => Refused(k)'
    BY <1>1 DEF Refused, user
  <2> QED
    BY <1>1, <2>1, <2>2, RenSame DEF user
<1>7. PayMove(k)
  BY <1>1, <1>2 DEF PayMove, Resumable
<1>8. KeyAgrees(k)'
  <2>1. CASE prov' = prov
    BY <1>0, <1>1, <1>3, <1>4, <2>1 DEF KeyAgrees
  <2>2. CASE ProviderSettles(k)
    <3>1. UNCHANGED <<op, job, pay>> /\ prov[k] = "pending"
      BY <2>2 DEF ProviderSettles
    <3>2. "pending" # "none"
      OBVIOUS
    <3> QED
      BY <1>0, <1>2, <3>1 DEF KeyAgrees
  <2> QED
    BY <2>1, <2>2 DEF Claim, Crash
<1>9. OthersStay(k) /\ ConsentVoid'
  BY <1>1, <1>2, <1>3, <1>4 DEF OthersStay, IInv, ConsentVoid, Withdrawn
<1> QED
  BY <1>5, <1>6, <1>7, <1>8, <1>9, KeyStep

\* The charge goes on, and the renewal does not see it.
LEMMA GoesOn ==
  ASSUME IInv, TypeOK', NEW k \in Keys, UNCHANGED <<ren, sub, checkout, meanwhile>>,
         pay'[k].status = pay[k].status, pay'[k].bound = pay[k].bound,
         pay'[k].same = pay[k].same,
         pay'[k].provider \in {pay[k].provider, "unknown", "creating"},
         op'[k].status \in {"PENDING", "UNKNOWN", "FAILED"} \/ op'[k] = op[k],
         \/ k \in charges <=> k \in charges'
         \/ op'[k].status \in {"PENDING", "PROCESSING", "UNKNOWN"},
         prov'[k] = prov[k] \/ prov[k] = "none",
         KeyAgrees(k)', OthersStay(k)
  PROVE  IInv'
<1>1. Open(k) => Open(k)'
  BY DEF Open, Carried
<1>2. Refused(k) => Refused(k)'
  BY DEF Refused
<1>3. RenMove(k)
  BY <1>1, <1>2, RenSame
<1>4. PayMove(k)
  BY DEF PayMove, Resumable
<1>5. ConsentVoid'
  BY DEF IInv, ConsentVoid, Withdrawn
<1> QED
  BY <1>3, <1>4, <1>5, KeyStep

\* Its operation is given up or has an unknown end.
LEMMA OpEnds ==
  ASSUME IInv, NEW k \in Keys, Fence(k) \/ \E b \in BOOLEAN : SettleUnknown(k, b)
  PROVE  /\ op' \in [Keys -> OpType] /\ op'[k].status \in {"FAILED", "UNKNOWN"}
         /\ \A l \in Keys \ {k} : op'[l] = op[l] /\ pay'[l] = pay[l]
         /\ pay' \in [Keys -> PayType] /\ UNCHANGED <<ren, checkout>>
         /\ pay'[k].status = pay[k].status /\ pay'[k].bound = pay[k].bound
         /\ pay'[k].same = pay[k].same /\ pay'[k].provider \in {pay[k].provider, "unknown"}
<1>0. TypeOK /\ op \in [Keys -> OpType] /\ pay \in [Keys -> PayType]
  BY Types DEF IInv
<1>1. CASE Fence(k)
  BY <1>0, <1>1, OpStatus DEF Fence, OpOnly
<1>2. ASSUME NEW b \in BOOLEAN, SettleUnknown(k, b)
      PROVE  /\ op' \in [Keys -> OpType] /\ op'[k].status = "UNKNOWN"
             /\ \A l \in Keys \ {k} : op'[l] = op[l]
             /\ PayOnly(k, pay[k].status, "unknown", pay[k].bound)
             /\ UNCHANGED <<ren, checkout>>
  <2>1. op' = [op EXCEPT ![k].status = "UNKNOWN", ![k].known = @ \/ b]
    BY <1>2 DEF SettleUnknown
  <2>2. op' \in [Keys -> OpType] /\ op'[k].status = "UNKNOWN"
        /\ \A l \in Keys \ {k} : op'[l] = op[l]
    BY <1>0, <2>1 DEF OpType
  <2> QED
    BY <1>0, <1>2, <2>2, PayProvider DEF SettleUnknown
<1> QED
  BY <1>1, <1>2 DEF PayOnly

\* The request is too old to be sent: the charge is closed, the renewal paused.
LEMMA CloseStep ==
  ASSUME IInv, NEW k \in Keys, CloseExpired(k), pay[k].status = "PENDING", ~pay[k].bound,
         UNCHANGED <<sub, over, expired, aged, prov, tariff, user, acts>>,
         charges' \subseteq Keys, \A l \in Keys \ {k} : l \in charges <=> l \in charges',
         Fault \/ faults' = faults, job' = job \/ Leaves(k)
  PROVE  IInv'
<1>0. /\ TypeOK /\ op \in [Keys -> OpType] /\ pay \in [Keys -> PayType] /\ sub \in Nat
      /\ KeyAgrees(k) /\ ren \in RenType
  BY Types, KeyInv DEF IInv
<1>1. /\ op' \in [Keys -> OpType] /\ op'[k].status \in {"NONE", "FAILED"}
      /\ \A l \in Keys \ {k} : op'[l] = op[l]
  <2>1. CASE op[k].status = "NONE"
    BY <1>0, <2>1 DEF CloseExpired
  <2>2. CASE op[k].status # "NONE"
    BY <1>0, <2>2, OpStatus DEF CloseExpired, OpOnly
  <2> QED
    BY <2>1, <2>2
<1>2. PayOnly(k, "CANCELLED", "not_sent", pay[k].bound)
  BY <1>0, PayClosed DEF CloseExpired
<1>3. /\ ren' \in RenType /\ ren'.status = "TECHNICAL_PAUSE" /\ ren'.retry = FALSE
  BY <1>0, PausedFacts DEF CloseExpired
<1>4. checkout' \in CheckoutType
  BY <1>0, DisablesFacts DEF CloseExpired
<1>5. /\ job' \in [Keys -> JobType] /\ (job'[k].step = "answered" => job'[k] = job[k])
      /\ \A l \in Keys \ {k} : job'[l] = job[l]
  BY <1>0, LeavesFacts, Types DEF JobOnly
<1>6. TypeOK'
  <2>1. /\ pay' \in [Keys -> PayType] /\ sub' \in Nat /\ over' \in BOOLEAN
        /\ prov' \in [Keys -> Outcomes \cup {"none"}]
    BY <1>0, <1>2 DEF TypeOK, PayOnly
  <2> QED
    BY <1>0, <1>1, <1>3, <1>4, <1>5, <2>1, KeyTypes
<1>7. RenMove(k)
  BY <1>0, <1>3 DEF RenMove, Live, user
<1>8. PayMove(k)
  BY <1>2, <1>3 DEF PayMove, PayOnly, Live
<1>9. KeyAgrees(k)'
  BY <1>0, <1>1, <1>2, <1>5 DEF KeyAgrees, PayOnly
<1>10. OthersStay(k)
  BY <1>1, <1>2, <1>5 DEF OthersStay, PayOnly
<1>11. ConsentVoid'
  BY <1>3 DEF ConsentVoid, Withdrawn
<1> QED
  BY <1>6, <1>7, <1>8, <1>9, <1>10, <1>11, KeyStep

\* A refusal, or the finding that nothing was sent, closes the charge.
LEMMA RefusalStep ==
  ASSUME IInv, NEW k \in Keys, NEW v \in {"rejected", "not_found"},
         NEW reason, reason # "retryable", pay[k].status = "PENDING",
         pay' = [pay EXCEPT ![k].status = "CANCELLED", ![k].provider = v],
         op' = [op EXCEPT ![k].status = "FAILED"],
         ApplyRecurringCancellation(k, reason), job' = job \/ Leaves(k),
         UNCHANGED <<sub, over, queue, prov, world>>
  PROVE  IInv'
<1>0. TypeOK /\ KeyAgrees(k)
  BY KeyInv DEF IInv
<1>1. OpOnly(k, "FAILED", op[k].attempt)
  BY <1>0, OpStatus
<1>2. PayOnly(k, "CANCELLED", v, pay[k].bound)
  BY <1>0, PayClosed
<1>3. /\ ren' \in RenType /\ checkout' \in CheckoutType /\ ConsentVoid' /\ RenMove(k)
  <2>1. UNCHANGED <<sub, meanwhile, prov>>
    BY DEF world, user
  <2> QED
    BY <1>2, <2>1, CancelFacts DEF PayOnly
<1>4. /\ job' \in [Keys -> JobType] /\ (job'[k].step = "answered" => job'[k] = job[k])
      /\ \A l \in Keys \ {k} : job'[l] = job[l]
  BY <1>0, LeavesFacts, Types DEF JobOnly
<1>5. TypeOK'
  <2>1. /\ sub' \in Nat /\ over' \in BOOLEAN /\ charges' \subseteq Keys
        /\ prov' \in [Keys -> Outcomes \cup {"none"}]
        /\ UNCHANGED <<expired, aged, tariff, user, acts, faults>>
    BY <1>0 DEF TypeOK, queue, world
  <2> QED
    BY <1>0, <1>1, <1>2, <1>3, <1>4, <2>1, KeyTypes DEF PayOnly, OpOnly
<1>6. PayMove(k)
  BY <1>2 DEF PayMove, PayOnly, Resumable
<1>7. KeyAgrees(k)'
  BY <1>0, <1>1, <1>2, <1>4 DEF KeyAgrees, PayOnly, OpOnly
<1>8. OthersStay(k)
  BY <1>1, <1>2, <1>4 DEF OthersStay, PayOnly, OpOnly, queue
<1> QED
  BY <1>3, <1>5, <1>6, <1>7, <1>8, KeyStep

\* The charge request is delivered.
LEMMA DeliverStep ==
  ASSUME IInv, NEW k \in Keys, DeliverCharge(k) PROVE IInv'
<1>0. /\ TypeOK /\ KeyAgrees(k) /\ op \in [Keys -> OpType] /\ op[k] \in OpType
  BY KeyInv, Types DEF IInv
<1>1. /\ pay[k].status = "PENDING" /\ ~pay[k].bound
      /\ UNCHANGED <<sub, over, job, expired, aged, prov, tariff, user, acts>>
      /\ Fault \/ faults' = faults
  BY DEF DeliverCharge, Awaited
<1>2. charges' \subseteq Keys /\ \A l \in Keys \ {k} : l \in charges <=> l \in charges'
  BY <1>0 DEF TypeOK, DeliverCharge
<1>3. CASE CloseExpired(k)
  BY <1>1, <1>2, <1>3, CloseStep
<1>4. CASE /\ op' = IF op[k].status \in {"NONE", "FAILED"}
                    THEN [op EXCEPT ![k].status = "PENDING"] ELSE op
           /\ UNCHANGED <<pay, ren, checkout>>
  <2>1. /\ op' \in [Keys -> OpType] /\ \A l \in Keys \ {k} : op'[l] = op[l]
        /\ op'[k].status = "PENDING" \/ op'[k] = op[k]
        /\ op'[k].status \in {"PENDING", "PROCESSING", "UNKNOWN"}
    <3>1. CASE op[k].status \in {"NONE", "FAILED"}
      <4>1. OpOnly(k, "PENDING", op[k].attempt)
        BY <1>0, <1>4, <3>1, OpStatus
      <4> QED
        BY <4>1 DEF OpOnly
    <3>2. CASE op[k].status \notin {"NONE", "FAILED"}
      <4>1. op[k].status # "SUCCEEDED"
        BY <1>0, <1>1 DEF KeyAgrees
      <4>2. op[k].status \in {"PENDING", "PROCESSING", "UNKNOWN"}
        BY <1>0, <3>2, <4>1 DEF OpType
      <4> QED
        BY <1>0, <1>4, <3>2, <4>2
    <3> QED
      BY <3>1, <3>2
  <2>2. TypeOK'
    <3>1. /\ sub' \in Nat /\ over' \in BOOLEAN /\ ren' \in RenType /\ checkout' \in CheckoutType
          /\ prov' \in [Keys -> Outcomes \cup {"none"}]
          /\ pay' \in [Keys -> PayType] /\ job' \in [Keys -> JobType]
      BY <1>0, <1>1, <1>4, Types DEF TypeOK
    <3> QED
      BY <1>0, <1>1, <1>2, <2>1, <3>1, KeyTypes
  <2>3. KeyAgrees(k)'
    BY <1>0, <1>1, <1>4, <2>1 DEF KeyAgrees
  <2>4. OthersStay(k)
    BY <1>1, <1>2, <1>4, <2>1 DEF OthersStay
  <2>5. UNCHANGED <<ren, sub, checkout, meanwhile>>
    BY <1>1, <1>4 DEF user
  <2> QED
    BY <1>1, <1>4, <2>1, <2>2, <2>3, <2>4, <2>5, GoesOn
<1> QED
  BY <1>3, <1>4 DEF DeliverCharge

\* The worker fences its operation, looks the payment up or charges the method.
LEMMA DispatchStep ==
  ASSUME IInv, NEW k \in Keys, Dispatch(k) PROVE IInv'
<1>0. /\ TypeOK /\ KeyAgrees(k) /\ op \in [Keys -> OpType] /\ pay \in [Keys -> PayType]
      /\ prov \in [Keys -> Outcomes \cup {"none"}] /\ prov[k] \in Outcomes \cup {"none"}
      /\ sub \in Nat /\ over \in BOOLEAN /\ ren \in RenType /\ checkout \in CheckoutType
      /\ charges \subseteq Keys
  BY KeyInv, Types DEF IInv, TypeOK
<1>1. /\ UNCHANGED <<sub, over, charges, expired, aged, tariff, user, acts>>
      /\ meanwhile' = meanwhile
  BY DEF Dispatch, queue, user
<1>2. CASE /\ Fence(k) \/ SettleUnknown(k, FALSE)
           /\ Leaves(k) /\ UNCHANGED <<prov, faults>>
  <2>1. Fence(k) \/ \E b \in BOOLEAN : SettleUnknown(k, b)
    BY <1>2
  <2>2. /\ op' \in [Keys -> OpType] /\ op'[k].status \in {"FAILED", "UNKNOWN"}
        /\ \A l \in Keys \ {k} : op'[l] = op[l] /\ pay'[l] = pay[l]
        /\ pay' \in [Keys -> PayType] /\ UNCHANGED <<ren, checkout>>
        /\ pay'[k].status = pay[k].status /\ pay'[k].bound = pay[k].bound
        /\ pay'[k].same = pay[k].same /\ pay'[k].provider \in {pay[k].provider, "unknown"}
    BY <2>1, OpEnds
  <2>3. JobOnly(k, "idle", "")
    BY <1>0, <1>2, LeavesFacts
  <2>4. TypeOK'
    BY <1>0, <1>1, <1>2, <2>2, <2>3, KeyTypes DEF JobOnly
  <2>5. KeyAgrees(k)'
    BY <1>0, <1>2, <2>2, <2>3 DEF KeyAgrees, JobOnly
  <2>6. OthersStay(k)
    BY <1>1, <1>2, <2>2, <2>3 DEF OthersStay, JobOnly
  <2> QED
    BY <1>1, <1>2, <2>2, <2>4, <2>5, <2>6, GoesOn
<1>3. CASE /\ ~pay[k].bound /\ pay[k].status = "PENDING" /\ CloseExpired(k)
           /\ Leaves(k) /\ UNCHANGED <<prov, faults>>
  BY <1>0, <1>1, <1>3, CloseStep
<1>4. CASE /\ pay[k].status = "PENDING" /\ pay[k].bound
           /\ \/ Holds(k, "answered", prov[k]) /\ UNCHANGED faults
              \/ Fault /\ Holds(k, "failed", "lookup")
           /\ UNCHANGED <<op, pay, ren, checkout, prov>>
  <2>1. prov[k] \in Outcomes
    BY <1>0, <1>4 DEF KeyAgrees
  <2>2. "lookup" \in Outcomes \cup Errors
    BY DEF Errors
  <2>3. JobOnly(k, "answered", prov[k]) \/ JobOnly(k, "failed", "lookup")
    BY <1>0, <1>4, <2>1, <2>2, HoldsFacts
  <2>4. TypeOK'
    BY <1>0, <1>1, <1>4, <2>3, KeyTypes DEF JobOnly
  <2>5. KeyAgrees(k)'
    <3>1. job'[k].step = "answered" => job'[k].result = prov[k]
      BY <2>3 DEF JobOnly
    <3> QED
      BY <1>0, <1>4, <3>1 DEF KeyAgrees
  <2>6. OthersStay(k)
    BY <1>1, <1>4, <2>3 DEF OthersStay, JobOnly
  <2> QED
    BY <1>1, <1>4, <2>4, <2>5, <2>6, GoesOn
<1>5. CASE /\ pay[k].status = "PENDING" /\ ~pay[k].bound /\ Call(k)
           /\ UNCHANGED <<op, ren, checkout>>
  <2>1. Fault \/ faults' = faults
    BY <1>5 DEF Call
  <2>2. /\ prov' \in [Keys -> Outcomes \cup {"none"}]
        /\ prov'[k] = prov[k] \/ prov[k] = "none"
        /\ Post(k) => prov'[k] \in Outcomes
        /\ \A l \in Keys \ {k} : prov'[l] = prov[l]
    <3>1. CASE prov' = prov /\ ~Post(k)
      BY <1>0, <3>1
    <3>2. CASE Post(k) /\ prov[k] # "none"
      BY <1>0, <3>2 DEF Post
    <3>3. CASE Post(k) /\ prov[k] = "none"
      <4>1. PICK a \in Outcomes : prov' = [prov EXCEPT ![k] = a]
        BY <3>3 DEF Post
      <4> QED
        BY <1>0, <3>3, <4>1
    <3> QED
      BY <1>5, <3>1, <3>2, <3>3 DEF Call
  <2>3. /\ pay' \in [Keys -> PayType] /\ \A l \in Keys \ {k} : pay'[l] = pay[l]
        /\ pay'[k].status = pay[k].status /\ pay'[k].bound = pay[k].bound
        /\ pay'[k].same = pay[k].same /\ pay'[k].provider \in {pay[k].provider, "creating"}
    <3>1. CASE pay' = pay
      BY <1>0, <3>1
    <3>2. CASE pay' = [pay EXCEPT ![k].provider = "creating"]
      BY <1>0, <3>2, PayProvider DEF PayOnly
    <3> QED
      BY <1>5, <3>1, <3>2 DEF Call
  <2>4. \/ JobOnly(k, "answered", prov'[k]) /\ prov'[k] \in Outcomes
        \/ JobOnly(k, "idle", "") \/ \E e \in Errors : JobOnly(k, "failed", e)
    <3>1. CASE Post(k) /\ Holds(k, "answered", prov'[k])
      BY <1>0, <2>2, <3>1, HoldsFacts
    <3>2. CASE Leaves(k)
      BY <1>0, <3>2, LeavesFacts
    <3>3. ASSUME NEW e \in {"before", "retryable", "rejected", "after"}, Holds(k, "failed", e)
          PROVE  JobOnly(k, "failed", e) /\ e \in Errors
      <4>1. e \in Errors
        BY DEF Errors
      <4> QED
        BY <1>0, <3>3, <4>1, HoldsFacts
    <3> QED
      BY <1>5, <3>1, <3>2, <3>3 DEF Call
  <2>5. /\ job' \in [Keys -> JobType] /\ \A l \in Keys \ {k} : job'[l] = job[l]
        /\ job'[k].step = "answered" => prov'[k] \in Outcomes /\ job'[k].result = prov'[k]
    BY <2>4 DEF JobOnly
  <2>6. TypeOK'
    BY <1>0, <1>1, <1>5, <2>1, <2>2, <2>3, <2>5, KeyTypes
  <2>7. KeyAgrees(k)'
    <3>1. "none" \notin Outcomes
      BY DEF Outcomes
    <3> QED
      BY <1>0, <1>5, <2>2, <2>3, <2>5, <3>1 DEF KeyAgrees
  <2>8. OthersStay(k)
    BY <1>1, <1>5, <2>2, <2>3, <2>5 DEF OthersStay
  <2> QED
    BY <1>1, <1>5, <2>2, <2>3, <2>6, <2>7, <2>8, GoesOn
<1> QED
  BY <1>2, <1>3, <1>4, <1>5 DEF Dispatch, PaymentFenced

\* The worker has failed.
LEMMA FailureStep ==
  ASSUME IInv, NEW k \in Keys, HandleFailure(k) PROVE IInv'
<1>0. /\ TypeOK /\ KeyAgrees(k) /\ op \in [Keys -> OpType] /\ pay \in [Keys -> PayType]
      /\ prov \in [Keys -> Outcomes \cup {"none"}]
      /\ sub \in Nat /\ over \in BOOLEAN /\ ren \in RenType /\ checkout \in CheckoutType
      /\ charges \subseteq Keys
  BY KeyInv, Types DEF IInv, TypeOK
<1>1. /\ UNCHANGED <<sub, over, charges, expired, aged, prov, tariff, user, acts, faults>>
      /\ UNCHANGED <<sub, over, queue, prov, world>>
      /\ meanwhile' = meanwhile /\ Leaves(k)
  BY DEF HandleFailure, queue, world, user
<1>2. JobOnly(k, "idle", "")
  BY <1>0, <1>1, LeavesFacts
<1>3. ASSUME /\ op' \in [Keys -> OpType] /\ \A l \in Keys \ {k} : op'[l] = op[l]
             /\ op'[k].status \in {"PENDING", "UNKNOWN", "FAILED"} \/ op'[k] = op[k],
             /\ pay' \in [Keys -> PayType] /\ \A l \in Keys \ {k} : pay'[l] = pay[l]
             /\ pay'[k].status = pay[k].status /\ pay'[k].bound = pay[k].bound
             /\ pay'[k].same = pay[k].same
             /\ pay'[k].provider \in {pay[k].provider, "unknown"},
             UNCHANGED <<ren, checkout>>
      PROVE  IInv'
  <2>1. TypeOK'
    BY <1>0, <1>1, <1>2, <1>3, KeyTypes DEF JobOnly
  <2>2. KeyAgrees(k)'
    BY <1>0, <1>1, <1>2, <1>3 DEF KeyAgrees, JobOnly
  <2>3. OthersStay(k)
    BY <1>1, <1>2, <1>3 DEF OthersStay, JobOnly
  <2> QED
    BY <1>1, <1>3, <2>1, <2>2, <2>3, GoesOn
<1>4. CASE UNCHANGED <<op, pay, ren, checkout>>
  BY <1>0, <1>3, <1>4
<1>5. CASE /\ op[k].status = "PROCESSING"
           /\ op' = [op EXCEPT ![k].status = "PENDING",
                               ![k].attempt = IF job[k].result = "before" THEN @ - 1 ELSE @]
           /\ UNCHANGED <<pay, ren, checkout>>
  <2>1. op[k].attempt >= 1 /\ op[k].attempt \in Nat
    BY <1>0, <1>5 DEF KeyAgrees, OpType
  <2> DEFINE n == IF job[k].result = "before" THEN op[k].attempt - 1 ELSE op[k].attempt
  <2>2. n \in Nat
    BY <2>1
  <2>3. op' = [op EXCEPT ![k].status = "PENDING", ![k].attempt = n]
    BY <1>5
  <2> HIDE DEF n
  <2>4. /\ op' \in [Keys -> OpType] /\ \A l \in Keys \ {k} : op'[l] = op[l]
        /\ op'[k].status = "PENDING"
    BY <1>0, <2>2, <2>3 DEF OpType
  <2> QED
    BY <1>0, <1>3, <1>5, <2>4
<1>6. CASE /\ pay[k].status = "PENDING"
           /\ op' = [op EXCEPT ![k].status = "FAILED"]
           /\ pay' = [pay EXCEPT ![k].status = "CANCELLED", ![k].provider = "rejected"]
           /\ ApplyRecurringCancellation(k, "PROVIDER_REJECTED")
  BY <1>1, <1>6, RefusalStep
<1>7. CASE SettleUnknown(k, job[k].result = "after")
  <2>1. \E b \in BOOLEAN : SettleUnknown(k, b)
    BY <1>7
  <2>2. /\ op' \in [Keys -> OpType] /\ op'[k].status \in {"FAILED", "UNKNOWN"}
        /\ \A l \in Keys \ {k} : op'[l] = op[l] /\ pay'[l] = pay[l]
        /\ pay' \in [Keys -> PayType] /\ UNCHANGED <<ren, checkout>>
        /\ pay'[k].status = pay[k].status /\ pay'[k].bound = pay[k].bound
        /\ pay'[k].same = pay[k].same /\ pay'[k].provider \in {pay[k].provider, "unknown"}
    BY <2>1, OpEnds
  <2> QED
    BY <1>3, <2>2
<1> QED
  BY <1>4, <1>5, <1>6, <1>7 DEF HandleFailure

\* An operator finds that nothing was sent.
LEMMA ResolveStep ==
  ASSUME IInv, NEW k \in Keys, ResolveUnknown(k) PROVE IInv'
  BY RefusalStep DEF ResolveUnknown

\* The scheduler writes a charge: it is the one the renewal waits for, is new,
\* and nothing else is open.
LEMMA CreateStep ==
  ASSUME IInv, CreateIntent PROVE IInv'
<1>k. PICK k \in Keys : k = ScheduledKey
  BY DEF CreateIntent, InTime
<1>0. /\ TypeOK /\ ren \in RenType /\ sub \in Nat /\ pay \in [Keys -> PayType]
      /\ op \in [Keys -> OpType] /\ job \in [Keys -> JobType]
  BY Types DEF IInv
<1>1. /\ ren.status = "ACTIVE" /\ ren.cycle = sub /\ k \in Keys /\ Chargeable(k)
      /\ pay' = [pay EXCEPT ![k] = [NoPay EXCEPT !.status = "PENDING", !.same = TRUE]]
      /\ charges' = charges \cup {k} /\ ren' = [ren EXCEPT !.dispatch = TRUE]
      /\ over' = TRUE /\ expired' = expired \ {k}
      /\ UNCHANGED <<sub, op, job, aged, prov, checkout, world>>
  BY <1>k DEF CreateIntent, InTime, Due
<1>2. k = Current /\ k[1] = sub
  <2>1. ~ren.retry => ren.attempt = 0
    BY <1>1 DEF IInv, FirstAttempt, Live
  <2> QED
    BY <1>k, <1>1, <2>1 DEF ScheduledKey, Current
<1>3. k[1] \in Nat /\ \A l \in Keys : l[2] \in Nat
  BY <1>1, KeyFacts, BoundsAssumption
<1>4. ~Resumable(k)
  BY <1>0, <1>1, <1>2, <1>3 DEF IInv, PastCharges, Live
<1>5. /\ pay[k].status = "NONE" /\ \A l \in Keys : pay[l].status # "PENDING"
  BY <1>1, <1>4 DEF Chargeable, Blocking
<1> DEFINE p == [NoPay EXCEPT !.status = "PENDING", !.same = TRUE]
<1>6. /\ p \in PayType /\ p.status = "PENDING" /\ p.provider = "queued" /\ p.bound = FALSE
  BY DEF NoPay, PayType
<1>7. pay' = [pay EXCEPT ![k] = p]
  BY <1>1
<1> HIDE DEF p
<1>8. /\ pay' \in [Keys -> PayType] /\ pay'[k].status = "PENDING"
      /\ pay'[k].provider = "queued" /\ ~pay'[k].bound
      /\ \A l \in Keys \ {k} : pay'[l] = pay[l]
  BY <1>0, <1>1, <1>6, <1>7
<1>9. /\ ren' \in RenType /\ ren'.status = ren.status /\ ren'.retry = ren.retry
      /\ ren'.attempt = ren.attempt /\ ren'.cycle = ren.cycle /\ ren'.dispatch
      /\ Current' = Current
  BY <1>0, <1>1 DEF RenType, Current
<1>10. TypeOK'
  <2>1. over' \in BOOLEAN
    BY <1>1, Zenon
  <2>2. charges' \subseteq Keys /\ expired' \subseteq Keys
    BY <1>0, <1>1 DEF TypeOK
  <2> QED
    BY <1>0, <1>1, <1>8, <1>9, <2>1, <2>2 DEF TypeOK, RenType, PayType, world, user
<1>11. ConsentVoid' /\ InPeriod' /\ FirstAttempt'
  BY <1>1, <1>9 DEF IInv, ConsentVoid, InPeriod, FirstAttempt, Withdrawn
<1>12. PastCharges'
  <2>1. ~Resumable(k)'
    BY <1>8 DEF Resumable
  <2>2. \A l \in Keys \ {k} : Resumable(l)' => Resumable(l)
    BY <1>8 DEF Resumable
  <2>3. sub' = sub /\ sub \in Nat
    BY <1>0, <1>1
  <2>4. ASSUME NEW l \in Keys
        PROVE  /\ pay'[l].status # "NONE" => l[1] <= sub'
               /\ ren'.status \in Live /\ Resumable(l)' => l[1] < sub'
    <3>1. CASE l = k
      BY <1>2, <2>1, <2>3, <3>1
    <3>2. CASE l # k
      BY <1>8, <1>9, <2>2, <2>3, <3>2 DEF IInv, PastCharges
    <3> QED
      BY <3>1, <3>2
  <2> QED
    BY <2>4 DEF PastCharges
<1>13. ProviderAgrees'
  <2>1. KeyAgrees(k)
    BY <1>1, KeyInv
  <2>2. ASSUME NEW l \in Keys PROVE KeyAgrees(l)'
    <3>1. CASE l = k
      BY <1>1, <1>5, <1>8, <2>1, <3>1 DEF KeyAgrees
    <3>2. CASE l # k
      BY <1>1, <1>8, <3>2, KeyInv DEF KeyAgrees
    <3> QED
      BY <3>1, <3>2
  <2> QED
    BY <2>2 DEF ProviderAgrees, KeyAgrees
<1>14. EarlierRefused'
  <2>1. \A l \in Keys : Earlier(l, k) => prov[l] = "retryable"
    <3>1. CASE ren.retry
      BY <1>2, <3>1 DEF IInv, EarlierRefused
    <3>2. CASE ~ren.retry
      <4>1. k[2] = 0
        BY <1>k, <3>2 DEF ScheduledKey
      <4> QED
        BY <1>3, <4>1 DEF Earlier
    <3> QED
      BY <3>1, <3>2
  <2>2. \A j, l \in Keys : pay'[j].status # "NONE" /\ Earlier(l, j) => prov'[l] = "retryable"
    BY <1>1, <1>8, <2>1 DEF IInv, EarlierRefused
  <2> QED
    BY <1>1, <1>2, <1>9, <2>1, <2>2 DEF EarlierRefused, Earlier
<1>15. AwaitedIsOpen'
  <2>1. Open(k)'
    BY <1>1, <1>8 DEF Open, Carried
  <2>2. Current' = k
    BY <1>2, <1>9
  <2> QED
    BY <1>1, <2>1, <2>2 DEF AwaitedIsOpen, Open, Carried
<1>16. OneOpenCharge'
  BY <1>5, <1>8 DEF OneOpenCharge
<1> QED
  BY <1>10, <1>11, <1>12, <1>13, <1>14, <1>15, <1>16 DEF IInv

-----------------------------------------------------------------------------
\* Invariance

\* The first state: a renewal that is ACTIVE and no charge.
LEMMA InitInv ==
  ASSUME Init PROVE IInv
<1>1. 0 \in 0..Retries /\ 0 \in 0..MaxFaults /\ 0 \in 0..MaxEvents
  BY BoundsAssumption
<1>2. ren \in RenType /\ ren.status = "ACTIVE" /\ ~ren.dispatch /\ ~ren.retry /\ ren.attempt = 0
  BY <1>1 DEF Init, RenType, RenewalStatuses, Prices
<1>3. /\ pay \in [Keys -> PayType] /\ op \in [Keys -> OpType] /\ job \in [Keys -> JobType]
      /\ checkout \in CheckoutType /\ prov \in [Keys -> Outcomes \cup {"none"}]
  BY DEF Init, NoPay, NoOp, Idle, NoCheckout, PayType, OpType, JobType, CheckoutType, Prices
<1>4. \A k \in Keys : /\ pay[k].status = "NONE" /\ ~pay[k].bound /\ prov[k] = "none"
                      /\ pay[k].provider = "queued"
                      /\ op[k].status = "NONE" /\ job[k].step = "idle"
  BY DEF Init, NoPay, NoOp, Idle
<1>5. sub \in Nat /\ over \in BOOLEAN
  <2>1. sub \in Nat
    BY DEF Init
  <2>2. over \in BOOLEAN
    BY Zenon DEF Init
  <2> QED
    BY <2>1, <2>2
<1>6. TypeOK
  BY <1>1, <1>2, <1>3, <1>5
  DEF Init, TypeOK, RenType, PayType, OpType, JobType, CheckoutType, Prices
<1>7. ConsentVoid /\ InPeriod /\ FirstAttempt /\ AwaitedIsOpen
  BY <1>2 DEF ConsentVoid, InPeriod, FirstAttempt, AwaitedIsOpen, Withdrawn
<1>8. PastCharges /\ ProviderAgrees /\ EarlierRefused /\ OneOpenCharge
  BY <1>2, <1>4 DEF PastCharges, ProviderAgrees, EarlierRefused, OneOpenCharge, Resumable
<1> QED
  BY <1>6, <1>7, <1>8 DEF IInv

\* Every step keeps the invariant.
LEMMA StepInv ==
  ASSUME IInv, [Next]_vars PROVE IInv'
<1>1. ASSUME NEW k \in Keys,
             \/ DeliverCharge(k) \/ ProviderSettles(k) \/ Verify(k)
             \/ Claim(k) \/ Dispatch(k) \/ Apply(k) \/ HandleFailure(k) \/ Crash(k)
             \/ ResolveUnknown(k)
      PROVE  IInv'
  BY <1>1, DeliverStep, WorkerStep, AnswerStep, DispatchStep, FailureStep, ResolveStep
<1>2. CASE UNCHANGED vars
  <2>1. UNCHANGED <<ren, sub, over, pay, op, job, charges, expired, aged, prov, checkout,
                    tariff, identity, meanwhile, faults, acts>>
    BY <1>2 DEF vars, queue, world, user
  <2>2. TypeOK' /\ ConsentVoid'
    <3>1. TypeOK'
      <4>1. /\ TypeOK /\ ren' \in RenType /\ checkout' \in CheckoutType /\ sub' \in Nat
            /\ over' \in BOOLEAN
        BY <2>1, Types DEF IInv, TypeOK
      <4> QED
        BY <2>1, <4>1 DEF TypeOK, RenType, CheckoutType
    <3>2. ConsentVoid'
      BY <2>1 DEF IInv, ConsentVoid, Withdrawn
    <3> QED
      BY <3>1, <3>2
  <2>3. RenQuiet
    <3>1. sub \in Nat
      BY Types DEF IInv
    <3> QED
      BY <2>1, <3>1 DEF IInv, FirstAttempt, RenQuiet
  <2> QED
    BY <2>1, <2>2, <2>3, SamePay, QuietStep
<1> QED
  BY <1>1, <1>2, PauseStep, RevokeInvalidStep, CorrectDateStep, PriceStep, CreateStep,
     WithdrawStep, AdminPauseStep, AdminResumeStep, AdminExtendStep, OutsideStep,
     CheckoutPaidStep DEF Next

\* The inductive invariant holds, for any number of retries, charges, lost
\* answers, crashes and interventions.
LEMMA Invariance == Spec => []IInv
  BY InitInv, StepInv, PTL DEF Spec

\* Rows, operations, requests and answers have their types.
THEOREM TypeCorrect == Spec => []TypeOK
<1>1. IInv => TypeOK
  BY DEF IInv
<1> QED
  BY <1>1, Invariance, PTL

\* The end of a period is charged at most once: a later attempt of the same
\* period exists only when YooKassa has refused the earlier ones.
THEOREM ChargedOnce == Spec => []OneChargePerCycle
<1>1. ASSUME IInv PROVE OneChargePerCycle
  <2> SUFFICES ASSUME NEW k \in Keys, NEW l \in Keys, k[1] = l[1],
                      prov[k] \in {"pending", "succeeded"},
                      prov[l] \in {"pending", "succeeded"}
               PROVE  k = l
    BY DEF OneChargePerCycle
  <2>1. k[2] \in Nat /\ l[2] \in Nat /\ k = <<k[1], k[2]>> /\ l = <<l[1], l[2]>>
    BY KeyFacts, BoundsAssumption
  <2>2. pay[k].status # "NONE" /\ pay[l].status # "NONE"
    BY <1>1 DEF IInv, ProviderAgrees
  <2>3. ~(k[2] < l[2]) /\ ~(l[2] < k[2])
    BY <1>1, <2>2 DEF IInv, EarlierRefused, Earlier
  <2> QED
    BY <2>1, <2>3
<1> QED
  BY <1>1, Invariance, PTL

\* The scheduler never has two charges of the user open.
THEOREM OpenOnce == Spec => []OneOpenCharge
<1>1. IInv => OneOpenCharge
  BY DEF IInv
<1> QED
  BY <1>1, Invariance, PTL

\* A renewal that waits for its charge waits for something that goes on, but
\* for the three ways that strand it.
THEOREM WaitsForACharge == Spec => []DispatchIsCarried
<1>1. ASSUME IInv PROVE DispatchIsCarried
  BY <1>1 DEF IInv, AwaitedIsOpen, DispatchIsCarried, Live, Open, Refused, Stranded
<1> QED
  BY <1>1, Invariance, PTL

\* A renewal that was withdrawn comes back only by a later consent: nothing but
\* the payment of a checkout makes it ACTIVE again.
THEOREM StaysWithdrawn == Spec => NotReactivated
<1>1. ASSUME IInv, [Next]_vars, Withdrawn, ren'.status = "ACTIVE"
      PROVE  checkout.auto /\ ~checkout.withdrawn
  <2>0. /\ ren.status \in {"USER_DISABLED", "REVOKED"} /\ ren \in RenType /\ TypeOK
        /\ sub \in Nat
    BY <1>1, Types DEF Withdrawn, IInv
  <2>1. ren' # ren
    BY <1>1, <2>0
  <2>2. ~Due /\ ~InTime
    BY <2>0 DEF Due, InTime
  <2>3. CASE CheckoutPaid
    <3>1. Restarts
      BY <2>0, <2>1, <2>3 DEF CheckoutPaid
    <3> QED
      BY <1>1, <2>0, <3>1 DEF Restarts, IInv, ConsentVoid
  <2>4. ASSUME NEW k, NEW a, ApplyRecurringCancellation(k, a) PROVE ren' = ren
    BY <2>0, <2>4 DEF ApplyRecurringCancellation
  <2>5. ASSUME NEW k, NEW a, ApplyProviderResponse(k, a) PROVE ren'.status = ren.status
    <3>1. Reset([ren EXCEPT !.cycle = sub + 1]).status = ren.status
      BY <2>0 DEF Reset, RenType
    <3> QED
      BY <2>4, <2>5, <3>1
      DEF ApplyProviderResponse, ApplySuccess, BindProviderState, MarkProviderCancelled
  <2>6. ASSUME NEW k, CloseExpired(k) PROVE ren'.status # "ACTIVE"
    BY <2>0, <2>6, PausedFacts DEF CloseExpired
  <2>7. ASSUME NEW k \in Keys,
               \/ DeliverCharge(k) \/ ProviderSettles(k) \/ Verify(k)
               \/ Claim(k) \/ Dispatch(k) \/ Apply(k) \/ HandleFailure(k) \/ Crash(k)
               \/ ResolveUnknown(k) \/ DispatchDeadline(k) \/ WindowCloses(k)
        PROVE  FALSE
    <3>1. CASE DeliverCharge(k)
      BY <1>1, <2>1, <2>6, <3>1 DEF DeliverCharge
    <3>2. CASE Verify(k) \/ Apply(k)
      BY <1>1, <2>0, <2>5, <3>2 DEF Verify, Apply
    <3>3. CASE Dispatch(k)
      BY <1>1, <2>1, <2>6, <3>3 DEF Dispatch, Fence, SettleUnknown
    <3>4. CASE HandleFailure(k) \/ ResolveUnknown(k)
      BY <2>1, <2>4, <3>4 DEF HandleFailure, SettleUnknown, ResolveUnknown
    <3> QED
      BY <2>1, <2>7, <3>1, <3>2, <3>3, <3>4
      DEF ProviderSettles, Claim, Crash, DispatchDeadline, WindowCloses
  <2>8. ASSUME NEW s \in {"USER_DISABLED", "REVOKED"}, Withdraw(s) PROVE FALSE
    <3>1. Reset([ren EXCEPT !.status = s, !.method = FALSE]).status = s
      BY <2>0 DEF Reset, RenType
    <3> QED
      BY <1>1, <2>1, <2>8, <3>1 DEF Withdraw
  <2>9. ASSUME RevokeBeforeDeactivate \/ Reconcile PROVE FALSE
    BY <1>1, <2>0, <2>9 DEF RevokeBeforeDeactivate, Reconcile, RenType
  <2>10. ASSUME \/ ConfirmPrice \/ AdminPause \/ AdminResume \/ AdminExtend
                \/ \E p \in Prices : UpdatePrice(p)
         PROVE  FALSE
    BY <1>1, <2>0, <2>1, <2>10 DEF ConfirmPrice, AdminPause, AdminResume, AdminExtend,
       UpdatePrice, Withdrawn
  <2>11. ASSUME ApplyIdentity \/ CheckoutEnds \/ \E auto \in BOOLEAN : OpenCheckout(auto)
         PROVE  FALSE
    BY <2>1, <2>11 DEF ApplyIdentity, CheckoutEnds, OpenCheckout
  <2>12. ASSUME \/ PauseInvalid \/ RevokeInvalid \/ CorrectDate
                \/ RequirePriceConfirmation \/ PauseBlocked \/ CreateIntent
         PROVE  FALSE
    BY <2>2, <2>12 DEF PauseInvalid, RevokeInvalid, CorrectDate, RequirePriceConfirmation,
       PauseBlocked, CreateIntent
  <2> QED
    BY <1>1, <2>1, <2>3, <2>7, <2>8, <2>9, <2>10, <2>11, <2>12 DEF Next, vars
<1>2. IInv /\ [Next]_vars => [Withdrawn /\ ren'.status = "ACTIVE"
                                  => checkout.auto /\ ~checkout.withdrawn]_vars
  BY <1>1
<1> QED
  BY <1>2, Invariance, PTL DEF Spec, NotReactivated

\* A charge reaches YooKassa while the period it was scheduled for is the
\* current one, unless an administrator has intervened.
THEOREM SentInTime == Spec => ChargedAtTheEnd
<1>1. ASSUME IInv, [Next]_vars, NEW k \in Keys, prov[k] = "none", prov'[k] # "none"
      PROVE  sub = k[1] \/ meanwhile # {}
  <2>0. prov \in [Keys -> Outcomes \cup {"none"}]
    BY <1>1, Types DEF IInv
  <2>1. prov' # prov
    BY <1>1
  <2>2. ASSUME NEW l \in Keys, ProviderSettles(l) PROVE FALSE
    <3>1. PICK a \in Outcomes : prov' = [prov EXCEPT ![l] = a] /\ prov[l] = "pending"
      BY <2>2 DEF ProviderSettles
    <3> QED
      BY <1>1, <2>0, <3>1
  <2>3. ASSUME NEW l \in Keys, Dispatch(l) PROVE sub = k[1] \/ meanwhile # {}
    <3>1. ~RenewalFenced(l) /\ Post(l)
      BY <2>1, <2>3 DEF Dispatch, Call
    <3>2. l = k
      <4>1. CASE prov[l] # "none"
        BY <2>1, <3>1, <4>1 DEF Post
      <4>2. CASE prov[l] = "none"
        <5>1. PICK a \in Outcomes : prov' = [prov EXCEPT ![l] = a]
          BY <3>1, <4>2 DEF Post
        <5> QED
          BY <1>1, <2>0, <5>1
      <4> QED
        BY <4>1, <4>2
    <3>3. ren.status = "ACTIVE" /\ ren.dispatch /\ k = Current
      BY <3>1, <3>2 DEF RenewalFenced, Awaited
    <3> QED
      BY <1>1, <3>3, CurrentFacts DEF IInv, InPeriod
  <2>4. ASSUME NEW l \in Keys,
               \/ DeliverCharge(l) \/ Verify(l) \/ Claim(l) \/ Apply(l)
               \/ HandleFailure(l) \/ Crash(l) \/ ResolveUnknown(l)
               \/ DispatchDeadline(l) \/ WindowCloses(l)
        PROVE  FALSE
    BY <2>1, <2>4 DEF DeliverCharge, Verify, Claim, Apply, HandleFailure, Crash,
       ResolveUnknown, DispatchDeadline, WindowCloses
  <2>5. ASSUME \/ PauseInvalid \/ RevokeInvalid \/ CorrectDate
               \/ RequirePriceConfirmation \/ PauseBlocked \/ CreateIntent
               \/ \E s \in {"USER_DISABLED", "REVOKED"} : Withdraw(s)
        PROVE  FALSE
    BY <2>1, <2>5 DEF PauseInvalid, RevokeInvalid, CorrectDate, RequirePriceConfirmation,
       PauseBlocked, CreateIntent, Withdraw
  <2>6. ASSUME \/ ConfirmPrice \/ AdminPause \/ AdminResume \/ AdminExtend \/ Reconcile
               \/ \E p \in Prices : UpdatePrice(p)
               \/ RevokeBeforeDeactivate \/ ApplyIdentity
        PROVE  FALSE
    BY <2>1, <2>6 DEF ConfirmPrice, AdminPause, AdminResume, AdminExtend, Reconcile,
       UpdatePrice, RevokeBeforeDeactivate, ApplyIdentity
  <2>7. ASSUME \/ \E auto \in BOOLEAN : OpenCheckout(auto)
               \/ CheckoutEnds \/ CheckoutPaid
        PROVE  FALSE
    BY <2>1, <2>7 DEF OpenCheckout, CheckoutEnds, CheckoutPaid
  <2> QED
    BY <1>1, <2>1, <2>2, <2>3, <2>4, <2>5, <2>6, <2>7 DEF Next, vars
<1>2. IInv /\ [Next]_vars => [\A k \in Keys :
          prov[k] = "none" /\ prov'[k] # "none" => sub = k[1] \/ meanwhile # {}]_vars
  BY <1>1
<1> QED
  BY <1>2, Invariance, PTL DEF Spec, ChargedAtTheEnd

-----------------------------------------------------------------------------
\* The contract of a renewal

\* No payment becomes SUCCEEDED, and none stops being it.
LEMMA CreditKept ==
  ASSUME \A k \in Keys : (pay'[k].status = "SUCCEEDED") <=> (pay[k].status = "SUCCEEDED")
  PROVE  Credited' = Credited
  BY DEF Credited

\* A step that leaves money, credits and periods alone, and a withdrawal be.
LEMMA Changes ==
  ASSUME UNCHANGED <<prov, sub, acts>> \/ (UNCHANGED <<prov, sub>> /\ Act),
         Credited' = Credited, Withdrawn => Withdrawn'
  PROVE  Contract!Change
<1>1. acts' \in {acts, acts + 1} /\ UNCHANGED <<prov, sub>>
  BY DEF Act
<1>2. /\ Mode = "withdrawn" => Mode' = "withdrawn"
      /\ Mode' \in {"on", "paused", "withdrawn"}
  BY DEF Mode, Withdrawn
<1> QED
  BY <1>1, <1>2 DEF Contract!Change

\* The scheduler looks at a renewal that is on.
LEMMA ContractScheduler ==
  ASSUME IInv, \/ PauseInvalid \/ RevokeInvalid \/ CorrectDate
               \/ RequirePriceConfirmation \/ PauseBlocked \/ CreateIntent
  PROVE  Contract!Change
<1>1. ~Withdrawn
  BY DEF Withdrawn, Due, InTime, PauseInvalid, RevokeInvalid, CorrectDate,
     RequirePriceConfirmation, PauseBlocked, CreateIntent
<1>2. CASE CreateIntent
  <2>1. /\ pay' = [pay EXCEPT ![ScheduledKey] = [NoPay EXCEPT !.status = "PENDING", !.same = TRUE]]
        /\ ScheduledKey \in Keys /\ pay[ScheduledKey].status # "SUCCEEDED"
    BY <1>2 DEF CreateIntent, InTime, Chargeable, Resumable
  <2>2. pay \in [Keys -> PayType]
    BY Types DEF IInv
  <2>3. \A k \in Keys : (pay'[k].status = "SUCCEEDED") <=> (pay[k].status = "SUCCEEDED")
    BY <2>1, <2>2 DEF NoPay
  <2>4. Credited' = Credited
    BY <2>3, CreditKept
  <2>5. UNCHANGED <<prov, sub, acts>>
    BY <1>2 DEF CreateIntent, world
  <2> QED
    BY <1>1, <2>4, <2>5, Changes
<1>3. CASE ~CreateIntent
  <2>1. UNCHANGED <<prov, sub, acts>> \/ (UNCHANGED <<prov, sub>> /\ Act)
    BY <1>3 DEF PauseInvalid, RevokeInvalid, CorrectDate, RequirePriceConfirmation,
       PauseBlocked, world
  <2>2. pay' = pay
    BY <1>3 DEF PauseInvalid, RevokeInvalid, CorrectDate, RequirePriceConfirmation,
       PauseBlocked
  <2>3. Credited' = Credited
    BY <2>2, CreditKept
  <2> QED
    BY <1>1, <2>1, <2>3, Changes
<1> QED
  BY <1>2, <1>3

\* A payment that was open is closed or stays open.
LEMMA StaysUnpaid ==
  ASSUME TypeOK, NEW k \in Keys, pay[k].status = "PENDING",
         NEW s \in {"PENDING", "CANCELLED"}, NEW v, NEW b, PayOnly(k, s, v, b)
  PROVE  Credited' = Credited
<1>1. \A l \in Keys : (pay'[l].status = "SUCCEEDED") <=> (pay[l].status = "SUCCEEDED")
  BY DEF PayOnly
<1> QED
  BY <1>1, CreditKept

\* A refusal ends a renewal that is on, and leaves a withdrawn one.
LEMMA RefusalKeepsWithdrawn ==
  ASSUME NEW k, NEW reason, ApplyRecurringCancellation(k, reason)
  PROVE  Withdrawn => Withdrawn'
  BY DEF ApplyRecurringCancellation, Withdrawn

\* A step of a charge that writes only the payment's state and the operation's.
LEMMA ContractCharge ==
  ASSUME IInv, NEW k \in Keys,
         \/ DeliverCharge(k) \/ HandleFailure(k) \/ ResolveUnknown(k)
         \/ Claim(k) \/ Crash(k) \/ DispatchDeadline(k) \/ WindowCloses(k)
  PROVE  Contract!Change
<1>0. TypeOK /\ pay \in [Keys -> PayType]
  BY Types DEF IInv
<1>1. UNCHANGED <<prov, sub, acts>>
  <2>1. CASE DeliverCharge(k) \/ HandleFailure(k) \/ ResolveUnknown(k)
    BY <2>1 DEF DeliverCharge, HandleFailure, ResolveUnknown, world
  <2> QED
    BY <2>1 DEF Claim, Crash, DispatchDeadline, WindowCloses, world
<1>2. CASE pay' = pay /\ ren' = ren
  <2>1. Credited' = Credited
    BY <1>2, CreditKept
  <2> QED
    BY <1>1, <1>2, <2>1, Changes DEF Withdrawn
<1>3. CASE DeliverCharge(k) /\ CloseExpired(k)
  <2>1. ~Withdrawn /\ pay[k].status = "PENDING"
    BY <1>3 DEF DeliverCharge, Awaited, Withdrawn
  <2>2. PayOnly(k, "CANCELLED", "not_sent", pay[k].bound)
    BY <1>0, <1>3, PayClosed DEF CloseExpired
  <2>3. Credited' = Credited
    BY <1>0, <2>1, <2>2, StaysUnpaid
  <2> QED
    BY <1>1, <2>1, <2>3, Changes
<1>4. CASE /\ pay[k].status = "PENDING"
           /\ \E v \in {"rejected", "not_found"} :
                pay' = [pay EXCEPT ![k].status = "CANCELLED", ![k].provider = v]
           /\ \E reason \in {"PROVIDER_REJECTED", "MANUAL_UNKNOWN_PROVIDER"} :
                ApplyRecurringCancellation(k, reason)
  <2>1. \E v \in {"rejected", "not_found"} : PayOnly(k, "CANCELLED", v, pay[k].bound)
    BY <1>0, <1>4, PayClosed
  <2>2. Credited' = Credited
    BY <1>0, <1>4, <2>1, StaysUnpaid
  <2>3. Withdrawn => Withdrawn'
    BY <1>4, RefusalKeepsWithdrawn
  <2> QED
    BY <1>1, <2>2, <2>3, Changes
<1>5. CASE pay[k].status = "PENDING" /\ \E b \in BOOLEAN : SettleUnknown(k, b)
  <2>1. pay' = [pay EXCEPT ![k].provider = "unknown"] /\ ren' = ren
    BY <1>5 DEF SettleUnknown
  <2>2. PayOnly(k, pay[k].status, "unknown", pay[k].bound)
    BY <1>0, <2>1, PayProvider
  <2>3. Credited' = Credited
    BY <1>0, <1>5, <2>2, StaysUnpaid
  <2> QED
    BY <1>1, <2>1, <2>3, Changes DEF Withdrawn
<1>6. CASE DeliverCharge(k)
  BY <1>2, <1>3, <1>6 DEF DeliverCharge
<1>7. CASE HandleFailure(k)
  <2>1. (job[k].result = "after") \in BOOLEAN
    OBVIOUS
  <2> QED
    BY <1>2, <1>4, <1>5, <1>7, <2>1 DEF HandleFailure
<1>8. CASE ResolveUnknown(k)
  BY <1>4, <1>8 DEF ResolveUnknown
<1>9. CASE Claim(k) \/ Crash(k) \/ DispatchDeadline(k) \/ WindowCloses(k)
  BY <1>2, <1>9 DEF Claim, Crash, DispatchDeadline, WindowCloses
<1> QED
  BY <1>6, <1>7, <1>8, <1>9

\* An answer credits the charge that was paid, once, or ends it.
LEMMA ContractAnswer ==
  ASSUME IInv, NEW k \in Keys, Verify(k) \/ Apply(k)
  PROVE  Contract!Credit(k) \/ Contract!Change
<1>0. /\ TypeOK /\ pay \in [Keys -> PayType] /\ ren \in RenType /\ KeyAgrees(k)
      /\ sub \in Nat
  BY Types, KeyInv DEF IInv
<1>1. PICK a : a \in {"pending", prov[k]} /\ ApplyProviderResponse(k, a)
  BY <1>0 DEF Verify, Apply, KeyAgrees
<1>2. UNCHANGED <<prov, acts>>
  BY DEF Verify, Apply
<1>3. CASE UNCHANGED <<pay, ren, sub>>
  <2>1. Credited' = Credited
    BY <1>3, CreditKept
  <2> QED
    BY <1>2, <1>3, <2>1, Changes DEF Withdrawn
<1>4. CASE a = "succeeded" /\ pay[k].status # "SUCCEEDED"
  <2>1. /\ pay' = [pay EXCEPT ![k].status = "SUCCEEDED",
                              ![k].provider = "succeeded", ![k].bound = TRUE]
        /\ sub' = sub + 1 /\ ren' = Reset([ren EXCEPT !.cycle = sub + 1])
        /\ UNCHANGED checkout
    BY <1>1, <1>4 DEF ApplyProviderResponse, ApplySuccess
  <2>2. PayOnly(k, "SUCCEEDED", "succeeded", TRUE)
    BY <1>0, <2>1, PayBound
  <2>3. Credited' = Credited \cup {k} /\ k \notin Credited
    BY <1>4, <2>2 DEF PayOnly, Credited
  <2>4. ren'.status = ren.status
    <3>1. /\ [ren EXCEPT !.cycle = sub + 1] \in RenType
          /\ [ren EXCEPT !.cycle = sub + 1].status = ren.status
      BY <1>0 DEF RenType
    <3> QED
      BY <2>1, <3>1, ResetFacts
  <2>5. Mode' = Mode
    BY <2>4 DEF Mode, Withdrawn
  <2>6. prov[k] = "succeeded"
    BY <1>1, <1>4
  <2> QED
    BY <1>2, <2>1, <2>3, <2>5, <2>6 DEF Contract!Credit
<1>5. CASE a = "pending"
  <2>1. pay' = [pay EXCEPT ![k].provider = "pending", ![k].bound = TRUE]
        /\ UNCHANGED <<ren, sub>>
    BY <1>1, <1>5 DEF ApplyProviderResponse, BindProviderState
  <2>2. \A l \in Keys : pay'[l].status = pay[l].status
    BY <1>0, <2>1 DEF PayType
  <2>3. Credited' = Credited
    BY <2>2, CreditKept
  <2> QED
    BY <1>2, <2>1, <2>3, Changes DEF Withdrawn
<1>6. CASE /\ a \notin {"succeeded", "pending"}
           /\ ~(\/ pay[k].status = "SUCCEEDED"
                \/ pay[k].status = "CANCELLED" /\ pay[k].provider = "canceled")
  <2>1. /\ pay' = [pay EXCEPT ![k].status = "CANCELLED",
                              ![k].provider = "canceled", ![k].bound = TRUE]
        /\ sub' = sub /\ ApplyRecurringCancellation(k, a)
    BY <1>1, <1>6 DEF ApplyProviderResponse, MarkProviderCancelled
  <2>2. PayOnly(k, "CANCELLED", "canceled", TRUE)
    BY <1>0, <2>1, PayBound
  <2>3. Credited' = Credited
    BY <1>6, <2>2 DEF PayOnly, Credited
  <2>4. Withdrawn => Withdrawn'
    BY <2>1, RefusalKeepsWithdrawn
  <2> QED
    BY <1>2, <2>1, <2>3, <2>4, Changes
<1> QED
  BY <1>1, <1>3, <1>4, <1>5, <1>6
  DEF ApplyProviderResponse, ApplySuccess, MarkProviderCancelled

\* The worker charges the method while the renewal is on, or stops.
LEMMA ContractDispatch ==
  ASSUME IInv, NEW k \in Keys, Dispatch(k)
  PROVE  Contract!Charge(k) \/ Contract!Change
<1>0. /\ TypeOK /\ pay \in [Keys -> PayType]
      /\ prov \in [Keys -> Outcomes \cup {"none"}]
  BY Types DEF IInv
<1>1. UNCHANGED <<sub, acts>>
  BY DEF Dispatch
<1>2. CASE UNCHANGED <<prov, pay, ren>>
  <2>1. Credited' = Credited
    BY <1>2, CreditKept
  <2> QED
    BY <1>1, <1>2, <2>1, Changes DEF Withdrawn
<1>3. CASE pay[k].status = "PENDING" /\ SettleUnknown(k, FALSE) /\ UNCHANGED prov
  <2>1. pay' = [pay EXCEPT ![k].provider = "unknown"] /\ ren' = ren
    BY <1>3 DEF SettleUnknown
  <2>2. PayOnly(k, pay[k].status, "unknown", pay[k].bound)
    BY <1>0, <2>1, PayProvider
  <2>3. Credited' = Credited
    BY <1>0, <1>3, <2>2, StaysUnpaid
  <2> QED
    BY <1>1, <1>3, <2>1, <2>3, Changes DEF Withdrawn
<1>4. CASE /\ pay[k].status = "PENDING" /\ ~RenewalFenced(k) /\ CloseExpired(k)
           /\ UNCHANGED prov
  <2>1. ~Withdrawn
    BY <1>4 DEF RenewalFenced, Awaited, Withdrawn
  <2>2. PayOnly(k, "CANCELLED", "not_sent", pay[k].bound)
    BY <1>0, <1>4, PayClosed DEF CloseExpired
  <2>3. Credited' = Credited
    BY <1>0, <1>4, <2>2, StaysUnpaid
  <2> QED
    BY <1>1, <1>4, <2>1, <2>3, Changes
<1>5. CASE /\ pay[k].status = "PENDING" /\ ~RenewalFenced(k) /\ Call(k)
           /\ UNCHANGED <<ren, checkout>>
  <2>1. pay' = pay \/ pay' = [pay EXCEPT ![k].provider = "creating"]
    BY <1>5 DEF Call
  <2>2. Credited' = Credited
    <3>1. CASE pay' = [pay EXCEPT ![k].provider = "creating"]
      BY <1>0, <1>5, <3>1, PayProvider, StaysUnpaid
    <3> QED
      BY <2>1, <3>1, CreditKept
  <2>3. Mode' = Mode /\ Mode = "on"
    BY <1>5 DEF Mode, Withdrawn, RenewalFenced, Awaited
  <2>4. CASE prov' = prov
    BY <1>1, <1>5, <2>2, <2>4, Changes DEF Withdrawn
  <2>5. CASE prov' # prov
    <3>1. prov[k] = "none" /\ \E a \in Outcomes : prov' = [prov EXCEPT ![k] = a]
      BY <1>5, <2>5 DEF Call, Post
    <3>2. k[1] <= sub
      BY <1>5 DEF IInv, PastCharges
    <3>3. ASSUME NEW l \in Keys, l[1] = k[1]
          PROVE  prov[l] \notin {"pending", "succeeded"}
      <4>1. k[2] \in Nat /\ l[2] \in Nat /\ k = <<k[1], k[2]>> /\ l = <<l[1], l[2]>>
        BY KeyFacts, BoundsAssumption
      <4>2. CASE l = k
        BY <3>1, <4>2
      <4>3. CASE l[2] < k[2]
        <5>1. prov[l] = "retryable"
          BY <1>5, <3>3, <4>3 DEF IInv, EarlierRefused, Earlier
        <5> QED
          BY <5>1
      <4>4. CASE k[2] < l[2]
        <5>1. pay[l].status = "NONE"
          BY <3>1, <3>3, <4>4 DEF IInv, EarlierRefused, Earlier
        <5>2. prov[l] = "none"
          BY <5>1 DEF IInv, ProviderAgrees
        <5> QED
          BY <5>2
      <4> QED
        BY <3>3, <4>1, <4>2, <4>3, <4>4
    <3> QED
      BY <1>1, <1>5, <2>2, <2>3, <3>1, <3>2, <3>3 DEF Contract!Charge, Contract!Takes
  <2> QED
    BY <2>4, <2>5
<1>6. ~PaymentFenced(k) => pay[k].status = "PENDING"
  BY DEF PaymentFenced
<1>7. CASE \/ Fence(k) /\ UNCHANGED prov
           \/ UNCHANGED <<op, pay, ren, checkout, prov>>
  BY <1>2, <1>7 DEF Fence
<1> QED
  BY <1>3, <1>4, <1>5, <1>6, <1>7 DEF Dispatch

\* What the user, administrators and Identity do.
LEMMA ContractPeople ==
  ASSUME IInv,
         \/ \E s \in {"USER_DISABLED", "REVOKED"} : Withdraw(s)
         \/ ConfirmPrice \/ AdminPause \/ AdminResume \/ Reconcile
         \/ \E p \in Prices : UpdatePrice(p)
         \/ RevokeBeforeDeactivate \/ ApplyIdentity
         \/ \E auto \in BOOLEAN : OpenCheckout(auto)
         \/ CheckoutEnds
  PROVE  Contract!Change
<1>0. TypeOK /\ pay \in [Keys -> PayType] /\ ren \in RenType
  BY Types DEF IInv
<1>1. CASE \E s \in {"USER_DISABLED", "REVOKED"} : Withdraw(s)
  <2>1. PICK s \in {"USER_DISABLED", "REVOKED"} : Withdraw(s)
    BY <1>1
  <2>2. Credited' = Credited
    <3>1. \A k \in Keys : (pay'[k].status = "SUCCEEDED") <=> (pay[k].status = "SUCCEEDED")
      BY <1>0, <2>1 DEF Withdraw, ClearFuture, PayType
    <3> QED
      BY <3>1, CreditKept
  <2>3. Withdrawn => Withdrawn'
    <3>1. [ren EXCEPT !.status = s, !.method = FALSE] \in RenType
          /\ [ren EXCEPT !.status = s, !.method = FALSE].status = s
      BY <1>0 DEF RenType, RenewalStatuses
    <3>2. Reset([ren EXCEPT !.status = s, !.method = FALSE]).status = s
      BY <3>1, ResetFacts
    <3> QED
      BY <2>1, <3>2 DEF Withdraw, Withdrawn
  <2>4. UNCHANGED <<prov, sub>> /\ Act
    BY <2>1 DEF Withdraw
  <2> QED
    BY <2>2, <2>3, <2>4, Changes
<1>2. CASE RevokeBeforeDeactivate
  <2>1. Credited' = Credited
    <3>1. \A k \in Keys : (pay'[k].status = "SUCCEEDED") <=> (pay[k].status = "SUCCEEDED")
      BY <1>0, <1>2 DEF RevokeBeforeDeactivate, ClearFuture, PayType
    <3> QED
      BY <3>1, CreditKept
  <2>2. Withdrawn'
    BY <1>0, <1>2 DEF RevokeBeforeDeactivate, Withdrawn, RenType
  <2>3. UNCHANGED <<prov, sub>> /\ Act
    BY <1>2 DEF RevokeBeforeDeactivate
  <2> QED
    BY <2>1, <2>2, <2>3, Changes
<1>3. CASE ConfirmPrice
  <2>1. /\ pay' = [k \in Keys |-> [pay[k] EXCEPT !.same = FALSE]]
        /\ ~Withdrawn /\ UNCHANGED <<prov, sub>> /\ Act
    BY <1>3 DEF ConfirmPrice, Reconsent
  <2>2. \A k \in Keys : pay'[k].status = pay[k].status
    BY <1>0, <2>1 DEF PayType
  <2>3. Credited' = Credited
    BY <2>2, CreditKept
  <2> QED
    BY <2>1, <2>3, Changes
<1>4. CASE AdminPause \/ AdminResume
  <2>1. /\ pay' = pay /\ ~Withdrawn
        /\ UNCHANGED <<prov, sub, acts>> \/ (UNCHANGED <<prov, sub>> /\ Act)
    BY <1>4 DEF AdminPause, AdminResume, Withdrawn
  <2>2. Credited' = Credited
    BY <2>1, CreditKept
  <2> QED
    BY <2>1, <2>2, Changes
<1>5. CASE Reconcile
  <2>1. UNCHANGED <<prov, sub, acts, pay>>
    BY <1>5 DEF Reconcile, world
  <2>2. Withdrawn => Withdrawn'
    BY <1>0, <1>5 DEF Reconcile, Withdrawn, RenType
  <2>3. Credited' = Credited
    BY <2>1, CreditKept
  <2> QED
    BY <2>1, <2>2, <2>3, Changes
<1>6. CASE \/ \E p \in Prices : UpdatePrice(p)
           \/ ApplyIdentity \/ \E auto \in BOOLEAN : OpenCheckout(auto) \/ CheckoutEnds
  <2>1. /\ pay' = pay
        /\ UNCHANGED <<prov, sub, acts>> \/ (UNCHANGED <<prov, sub>> /\ Act)
    BY <1>6 DEF UpdatePrice, ApplyIdentity, OpenCheckout, CheckoutEnds, world
  <2>2. ren' = ren \/ ~Withdrawn
    BY <1>6 DEF UpdatePrice, ApplyIdentity, OpenCheckout, CheckoutEnds
  <2>3. Credited' = Credited
    BY <2>1, CreditKept
  <2> QED
    BY <2>1, <2>2, <2>3, Changes DEF Withdrawn
<1> QED
  BY <1>1, <1>2, <1>3, <1>4, <1>5, <1>6

\* A checkout is paid, or an administrator adds days.
LEMMA ContractExtends ==
  ASSUME IInv, CheckoutPaid \/ AdminExtend PROVE Contract!Buy \/ Contract!Give
<1>0. TypeOK /\ pay \in [Keys -> PayType] /\ ren \in RenType /\ sub \in Nat
  BY Types DEF IInv
<1>1. CASE AdminExtend
  <2>1. /\ UNCHANGED <<ren, pay, prov, checkout>> /\ sub' = sub + 1 /\ acts' = acts + 1
    BY <1>1 DEF AdminExtend, Act
  <2>2. Credited' = Credited /\ Mode' = Mode
    BY <2>1, CreditKept DEF Mode, Withdrawn
  <2> QED
    BY <2>1, <2>2 DEF Contract!Give
<1>2. CASE CheckoutPaid
  <2>1. /\ checkout.state # "none" /\ checkout' = NoCheckout /\ sub' = sub + 1
        /\ UNCHANGED <<prov, acts>>
    BY <1>2 DEF CheckoutPaid, world
  <2>2. checkout'.state = "none"
    BY <2>1 DEF NoCheckout
  <2>3. Credited' = Credited
    <3>1. pay' = pay \/ pay' = [k \in Keys |-> [pay[k] EXCEPT !.same = FALSE]]
      BY <1>2 DEF CheckoutPaid, Reconsent
    <3>2. \A k \in Keys : pay'[k].status = pay[k].status
      BY <1>0, <3>1 DEF PayType
    <3> QED
      BY <3>2, CreditKept
  <2>4. Mode' \in {Mode, "on"}
    <3>1. [ren EXCEPT !.cycle = sub + 1] \in RenType
          /\ [ren EXCEPT !.cycle = sub + 1].status = ren.status
      BY <1>0 DEF RenType
    <3>2. Reset([ren EXCEPT !.cycle = sub + 1]).status = ren.status
      BY <3>1, ResetFacts
    <3>3. ren'.status = "ACTIVE" \/ ren'.status = ren.status
      BY <1>2, <3>2 DEF CheckoutPaid
    <3> QED
      BY <3>3 DEF Mode, Withdrawn
  <2> QED
    BY <2>1, <2>2, <2>3, <2>4 DEF Contract!Buy
<1> QED
  BY <1>1, <1>2

\* The charge reaches its end at YooKassa.
LEMMA ContractSettle ==
  ASSUME NEW k \in Keys, ProviderSettles(k) PROVE Contract!Settle(k)
<1>1. UNCHANGED <<ren, sub, pay, checkout, acts>>
  BY DEF ProviderSettles, world
<1>2. Credited' = Credited /\ Mode' = Mode
  BY <1>1, CreditKept DEF Mode, Withdrawn
<1> QED
  BY <1>1, <1>2 DEF ProviderSettles, Contract!Settle

\* Every step is one of the contract, or none.
LEMMA ContractStep ==
  ASSUME IInv, [Next]_vars PROVE [Contract!Next]_(Contract!rvars)
<1>1. CASE UNCHANGED vars
  <2>1. UNCHANGED <<ren, sub, pay, prov, checkout, acts>>
    BY <1>1 DEF vars, world
  <2>2. Credited' = Credited /\ Mode' = Mode
    BY <2>1, CreditKept DEF Mode, Withdrawn
  <2> QED
    BY <2>1, <2>2 DEF Contract!rvars
<1>2. ASSUME NEW k \in Keys, Dispatch(k) PROVE Contract!Next
  BY <1>2, ContractDispatch DEF Contract!Next
<1>3. ASSUME NEW k \in Keys, Verify(k) \/ Apply(k) PROVE Contract!Next
  BY <1>3, ContractAnswer DEF Contract!Next
<1>4. ASSUME NEW k \in Keys, ProviderSettles(k) PROVE Contract!Next
  BY <1>4, ContractSettle DEF Contract!Next
<1>5. ASSUME NEW k \in Keys,
             \/ DeliverCharge(k) \/ HandleFailure(k) \/ ResolveUnknown(k)
             \/ Claim(k) \/ Crash(k) \/ DispatchDeadline(k) \/ WindowCloses(k)
      PROVE  Contract!Next
  BY <1>5, ContractCharge DEF Contract!Next
<1>6. ASSUME CheckoutPaid \/ AdminExtend PROVE Contract!Next
  BY <1>6, ContractExtends DEF Contract!Next
<1>7. ASSUME \/ PauseInvalid \/ RevokeInvalid \/ CorrectDate
             \/ RequirePriceConfirmation \/ PauseBlocked \/ CreateIntent
      PROVE  Contract!Next
  BY <1>7, ContractScheduler DEF Contract!Next
<1>8. ASSUME \/ \E s \in {"USER_DISABLED", "REVOKED"} : Withdraw(s)
             \/ ConfirmPrice \/ AdminPause \/ AdminResume \/ Reconcile
             \/ \E p \in Prices : UpdatePrice(p)
             \/ RevokeBeforeDeactivate \/ ApplyIdentity
             \/ \E auto \in BOOLEAN : OpenCheckout(auto)
             \/ CheckoutEnds
      PROVE  Contract!Next
  BY <1>8, ContractPeople DEF Contract!Next
<1> QED
  BY <1>1, <1>2, <1>3, <1>4, <1>5, <1>6, <1>7, <1>8 DEF Next

\* Scheduler, consumer, worker, notifications and people implement the contract
\* of a renewal: one charge for the end of a period, only while the renewal is
\* on, and one extension for each charge that was paid.
THEOREM ContractRefined == Spec => ImplementsContract
<1>1. Init => Contract!Init
  <2> SUFFICES ASSUME Init PROVE Contract!Init
    OBVIOUS
  <2>1. Credited = {}
    BY DEF Init, Credited, NoPay
  <2>2. Mode = "on"
    BY DEF Init, Mode
  <2> QED
    BY <2>1, <2>2 DEF Init, NoCheckout, Contract!Init
<1>2. IInv /\ [Next]_vars => [Contract!Next]_(Contract!rvars)
  BY ContractStep
<1> QED
  BY <1>1, <1>2, Invariance, PTL DEF Spec, ImplementsContract, Contract!Spec
====
