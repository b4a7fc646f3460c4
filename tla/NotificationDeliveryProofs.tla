--------------------- MODULE NotificationDeliveryProofs ---------------------
(***************************************************************************)
(* Proofs about NotificationDelivery, for any set of handlers and any      *)
(* bounds.                                                                 *)
(***************************************************************************)
EXTENDS NotificationDelivery, FiniteSetTheorems, TLAPS

\* A message is published only after the deadline of its token, so the
\* consumer never finds its own retry "not yet available".
MessagesDue ==
    LET Due == {NoToken} \cup passed IN
    /\ \A m \in queue : m.token \in Due
    /\ \A w \in Workers : worker[w].msg.token \in Due
    /\ \A row \in outbox :
         row.type # "dead" => row.msg.token \in Due \cup {row.gate}

\* The recovery row of a claim stays in the outbox until the lease is over.
RecoveryPending ==
    \A t \in keys : t # NoToken /\ t \notin passed =>
        \E row \in outbox : row.type = "recovery" /\ row.gate = t

\* A malformed message is never handled and never retried.
MalformedUnclaimed ==
    ~wellFormed =>
      /\ receipt.status \in {"ABSENT", "DEAD_LETTERED", "CLOSED_NO_RETRY"}
      /\ \A w \in Workers : worker[w] = Idle

ActiveIsOpen == failure.active # NoToken => failure.status = "OPEN"

\* Dead letters are published after their failure was reported.
DeadLettersReported ==
    /\ wellFormed /\ kind \in Tracked
    /\ dlq # {} \/ \E row \in outbox : row.type = "dead"
    => "FAILED" \in outcomes

Inv ==
    /\ Types /\ MessagesDue /\ RecoveryPending /\ ReceiptShape
    /\ MalformedUnclaimed /\ ActiveIsOpen /\ DeadLettersReported
    /\ NoLostNotification /\ FailureAgrees /\ OutcomesAgree

-----------------------------------------------------------------------------
(* The handler's record *)

\* Replacing one handler's record keeps the type and all other records.
LEMMA SetWorker ==
  ASSUME Types, NEW w \in Workers, NEW r \in Handlers,
         worker' = [worker EXCEPT ![w] = r]
  PROVE  /\ worker' \in [Workers -> Handlers]
         /\ worker'[w] = r
         /\ \A v \in Workers \ {w} : worker'[v] = worker[v]
  BY DEF Types

\* The record of an idle handler is well typed and carries no message.
LEMMA IdleType == Idle \in Handlers /\ Idle.pc = "idle" /\ Idle.msg = NoMessage
  BY DEF Idle, Handlers, NoMessage, Message, NoToken

-----------------------------------------------------------------------------
(* A handler that goes on to another step with its claim: the context      *)
(* call, the check, the send and its errors.                               *)

\* A handler that moves on inside deliver keeps the invariant.
LEMMA MoveInv ==
  ASSUME Inv, NEW w \in Workers, NEW s \in HolderSteps,
         NEW e \in Errors \cup {"none"},
         worker[w].pc \in HolderSteps, Move(w, s, e),
         UNCHANGED <<request, db, queue, dlq, time, budgets>>,
         faults' \in Nat, sends' \in Nat, ambiguous' \in Nat
  PROVE  Inv'
<1>. USE DEF Inv, request, db, time, budgets
<1>. DEFINE r == [worker[w] EXCEPT !.pc = s, !.err = e]
<1>1. worker[w] \in Handlers
  BY DEF Types
<1>2. /\ r \in Handlers /\ r.pc = s /\ r.msg = worker[w].msg
      /\ r.tok = worker[w].tok /\ r.late = worker[w].late
  BY <1>1 DEF Handlers
<1>3. worker' = [worker EXCEPT ![w] = r]
  BY DEF Move
<1>4. /\ worker' \in [Workers -> Handlers]
      /\ worker'[w] = r
      /\ \A v \in Workers \ {w} : worker'[v] = worker[v]
  BY <1>2, <1>3, SetWorker
<1>. HIDE DEF r
<1>5. Types'
  BY <1>4 DEF Types
<1>6. (MessagesDue /\ RecoveryPending /\ ReceiptShape)'
  BY <1>2, <1>4 DEF MessagesDue, RecoveryPending, ReceiptShape
<1>7. (MalformedUnclaimed /\ ActiveIsOpen /\ DeadLettersReported)'
  BY IdleType DEF MalformedUnclaimed, ActiveIsOpen, DeadLettersReported,
              HolderSteps
<1>8. NoLostNotification'
  BY <1>2, <1>4 DEF NoLostNotification, ClaimCarried, MessageComing,
     RetryComing, RetryRow, Holds, At, HolderSteps
<1>9. (FailureAgrees /\ OutcomesAgree)'
  BY DEF FailureAgrees, OutcomesAgree, Resolved
<1>. QED  BY <1>5, <1>6, <1>7, <1>8, <1>9

(* A handler whose message goes back to the queue. *)

\* nack with requeue keeps the invariant: the message is queued again.
LEMMA NackInv ==
  ASSUME Inv, NEW w \in Workers, worker[w].pc # "idle", Nack(w),
         UNCHANGED <<request, db, dlq, time, budgets>>,
         faults' \in Nat, sends' \in Nat, ambiguous' \in Nat
  PROVE  Inv'
<1>. USE DEF Inv, request, db, time, budgets
<1>1. worker[w] \in Handlers
  BY DEF Types
<1>2. /\ worker' \in [Workers -> Handlers]
      /\ worker'[w] = Idle
      /\ \A v \in Workers \ {w} : worker'[v] = worker[v]
  BY SetWorker, IdleType DEF Nack
<1>3. queue' = queue \cup {worker[w].msg}
  BY DEF Nack
<1>4. Types'
  BY <1>1, <1>2, <1>3 DEF Types, Handlers
<1>5. (MessagesDue /\ RecoveryPending /\ ReceiptShape)'
  BY <1>2, <1>3, IdleType
  DEF MessagesDue, RecoveryPending, ReceiptShape, NoMessage
<1>6. (MalformedUnclaimed /\ ActiveIsOpen /\ DeadLettersReported)'
  BY IdleType DEF MalformedUnclaimed, ActiveIsOpen, DeadLettersReported
<1>7. NoLostNotification'
  BY <1>2, <1>3 DEF NoLostNotification, ClaimCarried, MessageComing,
     RetryComing, RetryRow
<1>8. (FailureAgrees /\ OutcomesAgree)'
  BY DEF FailureAgrees, OutcomesAgree, Resolved
<1>. QED  BY <1>4, <1>5, <1>6, <1>7, <1>8

(* A handler that acknowledges its message although nothing is settled,    *)
(* because the notification does not depend on that message.               *)

\* An ack keeps the invariant when nothing waits for that message.
LEMMA AckInv ==
  ASSUME Inv, NEW w \in Workers, worker[w].pc # "idle", Ack(w),
         UNCHANGED <<request, db, dlq, time, faults, budgets, history>>,
         receipt.status = "ABSENT" => worker[w].pc \notin {"create", "read"},
         receipt.status = "PROCESSING" =>
            /\ worker[w].pc \in ClaimSteps \ {"create", "read"}
            /\ At(w, "reclaim") => worker[w].tok # receipt.lock
            /\ At(w, "recover") => \/ worker[w].tok # receipt.lock
                                   \/ receipt.lock \in keys,
         receipt.status = "RETRY_SCHEDULED" =>
            \/ worker[w].pc \notin {"create", "read", "activate"}
            \/ worker[w].msg # [token |-> receipt.retry,
                                attempt |-> receipt.attempt]
  PROVE  Inv'
<1>. USE DEF Inv, request, db, time, budgets, history
<1>1. /\ worker' \in [Workers -> Handlers]
      /\ worker'[w] = Idle
      /\ \A v \in Workers \ {w} : worker'[v] = worker[v]
  BY SetWorker, IdleType DEF Ack
<1>2. UNCHANGED queue
  BY DEF Ack
<1>3. Types'
  BY <1>1, <1>2 DEF Types
<1>4. (MessagesDue /\ RecoveryPending /\ ReceiptShape)'
  BY <1>1, <1>2, IdleType
  DEF MessagesDue, RecoveryPending, ReceiptShape, NoMessage
<1>5. (MalformedUnclaimed /\ ActiveIsOpen /\ DeadLettersReported)'
  BY IdleType DEF MalformedUnclaimed, ActiveIsOpen, DeadLettersReported
<1>6. NoLostNotification'
  BY <1>1, <1>2 DEF NoLostNotification, ClaimCarried, MessageComing,
     RetryComing, RetryRow, Holds, At, HolderSteps, ClaimSteps
<1>7. (FailureAgrees /\ OutcomesAgree)'
  BY DEF FailureAgrees, OutcomesAgree, Resolved
<1>. QED  BY <1>3, <1>4, <1>5, <1>6, <1>7

(* A handler that takes the claim under a fresh token. *)

\* Taking the claim under a fresh lock token keeps the invariant.
LEMMA ClaimInv ==
  ASSUME Inv, NEW w \in Workers, worker[w].pc \in ClaimSteps, Claim(w),
         receipt.status \in {"ABSENT", "PROCESSING", "RETRY_SCHEDULED"},
         UNCHANGED <<request, failure, outbox, keys, outcomes, queue, dlq,
                     time, faults, budgets, history>>
  PROVE  Inv'
<1>. USE DEF Inv, request, time, budgets, history
<1>. DEFINE r == [worker[w] EXCEPT !.pc = FirstStep, !.tok = next,
                                   !.late = NoToken]
<1>1. worker[w] \in Handlers /\ next \in Nat \ {0}
  BY DEF Types
<1>2. FirstStep \in HolderSteps
  BY DEF FirstStep, HolderSteps
<1>3. /\ r \in Handlers /\ r.pc = FirstStep /\ r.msg = worker[w].msg
      /\ r.tok = next
  BY <1>1, <1>2 DEF Handlers, NoToken
<1>4. worker' = [worker EXCEPT ![w] = r]
  BY DEF Claim
<1>5. /\ worker' \in [Workers -> Handlers]
      /\ worker'[w] = r
      /\ \A v \in Workers \ {w} : worker'[v] = worker[v]
  BY <1>3, <1>4, SetWorker
<1>. HIDE DEF r
<1>6. receipt' = Processing(next) /\ next' = next + 1
  BY DEF Claim
<1>7. Types'
  BY <1>1, <1>5, <1>6
  DEF Types, ReceiptRows, Statuses, Processing, NoToken
<1>8. (MessagesDue /\ RecoveryPending /\ ReceiptShape)'
  BY <1>1, <1>3, <1>5, <1>6
  DEF MessagesDue, RecoveryPending, ReceiptShape, Processing, NoToken
<1>9. (MalformedUnclaimed /\ ActiveIsOpen /\ DeadLettersReported)'
  BY IdleType DEF MalformedUnclaimed, ActiveIsOpen, DeadLettersReported,
              ClaimSteps
<1>10. NoLostNotification'
  BY <1>2, <1>3, <1>5, <1>6
  DEF NoLostNotification, ClaimCarried, Holds, Processing
<1>11. (FailureAgrees /\ OutcomesAgree)'
  BY <1>6 DEF FailureAgrees, OutcomesAgree, Resolved, Final, Processing
<1>. QED  BY <1>7, <1>8, <1>9, <1>10, <1>11

-----------------------------------------------------------------------------
(* Messages and time *)

\* Publishing a row, marked or not, moves its message and loses none.
LEMMA PublishInv ==
  ASSUME Inv, NEW row \in outbox, Available(row), Deliver(row),
         outbox' \in {outbox, outbox \ {row}}, faults' \in Nat,
         UNCHANGED <<request, receipt, failure, keys, outcomes, next, worker,
                     time, budgets, history>>
  PROVE  Inv'
<1>. USE DEF Inv, request, time, budgets, history
<1>1. row \in Row /\ row.msg \in Message
  BY DEF Types, Row
<1>2. Types'
  BY <1>1 DEF Types, Deliver
<1>3. MessagesDue'
  BY <1>1 DEF MessagesDue, Deliver, Available, Types
<1>4. RecoveryPending'
  BY DEF RecoveryPending, Available, NoToken
<1>5. (ReceiptShape /\ MalformedUnclaimed /\ ActiveIsOpen)'
  BY DEF ReceiptShape, MalformedUnclaimed, ActiveIsOpen
<1>6. DeadLettersReported'
  BY DEF DeadLettersReported, Deliver
<1>7. NoLostNotification'
  BY DEF NoLostNotification, ClaimCarried, MessageComing, RetryComing,
     RetryRow, Deliver, Holds, At
<1>8. (FailureAgrees /\ OutcomesAgree)'
  BY DEF FailureAgrees, OutcomesAgree, Resolved
<1>. QED  BY <1>2, <1>3, <1>4, <1>5, <1>6, <1>7, <1>8

\* A redelivery after a lost channel only adds a message.
LEMMA ChannelLostInv ==
  ASSUME Inv, NEW w \in Workers, ChannelLost(w)
  PROVE  Inv'
<1>. USE DEF Inv, ChannelLost, Fault, request, db, time, budgets, history
<1>1. Types'
  BY DEF Types, Handlers
<1>2. (MessagesDue /\ RecoveryPending /\ ReceiptShape)'
  BY DEF MessagesDue, RecoveryPending, ReceiptShape
<1>3. (MalformedUnclaimed /\ ActiveIsOpen /\ DeadLettersReported)'
  BY DEF MalformedUnclaimed, ActiveIsOpen, DeadLettersReported
<1>4. NoLostNotification'
  BY DEF NoLostNotification, ClaimCarried, MessageComing, RetryComing, RetryRow
<1>5. (FailureAgrees /\ OutcomesAgree)'
  BY DEF FailureAgrees, OutcomesAgree, Resolved
<1>. QED  BY <1>1, <1>2, <1>3, <1>4, <1>5

\* Passing deadlines alone keep the invariant.
LEMMA TimeInv ==
  ASSUME Inv, passed \subseteq passed', passed' \subseteq Nat,
         stale' \subseteq Nat, faults' \in Nat, ambiguous' \in Nat,
         UNCHANGED <<request, db, queue, dlq, worker, budgets, sends>>
  PROVE  Inv'
<1>. USE DEF Inv, request, db, budgets
<1>1. Types'
  BY DEF Types
<1>2. (MessagesDue /\ RecoveryPending /\ ReceiptShape)'
  BY DEF MessagesDue, RecoveryPending, ReceiptShape
<1>3. (MalformedUnclaimed /\ ActiveIsOpen /\ DeadLettersReported)'
  BY DEF MalformedUnclaimed, ActiveIsOpen, DeadLettersReported
<1>4. NoLostNotification'
  BY DEF NoLostNotification, ClaimCarried, MessageComing, RetryComing,
     RetryRow, Holds, At
<1>5. (FailureAgrees /\ OutcomesAgree)'
  BY DEF FailureAgrees, OutcomesAgree, Resolved
<1>. QED  BY <1>1, <1>2, <1>3, <1>4, <1>5

\* A deadline nobody holds may pass without stranding a claim.
LEMMA DeadlineInv ==
  ASSUME Inv,
         \/ \E t \in Awaited : DeadlinePasses(t)
         \/ \E w \in Workers : LeaseOverrun(w)
         \/ \E r \in passed : RetryOverdue(r)
  PROVE  Inv'
<1>0. Types
  BY DEF Inv
<1>1. Awaited \subseteq Nat
  BY <1>0 DEF Types, Awaited, ReceiptRows, Row
<1>2. ASSUME NEW t \in Awaited, DeadlinePasses(t) PROVE Inv'
  BY <1>0, <1>1, <1>2, TimeInv DEF DeadlinePasses, Types, budgets, history
<1>3. ASSUME NEW w \in Workers, LeaseOverrun(w) PROVE Inv'
  <2>1. ambiguous' \in Nat /\ faults' \in Nat
    BY <1>0, <1>3 DEF LeaseOverrun, Fault, Types
  <2>2. passed \subseteq passed' /\ passed' \subseteq Nat /\ stale' \subseteq Nat
    BY <1>0, <1>1, <1>3 DEF LeaseOverrun, Types
  <2>. QED  BY <1>3, <2>1, <2>2, TimeInv DEF LeaseOverrun, budgets
<1>4. ASSUME NEW r \in passed, RetryOverdue(r) PROVE Inv'
  BY <1>0, <1>4, TimeInv DEF RetryOverdue, Types, budgets, history
<1>. QED  BY <1>2, <1>3, <1>4

-----------------------------------------------------------------------------
(* claimDelivery *)

\* A handler that takes a message from the queue now accounts for it.
LEMMA TakeInv ==
  ASSUME Inv, NEW w \in Workers, NEW m \in queue, Take(w, m)
  PROVE  Inv'
<1>. USE DEF Inv, request, db, time, budgets, history
<1>. DEFINE l == IF receipt.lock \in passed THEN receipt.lock ELSE NoToken
            r == [Idle EXCEPT !.pc = "create", !.msg = m, !.late = l]
<1>1. m \in Message /\ l \in Nat
  BY DEF Types, ReceiptRows, NoToken
<1>2. /\ r \in Handlers /\ r.pc = "create" /\ r.msg = m
      /\ r.late = l
  BY <1>1 DEF Handlers, Idle, ClaimSteps, NoToken, NoMessage, Message
<1>3. worker' = [worker EXCEPT ![w] = r]
  BY DEF Take
<1>4. /\ worker' \in [Workers -> Handlers]
      /\ worker'[w] = r
      /\ \A v \in Workers \ {w} : worker'[v] = worker[v]
  BY <1>2, <1>3, SetWorker
<1>5. worker[w].pc = "idle" /\ queue' = queue \ {m} /\ wellFormed
  BY DEF Take, At
<1>6. UNCHANGED <<request, db, dlq, time, faults, budgets, history>>
  BY DEF Take
<1>. HIDE DEF r
<1>7. Types'
  BY <1>4, <1>5, <1>6 DEF Types
<1>8. (MessagesDue /\ RecoveryPending /\ ReceiptShape)'
  BY <1>2, <1>4, <1>5, <1>6 DEF MessagesDue, RecoveryPending, ReceiptShape
<1>9. (MalformedUnclaimed /\ ActiveIsOpen /\ DeadLettersReported)'
  BY <1>5, <1>6 DEF MalformedUnclaimed, ActiveIsOpen, DeadLettersReported
<1>10. NoLostNotification'
  <2>1. (receipt.status = "PROCESSING" => ClaimCarried(receipt.lock))'
    BY <1>2, <1>4, <1>5, <1>6 DEF NoLostNotification, ClaimCarried,
       MessageComing, RecoveryPending, ReceiptShape, Holds, At, HolderSteps
  <2>2. (receipt.status = "RETRY_SCHEDULED" => RetryComing)'
    BY <1>2, <1>4, <1>5, <1>6 DEF NoLostNotification, RetryComing, RetryRow
  <2>3. (receipt.status = "ABSENT" =>
           \/ MessageComing
           \/ \E v \in Workers : worker[v].pc \in {"create", "read"})'
    BY <1>2, <1>4, <1>6
  <2>. QED  BY <1>6, <2>1, <2>2, <2>3 DEF NoLostNotification
<1>11. (FailureAgrees /\ OutcomesAgree)'
  BY <1>6 DEF FailureAgrees, OutcomesAgree, Resolved
<1>. QED  BY <1>7, <1>8, <1>9, <1>10, <1>11

(* A handler that has found a receipt goes on to read it, or to activate   *)
(* the retry it matched.                                                   *)

\* A handler that moves on inside claimDelivery keeps the invariant.
LEMMA ClaimMoveInv ==
  ASSUME Inv, NEW w \in Workers, worker[w].pc \in {"create", "read"},
         receipt.status # "ABSENT",
         \/ Goto(w, "read")
         \/ Goto(w, "activate") /\ receipt.status = "RETRY_SCHEDULED",
         UNCHANGED <<request, db, queue, dlq, time, faults, budgets, history>>
  PROVE  Inv'
<1>. USE DEF Inv, request, db, time, budgets, history
<1>1. PICK s \in {"read", "activate"} :
        /\ Goto(w, s)
        /\ s = "activate" => receipt.status = "RETRY_SCHEDULED"
  OBVIOUS
<1>. DEFINE r == [worker[w] EXCEPT !.pc = s, !.err = "none"]
<1>2. worker[w] \in Handlers
  BY DEF Types
<1>3. /\ r \in Handlers /\ r.pc = s /\ r.msg = worker[w].msg
      /\ r.late = worker[w].late
  BY <1>2 DEF Handlers, ClaimSteps
<1>4. worker' = [worker EXCEPT ![w] = r]
  BY <1>1 DEF Goto, Move
<1>5. /\ worker' \in [Workers -> Handlers]
      /\ worker'[w] = r
      /\ \A v \in Workers \ {w} : worker'[v] = worker[v]
  BY <1>3, <1>4, SetWorker
<1>. HIDE DEF r
<1>6. Types'
  BY <1>5 DEF Types
<1>7. (MessagesDue /\ RecoveryPending /\ ReceiptShape)'
  BY <1>3, <1>5 DEF MessagesDue, RecoveryPending, ReceiptShape
<1>8. (MalformedUnclaimed /\ ActiveIsOpen /\ DeadLettersReported)'
  BY IdleType DEF MalformedUnclaimed, ActiveIsOpen, DeadLettersReported
<1>9. NoLostNotification'
  BY <1>1, <1>3, <1>5 DEF NoLostNotification, ClaimCarried, MessageComing,
     RetryComing, RetryRow, Holds, At, HolderSteps
<1>10. (FailureAgrees /\ OutcomesAgree)'
  BY DEF FailureAgrees, OutcomesAgree, Resolved
<1>. QED  BY <1>6, <1>7, <1>8, <1>9, <1>10

\* The create statement of claimDelivery keeps the invariant.
LEMMA ClaimCreateInv ==
  ASSUME Inv, NEW w \in Workers, ClaimCreate(w)
  PROVE  Inv'
<1>1. CASE receipt.status = "ABSENT"
  BY <1>1, ClaimInv DEF ClaimCreate, At, ClaimSteps
<1>2. CASE receipt.status # "ABSENT"
  BY <1>2, ClaimMoveInv DEF ClaimCreate, At, db
<1>. QED  BY <1>1, <1>2

\* The branches after the read of claimDelivery keep the invariant.
LEMMA ClaimReadInv ==
  ASSUME Inv, NEW w \in Workers, ClaimRead(w)
  PROVE  Inv'
<1>. USE DEF ClaimRead, At
<1>0. Types /\ worker[w] \in Handlers
  BY DEF Inv, Types
<1>1. CASE receipt.status = "ABSENT"
  BY <1>0, <1>1, NackInv DEF Types, budgets, history, Settled
<1>2. CASE receipt.status \in Settled
  BY <1>2, AckInv DEF Settled
<1>3. CASE receipt.status = "RETRY_SCHEDULED" /\ RetryMatches(w)
  BY <1>3, ClaimMoveInv DEF Settled
<1>4. CASE receipt.status = "RETRY_SCHEDULED" /\ ~RetryMatches(w)
  <2>1. worker[w].msg # [token |-> receipt.retry, attempt |-> receipt.attempt]
    BY <1>4 DEF Inv, RetryMatches, ReceiptShape, MessagesDue, NoToken
  <2>2. Ack(w)
    BY <1>4 DEF Settled
  <2>. QED  BY <1>4, <2>1, <2>2, AckInv
<1>5. CASE receipt.status = "PROCESSING"
  <2>. USE DEF Inv, request, db, time, budgets, history
  <2>. DEFINE s == IF worker[w].late = receipt.lock THEN "reclaim" ELSE "recover"
              r == [worker[w] EXCEPT !.pc = s, !.tok = receipt.lock,
                                     !.late = NoToken]
  <2>1. receipt.lock \in Nat /\ s \in ClaimSteps
    BY <1>0 DEF Types, ReceiptRows, ClaimSteps
  <2>2. /\ r \in Handlers /\ r.pc = s /\ r.msg = worker[w].msg
        /\ r.tok = receipt.lock
    BY <1>0, <2>1 DEF Handlers, NoToken
  <2>3. worker' = [worker EXCEPT ![w] = r] /\ UNCHANGED queue
    BY <1>5 DEF Settled
  <2>4. /\ worker' \in [Workers -> Handlers]
        /\ worker'[w] = r
        /\ \A v \in Workers \ {w} : worker'[v] = worker[v]
    BY <1>0, <2>2, <2>3, SetWorker
  <2>5. UNCHANGED <<request, db, dlq, time, faults, budgets, history>>
    OBVIOUS
  <2>6. worker[w].pc = "read"
    OBVIOUS
  <2>. HIDE DEF r, ClaimRead
  <2>7. Types'
    BY <2>3, <2>4, <2>5 DEF Types
  <2>8. (MessagesDue /\ RecoveryPending /\ ReceiptShape)'
    BY <2>2, <2>3, <2>4, <2>5 DEF MessagesDue, RecoveryPending, ReceiptShape
  <2>9. (MalformedUnclaimed /\ ActiveIsOpen /\ DeadLettersReported)'
    BY <2>5, <2>6, IdleType
    DEF MalformedUnclaimed, ActiveIsOpen, DeadLettersReported
  <2>10. NoLostNotification'
    BY <1>5, <2>2, <2>3, <2>4, <2>5, <2>6
    DEF NoLostNotification, ClaimCarried, MessageComing, Holds, HolderSteps
  <2>11. (FailureAgrees /\ OutcomesAgree)'
    BY <2>5 DEF FailureAgrees, OutcomesAgree, Resolved
  <2>. QED  BY <2>7, <2>8, <2>9, <2>10, <2>11
<1>. QED  BY <1>0, <1>1, <1>2, <1>3, <1>4, <1>5
          DEF Types, ReceiptRows, Statuses, Settled

\* Activating a scheduled retry keeps the invariant.
LEMMA ClaimActivateInv ==
  ASSUME Inv, NEW w \in Workers, ClaimActivate(w)
  PROVE  Inv'
<1>. USE DEF ClaimActivate, At
<1>. DEFINE matches == /\ receipt.status = "RETRY_SCHEDULED"
                       /\ receipt.retry = worker[w].msg.token
                       /\ receipt.attempt = worker[w].msg.attempt
<1>1. CASE matches
  BY <1>1, ClaimInv DEF ClaimSteps
<1>2. CASE ~matches
  <2>1. Ack(w) /\ UNCHANGED <<receipt, next>>
    BY <1>2
  <2>. QED  BY <1>2, <2>1, AckInv DEF ClaimSteps, db
<1>. QED  BY <1>1, <1>2

\* Taking over an expired claim keeps the invariant.
LEMMA ClaimReclaimInv ==
  ASSUME Inv, NEW w \in Workers, ClaimReclaim(w)
  PROVE  Inv'
<1>. USE DEF ClaimReclaim, At
<1>1. CASE Owns(w)
  BY <1>1, ClaimInv DEF ClaimSteps, Owns
<1>2. CASE ~Owns(w)
  BY <1>2, AckInv DEF ClaimSteps, Owns, db
<1>. QED  BY <1>1, <1>2

\* One recovery row per lock token is enough.
LEMMA ScheduleClaimRecoveryInv ==
  ASSUME Inv, NEW w \in Workers, ScheduleClaimRecovery(w)
  PROVE  Inv'
<1>. DEFINE t == worker[w].tok
            m == worker[w].msg
<1>1. CASE t \in keys
  BY <1>1, AckInv DEF ScheduleClaimRecovery, At, ClaimSteps, db
<1>2. CASE t \notin keys
  <2>. USE DEF Inv, request, db, time, budgets, history
  <2>1. worker[w] \in Handlers /\ worker[w].pc = "recover"
    BY DEF Types, ScheduleClaimRecovery, At
  <2>2. /\ worker' \in [Workers -> Handlers]
        /\ worker'[w] = Idle
        /\ \A v \in Workers \ {w} : worker'[v] = worker[v]
    BY SetWorker, IdleType DEF ScheduleClaimRecovery, Ack
  <2>3. /\ keys' = keys \cup {t}
        /\ outbox' = outbox \cup {RecoveryRow(t, m)}
        /\ UNCHANGED <<request, receipt, failure, outcomes, next, queue, dlq,
                       time, faults, budgets, history>>
    BY <1>2 DEF ScheduleClaimRecovery, Ack
  <2>4. /\ RecoveryRow(t, m) \in Row
        /\ RecoveryRow(t, m).type = "recovery"
        /\ RecoveryRow(t, m).gate = t
        /\ RecoveryRow(t, m).msg = m
    BY <2>1 DEF RecoveryRow, Row, Handlers
  <2>5. Types'
    BY <2>1, <2>2, <2>3, <2>4 DEF Types, Handlers
  <2>6. MessagesDue'
    BY <2>2, <2>3, <2>4, IdleType DEF MessagesDue, NoMessage
  <2>7. RecoveryPending'
    BY <2>3, <2>4 DEF RecoveryPending
  <2>8. (ReceiptShape /\ MalformedUnclaimed /\ ActiveIsOpen)'
    BY <2>1, <2>3, IdleType DEF ReceiptShape, MalformedUnclaimed, ActiveIsOpen
  <2>9. DeadLettersReported'
    BY <2>3, <2>4 DEF DeadLettersReported
  <2>10. MessageComing'
    BY <2>3, <2>4 DEF MessageComing
  <2>11. NoLostNotification'
    BY <2>1, <2>2, <2>3, <2>10
    DEF NoLostNotification, ClaimCarried, RetryComing, RetryRow
  <2>12. (FailureAgrees /\ OutcomesAgree)'
    BY <2>3 DEF FailureAgrees, OutcomesAgree, Resolved
  <2>. QED  BY <2>5, <2>6, <2>7, <2>8, <2>9, <2>11, <2>12
<1>. QED  BY <1>1, <1>2

-----------------------------------------------------------------------------
(* Results: the handler's own claim is replaced by a settled receipt or by *)
(* a scheduled retry, in one transaction.                                  *)

\* Settling the receipt with its failure and outcome keeps the invariant.
LEMMA SettleInv ==
  ASSUME Inv, NEW w \in Workers, MarkDelivered(w) \/ MarkSkipped(w)
  PROVE  Inv'
<1>. USE DEF Inv, MarkDelivered, MarkSkipped, ResolveFailure, Failure, Receipt,
             Report, Owns, At, Ack, request, time, budgets, history
<1>1. /\ worker' \in [Workers -> Handlers]
      /\ worker'[w] = Idle
      /\ \A v \in Workers \ {w} : worker'[v] = worker[v]
  BY SetWorker, IdleType
<1>2. Types'
  <2>1. receipt' \in ReceiptRows /\ failure' \in FailureRows
    BY DEF Types, ReceiptRows, FailureRows, Statuses, Final, NoToken
  <2>2. outcomes' \subseteq {"DELIVERED", "FAILED", "SKIPPED"}
    BY DEF Types
  <2>. QED  BY <1>1, <2>1, <2>2 DEF Types
<1>3. (MessagesDue /\ RecoveryPending /\ ReceiptShape)'
  BY <1>1, IdleType DEF MessagesDue, RecoveryPending, ReceiptShape, NoMessage
<1>4. (MalformedUnclaimed /\ ActiveIsOpen /\ DeadLettersReported)'
  BY DEF MalformedUnclaimed, ActiveIsOpen, DeadLettersReported, NoToken
<1>5. NoLostNotification'
  BY DEF NoLostNotification
<1>6. (FailureAgrees /\ OutcomesAgree)'
  BY DEF FailureAgrees, OutcomesAgree, Resolved, Final, Types, FailureRows
<1>. QED  BY <1>2, <1>3, <1>4, <1>5, <1>6

(* A retry with token "next" is scheduled and its row written. *)

\* A scheduled retry is never without its message.
LEMMA RetryScheduledInv ==
  ASSUME Inv, NEW a \in Nat,
         receipt.status \notin Final, wellFormed,
         receipt' = RetryScheduled(next, a),
         outbox' = outbox \cup {RetryRow(next, a)},
         next' = next + 1,
         failure' \in {failure, Failure("OPEN", next)},
         worker' = worker \/ (\E w \in Workers : Ack(w)),
         passed' \in {passed, passed \cup {next}},
         UNCHANGED <<request, keys, outcomes, queue, dlq, stale>>,
         faults' \in Nat, defers' \in Nat, manual' \in Nat,
         sends' \in Nat, ambiguous' \in Nat
  PROVE  Inv'
<1>. USE DEF Inv, request
<1>1. next \in Nat \ {0}
  BY DEF Types
<1>2. /\ worker' \in [Workers -> Handlers]
      /\ \A v \in Workers : worker'[v] \in {worker[v], Idle}
  <2>1. CASE worker' = worker
    BY <2>1 DEF Types
  <2>2. ASSUME NEW w \in Workers, Ack(w)
        PROVE  /\ worker' \in [Workers -> Handlers]
               /\ \A v \in Workers : worker'[v] \in {worker[v], Idle}
    BY <2>2, SetWorker, IdleType DEF Ack
  <2>. QED  BY <2>1, <2>2
<1>3. /\ RetryRow(next, a) \in Row
      /\ RetryRow(next, a).type = "retry"
      /\ RetryRow(next, a).gate = next
      /\ RetryRow(next, a).msg.token = next
  BY <1>1 DEF RetryRow, Row, Message
<1>4. Types'
  BY <1>1, <1>2, <1>3 DEF Types, ReceiptRows, FailureRows, RetryScheduled,
     Failure, Statuses, NoToken
<1>5. MessagesDue'
  BY <1>2, <1>3, IdleType DEF MessagesDue, NoMessage
<1>6. (RecoveryPending /\ ReceiptShape)'
  BY <1>1 DEF RecoveryPending, ReceiptShape, RetryScheduled, NoToken
<1>7. (MalformedUnclaimed /\ ActiveIsOpen)'
  BY DEF MalformedUnclaimed, ActiveIsOpen, Failure
<1>8. DeadLettersReported'
  BY <1>3 DEF DeadLettersReported
<1>9. NoLostNotification'
  BY DEF NoLostNotification, RetryComing, RetryScheduled
<1>10. (FailureAgrees /\ OutcomesAgree)'
  BY DEF FailureAgrees, OutcomesAgree, Resolved, Final, RetryScheduled, Failure
<1>. QED  BY <1>4, <1>5, <1>6, <1>7, <1>8, <1>9, <1>10

\* A quiet-time deferral is a scheduled retry.
LEMMA DeferReminderDeliveryInv ==
  ASSUME Inv, NEW w \in Workers, DeferReminderDelivery(w)
  PROVE  Inv'
<1>1. Types /\ worker[w].msg.attempt \in Nat /\ wellFormed
  BY IdleType DEF Inv, Types, Handlers, Message, MalformedUnclaimed,
     DeferReminderDelivery, At
<1>2. Ack(w) /\ UNCHANGED queue
  BY DEF DeferReminderDelivery, Ack
<1>3. defers' \in Nat /\ UNCHANGED <<faults, manual, sends, ambiguous>>
  BY <1>1 DEF DeferReminderDelivery, Types, history
<1>. QED
  BY <1>1, <1>2, <1>3, RetryScheduledInv DEF DeferReminderDelivery, Owns, Final,
     Types, request, time

\* An operator's retry is a scheduled retry.
LEMMA RetryFailureInv ==
  ASSUME Inv, RetryFailure
  PROVE  Inv'
<1>1. Types
  BY DEF Inv
<1>. QED
  BY <1>1, RetryScheduledInv DEF RetryFailure, Final, Types, request, history

\* A failed delivery is retried or becomes a reported dead letter.
LEMMA FinalizeDeliveryFailureInv ==
  ASSUME Inv, NEW w \in Workers, FinalizeDeliveryFailure(w)
  PROVE  Inv'
<1>0. /\ Types /\ worker[w] \in Handlers /\ worker[w].msg.attempt \in Nat
      /\ worker[w].tok \in Nat /\ worker[w].pc = "failed" /\ wellFormed
  BY IdleType DEF Inv, Types, Handlers, Message, MalformedUnclaimed,
     FinalizeDeliveryFailure, At
<1>1. CASE ScheduleRetry(w)
  <2>. DEFINE a == worker[w].msg.attempt + 1
  <2>1. a \in Nat
    BY <1>0
  <2>2. /\ receipt' = RetryScheduled(next, a)
        /\ outbox' = outbox \cup {RetryRow(next, a)}
        /\ failure' = Failure("OPEN", next)
        /\ next' = next + 1 /\ UNCHANGED outcomes
    BY <1>1 DEF ScheduleRetry
  <2>3. Ack(w) /\ UNCHANGED queue /\ receipt.status \notin Final
    BY DEF FinalizeDeliveryFailure, Ack, Owns, Final
  <2>4. UNCHANGED <<request, keys, dlq, passed, stale, faults, defers, manual,
                    sends, ambiguous>>
    BY DEF FinalizeDeliveryFailure, time, budgets, history
  <2>. HIDE DEF a
  <2>. QED  BY <1>0, <2>1, <2>2, <2>3, <2>4, RetryScheduledInv DEF Types
<1>2. CASE MoveToDeadLetter(w)
  <2>. USE DEF Inv, request, time, budgets, history
  <2>1. /\ worker' \in [Workers -> Handlers]
        /\ worker'[w] = Idle
        /\ \A v \in Workers \ {w} : worker'[v] = worker[v]
    BY SetWorker, IdleType DEF FinalizeDeliveryFailure, Ack
  <2>2. UNCHANGED <<request, keys, queue, dlq, time, faults, budgets, history>>
    BY DEF FinalizeDeliveryFailure, Ack
  <2>3. /\ receipt' = Receipt("DEAD_LETTERED")
        /\ failure' = Failure("OPEN", NoToken)
        /\ outbox' = outbox \cup {DeadLetterRow(worker[w].tok)}
        /\ outcomes' = Report("FAILED")
        /\ UNCHANGED next
    BY <1>2 DEF MoveToDeadLetter
  <2>4. /\ DeadLetterRow(worker[w].tok) \in Row
        /\ DeadLetterRow(worker[w].tok).type = "dead"
    BY <1>0 DEF DeadLetterRow, Row, Message, NoToken
  <2>5. Types'
    BY <2>1, <2>2, <2>3, <2>4 DEF Types, ReceiptRows, FailureRows, Receipt,
       Failure, Report, Statuses, NoToken
  <2>6. (MessagesDue /\ RecoveryPending /\ ReceiptShape)'
    BY <2>1, <2>2, <2>3, <2>4, IdleType DEF MessagesDue, RecoveryPending,
       ReceiptShape, NoMessage, Receipt
  <2>7. (MalformedUnclaimed /\ ActiveIsOpen /\ DeadLettersReported)'
    BY <1>0, <2>2, <2>3 DEF MalformedUnclaimed, ActiveIsOpen,
       DeadLettersReported, Failure, Report
  <2>8. NoLostNotification'
    BY <2>3 DEF NoLostNotification, Receipt, Failure
  <2>9. (FailureAgrees /\ OutcomesAgree)'
    BY <2>2, <2>3 DEF FailureAgrees, OutcomesAgree, Resolved, Final, Receipt,
       Failure, Report, FinalizeDeliveryFailure, Owns
  <2>. QED  BY <2>5, <2>6, <2>7, <2>8, <2>9
<1>. QED  BY <1>1, <1>2 DEF FinalizeDeliveryFailure

\* Deleting the claim and requeueing the message loses nothing.
LEMMA ReleaseClaimInv ==
  ASSUME Inv, NEW w \in Workers, ReleaseClaim(w)
  PROVE  Inv'
<1>0. Types /\ worker[w].pc = "release"
  BY DEF Inv, ReleaseClaim, At
<1>1. CASE ~Owns(w)
  BY <1>0, <1>1, NackInv DEF ReleaseClaim, Types, db, budgets, history
<1>2. CASE Owns(w)
  <2>. USE DEF Inv, request, time, budgets, history
  <2>1. /\ worker' \in [Workers -> Handlers]
        /\ worker'[w] = Idle
        /\ \A v \in Workers \ {w} : worker'[v] = worker[v]
    BY SetWorker, IdleType DEF ReleaseClaim, Nack
  <2>2. /\ receipt' = Receipt("ABSENT")
        /\ queue' = queue \cup {worker[w].msg}
        /\ UNCHANGED <<request, failure, outbox, keys, outcomes, next, dlq,
                       time, faults, budgets, history>>
    BY <1>2 DEF ReleaseClaim, Nack
  <2>3. worker[w] \in Handlers
    BY DEF Types
  <2>4. Types'
    BY <2>1, <2>2, <2>3 DEF Types, Handlers, ReceiptRows, Receipt, Statuses,
       NoToken
  <2>5. (MessagesDue /\ RecoveryPending /\ ReceiptShape)'
    BY <2>1, <2>2, IdleType DEF MessagesDue, RecoveryPending, ReceiptShape,
       NoMessage, Receipt
  <2>6. (MalformedUnclaimed /\ ActiveIsOpen /\ DeadLettersReported)'
    BY <1>0, <2>2, IdleType
    DEF MalformedUnclaimed, ActiveIsOpen, DeadLettersReported
  <2>7. NoLostNotification'
    BY <2>2 DEF NoLostNotification, MessageComing, Receipt
  <2>8. (FailureAgrees /\ OutcomesAgree)'
    BY <1>2, <2>2 DEF FailureAgrees, OutcomesAgree, Resolved, Final, Receipt,
       Owns
  <2>. QED  BY <2>4, <2>5, <2>6, <2>7, <2>8
<1>. QED  BY <1>1, <1>2

-----------------------------------------------------------------------------
(* Malformed messages, dead letters and the operator *)

\* A malformed message ends as a dead letter with an open failure.
LEMMA PersistMalformedInv ==
  ASSUME Inv, NEW m \in queue, PersistMalformed(m)
  PROVE  Inv'
<1>. USE DEF Inv, request, time, budgets, history
<1>0. /\ ~wellFormed /\ queue' = queue \ {m}
      /\ UNCHANGED <<request, outcomes, next, dlq, worker, time, faults,
                     budgets, history>>
  BY DEF PersistMalformed
<1>1. /\ DeadLetterRow(NoToken) \in Row
      /\ DeadLetterRow(NoToken).type = "dead"
  BY DEF DeadLetterRow, Row, Message, NoToken
<1>2. CASE receipt.status = "CLOSED_NO_RETRY"
  <2>1. UNCHANGED <<receipt, failure, outbox, keys>>
    BY <1>2 DEF PersistMalformed
  <2>2. Types'
    BY <1>0, <2>1 DEF Types
  <2>3. (MessagesDue /\ RecoveryPending /\ ReceiptShape)'
    BY <1>0, <2>1 DEF MessagesDue, RecoveryPending, ReceiptShape
  <2>4. (MalformedUnclaimed /\ ActiveIsOpen /\ DeadLettersReported)'
    BY <1>0, <2>1 DEF MalformedUnclaimed, ActiveIsOpen, DeadLettersReported
  <2>5. (NoLostNotification /\ FailureAgrees /\ OutcomesAgree)'
    BY <1>0, <1>2, <2>1 DEF NoLostNotification, FailureAgrees, OutcomesAgree,
       Resolved
  <2>. QED  BY <2>2, <2>3, <2>4, <2>5
<1>3. CASE receipt.status \in {"ABSENT", "DEAD_LETTERED"}
  <2>1. ~Resolved
    BY <1>3 DEF FailureAgrees, Resolved, Final
  <2>2. /\ receipt' = Receipt("DEAD_LETTERED")
        /\ failure' = Failure("OPEN", NoToken)
        /\ keys' = keys \cup {NoToken}
        /\ outbox' \in {outbox, outbox \cup {DeadLetterRow(NoToken)}}
    BY <1>3, <2>1 DEF PersistMalformed
  <2>3. Types'
    BY <1>0, <1>1, <2>2 DEF Types, ReceiptRows, FailureRows, Receipt, Failure,
       Statuses, NoToken
  <2>4. (MessagesDue /\ ReceiptShape)'
    BY <1>0, <1>1, <2>2 DEF MessagesDue, ReceiptShape, Receipt
  <2>5. RecoveryPending'
    BY <1>0, <2>2 DEF RecoveryPending
  <2>6. (MalformedUnclaimed /\ ActiveIsOpen /\ DeadLettersReported)'
    BY <1>0, <2>2 DEF MalformedUnclaimed, ActiveIsOpen, DeadLettersReported,
       Receipt, Failure
  <2>7. (NoLostNotification /\ FailureAgrees /\ OutcomesAgree)'
    BY <1>0, <1>3, <2>2 DEF NoLostNotification, FailureAgrees, OutcomesAgree,
       Resolved, Final, Receipt, Failure
  <2>. QED  BY <2>3, <2>4, <2>5, <2>6, <2>7
<1>. QED  BY <1>0, <1>2, <1>3 DEF MalformedUnclaimed

\* A dead letter, however late, agrees with the receipt.
LEMMA CollectDeadLetterInv ==
  ASSUME Inv, NEW m \in dlq, CollectDeadLetter(m)
  PROVE  Inv'
<1>. USE DEF Inv, request, time, budgets, history
<1>0. /\ dlq' = dlq \ {m}
      /\ UNCHANGED <<request, outbox, keys, next, queue, worker, time, faults,
                     budgets, history>>
  BY DEF CollectDeadLetter
<1>1. CASE receipt.status \notin {"ABSENT", "DEAD_LETTERED"}
  <2>1. UNCHANGED <<receipt, failure, outcomes>>
    BY <1>1 DEF CollectDeadLetter
  <2>2. Types'
    BY <1>0, <2>1 DEF Types
  <2>3. (MessagesDue /\ RecoveryPending /\ ReceiptShape)'
    BY <1>0, <2>1 DEF MessagesDue, RecoveryPending, ReceiptShape
  <2>4. (MalformedUnclaimed /\ ActiveIsOpen /\ DeadLettersReported)'
    BY <1>0, <2>1 DEF MalformedUnclaimed, ActiveIsOpen, DeadLettersReported
  <2>5. NoLostNotification'
    BY <1>0, <2>1 DEF NoLostNotification, ClaimCarried, MessageComing,
       RetryComing, RetryRow, Holds, At
  <2>6. (FailureAgrees /\ OutcomesAgree)'
    BY <1>0, <2>1 DEF FailureAgrees, OutcomesAgree, Resolved
  <2>. QED  BY <2>2, <2>3, <2>4, <2>5, <2>6
<1>2. CASE receipt.status \in {"ABSENT", "DEAD_LETTERED"}
  <2>1. ~Resolved
    BY <1>2 DEF FailureAgrees, Resolved, Final
  <2>2. receipt' = Receipt("DEAD_LETTERED")
    BY <1>2 DEF CollectDeadLetter
  <2>3. /\ failure' \in {failure, Failure("OPEN", NoToken)}
        /\ failure'.status = "OPEN"
    BY <1>2, <2>1 DEF CollectDeadLetter, ActiveIsOpen, Failure
  <2>4. /\ outcomes' \in {outcomes, outcomes \cup {"FAILED"}}
        /\ wellFormed /\ kind \in Tracked => "FAILED" \in outcomes'
    BY <1>2, <2>1 DEF CollectDeadLetter, DeadLettersReported, Report
  <2>5. Types'
    BY <1>0, <2>2, <2>3, <2>4 DEF Types, ReceiptRows, FailureRows, Receipt,
       Failure, Statuses, NoToken
  <2>6. (MessagesDue /\ RecoveryPending /\ ReceiptShape)'
    BY <1>0, <2>2 DEF MessagesDue, RecoveryPending, ReceiptShape, Receipt
  <2>7. (MalformedUnclaimed /\ ActiveIsOpen /\ DeadLettersReported)'
    BY <1>0, <2>2, <2>3, <2>4 DEF MalformedUnclaimed, ActiveIsOpen,
       DeadLettersReported, Receipt
  <2>8. NoLostNotification'
    BY <2>2, <2>3 DEF NoLostNotification, Receipt
  <2>9. (FailureAgrees /\ OutcomesAgree)'
    BY <1>0, <1>2, <2>2, <2>3, <2>4 DEF FailureAgrees, OutcomesAgree, Resolved,
       Final, Receipt
  <2>. QED  BY <2>5, <2>6, <2>7, <2>8, <2>9
<1>. QED  BY <1>1, <1>2

\* Closing a failure closes its receipt too.
LEMMA CloseFailureInv ==
  ASSUME Inv, CloseFailure
  PROVE  Inv'
<1>. USE DEF Inv, CloseFailure, Receipt, Failure, request, time, budgets,
             history
<1>1. Types'
  BY DEF Types, ReceiptRows, FailureRows, Statuses, Final, NoToken
<1>2. (MessagesDue /\ RecoveryPending /\ ReceiptShape)'
  BY DEF MessagesDue, RecoveryPending, ReceiptShape
<1>3. (MalformedUnclaimed /\ ActiveIsOpen /\ DeadLettersReported)'
  BY DEF MalformedUnclaimed, ActiveIsOpen, DeadLettersReported
<1>4. (NoLostNotification /\ FailureAgrees /\ OutcomesAgree)'
  BY DEF NoLostNotification, FailureAgrees, OutcomesAgree, Resolved
<1>. QED  BY <1>1, <1>2, <1>3, <1>4

\* Retention removes only failures nothing depends on.
LEMMA DeleteResolvedFailureInv ==
  ASSUME Inv, DeleteResolvedFailure
  PROVE  Inv'
<1>. USE DEF Inv, DeleteResolvedFailure, Failure, request, time, budgets,
             history
<1>1. Types'
  BY DEF Types, FailureRows, NoToken
<1>2. (MessagesDue /\ RecoveryPending /\ ReceiptShape)'
  BY DEF MessagesDue, RecoveryPending, ReceiptShape
<1>3. (MalformedUnclaimed /\ ActiveIsOpen /\ DeadLettersReported)'
  BY DEF MalformedUnclaimed, ActiveIsOpen, DeadLettersReported
<1>4. (NoLostNotification /\ FailureAgrees /\ OutcomesAgree)'
  BY DEF NoLostNotification, FailureAgrees, OutcomesAgree, Resolved, Final
<1>. QED  BY <1>1, <1>2, <1>3, <1>4

-----------------------------------------------------------------------------
(* The invariant *)

\* The invariant holds when the request has been written.
LEMMA InitInv == Init => Inv
<1>. SUFFICES ASSUME Init PROVE Inv
  OBVIOUS
<1>. USE DEF Init, Receipt, Failure, NoToken
<1>1. RequestRow \in Row /\ RequestRow.type = "request"
      /\ RequestRow.msg.token = 0
  BY DEF RequestRow, Row, NoMessage, Message
<1>2. Types
  BY <1>1, IdleType, KindsAssumption
  DEF Types, ReceiptRows, FailureRows, Statuses, Final
<1>3. MessagesDue /\ RecoveryPending /\ ReceiptShape
  BY <1>1, IdleType DEF MessagesDue, RecoveryPending, ReceiptShape, NoMessage
<1>4. MalformedUnclaimed /\ ActiveIsOpen /\ DeadLettersReported
  BY <1>1 DEF MalformedUnclaimed, ActiveIsOpen, DeadLettersReported
<1>5. NoLostNotification /\ FailureAgrees /\ OutcomesAgree
  BY <1>1 DEF NoLostNotification, MessageComing, FailureAgrees, OutcomesAgree,
     Resolved, Final
<1>. QED  BY <1>2, <1>3, <1>4, <1>5 DEF Inv

\* Every step of a handler keeps the invariant.
LEMMA HandlerStepInv ==
  ASSUME Inv, NEW w \in Workers, HandlerStep(w)
  PROVE  Inv'
<1>0. Types
  BY DEF Inv
<1>1. ASSUME NEW m \in queue, Take(w, m) PROVE Inv'
  BY <1>1, TakeInv
<1>2. CASE ClaimCreate(w) \/ ClaimRead(w) \/ ClaimActivate(w) \/ ClaimReclaim(w)
  BY <1>2, ClaimCreateInv, ClaimReadInv, ClaimActivateInv, ClaimReclaimInv
<1>3. CASE ScheduleClaimRecovery(w)
  BY <1>3, ScheduleClaimRecoveryInv
<1>4. CASE ResolveContext(w)
  BY <1>0, <1>4, MoveInv DEF ResolveContext, Goto, At, HolderSteps, Types,
     budgets, history
<1>5. CASE CheckClaim(w) \/ CheckMargin(w)
  BY <1>0, <1>5, MoveInv DEF CheckClaim, CheckMargin, Goto, Fail, At,
     HolderSteps, Errors, Types, budgets, history
<1>6. CASE Send(w)
  BY <1>0, <1>6, MoveInv DEF Send, Goto, At, HolderSteps, Types, budgets
<1>7. ASSUME NEW e \in Errors, AdapterFails(w, e) PROVE Inv'
  BY <1>0, <1>7, MoveInv DEF AdapterFails, Fail, HolderSteps, Types,
     budgets, history
<1>8. CASE MarkDelivered(w) \/ MarkSkipped(w) \/ DeferReminderDelivery(w)
  BY <1>8, SettleInv, DeferReminderDeliveryInv
<1>9. CASE FinalizationLost(w)
  BY <1>0, <1>9, NackInv DEF FinalizationLost, Types, budgets, history
<1>10. CASE FinalizeDeliveryFailure(w) \/ ReleaseClaim(w)
  BY <1>10, FinalizeDeliveryFailureInv, ReleaseClaimInv
<1>11. CASE FailureFinalizationLost(w)
  BY <1>0, <1>11, MoveInv DEF FailureFinalizationLost, Goto, At, HolderSteps,
     Types, budgets, history
<1>. QED  BY <1>1, <1>2, <1>3, <1>4, <1>5, <1>6, <1>7, <1>8, <1>9, <1>10,
             <1>11 DEF HandlerStep

\* Every fault of a handler keeps the invariant.
LEMMA HandlerFaultInv ==
  ASSUME Inv, NEW w \in Workers, HandlerFault(w)
  PROVE  Inv'
<1>0. Types
  BY DEF Inv
<1>1. CASE ChannelLost(w)
  BY <1>1, ChannelLostInv
<1>2. CASE SendAnswerLost(w)
  BY <1>0, <1>2, MoveInv DEF SendAnswerLost, Fault, Fail, At, HolderSteps,
     Errors, Types, budgets
<1>3. CASE FinalizationFails(w)
  BY <1>0, <1>3, NackInv DEF FinalizationFails, Fault, Types, budgets
<1>4. CASE FailureFinalizationFails(w)
  BY <1>0, <1>4, MoveInv DEF FailureFinalizationFails, Fault, Goto, At,
     HolderSteps, Types, budgets, history
<1>5. CASE ReleaseClaimFails(w)
  BY <1>0, <1>5, NackInv DEF ReleaseClaimFails, Fault, At, Types, budgets,
     history
<1>6. CASE LeaseOverrun(w)
  BY <1>6, DeadlineInv
<1>7. CASE Crash(w)
  BY <1>0, <1>7, NackInv DEF Crash, Fault, Types, budgets
<1>. QED  BY <1>1, <1>2, <1>3, <1>4, <1>5, <1>6, <1>7 DEF HandlerFault

\* The invariant is inductive.
LEMMA NextInv == Inv /\ [Next]_vars => Inv'
<1>. SUFFICES ASSUME Inv, [Next]_vars PROVE Inv'
  OBVIOUS
<1>0. Types
  BY DEF Inv
<1>1. ASSUME NEW w \in Workers, HandlerStep(w) \/ HandlerFault(w) PROVE Inv'
  BY <1>1, HandlerStepInv, HandlerFaultInv
<1>2. ASSUME NEW row \in outbox, Publish(row) PROVE Inv'
  BY <1>0, <1>2, PublishInv DEF Publish, Types
<1>3. ASSUME NEW row \in outbox, PublishUnmarked(row) PROVE Inv'
  BY <1>0, <1>3, PublishInv DEF PublishUnmarked, Fault, Types, db
<1>4. CASE CollectorStep
  BY <1>4, PersistMalformedInv, CollectDeadLetterInv DEF CollectorStep
<1>5. CASE RetryFailure \/ CloseFailure \/ DeleteResolvedFailure
  BY <1>5, RetryFailureInv, CloseFailureInv, DeleteResolvedFailureInv
<1>6. CASE Deadline \/ \E r \in passed : RetryOverdue(r)
  BY <1>6, DeadlineInv DEF Deadline
<1>7. CASE UNCHANGED vars
  BY <1>0, <1>7, TimeInv DEF vars, Types, request, db, time, budgets, history
<1>. QED  BY <1>1, <1>2, <1>3, <1>4, <1>5, <1>6, <1>7
          DEF Next, PublisherStep

(***************************************************************************)
(* The inductive invariant holds in every reachable state, for any number  *)
(* of handlers and any number of faults, retries and deferrals.            *)
(***************************************************************************)
THEOREM Invariance == Spec => []Inv
  BY InitInv, NextInv, PTL DEF Spec

(***************************************************************************)
(* Type correctness of the receipt, the failure row, the outbox, the       *)
(* queues and the handlers.                                                *)
(***************************************************************************)
THEOREM TypeCorrect == Spec => []TypeOK
<1>1. Inv => TypeOK
  BY DEF Inv, TypeOK
<1>. QED  BY <1>1, Invariance, PTL

(***************************************************************************)
(* No notification is ever lost by the claim, retry, recovery and          *)
(* dead-letter protocol of apps/notification-delivery.                     *)
(***************************************************************************)
THEOREM NotificationSafe == Spec => []NoLostNotification
<1>1. Inv => NoLostNotification
  BY DEF Inv
<1>. QED  BY <1>1, Invariance, PTL

(***************************************************************************)
(* The failure list agrees with the receipt.                               *)
(***************************************************************************)
THEOREM FailuresListed == Spec => []FailureAgrees
<1>1. Inv => FailureAgrees
  BY DEF Inv
<1>. QED  BY <1>1, Invariance, PTL

(***************************************************************************)
(* The outcomes reported to the requesting service agree with the receipt. *)
(***************************************************************************)
THEOREM OutcomesReported == Spec => []OutcomesAgree
<1>1. Inv => OutcomesAgree
  BY DEF Inv
<1>. QED  BY <1>1, Invariance, PTL

-----------------------------------------------------------------------------
(* A final receipt is never touched again. *)

\* No handler changes a final receipt or reports about it.
LEMMA HandlerKeepsFinal ==
  ASSUME receipt.status \in Final, NEW w \in Workers,
         HandlerStep(w) \/ HandlerFault(w)
  PROVE  UNCHANGED <<receipt, outcomes>>
<1>1. CASE \E m \in queue : Take(w, m)
  BY <1>1 DEF Take, db
<1>2. CASE ClaimCreate(w) \/ ClaimRead(w) \/ ClaimActivate(w) \/ ClaimReclaim(w)
           \/ ScheduleClaimRecovery(w)
  BY <1>2 DEF ClaimCreate, ClaimRead, ClaimActivate, ClaimReclaim,
     ScheduleClaimRecovery, Owns, Final, db
<1>3. CASE ResolveContext(w) \/ CheckClaim(w) \/ CheckMargin(w) \/ Send(w)
           \/ \E e \in Errors : AdapterFails(w, e)
  BY <1>3 DEF ResolveContext, CheckClaim, CheckMargin, Send, AdapterFails, db
<1>4. CASE MarkDelivered(w) \/ MarkSkipped(w) \/ DeferReminderDelivery(w)
           \/ FinalizationLost(w) \/ FinalizeDeliveryFailure(w)
           \/ FailureFinalizationLost(w) \/ ReleaseClaim(w)
  BY <1>4 DEF MarkDelivered, MarkSkipped, DeferReminderDelivery,
     FinalizationLost, FinalizeDeliveryFailure, FailureFinalizationLost,
     ReleaseClaim, Owns, Final, db
<1>5. CASE HandlerFault(w)
  BY <1>5 DEF HandlerFault, ChannelLost, SendAnswerLost, FinalizationFails,
     FailureFinalizationFails, ReleaseClaimFails, LeaseOverrun, Crash, db
<1>. QED  BY <1>1, <1>2, <1>3, <1>4, <1>5 DEF HandlerStep

\* No step changes a final receipt or reports about it.
LEMMA NextKeepsFinal ==
  ASSUME receipt.status \in Final, [Next]_vars
  PROVE  UNCHANGED <<receipt, outcomes>>
<1>1. ASSUME NEW w \in Workers, HandlerStep(w) \/ HandlerFault(w)
      PROVE  UNCHANGED <<receipt, outcomes>>
  BY <1>1, HandlerKeepsFinal
<1>2. CASE PublisherStep \/ \E row \in outbox : PublishUnmarked(row)
  BY <1>2 DEF PublisherStep, Publish, PublishUnmarked, db
<1>3. CASE CollectorStep
  BY <1>3 DEF CollectorStep, PersistMalformed, CollectDeadLetter, Final
<1>4. CASE RetryFailure \/ CloseFailure \/ DeleteResolvedFailure
  BY <1>4 DEF RetryFailure, CloseFailure, DeleteResolvedFailure, Final
<1>5. CASE Deadline \/ \E r \in passed : RetryOverdue(r)
  BY <1>5 DEF Deadline, DeadlinePasses, RetryOverdue, db
<1>6. CASE UNCHANGED vars
  BY <1>6 DEF vars, db
<1>. QED  BY <1>1, <1>2, <1>3, <1>4, <1>5, <1>6 DEF Next

(***************************************************************************)
(* Once delivered or closed, a notification stays so and nothing more is   *)
(* reported about it.                                                      *)
(***************************************************************************)
THEOREM FinalStays == Spec => FinalIsFinal
<1>1. [Next]_vars =>
        [receipt.status \in Final => UNCHANGED <<receipt, outcomes>>]_vars
  BY NextKeepsFinal
<1>. QED  BY <1>1, PTL DEF Spec, FinalIsFinal
-----------------------------------------------------------------------------
(* How often the notification may be sent *)

\* A handler that sends whatever becomes of its claim; the handler of the
\* claim that sends or has sent; whether a check or a later claim may send.
Committed(w) == At(w, "send") \/ (At(w, "context") /\ kind \notin Fenced)
Senders == {w \in Workers : Committed(w)}
Engaged(w) == (Committed(w) \/ At(w, "sent")) /\ worker[w].tok = receipt.lock
Free ==
    /\ receipt.status \notin Final
    /\ ~(/\ receipt.status = "PROCESSING" /\ receipt.lock \notin passed
         /\ \E w \in Workers : Engaged(w))

\* Tokens are drawn in order, and a claim has one holder.
Tokens ==
    /\ receipt.lock < next /\ receipt.retry < next
    /\ \A t \in passed : t < next
    /\ \A row \in outbox : row.gate < next
    /\ \A w \in Workers :
        /\ worker[w].tok < next
        /\ worker[w].late \in {NoToken} \cup passed
        /\ At(w, "reclaim") => worker[w].tok \in passed
    /\ \A v, w \in Workers :
        /\ worker[v].pc \in HolderSteps /\ worker[w].pc \in HolderSteps
        /\ worker[v].tok = worker[w].tok
        => v = w

\* Messages that were sent, are about to be and may still be.
Accounted ==
    /\ IsFiniteSet(Senders)
    /\ sends + Cardinality(Senders) + (IF Free THEN 1 ELSE 0) <= 1 + ambiguous

\* What the handlers' records are.
LEMMA WorkerFacts ==
  ASSUME Types
  PROVE  /\ worker \in [Workers -> Handlers] /\ next \in Nat /\ next > 0
         /\ receipt.lock \in Nat /\ receipt.retry \in Nat /\ passed \subseteq Nat
         /\ \A w \in Workers : worker[w].tok \in Nat /\ worker[w].late \in Nat
         /\ \A row \in outbox : row.gate \in Nat
  BY DEF Types, Handlers, ReceiptRows, Row

\* A step of the handlers that leaves the database alone, or draws one token.
LEMMA TokensKept ==
  ASSUME Types, Tokens, NEW w,
         next' \in {next, next + 1}, passed \subseteq passed', \A t \in passed' : t < next',
         receipt'.lock \in {receipt.lock, NoToken, next}, receipt'.lock < next',
         receipt'.retry \in {receipt.retry, NoToken, next}, receipt'.retry < next',
         \A row \in outbox' : row \in outbox \/ row.gate < next',
         \A v \in Workers \ {w} : worker'[v] = worker[v],
         w \in Workers =>
            /\ worker'[w].tok < next'
            /\ worker'[w].late \in {NoToken, worker[w].late} \cup passed'
            /\ worker'[w].pc = "reclaim" => worker'[w].tok \in passed'
            /\ worker'[w].pc \in HolderSteps =>
                \/ worker[w].pc \in HolderSteps /\ worker'[w].tok = worker[w].tok
                \/ worker'[w].tok = next
  PROVE  Tokens'
<1>0. /\ next \in Nat /\ next > 0
      /\ \A v \in Workers : worker[v].tok \in Nat
      /\ \A row \in outbox : row.gate \in Nat
  BY WorkerFacts
<1>1. \A row \in outbox' : row.gate < next'
  BY <1>0 DEF Tokens
<1>2. ASSUME NEW v \in Workers
      PROVE  /\ worker'[v].tok < next'
             /\ worker'[v].late \in {NoToken} \cup passed'
             /\ worker'[v].pc = "reclaim" => worker'[v].tok \in passed'
  BY <1>0, <1>2 DEF Tokens, At
<1>3. ASSUME NEW u \in Workers, NEW v \in Workers,
             worker'[u].pc \in HolderSteps, worker'[v].pc \in HolderSteps,
             worker'[u].tok = worker'[v].tok
      PROVE  u = v
  BY <1>0, <1>3 DEF Tokens
<1>. QED  BY <1>1, <1>2, <1>3 DEF Tokens, At

\* A new record of one handler.
LEMMA NewRecord ==
  ASSUME Types, NEW w \in Workers, NEW r, worker' = [worker EXCEPT ![w] = r]
  PROVE  worker'[w] = r /\ \A v \in Workers \ {w} : worker'[v] = worker[v]
  BY DEF Types

\* A handler that moves on, acknowledges or gives its message back.
LEMMA TokensMove ==
  ASSUME Types, Tokens, NEW w \in Workers, UNCHANGED <<receipt, next, outbox>>,
         \/ UNCHANGED worker
         \/ worker' = [worker EXCEPT ![w] = Idle]
         \/ \E s, e : Move(w, s, e) /\ s # "reclaim"
                      /\ (s \in HolderSteps => worker[w].pc \in HolderSteps),
         \/ UNCHANGED passed
         \/ \E t \in Awaited \cup {worker[w].tok} : passed' = passed \cup {t}
  PROVE  Tokens'
<1>0. /\ next \in Nat /\ next > 0 /\ worker \in [Workers -> Handlers]
      /\ receipt.lock \in Nat /\ receipt.retry \in Nat /\ worker[w].tok \in Nat
  BY WorkerFacts
<1>1. passed \subseteq passed' /\ \A t \in passed' : t < next'
  BY <1>0 DEF Tokens, Awaited
<1>. DEFINE Follows ==
        /\ \A v \in Workers \ {w} : worker'[v] = worker[v]
        /\ worker'[w].tok < next'
        /\ worker'[w].late \in {NoToken, worker[w].late}
        /\ worker'[w].pc = "reclaim" =>
              worker[w].pc = "reclaim" /\ worker'[w].tok = worker[w].tok
        /\ worker'[w].pc \in HolderSteps =>
              worker[w].pc \in HolderSteps /\ worker'[w].tok = worker[w].tok
<1>2. Follows
  <2>1. CASE UNCHANGED worker
    BY <2>1 DEF Tokens
  <2>2. CASE worker' = [worker EXCEPT ![w] = Idle]
    <3>1. worker'[w] = Idle /\ \A v \in Workers \ {w} : worker'[v] = worker[v]
      BY <2>2, NewRecord
    <3>. QED  BY <1>0, <3>1 DEF Idle, NoToken, HolderSteps
  <2>3. ASSUME NEW s, NEW e, Move(w, s, e), s # "reclaim",
               s \in HolderSteps => worker[w].pc \in HolderSteps
        PROVE  Follows
    <3>1. worker'[w] = [worker[w] EXCEPT !.pc = s, !.err = e]
          /\ \A v \in Workers \ {w} : worker'[v] = worker[v]
      BY <2>3, NewRecord DEF Move
    <3>2. worker'[w].pc = s /\ worker'[w].tok = worker[w].tok /\ worker'[w].late = worker[w].late
      BY <1>0, <3>1 DEF Handlers
    <3>. QED  BY <2>3, <3>1, <3>2 DEF Tokens
  <2>. QED  BY <2>1, <2>2, <2>3
<1>. QED  BY <1>0, <1>1, <1>2, TokensKept DEF Tokens, At

\* A claim draws the next token.
LEMMA TokensClaim ==
  ASSUME Types, Tokens, NEW w \in Workers, Claim(w), UNCHANGED <<outbox, passed>>
  PROVE  Tokens'
<1>0. /\ next \in Nat /\ next > 0 /\ worker \in [Workers -> Handlers]
  BY WorkerFacts
<1>1. /\ worker'[w].tok = next /\ worker'[w].late = NoToken /\ worker'[w].pc = FirstStep
      /\ \A v \in Workers \ {w} : worker'[v] = worker[v]
  BY <1>0, NewRecord DEF Claim, Handlers
<1>2. next' = next + 1 /\ receipt'.lock = next /\ receipt'.retry = NoToken
      /\ FirstStep # "reclaim"
  BY DEF Claim, Processing, FirstStep
<1>3. \A t \in passed' : t < next'
  BY <1>0, <1>2, WorkerFacts DEF Tokens
<1>. QED  BY <1>0, <1>1, <1>2, <1>3, TokensKept DEF NoToken

\* A receipt that is settled, deleted or put off; a retry draws the next token.
LEMMA TokensSettle ==
  ASSUME Types, Tokens, NEW w,
         \/ UNCHANGED worker
         \/ w \in Workers /\ worker' = [worker EXCEPT ![w] = Idle],
         \/ /\ next' = next /\ passed' = passed
            /\ receipt' = receipt \/ \E s : receipt' = Receipt(s)
            /\ \A row \in outbox' : row \in outbox \/ row.gate < next
         \/ /\ next' = next + 1 /\ passed' \in {passed, passed \cup {next}}
            /\ \E a : receipt' = RetryScheduled(next, a)
                      /\ outbox' = outbox \cup {RetryRow(next, a)}
  PROVE  Tokens'
<1>0. /\ next \in Nat /\ next > 0 /\ passed \subseteq Nat
      /\ \A v \in Workers : worker[v].tok \in Nat
  BY WorkerFacts
<1>1. /\ \A v \in Workers \ {w} : worker'[v] = worker[v]
      /\ w \in Workers =>
            /\ worker'[w].tok \in {worker[w].tok, NoToken}
            /\ worker'[w].late \in {NoToken, worker[w].late}
            /\ worker'[w].pc = "reclaim" => worker' = worker
            /\ worker'[w].pc \in HolderSteps => worker' = worker
  BY NewRecord DEF Idle, HolderSteps
<1>2. CASE /\ next' = next /\ passed' = passed
           /\ receipt' = receipt \/ \E s : receipt' = Receipt(s)
           /\ \A row \in outbox' : row \in outbox \/ row.gate < next
  <2>1. receipt'.lock \in {receipt.lock, NoToken} /\ receipt'.retry \in {receipt.retry, NoToken}
    BY <1>2 DEF Receipt
  <2>. QED  BY <1>0, <1>1, <1>2, <2>1, TokensKept DEF Tokens, At, NoToken
<1>3. CASE /\ next' = next + 1 /\ passed' \in {passed, passed \cup {next}}
           /\ \E a : receipt' = RetryScheduled(next, a)
                     /\ outbox' = outbox \cup {RetryRow(next, a)}
  <2>1. /\ receipt'.lock = NoToken /\ receipt'.retry = next
        /\ \A row \in outbox' : row \in outbox \/ row.gate < next'
    BY <1>0, <1>3 DEF RetryScheduled, RetryRow
  <2>2. passed \subseteq passed' /\ \A t \in passed' : t < next'
    BY <1>0, <1>3 DEF Tokens
  <2>. QED  BY <1>0, <1>1, <1>3, <2>1, <2>2, TokensKept DEF Tokens, At, NoToken
<1>. QED  BY <1>2, <1>3

\* Handlers keep tokens apart.
LEMMA HandlerTokens ==
  ASSUME Inv, Tokens, NEW w \in Workers, HandlerStep(w) \/ HandlerFault(w)
  PROVE  Tokens'
<1>. USE DEF Inv, db, time
<1>0. /\ next \in Nat /\ next > 0 /\ worker \in [Workers -> Handlers]
      /\ receipt.lock \in Nat /\ worker[w].tok \in Nat
  BY WorkerFacts
<1>1. ASSUME NEW m \in queue, Take(w, m) PROVE Tokens'
  <2>1. /\ worker'[w].tok = NoToken /\ worker'[w].pc = "create"
        /\ worker'[w].late \in {NoToken} \cup passed
        /\ \A v \in Workers \ {w} : worker'[v] = worker[v]
    <3>. DEFINE l == IF receipt.lock \in passed THEN receipt.lock ELSE NoToken
    <3>1. worker' = [worker EXCEPT ![w] = [Idle EXCEPT !.pc = "create", !.msg = m, !.late = l]]
      BY <1>1 DEF Take
    <3>2. l \in {NoToken} \cup passed
      OBVIOUS
    <3>. HIDE DEF l
    <3>3. /\ worker'[w] = [Idle EXCEPT !.pc = "create", !.msg = m, !.late = l]
          /\ \A v \in Workers \ {w} : worker'[v] = worker[v]
      BY <3>1, NewRecord
    <3>. QED  BY <3>2, <3>3 DEF Idle
  <2>. QED
    BY <1>0, <1>1, <2>1, TokensKept DEF Take, HolderSteps, NoToken, Tokens
<1>2. CASE ClaimCreate(w) \/ ClaimActivate(w) \/ ClaimReclaim(w)
  BY <1>2, TokensClaim, TokensMove
  DEF ClaimCreate, ClaimActivate, ClaimReclaim, Goto, Ack, HolderSteps
<1>3. CASE ClaimRead(w)
  <2>1. CASE /\ receipt.status = "PROCESSING"
             /\ worker' = [worker EXCEPT ![w] = [@ EXCEPT
                  !.pc = IF worker[w].late = receipt.lock THEN "reclaim" ELSE "recover",
                  !.tok = receipt.lock, !.late = NoToken]]
    <3>1. /\ worker'[w].tok = receipt.lock /\ worker'[w].late = NoToken
          /\ worker'[w].pc = IF worker[w].late = receipt.lock THEN "reclaim" ELSE "recover"
          /\ \A v \in Workers \ {w} : worker'[v] = worker[v]
      BY <1>0, <2>1, NewRecord DEF Handlers
    <3>2. receipt.lock # NoToken
      BY <2>1 DEF ReceiptShape
    <3>. QED
      BY <1>0, <1>3, <3>1, <3>2, TokensKept DEF ClaimRead, HolderSteps, Tokens
  <2>2. CASE worker' = [worker EXCEPT ![w] = Idle] \/ Goto(w, "activate")
    BY <1>3, <2>2, TokensMove DEF ClaimRead, Goto, HolderSteps
  <2>. QED  BY <1>3, <2>1, <2>2 DEF ClaimRead, Nack, Ack
<1>4. CASE ScheduleClaimRecovery(w)
  <2>1. \A row \in outbox' : row \in outbox \/ row.gate < next
    BY <1>4 DEF ScheduleClaimRecovery, RecoveryRow, Tokens
  <2>. QED  BY <1>4, <2>1, TokensSettle DEF ScheduleClaimRecovery, Ack
<1>5. CASE ResolveContext(w) \/ CheckClaim(w) \/ CheckMargin(w) \/ Send(w)
           \/ (\E e \in Errors : AdapterFails(w, e)) \/ SendAnswerLost(w)
           \/ FailureFinalizationLost(w) \/ FailureFinalizationFails(w)
  <2>1. worker[w].pc \in HolderSteps /\ UNCHANGED <<receipt, next, outbox, passed>>
    BY <1>5 DEF ResolveContext, CheckClaim, CheckMargin, Send, AdapterFails,
       SendAnswerLost, FailureFinalizationLost, FailureFinalizationFails, At, HolderSteps
  <2>2. \E s, e : Move(w, s, e) /\ s # "reclaim"
    BY <1>5 DEF ResolveContext, CheckClaim, CheckMargin, Send, AdapterFails,
       SendAnswerLost, FailureFinalizationLost, FailureFinalizationFails, Goto, Fail
  <2>. QED  BY <2>1, <2>2, TokensMove
<1>6. CASE MarkDelivered(w) \/ MarkSkipped(w) \/ ReleaseClaim(w)
  BY <1>6, TokensSettle DEF MarkDelivered, MarkSkipped, ReleaseClaim, Ack, Nack
<1>7. CASE DeferReminderDelivery(w)
  BY <1>7, TokensSettle DEF DeferReminderDelivery, Ack
<1>8. CASE FinalizeDeliveryFailure(w)
  <2>1. CASE ScheduleRetry(w)
    BY <1>8, <2>1, TokensSettle DEF FinalizeDeliveryFailure, ScheduleRetry, Ack
  <2>2. CASE MoveToDeadLetter(w)
    <3>1. \A row \in outbox' : row \in outbox \/ row.gate < next
      BY <1>0, <2>2 DEF MoveToDeadLetter, DeadLetterRow, NoToken
    <3>. QED
      BY <1>8, <2>2, <3>1, TokensSettle DEF FinalizeDeliveryFailure, MoveToDeadLetter, Ack
  <2>. QED  BY <1>8, <2>1, <2>2 DEF FinalizeDeliveryFailure
<1>9. CASE FinalizationLost(w) \/ FinalizationFails(w) \/ ReleaseClaimFails(w) \/ Crash(w)
           \/ ChannelLost(w) \/ LeaseOverrun(w)
  BY <1>9, TokensMove DEF FinalizationLost, FinalizationFails, ReleaseClaimFails, Crash,
     ChannelLost, LeaseOverrun, Nack
<1>. QED  BY <1>1, <1>2, <1>3, <1>4, <1>5, <1>6, <1>7, <1>8, <1>9
          DEF HandlerStep, HandlerFault

\* Every step keeps tokens apart.
LEMMA TokensStep ==
  ASSUME Inv, Tokens, [Next]_vars PROVE Tokens'
<1>. USE DEF Inv, db, time
<1>0. /\ next \in Nat /\ next > 0 /\ worker \in [Workers -> Handlers]
      /\ receipt.lock \in Nat /\ receipt.retry \in Nat
  BY WorkerFacts
<1>1. ASSUME NEW w \in Workers, HandlerStep(w) \/ HandlerFault(w) PROVE Tokens'
  BY <1>1, HandlerTokens
<1>2. ASSUME UNCHANGED <<worker, next, passed>>,
             receipt' = receipt \/ \E s : receipt' = Receipt(s),
             \A row \in outbox' : row \in outbox \/ row.gate < next
      PROVE  Tokens'
  BY <1>2, TokensSettle
<1>3. CASE PublisherStep \/ \E row \in outbox : PublishUnmarked(row)
  BY <1>2, <1>3 DEF PublisherStep, Publish, PublishUnmarked
<1>4. ASSUME NEW m \in queue, PersistMalformed(m) PROVE Tokens'
  <2>1. \A row \in outbox' : row \in outbox \/ row.gate < next
    BY <1>0, <1>4 DEF PersistMalformed, DeadLetterRow, NoToken
  <2>. QED  BY <1>2, <1>4, <2>1 DEF PersistMalformed
<1>5. ASSUME NEW m \in dlq, CollectDeadLetter(m) PROVE Tokens'
  BY <1>2, <1>5 DEF CollectDeadLetter
<1>6. CASE RetryFailure
  BY <1>6, TokensSettle DEF RetryFailure
<1>7. CASE CloseFailure \/ DeleteResolvedFailure \/ \E r \in passed : RetryOverdue(r)
  BY <1>2, <1>7 DEF CloseFailure, DeleteResolvedFailure, RetryOverdue
<1>8. ASSUME NEW t \in Awaited, DeadlinePasses(t) PROVE Tokens'
  <2>1. passed \subseteq passed' /\ \A u \in passed' : u < next'
    BY <1>8 DEF DeadlinePasses, Awaited, Tokens
  <2>. QED  BY <1>0, <1>8, <2>1 DEF DeadlinePasses, Tokens, At
<1>9. CASE UNCHANGED vars
  BY <1>2, <1>9 DEF vars
<1>. QED  BY <1>1, <1>3, <1>4, <1>5, <1>6, <1>7, <1>8, <1>9
          DEF Next, CollectorStep, Deadline

\* The ways in which a step may change the account.
Kept == /\ Senders' = Senders /\ sends' = sends /\ ambiguous' >= ambiguous
        /\ Free' => Free \/ ambiguous' > ambiguous
Started(w) == /\ Senders' = Senders \cup {w} /\ Free /\ ~Free'
              /\ sends' = sends /\ ambiguous' = ambiguous
Stopped(w) == /\ w \in Senders /\ Senders' = Senders \ {w}
              /\ sends' = sends /\ ambiguous' >= ambiguous
HasSent(w) == /\ w \in Senders /\ Senders' = Senders \ {w}
              /\ sends' = sends + 1 /\ ambiguous' >= ambiguous
              /\ Free' => Free \/ ambiguous' > ambiguous

\* Each of them keeps it balanced.
LEMMA Balance ==
  ASSUME Types, Types', Accounted,
         Kept \/ \E w : Started(w) \/ Stopped(w) \/ HasSent(w)
  PROVE  Accounted'
<1>0. sends \in Nat /\ sends' \in Nat /\ ambiguous \in Nat /\ ambiguous' \in Nat
  BY DEF Types
<1>1. IsFiniteSet(Senders) /\ Cardinality(Senders) \in Nat
  BY FS_CardinalityType DEF Accounted
<1>2. CASE Kept
  BY <1>0, <1>1, <1>2 DEF Kept, Accounted
<1>3. ASSUME NEW w, Started(w) PROVE Accounted'
  <2>1. /\ IsFiniteSet(Senders \cup {w})
        /\ Cardinality(Senders \cup {w}) =
              IF w \in Senders THEN Cardinality(Senders) ELSE Cardinality(Senders) + 1
    BY <1>1, FS_AddElement
  <2>2. /\ IsFiniteSet(Senders') /\ Cardinality(Senders') \in Nat
        /\ Cardinality(Senders') <= Cardinality(Senders) + 1
    BY <1>1, <1>3, <2>1 DEF Started
  <2>. QED  BY <1>0, <1>1, <1>3, <2>2 DEF Started, Accounted
<1>4. ASSUME NEW w, Stopped(w) \/ HasSent(w) PROVE Accounted'
  <2>1. IsFiniteSet(Senders') /\ Cardinality(Senders') = Cardinality(Senders) - 1
    BY <1>1, <1>4, FS_RemoveElement DEF Stopped, HasSent
  <2>2. Cardinality(Senders') \in Nat
    BY <2>1, FS_CardinalityType
  <2>. QED  BY <1>0, <1>1, <1>4, <2>1, <2>2 DEF Stopped, HasSent, Accounted
<1>. QED  BY <1>2, <1>3, <1>4

\* The holder of a claim is the only one: if it has not begun to send, the
\* claim may still lead to a send.
LEMMA HolderFree ==
  ASSUME Inv, Tokens, NEW w \in Workers, Owns(w), worker[w].pc \in HolderSteps,
         ~Committed(w), ~At(w, "sent")
  PROVE  Free
<1>1. ASSUME NEW v \in Workers, Engaged(v) PROVE FALSE
  <2>1. worker[v].pc \in HolderSteps /\ worker[v].tok = worker[w].tok
    BY <1>1 DEF Engaged, Committed, At, Owns, HolderSteps
  <2>. QED  BY <1>1, <2>1 DEF Tokens, Engaged
<1>. QED  BY <1>1 DEF Free, Owns, Final

\* A step that changes no handler that sends or has sent.
LEMMA Elsewhere ==
  ASSUME Inv, kind' = kind, UNCHANGED history,
         \A v \in Workers :
            \/ worker'[v] = worker[v]
            \/ /\ ~Committed(v) /\ ~At(v, "sent") /\ ~Committed(v)' /\ ~At(v, "sent")',
         UNCHANGED <<receipt, passed>> \/ Free \/ ~Free'
  PROVE  Kept
<1>1. Senders' = Senders
  BY DEF Senders, Committed, At
<1>2. CASE UNCHANGED <<receipt, passed>>
  <2>1. \A v \in Workers : Engaged(v)' <=> Engaged(v)
    BY <1>2 DEF Engaged, Committed, At
  <2>2. Free' <=> Free
    BY <1>2, <2>1 DEF Free
  <2>. QED  BY <1>1, <2>2 DEF Kept, history, Inv, Types
<1>. QED  BY <1>1, <1>2 DEF Kept, history, Inv, Types

\* The holder of a claim that is not yet sending has its claim settled.
LEMMA SettleAccount ==
  ASSUME Inv, Tokens, NEW w \in Workers, worker[w].pc \in HolderSteps, kind' = kind,
         worker' = [worker EXCEPT ![w] = Idle], UNCHANGED history,
         Owns(w), ~Committed(w), ~At(w, "sent")
  PROVE  Kept
<1>1. worker'[w] = Idle /\ \A v \in Workers \ {w} : worker'[v] = worker[v]
  BY NewRecord DEF Inv
<1>2. ~Committed(w)' /\ ~At(w, "sent")'
  BY <1>1 DEF Committed, At, Idle
<1>. QED  BY <1>1, <1>2, HolderFree, Elsewhere

\* A handler that leaves the database alone and does not send.
LEMMA QuietAccount ==
  ASSUME Inv, NEW w \in Workers, kind' = kind, UNCHANGED <<receipt, passed, history>>,
         \A v \in Workers \ {w} : worker'[v] = worker[v],
         ~Committed(w), ~At(w, "sent"), ~Committed(w)', ~At(w, "sent")'
  PROVE  Kept
  BY Elsewhere

\* A handler that will not send after all.
LEMMA StopAccount ==
  ASSUME Inv, NEW w \in Workers, kind' = kind, sends' = sends, ambiguous' >= ambiguous,
         \A v \in Workers \ {w} : worker'[v] = worker[v],
         Committed(w), ~Committed(w)'
  PROVE  Stopped(w)
<1>1. \A v \in Workers \ {w} : Committed(v)' <=> Committed(v)
  BY DEF Committed, At
<1>. QED  BY <1>1 DEF Stopped, Senders

\* A handler takes the claim.
LEMMA ClaimAccount ==
  ASSUME Inv, Tokens, NEW w \in Workers, Claim(w), kind' = kind,
         UNCHANGED <<passed, history>>, worker[w].pc \in ClaimSteps, Free
  PROVE  Kept \/ Started(w)
<1>0. /\ next \in Nat /\ worker \in [Workers -> Handlers] /\ passed \subseteq Nat
  BY WorkerFacts DEF Inv
<1>1. /\ worker'[w].tok = next /\ worker'[w].pc = FirstStep
      /\ \A v \in Workers \ {w} : worker'[v] = worker[v]
  BY <1>0, NewRecord DEF Inv, Claim, Handlers
<1>2. ~Committed(w) /\ ~At(w, "sent")
  BY DEF Committed, At, ClaimSteps
<1>3. receipt' = Processing(next)
  BY DEF Claim
<1>4. CASE kind \in Fenced
  <2>1. ~Committed(w)' /\ ~At(w, "sent")'
    BY <1>1, <1>4 DEF Committed, At, FirstStep, Contextual
  <2>. QED  BY <1>1, <1>2, <2>1, Elsewhere
<1>5. CASE kind \notin Fenced
  <2>1. Committed(w)'
    BY <1>1, <1>5 DEF Committed, At, FirstStep
  <2>2. Senders' = Senders \cup {w}
    BY <1>1, <2>1 DEF Senders, Committed, At
  <2>3. /\ receipt'.status = "PROCESSING" /\ receipt'.lock = next /\ next \notin passed'
    BY <1>0, <1>3 DEF Processing, Tokens
  <2>4. ~Free'
    BY <1>1, <2>1, <2>3 DEF Free, Engaged
  <2>. QED  BY <2>2, <2>4 DEF Started, history
<1>. QED  BY <1>4, <1>5

\* What a step does to the account: nothing, or one handler begins or ends.
Balanced == Kept \/ \E w : Started(w) \/ Stopped(w) \/ HasSent(w)

\* What the record of a handler that moves on is.
LEMMA Moved ==
  ASSUME Inv, NEW w \in Workers, NEW s, NEW e, Move(w, s, e)
  PROVE  /\ worker'[w].pc = s /\ worker'[w].tok = worker[w].tok
         /\ \A v \in Workers \ {w} : worker'[v] = worker[v]
<1>1. worker[w] \in Handlers
  BY DEF Inv, Types
<1>2. /\ worker'[w] = [worker[w] EXCEPT !.pc = s, !.err = e]
      /\ \A v \in Workers \ {w} : worker'[v] = worker[v]
  BY NewRecord DEF Inv, Move
<1>. QED  BY <1>1, <1>2 DEF Handlers

\* The claim: only who finds it free takes it.
LEMMA ClaimingAccount ==
  ASSUME Inv, Tokens, NEW w \in Workers,
         \/ \E m \in queue : Take(w, m)
         \/ ClaimCreate(w) \/ ClaimRead(w) \/ ClaimActivate(w) \/ ClaimReclaim(w)
         \/ ScheduleClaimRecovery(w)
  PROVE  Balanced
<1>. USE DEF db, time, request
<1>. DEFINE Quiet == ClaimSteps \cup {"idle"}
<1>0. /\ worker \in [Workers -> Handlers] /\ kind' = kind /\ UNCHANGED <<passed, history>>
      /\ worker[w].pc \in Quiet
  BY DEF Inv, Types, Take, ClaimCreate, ClaimRead, ClaimActivate, ClaimReclaim,
     ScheduleClaimRecovery, At, ClaimSteps
<1>1. ASSUME Claim(w), Free, worker[w].pc # "idle" PROVE Balanced
  BY <1>0, <1>1, ClaimAccount DEF Balanced
<1>2. ASSUME receipt' = receipt, worker'[w].pc \in Quiet,
             \A v \in Workers \ {w} : worker'[v] = worker[v]
      PROVE  Balanced
  <2>1. /\ ~Committed(w) /\ ~At(w, "sent") /\ ~Committed(w)' /\ ~At(w, "sent")'
    BY <1>0, <1>2 DEF Committed, At, ClaimSteps
  <2>. QED  BY <1>0, <1>2, <2>1, QuietAccount DEF Balanced
<1>3. ASSUME receipt' = receipt, worker' = [worker EXCEPT ![w] = Idle] PROVE Balanced
  <2>1. worker'[w] = Idle /\ \A v \in Workers \ {w} : worker'[v] = worker[v]
    BY <1>3, NewRecord DEF Inv
  <2>. QED  BY <1>2, <1>3, <2>1 DEF Idle
<1>4. ASSUME receipt' = receipt, NEW s \in ClaimSteps, Goto(w, s) PROVE Balanced
  BY <1>2, <1>4, Moved DEF Goto
<1>. HIDE DEF Quiet
<1>5. ASSUME NEW m \in queue, Take(w, m) PROVE Balanced
  <2>. DEFINE l == IF receipt.lock \in passed THEN receipt.lock ELSE NoToken
  <2>1. worker' = [worker EXCEPT ![w] = [Idle EXCEPT !.pc = "create", !.msg = m, !.late = l]]
    BY <1>5 DEF Take
  <2>. HIDE DEF l
  <2>2. /\ worker'[w] = [Idle EXCEPT !.pc = "create", !.msg = m, !.late = l]
        /\ \A v \in Workers \ {w} : worker'[v] = worker[v]
    BY <2>1, NewRecord DEF Inv
  <2>3. worker'[w].pc = "create"
    BY <2>2 DEF Idle
  <2>. QED  BY <1>2, <1>5, <2>2, <2>3 DEF Take, Quiet, ClaimSteps
<1>6. CASE ClaimCreate(w)
  <2>1. CASE receipt.status = "ABSENT"
    BY <1>1, <1>6, <2>1 DEF ClaimCreate, At, Free, Final
  <2>. QED  BY <1>4, <1>6, <2>1 DEF ClaimCreate, ClaimSteps
<1>7. CASE ClaimRead(w)
  <2>1. CASE worker' = [worker EXCEPT ![w] = [@ EXCEPT
               !.pc = IF worker[w].late = receipt.lock THEN "reclaim" ELSE "recover",
               !.tok = receipt.lock, !.late = NoToken]]
    <3>1. /\ worker'[w].pc \in {"reclaim", "recover"}
          /\ \A v \in Workers \ {w} : worker'[v] = worker[v]
      BY <1>0, <2>1, NewRecord DEF Inv, Handlers
    <3>. QED  BY <1>2, <1>7, <3>1 DEF ClaimRead, Quiet, ClaimSteps
  <2>2. CASE worker' = [worker EXCEPT ![w] = Idle] \/ Goto(w, "activate")
    BY <1>3, <1>4, <1>7, <2>2 DEF ClaimRead, ClaimSteps
  <2>. QED  BY <1>7, <2>1, <2>2 DEF ClaimRead, Nack, Ack
<1>8. CASE ClaimActivate(w)
  <2>1. CASE Claim(w) /\ receipt.status = "RETRY_SCHEDULED"
    BY <1>1, <1>8, <2>1 DEF ClaimActivate, At, Free, Final
  <2>. QED  BY <1>3, <1>8, <2>1 DEF ClaimActivate, Ack
<1>9. CASE ClaimReclaim(w)
  <2>1. CASE Claim(w) /\ Owns(w)
    <3>1. Free
      BY <1>9, <2>1 DEF ClaimReclaim, Owns, Tokens, Free, Final
    <3>. QED  BY <1>1, <1>9, <2>1, <3>1 DEF ClaimReclaim, At
  <2>. QED  BY <1>3, <1>9, <2>1 DEF ClaimReclaim, Ack
<1>10. CASE ScheduleClaimRecovery(w)
  BY <1>3, <1>10 DEF ScheduleClaimRecovery, Ack
<1>. QED  BY <1>5, <1>6, <1>7, <1>8, <1>9, <1>10

\* The context call, the check and the send.
LEMMA DeliverAccount ==
  ASSUME Inv, Tokens, NEW w \in Workers,
         \/ ResolveContext(w) \/ CheckClaim(w) \/ CheckMargin(w) \/ Send(w)
         \/ \E e \in Errors : AdapterFails(w, e)
         \/ SendAnswerLost(w)
  PROVE  Balanced
<1>. USE DEF db, time, request
<1>0. /\ kind' = kind /\ UNCHANGED <<receipt, passed>> /\ sends \in Nat /\ ambiguous \in Nat
  BY DEF Inv, Types, ResolveContext, CheckClaim, CheckMargin, Send, AdapterFails,
     SendAnswerLost
<1>1. ASSUME NEW s, NEW e, Move(w, s, e), UNCHANGED history,
             s \notin {"send", "context", "sent"}, ~At(w, "sent")
      PROVE  Balanced
  <2>1. /\ worker'[w].pc = s /\ \A v \in Workers \ {w} : worker'[v] = worker[v]
    BY <1>1, Moved
  <2>2. ~Committed(w)' /\ ~At(w, "sent")'
    BY <1>1, <2>1 DEF Committed, At
  <2>3. CASE Committed(w)
    BY <1>0, <1>1, <2>1, <2>2, <2>3, StopAccount DEF Balanced, history
  <2>4. CASE ~Committed(w)
    BY <1>0, <1>1, <2>1, <2>2, <2>4, QuietAccount DEF Balanced, history
  <2>. QED  BY <2>3, <2>4
<1>2. CASE ResolveContext(w) /\ kind = "invitation" /\ Goto(w, "send")
  <2>1. /\ worker'[w].pc = "send" /\ worker'[w].tok = worker[w].tok
        /\ \A v \in Workers \ {w} : worker'[v] = worker[v]
    BY <1>2, Moved DEF Goto
  <2>2. Committed(w) /\ Committed(w)'
    BY <1>2, <2>1 DEF Committed, At, ResolveContext, Fenced
  <2>3. \A v \in Workers : /\ Committed(v)' <=> Committed(v)
                           /\ Engaged(v)' <=> Engaged(v)
    BY <1>0, <2>1, <2>2 DEF Committed, Engaged, At
  <2>4. Senders' = Senders /\ (Free' <=> Free)
    BY <1>0, <2>3 DEF Senders, Free
  <2>. QED  BY <1>0, <1>2, <2>4 DEF Balanced, Kept, ResolveContext, history
<1>3. CASE CheckClaim(w) /\ Owns(w) /\ worker[w].tok \notin passed /\ Goto(w, "send")
  <2>1. /\ worker'[w].pc = "send" /\ worker'[w].tok = worker[w].tok
        /\ \A v \in Workers \ {w} : worker'[v] = worker[v]
    BY <1>3, Moved DEF Goto
  <2>2. Free
    BY <1>3, HolderFree DEF CheckClaim, At, Committed, HolderSteps
  <2>3. Committed(w)' /\ Engaged(w)'
    BY <1>0, <1>3, <2>1 DEF Committed, Engaged, At, Owns
  <2>4. ~Free'
    BY <1>0, <1>3, <2>3 DEF Free, Owns
  <2>5. Senders' = Senders \cup {w}
    BY <1>0, <2>1, <2>3 DEF Senders, Committed, At
  <2>. QED  BY <1>3, <2>2, <2>4, <2>5 DEF Balanced, Started, CheckClaim, history
<1>4. CASE Send(w) \/ SendAnswerLost(w)
  <2>1. PICK s \in {"sent", "failed"} :
            /\ worker'[w].pc = s /\ worker'[w].tok = worker[w].tok
            /\ \A v \in Workers \ {w} : worker'[v] = worker[v]
            /\ s = "failed" => SendAnswerLost(w)
    BY <1>4, Moved DEF Send, SendAnswerLost, Goto, Fail
  <2>2. Committed(w) /\ ~Committed(w)'
    BY <1>4, <2>1 DEF Send, SendAnswerLost, Committed, At
  <2>3. Senders' = Senders \ {w} /\ w \in Senders
    BY <1>0, <2>1, <2>2 DEF Senders, Committed, At
  <2>4. CASE s = "failed"
    BY <1>0, <2>1, <2>3, <2>4 DEF Balanced, HasSent, SendAnswerLost
  <2>5. CASE s = "sent"
    <3>1. \A v \in Workers : Engaged(v)' <=> Engaged(v)
      BY <1>0, <2>1, <2>2, <2>5 DEF Committed, Engaged, At
    <3>2. Free' <=> Free
      BY <1>0, <3>1 DEF Free
    <3>. QED  BY <1>0, <1>4, <2>3, <3>2 DEF Balanced, HasSent, Send, SendAnswerLost
  <2>. QED  BY <2>4, <2>5
<1>5. CASE CheckClaim(w) /\ ~(Owns(w) /\ worker[w].tok \notin passed)
  BY <1>1, <1>5 DEF CheckClaim, Fail, At
<1>6. CASE CheckMargin(w) \/ \E e \in Errors : AdapterFails(w, e)
  BY <1>1, <1>6 DEF CheckMargin, AdapterFails, Fail, At
<1>7. CASE ResolveContext(w) /\ ~(kind = "invitation" /\ Goto(w, "send"))
  BY <1>1, <1>7 DEF ResolveContext, Goto, At
<1>. QED  BY <1>2, <1>3, <1>4, <1>5, <1>6, <1>7 DEF CheckClaim

\* Finalizations and releases: a claim that is given up led to no send that
\* was recorded as one.
LEMMA FinalizeAccount ==
  ASSUME Inv, Tokens, NEW w \in Workers,
         \/ MarkDelivered(w) \/ MarkSkipped(w) \/ DeferReminderDelivery(w)
         \/ FinalizeDeliveryFailure(w) \/ FailureFinalizationLost(w)
         \/ FailureFinalizationFails(w) \/ ReleaseClaim(w)
  PROVE  Balanced
<1>. USE DEF db, time, request
<1>0. kind' = kind /\ UNCHANGED <<passed, history>>
  BY DEF MarkDelivered, MarkSkipped, DeferReminderDelivery, FinalizeDeliveryFailure,
     FailureFinalizationLost, FailureFinalizationFails, ReleaseClaim
<1>1. ambiguous \in Nat
  BY DEF Inv, Types
<1>2. CASE MarkDelivered(w)
  <2>1. worker'[w] = Idle /\ \A v \in Workers \ {w} : worker'[v] = worker[v]
    BY <1>2, NewRecord DEF Inv, MarkDelivered, Ack
  <2>2. ~Committed(w) /\ ~Committed(w)'
    BY <1>2, <2>1 DEF MarkDelivered, Committed, At, Idle
  <2>3. Senders' = Senders
    BY <1>0, <2>1, <2>2 DEF Senders, Committed, At
  <2>4. ~Free'
    BY <1>2 DEF MarkDelivered, Receipt, Free, Final
  <2>. QED  BY <1>0, <1>1, <2>3, <2>4 DEF Balanced, Kept, history
<1>3. ASSUME worker[w].pc \in {"skip", "defer", "failed", "release"}, Owns(w),
             worker' = [worker EXCEPT ![w] = Idle]
      PROVE  Balanced
  BY <1>0, <1>3, SettleAccount DEF Balanced, Committed, At, HolderSteps
<1>4. ASSUME receipt' = receipt, worker[w].pc \in {"failed", "release"},
             worker'[w].pc \in {"release", "idle"},
             \A v \in Workers \ {w} : worker'[v] = worker[v]
      PROVE  Balanced
  <2>1. ~Committed(w) /\ ~At(w, "sent") /\ ~Committed(w)' /\ ~At(w, "sent")'
    BY <1>4 DEF Committed, At
  <2>. QED  BY <1>0, <1>4, <2>1, QuietAccount DEF Balanced
<1>5. CASE MarkSkipped(w) \/ DeferReminderDelivery(w) \/ FinalizeDeliveryFailure(w)
  BY <1>3, <1>5 DEF MarkSkipped, DeferReminderDelivery, FinalizeDeliveryFailure, Ack, At
<1>6. CASE FailureFinalizationLost(w) \/ FailureFinalizationFails(w)
  <2>1. /\ worker'[w].pc = "release" /\ \A v \in Workers \ {w} : worker'[v] = worker[v]
    BY <1>6, Moved DEF FailureFinalizationLost, FailureFinalizationFails, Goto
  <2>. QED  BY <1>4, <1>6, <2>1 DEF FailureFinalizationLost, FailureFinalizationFails, At
<1>7. CASE ReleaseClaim(w)
  <2>1. worker' = [worker EXCEPT ![w] = Idle] /\ worker[w].pc = "release"
        /\ (~Owns(w) => receipt' = receipt)
    BY <1>7 DEF ReleaseClaim, Nack, At
  <2>2. worker'[w].pc = "idle" /\ \A v \in Workers \ {w} : worker'[v] = worker[v]
    <3>1. worker'[w] = Idle /\ \A v \in Workers \ {w} : worker'[v] = worker[v]
      BY <2>1, NewRecord DEF Inv
    <3>. QED  BY <3>1 DEF Idle
  <2>. QED  BY <1>3, <1>4, <2>1, <2>2
<1>. QED  BY <1>2, <1>5, <1>6, <1>7

\* A handler that gives its message back without a trace, or dies.
LEMMA AbortAccount ==
  ASSUME Inv, Tokens, NEW w \in Workers,
         FinalizationLost(w) \/ FinalizationFails(w) \/ ReleaseClaimFails(w) \/ Crash(w)
  PROVE  Balanced
<1>. USE DEF db, time, request
<1>0. /\ kind' = kind /\ UNCHANGED <<receipt, passed>> /\ sends' = sends
      /\ worker' = [worker EXCEPT ![w] = Idle] /\ ambiguous \in Nat
      /\ ambiguous' = ambiguous \/ (At(w, "sent") /\ ambiguous' = ambiguous + 1)
  BY DEF Inv, Types, FinalizationLost, FinalizationFails, ReleaseClaimFails, Crash, Nack,
     history
<1>1. worker'[w] = Idle /\ \A v \in Workers \ {w} : worker'[v] = worker[v]
  BY <1>0, NewRecord DEF Inv
<1>2. ~Committed(w)' /\ ~At(w, "sent")'
  BY <1>1 DEF Committed, At, Idle
<1>3. CASE Committed(w)
  BY <1>0, <1>1, <1>2, <1>3, StopAccount DEF Balanced
<1>4. CASE ~Committed(w) /\ ~At(w, "sent")
  BY <1>0, <1>1, <1>2, <1>4, QuietAccount DEF Balanced, history
<1>5. CASE At(w, "sent")
  <2>1. Senders' = Senders
    BY <1>0, <1>1, <1>2, <1>5 DEF Senders, Committed, At
  <2>2. CASE ambiguous' = ambiguous + 1
    BY <1>0, <2>1, <2>2 DEF Balanced, Kept
  <2>3. CASE FinalizationLost(w)
    <3>1. receipt.status = "PROCESSING" =>
            \A v \in Workers : Engaged(v)' <=> Engaged(v)
      BY <1>0, <1>1, <1>2, <2>3 DEF Engaged, Committed, At, FinalizationLost, Owns
    <3>2. Free' => Free
      BY <1>0, <3>1 DEF Free
    <3>. QED  BY <1>0, <2>1, <2>3, <3>2 DEF Balanced, Kept, FinalizationLost, history
  <2>. QED  BY <1>5, <2>2, <2>3 DEF FinalizationFails, ReleaseClaimFails, Crash, At
<1>. QED  BY <1>3, <1>4, <1>5

\* A deadline: a claim whose holder may still send is overrun at a price.
LEMMA TimeAccount ==
  ASSUME Inv, Tokens, NEW t, passed' = passed \cup {t}, kind' = kind,
         UNCHANGED <<receipt, worker>>, sends' = sends,
         \/ /\ ambiguous' = ambiguous
            /\ \A w \in Workers : Holds(w, t) => ~Committed(w) /\ ~At(w, "sent")
         \/ ambiguous' = ambiguous + 1
  PROVE  Kept
<1>0. ambiguous \in Nat
  BY DEF Inv, Types
<1>1. /\ Senders' = Senders /\ \A w \in Workers : Engaged(w)' <=> Engaged(w)
  BY DEF Senders, Engaged, Committed, At
<1>2. CASE ambiguous' = ambiguous + 1
  BY <1>0, <1>1, <1>2 DEF Kept
<1>3. CASE \A w \in Workers : Holds(w, t) => ~Committed(w) /\ ~At(w, "sent")
  <2>1. \A w \in Workers : receipt.lock = t => ~Engaged(w)
    BY <1>3 DEF Engaged, Holds, Committed, At, HolderSteps
  <2>2. Free' => Free
    BY <1>1, <2>1 DEF Free
  <2>. QED  BY <1>0, <1>1, <2>2 DEF Kept
<1>. QED  BY <1>2, <1>3

\* Every step keeps the account.
LEMMA BalancedStep ==
  ASSUME Inv, Tokens, [Next]_vars PROVE Balanced
<1>. USE DEF db, time, request
<1>0. ambiguous \in Nat
  BY DEF Inv, Types
<1>1. ASSUME UNCHANGED <<kind, worker, history>>,
             UNCHANGED <<receipt, passed>> \/ Free \/ ~Free'
      PROVE  Balanced
  BY <1>1, Elsewhere DEF Balanced
<1>2. ASSUME NEW w \in Workers, HandlerStep(w) PROVE Balanced
  BY <1>2, ClaimingAccount, DeliverAccount, FinalizeAccount, AbortAccount DEF HandlerStep
<1>3. ASSUME NEW w \in Workers, LeaseOverrun(w) PROVE Balanced
  <2>1. worker[w].pc \in HolderSteps
    BY <1>3 DEF LeaseOverrun
  <2>2. CASE Committed(w) \/ At(w, "sent")
    <3>1. ambiguous' = ambiguous + 1
      BY <1>3, <2>2 DEF LeaseOverrun, Committed, At
    <3>. QED  BY <1>3, <3>1, TimeAccount DEF LeaseOverrun, Balanced
  <2>3. CASE ~Committed(w) /\ ~At(w, "sent")
    <3>1. \A v \in Workers : Holds(v, worker[w].tok) => v = w
      BY <2>1 DEF Tokens, Holds
    <3>2. ambiguous' = ambiguous
      BY <1>0, <1>3, <2>3 DEF LeaseOverrun, Committed, At
    <3>. QED  BY <1>3, <2>3, <3>1, <3>2, TimeAccount DEF LeaseOverrun, Balanced
  <2>. QED  BY <2>2, <2>3
<1>4. ASSUME NEW w \in Workers, HandlerFault(w), ~LeaseOverrun(w) PROVE Balanced
  <2>1. CASE ChannelLost(w)
    BY <1>1, <2>1 DEF ChannelLost
  <2>. QED
    BY <1>4, <2>1, DeliverAccount, FinalizeAccount, AbortAccount DEF HandlerFault
<1>5. CASE PublisherStep \/ \E row \in outbox : PublishUnmarked(row)
  BY <1>1, <1>5 DEF PublisherStep, Publish, PublishUnmarked
<1>6. CASE CollectorStep
  <2>1. /\ UNCHANGED <<kind, worker, history, passed>>
        /\ receipt' = receipt \/ receipt.status \in {"ABSENT", "DEAD_LETTERED"}
    BY <1>6 DEF CollectorStep, PersistMalformed, CollectDeadLetter
  <2>. QED  BY <1>1, <2>1 DEF Free, Final
<1>7. CASE RetryFailure
  <2>1. Free
    BY <1>7 DEF RetryFailure, Free, Final
  <2>. QED  BY <1>1, <1>7, <2>1 DEF RetryFailure
<1>8. CASE CloseFailure
  <2>1. Free
    BY <1>8 DEF CloseFailure, Free, Final
  <2>. QED  BY <1>1, <1>8, <2>1 DEF CloseFailure
<1>9. CASE DeleteResolvedFailure \/ \E r \in passed : RetryOverdue(r)
  BY <1>1, <1>9 DEF DeleteResolvedFailure, RetryOverdue
<1>10. ASSUME NEW t \in Awaited, DeadlinePasses(t) PROVE Balanced
  BY <1>10, TimeAccount DEF DeadlinePasses, Balanced, history
<1>11. CASE UNCHANGED vars
  BY <1>1, <1>11 DEF vars
<1>. QED  BY <1>2, <1>3, <1>4, <1>5, <1>6, <1>7, <1>8, <1>9, <1>10, <1>11
          DEF Next, Deadline

\* The account holds in every state.
LEMMA Accounting == Spec => [](Tokens /\ Accounted)
<1>1. Init => Tokens /\ Accounted
  <2>. SUFFICES ASSUME Init PROVE Tokens /\ Accounted
    OBVIOUS
  <2>1. Tokens
    BY DEF Init, Tokens, Receipt, RequestRow, NoToken, Idle, At, HolderSteps
  <2>2. Senders = {}
    BY DEF Init, Senders, Committed, At, Idle
  <2>3. IsFiniteSet(Senders) /\ Cardinality(Senders) = 0
    BY <2>2, FS_EmptySet
  <2>. QED  BY <2>1, <2>3 DEF Init, Accounted
<1>2. Inv /\ Inv' /\ Tokens /\ Accounted /\ [Next]_vars => Tokens' /\ Accounted'
  BY TokensStep, BalancedStep, Balance DEF Inv, Balanced
<1>. QED  BY <1>1, <1>2, Invariance, PTL DEF Spec

(***************************************************************************)
(* The provider gets a notification at most once more often than there     *)
(* were sends whose result the service could not know.                     *)
(***************************************************************************)
THEOREM SendsBounded == Spec => []SendsAccounted
<1>1. Inv /\ Accounted => SendsAccounted
  <2>. SUFFICES ASSUME Inv, Accounted PROVE SendsAccounted
    OBVIOUS
  <2>1. Cardinality(Senders) \in Nat /\ sends \in Nat /\ ambiguous \in Nat
    BY FS_CardinalityType DEF Accounted, Inv, Types
  <2>. QED  BY <2>1 DEF Accounted, SendsAccounted
<1>. QED  BY <1>1, Invariance, Accounting, PTL
-----------------------------------------------------------------------------
(* The contract of a consumer *)

\* Who has an answer of the provider has sent.
SentIsSent == \A w \in Workers : At(w, "sent") => sends > 0

\* Only a send brings a handler to "sent".
LEMMA SentStep ==
  ASSUME Inv, SentIsSent, sends' \in Nat, sends' >= sends, [Next]_vars
  PROVE  SentIsSent'
<1>. USE DEF db, time, request
<1>0. worker \in [Workers -> Handlers] /\ sends \in Nat
  BY DEF Inv, Types
<1>1. ASSUME worker' = worker PROVE SentIsSent'
  BY <1>0, <1>1 DEF SentIsSent, At
<1>2. ASSUME NEW w \in Workers, worker'[w].pc # "sent",
             \A v \in Workers \ {w} : worker'[v] = worker[v]
      PROVE  SentIsSent'
  BY <1>0, <1>2 DEF SentIsSent, At
<1>3. ASSUME NEW w \in Workers, worker' = [worker EXCEPT ![w] = Idle] PROVE SentIsSent'
  <2>1. worker'[w] = Idle /\ \A v \in Workers \ {w} : worker'[v] = worker[v]
    BY <1>3, NewRecord DEF Inv
  <2>. QED  BY <1>2, <2>1, IdleType
<1>4. ASSUME NEW w \in Workers, NEW s, NEW e, s # "sent", Move(w, s, e) PROVE SentIsSent'
  <2>1. worker'[w].pc = s /\ \A v \in Workers \ {w} : worker'[v] = worker[v]
    BY <1>4, Moved
  <2>. QED  BY <1>0, <1>4, <2>1 DEF SentIsSent, At
<1>5. ASSUME NEW w \in Workers, Claim(w) PROVE SentIsSent'
  <2>1. worker'[w].pc = FirstStep /\ \A v \in Workers \ {w} : worker'[v] = worker[v]
    BY <1>0, <1>5, NewRecord DEF Inv, Claim, Handlers
  <2>2. FirstStep # "sent"
    BY DEF FirstStep
  <2>. QED  BY <1>0, <2>1, <2>2 DEF SentIsSent, At
<1>6. ASSUME NEW w \in Workers, NEW m \in queue, Take(w, m) PROVE SentIsSent'
  <2>. DEFINE l == IF receipt.lock \in passed THEN receipt.lock ELSE NoToken
  <2>1. worker' = [worker EXCEPT ![w] = [Idle EXCEPT !.pc = "create", !.msg = m, !.late = l]]
    BY <1>6 DEF Take
  <2>. HIDE DEF l
  <2>2. /\ worker'[w] = [Idle EXCEPT !.pc = "create", !.msg = m, !.late = l]
        /\ \A v \in Workers \ {w} : worker'[v] = worker[v]
    BY <2>1, NewRecord DEF Inv
  <2>3. worker'[w].pc = "create"
    BY <2>2 DEF Idle
  <2>. QED  BY <1>2, <2>2, <2>3
<1>7. ASSUME NEW w \in Workers, ClaimRead(w) PROVE SentIsSent'
  <2>1. CASE worker' = [worker EXCEPT ![w] = [@ EXCEPT
               !.pc = IF worker[w].late = receipt.lock THEN "reclaim" ELSE "recover",
               !.tok = receipt.lock, !.late = NoToken]]
    <3>1. /\ worker'[w].pc \in {"reclaim", "recover"}
          /\ \A v \in Workers \ {w} : worker'[v] = worker[v]
      BY <1>0, <2>1, NewRecord DEF Inv, Handlers
    <3>. QED  BY <1>0, <3>1 DEF SentIsSent, At
  <2>2. CASE worker' = [worker EXCEPT ![w] = Idle] \/ Goto(w, "activate")
    BY <1>3, <1>4, <2>2 DEF Goto
  <2>. QED  BY <1>7, <2>1, <2>2 DEF ClaimRead, Nack, Ack
<1>8. ASSUME NEW w \in Workers, Send(w) PROVE SentIsSent'
  BY <1>0, <1>8 DEF Send, SentIsSent
<1>9. ASSUME NEW w \in Workers, HandlerStep(w) PROVE SentIsSent'
  <2>1. CASE ClaimCreate(w) \/ ClaimActivate(w) \/ ClaimReclaim(w)
    BY <1>3, <1>4, <1>5, <2>1 DEF ClaimCreate, ClaimActivate, ClaimReclaim, Goto, Ack
  <2>2. CASE ResolveContext(w) \/ CheckClaim(w) \/ CheckMargin(w)
             \/ (\E e \in Errors : AdapterFails(w, e)) \/ FailureFinalizationLost(w)
    BY <1>4, <2>2 DEF ResolveContext, CheckClaim, CheckMargin, AdapterFails,
       FailureFinalizationLost, Goto, Fail
  <2>3. CASE ScheduleClaimRecovery(w) \/ MarkDelivered(w) \/ MarkSkipped(w)
             \/ DeferReminderDelivery(w) \/ FinalizeDeliveryFailure(w)
    BY <1>3, <2>3 DEF ScheduleClaimRecovery, MarkDelivered, MarkSkipped,
       DeferReminderDelivery, FinalizeDeliveryFailure, Ack
  <2>4. CASE FinalizationLost(w) \/ ReleaseClaim(w)
    BY <1>3, <2>4 DEF FinalizationLost, ReleaseClaim, Nack
  <2>. QED  BY <1>6, <1>7, <1>8, <1>9, <2>1, <2>2, <2>3, <2>4 DEF HandlerStep
<1>10. ASSUME NEW w \in Workers, HandlerFault(w) PROVE SentIsSent'
  <2>1. CASE FinalizationFails(w) \/ ReleaseClaimFails(w) \/ Crash(w)
    BY <1>3, <2>1 DEF FinalizationFails, ReleaseClaimFails, Crash, Nack
  <2>2. CASE SendAnswerLost(w) \/ FailureFinalizationFails(w)
    BY <1>4, <2>2 DEF SendAnswerLost, FailureFinalizationFails, Fail, Goto
  <2>3. CASE ChannelLost(w) \/ LeaseOverrun(w)
    BY <1>1, <2>3 DEF ChannelLost, LeaseOverrun
  <2>. QED  BY <1>10, <2>1, <2>2, <2>3 DEF HandlerFault
<1>11. CASE PublisherStep \/ CollectorStep \/ Deadline \/ RetryFailure \/ CloseFailure
            \/ DeleteResolvedFailure \/ (\E row \in outbox : PublishUnmarked(row))
            \/ (\E r \in passed : RetryOverdue(r)) \/ UNCHANGED vars
  BY <1>1, <1>11 DEF PublisherStep, CollectorStep, Deadline, RetryFailure, CloseFailure,
     DeleteResolvedFailure, PublishUnmarked, RetryOverdue, vars, Publish,
     PersistMalformed, CollectDeadLetter, DeadlinePasses
<1>. QED  BY <1>9, <1>10, <1>11 DEF Next

\* A handler about to send is counted: the send is the first, or answers a doubt.
LEMMA SendIsDue ==
  ASSUME Inv, Accounted, NEW w \in Workers, At(w, "send")
  PROVE  sends <= ambiguous
<1>1. w \in Senders
  BY DEF Senders, Committed
<1>2. Cardinality(Senders) \in Nat /\ Cardinality(Senders) # 0
  BY <1>1, FS_CardinalityType, FS_EmptySet DEF Accounted
<1>. QED  BY <1>2 DEF Accounted, Inv, Types

\* Every step is one of the contract or none.
LEMMA ContractStep ==
  ASSUME Inv, Accounted, SentIsSent, [Next]_vars
  PROVE  [Contract!Next]_(Contract!cvars)
<1>. USE DEF db, time, request
<1>. DEFINE Goal == [Contract!Next]_(Contract!cvars)
            Open == {"ABSENT", "PROCESSING", "RETRY_SCHEDULED"}
<1>0. /\ receipt \in ReceiptRows /\ receipt.status \in Statuses
      /\ sends \in Nat /\ ambiguous \in Nat
  BY DEF Inv, Types, ReceiptRows
<1>1. ASSUME receipt'.status = receipt.status, UNCHANGED history PROVE Goal
  BY <1>1 DEF Phase, history, Contract!cvars
<1>2. ASSUME receipt.status \in Open, receipt'.status \in Open, UNCHANGED history PROVE Goal
  BY <1>2 DEF Phase, history, Contract!cvars
<1>3. ASSUME receipt.status \in Open, receipt'.status = "DEAD_LETTERED", UNCHANGED history
      PROVE  Goal
  BY <1>3 DEF Phase, history, Contract!Next, Contract!GiveUp, Contract!Move
<1>4. ASSUME receipt' = receipt, sends' = sends,
             ambiguous' = ambiguous \/ ambiguous' = ambiguous + 1
      PROVE  Goal
  BY <1>4 DEF Phase, Contract!Next, Contract!Doubt, Contract!cvars
<1>5. ASSUME NEW w \in Workers, Send(w) \/ SendAnswerLost(w) PROVE Goal
  <2>1. sends <= ambiguous
    BY <1>5, SendIsDue DEF Send, SendAnswerLost
  <2>2. /\ receipt' = receipt /\ sends' = sends + 1
        /\ ambiguous' \in {ambiguous, ambiguous + 1}
    BY <1>5 DEF Send, SendAnswerLost
  <2>. QED  BY <2>1, <2>2 DEF Phase, Contract!Next, Contract!Work
<1>6. ASSUME NEW w \in Workers, MarkDelivered(w) PROVE Goal
  <2>1. sends > 0 /\ receipt.status = "PROCESSING" /\ receipt'.status = "DELIVERED"
    BY <1>6 DEF MarkDelivered, SentIsSent, Owns, Receipt
  <2>. QED
    BY <1>6, <2>1 DEF Phase, MarkDelivered, history, Contract!Next, Contract!Deliver,
       Contract!Move
<1>7. ASSUME NEW w \in Workers, MarkSkipped(w) PROVE Goal
  <2>1. receipt.status = "PROCESSING" /\ receipt'.status = "CLOSED_NO_RETRY"
    BY <1>7 DEF MarkSkipped, Owns, Receipt
  <2>. QED
    BY <1>7, <2>1 DEF Phase, MarkSkipped, history, Contract!Next, Contract!Drop, Contract!Move
<1>8. ASSUME NEW w \in Workers, HandlerStep(w) PROVE Goal
  <2>1. CASE (\E m \in queue : Take(w, m)) \/ ClaimRead(w) \/ ScheduleClaimRecovery(w)
             \/ ResolveContext(w) \/ CheckClaim(w) \/ CheckMargin(w)
             \/ (\E e \in Errors : AdapterFails(w, e))
             \/ FinalizationLost(w) \/ FailureFinalizationLost(w)
    BY <1>1, <2>1 DEF Take, ClaimRead, ScheduleClaimRecovery, ResolveContext, CheckClaim,
       CheckMargin, AdapterFails, FinalizationLost, FailureFinalizationLost
  <2>2. CASE ClaimCreate(w) \/ ClaimActivate(w) \/ ClaimReclaim(w)
    <3>1. UNCHANGED history
      BY <2>2 DEF ClaimCreate, ClaimActivate, ClaimReclaim
    <3>2. \/ receipt' = receipt
          \/ receipt.status \in Open /\ receipt'.status = "PROCESSING"
      BY <2>2 DEF ClaimCreate, ClaimActivate, ClaimReclaim, Claim, Owns, Processing
    <3>. QED  BY <1>1, <1>2, <3>1, <3>2
  <2>3. CASE DeferReminderDelivery(w)
    <3>1. receipt.status \in Open /\ receipt'.status = "RETRY_SCHEDULED"
      BY <2>3 DEF DeferReminderDelivery, Owns, RetryScheduled
    <3>. QED  BY <1>2, <2>3, <3>1 DEF DeferReminderDelivery
  <2>4. CASE FinalizeDeliveryFailure(w)
    <3>1. /\ receipt.status \in Open
          /\ receipt'.status \in {"RETRY_SCHEDULED", "DEAD_LETTERED"}
      BY <2>4 DEF FinalizeDeliveryFailure, Owns, ScheduleRetry, MoveToDeadLetter,
         RetryScheduled, Receipt
    <3>. QED  BY <1>2, <1>3, <2>4, <3>1 DEF FinalizeDeliveryFailure
  <2>5. CASE ReleaseClaim(w)
    <3>1. receipt' = receipt \/ (receipt.status \in Open /\ receipt'.status = "ABSENT")
      BY <2>5 DEF ReleaseClaim, Owns, Receipt
    <3>. QED  BY <1>1, <1>2, <2>5, <3>1 DEF ReleaseClaim
  <2>. QED
    BY <1>5, <1>6, <1>7, <1>8, <2>1, <2>2, <2>3, <2>4, <2>5 DEF HandlerStep
<1>9. ASSUME NEW w \in Workers, HandlerFault(w) PROVE Goal
  <2>1. CASE ChannelLost(w) \/ FailureFinalizationFails(w) \/ ReleaseClaimFails(w)
    BY <1>1, <2>1 DEF ChannelLost, FailureFinalizationFails, ReleaseClaimFails
  <2>2. CASE FinalizationFails(w) \/ LeaseOverrun(w) \/ Crash(w)
    <3>1. receipt' = receipt /\ sends' = sends
      BY <2>2 DEF FinalizationFails, LeaseOverrun, Crash
    <3>2. ambiguous' = ambiguous \/ ambiguous' = ambiguous + 1
      BY <1>0, <2>2 DEF FinalizationFails, LeaseOverrun, Crash
    <3>. QED  BY <1>4, <3>1, <3>2
  <2>. QED  BY <1>5, <1>9, <2>1, <2>2 DEF HandlerFault
<1>10. CASE CollectorStep
  <2>1. /\ UNCHANGED history
        /\ \/ receipt' = receipt
           \/ /\ receipt.status \in {"ABSENT", "DEAD_LETTERED"}
              /\ receipt'.status = "DEAD_LETTERED"
    BY <1>10 DEF CollectorStep, PersistMalformed, CollectDeadLetter, Receipt
  <2>. QED  BY <1>1, <1>3, <2>1
<1>11. CASE RetryFailure
  <2>1. /\ receipt.status \in {"DEAD_LETTERED", "RETRY_SCHEDULED"}
        /\ receipt'.status = "RETRY_SCHEDULED" /\ UNCHANGED history
    BY <1>11 DEF RetryFailure, RetryScheduled
  <2>2. CASE receipt.status = "DEAD_LETTERED"
    BY <2>1, <2>2 DEF Phase, history, Contract!Next, Contract!Retry, Contract!Move
  <2>. QED  BY <1>2, <2>1, <2>2
<1>12. CASE CloseFailure
  <2>1. /\ receipt.status = "DEAD_LETTERED"
        /\ receipt'.status = "CLOSED_NO_RETRY" /\ UNCHANGED history
    BY <1>12 DEF CloseFailure, Receipt
  <2>. QED
    BY <2>1 DEF Phase, history, Contract!Next, Contract!Close, Contract!Move
<1>13. CASE PublisherStep \/ Deadline \/ DeleteResolvedFailure
            \/ (\E row \in outbox : PublishUnmarked(row))
            \/ (\E r \in passed : RetryOverdue(r)) \/ UNCHANGED vars
  BY <1>1, <1>13 DEF PublisherStep, Deadline, DeleteResolvedFailure, PublishUnmarked,
     RetryOverdue, vars, Publish, DeadlinePasses
<1>. QED  BY <1>8, <1>9, <1>10, <1>11, <1>12, <1>13 DEF Next

(***************************************************************************)
(* The consumer of notifications implements the contract, for any number   *)
(* of handlers, faults, deferrals and operator retries.                    *)
(***************************************************************************)
THEOREM ContractRefined == Spec => ImplementsContract
<1>1. Init => Contract!Init /\ SentIsSent
  <2>. SUFFICES ASSUME Init PROVE Contract!Init /\ SentIsSent
    OBVIOUS
  <2>1. Phase = "open"
    BY DEF Init, Phase, Receipt
  <2>2. SentIsSent
    BY DEF Init, SentIsSent, At, Idle
  <2>. QED  BY <2>1, <2>2 DEF Init, Contract!Init
<1>2. Inv /\ Tokens /\ SentIsSent /\ [Next]_vars /\ Inv' => SentIsSent'
  <2>. SUFFICES ASSUME Inv, Tokens, SentIsSent, [Next]_vars, Inv' PROVE SentIsSent'
    OBVIOUS
  <2>1. sends \in Nat /\ sends' \in Nat
    BY DEF Inv, Types
  <2>2. sends' = sends \/ sends' = sends + 1
    BY BalancedStep DEF Balanced, Kept, Started, Stopped, HasSent
  <2>. QED  BY <2>1, <2>2, SentStep
<1>3. Inv /\ Accounted /\ SentIsSent /\ [Next]_vars => [Contract!Next]_(Contract!cvars)
  BY ContractStep
<1>. QED
  BY <1>1, <1>2, <1>3, Invariance, Accounting, PTL DEF Spec, ImplementsContract, Contract!Spec
=============================================================================
