------------------------- MODULE BillingInboxProofs -------------------------
(***************************************************************************)
(* Proofs about BillingInbox: types, the one way to lose an event, what an *)
(* operator can do about a failure, and the contract of a consumer.        *)
(***************************************************************************)
EXTENDS BillingInbox, FiniteSetTheorems, TLAPS

\* Something will bring the event to claimReceipt again: a row, a message in
\* the queue, or a handler whose message the broker would take back.
Pending ==
    \/ \E n \in Attempts : ready[n] > 0 \/ rows[n] > 0
    \/ \E c \in Handlers : h[c].pc = "claim" /\ ~h[c].lost

\* An event that waits to be claimed is pending, or reported as invalid.
WaitingIsPending ==
    receipt.status \in {"NONE", "RETRY_SCHEDULED"}
        => Pending \/ (~valid /\ failure.status # "NONE")

\* A retry that is not due has its row.
WaitHasRow == receipt.wait => \E n \in Attempts : rows[n] > 0

ProcessingHasClaim == receipt.status = "PROCESSING" => receipt.claim \in Handlers

\* A handler at work that is named by the receipt holds it, or has written its
\* delivery to it.
HolderIsProcessing == \A c \in Handlers :
    h[c].pc \in Working /\ receipt.claim = c
        => /\ h[c].pc \in {"deliver", "record"} => receipt.status = "PROCESSING"
           /\ h[c].pc \in {"resolve", "confirm"} => receipt.status = "DELIVERED"
           /\ h[c].pc = "fail" => receipt.status \in {"PROCESSING", "DELIVERED"}

\* The failure of a finished event, as long as nothing was left apart.
FailureOfFinal ==
    valid /\ ~torn =>
        /\ receipt.status \in {"DELIVERED", "CLOSED_NO_RETRY"}
            => \/ failure.status \in {"NONE", "RESOLVED"}
               \/ \E c \in Handlers : Halfway(c)
        /\ receipt.status = "DEAD_LETTERED" => ~failure.retrying

IInv == /\ TypeOK
        /\ WaitingIsPending
        /\ WaitHasRow
        /\ ProcessingHasClaim
        /\ HolderIsProcessing
        /\ FailureOfFinal

-----------------------------------------------------------------------------
\* What the updates the actions are made of do

\* A counter with one more is a counter, and not zero.
LEMMA PlusType ==
  ASSUME NEW f \in [Attempts -> Nat], NEW n \in Attempts
  PROVE  /\ Plus(f, n) \in [Attempts -> Nat]
         /\ Plus(f, n)[n] > 0
         /\ \A m \in Attempts : f[m] > 0 => Plus(f, n)[m] > 0
  BY DEF Plus

\* A counter with one less is a counter if it was not zero.
LEMMA MinusType ==
  ASSUME NEW f \in [Attempts -> Nat], NEW n \in Attempts, f[n] > 0
  PROVE  Minus(f, n) \in [Attempts -> Nat]
  BY DEF Minus

\* A handler that goes to another step changes nothing else.
LEMMA GoType ==
  ASSUME h \in [Handlers -> HandlerStates], NEW c \in Handlers,
         NEW s \in {"idle", "claim", "ack"} \cup Working, Go(c, s)
  PROVE  /\ h' \in [Handlers -> HandlerStates]
         /\ h'[c].pc = s
         /\ \A d \in Handlers \ {c} : h'[d] = h[d]
  BY DEF Go, HandlerStates

\* A handler that ends is idle and the others are as they were.
LEMMA IdleType ==
  ASSUME h \in [Handlers -> HandlerStates], NEW c \in Handlers,
         h' = [h EXCEPT ![c] = Idle]
  PROVE  /\ h' \in [Handlers -> HandlerStates]
         /\ h'[c].pc = "idle"
         /\ \A d \in Handlers \ {c} : h'[d] = h[d]
<1>1. Idle \in HandlerStates
  BY InboxAssumption DEF Idle, HandlerStates, Attempts
<1>2. Idle.pc = "idle"
  BY DEF Idle
<1> QED
  BY <1>1, <1>2

\* A handler that takes a message is about to claim it.
LEMMA TakeType ==
  ASSUME h \in [Handlers -> HandlerStates], NEW c \in Handlers, NEW n \in Attempts,
         h' = [h EXCEPT ![c] = [Idle EXCEPT !.pc = "claim", !.n = n]]
  PROVE  /\ h' \in [Handlers -> HandlerStates]
         /\ h'[c].pc = "claim" /\ ~h'[c].lost
         /\ \A d \in Handlers \ {c} : h'[d] = h[d]
<1> DEFINE r == [Idle EXCEPT !.pc = "claim", !.n = n]
<1>1. r \in HandlerStates /\ r.pc = "claim" /\ ~r.lost
  BY DEF Idle, HandlerStates
<1> QED
  BY <1>1

\* A handler whose channel is lost goes on.
LEMMA LostType ==
  ASSUME h \in [Handlers -> HandlerStates], NEW c \in Handlers,
         h' = [h EXCEPT ![c].lost = TRUE]
  PROVE  /\ h' \in [Handlers -> HandlerStates]
         /\ h'[c].pc = h[c].pc
         /\ \A d \in Handlers \ {c} : h'[d] = h[d]
  BY DEF HandlerStates

\* The broker takes back a message that was not taken back before.
LEMMA RequeueType ==
  ASSUME TypeOK, NEW c \in Handlers, Requeue(c)
  PROVE  /\ ready' \in [Attempts -> Nat]
         /\ \A m \in Attempts : ready[m] > 0 => ready'[m] > 0
         /\ ~h[c].lost => \E n \in Attempts : ready'[n] > 0
<1>1. h[c].n \in Attempts
  BY DEF TypeOK, HandlerStates
<1> QED
  BY <1>1, PlusType DEF TypeOK, Requeue

\* A fault is counted within its bound.
LEMMA FaultType ==
  ASSUME TypeOK, NEW kind, Fault(kind) PROVE faults' \in 0..MaxFaults
  BY InboxAssumption DEF TypeOK, Fault

-----------------------------------------------------------------------------
\* Types

\* The invariant holds before the first message is handled.
LEMMA InitInv == Init => IInv
<1> SUFFICES ASSUME Init PROVE IInv
  OBVIOUS
<1>1. 0 \in Attempts /\ ready[0] = 1
  BY InboxAssumption DEF Init, Attempts
<1>2. \A c \in Handlers : h[c] = Idle
  BY DEF Init
<1>3. Idle \in HandlerStates /\ Idle.pc = "idle"
  BY <1>1 DEF Idle, HandlerStates
<1>4. TypeOK
  <2>1. h \in [Handlers -> HandlerStates]
    BY <1>3 DEF Init
  <2>2. ready \in [Attempts -> Nat] /\ rows \in [Attempts -> Nat]
    BY DEF Init
  <2>3. receipt \in [status: ReceiptStatuses, claim: Handlers \cup {Nobody}, wait: BOOLEAN]
    BY DEF Init, NoReceipt, ReceiptStatuses
  <2>4. failure \in [status: {"NONE", "OPEN", "RETRY_PENDING", "RESOLVED"},
                      retrying: BOOLEAN]
    BY DEF Init, NoFailure
  <2>5. manual \in 0..MaxManual /\ faults \in 0..MaxFaults
    BY InboxAssumption DEF Init
  <2> QED
    BY <2>1, <2>2, <2>3, <2>4, <2>5 DEF Init, TypeOK
<1>5. Pending
  BY <1>1 DEF Pending
<1> QED
  BY <1>2, <1>3, <1>4, <1>5
  DEF Init, IInv, WaitingIsPending, WaitHasRow, ProcessingHasClaim,
      HolderIsProcessing, FailureOfFinal, Working, NoReceipt, NoFailure

\* Every step keeps the types.
LEMMA TypeStep == TypeOK /\ [Next]_vars => TypeOK'
<1> SUFFICES ASSUME TypeOK, [Next]_vars PROVE TypeOK'
  OBVIOUS
<1> USE InboxAssumption DEF ReceiptStatuses, Final, history
<1>1. ASSUME NEW c \in Handlers, Take(c) PROVE TypeOK'
  <2>1. PICK n \in Attempts : /\ ready[n] > 0 /\ ready' = Minus(ready, n)
                             /\ h' = [h EXCEPT ![c] = [Idle EXCEPT !.pc = "claim", !.n = n]]
    BY <1>1 DEF Take
  <2> QED
    BY <1>1, <2>1, MinusType, TakeType DEF TypeOK, Take
<1>2. ASSUME NEW c \in Handlers, Ack(c) PROVE TypeOK'
  BY <1>2, IdleType DEF TypeOK, Ack
<1>3. ASSUME NEW c \in Handlers, FinalFailure(c) PROVE TypeOK'
  BY <1>3, GoType DEF TypeOK, FinalFailure
<1>4. ASSUME NEW c \in Handlers, ClaimReceipt(c) PROVE TypeOK'
  <2>1. h' \in [Handlers -> HandlerStates]
    BY <1>4, GoType DEF TypeOK, ClaimReceipt, Working
  <2>2. receipt' \in [status: ReceiptStatuses, claim: Handlers \cup {Nobody}, wait: BOOLEAN]
    <3>1. \/ receipt' = receipt
          \/ receipt' = [status |-> "PROCESSING", claim |-> c, wait |-> FALSE]
      BY <1>4 DEF ClaimReceipt
    <3>2. receipt' = receipt => receipt' \in [status: ReceiptStatuses,
                                    claim: Handlers \cup {Nobody}, wait: BOOLEAN]
      BY DEF TypeOK
    <3>3. [status |-> "PROCESSING", claim |-> c, wait |-> FALSE]
            \in [status: ReceiptStatuses, claim: Handlers \cup {Nobody}, wait: BOOLEAN]
      BY DEF ReceiptStatuses
    <3> QED
      BY <3>1, <3>2, <3>3
  <2>3. lapsed' \in BOOLEAN
    BY <1>4 DEF TypeOK, ClaimReceipt
  <2> QED
    BY <1>4, <2>1, <2>2, <2>3 DEF TypeOK, ClaimReceipt
<1>5. ASSUME NEW c \in Handlers, Deliver(c) PROVE TypeOK'
  <2>1. h' \in [Handlers -> HandlerStates]
    BY <1>5, GoType DEF TypeOK, Deliver, Working
  <2>2. done' \in Nat
    BY <1>5 DEF TypeOK, Deliver
  <2> QED
    BY <1>5, <2>1, <2>2 DEF TypeOK, Deliver
<1>6. ASSUME NEW c \in Handlers, Record(c) \/ ResolveFailure(c) PROVE TypeOK'
  <2>1. h' \in [Handlers -> HandlerStates]
    BY <1>6, GoType DEF TypeOK, Record, ResolveFailure, Working
  <2>2. CASE Record(c)
    BY <2>1, <2>2 DEF TypeOK, Record
  <2>3. CASE ResolveFailure(c)
    BY <2>1, <2>3 DEF TypeOK, ResolveFailure
  <2> QED
    BY <1>6, <2>2, <2>3
<1>7. ASSUME NEW c \in Handlers, RetryOrDeadLetter(c) PROVE TypeOK'
  <2>1. h[c].n + 1 <= MaxRetry => h[c].n + 1 \in Attempts
    BY DEF TypeOK, HandlerStates, Attempts
  <2>2. rows' \in [Attempts -> Nat]
    BY <1>7, <2>1, PlusType DEF TypeOK, RetryOrDeadLetter
  <2>3. h' \in [Handlers -> HandlerStates]
    BY <1>7, GoType DEF TypeOK, RetryOrDeadLetter
  <2>4. receipt' \in [status: ReceiptStatuses, claim: Handlers \cup {Nobody}, wait: BOOLEAN]
    BY <1>7 DEF TypeOK, RetryOrDeadLetter
  <2> QED
    BY <1>7, <2>2, <2>3, <2>4 DEF TypeOK, RetryOrDeadLetter
<1>8. ASSUME NEW c \in Handlers, Nack(c) \/ Crash(c) PROVE TypeOK'
  <2>1. doubts' \in Nat
    BY <1>8 DEF TypeOK, Nack, Crash, Doubt
  <2>2. torn' \in BOOLEAN
    BY <1>8 DEF Nack, Crash, Abort
  <2>3. faults' \in 0..MaxFaults
    BY <1>8, FaultType DEF Nack, Crash
  <2>4. /\ ready' \in [Attempts -> Nat] /\ h' \in [Handlers -> HandlerStates]
    BY <1>8, RequeueType, IdleType DEF TypeOK, Nack, Crash, Abort
  <2> QED
    BY <1>8, <2>1, <2>2, <2>3, <2>4 DEF TypeOK, Nack, Crash, Abort
<1>9. ASSUME NEW c \in Handlers, RecordingFails(c) PROVE TypeOK'
  BY <1>9, GoType, FaultType DEF TypeOK, RecordingFails, Doubt, Working
<1>16. ASSUME NEW c \in Handlers, AckThrows(c) PROVE TypeOK'
  BY <1>16, GoType DEF TypeOK, AckThrows, Doubt, Working
<1>10. ASSUME NEW c \in Handlers, ChannelLost(c) PROVE TypeOK'
  <2>1. ready' \in [Attempts -> Nat] /\ h' \in [Handlers -> HandlerStates]
    BY <1>10, RequeueType, LostType DEF TypeOK, ChannelLost
  <2>2. faults' \in 0..MaxFaults
    BY <1>10, FaultType DEF ChannelLost
  <2> QED
    BY <1>10, <2>1, <2>2 DEF TypeOK, ChannelLost
<1>11. ASSUME NEW n \in Attempts, PublishRow(n) PROVE TypeOK'
  <2>1. faults' \in 0..MaxFaults
    BY <1>11, FaultType DEF TypeOK, PublishRow
  <2>2. ready' \in [Attempts -> Nat] /\ rows' \in [Attempts -> Nat]
    BY <1>11, PlusType, MinusType DEF TypeOK, PublishRow
  <2> QED
    BY <1>11, <2>1, <2>2 DEF TypeOK, PublishRow
<1>12. ASSUME LeaseLapses PROVE TypeOK'
  BY <1>12, FaultType DEF TypeOK, LeaseLapses, Doubt
<1>13. ASSUME Retry PROVE TypeOK'
  <2>1. 0 \in Attempts
    BY DEF Attempts
  <2> QED
    BY <1>13, <2>1, PlusType DEF TypeOK, Retry
<1>14. ASSUME Close PROVE TypeOK'
  BY <1>14 DEF TypeOK, Close
<1>15. CASE UNCHANGED vars
  BY <1>15 DEF TypeOK, vars
<1> QED
  BY <1>1, <1>2, <1>3, <1>4, <1>5, <1>6, <1>7, <1>8, <1>9, <1>10, <1>11, <1>12,
     <1>13, <1>14, <1>15, <1>16 DEF Next, HandlerStep

\* The variables have their types in every state.
THEOREM TypeCorrect == Spec => []TypeOK
<1>1. Init => TypeOK
  BY InitInv DEF IInv
<1> QED
  BY <1>1, TypeStep, PTL DEF Spec

-----------------------------------------------------------------------------
\* Waiting events

\* Pending is kept by a step that takes no message from the queue or the
\* outbox and stops no handler that is about to claim.
LEMMA PendingStays ==
  ASSUME \A n \in Attempts : ready[n] > 0 => ready'[n] > 0,
         \A n \in Attempts : rows[n] > 0 => rows'[n] > 0,
         \A c \in Handlers : h[c].pc = "claim" /\ ~h[c].lost
                                => h'[c].pc = "claim" /\ ~h'[c].lost,
         Pending
  PROVE  Pending'
  BY DEF Pending

\* No step leaves an event that waits without anything that brings it back.
LEMMA WaitingStep == IInv /\ [Next]_vars => WaitingIsPending' /\ WaitHasRow'
<1> SUFFICES ASSUME IInv, [Next]_vars PROVE WaitingIsPending' /\ WaitHasRow'
  OBVIOUS
<1> DEFINE Waits == receipt.status \in {"NONE", "RETRY_SCHEDULED"}
           Reported == ~valid /\ failure.status # "NONE"
           Goal == WaitingIsPending' /\ WaitHasRow'
<1>0. /\ TypeOK /\ WaitHasRow
      /\ Waits => Pending \/ Reported
      /\ h \in [Handlers -> HandlerStates]
      /\ ready \in [Attempts -> Nat] /\ rows \in [Attempts -> Nat]
  BY DEF IInv, WaitingIsPending, TypeOK
<1>1. ASSUME NEW c \in Handlers, Take(c) PROVE Goal
  <2>1. Pending'
    BY <1>1, <1>0, TakeType DEF Take, Pending
  <2> QED
    BY <1>1, <1>0, <2>1 DEF Take, WaitingIsPending, WaitHasRow
<1>2. ASSUME NEW c \in Handlers, Ack(c) PROVE Goal
  <2>1. Pending => Pending'
    BY <1>2, <1>0, IdleType, PendingStays DEF Ack, At
  <2> QED
    BY <1>2, <1>0, <2>1 DEF Ack, WaitingIsPending, WaitHasRow
<1>3. ASSUME NEW c \in Handlers, FinalFailure(c) PROVE Goal
  <2>1. ~valid' /\ receipt' = receipt /\ rows' = rows /\ failure'.status # "NONE"
    BY <1>3, <1>0 DEF FinalFailure, TypeOK
  <2> QED
    BY <1>0, <2>1 DEF WaitingIsPending, WaitHasRow
<1>4. ASSUME NEW c \in Handlers, ClaimReceipt(c) PROVE Goal
  <2>1. CASE Refused
    <3>1. receipt' = receipt /\ rows' = rows /\ ready' = ready /\ Go(c, "ack")
      BY <1>4, <2>1 DEF ClaimReceipt
    <3>2. receipt.status = "NONE" => FALSE
      BY <2>1 DEF Refused, Final
    <3>3. receipt.status = "RETRY_SCHEDULED" => \E n \in Attempts : rows[n] > 0
      BY <2>1, <1>0 DEF Refused, Final, WaitHasRow
    <3> QED
      BY <1>0, <3>1, <3>2, <3>3 DEF WaitingIsPending, WaitHasRow, Pending
  <2>2. CASE ~Refused
    BY <1>4, <2>2 DEF ClaimReceipt, WaitingIsPending, WaitHasRow
  <2> QED
    BY <2>1, <2>2
<1>5. ASSUME NEW c \in Handlers, Deliver(c) PROVE Goal
  <2>1. Pending => Pending'
    BY <1>5, <1>0, GoType, PendingStays DEF Deliver, At, Working
  <2> QED
    BY <1>5, <1>0, <2>1 DEF Deliver, WaitingIsPending, WaitHasRow
<1>6. ASSUME NEW c \in Handlers, Record(c) \/ ResolveFailure(c) \/ RecordingFails(c)
                                \/ AckThrows(c)
      PROVE  Goal
  <2>1. Pending => Pending'
    BY <1>6, <1>0, GoType, PendingStays
    DEF Record, ResolveFailure, RecordingFails, AckThrows, At, Working
  <2>2. receipt'.status = receipt.status \/ receipt'.status = "DELIVERED"
    BY <1>6, <1>0 DEF Record, ResolveFailure, RecordingFails, AckThrows, TypeOK
  <2>3. receipt'.wait = receipt.wait /\ rows' = rows
    BY <1>6, <1>0 DEF Record, ResolveFailure, RecordingFails, AckThrows, TypeOK
  <2>4. Reported => Reported'
    <3>1. CASE ResolveFailure(c)
      BY <3>1 DEF ResolveFailure
    <3> QED
      BY <1>6, <3>1 DEF Record, RecordingFails, AckThrows
  <2> QED
    BY <1>0, <2>1, <2>2, <2>3, <2>4 DEF WaitingIsPending, WaitHasRow
<1>7. ASSUME NEW c \in Handlers, RetryOrDeadLetter(c) PROVE Goal
  <2>1. h[c].n + 1 <= MaxRetry => h[c].n + 1 \in Attempts
    BY InboxAssumption, <1>0 DEF HandlerStates, Attempts
  <2>2. /\ \A n \in Attempts : rows[n] > 0 => rows'[n] > 0
        /\ h[c].n + 1 <= MaxRetry => \E n \in Attempts : rows'[n] > 0
    BY <1>7, <1>0, <2>1, PlusType DEF RetryOrDeadLetter
  <2>3. Pending => Pending'
    BY <1>7, <1>0, <2>2, GoType, PendingStays DEF RetryOrDeadLetter, At
  <2>4. /\ valid' = valid /\ failure'.status # "NONE"
    BY <1>7 DEF RetryOrDeadLetter
  <2>5. CASE receipt.claim # c
    <3>1. receipt' = receipt
      BY <1>7, <2>5 DEF RetryOrDeadLetter
    <3> QED
      BY <3>1, <1>0, <2>2, <2>3, <2>4 DEF WaitingIsPending, WaitHasRow
  <2>6. CASE receipt.claim = c
    <3>1. /\ receipt'.wait = (h[c].n + 1 <= MaxRetry)
          /\ receipt'.status = IF h[c].n + 1 <= MaxRetry THEN "RETRY_SCHEDULED"
                               ELSE "DEAD_LETTERED"
      BY <1>7, <2>6 DEF RetryOrDeadLetter
    <3> QED
      BY <3>1, <2>2 DEF WaitingIsPending, WaitHasRow, Pending
  <2> QED
    BY <2>5, <2>6
<1>8. ASSUME NEW c \in Handlers, Nack(c) \/ Crash(c) PROVE Goal
  <2>1. /\ Requeue(c) /\ h' = [h EXCEPT ![c] = Idle]
        /\ UNCHANGED <<valid, rows, receipt, failure>>
    BY <1>8 DEF Nack, Crash, Abort
  <2>2. Pending => Pending'
    <3>1. CASE h[c].pc = "claim" /\ ~h[c].lost
      BY <3>1, <1>0, <2>1, RequeueType DEF Pending
    <3>2. CASE ~(h[c].pc = "claim" /\ ~h[c].lost)
      BY <3>2, <1>0, <2>1, RequeueType, IdleType, PendingStays
    <3> QED
      BY <3>1, <3>2
  <2> QED
    BY <1>0, <2>1, <2>2 DEF WaitingIsPending, WaitHasRow
<1>9. ASSUME NEW c \in Handlers, ChannelLost(c) PROVE Goal
  <2>1. /\ Requeue(c) /\ ~h[c].lost
        /\ UNCHANGED <<valid, rows, receipt, failure>>
    BY <1>9 DEF ChannelLost
  <2>2. Pending'
    BY <1>0, <2>1, RequeueType DEF Pending
  <2> QED
    BY <1>0, <2>1, <2>2 DEF WaitingIsPending, WaitHasRow
<1>10. ASSUME NEW n \in Attempts, PublishRow(n) PROVE Goal
  <2>1. ready'[n] > 0
    BY <1>10, <1>0, PlusType DEF PublishRow
  <2>2. Pending'
    BY <2>1 DEF Pending
  <2>3. ~receipt'.wait
    BY <1>10, <1>0 DEF PublishRow, TypeOK
  <2> QED
    BY <2>2, <2>3 DEF WaitingIsPending, WaitHasRow
<1>11. ASSUME LeaseLapses PROVE Goal
  BY <1>11, <1>0 DEF LeaseLapses, WaitingIsPending, WaitHasRow, Pending
<1>12. ASSUME Retry PROVE Goal
  <2>1. 0 \in Attempts
    BY InboxAssumption DEF Attempts
  <2>2. rows'[0] > 0 /\ ~receipt'.wait
    BY <1>12, <1>0, <2>1, PlusType DEF Retry
  <2> QED
    BY <2>1, <2>2 DEF WaitingIsPending, WaitHasRow, Pending
<1>13. ASSUME Close PROVE Goal
  BY <1>13, <1>0 DEF Close, WaitingIsPending, WaitHasRow
<1>14. CASE UNCHANGED vars
  BY <1>14, <1>0 DEF vars, WaitingIsPending, WaitHasRow, Pending
<1> QED
  BY <1>1, <1>2, <1>3, <1>4, <1>5, <1>6, <1>7, <1>8, <1>9, <1>10, <1>11, <1>12,
     <1>13, <1>14 DEF Next, HandlerStep

-----------------------------------------------------------------------------
\* Claims and failures

\* A receipt in work names the handler that holds it, whatever the step.
LEMMA ClaimStep == IInv /\ [Next]_vars => ProcessingHasClaim' /\ HolderIsProcessing'
<1> SUFFICES ASSUME IInv, [Next]_vars PROVE ProcessingHasClaim' /\ HolderIsProcessing'
  OBVIOUS
<1> DEFINE Goal == ProcessingHasClaim' /\ HolderIsProcessing'
<1>0. /\ TypeOK /\ ProcessingHasClaim /\ HolderIsProcessing
      /\ h \in [Handlers -> HandlerStates]
  BY DEF IInv, TypeOK
<1>1. ASSUME receipt' = receipt,
             \A c \in Handlers : h'[c].pc \in Working => h'[c].pc = h[c].pc
      PROVE  Goal
  BY <1>0, <1>1 DEF ProcessingHasClaim, HolderIsProcessing
<1>2. ASSUME NEW c \in Handlers, Take(c) PROVE Goal
  BY <1>0, <1>1, <1>2, TakeType DEF Take, Working
<1>3. ASSUME NEW c \in Handlers, Ack(c) \/ Nack(c) \/ Crash(c) PROVE Goal
  BY <1>0, <1>1, <1>3, IdleType DEF Ack, Nack, Crash, Abort, Working
<1>4. ASSUME NEW c \in Handlers, FinalFailure(c) PROVE Goal
  BY <1>0, <1>1, <1>4, GoType DEF FinalFailure, Working
<1>5. ASSUME NEW c \in Handlers, ClaimReceipt(c) PROVE Goal
  <2>1. CASE Refused
    BY <1>0, <1>1, <1>5, <2>1, GoType DEF ClaimReceipt, Working
  <2>2. CASE ~Refused
    <3>1. receipt'.status = "PROCESSING" /\ receipt'.claim = c /\ h'[c].pc = "deliver"
      BY <1>0, <1>5, <2>2, GoType DEF ClaimReceipt, Working
    <3> QED
      BY <3>1 DEF ProcessingHasClaim, HolderIsProcessing
  <2> QED
    BY <2>1, <2>2
<1>6. ASSUME NEW c \in Handlers, Deliver(c) \/ ResolveFailure(c) \/ RecordingFails(c)
                                \/ AckThrows(c)
      PROVE  Goal
  <2>1. receipt' = receipt /\ h[c].pc \in Working
    BY <1>6 DEF Deliver, ResolveFailure, RecordingFails, AckThrows, At, Working
  <2>2. \A d \in Handlers \ {c} : h'[d] = h[d]
    BY <1>0, <1>6, GoType DEF Deliver, ResolveFailure, RecordingFails, AckThrows, Working
  <2>3. \/ h[c].pc = "deliver" /\ h'[c].pc \in {"record", "fail"}
        \/ h[c].pc = "resolve" /\ h'[c].pc = "confirm"
        \/ h[c].pc \in {"record", "resolve", "confirm"} /\ h'[c].pc = "fail"
    BY <1>0, <1>6, GoType DEF Deliver, ResolveFailure, RecordingFails, AckThrows, At, Working
  <2> QED
    BY <1>0, <2>1, <2>2, <2>3 DEF ProcessingHasClaim, HolderIsProcessing, Working
<1>7. ASSUME NEW c \in Handlers, Record(c) PROVE Goal
  <2>1. h'[c].pc = "resolve" /\ \A d \in Handlers \ {c} : h'[d] = h[d]
    BY <1>0, <1>7, GoType DEF Record, Working
  <2>2. CASE receipt.claim = c
    <3>1. receipt'.status = "DELIVERED" /\ receipt'.claim = c
      BY <1>0, <1>7, <2>2 DEF Record, TypeOK
    <3> QED
      BY <2>1, <3>1 DEF ProcessingHasClaim, HolderIsProcessing, Working
  <2>3. CASE receipt.claim # c
    <3>1. receipt' = receipt
      BY <1>7, <2>3 DEF Record
    <3> QED
      BY <1>0, <2>1, <2>3, <3>1 DEF ProcessingHasClaim, HolderIsProcessing
  <2> QED
    BY <2>2, <2>3
<1>8. ASSUME NEW c \in Handlers, RetryOrDeadLetter(c) PROVE Goal
  <2>1. h'[c].pc = "ack" /\ \A d \in Handlers \ {c} : h'[d] = h[d]
    BY <1>0, <1>8, GoType DEF RetryOrDeadLetter
  <2>2. CASE receipt.claim = c
    <3>1. receipt'.status # "PROCESSING" /\ receipt'.claim = Nobody
      BY <1>8, <2>2 DEF RetryOrDeadLetter
    <3> QED
      BY <3>1, InboxAssumption DEF ProcessingHasClaim, HolderIsProcessing
  <2>3. CASE receipt.claim # c
    BY <1>1, <1>8, <2>1, <2>3 DEF RetryOrDeadLetter, Working
  <2> QED
    BY <2>2, <2>3
<1>9. ASSUME NEW c \in Handlers, ChannelLost(c) PROVE Goal
  BY <1>0, <1>1, <1>9, LostType DEF ChannelLost, Working
<1>10. ASSUME NEW n \in Attempts, PublishRow(n) PROVE Goal
  <2>1. receipt'.status = receipt.status /\ receipt'.claim = receipt.claim /\ h' = h
    BY <1>0, <1>10 DEF PublishRow, TypeOK
  <2> QED
    BY <1>0, <2>1 DEF ProcessingHasClaim, HolderIsProcessing
<1>11. ASSUME LeaseLapses PROVE Goal
  BY <1>0, <1>1, <1>11 DEF LeaseLapses, HandlerStates
<1>12. ASSUME Retry \/ Close PROVE Goal
  <2>1. receipt'.status # "PROCESSING" /\ receipt'.claim = Nobody
    BY <1>12 DEF Retry, Close
  <2> QED
    BY <2>1, InboxAssumption DEF ProcessingHasClaim, HolderIsProcessing
<1>13. CASE UNCHANGED vars
  BY <1>1, <1>13 DEF vars
<1> QED
  BY <1>2, <1>3, <1>4, <1>5, <1>6, <1>7, <1>8, <1>9, <1>10, <1>11, <1>12, <1>13
  DEF Next, HandlerStep

\* A finished event keeps no failure that could be retried.
LEMMA FailureStep == IInv /\ [Next]_vars => FailureOfFinal'
<1> SUFFICES ASSUME IInv, [Next]_vars PROVE FailureOfFinal'
  OBVIOUS
<1>0. /\ TypeOK /\ FailureOfFinal /\ HolderIsProcessing
      /\ h \in [Handlers -> HandlerStates]
  BY DEF IInv, TypeOK
<1> USE DEF history
<1>1. ASSUME UNCHANGED <<valid, torn, failure>>, receipt'.status = receipt.status,
             receipt'.claim = receipt.claim,
             \A c \in Handlers : Halfway(c) => Halfway(c)'
      PROVE  FailureOfFinal'
  BY <1>0, <1>1 DEF FailureOfFinal
<1>2. ASSUME NEW c \in Handlers, Take(c) \/ Ack(c) \/ ChannelLost(c) \/ Deliver(c)
                                \/ RecordingFails(c) \/ AckThrows(c)
      PROVE  FailureOfFinal'
  <2>1. UNCHANGED <<valid, torn, failure, receipt>>
    BY <1>2 DEF Take, Ack, ChannelLost, Deliver, RecordingFails, AckThrows
  <2>2. \/ h[c].pc \notin {"resolve", "fail"}
        \/ h'[c].pc = h[c].pc
        \/ h'[c].pc = "fail"
    BY <1>0, <1>2, LostType, GoType
    DEF Take, Ack, ChannelLost, Deliver, RecordingFails, AckThrows, At, Working
  <2>3. \A d \in Handlers \ {c} : h'[d] = h[d]
    BY <1>0, <1>2, TakeType, IdleType, LostType, GoType
    DEF Take, Ack, ChannelLost, Deliver, RecordingFails, AckThrows, Working
  <2> QED
    BY <1>1, <2>1, <2>2, <2>3 DEF Halfway
<1>3. ASSUME NEW c \in Handlers, FinalFailure(c) PROVE FailureOfFinal'
  BY <1>3 DEF FinalFailure, FailureOfFinal
<1>4. ASSUME NEW c \in Handlers, ClaimReceipt(c) PROVE FailureOfFinal'
  <2>1. CASE Refused
    <3>1. /\ receipt' = receipt /\ h[c].pc = "claim"
          /\ \A d \in Handlers \ {c} : h'[d] = h[d]
      BY <1>0, <1>4, <2>1, GoType DEF ClaimReceipt, At
    <3> QED
      BY <1>1, <1>4, <3>1 DEF ClaimReceipt, Halfway
  <2>2. CASE ~Refused
    BY <1>4, <2>2 DEF ClaimReceipt, FailureOfFinal
  <2> QED
    BY <2>1, <2>2
<1>5. ASSUME NEW c \in Handlers, Record(c) PROVE FailureOfFinal'
  <2>1. UNCHANGED <<valid, torn, failure>>
    BY <1>5 DEF Record
  <2>2. h'[c].pc = "resolve" /\ \A d \in Handlers \ {c} : h'[d] = h[d]
    BY <1>0, <1>5, GoType DEF Record, Working
  <2>3. CASE receipt.claim = c
    <3>1. receipt'.status = "DELIVERED" /\ Halfway(c)'
      BY <1>0, <1>5, <2>2, <2>3 DEF Record, TypeOK, Halfway
    <3> QED
      BY <3>1 DEF FailureOfFinal
  <2>4. CASE receipt.claim # c
    <3>1. receipt' = receipt
      BY <1>5, <2>4 DEF Record
    <3> QED
      BY <1>1, <2>1, <2>2, <2>4, <3>1 DEF Halfway
  <2> QED
    BY <2>3, <2>4
<1>6. ASSUME NEW c \in Handlers, RetryOrDeadLetter(c) PROVE FailureOfFinal'
  <2>1. CASE receipt.claim # c
    BY <1>6, <2>1 DEF RetryOrDeadLetter, FailureOfFinal
  <2>2. CASE receipt.claim = c
    <3>1. /\ receipt'.status = IF h[c].n + 1 <= MaxRetry THEN "RETRY_SCHEDULED"
                               ELSE "DEAD_LETTERED"
          /\ failure'.retrying = (h[c].n + 1 <= MaxRetry)
      BY <1>6, <2>2 DEF RetryOrDeadLetter
    <3> QED
      BY <3>1 DEF FailureOfFinal
  <2> QED
    BY <2>1, <2>2
<1>7. ASSUME NEW n \in Attempts, PublishRow(n) PROVE FailureOfFinal'
  <2>1. receipt'.status = receipt.status /\ receipt'.claim = receipt.claim
    BY <1>0, <1>7 DEF PublishRow, TypeOK
  <2> QED
    BY <1>1, <1>7, <2>1 DEF PublishRow, Halfway
<1>8. ASSUME LeaseLapses PROVE FailureOfFinal'
  BY <1>1, <1>8 DEF LeaseLapses, Halfway
<1>9. ASSUME Retry PROVE FailureOfFinal'
  BY <1>9 DEF Retry, FailureOfFinal
<1>10. ASSUME Close PROVE FailureOfFinal'
  <2>1. receipt'.status = "CLOSED_NO_RETRY" /\ failure'.status = "RESOLVED"
    BY <1>0, <1>10 DEF Close, TypeOK
  <2> QED
    BY <2>1 DEF FailureOfFinal
<1>11. ASSUME NEW c \in Handlers, ResolveFailure(c) PROVE FailureOfFinal'
  <2>1. \/ failure' = failure /\ failure.status = "NONE"
        \/ failure'.status = "RESOLVED" /\ ~failure'.retrying
    BY <1>11 DEF ResolveFailure
  <2>2. UNCHANGED <<valid, torn, receipt>>
    BY <1>11 DEF ResolveFailure
  <2> QED
    BY <1>0, <2>1, <2>2 DEF FailureOfFinal
<1>12. ASSUME NEW c \in Handlers, Nack(c) \/ Crash(c) PROVE FailureOfFinal'
  <2>1. /\ UNCHANGED <<valid, failure, receipt>> /\ h' = [h EXCEPT ![c] = Idle]
        /\ torn' = (torn \/ (Halfway(c) /\ failure.status \notin {"NONE", "RESOLVED"}))
    BY <1>12 DEF Nack, Crash, Abort
  <2>2. \A d \in Handlers \ {c} : h'[d] = h[d]
    BY <1>0, <2>1, IdleType
  <2>3. CASE Halfway(c)
    BY <2>1, <2>3 DEF FailureOfFinal, Halfway
  <2>4. CASE ~Halfway(c)
    <3>1. torn' <=> torn
      BY <2>1, <2>4
    <3>2. \A d \in Handlers : Halfway(d) => Halfway(d)'
      BY <2>1, <2>2, <2>4 DEF Halfway
    <3> QED
      BY <1>0, <2>1, <3>1, <3>2 DEF FailureOfFinal
  <2> QED
    BY <2>3, <2>4
<1>13. CASE UNCHANGED vars
  BY <1>1, <1>13 DEF vars, Halfway
<1> QED
  BY <1>2, <1>3, <1>4, <1>5, <1>6, <1>7, <1>8, <1>9, <1>10, <1>11, <1>12, <1>13
  DEF Next, HandlerStep

\* The invariant that both theorems below rest on.
LEMMA Invariance == Spec => []IInv
<1>1. IInv /\ [Next]_vars => IInv'
  BY TypeStep, WaitingStep, ClaimStep, FailureStep DEF IInv
<1> QED
  BY <1>1, InitInv, PTL DEF Spec

\* Whatever is duplicated, overrun, lost or retried, an event is carried, settled
\* or behind a receipt that names a handler which no longer works on it.
THEOREM EventsAreKept == Spec => []LostOnlyIfOrphaned
<1>1. IInv => LostOnlyIfOrphaned
  <2> SUFFICES ASSUME IInv PROVE LostOnlyIfOrphaned
    OBVIOUS
  <2>0. TypeOK /\ WaitingIsPending /\ ProcessingHasClaim
    BY DEF IInv
  <2>1. CASE receipt.status \in {"NONE", "RETRY_SCHEDULED"}
    BY <2>0, <2>1
    DEF WaitingIsPending, Pending, LostOnlyIfOrphaned, NoLostEvent, OnItsWay, Settled
  <2>2. CASE receipt.status = "PROCESSING"
    BY <2>0, <2>2
    DEF ProcessingHasClaim, LostOnlyIfOrphaned, NoLostEvent, OnItsWay, Orphaned, Working
  <2>3. CASE receipt.status \in Final
    BY <2>3 DEF LostOnlyIfOrphaned, NoLostEvent, Settled
  <2> QED
    BY <2>0, <2>1, <2>2, <2>3 DEF TypeOK, ReceiptStatuses
<1> QED
  BY <1>1, Invariance, PTL

\* A failure that nothing is doing anything about can be retried or closed.
THEOREM FailuresCanBeHandled == Spec => []OperatorCanAct
<1>1. IInv => OperatorCanAct
  <2> SUFFICES ASSUME IInv, valid, ~torn, ~Orphaned, ~OnItsWay,
                      failure.status \notin {"NONE", "RESOLVED"}
               PROVE  CanAct
    BY DEF OperatorCanAct
  <2>0. /\ TypeOK /\ WaitingIsPending /\ ProcessingHasClaim /\ FailureOfFinal
    BY DEF IInv
  <2>1. ~Pending
    BY DEF Pending, OnItsWay
  <2>2. receipt.status \notin {"NONE", "RETRY_SCHEDULED"}
    BY <2>0, <2>1 DEF WaitingIsPending
  <2>3. receipt.status # "PROCESSING"
    BY <2>0 DEF ProcessingHasClaim, Orphaned, OnItsWay, Working
  <2>4. receipt.status \in Final
    BY <2>0, <2>2, <2>3 DEF TypeOK, ReceiptStatuses
  <2>5. \A c \in Handlers : ~Halfway(c)
    BY DEF Halfway, OnItsWay
  <2> QED
    BY <2>0, <2>4, <2>5 DEF FailureOfFinal, Final, CanAct
<1> QED
  BY <1>1, Invariance, PTL

-----------------------------------------------------------------------------
\* The contract of a consumer

\* Handlers that are delivering; the handler of the claim, from its claim to the
\* record of its delivery; whether a later claim may deliver.
Delivering == {c \in Handlers : At(c, "deliver")}
Engaged(c) == receipt.claim = c /\ h[c].pc \in {"deliver", "record"}
Free ==
    \/ receipt.status \in {"NONE", "RETRY_SCHEDULED", "DEAD_LETTERED"}
    \/ receipt.status = "PROCESSING" /\ (lapsed \/ \A c \in Handlers : ~Engaged(c))
    \/ \E c \in Handlers : Halfway(c) /\ At(c, "fail")

\* Deliveries that were made, are being made and may still be made.
Accounted ==
    /\ IsFiniteSet(Delivering)
    /\ done + Cardinality(Delivering) + (IF Free THEN 1 ELSE 0) <= 1 + doubts

\* What is recorded as delivered was delivered.
DeliveredIsDone ==
    /\ receipt.status = "DELIVERED" => done > 0
    /\ \A c \in Handlers : h[c].pc \in {"record", "resolve"} => done > 0

\* The ways in which a step may change the account.
Kept == /\ Delivering' = Delivering /\ done' = done /\ doubts' >= doubts
        /\ Free' => Free \/ doubts' > doubts
Started(c) == /\ Delivering' = Delivering \cup {c} /\ Free /\ ~Free'
              /\ done' = done /\ doubts' = doubts
Stopped(c) == /\ c \in Delivering /\ Delivering' = Delivering \ {c}
              /\ done' = done /\ doubts' >= doubts
HasDone(c) == /\ c \in Delivering /\ Delivering' = Delivering \ {c}
              /\ done' = done + 1 /\ doubts' = doubts /\ (Free' => Free)
Balanced == Kept \/ \E c : Started(c) \/ Stopped(c) \/ HasDone(c)

\* Each of them keeps it balanced.
LEMMA Balance ==
  ASSUME TypeOK, TypeOK', Accounted, Balanced PROVE Accounted'
<1>0. done \in Nat /\ done' \in Nat /\ doubts \in Nat /\ doubts' \in Nat
  BY DEF TypeOK
<1>1. IsFiniteSet(Delivering) /\ Cardinality(Delivering) \in Nat
  BY FS_CardinalityType DEF Accounted
<1>2. CASE Kept
  BY <1>0, <1>1, <1>2 DEF Kept, Accounted
<1>3. ASSUME NEW c, Started(c) PROVE Accounted'
  <2>1. /\ IsFiniteSet(Delivering \cup {c})
        /\ Cardinality(Delivering \cup {c}) =
              IF c \in Delivering THEN Cardinality(Delivering) ELSE Cardinality(Delivering) + 1
    BY <1>1, FS_AddElement
  <2>2. /\ IsFiniteSet(Delivering') /\ Cardinality(Delivering') \in Nat
        /\ Cardinality(Delivering') <= Cardinality(Delivering) + 1
    BY <1>1, <1>3, <2>1 DEF Started
  <2> QED
    BY <1>0, <1>1, <1>3, <2>2 DEF Started, Accounted
<1>4. ASSUME NEW c, Stopped(c) \/ HasDone(c) PROVE Accounted'
  <2>1. IsFiniteSet(Delivering') /\ Cardinality(Delivering') = Cardinality(Delivering) - 1
    BY <1>1, <1>4, FS_RemoveElement DEF Stopped, HasDone
  <2>2. Cardinality(Delivering') \in Nat
    BY <2>1, FS_CardinalityType
  <2> QED
    BY <1>0, <1>1, <1>4, <2>1, <2>2 DEF Stopped, HasDone, Accounted
<1> QED
  BY <1>2, <1>3, <1>4 DEF Balanced

\* A handler that neither delivers nor has just delivered leaves the account
\* alone unless it fails.
LEMMA QuietAccount ==
  ASSUME TypeOK, NEW c \in Handlers,
         receipt' = receipt, lapsed' = lapsed, done' = done, doubts' = doubts,
         \A d \in Handlers \ {c} : h'[d] = h[d],
         h[c].pc \notin {"deliver", "record"}, h'[c].pc \notin {"deliver", "record"},
         h'[c].pc = "fail" => h[c].pc = "fail"
  PROVE  Kept
<1>0. doubts \in Nat
  BY DEF TypeOK
<1>1. Delivering' = Delivering
  BY DEF Delivering, At
<1>2. \A d \in Handlers : Engaged(d)' <=> Engaged(d)
  BY DEF Engaged
<1>3. \A d \in Handlers : (Halfway(d) /\ At(d, "fail"))' => Halfway(d) /\ At(d, "fail")
  BY DEF Halfway, At
<1> QED
  BY <1>0, <1>1, <1>2, <1>3 DEF Kept, Free

\* Every step keeps the account.
LEMMA BalancedStep ==
  ASSUME IInv, [Next]_vars PROVE Balanced
<1> USE DEF history
<1>0. /\ TypeOK /\ HolderIsProcessing /\ h \in [Handlers -> HandlerStates]
      /\ doubts \in Nat /\ done \in Nat
  BY DEF IInv, TypeOK
<1>1. ASSUME NEW c \in Handlers, Take(c) \/ Ack(c) \/ FinalFailure(c) \/ ResolveFailure(c)
                                \/ ChannelLost(c)
      PROVE  Balanced
  <2>1. \A d \in Handlers \ {c} : h'[d] = h[d]
    BY <1>0, <1>1, TakeType, IdleType, GoType, LostType
    DEF Take, Ack, FinalFailure, ResolveFailure, ChannelLost, Working
  <2>2. CASE ChannelLost(c)
    <3>1. h'[c].pc = h[c].pc /\ UNCHANGED <<receipt, lapsed, history>>
      BY <1>0, <2>2, LostType DEF ChannelLost
    <3>2. \A d \in Handlers : h'[d].pc = h[d].pc
      BY <2>1, <3>1
    <3>3. Delivering' = Delivering /\ (Free' <=> Free)
      BY <3>1, <3>2 DEF Delivering, Free, Engaged, Halfway, At
    <3> QED
      BY <1>0, <3>1, <3>3 DEF Balanced, Kept
  <2>3. CASE ~ChannelLost(c)
    <3>1. /\ h[c].pc \in {"idle", "ack", "claim", "resolve", "confirm"}
          /\ h'[c].pc \in {"idle", "ack", "claim", "confirm"}
      BY <1>0, <1>1, <2>3, TakeType, IdleType, GoType
      DEF Take, Ack, FinalFailure, ResolveFailure, At, Working
    <3>2. UNCHANGED <<receipt, lapsed, history>>
      BY <1>1, <2>3 DEF Take, Ack, FinalFailure, ResolveFailure
    <3> QED
      BY <1>0, <2>1, <3>1, <3>2, QuietAccount DEF Balanced
  <2> QED
    BY <2>2, <2>3
<1>2. ASSUME NEW c \in Handlers, ClaimReceipt(c) PROVE Balanced
  <2>1. CASE Refused
    <3>1. /\ h[c].pc = "claim" /\ h'[c].pc = "ack" /\ UNCHANGED <<receipt, lapsed, history>>
          /\ \A d \in Handlers \ {c} : h'[d] = h[d]
      BY <1>0, <1>2, <2>1, GoType DEF ClaimReceipt, At
    <3> QED
      BY <1>0, <3>1, QuietAccount DEF Balanced
  <2>2. CASE ~Refused
    <3>1. /\ h'[c].pc = "deliver" /\ \A d \in Handlers \ {c} : h'[d] = h[d]
          /\ UNCHANGED history
      BY <1>0, <1>2, <2>2, GoType DEF ClaimReceipt, Working
    <3>2. receipt'.status = "PROCESSING" /\ receipt'.claim = c /\ ~lapsed'
      BY <1>2, <2>2 DEF ClaimReceipt
    <3>3. Free
      BY <1>0, <2>2 DEF Refused, Free, TypeOK, ReceiptStatuses, Final
    <3>4. ~Free'
      BY <3>1, <3>2 DEF Free, Engaged, Halfway
    <3>5. Delivering' = Delivering \cup {c}
      BY <3>1 DEF Delivering, At
    <3> QED
      BY <3>1, <3>3, <3>4, <3>5 DEF Balanced, Started
  <2> QED
    BY <2>1, <2>2
<1>3. ASSUME NEW c \in Handlers, Deliver(c) PROVE Balanced
  <2>1. /\ h[c].pc = "deliver" /\ \A d \in Handlers \ {c} : h'[d] = h[d]
        /\ UNCHANGED <<receipt, lapsed, doubts>>
        /\ \/ h'[c].pc = "record" /\ done' = done + 1
           \/ h'[c].pc = "fail" /\ done' = done
    BY <1>0, <1>3, GoType DEF Deliver, At, Working
  <2>2. c \in Delivering /\ Delivering' = Delivering \ {c}
    BY <2>1 DEF Delivering, At
  <2>3. CASE h'[c].pc = "record"
    <3>1. Free' <=> Free
      BY <2>1, <2>3 DEF Free, Engaged, Halfway, At
    <3> QED
      BY <2>1, <2>2, <2>3, <3>1 DEF Balanced, HasDone
  <2>4. CASE h'[c].pc = "fail"
    BY <1>0, <2>1, <2>2, <2>4 DEF Balanced, Stopped
  <2> QED
    BY <2>1, <2>3, <2>4
<1>4. ASSUME NEW c \in Handlers, Record(c) PROVE Balanced
  <2>1. /\ h[c].pc = "record" /\ h'[c].pc = "resolve" /\ UNCHANGED <<lapsed, history>>
        /\ \A d \in Handlers \ {c} : h'[d] = h[d]
    BY <1>0, <1>4, GoType DEF Record, At, Working
  <2>2. Delivering' = Delivering
    BY <2>1 DEF Delivering, At
  <2>3. CASE receipt.claim = c
    <3>1. receipt'.status = "DELIVERED" /\ receipt'.claim = c
      BY <1>0, <1>4, <2>3 DEF Record, TypeOK
    <3>2. ~Free'
      BY <2>1, <3>1 DEF Free, Halfway, At
    <3> QED
      BY <1>0, <2>1, <2>2, <3>2 DEF Balanced, Kept
  <2>4. CASE receipt.claim # c
    <3>1. receipt' = receipt
      BY <1>4, <2>4 DEF Record
    <3>2. Free' <=> Free
      BY <2>1, <2>4, <3>1 DEF Free, Engaged, Halfway, At
    <3> QED
      BY <1>0, <2>1, <2>2, <3>2 DEF Balanced, Kept
  <2> QED
    BY <2>3, <2>4
<1>5. ASSUME NEW c \in Handlers, RecordingFails(c) \/ AckThrows(c) PROVE Balanced
  <2>1. /\ h[c].pc \in {"record", "resolve", "confirm"} /\ h'[c].pc = "fail" /\ done' = done
        /\ \A d \in Handlers \ {c} : h'[d] = h[d]
    BY <1>0, <1>5, GoType DEF RecordingFails, AckThrows, At, Working
  <2>2. doubts' = doubts + 1
    BY <1>5 DEF RecordingFails, AckThrows, Doubt
  <2>3. Delivering' = Delivering
    BY <2>1 DEF Delivering, At
  <2> QED
    BY <1>0, <2>1, <2>2, <2>3 DEF Balanced, Kept
<1>6. ASSUME NEW c \in Handlers, RetryOrDeadLetter(c) PROVE Balanced
  <2>1. /\ h[c].pc = "fail" /\ h'[c].pc = "ack" /\ UNCHANGED <<lapsed, done, doubts>>
        /\ \A d \in Handlers \ {c} : h'[d] = h[d]
    BY <1>0, <1>6, GoType DEF RetryOrDeadLetter, At
  <2>2. CASE receipt.claim = c
    <3>1. receipt.status \in {"PROCESSING", "DELIVERED"}
      BY <1>0, <2>1, <2>2 DEF HolderIsProcessing, Working
    <3>2. Free
      BY <2>1, <2>2, <3>1 DEF Free, Engaged, Halfway, At
    <3>3. Delivering' = Delivering
      BY <2>1 DEF Delivering, At
    <3> QED
      BY <1>0, <2>1, <3>2, <3>3 DEF Balanced, Kept
  <2>3. CASE receipt.claim # c
    <3>1. receipt' = receipt
      BY <1>6, <2>3 DEF RetryOrDeadLetter
    <3> QED
      BY <1>0, <2>1, <3>1, QuietAccount DEF Balanced
  <2> QED
    BY <2>2, <2>3
<1>7. ASSUME NEW c \in Handlers, Nack(c) \/ Crash(c) PROVE Balanced
  <2>1. /\ h' = [h EXCEPT ![c] = Idle] /\ UNCHANGED <<receipt, lapsed, done>>
    BY <1>7 DEF Nack, Crash, Abort
  <2>2. h'[c].pc = "idle" /\ \A d \in Handlers \ {c} : h'[d] = h[d]
    BY <1>0, <2>1, IdleType
  <2>3. doubts' = doubts \/ (h[c].pc = "record" /\ doubts' = doubts + 1)
    BY <1>0, <1>7 DEF Nack, Crash, Doubt, At
  <2>4. CASE h[c].pc = "deliver"
    <3>1. c \in Delivering /\ Delivering' = Delivering \ {c}
      BY <2>2, <2>4 DEF Delivering, At
    <3> QED
      BY <1>0, <2>1, <2>3, <3>1 DEF Balanced, Stopped
  <2>5. CASE h[c].pc = "record"
    <3>1. doubts' = doubts + 1
      BY <1>0, <1>7, <2>5 DEF Nack, Crash, Doubt, At
    <3>2. Delivering' = Delivering
      BY <2>2, <2>5 DEF Delivering, At
    <3> QED
      BY <1>0, <2>1, <3>1, <3>2 DEF Balanced, Kept
  <2>6. CASE h[c].pc \notin {"deliver", "record"}
    BY <1>0, <2>1, <2>2, <2>3, <2>6, QuietAccount DEF Balanced
  <2> QED
    BY <2>4, <2>5, <2>6
<1>8. ASSUME NEW n \in Attempts, PublishRow(n) PROVE Balanced
  <2>1. /\ receipt'.status = receipt.status /\ receipt'.claim = receipt.claim /\ h' = h
        /\ UNCHANGED <<lapsed, history>>
    BY <1>0, <1>8 DEF PublishRow, TypeOK
  <2>2. Delivering' = Delivering /\ (Free' <=> Free)
    BY <2>1 DEF Delivering, Free, Engaged, Halfway, At
  <2> QED
    BY <1>0, <2>1, <2>2 DEF Balanced, Kept
<1>9. CASE LeaseLapses
  <2>1. /\ receipt.status = "PROCESSING" /\ receipt' = receipt /\ h' = h /\ done' = done
    BY <1>9 DEF LeaseLapses
  <2>2. Delivering' = Delivering
    BY <2>1 DEF Delivering, At
  <2>3. CASE \E c \in Handlers : Engaged(c)
    <3>1. doubts' = doubts + 1
      BY <1>9, <2>3 DEF LeaseLapses, Doubt, Engaged
    <3> QED
      BY <1>0, <2>1, <2>2, <3>1 DEF Balanced, Kept
  <2>4. CASE \A c \in Handlers : ~Engaged(c)
    <3>1. Free
      BY <2>1, <2>4 DEF Free
    <3>2. doubts' \in Nat /\ doubts' >= doubts
      BY <1>0, <1>9 DEF LeaseLapses, Doubt
    <3> QED
      BY <2>1, <2>2, <3>1, <3>2 DEF Balanced, Kept
  <2> QED
    BY <2>3, <2>4
<1>10. CASE Retry \/ Close
  <2>1. receipt.status \in {"NONE", "DEAD_LETTERED"} /\ h' = h /\ UNCHANGED history
    BY <1>10 DEF Retry, Close, CanAct
  <2>2. Free /\ Delivering' = Delivering
    BY <2>1 DEF Free, Delivering, At
  <2> QED
    BY <1>0, <2>1, <2>2 DEF Balanced, Kept
<1>11. CASE UNCHANGED vars
  <2>1. Delivering' = Delivering /\ (Free' <=> Free)
    BY <1>11 DEF vars, Delivering, Free, Engaged, Halfway, At
  <2> QED
    BY <1>0, <1>11, <2>1 DEF vars, Balanced, Kept
<1> QED
  BY <1>1, <1>2, <1>3, <1>4, <1>5, <1>6, <1>7, <1>8, <1>9, <1>10, <1>11
  DEF Next, HandlerStep

\* No step records a delivery that was not made.
LEMMA DoneStep ==
  ASSUME IInv, DeliveredIsDone, [Next]_vars PROVE DeliveredIsDone'
<1> USE DEF history
<1>0. TypeOK /\ h \in [Handlers -> HandlerStates] /\ done \in Nat
  BY DEF IInv, TypeOK
<1>1. ASSUME done' = done, receipt'.status = "DELIVERED" => receipt.status = "DELIVERED",
             \A c \in Handlers : h'[c].pc \in {"record", "resolve"} => h'[c].pc = h[c].pc
      PROVE  DeliveredIsDone'
  BY <1>0, <1>1 DEF DeliveredIsDone
<1>2. ASSUME NEW c \in Handlers, Take(c) \/ Ack(c) \/ FinalFailure(c) \/ ResolveFailure(c)
                                \/ ChannelLost(c) \/ RecordingFails(c) \/ Nack(c) \/ Crash(c)
                                \/ AckThrows(c)
      PROVE  DeliveredIsDone'
  <2>1. receipt' = receipt /\ done' = done
    BY <1>2 DEF Take, Ack, AckThrows, FinalFailure, ResolveFailure, ChannelLost,
       RecordingFails, Nack, Crash, Abort
  <2>2. /\ h'[c].pc \in {"claim", "idle", "ack", "confirm", "fail"} \/ h'[c].pc = h[c].pc
        /\ \A d \in Handlers \ {c} : h'[d] = h[d]
    BY <1>0, <1>2, TakeType, IdleType, GoType, LostType
    DEF Take, Ack, AckThrows, FinalFailure, ResolveFailure, ChannelLost, RecordingFails,
        Nack, Crash, Abort, Working
  <2> QED
    BY <1>1, <2>1, <2>2
<1>3. ASSUME NEW c \in Handlers, ClaimReceipt(c) \/ RetryOrDeadLetter(c)
      PROVE  DeliveredIsDone'
  <2>1. done' = done /\ (receipt' = receipt \/ receipt'.status # "DELIVERED")
    BY <1>3 DEF ClaimReceipt, RetryOrDeadLetter
  <2>2. /\ h'[c].pc \in {"ack", "deliver"}
        /\ \A d \in Handlers \ {c} : h'[d] = h[d]
    BY <1>0, <1>3, GoType DEF ClaimReceipt, RetryOrDeadLetter, Working
  <2> QED
    BY <1>1, <2>1, <2>2
<1>4. ASSUME NEW c \in Handlers, Deliver(c) PROVE DeliveredIsDone'
  <2>1. /\ receipt' = receipt
        /\ \/ done' = done + 1
           \/ h'[c].pc = "fail" /\ done' = done
        /\ \A d \in Handlers \ {c} : h'[d] = h[d]
    BY <1>0, <1>4, GoType DEF Deliver, Working
  <2> QED
    BY <1>0, <1>1, <2>1 DEF DeliveredIsDone
<1>5. ASSUME NEW c \in Handlers, Record(c) PROVE DeliveredIsDone'
  <2>1. done > 0 /\ done' = done
    BY <1>5 DEF Record, At, DeliveredIsDone
  <2> QED
    BY <2>1 DEF DeliveredIsDone
<1>6. CASE \/ \E n \in Attempts : PublishRow(n)
           \/ LeaseLapses \/ Retry \/ Close \/ UNCHANGED vars
  <2>1. /\ h' = h /\ done' = done
        /\ receipt'.status = "DELIVERED" => receipt.status = "DELIVERED"
    <3>1. CASE \E n \in Attempts : PublishRow(n)
      BY <1>0, <3>1 DEF PublishRow, TypeOK
    <3>2. CASE Retry \/ Close
      BY <3>2 DEF Retry, Close
    <3>3. CASE LeaseLapses \/ UNCHANGED vars
      BY <3>3 DEF LeaseLapses, vars
    <3> QED
      BY <1>6, <3>1, <3>2, <3>3
  <2> QED
    BY <1>1, <2>1
<1> QED
  BY <1>2, <1>3, <1>4, <1>5, <1>6 DEF Next, HandlerStep

\* A handler that delivers is counted: the delivery is the first, or answers a
\* doubt.
LEMMA DeliveryIsDue ==
  ASSUME TypeOK, Accounted, NEW c \in Handlers, At(c, "deliver")
  PROVE  done <= doubts
<1>1. c \in Delivering
  BY DEF Delivering
<1>2. Cardinality(Delivering) \in Nat /\ Cardinality(Delivering) # 0
  BY <1>1, FS_CardinalityType, FS_EmptySet DEF Accounted
<1> QED
  BY <1>2 DEF Accounted, TypeOK

\* Every step is one of the contract or none.
LEMMA ContractStep ==
  ASSUME IInv, Accounted, DeliveredIsDone, [Next]_vars
  PROVE  [Contract!Next]_(Contract!cvars)
<1> USE DEF history
<1> DEFINE Goal == [Contract!Next]_(Contract!cvars)
<1>0. /\ TypeOK /\ HolderIsProcessing /\ h \in [Handlers -> HandlerStates]
      /\ doubts \in Nat /\ done \in Nat
  BY DEF IInv, TypeOK
<1>1. ASSUME Phase' = Phase, done' = done, doubts' = doubts \/ doubts' = doubts + 1
      PROVE  Goal
  BY <1>1 DEF Contract!cvars, Contract!Next, Contract!Doubt
<1>2. ASSUME receipt'.status = receipt.status, \A c \in Handlers : Revocable(c)' <=> Revocable(c)
      PROVE  Phase' = Phase
  BY <1>2 DEF Phase
<1>3. ASSUME NEW c \in Handlers, Revocable(c), receipt' = receipt, h'[c].pc = "idle",
             done' = done, doubts' = doubts,
             \A d \in Handlers \ {c} : h'[d] = h[d]
      PROVE  Goal
  <2>1. Phase = "open"
    BY <1>3 DEF Phase, Revocable
  <2>2. Phase' = "delivered"
    <3>1. receipt'.status = "DELIVERED" /\ \A d \in Handlers : ~Revocable(d)'
      BY <1>3 DEF Revocable
    <3> QED
      BY <3>1 DEF Phase
  <2>3. done > 0
    BY <1>3 DEF Revocable, DeliveredIsDone
  <2> QED
    BY <1>3, <2>1, <2>2, <2>3 DEF Contract!Next, Contract!Deliver, Contract!Move
<1>4. ASSUME NEW c \in Handlers, ~Revocable(c), receipt' = receipt,
             h'[c].pc \notin {"resolve", "confirm", "fail"}, done' = done,
             doubts' = doubts \/ doubts' = doubts + 1,
             \A d \in Handlers \ {c} : h'[d] = h[d]
      PROVE  Goal
  <2>1. \A d \in Handlers : Revocable(d)' <=> Revocable(d)
    BY <1>4 DEF Revocable
  <2> QED
    BY <1>1, <1>2, <1>4, <2>1
<1>5. ASSUME NEW c \in Handlers, Take(c) \/ Ack(c) \/ FinalFailure(c)
      PROVE  Goal
  <2>1. /\ receipt' = receipt /\ done' = done /\ doubts' = doubts
    BY <1>5 DEF Take, Ack, FinalFailure
  <2>2. /\ h'[c].pc \in {"claim", "idle", "ack"}
        /\ \A d \in Handlers \ {c} : h'[d] = h[d]
    BY <1>0, <1>5, TakeType, IdleType, GoType DEF Take, Ack, FinalFailure
  <2>3. Revocable(c) => h'[c].pc = "idle"
    BY <1>0, <1>5, IdleType DEF Take, Ack, FinalFailure, Revocable, At
  <2> QED
    BY <1>3, <1>4, <2>1, <2>2, <2>3
<1>6. ASSUME NEW c \in Handlers, Nack(c) \/ Crash(c) PROVE Goal
  <2>1. /\ h' = [h EXCEPT ![c] = Idle] /\ receipt' = receipt /\ done' = done
    BY <1>6 DEF Nack, Crash, Abort
  <2>2. h'[c].pc = "idle" /\ \A d \in Handlers \ {c} : h'[d] = h[d]
    BY <1>0, <2>1, IdleType
  <2>3. doubts' = doubts \/ (h[c].pc = "record" /\ doubts' = doubts + 1)
    BY <1>0, <1>6 DEF Nack, Crash, Doubt, At
  <2>4. Revocable(c) => doubts' = doubts
    BY <2>3 DEF Revocable
  <2> QED
    BY <1>3, <1>4, <2>1, <2>2, <2>3, <2>4
<1>7. ASSUME NEW c \in Handlers, ChannelLost(c) PROVE Goal
  <2>1. /\ h'[c].pc = h[c].pc /\ \A d \in Handlers \ {c} : h'[d] = h[d]
        /\ UNCHANGED <<receipt, done, doubts>>
    BY <1>0, <1>7, LostType DEF ChannelLost
  <2>2. \A d \in Handlers : Revocable(d)' <=> Revocable(d)
    BY <2>1 DEF Revocable
  <2> QED
    BY <1>1, <1>2, <2>1, <2>2
<1>8. ASSUME NEW c \in Handlers, ClaimReceipt(c) PROVE Goal
  <2>1. done' = done /\ doubts' = doubts /\ h[c].pc = "claim"
    BY <1>8 DEF ClaimReceipt, At
  <2>2. CASE Refused
    <3>1. receipt' = receipt /\ h'[c].pc = "ack" /\ \A d \in Handlers \ {c} : h'[d] = h[d]
      BY <1>0, <1>8, <2>2, GoType DEF ClaimReceipt
    <3> QED
      BY <1>4, <2>1, <3>1 DEF Revocable
  <2>3. CASE ~Refused
    <3>1. /\ receipt.status \in {"NONE", "PROCESSING", "RETRY_SCHEDULED"}
          /\ receipt'.status = "PROCESSING"
      BY <1>0, <1>8, <2>3 DEF ClaimReceipt, Refused, TypeOK, ReceiptStatuses
    <3>2. Phase = "open" /\ Phase' = "open"
      BY <3>1 DEF Phase
    <3> QED
      BY <1>1, <2>1, <3>2
  <2> QED
    BY <2>2, <2>3
<1>9. ASSUME NEW c \in Handlers, Deliver(c) PROVE Goal
  <2>1. /\ receipt' = receipt /\ doubts' = doubts /\ h[c].pc = "deliver"
        /\ \A d \in Handlers \ {c} : h'[d] = h[d]
        /\ \/ h'[c].pc = "record" /\ done' = done + 1
           \/ h'[c].pc = "fail" /\ done' = done
    BY <1>0, <1>9, GoType DEF Deliver, At, Working
  <2>2. \A d \in Handlers : Revocable(d)' <=> Revocable(d)
    <3>1. receipt.claim = c => receipt.status = "PROCESSING"
      BY <1>0, <2>1 DEF HolderIsProcessing, Working
    <3> QED
      BY <2>1, <3>1 DEF Revocable
  <2>3. Phase' = Phase
    BY <1>2, <2>1, <2>2
  <2>4. CASE done' = done + 1
    <3>1. done <= doubts
      BY <1>0, <2>1, DeliveryIsDue DEF At
    <3> QED
      BY <2>1, <2>3, <2>4, <3>1 DEF Contract!Next, Contract!Work
  <2> QED
    BY <1>1, <2>1, <2>3, <2>4
<1>10. ASSUME NEW c \in Handlers, Record(c) PROVE Goal
  <2>1. /\ done' = done /\ doubts' = doubts /\ h[c].pc = "record" /\ h'[c].pc = "resolve"
        /\ \A d \in Handlers \ {c} : h'[d] = h[d]
    BY <1>0, <1>10, GoType DEF Record, At, Working
  <2>2. CASE receipt.claim = c
    <3>1. receipt.status = "PROCESSING"
      BY <1>0, <2>1, <2>2 DEF HolderIsProcessing, Working
    <3>2. receipt'.status = "DELIVERED" /\ receipt'.claim = c
      BY <1>0, <1>10, <2>2 DEF Record, TypeOK
    <3>3. Revocable(c)'
      BY <2>1, <3>2 DEF Revocable
    <3>4. Phase = "open" /\ Phase' = "open"
      BY <3>1, <3>2, <3>3 DEF Phase
    <3> QED
      BY <1>1, <2>1, <3>4
  <2>3. CASE receipt.claim # c
    <3>1. receipt' = receipt
      BY <1>10, <2>3 DEF Record
    <3>2. \A d \in Handlers : Revocable(d)' <=> Revocable(d)
      BY <2>1, <2>3, <3>1 DEF Revocable
    <3> QED
      BY <1>1, <1>2, <2>1, <3>1, <3>2
  <2> QED
    BY <2>2, <2>3
<1>11. ASSUME NEW c \in Handlers, RecordingFails(c) \/ AckThrows(c) \/ ResolveFailure(c)
       PROVE  Goal
  <2>1. /\ done' = done /\ receipt' = receipt
        /\ h[c].pc \in {"record", "resolve", "confirm"} /\ h'[c].pc \in {"confirm", "fail"}
        /\ \A d \in Handlers \ {c} : h'[d] = h[d]
    BY <1>0, <1>11, GoType DEF RecordingFails, AckThrows, ResolveFailure, At, Working
  <2>2. doubts' = doubts \/ doubts' = doubts + 1
    BY <1>11 DEF RecordingFails, AckThrows, ResolveFailure, Doubt
  <2>3. \A d \in Handlers : Revocable(d)' <=> Revocable(d)
    <3>1. receipt.claim = c /\ h[c].pc = "record" => receipt.status = "PROCESSING"
      BY <1>0 DEF HolderIsProcessing, Working
    <3> QED
      BY <2>1, <3>1 DEF Revocable
  <2> QED
    BY <1>1, <1>2, <2>1, <2>2, <2>3
<1>12. ASSUME NEW c \in Handlers, RetryOrDeadLetter(c) PROVE Goal
  <2>1. /\ done' = done /\ doubts' = doubts /\ h[c].pc = "fail" /\ h'[c].pc = "ack"
        /\ \A d \in Handlers \ {c} : h'[d] = h[d]
    BY <1>0, <1>12, GoType DEF RetryOrDeadLetter, At
  <2>2. CASE receipt.claim = c
    <3>1. receipt.status = "PROCESSING" \/ Revocable(c)
      BY <1>0, <2>1, <2>2 DEF HolderIsProcessing, Working, Revocable
    <3>2. Phase = "open"
      BY <3>1 DEF Phase, Revocable
    <3>3. receipt'.status \in {"RETRY_SCHEDULED", "DEAD_LETTERED"}
      BY <1>12, <2>2 DEF RetryOrDeadLetter
    <3>4. Phase' = "open" \/ Phase' = "dead"
      BY <3>3 DEF Phase
    <3> QED
      BY <1>1, <2>1, <3>2, <3>4 DEF Contract!Next, Contract!GiveUp, Contract!Move
  <2>3. CASE receipt.claim # c
    <3>1. receipt' = receipt
      BY <1>12, <2>3 DEF RetryOrDeadLetter
    <3> QED
      BY <1>4, <2>1, <2>3, <3>1 DEF Revocable
  <2> QED
    BY <2>2, <2>3
<1>13. CASE \/ \E n \in Attempts : PublishRow(n)
            \/ LeaseLapses \/ UNCHANGED vars
  <2>1. /\ h' = h /\ done' = done
        /\ receipt'.status = receipt.status /\ receipt'.claim = receipt.claim
    BY <1>0, <1>13 DEF PublishRow, LeaseLapses, vars, TypeOK
  <2>2. doubts' = doubts \/ doubts' = doubts + 1
    BY <1>0, <1>13 DEF PublishRow, LeaseLapses, vars, Doubt
  <2>3. \A d \in Handlers : Revocable(d)' <=> Revocable(d)
    BY <2>1 DEF Revocable
  <2> QED
    BY <1>1, <1>2, <2>1, <2>2, <2>3
<1>14. CASE Retry \/ Close
  <2>1. /\ receipt.status \in {"NONE", "DEAD_LETTERED"} /\ done' = done /\ doubts' = doubts
        /\ receipt'.status = IF Retry THEN "RETRY_SCHEDULED" ELSE "CLOSED_NO_RETRY"
    BY <1>14 DEF Retry, Close, CanAct
  <2>2. /\ Phase = IF receipt.status = "NONE" THEN "open" ELSE "dead"
        /\ Phase' = IF Retry THEN "open" ELSE "closed"
    BY <2>1 DEF Phase
  <2> QED
    BY <1>1, <2>1, <2>2
    DEF Contract!Next, Contract!Drop, Contract!Retry, Contract!Close, Contract!Move
<1> QED
  BY <1>5, <1>6, <1>7, <1>8, <1>9, <1>10, <1>11, <1>12, <1>13, <1>14
  DEF Next, HandlerStep

\* The consumers implement the contract of an idempotent consumer, for any number
\* of handlers, attempts, operator retries and faults.
THEOREM ContractRefined == Spec => ImplementsContract
<1>1. Init => Contract!Init /\ Accounted /\ DeliveredIsDone
  <2> SUFFICES ASSUME Init PROVE Contract!Init /\ Accounted /\ DeliveredIsDone
    OBVIOUS
  <2>1. \A c \in Handlers : h[c].pc = "idle"
    BY DEF Init, Idle
  <2>2. Delivering = {}
    BY <2>1 DEF Delivering, At
  <2>3. IsFiniteSet(Delivering) /\ Cardinality(Delivering) = 0
    BY <2>2, FS_EmptySet
  <2>4. Accounted
    BY <2>3 DEF Init, Accounted
  <2>5. receipt.status = "NONE"
    BY DEF Init, NoReceipt
  <2> QED
    BY <2>1, <2>4, <2>5 DEF Init, Contract!Init, DeliveredIsDone, Phase
<1>2. /\ IInv /\ IInv' /\ Accounted /\ DeliveredIsDone /\ [Next]_vars
      => Accounted' /\ DeliveredIsDone'
  BY Balance, BalancedStep, DoneStep DEF IInv
<1>3. IInv /\ Accounted /\ DeliveredIsDone /\ [Next]_vars
        => [Contract!Next]_(Contract!cvars)
  BY ContractStep
<1> QED
  BY <1>1, <1>2, <1>3, Invariance, PTL DEF Spec, ImplementsContract, Contract!Spec
=============================================================================
