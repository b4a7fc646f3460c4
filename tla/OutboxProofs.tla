---------------------------- MODULE OutboxProofs ----------------------------
(***************************************************************************)
(* The publishers of OutboxPublisher implement OutboxChannel, for every    *)
(* number of rows, publishers and faults and every batch size.             *)
(***************************************************************************)
EXTENDS OutboxPublisher, FiniteSetTheorems, TLAPS

\* What a publisher has in hand was claimed when it was due.
ClaimsRipe ==
    /\ due \subseteq ripe
    /\ \A p \in Publishers : proc[p].batch \subseteq ripe
    /\ \A p \in Publishers : proc[p].pc # "loop" => proc[p].row \in ripe

\* Past the validation the contract is valid; the mark comes after a confirm.
Validated ==
    \A p \in Publishers :
        /\ proc[p].pc \in {"mark", "reschedule"} => proc[p].row \notin Invalid
        /\ proc[p].pc = "mark" => copies[proc[p].row] > 0

\* A row ends with a copy at the broker, or because its contract is invalid.
EndsJustified ==
    \A r \in Rows :
        /\ status[r] = "FAILED" => r \in Invalid
        /\ status[r] \in {"PUBLISHED", "DELETED"} => copies[r] > 0

Inv == TypeOK /\ next > 0 /\ ClaimsRipe /\ Validated /\ EndsJustified

\* The initial state satisfies the invariant.
LEMMA InitInv == Init => Inv
  BY RowsAssumption, BatchAssumption
  DEF Init, Inv, TypeOK, ClaimsRipe, Validated, EndsJustified, Idle, Procs,
      NoRow, NoToken, Ended

\* The types of the variables an update of the local state or of a row leaves.
LEMMA StartsNextRow ==
  ASSUME proc \in [Publishers -> Procs], NEW p \in Publishers, NextRow(p)
  PROVE  proc' \in [Publishers -> Procs]
  BY DEF NextRow, Procs, NoRow

\* A publisher's move to another step keeps the type of its state.
LEMMA GoesTo ==
  ASSUME proc \in [Publishers -> Procs], NEW p \in Publishers,
         NEW s \in {"publish", "mark", "reschedule"},
         proc' = [proc EXCEPT ![p].pc = s]
  PROVE  proc' \in [Publishers -> Procs]
  BY DEF Procs

\* Ending the poll keeps the type of the publisher's state.
LEMMA BecomesIdle ==
  ASSUME proc \in [Publishers -> Procs], NEW p \in Publishers,
         proc' = [proc EXCEPT ![p] = Idle]
  PROVE  proc' \in [Publishers -> Procs]
  BY DEF Procs, Idle, NoRow, NoToken

\* Counting a copy keeps the type of the counters.
LEMMA CountsCopy ==
  ASSUME copies \in [Rows -> Nat], NEW r \in Rows,
         copies' = [copies EXCEPT ![r] = @ + 1]
  PROVE  /\ copies' \in [Rows -> Nat]
         /\ copies'[r] > 0
         /\ \A q \in Rows : copies[q] > 0 => copies'[q] > 0
  OBVIOUS

\* Types and shape of the table.
Shape ==
    /\ status \in [Rows -> {"PENDING", "PUBLISHING"} \cup Ended]
    /\ lock \in [Rows -> Nat]
    /\ lapsed \subseteq Rows
    /\ \A r \in Rows : lock[r] # NoToken <=> status[r] = "PUBLISHING"
    /\ \A r \in lapsed : status[r] = "PUBLISHING"

\* Unlocking a row keeps the shape of the table.
LEMMA UnlockShape ==
  ASSUME Shape, NEW r \in Rows, NEW s \in {"PENDING"} \cup Ended, Unlock(r, s)
  PROVE  Shape'
  BY DEF Shape, Unlock, Ended, NoToken

\* The row a publisher works on is a row of the table.
LEMMA RowType ==
  ASSUME Inv, NEW p \in Publishers, proc[p].pc # "loop"
  PROVE  proc[p].row \in Rows
  BY DEF Inv, TypeOK, ClaimsRipe

\* Every step preserves the types and the shape of the claim columns.
LEMMA TypeStep == Inv /\ [Next]_vars => TypeOK'
<1> SUFFICES ASSUME Inv, [Next]_vars PROVE TypeOK'
  OBVIOUS
<1> USE RowsAssumption, BatchAssumption DEF Inv, TypeOK, Ended, NoToken, NoRow, table, history
<1>1. ASSUME NEW p \in Publishers, ClaimBatch(p) PROVE TypeOK'
  <2> DEFINE expired == {r \in lapsed : status[r] = "PUBLISHING"}
             pending == {r \in due : status[r] = "PENDING" \/ r \in expired}
  <2>1. PICK batch \in SUBSET Oldest(pending) :
            /\ status' = [r \in Rows |-> IF r \in batch THEN "PUBLISHING"
                                         ELSE IF r \in expired THEN "PENDING"
                                         ELSE status[r]]
            /\ lock' = [r \in Rows |-> IF r \in batch THEN next
                                       ELSE IF r \in expired THEN NoToken
                                       ELSE lock[r]]
            /\ lapsed' = lapsed \ (expired \cup batch)
            /\ proc' = [proc EXCEPT ![p] =
                          [Idle EXCEPT !.batch = batch, !.tok = next]]
    BY <1>1 DEF ClaimBatch
  <2>2. batch \subseteq Rows
    BY DEF Oldest
  <2>3. proc' \in [Publishers -> Procs]
    BY <2>1, <2>2 DEF Procs, Idle
  <2> QED
    BY <1>1, <2>1, <2>2, <2>3 DEF ClaimBatch
<1>2. ASSUME NEW p \in Publishers, RenewClaim(p) PROVE TypeOK'
  <2>1. PICK r \in proc[p].batch :
          IF Owns(p, r)
          THEN /\ lapsed' = lapsed \ {r}
               /\ proc' = [proc EXCEPT ![p].pc = "publish", ![p].row = r,
                                       ![p].batch = @ \ {r}]
          ELSE /\ proc' = [proc EXCEPT ![p].batch = @ \ {r}]
               /\ UNCHANGED lapsed
    BY <1>2 DEF RenewClaim
  <2>2. r \in Nat
    BY DEF Procs
  <2>3. proc' \in [Publishers -> Procs]
    BY <2>1, <2>2 DEF Procs
  <2> QED
    BY <1>2, <2>1, <2>3 DEF RenewClaim
<1>3. ASSUME NEW p \in Publishers, Quarantine(p) \/ MarkPublished(p) \/ Reschedule(p)
      PROVE  TypeOK'
  <2>1. proc' \in [Publishers -> Procs]
    BY <1>3, StartsNextRow DEF Quarantine, MarkPublished, Reschedule
  <2>2. Shape
    BY DEF Shape
  <2>3. proc[p].row \in Rows
    BY <1>3, RowType DEF Quarantine, MarkPublished, Reschedule, At
  <2>4. Shape'
    <3>1. CASE UNCHANGED <<status, lock, lapsed>>
      BY <2>2, <3>1 DEF Shape
    <3>2. CASE \E s \in {"PENDING"} \cup Ended : Unlock(proc[p].row, s)
      BY <2>2, <2>3, <3>2, UnlockShape
    <3> QED
      BY <1>3, <3>1, <3>2 DEF Quarantine, MarkPublished, Reschedule
  <2>5. due' \subseteq Rows /\ UNCHANGED <<next, faults, ripe, history>>
    BY <1>3 DEF Quarantine, MarkPublished, Reschedule
  <2> QED
    BY <2>1, <2>4, <2>5 DEF Shape
<1>4. ASSUME NEW p \in Publishers, PublishConfirmed(p) PROVE TypeOK'
  <2>1. proc' \in [Publishers -> Procs]
    BY <1>4, GoesTo DEF PublishConfirmed
  <2>2. copies' \in [Rows -> Nat]
    BY <1>4, RowType, CountsCopy DEF PublishConfirmed, At
  <2>3. UNCHANGED <<status, lock, lapsed, due, next, faults, ripe, ambiguous>>
    BY <1>4 DEF PublishConfirmed
  <2> QED
    BY <2>1, <2>2, <2>3
<1>5. ASSUME NEW p \in Publishers, PublisherFault(p) PROVE TypeOK'
  <2>1. CASE PublishFails(p) \/ ConfirmLost(p) \/ MarkFails(p)
    <3>1. proc' \in [Publishers -> Procs]
      BY <2>1, GoesTo DEF PublishFails, ConfirmLost, MarkFails
    <3> QED
      BY <2>1, <3>1 DEF PublishFails, ConfirmLost, MarkFails, Fault
  <2>2. CASE ReleaseClaims(p)
    <3>1. proc' \in [Publishers -> Procs]
      BY <2>2, BecomesIdle DEF ReleaseClaims
    <3>2. PICK last \in proc[p].batch :
         LET own == {r \in proc[p].batch : r <= last /\ Owns(p, r)} IN
         /\ status' = [r \in Rows |-> IF r \in own THEN "PENDING" ELSE status[r]]
         /\ lock' = [r \in Rows |-> IF r \in own THEN NoToken ELSE lock[r]]
         /\ lapsed' = lapsed \ own
      BY <2>2 DEF ReleaseClaims
    <3> DEFINE own == {r \in proc[p].batch : r <= last /\ Owns(p, r)}
    <3> HIDE DEF own
    <3>3. /\ status' = [r \in Rows |-> IF r \in own THEN "PENDING" ELSE status[r]]
          /\ lock' = [r \in Rows |-> IF r \in own THEN NoToken ELSE lock[r]]
          /\ lapsed' = lapsed \ own
      BY <3>2 DEF own
    <3>4. Shape'
      BY <3>3 DEF Shape
    <3>5. faults' \in Nat /\ UNCHANGED <<due, next, ripe, history>>
      BY <2>2 DEF ReleaseClaims, Fault
    <3> QED
      BY <3>1, <3>4, <3>5 DEF Shape
  <2>3. CASE PollAborted(p)
    <3>1. proc' \in [Publishers -> Procs]
      BY <2>3, BecomesIdle DEF PollAborted
    <3> QED
      BY <2>3, <3>1 DEF PollAborted, Fault
  <2>4. ASSUME NEW r \in Rows, LeaseOverrun(p, r) PROVE TypeOK'
    BY <2>4 DEF LeaseOverrun, Fault
  <2> QED
    BY <1>5, <2>1, <2>2, <2>3, <2>4 DEF PublisherFault
<1>6. ASSUME NEW r \in Rows, LeaseLapses(r) \/ BecomesDue(r) \/ DeletePublished(r)
      PROVE TypeOK'
  BY <1>6 DEF LeaseLapses, BecomesDue, DeletePublished
<1>7. CASE UNCHANGED vars
  BY <1>7 DEF vars
<1> QED
  BY <1>1, <1>2, <1>3, <1>4, <1>5, <1>6, <1>7
  DEF Next, PublisherStep, Clock

\* Every step keeps what publishers have in hand ripe.
LEMMA RipeStep == Inv /\ [Next]_vars => ClaimsRipe'
<1> SUFFICES ASSUME Inv, [Next]_vars PROVE ClaimsRipe'
  OBVIOUS
<1> USE DEF Inv, ClaimsRipe, table, history
<1>t. proc \in [Publishers -> Procs] /\ ripe \subseteq Rows /\ due \subseteq Rows
  BY DEF TypeOK
<1>1. ASSUME NEW p \in Publishers, ClaimBatch(p) PROVE ClaimsRipe'
  <2>1. PICK batch \in SUBSET due :
            proc' = [proc EXCEPT ![p] =
                          [Idle EXCEPT !.batch = batch, !.tok = next]]
    BY <1>1 DEF ClaimBatch, Oldest
  <2>2. due' = due /\ ripe' = ripe
    BY <1>1 DEF ClaimBatch
  <2> QED
    BY <1>t, <2>1, <2>2 DEF Procs, Idle
<1>2. ASSUME NEW p \in Publishers, RenewClaim(p) PROVE ClaimsRipe'
  BY <1>t, <1>2 DEF RenewClaim, Procs
<1>3. ASSUME NEW p \in Publishers, Quarantine(p) \/ MarkPublished(p) \/ Reschedule(p)
      PROVE  ClaimsRipe'
  BY <1>t, <1>3 DEF Quarantine, MarkPublished, Reschedule, NextRow, Procs
<1>4. ASSUME NEW p \in Publishers, PublishConfirmed(p) PROVE ClaimsRipe'
  BY <1>t, <1>4 DEF PublishConfirmed, At, Procs
<1>5. ASSUME NEW p \in Publishers, PublisherFault(p) PROVE ClaimsRipe'
  <2>1. CASE PublishFails(p) \/ ConfirmLost(p) \/ MarkFails(p)
    BY <1>t, <2>1 DEF PublishFails, ConfirmLost, MarkFails, At, Procs
  <2>2. CASE ReleaseClaims(p) \/ PollAborted(p)
    BY <1>t, <2>2 DEF ReleaseClaims, PollAborted, Idle, Procs
  <2>3. ASSUME NEW r \in Rows, LeaseOverrun(p, r) PROVE ClaimsRipe'
    BY <2>3 DEF LeaseOverrun
  <2> QED
    BY <1>5, <2>1, <2>2, <2>3 DEF PublisherFault
<1>6. ASSUME NEW r \in Rows, LeaseLapses(r) \/ BecomesDue(r) \/ DeletePublished(r)
      PROVE ClaimsRipe'
  BY <1>6 DEF LeaseLapses, BecomesDue, DeletePublished
<1>7. CASE UNCHANGED vars
  BY <1>7 DEF vars
<1> QED
  BY <1>1, <1>2, <1>3, <1>4, <1>5, <1>6, <1>7 DEF Next, PublisherStep, Clock

\* Every step keeps the contract of a row past its validation valid.
LEMMA ValidatedStep == Inv /\ [Next]_vars => Validated'
<1> SUFFICES ASSUME Inv, [Next]_vars PROVE Validated'
  OBVIOUS
<1> USE DEF Inv, Validated, table, history
<1>t. proc \in [Publishers -> Procs] /\ copies \in [Rows -> Nat]
  BY DEF TypeOK
<1>1. ASSUME NEW p \in Publishers, ClaimBatch(p) PROVE Validated'
  <2>1. PICK batch : proc' = [proc EXCEPT ![p] =
                                [Idle EXCEPT !.batch = batch, !.tok = next]]
    BY <1>1 DEF ClaimBatch
  <2>2. copies' = copies
    BY <1>1 DEF ClaimBatch
  <2> QED
    BY <1>t, <2>1, <2>2 DEF Procs, Idle
<1>2. ASSUME NEW p \in Publishers, RenewClaim(p) PROVE Validated'
  BY <1>t, <1>2 DEF RenewClaim, At, Procs
<1>3. ASSUME NEW p \in Publishers, Quarantine(p) \/ MarkPublished(p) \/ Reschedule(p)
      PROVE  Validated'
  BY <1>t, <1>3 DEF Quarantine, MarkPublished, Reschedule, NextRow, Procs
<1>4. ASSUME NEW p \in Publishers, PublishConfirmed(p) \/ ConfirmLost(p)
      PROVE  Validated'
  <2>1. proc[p].row \in Rows \ Invalid
    BY <1>4, RowType DEF PublishConfirmed, ConfirmLost, At
  <2>2. /\ copies'[proc[p].row] > 0
        /\ \A q \in Rows : copies[q] > 0 => copies'[q] > 0
    BY <1>t, <1>4, <2>1, CountsCopy DEF PublishConfirmed, ConfirmLost
  <2>3. \A q \in Publishers : proc[q].pc # "loop" => proc[q].row \in Rows
    BY RowType
  <2>4. \/ proc' = [proc EXCEPT ![p].pc = "mark"]
        \/ proc' = [proc EXCEPT ![p].pc = "reschedule"]
    BY <1>4 DEF PublishConfirmed, ConfirmLost
  <2> QED
    BY <1>t, <2>1, <2>2, <2>3, <2>4 DEF Procs
<1>5. ASSUME NEW p \in Publishers, PublisherFault(p), ~ConfirmLost(p) PROVE Validated'
  <2>1. CASE PublishFails(p) \/ MarkFails(p)
    BY <1>t, <2>1 DEF PublishFails, MarkFails, At, Procs
  <2>2. CASE ReleaseClaims(p) \/ PollAborted(p)
    BY <1>t, <2>2 DEF ReleaseClaims, PollAborted, Idle, Procs
  <2>3. ASSUME NEW r \in Rows, LeaseOverrun(p, r) PROVE Validated'
    BY <2>3 DEF LeaseOverrun
  <2> QED
    BY <1>5, <2>1, <2>2, <2>3 DEF PublisherFault
<1>6. ASSUME NEW r \in Rows, LeaseLapses(r) \/ BecomesDue(r) \/ DeletePublished(r)
      PROVE Validated'
  BY <1>6 DEF LeaseLapses, BecomesDue, DeletePublished
<1>7. CASE UNCHANGED vars
  BY <1>7 DEF vars
<1> QED
  BY <1>1, <1>2, <1>3, <1>4, <1>5, <1>6, <1>7
  DEF Next, PublisherStep, PublisherFault, Clock

\* Every step keeps the ends of rows justified.
LEMMA EndsStep == Inv /\ [Next]_vars => EndsJustified'
<1> SUFFICES ASSUME Inv, [Next]_vars PROVE EndsJustified'
  OBVIOUS
<1> USE DEF Inv, EndsJustified, table, history
<1>t. /\ proc \in [Publishers -> Procs] /\ copies \in [Rows -> Nat]
      /\ status \in [Rows -> {"PENDING", "PUBLISHING"} \cup Ended]
  BY DEF TypeOK
<1>1. ASSUME NEW p \in Publishers, ClaimBatch(p) PROVE EndsJustified'
  BY <1>t, <1>1 DEF ClaimBatch
<1>2. ASSUME NEW p \in Publishers, RenewClaim(p) PROVE EndsJustified'
  BY <1>2 DEF RenewClaim
<1>3. ASSUME NEW p \in Publishers, Quarantine(p) \/ MarkPublished(p) \/ Reschedule(p)
      PROVE  EndsJustified'
  <2>1. proc[p].row \in Rows /\ copies' = copies
    BY <1>3, RowType DEF Quarantine, MarkPublished, Reschedule, At
  <2>2. CASE UNCHANGED status
    BY <2>1, <2>2
  <2>3. CASE Quarantine(p) /\ Unlock(proc[p].row, "FAILED")
    BY <1>t, <2>1, <2>3 DEF Quarantine, Unlock
  <2>4. CASE MarkPublished(p) /\ Unlock(proc[p].row, "PUBLISHED")
    BY <1>t, <2>1, <2>4 DEF MarkPublished, Unlock, Validated, At
  <2>5. CASE Reschedule(p) /\ Unlock(proc[p].row, "PENDING")
    BY <1>t, <2>1, <2>5 DEF Unlock
  <2> QED
    BY <1>3, <2>2, <2>3, <2>4, <2>5 DEF Quarantine, MarkPublished, Reschedule
<1>4. ASSUME NEW p \in Publishers, PublishConfirmed(p) \/ ConfirmLost(p)
      PROVE  EndsJustified'
  <2>1. proc[p].row \in Rows /\ status' = status
    BY <1>4, RowType DEF PublishConfirmed, ConfirmLost, At
  <2>2. \A q \in Rows : copies[q] > 0 => copies'[q] > 0
    BY <1>t, <1>4, <2>1, CountsCopy DEF PublishConfirmed, ConfirmLost
  <2> QED
    BY <2>1, <2>2
<1>5. ASSUME NEW p \in Publishers, PublisherFault(p), ~ConfirmLost(p)
      PROVE  EndsJustified'
  <2>1. CASE PublishFails(p) \/ MarkFails(p) \/ PollAborted(p)
    BY <2>1 DEF PublishFails, MarkFails, PollAborted
  <2>2. CASE ReleaseClaims(p)
    BY <1>t, <2>2 DEF ReleaseClaims
  <2>3. ASSUME NEW r \in Rows, LeaseOverrun(p, r) PROVE EndsJustified'
    BY <2>3 DEF LeaseOverrun
  <2> QED
    BY <1>5, <2>1, <2>2, <2>3 DEF PublisherFault
<1>6. ASSUME NEW r \in Rows, LeaseLapses(r) \/ BecomesDue(r) \/ DeletePublished(r)
      PROVE EndsJustified'
  BY <1>t, <1>6 DEF LeaseLapses, BecomesDue, DeletePublished
<1>7. CASE UNCHANGED vars
  BY <1>7 DEF vars
<1> QED
  BY <1>1, <1>2, <1>3, <1>4, <1>5, <1>6, <1>7
  DEF Next, PublisherStep, PublisherFault, Clock

\* Lock tokens stay positive.
LEMMA TokenStep == Inv /\ [Next]_vars => next' > 0
<1> SUFFICES ASSUME Inv, [Next]_vars PROVE next' \in {next, next + 1}
  BY DEF Inv, TypeOK
<1>1. ASSUME NEW p \in Publishers, PublisherStep(p) PROVE next' \in {next, next + 1}
  BY <1>1 DEF PublisherStep, ClaimBatch, RenewClaim, Quarantine, PublishConfirmed,
              MarkPublished, Reschedule
<1>2. ASSUME NEW p \in Publishers, PublisherFault(p) PROVE next' = next
  BY <1>2 DEF PublisherFault, PublishFails, ConfirmLost, MarkFails, ReleaseClaims,
              PollAborted, LeaseOverrun
<1>3. CASE Clock \/ \E r \in Rows : DeletePublished(r)
  BY <1>3 DEF Clock, LeaseLapses, BecomesDue, DeletePublished
<1> QED
  BY <1>1, <1>2, <1>3 DEF Next, vars

(***************************************************************************)
(* The inductive invariant holds in every reachable state.                 *)
(***************************************************************************)
THEOREM OutboxInvariance == Spec => []Inv
<1>1. Inv /\ [Next]_vars => Inv'
  BY TypeStep, RipeStep, ValidatedStep, EndsStep, TokenStep DEF Inv
<1> QED
  BY InitInv, <1>1, PTL DEF Spec

(***************************************************************************)
(* The publishers' variables keep their types and exactly the rows in      *)
(* PUBLISHING have a lock token.                                           *)
(***************************************************************************)
THEOREM OutboxTypes == Spec => []TypeOK
<1>1. Inv => TypeOK
  BY DEF Inv
<1> QED
  BY OutboxInvariance, <1>1, PTL

-----------------------------------------------------------------------------
\* The row p is about to send, if any, and the rows that have not ended.
Sending(p) == {r \in Rows : At(p, "publish") /\ proc[p].row = r}
Open == {r \in Rows : status[r] \notin Ended}

\* A step in which no open row ends and no publisher starts or stops sending
\* leaves the set of rows to do.
LEMMA TodoSame ==
  ASSUME Open' = Open, \A p \in Publishers : Sending(p)' = Sending(p)
  PROVE  Todo' = Todo
  BY DEF Todo, Open, Sending

\* A step that concerns row r alone and starts no sending removes r or nothing.
LEMMA TodoShrinks ==
  ASSUME NEW r \in Rows,
         Open' \in {Open, Open \ {r}},
         \A p \in Publishers : Sending(p)' \in {Sending(p), Sending(p) \ {r}}
  PROVE  Todo' \in {Todo, Todo \ {r}}
  BY DEF Todo, Open, Sending

\* A row that has ended may be retired in the abstract channel.
LEMMA EndedRetires ==
  ASSUME Inv, NEW r \in Rows, Todo' \in {Todo, Todo \ {r}},
         r \in Invalid \/ copies[r] > 0, UNCHANGED <<ripe, copies>>
  PROVE  Channel!Next \/ UNCHANGED Channel!cvars
<1>1. CASE Todo' = Todo
  BY <1>1 DEF Channel!cvars
<1>2. CASE Todo' # Todo
  BY <1>2 DEF Channel!Next, Channel!Retire
<1> QED
  BY <1>1, <1>2

\* Every step of the publishers is a step of the channel, or none.
LEMMA StepRefines ==
  ASSUME Inv, [Next]_vars
  PROVE  Channel!Next \/ UNCHANGED Channel!cvars
<1> USE DEF table, history, Ended
<1>t. /\ proc \in [Publishers -> Procs] /\ copies \in [Rows -> Nat]
      /\ status \in [Rows -> {"PENDING", "PUBLISHING"} \cup Ended]
      /\ lapsed \subseteq Rows /\ due \subseteq Rows
      /\ \A r \in lapsed : status[r] = "PUBLISHING"
  BY DEF Inv, TypeOK
<1>1. ASSUME NEW p \in Publishers, ClaimBatch(p) PROVE UNCHANGED Channel!cvars
  <2>1. Open' = Open
    <3> DEFINE expired == {r \in lapsed : status[r] = "PUBLISHING"}
               pending == {r \in due : status[r] = "PENDING" \/ r \in expired}
    <3>1. PICK batch \in SUBSET Oldest(pending) :
            status' = [r \in Rows |-> IF r \in batch THEN "PUBLISHING"
                                      ELSE IF r \in expired THEN "PENDING"
                                      ELSE status[r]]
      BY <1>1 DEF ClaimBatch
    <3>2. batch \subseteq pending
      BY DEF Oldest
    <3> QED
      BY <1>t, <3>1, <3>2 DEF Open
  <2>2. PICK batch : proc' = [proc EXCEPT ![p] =
                                [Idle EXCEPT !.batch = batch, !.tok = next]]
    BY <1>1 DEF ClaimBatch
  <2>3. \A q \in Publishers : Sending(q)' = Sending(q)
    BY <1>t, <1>1, <2>2 DEF ClaimBatch, Sending, At, Idle, Procs
  <2> QED
    BY <1>1, <2>1, <2>3, TodoSame DEF ClaimBatch, Channel!cvars
<1>2. ASSUME NEW p \in Publishers, RenewClaim(p) PROVE UNCHANGED Channel!cvars
  <2>1. PICK r \in proc[p].batch :
          IF Owns(p, r)
          THEN proc' = [proc EXCEPT ![p].pc = "publish", ![p].row = r,
                                    ![p].batch = @ \ {r}]
          ELSE proc' = [proc EXCEPT ![p].batch = @ \ {r}]
    BY <1>2 DEF RenewClaim
  <2>2. At(p, "loop") /\ status' = status
    BY <1>2 DEF RenewClaim
  <2>3. \A q \in Publishers \ {p} : proc'[q] = proc[q]
    BY <1>t, <2>1
  <2>4. Sending(p)' \subseteq Open /\ Sending(p) = {}
    BY <1>t, <2>1, <2>2 DEF Sending, Open, At, Owns, Procs
  <2>5. Todo' = Todo
    BY <2>2, <2>3, <2>4 DEF Todo, Open, Sending, At
  <2> QED
    BY <1>2, <2>5 DEF RenewClaim, Channel!cvars
<1>3. ASSUME NEW p \in Publishers, Quarantine(p) \/ MarkPublished(p) \/ Reschedule(p)
      PROVE  Channel!Next \/ UNCHANGED Channel!cvars
  <2> DEFINE r == proc[p].row
  <2>1. r \in Rows /\ UNCHANGED <<ripe, copies>>
    BY <1>3, RowType DEF Quarantine, MarkPublished, Reschedule, At
  <2>2. \A q \in Publishers : Sending(q)' \in {Sending(q), Sending(q) \ {r}}
    BY <1>t, <1>3 DEF Quarantine, MarkPublished, Reschedule, NextRow, Sending, At, Procs
  <2>3. CASE Quarantine(p) \/ MarkPublished(p)
    <3>1. Open' \in {Open, Open \ {r}}
      BY <1>t, <2>1, <2>3 DEF Quarantine, MarkPublished, Unlock, Open
    <3>2. r \in Invalid \/ copies[r] > 0
      BY <2>3 DEF Quarantine, MarkPublished, Inv, Validated, At
    <3> QED
      BY <2>1, <2>2, <3>1, <3>2, TodoShrinks, EndedRetires
  <2>4. CASE Reschedule(p)
    <3>1. Open' = Open
      BY <1>t, <2>1, <2>4 DEF Reschedule, Owns, Unlock, Open
    <3>2. \A q \in Publishers : Sending(q)' = Sending(q)
      BY <1>t, <2>4 DEF Reschedule, NextRow, Sending, At, Procs
    <3> QED
      BY <2>1, <3>1, <3>2, TodoSame DEF Channel!cvars
  <2> QED
    BY <1>3, <2>3, <2>4
<1>4. ASSUME NEW p \in Publishers, PublishConfirmed(p) \/ ConfirmLost(p)
      PROVE  Channel!Next
  <2> DEFINE r == proc[p].row
  <2>1. /\ r \in Rows /\ r \in ripe /\ r \notin Invalid /\ At(p, "publish")
        /\ copies' = [copies EXCEPT ![r] = @ + 1]
        /\ UNCHANGED <<status, ripe>>
    BY <1>4, RowType DEF PublishConfirmed, ConfirmLost, At, Inv, ClaimsRipe
  <2>2. \A q \in Publishers : Sending(q)' \in {Sending(q), Sending(q) \ {r}}
    BY <1>t, <1>4 DEF PublishConfirmed, ConfirmLost, Sending, At, Procs
  <2>3. Todo' \in {Todo, Todo \ {r}}
    BY <2>1, <2>2, TodoShrinks DEF Open
  <2>4. r \in Todo
    BY <2>1 DEF Todo
  <2> QED
    BY <2>1, <2>3, <2>4 DEF Channel!Next, Channel!Deliver
<1>5. ASSUME NEW p \in Publishers, PublisherFault(p), ~ConfirmLost(p)
      PROVE  Channel!Next \/ UNCHANGED Channel!cvars
  <2>1. CASE ReleaseClaims(p)
    <3>1. Open' = Open
      BY <1>t, <2>1 DEF ReleaseClaims, Owns, Open
    <3>2. \A q \in Publishers : Sending(q)' = Sending(q)
      BY <1>t, <2>1 DEF ReleaseClaims, Sending, At, Idle, Procs
    <3> QED
      BY <2>1, <3>1, <3>2, TodoSame DEF ReleaseClaims, Channel!cvars
  <2>2. ASSUME NEW r \in Rows, LeaseOverrun(p, r) PROVE UNCHANGED Channel!cvars
    BY <2>2 DEF LeaseOverrun, Channel!cvars, Todo, At
  <2>3. CASE PublishFails(p) \/ MarkFails(p) \/ PollAborted(p)
    <3> DEFINE r == proc[p].row
    <3>1. UNCHANGED <<status, ripe, copies>>
      BY <2>3 DEF PublishFails, MarkFails, PollAborted
    <3>2. \A q \in Publishers : Sending(q)' \in {Sending(q), Sending(q) \ {r}}
      BY <1>t, <2>3 DEF PublishFails, MarkFails, PollAborted, Sending, At, Idle, Procs
    <3>3. CASE r \in Rows /\ status[r] \in Ended
      <4>1. r \in Invalid \/ copies[r] > 0
        BY <3>3 DEF Inv, EndsJustified
      <4> QED
        BY <3>1, <3>2, <3>3, <4>1, TodoShrinks, EndedRetires DEF Open
    <3>4. CASE ~(r \in Rows /\ status[r] \in Ended)
      BY <3>1, <3>2, <3>4 DEF Todo, Open, Sending, Channel!cvars
    <3> QED
      BY <3>3, <3>4
  <2> QED
    BY <1>5, <2>1, <2>2, <2>3 DEF PublisherFault
<1>6. ASSUME NEW r \in Rows, LeaseLapses(r) \/ DeletePublished(r)
      PROVE  UNCHANGED Channel!cvars
  BY <1>t, <1>6 DEF LeaseLapses, DeletePublished, Channel!cvars, Todo, At
<1>7. ASSUME NEW r \in Rows, BecomesDue(r) PROVE Channel!Next
  BY <1>7 DEF BecomesDue, Channel!Next, Channel!Ripen, Todo, At
<1>8. CASE UNCHANGED vars
  BY <1>8 DEF vars, Channel!cvars, Todo, At
<1> QED
  BY <1>1, <1>2, <1>3, <1>4, <1>5, <1>6, <1>7, <1>8
  DEF Next, PublisherStep, PublisherFault, Clock

(***************************************************************************)
(* The publishers implement the promise of the outbox: every row that      *)
(* leaves it was accepted by the broker or has an invalid contract, and no *)
(* message is sent before its availableAt.                                 *)
(***************************************************************************)
THEOREM Refinement == Spec => ImplementsChannel
<1>1. Init => Channel!Init
  BY DEF Init, Channel!Init, Todo, Ended
<1>2. Inv /\ [Next]_vars => [Channel!Next]_(Channel!cvars)
  BY StepRefines
<1> QED
  BY <1>1, <1>2, OutboxInvariance, PTL DEF Spec, ImplementsChannel, Channel!Spec

-----------------------------------------------------------------------------
\* How often a row may be sent

\* Publishers about to send row r; the publisher of a running claim that sends
\* it or has sent it; whether a later claim may send it.
Sends(r) == {p \in Publishers : At(p, "publish") /\ proc[p].row = r}
Busy(p, r) == /\ proc[p].row = r /\ proc[p].pc \in {"publish", "mark"}
              /\ lock[r] = proc[p].tok
Free(r) ==
    /\ status[r] \notin Ended
    /\ ~(status[r] = "PUBLISHING" /\ r \notin lapsed /\ \E p \in Publishers : Busy(p, r))

\* A claim has one publisher.
Tokens ==
    /\ \A r \in Rows : lock[r] < next
    /\ \A p \in Publishers : /\ proc[p].tok < next
                             /\ proc[p].pc = "loop" => proc[p].row = NoRow
    /\ \A p, q \in Publishers :
        proc[p].tok = proc[q].tok /\ proc[p].tok # NoToken => p = q

\* Copies that were sent, are about to be and may still be.
Accounted(r) ==
    /\ IsFiniteSet(Sends(r))
    /\ copies[r] + Cardinality(Sends(r)) + (IF Free(r) THEN 1 ELSE 0) <= 1 + ambiguous

\* Every step keeps claims apart.
LEMMA TokensStep ==
  ASSUME Inv, Tokens, [Next]_vars PROVE Tokens'
<1> USE DEF Tokens, table, history
<1>t. /\ proc \in [Publishers -> Procs] /\ lock \in [Rows -> Nat] /\ next \in Nat /\ next > 0
      /\ \A p \in Publishers : proc[p].tok \in Nat
  BY DEF Inv, TypeOK, Procs
<1>1. ASSUME NEW p \in Publishers, ClaimBatch(p) PROVE Tokens'
  <2>1. PICK batch : /\ proc' = [proc EXCEPT ![p] = [Idle EXCEPT !.batch = batch, !.tok = next]]
                     /\ \A r \in Rows : lock'[r] \in {next, NoToken, lock[r]}
    BY <1>t, <1>1 DEF ClaimBatch
  <2>2. next' = next + 1
    BY <1>1 DEF ClaimBatch
  <2>3. /\ proc'[p].tok = next /\ proc'[p].pc = "loop" /\ proc'[p].row = NoRow
        /\ \A q \in Publishers \ {p} : proc'[q] = proc[q]
    BY <1>t, <2>1 DEF Idle
  <2>4. \A r \in Rows : lock'[r] < next'
    BY <1>t, <2>1, <2>2 DEF NoToken
  <2> QED
    BY <1>t, <2>2, <2>3, <2>4
<1>2. ASSUME NEW p \in Publishers, UNCHANGED <<lock, next>>,
             proc' \in [Publishers -> Procs],
             \A q \in Publishers \ {p} : proc'[q] = proc[q],
             proc'[p].tok \in {proc[p].tok, NoToken},
             proc'[p].pc = "loop" => proc'[p].row = NoRow
      PROVE  Tokens'
  BY <1>t, <1>2 DEF NoToken
<1>3. ASSUME NEW p \in Publishers, RenewClaim(p) PROVE Tokens'
  <2>1. PICK r \in proc[p].batch :
            \/ proc' = [proc EXCEPT ![p].pc = "publish", ![p].row = r, ![p].batch = @ \ {r}]
            \/ proc' = [proc EXCEPT ![p].batch = @ \ {r}]
    BY <1>3 DEF RenewClaim
  <2>2. r \in Nat
    BY <1>t, RowsAssumption DEF Procs
  <2>3. proc' \in [Publishers -> Procs] /\ proc'[p].tok = proc[p].tok
        /\ (proc'[p].pc = "loop" => proc'[p].row = proc[p].row)
        /\ \A q \in Publishers \ {p} : proc'[q] = proc[q]
    BY <1>t, <2>1, <2>2 DEF Procs
  <2>4. proc[p].row = NoRow /\ UNCHANGED <<lock, next>>
    BY <1>3 DEF RenewClaim, At
  <2> QED
    BY <1>2, <2>3, <2>4
<1>4. ASSUME NEW p \in Publishers, Quarantine(p) \/ MarkPublished(p) \/ Reschedule(p)
      PROVE  Tokens'
  <2>1. /\ proc' = [proc EXCEPT ![p].pc = "loop", ![p].row = NoRow] /\ next' = next
        /\ \A r \in Rows : lock'[r] \in {lock[r], NoToken}
    BY <1>t, <1>4 DEF Quarantine, MarkPublished, Reschedule, NextRow, Unlock
  <2>2. \A r \in Rows : lock'[r] < next'
    BY <1>t, <2>1 DEF NoToken
  <2>3. /\ proc'[p].tok = proc[p].tok /\ proc'[p].row = NoRow
        /\ \A q \in Publishers \ {p} : proc'[q] = proc[q]
    BY <1>t, <2>1 DEF Procs
  <2> QED
    BY <1>t, <2>1, <2>2, <2>3
<1>5. ASSUME NEW p \in Publishers,
             \/ PublishConfirmed(p) \/ PublishFails(p) \/ ConfirmLost(p) \/ MarkFails(p)
      PROVE  Tokens'
  <2>1. PICK s \in {"mark", "reschedule"} : proc' = [proc EXCEPT ![p].pc = s]
    BY <1>5 DEF PublishConfirmed, PublishFails, ConfirmLost, MarkFails
  <2>2. UNCHANGED <<lock, next>>
    BY <1>5 DEF PublishConfirmed, PublishFails, ConfirmLost, MarkFails
  <2>3. /\ proc' \in [Publishers -> Procs] /\ proc'[p].tok = proc[p].tok /\ proc'[p].pc = s
        /\ \A q \in Publishers \ {p} : proc'[q] = proc[q]
    BY <1>t, <2>1 DEF Procs
  <2> QED
    BY <1>2, <2>2, <2>3
<1>6. ASSUME NEW p \in Publishers, ReleaseClaims(p) \/ PollAborted(p) PROVE Tokens'
  <2>1. /\ proc' = [proc EXCEPT ![p] = Idle] /\ next' = next
        /\ \A r \in Rows : lock'[r] \in {lock[r], NoToken}
    BY <1>t, <1>6 DEF ReleaseClaims, PollAborted
  <2>2. \A r \in Rows : lock'[r] < next'
    BY <1>t, <2>1 DEF NoToken
  <2>3. /\ proc'[p].tok = NoToken /\ proc'[p].row = NoRow
        /\ \A q \in Publishers \ {p} : proc'[q] = proc[q]
    BY <1>t, <2>1 DEF Idle
  <2> QED
    BY <1>t, <2>1, <2>2, <2>3 DEF NoToken
<1>7. CASE UNCHANGED <<lock, next, proc>>
  BY <1>7
<1>8. ASSUME NEW p \in Publishers, NEW r \in Rows, LeaseOverrun(p, r) PROVE Tokens'
  BY <1>7, <1>8 DEF LeaseOverrun
<1>9. ASSUME NEW r \in Rows, LeaseLapses(r) \/ BecomesDue(r) \/ DeletePublished(r)
      PROVE  Tokens'
  BY <1>7, <1>9 DEF LeaseLapses, BecomesDue, DeletePublished
<1>10. CASE UNCHANGED vars
  BY <1>7, <1>10 DEF vars
<1> QED
  BY <1>1, <1>3, <1>4, <1>5, <1>6, <1>8, <1>9, <1>10
  DEF Next, PublisherStep, PublisherFault, Clock

\* The ways in which a step may change the account of row r.
Kept(r) == /\ Sends(r)' = Sends(r) /\ copies'[r] = copies[r] /\ ambiguous' >= ambiguous
           /\ Free(r)' => Free(r) \/ ambiguous' > ambiguous
Started(r, p) == /\ Sends(r)' = Sends(r) \cup {p} /\ Free(r) /\ ~Free(r)'
                 /\ copies'[r] = copies[r] /\ ambiguous' = ambiguous
Stopped(r, p) == /\ p \in Sends(r) /\ Sends(r)' = Sends(r) \ {p}
                 /\ copies'[r] = copies[r] /\ ambiguous' = ambiguous
Copied(r, p) == /\ p \in Sends(r) /\ Sends(r)' = Sends(r) \ {p}
                /\ copies'[r] = copies[r] + 1 /\ ambiguous' >= ambiguous
                /\ Free(r)' => Free(r) \/ ambiguous' > ambiguous

\* Each of them keeps it balanced.
LEMMA Balance ==
  ASSUME TypeOK, TypeOK', NEW r \in Rows, Accounted(r),
         Kept(r) \/ \E p : Started(r, p) \/ Stopped(r, p) \/ Copied(r, p)
  PROVE  Accounted(r)'
<1>0. /\ copies[r] \in Nat /\ copies'[r] \in Nat /\ ambiguous \in Nat /\ ambiguous' \in Nat
  BY DEF TypeOK
<1>1. IsFiniteSet(Sends(r)) /\ Cardinality(Sends(r)) \in Nat
  BY FS_CardinalityType DEF Accounted
<1>2. CASE Kept(r)
  BY <1>0, <1>1, <1>2 DEF Kept, Accounted
<1>3. ASSUME NEW p, Started(r, p) PROVE Accounted(r)'
  <2>1. /\ IsFiniteSet(Sends(r)') /\ Cardinality(Sends(r)') \in Nat
        /\ Cardinality(Sends(r)') <= Cardinality(Sends(r)) + 1
    <3>1. /\ IsFiniteSet(Sends(r) \cup {p})
          /\ Cardinality(Sends(r) \cup {p}) =
                IF p \in Sends(r) THEN Cardinality(Sends(r)) ELSE Cardinality(Sends(r)) + 1
      BY <1>1, FS_AddElement
    <3>2. Cardinality(Sends(r) \cup {p}) \in Nat
      BY <3>1, FS_CardinalityType
    <3>3. Sends(r)' = Sends(r) \cup {p}
      BY <1>3 DEF Started
    <3> QED
      BY <1>1, <3>1, <3>2, <3>3
  <2> QED
    BY <1>0, <1>1, <1>3, <2>1 DEF Started, Accounted
<1>4. ASSUME NEW p, Stopped(r, p) \/ Copied(r, p) PROVE Accounted(r)'
  <2>1. /\ IsFiniteSet(Sends(r)') /\ Cardinality(Sends(r)') = Cardinality(Sends(r)) - 1
    BY <1>1, <1>4, FS_RemoveElement DEF Stopped, Copied
  <2>2. Cardinality(Sends(r)') \in Nat
    BY <2>1, FS_CardinalityType
  <2> QED
    BY <1>0, <1>1, <1>4, <2>1, <2>2 DEF Stopped, Copied, Accounted
<1> QED
  BY <1>2, <1>3, <1>4

\* Who holds a claim is the only one: nobody else sends its row.
LEMMA OneBusy ==
  ASSUME Inv, Tokens, NEW p \in Publishers, NEW q \in Publishers, NEW r \in Rows,
         status[r] = "PUBLISHING", lock[r] = proc[p].tok, Busy(q, r)
  PROVE  q = p
  BY DEF Inv, TypeOK, Tokens, Busy

\* A row without running claim, or whose claim is not yet used, may be sent.
LEMMA FreeIf ==
  ASSUME Inv, Tokens, NEW p \in Publishers, NEW r \in Rows, Owns(p, r), ~Busy(p, r)
  PROVE  Free(r)
  BY OneBusy DEF Owns, Free, Ended

\* A step of p that leaves the table and the history of r.
LEMMA Elsewhere ==
  ASSUME NEW p \in Publishers, NEW r \in Rows,
         \A q \in Publishers \ {p} : proc'[q] = proc[q],
         proc[p].row # r, proc'[p].row # r,
         status'[r] = status[r], lock'[r] = lock[r], r \in lapsed <=> r \in lapsed'
  PROVE  Sends(r)' = Sends(r) /\ (Free(r)' <=> Free(r))
<1>1. Sends(r)' = Sends(r)
  BY DEF Sends, At
<1>2. \A q \in Publishers : Busy(q, r)' <=> Busy(q, r)
  BY DEF Busy
<1> QED
  BY <1>1, <1>2 DEF Free

\* A batch is claimed: its rows were free and no publisher starts sending.
LEMMA ClaimAccount ==
  ASSUME Inv, Tokens, NEW p \in Publishers, ClaimBatch(p), NEW r \in Rows PROVE Kept(r)
<1>t. /\ proc \in [Publishers -> Procs] /\ r # NoRow /\ copies \in [Rows -> Nat]
      /\ ambiguous \in Nat
  BY RowsAssumption DEF Inv, TypeOK, NoRow
<1> DEFINE expired == {q \in lapsed : status[q] = "PUBLISHING"}
           pending == {q \in due : status[q] = "PENDING" \/ q \in expired}
<1>1. PICK batch \in SUBSET Oldest(pending) :
        /\ status' = [q \in Rows |-> IF q \in batch THEN "PUBLISHING"
                                     ELSE IF q \in expired THEN "PENDING" ELSE status[q]]
        /\ lock' = [q \in Rows |-> IF q \in batch THEN next
                                   ELSE IF q \in expired THEN NoToken ELSE lock[q]]
        /\ lapsed' = lapsed \ (expired \cup batch)
        /\ proc' = [proc EXCEPT ![p] = [Idle EXCEPT !.batch = batch, !.tok = next]]
  BY DEF ClaimBatch
<1>2. /\ proc[p].row = NoRow /\ proc'[p].row = NoRow /\ proc'[p].pc = "loop"
      /\ \A q \in Publishers \ {p} : proc'[q] = proc[q]
      /\ copies' = copies /\ ambiguous' = ambiguous
  BY <1>t, <1>1 DEF ClaimBatch, Tokens, At, Idle, history
<1>3. CASE r \in batch \/ r \in expired
  <2>1. Free(r)
    BY <1>3 DEF Oldest, Free, Ended
  <2>2. Sends(r)' = Sends(r)
    BY <1>t, <1>2 DEF Sends, At
  <2> QED
    BY <1>t, <1>2, <2>1, <2>2 DEF Kept
<1>4. CASE r \notin batch /\ r \notin expired
  <2>1. /\ status'[r] = status[r] /\ lock'[r] = lock[r] /\ (r \in lapsed <=> r \in lapsed')
    BY <1>1, <1>4
  <2>2. Sends(r)' = Sends(r) /\ (Free(r)' <=> Free(r))
    BY <1>t, <1>2, <2>1, Elsewhere
  <2> QED
    BY <1>t, <1>2, <2>2 DEF Kept
<1> QED
  BY <1>3, <1>4

\* A claim is renewed: the row is no longer free, and one more publisher sends it.
LEMMA RenewAccount ==
  ASSUME Inv, Tokens, NEW p \in Publishers, RenewClaim(p), NEW r \in Rows
  PROVE  Kept(r) \/ Started(r, p)
<1>t. /\ proc \in [Publishers -> Procs] /\ r # NoRow /\ ambiguous \in Nat
  BY RowsAssumption DEF Inv, TypeOK, NoRow
<1>1. PICK s \in proc[p].batch :
          IF Owns(p, s)
          THEN /\ lapsed' = lapsed \ {s}
               /\ proc' = [proc EXCEPT ![p].pc = "publish", ![p].row = s, ![p].batch = @ \ {s}]
          ELSE /\ proc' = [proc EXCEPT ![p].batch = @ \ {s}]
               /\ UNCHANGED lapsed
  BY DEF RenewClaim
<1>2. /\ proc[p].row = NoRow /\ proc[p].pc = "loop"
      /\ UNCHANGED <<status, lock, copies, ambiguous>>
      /\ \A q \in Publishers \ {p} : proc'[q] = proc[q]
  BY <1>t, <1>1 DEF RenewClaim, Tokens, At, history
<1>3. CASE Owns(p, s) /\ s = r
  <2>1. proc'[p].pc = "publish" /\ proc'[p].row = r /\ proc'[p].tok = proc[p].tok
    BY <1>t, <1>1, <1>3 DEF Procs
  <2>2. Sends(r)' = Sends(r) \cup {p}
    BY <1>2, <2>1 DEF Sends, At
  <2>3. Free(r)
    BY <1>2, <1>3, FreeIf DEF Busy
  <2>4. ~Free(r)'
    BY <1>1, <1>2, <1>3, <2>1 DEF Free, Busy, Owns
  <2> QED
    BY <1>2, <2>2, <2>3, <2>4 DEF Started
<1>4. CASE ~(Owns(p, s) /\ s = r)
  <2>1. proc'[p].row # r /\ (r \in lapsed <=> r \in lapsed')
    BY <1>t, <1>1, <1>2, <1>4 DEF Procs
  <2>2. Sends(r)' = Sends(r) /\ (Free(r)' <=> Free(r))
    BY <1>t, <1>2, <2>1, Elsewhere
  <2> QED
    BY <1>t, <1>2, <2>2 DEF Kept
<1> QED
  BY <1>3, <1>4

\* The row in hand is marked, rescheduled or quarantined.
LEMMA EndAccount ==
  ASSUME Inv, Tokens, NEW p \in Publishers,
         Quarantine(p) \/ MarkPublished(p) \/ Reschedule(p), NEW r \in Rows
  PROVE  Kept(r) \/ Stopped(r, p)
<1>t. /\ proc \in [Publishers -> Procs] /\ r # NoRow /\ ambiguous \in Nat
      /\ status \in [Rows -> {"PENDING", "PUBLISHING"} \cup Ended] /\ lock \in [Rows -> Nat]
      /\ lapsed \subseteq Rows
  BY RowsAssumption DEF Inv, TypeOK, NoRow
<1> DEFINE s == proc[p].row
<1>1. /\ s \in Rows /\ proc' = [proc EXCEPT ![p].pc = "loop", ![p].row = NoRow]
      /\ UNCHANGED <<copies, ambiguous>>
  BY RowType DEF Quarantine, MarkPublished, Reschedule, NextRow, At, history
<1>2. /\ \A q \in Publishers \ {p} : proc'[q] = proc[q]
      /\ proc'[p].row = NoRow /\ proc'[p].pc = "loop"
  BY <1>t, <1>1 DEF Procs
<1>3. \/ ~Owns(p, s) /\ UNCHANGED <<status, lock, lapsed>>
      \/ Owns(p, s) /\ \E v \in {"FAILED", "PUBLISHED", "PENDING"} :
            Unlock(s, v) /\ (v = "PENDING" => Reschedule(p))
  BY DEF Quarantine, MarkPublished, Reschedule, table
<1>4. CASE s # r
  <2>1. status'[r] = status[r] /\ lock'[r] = lock[r] /\ (r \in lapsed <=> r \in lapsed')
    BY <1>t, <1>1, <1>3, <1>4 DEF Unlock
  <2>2. Sends(r)' = Sends(r) /\ (Free(r)' <=> Free(r))
    BY <1>t, <1>2, <1>4, <2>1, Elsewhere
  <2> QED
    BY <1>t, <1>1, <2>2 DEF Kept
<1>5. CASE s = r /\ proc[p].pc = "publish"
  <2>1. p \in Sends(r) /\ Sends(r)' = Sends(r) \ {p}
    BY <1>2, <1>5 DEF Sends, At
  <2> QED
    BY <1>1, <2>1 DEF Stopped
<1>6. CASE s = r /\ proc[p].pc # "publish"
  <2>1. Sends(r)' = Sends(r)
    BY <1>2, <1>6 DEF Sends, At
  <2>2. Free(r)' => Free(r)
    <3>1. CASE ~Owns(p, r) /\ UNCHANGED <<status, lock, lapsed>>
      <4>1. \A q \in Publishers : status[r] = "PUBLISHING" => (Busy(q, r)' <=> Busy(q, r))
        BY <1>t, <1>2, <3>1 DEF Busy, Owns
      <4> QED
        BY <3>1, <4>1 DEF Free
    <3>2. CASE Reschedule(p) /\ Owns(p, r)
      BY <3>2, FreeIf DEF Reschedule, At, Busy
    <3>3. CASE \E v \in {"FAILED", "PUBLISHED"} : Unlock(r, v)
      BY <1>t, <3>3 DEF Unlock, Free, Ended
    <3> QED
      BY <1>3, <1>6, <3>1, <3>2, <3>3
  <2> QED
    BY <1>t, <1>1, <2>1, <2>2 DEF Kept
<1> QED
  BY <1>4, <1>5, <1>6

\* The publication succeeds or fails, its confirm is lost, or the mark fails.
LEMMA PublishAccount ==
  ASSUME Inv, Tokens, NEW p \in Publishers,
         PublishConfirmed(p) \/ PublishFails(p) \/ ConfirmLost(p) \/ MarkFails(p),
         NEW r \in Rows
  PROVE  Kept(r) \/ Stopped(r, p) \/ Copied(r, p)
<1>t. /\ proc \in [Publishers -> Procs] /\ r # NoRow /\ ambiguous \in Nat
      /\ copies \in [Rows -> Nat] /\ copies[r] \in Nat
  BY RowsAssumption DEF Inv, TypeOK, NoRow
<1> DEFINE s == proc[p].row
<1>1. UNCHANGED <<status, lock, lapsed>> /\ ambiguous' \in {ambiguous, ambiguous + 1}
  BY DEF PublishConfirmed, PublishFails, ConfirmLost, MarkFails, table, history
<1>2. /\ \A q \in Publishers \ {p} : proc'[q] = proc[q]
      /\ proc'[p].row = s /\ proc'[p].pc \in {"mark", "reschedule"}
      /\ proc'[p].tok = proc[p].tok
  BY <1>t DEF PublishConfirmed, PublishFails, ConfirmLost, MarkFails, Procs
<1>3. s \in Rows
  BY RowType DEF PublishConfirmed, PublishFails, ConfirmLost, MarkFails, At
<1>4. CASE s # r
  <2>1. Sends(r)' = Sends(r) /\ (Free(r)' <=> Free(r))
    BY <1>1, <1>2, <1>4, Elsewhere
  <2>2. copies'[r] = copies[r]
    BY <1>t, <1>3, <1>4 DEF PublishConfirmed, PublishFails, ConfirmLost, MarkFails, history
  <2> QED
    BY <1>t, <1>1, <2>1, <2>2 DEF Kept
<1>5. CASE s = r /\ MarkFails(p)
  <2>1. Sends(r)' = Sends(r) /\ copies' = copies /\ ambiguous' = ambiguous + 1
    BY <1>2, <1>5 DEF MarkFails, Sends, At
  <2> QED
    BY <1>t, <2>1 DEF Kept
<1>6. CASE s = r /\ ~MarkFails(p)
  <2>1. p \in Sends(r) /\ Sends(r)' = Sends(r) \ {p}
    BY <1>2, <1>6 DEF Sends, At, PublishConfirmed, PublishFails, ConfirmLost
  <2>2. CASE PublishFails(p)
    BY <2>1, <2>2 DEF PublishFails, Stopped, history
  <2>3. CASE ConfirmLost(p)
    BY <1>t, <1>6, <2>1, <2>3 DEF ConfirmLost, Copied
  <2>4. CASE PublishConfirmed(p)
    <3>1. \A q \in Publishers : Busy(q, r)' <=> Busy(q, r)
      BY <1>t, <1>1, <1>2, <1>6, <2>4 DEF Busy, PublishConfirmed, At, Procs
    <3>2. Free(r)' <=> Free(r)
      BY <1>1, <3>1 DEF Free
    <3> QED
      BY <1>t, <1>6, <2>1, <2>4, <3>2 DEF PublishConfirmed, Copied
  <2> QED
    BY <1>6, <2>2, <2>3, <2>4
<1> QED
  BY <1>4, <1>5, <1>6

\* A poll ends early, in order or not.
LEMMA AbortAccount ==
  ASSUME Inv, Tokens, NEW p \in Publishers, ReleaseClaims(p) \/ PollAborted(p), NEW r \in Rows
  PROVE  Kept(r) \/ Stopped(r, p)
<1>t. /\ proc \in [Publishers -> Procs] /\ r # NoRow /\ ambiguous \in Nat
      /\ proc[p].batch \subseteq Rows
  BY RowsAssumption DEF Inv, TypeOK, NoRow, Procs
<1>1. /\ \A q \in Publishers \ {p} : proc'[q] = proc[q]
      /\ proc'[p] = Idle /\ proc'[p].row = NoRow /\ proc'[p].pc = "loop" /\ copies' = copies
  BY <1>t DEF ReleaseClaims, PollAborted, Idle, history
<1>2. CASE ReleaseClaims(p)
  <2>1. /\ proc[p].pc = "loop" /\ proc[p].row = NoRow /\ ambiguous' = ambiguous
        /\ Sends(r)' = Sends(r)
    BY <1>1, <1>2 DEF ReleaseClaims, At, Tokens, history, Sends
  <2>2. PICK last \in proc[p].batch :
         LET own == {q \in proc[p].batch : q <= last /\ Owns(p, q)} IN
         /\ status' = [q \in Rows |-> IF q \in own THEN "PENDING" ELSE status[q]]
         /\ lock' = [q \in Rows |-> IF q \in own THEN NoToken ELSE lock[q]]
         /\ lapsed' = lapsed \ own
    BY <1>2 DEF ReleaseClaims
  <2> DEFINE own == {q \in proc[p].batch : q <= last /\ Owns(p, q)}
  <2>3. CASE r \in own
    <3>1. Free(r)
      BY <1>t, <2>1, <2>3, FreeIf DEF Busy
    <3> QED
      BY <1>t, <1>1, <2>1, <3>1 DEF Kept
  <2>4. CASE r \notin own
    <3>1. status'[r] = status[r] /\ lock'[r] = lock[r] /\ (r \in lapsed <=> r \in lapsed')
      BY <2>2, <2>4
    <3>2. Free(r)' <=> Free(r)
      BY <1>t, <1>1, <2>1, <3>1, Elsewhere
    <3> QED
      BY <1>t, <1>1, <2>1, <3>2 DEF Kept
  <2> QED
    BY <2>3, <2>4
<1>3. CASE PollAborted(p)
  <2>1. /\ UNCHANGED <<status, lock, lapsed>>
        /\ ambiguous' = ambiguous + (IF proc[p].pc = "mark" THEN 1 ELSE 0)
    BY <1>3 DEF PollAborted, At, table
  <2>2. CASE proc[p].row # r
    <3>1. Sends(r)' = Sends(r) /\ (Free(r)' <=> Free(r))
      BY <1>t, <1>1, <2>1, <2>2, Elsewhere
    <3> QED
      BY <1>t, <1>1, <2>1, <3>1 DEF Kept
  <2>3. CASE proc[p].row = r /\ proc[p].pc = "publish"
    <3>1. p \in Sends(r) /\ Sends(r)' = Sends(r) \ {p}
      BY <1>1, <2>3 DEF Sends, At
    <3> QED
      BY <1>t, <1>1, <2>1, <2>3, <3>1 DEF Stopped
  <2>4. CASE proc[p].row = r /\ proc[p].pc # "publish"
    <3>1. Sends(r)' = Sends(r)
      BY <1>1, <2>4 DEF Sends, At
    <3>2. CASE proc[p].pc = "mark"
      BY <1>t, <1>1, <2>1, <3>1, <3>2 DEF Kept
    <3>3. CASE proc[p].pc # "mark"
      <4>1. \A q \in Publishers : Busy(q, r)' <=> Busy(q, r)
        BY <1>1, <2>1, <2>4, <3>3 DEF Busy
      <4>2. Free(r)' <=> Free(r)
        BY <2>1, <4>1 DEF Free
      <4> QED
        BY <1>t, <1>1, <2>1, <3>1, <3>3, <4>2 DEF Kept
    <3> QED
      BY <3>2, <3>3
  <2> QED
    BY <2>2, <2>3, <2>4
<1> QED
  BY <1>2, <1>3

\* Leases end, dates come, rows are deleted.
LEMMA ClockAccount ==
  ASSUME Inv, Tokens, NEW r \in Rows, NEW s \in Rows,
         \/ \E p \in Publishers : LeaseOverrun(p, s)
         \/ LeaseLapses(s) \/ BecomesDue(s) \/ DeletePublished(s)
  PROVE  Kept(r)
<1>t. /\ proc \in [Publishers -> Procs] /\ ambiguous \in Nat
      /\ status \in [Rows -> {"PENDING", "PUBLISHING"} \cup Ended]
  BY DEF Inv, TypeOK
<1>1. /\ UNCHANGED <<proc, lock, copies>> /\ Sends(r)' = Sends(r)
      /\ \A p \in Publishers : Busy(p, r)' <=> Busy(p, r)
      /\ ambiguous' \in {ambiguous, ambiguous + 1}
  <2>1. UNCHANGED <<proc, lock, copies>>
    BY DEF LeaseOverrun, LeaseLapses, BecomesDue, DeletePublished, history
  <2>2. ambiguous' \in {ambiguous, ambiguous + 1}
    <3>1. CASE ambiguous' = ambiguous
      BY <3>1
    <3>2. ASSUME NEW p \in Publishers, LeaseOverrun(p, s)
          PROVE  ambiguous' \in {ambiguous, ambiguous + 1}
      BY <1>t, <3>2 DEF LeaseOverrun
    <3> QED
      BY <3>1, <3>2 DEF LeaseLapses, BecomesDue, DeletePublished, history
  <2> QED
    BY <2>1, <2>2 DEF Sends, At, Busy
<1>2. ASSUME NEW p \in Publishers, LeaseOverrun(p, s) PROVE Kept(r)
  <2>1. /\ status' = status /\ lapsed' = lapsed \cup {s} /\ status[s] = "PUBLISHING"
        /\ lock[s] = proc[p].tok
        /\ Busy(p, s) => ambiguous' = ambiguous + 1
    BY <1>2 DEF LeaseOverrun, Holds, Busy
  <2>2. CASE Busy(p, s)
    BY <1>t, <1>1, <2>1, <2>2 DEF Kept
  <2>3. CASE ~Busy(p, s)
    <3>1. Free(s)
      BY <2>1, <2>3, FreeIf DEF Owns
    <3>2. Free(r)' => Free(r)
      BY <1>1, <2>1, <3>1 DEF Free
    <3> QED
      BY <1>t, <1>1, <3>2 DEF Kept
  <2> QED
    BY <2>2, <2>3
<1>3. CASE LeaseLapses(s)
  <2>1. /\ status' = status /\ lapsed' = lapsed \cup {s} /\ ambiguous' = ambiguous
        /\ status[s] = "PUBLISHING" /\ \A p \in Publishers : ~Busy(p, s)
    BY <1>3 DEF LeaseLapses, Holds, Busy, history
  <2>2. Free(r)' => Free(r)
    BY <1>1, <2>1 DEF Free, Ended
  <2> QED
    BY <1>t, <1>1, <2>1, <2>2 DEF Kept
<1>4. CASE BecomesDue(s) \/ DeletePublished(s)
  <2>1. Free(r)' => Free(r)
    BY <1>t, <1>1, <1>4 DEF BecomesDue, DeletePublished, Free, Ended
  <2> QED
    BY <1>t, <1>1, <1>4, <2>1 DEF BecomesDue, DeletePublished, history, Kept
<1> QED
  BY <1>2, <1>3, <1>4

\* Every step keeps every row accounted for.
LEMMA AccountStep ==
  ASSUME Inv, Tokens, [Next]_vars, NEW r \in Rows, Accounted(r) PROVE Accounted(r)'
<1>0. TypeOK /\ TypeOK'
  BY TypeStep DEF Inv
<1>1. CASE UNCHANGED vars
  <2>1. Kept(r)
    BY <1>0, <1>1 DEF vars, table, history, Kept, Sends, At, Free, Busy, TypeOK
  <2> QED
    BY <1>0, <2>1, Balance
<1>2. CASE Next
  <2>1. Kept(r) \/ \E p \in Publishers : Started(r, p) \/ Stopped(r, p) \/ Copied(r, p)
    BY <1>2, ClaimAccount, RenewAccount, EndAccount, PublishAccount, AbortAccount,
       ClockAccount DEF Next, PublisherStep, PublisherFault, Clock
  <2> QED
    BY <1>0, <2>1, Balance
<1> QED
  BY <1>1, <1>2

(***************************************************************************)
(* However many publishers compete for the rows, the broker gets at most   *)
(* one copy more of a message than there were publications whose result    *)
(* was not recorded.                                                       *)
(***************************************************************************)
THEOREM CopiesBounded == Spec => []CopiesAccounted
<1> DEFINE Account == Tokens /\ \A r \in Rows : Accounted(r)
<1>1. Init => Account
  <2> SUFFICES ASSUME Init PROVE Account
    OBVIOUS
  <2>1. Tokens
    BY DEF Init, Tokens, Idle, NoToken
  <2>2. ASSUME NEW r \in Rows PROVE Accounted(r)
    <3>1. Sends(r) = {}
      BY DEF Init, Sends, At, Idle
    <3>2. copies[r] = 0 /\ ambiguous = 0
      BY DEF Init
    <3> QED
      BY <3>1, <3>2, FS_EmptySet DEF Accounted
  <2> QED
    BY <2>1, <2>2
<1>2. Inv /\ Account /\ [Next]_vars => Account'
  BY TokensStep, AccountStep
<1>3. Inv /\ Account => CopiesAccounted
  <2> SUFFICES ASSUME Inv, Account, NEW r \in Rows PROVE copies[r] <= 1 + ambiguous
    BY DEF CopiesAccounted
  <2>1. copies[r] \in Nat /\ ambiguous \in Nat /\ Cardinality(Sends(r)) \in Nat
    BY FS_CardinalityType DEF Inv, TypeOK, Accounted
  <2> QED
    BY <2>1 DEF Accounted
<1> HIDE DEF Account
<1> QED
  BY <1>1, <1>2, <1>3, OutboxInvariance, PTL DEF Spec
=============================================================================
