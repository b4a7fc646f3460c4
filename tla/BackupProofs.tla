---------------------------- MODULE BackupProofs ----------------------------
(***************************************************************************)
(* The safety of BackupJobs, for every number of jobs, administrators,     *)
(* handlers, attempts and faults.                                          *)
(***************************************************************************)
EXTENDS BackupJobs, FiniteSetTheorems, TLAPS

\* A busy handler works on a job.
HasJob == \A h \in Handlers : handler[h].pc # "idle" => handler[h].job \in Jobs

\* What a handler knows of a finished job stays true.
Knows ==
    \A h \in Handlers :
        /\ At(h, "decide") /\ handler[h].snap.status \in Terminal
             => status[handler[h].job] \in Terminal
        /\ At(h, "resolve") => status[handler[h].job] = "SUCCEEDED"
        /\ handler[h].pc \in {"complete", "resolve"} => sends[handler[h].job] > 0

\* An idempotency key names a job that was created.
Requested ==
    \A a \in Admins, k \in Keys : request[a][k] # NoJob => status[request[a][k]] # "none"

\* Handlers whose attempt at job j may still send a backup.
Running(j) == {h \in Handlers : At(h, "run") /\ handler[h].job = j}

\* Every attempt is being run, or has sent at most one backup.
AttemptsSpent == \A j \in Jobs : sends[j] + Cardinality(Running(j)) <= attempts[j]

SucceededSent == \A j \in Jobs : status[j] = "SUCCEEDED" => sends[j] > 0

Inv ==
    /\ TypeOK /\ HasJob /\ Knows /\ Requested /\ AttemptsSpent /\ SucceededSent
    /\ NoLostJob /\ FailureIsAlerted /\ OneActivePerAdmin

\* The initial state satisfies the invariant.
LEMMA InitInv == Init => Inv
<1> SUFFICES ASSUME Init PROVE Inv
  OBVIOUS
<1> USE DEF Init
<1>1. TypeOK
  <2>1. Idle \in HandlerStates
    BY DEF HandlerStates, Idle, NoSnap, NoJob, NoToken, Snaps, Steps
  <2>2. handler \in [Handlers -> HandlerStates]
    BY <2>1
  <2>3. request \in [Admins -> [Keys -> Manual \cup {NoJob}]]
    OBVIOUS
  <2>4. alert \in BOOLEAN
    BY Zenon
  <2>5. /\ attempts \in [Jobs -> 0..MaxAttempts] /\ token \in [Jobs -> Nat]
        /\ status \in [Jobs -> {"none"} \cup Active \cup Terminal]
        /\ triggers \in [Jobs -> Nat] /\ sends \in [Jobs -> Nat]
        /\ next \in Nat \ {0} /\ faults \in Nat
    BY BackupBounds DEF NoToken
  <2>6. /\ lapsed \subseteq Jobs /\ waiting \subseteq Jobs
        /\ \A j \in Jobs : token[j] # NoToken <=> status[j] = "PROCESSING"
        /\ \A j \in lapsed : status[j] = "PROCESSING"
    OBVIOUS
  <2> HIDE DEF Init
  <2> QED
    BY <2>2, <2>3, <2>4, <2>5, <2>6 DEF TypeOK
<1>2. HasJob /\ Knows /\ SucceededSent /\ NoLostJob /\ FailureIsAlerted
  BY DEF HasJob, Knows, SucceededSent, NoLostJob, FailureIsAlerted, Idle, At, Active
<1>3. Requested /\ OneActivePerAdmin
  BY DEF Requested, OneActivePerAdmin, ActiveOf, Active
<1>4. AttemptsSpent
  <2> SUFFICES ASSUME NEW j \in Jobs PROVE 0 + Cardinality(Running(j)) <= 0
    BY DEF AttemptsSpent
  <2>1. Running(j) = {}
    BY DEF Running, At, Idle
  <2> QED
    BY <2>1, FS_EmptySet
<1> QED
  BY <1>1, <1>2, <1>3, <1>4 DEF Inv

\* A handler moves to another step.
LEMMA GotoType ==
  ASSUME handler \in [Handlers -> HandlerStates], NEW h \in Handlers,
         NEW s \in Steps, Goto(h, s)
  PROVE  handler' \in [Handlers -> HandlerStates]
  BY DEF Goto, HandlerStates

\* A handler is done with its message.
LEMMA IdleType ==
  ASSUME handler \in [Handlers -> HandlerStates], NEW h \in Handlers,
         handler' = [handler EXCEPT ![h] = Idle]
  PROVE  handler' \in [Handlers -> HandlerStates]
  BY DEF HandlerStates, Idle, NoSnap, NoJob, NoToken, Snaps, Steps

\* One more trigger.
LEMMA TriggerType ==
  ASSUME triggers \in [Jobs -> Nat], NEW j \in Jobs, Trigger(j)
  PROVE  /\ triggers' \in [Jobs -> Nat]
         /\ triggers'[j] > 0
         /\ \A i \in Jobs : triggers[i] > 0 => triggers'[i] > 0
  BY DEF Trigger

\* Types and shape of a job's columns.
Shape ==
    /\ status \in [Jobs -> {"none"} \cup Active \cup Terminal]
    /\ token \in [Jobs -> Nat]
    /\ lapsed \subseteq Jobs
    /\ \A j \in Jobs : token[j] # NoToken <=> status[j] = "PROCESSING"
    /\ \A j \in lapsed : status[j] = "PROCESSING"

\* A job that leaves PROCESSING keeps the shape.
LEMMA ReleaseShape ==
  ASSUME Shape, NEW j \in Jobs, NEW s \in {"QUEUED"} \cup Terminal, Release(j, s)
  PROVE  Shape'
  BY DEF Shape, Release, Active, Terminal, NoToken

\* The types of everything but the handlers and the shape.
Rest ==
    /\ attempts \in [Jobs -> 0..MaxAttempts] /\ waiting \subseteq Jobs
    /\ request \in [Admins -> [Keys -> Manual \cup {NoJob}]]
    /\ alert \in BOOLEAN
    /\ triggers \in [Jobs -> Nat]
    /\ next \in Nat \ {0} /\ faults \in Nat
    /\ sends \in [Jobs -> Nat]

\* The parts of the type invariant.
LEMMA TypeParts ==
  /\ TypeOK <=> Shape /\ Rest /\ handler \in [Handlers -> HandlerStates]
  /\ TypeOK' <=> Shape' /\ Rest' /\ handler' \in [Handlers -> HandlerStates]
  BY DEF TypeOK, Shape, Rest

\* The steps of a handler from one point of its code to the next.
LEMMA HandlerTypeStep ==
  ASSUME Inv, NEW h \in Handlers, HandlerStep(h) \/ HandlerFault(h)
  PROVE  handler' \in [Handlers -> HandlerStates]
<1>t. handler \in [Handlers -> HandlerStates]
  BY DEF Inv, TypeOK
<1>1. CASE \E s \in Steps : Goto(h, s)
  BY <1>t, <1>1, GotoType
<1>2. CASE handler' = [handler EXCEPT ![h] = Idle]
  BY <1>t, <1>2, IdleType
<1>3. CASE ReadJob(h)
  <2>1. [status |-> status[handler[h].job], attempts |-> attempts[handler[h].job],
         token |-> token[handler[h].job], ready |-> Ready(handler[h].job)] \in Snaps
    <3>1. handler[h].job \in Jobs
      BY <1>3 DEF ReadJob, At, Inv, HasJob
    <3>2. Ready(handler[h].job) \in BOOLEAN
      BY DEF Ready
    <3> QED
      BY <3>1, <3>2, BackupBounds DEF Snaps, Inv, TypeOK
  <2> QED
    BY <1>t, <1>3, <2>1 DEF ReadJob, HandlerStates, Steps
<1>4. CASE ClaimBackup(h)
  <2>1. handler' = [handler EXCEPT ![h].pc = "run", ![h].tok = next] \/ Goto(h, "requeue")
    BY <1>4 DEF ClaimBackup
  <2>2. next \in Nat
    BY DEF Inv, TypeOK
  <2> QED
    BY <1>t, <2>1, <2>2, GotoType DEF HandlerStates, Steps
<1>5. CASE ConnectionLost(h)
  BY <1>t, <1>5 DEF ConnectionLost, HandlerStates
<1>6. CASE LeaseOverrun(h)
  BY <1>t, <1>6 DEF LeaseOverrun
<1>7. HandlerStep(h) => \/ \E s \in Steps : Goto(h, s)
                        \/ handler' = [handler EXCEPT ![h] = Idle]
                        \/ ReadJob(h) \/ ClaimBackup(h)
  BY DEF HandlerStep, ClaimTerminal, ClaimDeferred, ClaimExhausted, SendBackup, LeaseLost,
         Complete, ResolveAlert, Fail, Ack, Requeue, Steps
<1>8. HandlerFault(h) => \/ \E s \in Steps : Goto(h, s)
                         \/ handler' = [handler EXCEPT ![h] = Idle]
                         \/ ConnectionLost(h) \/ LeaseOverrun(h)
  BY DEF HandlerFault, ClaimThrows, BackupFails, CompleteThrows, ResolveThrows, FailThrows,
         Crash, Steps
<1> QED
  BY <1>1, <1>2, <1>3, <1>4, <1>5, <1>6, <1>7, <1>8

\* A handler's step releases its active job to status s.
ReleasedBy(h, s) ==
    LET j == handler[h].job IN
    /\ j \in Jobs /\ status[j] \in Active /\ Release(j, s)
    /\ s = "FAILED" => alert' = TRUE /\ attempts[j] >= MaxAttempts
    /\ s # "FAILED" => UNCHANGED alert
    /\ s = "SUCCEEDED" => At(h, "complete")
    /\ UNCHANGED <<attempts, sends>>

\* A handler's step claims its job.
ClaimedBy(h) ==
    /\ ClaimBackup(h) /\ SnapshotHolds(h)
    /\ handler[h].job \in Jobs /\ status[handler[h].job] \in Active

\* What a handler's step can do to the table of jobs.
LEMMA RowSteps ==
  ASSUME Inv, NEW h \in Handlers, HandlerStep(h) \/ HandlerFault(h)
  PROVE  \/ UNCHANGED <<status, token, attempts, lapsed>>
         \/ LeaseOverrun(h)
         \/ \E s \in {"QUEUED"} \cup Terminal : ReleasedBy(h, s)
         \/ ClaimedBy(h)
<1> USE DEF Inv, HasJob, run
<1>1. CASE \/ ReadJob(h) \/ ClaimTerminal(h) \/ ClaimDeferred(h) \/ SendBackup(h)
           \/ LeaseLost(h) \/ ResolveAlert(h) \/ Ack(h) \/ Requeue(h)
  BY <1>1 DEF ReadJob, ClaimTerminal, ClaimDeferred, SendBackup, LeaseLost, ResolveAlert,
              Ack, Requeue
<1>2. CASE \/ ClaimThrows(h) \/ BackupFails(h) \/ ResolveThrows(h) \/ FailThrows(h)
           \/ ConnectionLost(h) \/ Crash(h)
  BY <1>2 DEF ClaimThrows, BackupFails, ResolveThrows, FailThrows, ConnectionLost, Crash
<1>3. CASE ClaimExhausted(h)
  <2>1. CASE SnapshotHolds(h)
    <3>1. ReleasedBy(h, "FAILED")
      BY <1>3, <2>1 DEF ClaimExhausted, ReleasedBy, SnapshotHolds, Claimable, At
    <3> QED
      BY <3>1 DEF Terminal
  <2>2. CASE ~SnapshotHolds(h)
    BY <1>3, <2>2 DEF ClaimExhausted
  <2> QED
    BY <2>1, <2>2
<1>4. CASE ClaimBackup(h)
  <2>1. CASE SnapshotHolds(h)
    BY <1>4, <2>1 DEF ClaimBackup, ClaimedBy, SnapshotHolds, Claimable, At
  <2>2. CASE ~SnapshotHolds(h)
    BY <1>4, <2>2 DEF ClaimBackup
  <2> QED
    BY <2>1, <2>2
<1>5. CASE Complete(h) \/ CompleteThrows(h)
  <2>1. CASE OwnsLive(h) /\ Release(handler[h].job, "SUCCEEDED")
    <3>1. ReleasedBy(h, "SUCCEEDED")
      BY <1>5, <2>1 DEF Complete, CompleteThrows, ReleasedBy, OwnsLive, At, Active
    <3> QED
      BY <3>1 DEF Terminal
  <2>2. CASE UNCHANGED <<status, token, lapsed>>
    BY <1>5, <2>2 DEF Complete, CompleteThrows
  <2> QED
    BY <1>5, <2>1, <2>2 DEF Complete, CompleteThrows
<1>6. CASE Fail(h)
  <2>1. CASE OwnsLive(h) /\ Release(handler[h].job, "QUEUED") /\ UNCHANGED alert
    <3>1. ReleasedBy(h, "QUEUED")
      BY <1>6, <2>1 DEF Fail, ReleasedBy, OwnsLive, At, Active
    <3> QED
      BY <3>1
  <2>2. CASE /\ OwnsLive(h) /\ Release(handler[h].job, "FAILED") /\ alert' = TRUE
             /\ attempts[handler[h].job] >= MaxAttempts
    <3>1. ReleasedBy(h, "FAILED")
      BY <1>6, <2>2 DEF Fail, ReleasedBy, OwnsLive, At, Active
    <3> QED
      BY <3>1 DEF Terminal
  <2>3. CASE UNCHANGED <<status, token, lapsed>>
    BY <1>6, <2>3 DEF Fail
  <2> QED
    BY <1>6, <2>1, <2>2, <2>3 DEF Fail
<1> QED
  BY <1>1, <1>2, <1>3, <1>4, <1>5, <1>6 DEF HandlerStep, HandlerFault

\* Types and lease columns, through a handler's step.
LEMMA HandlerShapeStep ==
  ASSUME Inv, NEW h \in Handlers, HandlerStep(h) \/ HandlerFault(h)
  PROVE  Shape'
<1>1. Shape
  BY TypeParts DEF Inv
<1>2. CASE UNCHANGED <<status, token, attempts, lapsed>>
  BY <1>1, <1>2 DEF Shape
<1>3. CASE LeaseOverrun(h)
  <2>1. handler[h].job \in Jobs
    BY <1>3 DEF LeaseOverrun, At, Inv, HasJob
  <2> QED
    BY <1>1, <1>3, <2>1 DEF LeaseOverrun, OwnsLive, Shape
<1>4. CASE \E s \in {"QUEUED"} \cup Terminal : ReleasedBy(h, s)
  BY <1>1, <1>4, ReleaseShape DEF ReleasedBy
<1>5. CASE ClaimedBy(h)
  <2>1. next \in Nat \ {0}
    BY DEF Inv, TypeOK
  <2> QED
    BY <1>1, <1>5, <2>1 DEF ClaimedBy, ClaimBackup, Shape, Active, NoToken
<1> QED
  BY RowSteps, <1>2, <1>3, <1>4, <1>5

\* The other types, through a handler's step.
LEMMA HandlerRestStep ==
  ASSUME Inv, NEW h \in Handlers, HandlerStep(h) \/ HandlerFault(h)
  PROVE  Rest'
<1>t. Rest
  BY TypeParts DEF Inv
<1>1. attempts' \in [Jobs -> 0..MaxAttempts] /\ next' \in Nat \ {0}
  <2>1. CASE ClaimedBy(h)
    <3>1. attempts[handler[h].job] < MaxAttempts
      BY <2>1 DEF ClaimedBy, ClaimBackup, SnapshotHolds
    <3> QED
      BY <1>t, <2>1, <3>1, BackupBounds DEF ClaimedBy, ClaimBackup, Rest
  <2>2. CASE ~ClaimedBy(h)
    <3>1. attempts' = attempts
      BY <2>2, RowSteps DEF ReleasedBy, LeaseOverrun
    <3>2. CASE ClaimBackup(h)
      <4>1. CASE SnapshotHolds(h)
        BY <2>2, <3>2, <4>1 DEF ClaimedBy, ClaimBackup, SnapshotHolds, Claimable, At, Inv, HasJob
      <4>2. CASE ~SnapshotHolds(h)
        BY <1>t, <3>1, <3>2, <4>2 DEF ClaimBackup, Rest
      <4> QED
        BY <4>1, <4>2
    <3>3. CASE next' = next
      BY <1>t, <3>1, <3>3 DEF Rest
    <3> QED
      BY <3>2, <3>3
      DEF HandlerStep, HandlerFault, ReadJob, ClaimTerminal, ClaimDeferred, ClaimExhausted,
          SendBackup, LeaseLost, Complete, ResolveAlert, Fail, Ack, Requeue, ClaimThrows,
          BackupFails, CompleteThrows, ResolveThrows, FailThrows, ConnectionLost, Crash,
          LeaseOverrun
  <2> QED
    BY <2>1, <2>2
<1>2. ~At(h, "idle") => handler[h].job \in Jobs
  BY DEF At, Inv, HasJob
<1>3. CASE HandlerStep(h)
  <2>1. waiting' \subseteq Jobs /\ request' = request /\ faults' = faults
    BY <1>t, <1>2, <1>3
    DEF HandlerStep, ReadJob, ClaimTerminal, ClaimDeferred, ClaimExhausted, ClaimBackup,
        SendBackup, LeaseLost, Complete, ResolveAlert, Fail, Ack, Requeue, run, At, Rest
  <2>2. alert' \in BOOLEAN
    BY <1>t, <1>3
    DEF HandlerStep, ReadJob, ClaimTerminal, ClaimDeferred, ClaimExhausted, ClaimBackup,
        SendBackup, LeaseLost, Complete, ResolveAlert, Fail, Ack, Requeue, run, At, Rest
  <2>3. \/ triggers' = triggers
        \/ handler[h].job \in Jobs /\ Trigger(handler[h].job)
    BY <1>2, <1>3
    DEF HandlerStep, ReadJob, ClaimTerminal, ClaimDeferred, ClaimExhausted, ClaimBackup,
        SendBackup, LeaseLost, Complete, ResolveAlert, Fail, Ack, Requeue, run, At
  <2>4. sends' \in [Jobs -> Nat]
    BY <1>t, <1>3
    DEF HandlerStep, ReadJob, ClaimTerminal, ClaimDeferred, ClaimExhausted, ClaimBackup,
        SendBackup, LeaseLost, Complete, ResolveAlert, Fail, Ack, Requeue, run, Rest
  <2> QED
    BY <1>t, <1>1, <2>1, <2>2, <2>3, <2>4, TriggerType DEF Rest
<1>4. CASE HandlerFault(h)
  <2>1. waiting' = waiting /\ request' = request /\ sends' = sends
    BY <1>4
    DEF HandlerFault, ClaimThrows, BackupFails, CompleteThrows, ResolveThrows, FailThrows,
        ConnectionLost, Crash, LeaseOverrun, run
  <2>4. Fault
    BY <1>4
    DEF HandlerFault, ClaimThrows, BackupFails, CompleteThrows, ResolveThrows, FailThrows,
        ConnectionLost, Crash, LeaseOverrun
  <2>5. faults' \in Nat
    BY <1>t, <2>4 DEF Fault, Rest
  <2>2. alert' \in BOOLEAN
    BY <1>t, <1>4
    DEF HandlerFault, ClaimThrows, BackupFails, CompleteThrows, ResolveThrows, FailThrows,
        ConnectionLost, Crash, LeaseOverrun, Rest
  <2>3. \/ triggers' = triggers
        \/ handler[h].job \in Jobs /\ Trigger(handler[h].job)
    BY <1>2, <1>4
    DEF HandlerFault, ClaimThrows, BackupFails, CompleteThrows, ResolveThrows, FailThrows,
        ConnectionLost, Crash, LeaseOverrun
  <2> QED
    BY <1>t, <1>1, <2>1, <2>2, <2>3, <2>5, TriggerType DEF Rest
<1> QED
  BY <1>3, <1>4

\* A new job and its trigger.
LEMMA CreateType ==
  ASSUME Inv, NEW j \in Jobs, status[j] = "none", Create(j)
  PROVE  Shape' /\ attempts' = attempts /\ waiting' = waiting /\ triggers' \in [Jobs -> Nat]
<1>1. Shape /\ Rest
  BY TypeParts DEF Inv
<1>2. triggers' \in [Jobs -> Nat]
  BY <1>1, TriggerType DEF Create, Rest
<1>3. Shape'
  BY <1>1 DEF Create, Shape, Active, NoToken
<1> QED
  BY <1>2, <1>3 DEF Create

\* Every step preserves the types.
LEMMA TypeStep ==
  ASSUME Inv, [Next]_vars
  PROVE  TypeOK'
<1>t. Shape /\ Rest /\ handler \in [Handlers -> HandlerStates]
  BY TypeParts DEF Inv
<1>1. ASSUME NEW j \in Jobs, EnqueueUnique(j) PROVE TypeOK'
  BY <1>t, <1>1, CreateType, TypeParts DEF EnqueueUnique, Rest
<1>2. ASSUME NEW a \in Admins, NEW k \in Keys, EnqueueManual(a, k) PROVE TypeOK'
  <2>1. \E j \in Manual : request' = [request EXCEPT ![a][k] = j]
    BY <1>2 DEF EnqueueManual, ActiveOf
  <2>2. request' \in [Admins -> [Keys -> Manual \cup {NoJob}]]
    BY <1>t, <2>1 DEF Rest
  <2>3. \/ UNCHANGED <<run, triggers>>
        \/ \E j \in Manual : status[j] = "none" /\ Create(j)
    BY <1>2 DEF EnqueueManual
  <2>4. /\ Shape' /\ attempts' = attempts /\ waiting' = waiting
        /\ triggers' \in [Jobs -> Nat]
    BY <1>t, <2>3, CreateType DEF run, Shape, Rest, Jobs
  <2> QED
    BY <1>t, <1>2, <2>2, <2>4, TypeParts DEF EnqueueManual, Rest
<1>3. ASSUME NEW h \in Handlers, HandlerStep(h) \/ HandlerFault(h) PROVE TypeOK'
  BY <1>3, HandlerTypeStep, HandlerShapeStep, HandlerRestStep, TypeParts
<1>4. ASSUME NEW h \in Handlers, NEW j \in Jobs, Deliver(h, j) PROVE TypeOK'
  <2>1. [Idle EXCEPT !.pc = "read", !.job = j, !.held = TRUE] \in HandlerStates
    BY DEF Idle, HandlerStates, Steps, Snaps, NoSnap, NoToken
  <2>2. handler' \in [Handlers -> HandlerStates]
    BY <1>t, <1>4, <2>1 DEF Deliver
  <2>3. triggers' \in [Jobs -> Nat]
    BY <1>t, <1>4 DEF Deliver, Rest
  <2> QED
    BY <1>t, <1>4, <2>2, <2>3, TypeParts DEF Deliver, run, Shape, Rest
<1>5. ASSUME NEW j \in Jobs, LeaseLapses(j) PROVE TypeOK'
  BY <1>t, <1>5, TypeParts DEF LeaseLapses, Shape, Rest
<1>6. ASSUME NEW j \in Jobs, BecomesAvailable(j) PROVE TypeOK'
  BY <1>t, <1>6, TypeParts DEF BecomesAvailable, Shape, Rest
<1>7. ASSUME NEW j \in Jobs, Duplicate(j) PROVE TypeOK'
  <2>1. triggers' \in [Jobs -> Nat] /\ faults' \in Nat
    BY <1>t, <1>7, TriggerType DEF Duplicate, Fault, Rest
  <2> QED
    BY <1>t, <1>7, <2>1, TypeParts DEF Duplicate, run, Shape, Rest
<1>8. CASE UNCHANGED vars
  BY <1>t, <1>8, TypeParts DEF vars, run, Shape, Rest
<1> QED
  BY <1>1, <1>2, <1>3, <1>4, <1>5, <1>6, <1>7, <1>8 DEF Next, Enqueue, Clock

\* What a step can do to the status of a job, and what else comes with it.
LEMMA StatusSteps ==
  ASSUME Inv, [Next]_vars, NEW j \in Jobs
  PROVE  /\ status[j] \in Terminal => status'[j] = status[j] /\ attempts'[j] = attempts[j]
         /\ status[j] # "none" => status'[j] # "none"
<1>t. Shape /\ Rest
  BY TypeParts DEF Inv
<1> USE DEF Active, Terminal
<1>1. ASSUME NEW i \in Jobs, status[i] = "none", Create(i)
      PROVE  /\ status[j] \in Terminal => status'[j] = status[j] /\ attempts'[j] = attempts[j]
             /\ status[j] # "none" => status'[j] # "none"
  BY <1>t, <1>1 DEF Create, Shape
<1>2. ASSUME NEW h \in Handlers, HandlerStep(h) \/ HandlerFault(h)
      PROVE  /\ status[j] \in Terminal => status'[j] = status[j] /\ attempts'[j] = attempts[j]
             /\ status[j] # "none" => status'[j] # "none"
  <2>1. CASE UNCHANGED <<status, token, attempts, lapsed>> \/ LeaseOverrun(h)
    BY <2>1 DEF LeaseOverrun
  <2>2. CASE \E s \in {"QUEUED"} \cup Terminal : ReleasedBy(h, s)
    BY <1>t, <2>2 DEF ReleasedBy, Release, Shape
  <2>3. CASE ClaimedBy(h)
    BY <1>t, <2>3 DEF ClaimedBy, ClaimBackup, Shape, Rest
  <2> QED
    BY <1>2, <2>1, <2>2, <2>3, RowSteps
<1>3. CASE UNCHANGED <<status, attempts>>
  BY <1>3
<1>4. [Next]_vars => \/ UNCHANGED <<status, attempts>>
                     \/ \E h \in Handlers : HandlerStep(h) \/ HandlerFault(h)
                     \/ \E i \in Jobs : status[i] = "none" /\ Create(i)
  BY DEF Next, vars, run, Enqueue, EnqueueUnique, EnqueueManual, Deliver, Clock, LeaseLapses,
         BecomesAvailable, Duplicate, Jobs
<1> QED
  BY <1>1, <1>2, <1>3, <1>4

\* A handler's step is its own, and stays with its job until it is idle.
LEMMA OwnSteps ==
  ASSUME Inv, NEW h \in Handlers, HandlerStep(h) \/ HandlerFault(h)
  PROVE  /\ \A g \in Handlers \ {h} : handler'[g] = handler[g]
         /\ handler'[h].pc # "idle" =>
              handler[h].pc # "idle" /\ handler'[h].job = handler[h].job
<1>t. handler \in [Handlers -> HandlerStates]
  BY DEF Inv, TypeOK
<1>1. CASE \E s \in Steps : Goto(h, s) /\ ~At(h, "idle")
  BY <1>t, <1>1 DEF Goto, At, HandlerStates
<1>2. CASE handler' = [handler EXCEPT ![h] = Idle]
  BY <1>t, <1>2 DEF Idle
<1>3. CASE ReadJob(h)
  BY <1>t, <1>3 DEF ReadJob, At, HandlerStates
<1>4. CASE ClaimedBy(h)
  BY <1>t, <1>4 DEF ClaimedBy, ClaimBackup, Claimable, At, HandlerStates
<1>5. CASE ConnectionLost(h)
  BY <1>t, <1>5 DEF ConnectionLost, At, HandlerStates
<1>6. CASE LeaseOverrun(h)
  BY <1>t, <1>6 DEF LeaseOverrun, At
<1>7. ClaimBackup(h) => ClaimedBy(h) \/ (Goto(h, "requeue") /\ ~At(h, "idle"))
  BY DEF ClaimBackup, ClaimedBy, SnapshotHolds, Claimable, At, Inv, HasJob
<1>8. HandlerStep(h) => \/ \E s \in Steps : Goto(h, s) /\ ~At(h, "idle")
                        \/ handler' = [handler EXCEPT ![h] = Idle]
                        \/ ReadJob(h) \/ ClaimBackup(h)
  BY DEF HandlerStep, ClaimTerminal, ClaimDeferred, ClaimExhausted, SendBackup, LeaseLost,
         Complete, ResolveAlert, Fail, Ack, Requeue, Steps, Claimable, At
<1>9. HandlerFault(h) => \/ \E s \in Steps : Goto(h, s) /\ ~At(h, "idle")
                         \/ handler' = [handler EXCEPT ![h] = Idle]
                         \/ ConnectionLost(h) \/ LeaseOverrun(h)
  BY DEF HandlerFault, ClaimThrows, BackupFails, CompleteThrows, ResolveThrows, FailThrows,
         Crash, Steps, At
<1> QED
  BY <1>1, <1>2, <1>3, <1>4, <1>5, <1>6, <1>7, <1>8, <1>9 DEF Steps

\* How a handler gets to the points of its code the invariant speaks of.
LEMMA Arrivals ==
  ASSUME Inv, NEW h \in Handlers, HandlerStep(h) \/ HandlerFault(h)
  PROVE  /\ handler'[h].pc = "decide" =>
              \/ handler[h].pc = "decide" /\ handler'[h].snap = handler[h].snap
              \/ handler'[h].snap.status = status[handler[h].job]
         /\ handler'[h].pc = "complete" => handler[h].pc = "complete" \/ SendBackup(h)
         /\ handler'[h].pc = "resolve" => handler[h].pc = "resolve"
                \/ (Complete(h) /\ OwnsLive(h) /\ Release(handler[h].job, "SUCCEEDED"))
         /\ handler'[h].pc = "run" => handler[h].pc = "run" \/ ClaimedBy(h)
<1>t. handler \in [Handlers -> HandlerStates]
  BY DEF Inv, TypeOK
<1>1. CASE \E s \in {"fail", "ack", "requeue"} : Goto(h, s)
  BY <1>t, <1>1 DEF Goto, HandlerStates
<1>2. CASE handler' = [handler EXCEPT ![h] = Idle]
  BY <1>t, <1>2 DEF Idle
<1>3. CASE ReadJob(h)
  BY <1>t, <1>3 DEF ReadJob, HandlerStates
<1>4. CASE ClaimBackup(h)
  <2>1. CASE SnapshotHolds(h)
    BY <1>t, <1>4, <2>1 DEF ClaimBackup, ClaimedBy, SnapshotHolds, Claimable, At, Inv, HasJob,
                            HandlerStates
  <2>2. CASE ~SnapshotHolds(h)
    BY <1>1, <1>4, <2>2 DEF ClaimBackup
  <2> QED
    BY <2>1, <2>2
<1>5. CASE SendBackup(h)
  BY <1>t, <1>5 DEF SendBackup, Goto, HandlerStates
<1>6. CASE Complete(h)
  BY <1>t, <1>6 DEF Complete, Goto, HandlerStates
<1>7. CASE ConnectionLost(h) \/ LeaseOverrun(h)
  BY <1>t, <1>7 DEF ConnectionLost, LeaseOverrun, HandlerStates
<1>8. HandlerStep(h) => \/ \E s \in {"fail", "ack", "requeue"} : Goto(h, s)
                        \/ handler' = [handler EXCEPT ![h] = Idle]
                        \/ ReadJob(h) \/ ClaimBackup(h) \/ SendBackup(h) \/ Complete(h)
  BY DEF HandlerStep, ClaimTerminal, ClaimDeferred, ClaimExhausted, LeaseLost,
         ResolveAlert, Fail, Ack, Requeue
<1>9. HandlerFault(h) => \/ \E s \in {"fail", "ack", "requeue"} : Goto(h, s)
                         \/ handler' = [handler EXCEPT ![h] = Idle]
                         \/ ConnectionLost(h) \/ LeaseOverrun(h)
  BY DEF HandlerFault, ClaimThrows, BackupFails, CompleteThrows, ResolveThrows, FailThrows,
         Crash
<1> QED
  BY <1>1, <1>2, <1>3, <1>4, <1>5, <1>6, <1>7, <1>8, <1>9

\* The steps that are not a handler's leave the handlers, or deliver to an idle one.
LEMMA OtherSteps ==
  [Next]_vars => \/ \E h \in Handlers : HandlerStep(h) \/ HandlerFault(h)
                 \/ \E h \in Handlers, j \in Jobs : Deliver(h, j)
                 \/ UNCHANGED <<handler, sends>>
  BY DEF Next, vars, Enqueue, EnqueueUnique, EnqueueManual, Clock, LeaseLapses,
         BecomesAvailable, Duplicate

\* Counts of sent backups never go down; SendBackup adds one.
LEMMA SendsStep ==
  ASSUME Inv, [Next]_vars
  PROVE  \/ sends' = sends
         \/ \E h \in Handlers : SendBackup(h)
  BY OtherSteps
  DEF HandlerStep, HandlerFault, ReadJob, ClaimTerminal, ClaimDeferred, ClaimExhausted,
      ClaimBackup, LeaseLost, Complete, ResolveAlert, Fail, Ack, Requeue, ClaimThrows,
      BackupFails, CompleteThrows, ResolveThrows, FailThrows, ConnectionLost, Crash,
      LeaseOverrun, Deliver

\* A count that is positive stays positive.
LEMMA SendsGrow ==
  ASSUME Inv, [Next]_vars, NEW j \in Jobs, sends[j] > 0
  PROVE  sends'[j] > 0
<1>1. sends \in [Jobs -> Nat]
  BY DEF Inv, TypeOK
<1> QED
  BY <1>1, SendsStep DEF SendBackup

\* A busy handler has a job after every step.
LEMMA HasJobStep == ASSUME Inv, [Next]_vars PROVE HasJob'
<1>t. handler \in [Handlers -> HandlerStates]
  BY DEF Inv, TypeOK
<1>1. ASSUME NEW h \in Handlers, HandlerStep(h) \/ HandlerFault(h) PROVE HasJob'
  BY <1>1, OwnSteps DEF Inv, HasJob
<1>2. ASSUME NEW h \in Handlers, NEW j \in Jobs, Deliver(h, j) PROVE HasJob'
  BY <1>t, <1>2 DEF Deliver, Inv, HasJob, Idle
<1>3. CASE UNCHANGED <<handler, sends>>
  BY <1>3 DEF Inv, HasJob
<1> QED
  BY <1>1, <1>2, <1>3, OtherSteps

\* What handlers know stays true.
LEMMA KnowsStep == ASSUME Inv, [Next]_vars PROVE Knows'
<1>t. handler \in [Handlers -> HandlerStates] /\ sends \in [Jobs -> Nat]
      /\ status \in [Jobs -> {"none"} \cup Active \cup Terminal]
  BY DEF Inv, TypeOK
<1> DEFINE K(g) ==
    /\ At(g, "decide") /\ handler[g].snap.status \in Terminal
         => status[handler[g].job] \in Terminal
    /\ At(g, "resolve") => status[handler[g].job] = "SUCCEEDED"
    /\ handler[g].pc \in {"complete", "resolve"} => sends[handler[g].job] > 0
<1>1. ASSUME NEW g \in Handlers, handler'[g] = handler[g] PROVE K(g)'
  <2>1. K(g) /\ (handler[g].pc # "idle" => handler[g].job \in Jobs)
    BY DEF Inv, Knows, HasJob
  <2> QED
    BY <1>1, <2>1, StatusSteps, SendsGrow DEF At, Terminal
<1>2. ASSUME NEW h \in Handlers, HandlerStep(h) \/ HandlerFault(h) PROVE K(h)'
  <2>1. K(h) /\ (handler[h].pc # "idle" => handler[h].job \in Jobs)
    BY DEF Inv, Knows, HasJob
  <2>2. handler'[h].pc # "idle" =>
              handler[h].pc # "idle" /\ handler'[h].job = handler[h].job
    BY <1>2, OwnSteps
  <2>3. ASSUME handler'[h].pc = "decide", handler'[h].snap.status \in Terminal
        PROVE  status'[handler'[h].job] \in Terminal
    BY <1>2, <2>1, <2>2, <2>3, Arrivals, StatusSteps DEF At
  <2>4. ASSUME handler'[h].pc = "resolve" PROVE status'[handler'[h].job] = "SUCCEEDED"
    <3>1. CASE handler[h].pc = "resolve"
      BY <2>1, <2>2, <2>4, <3>1, StatusSteps DEF At, Terminal
    <3>2. CASE Release(handler[h].job, "SUCCEEDED")
      BY <1>t, <2>1, <2>2, <2>4, <3>2 DEF Release
    <3> QED
      BY <1>2, <2>4, <3>1, <3>2, Arrivals
  <2>5. ASSUME handler'[h].pc \in {"complete", "resolve"} PROVE sends'[handler'[h].job] > 0
    <3>1. CASE SendBackup(h)
      BY <1>t, <2>1, <2>2, <2>5, <3>1 DEF SendBackup
    <3>2. CASE ~SendBackup(h)
      BY <1>2, <2>1, <2>2, <2>5, <3>2, Arrivals, SendsGrow DEF Complete, At
    <3> QED
      BY <3>1, <3>2
  <2> QED
    BY <2>3, <2>4, <2>5 DEF At
<1>3. ASSUME NEW h \in Handlers, NEW j \in Jobs, Deliver(h, j) PROVE Knows'
  <2>1. handler'[h].pc = "read" /\ \A g \in Handlers \ {h} : handler'[g] = handler[g]
    BY <1>t, <1>3 DEF Deliver, Idle
  <2> QED
    BY <1>1, <2>1 DEF Knows, At
<1>4. ASSUME NEW h \in Handlers, HandlerStep(h) \/ HandlerFault(h) PROVE Knows'
  BY <1>1, <1>2, <1>4, OwnSteps DEF Knows
<1>5. CASE UNCHANGED <<handler, sends>>
  BY <1>1, <1>5 DEF Knows
<1> QED
  BY <1>3, <1>4, <1>5, OtherSteps

\* A step that is not EnqueueManual leaves the idempotency keys.
LEMMA RequestSteps ==
  ASSUME Inv, [Next]_vars
  PROVE  UNCHANGED request \/ \E a \in Admins, k \in Keys : EnqueueManual(a, k)
  BY DEF Next, vars, Enqueue, EnqueueUnique, Clock, LeaseLapses, BecomesAvailable, Duplicate,
         Deliver, HandlerStep, HandlerFault, ReadJob, ClaimTerminal, ClaimDeferred,
         ClaimExhausted, ClaimBackup, SendBackup, LeaseLost, Complete, ResolveAlert, Fail, Ack,
         Requeue, ClaimThrows, BackupFails, CompleteThrows, ResolveThrows, FailThrows,
         ConnectionLost, Crash, LeaseOverrun

\* Keys name created jobs after every step.
LEMMA RequestedStep == ASSUME Inv, [Next]_vars PROVE Requested'
<1>t. /\ request \in [Admins -> [Keys -> Manual \cup {NoJob}]]
      /\ status \in [Jobs -> {"none"} \cup Active \cup Terminal]
  BY DEF Inv, TypeOK
<1>1. CASE UNCHANGED request
  BY <1>t, <1>1, StatusSteps DEF Requested, Inv, Jobs
<1>2. ASSUME NEW a \in Admins, NEW k \in Keys, EnqueueManual(a, k) PROVE Requested'
  <2>1. PICK j \in Manual : request' = [request EXCEPT ![a][k] = j] /\ status'[j] # "none"
    BY <1>t, <1>2 DEF EnqueueManual, ActiveOf, Create, Active, run, Jobs
  <2>2. \A b \in Admins, l \in Keys : request'[b][l] \in {request[b][l], j}
    BY <1>t, <2>1
  <2> QED
    BY <1>t, <2>1, <2>2, StatusSteps DEF Requested, Inv, Jobs
<1> QED
  BY <1>1, <1>2, RequestSteps

\* A job gets active only by being created.
LEMMA ActiveSteps ==
  ASSUME Inv, [Next]_vars
  PROVE  \/ \A j \in Jobs : status'[j] \in Active => status[j] \in Active
         \/ \E i \in Jobs : /\ status[i] = "none" /\ Create(i)
                            /\ EnqueueUnique(i) \/ \E a \in Admins, k \in Keys :
                                EnqueueManual(a, k) /\ request' = [request EXCEPT ![a][k] = i]
<1>t. Shape
  BY TypeParts DEF Inv
<1> USE DEF Active, Terminal
<1>1. ASSUME NEW h \in Handlers, HandlerStep(h) \/ HandlerFault(h)
      PROVE  \A j \in Jobs : status'[j] \in Active => status[j] \in Active
  <2>1. CASE UNCHANGED <<status, token, attempts, lapsed>> \/ LeaseOverrun(h)
    BY <2>1 DEF LeaseOverrun
  <2>2. CASE \E s \in {"QUEUED"} \cup Terminal : ReleasedBy(h, s)
    BY <1>t, <2>2 DEF ReleasedBy, Release, Shape
  <2>3. CASE ClaimedBy(h)
    BY <1>t, <2>3 DEF ClaimedBy, ClaimBackup, Shape
  <2> QED
    BY <1>1, <2>1, <2>2, <2>3, RowSteps
<1>2. [Next]_vars => \/ UNCHANGED status
                     \/ \E h \in Handlers : HandlerStep(h) \/ HandlerFault(h)
                     \/ \E i \in Jobs : EnqueueUnique(i)
                     \/ \E a \in Admins, k \in Keys : EnqueueManual(a, k)
  BY DEF Next, vars, run, Enqueue, Deliver, Clock, LeaseLapses, BecomesAvailable, Duplicate
<1>3. ASSUME NEW a \in Admins, NEW k \in Keys, EnqueueManual(a, k)
      PROVE  \/ UNCHANGED status
             \/ \E i \in Jobs : /\ status[i] = "none" /\ Create(i)
                                /\ request' = [request EXCEPT ![a][k] = i]
  BY <1>3 DEF EnqueueManual, run, Jobs
<1>4. ASSUME NEW i \in Jobs, EnqueueUnique(i) PROVE status[i] = "none" /\ Create(i)
  BY <1>4 DEF EnqueueUnique
<1> QED
  BY <1>1, <1>2, <1>3, <1>4

\* Administrators keep at most one active job.
LEMMA OneActiveStep == ASSUME Inv, [Next]_vars PROVE OneActivePerAdmin'
<1>t. /\ request \in [Admins -> [Keys -> Manual \cup {NoJob}]]
      /\ status \in [Jobs -> {"none"} \cup Active \cup Terminal]
      /\ Daily \cap Manual = {} /\ Manual \subseteq Jobs /\ NoJob \notin Jobs
  BY JobsAssumption DEF Inv, TypeOK, Jobs, NoJob
<1>1. CASE /\ UNCHANGED request
           /\ \A j \in Jobs : status'[j] \in Active => status[j] \in Active
  <2>1. \A a \in Admins : ActiveOf(a)' \subseteq ActiveOf(a)
    BY <1>t, <1>1 DEF ActiveOf
  <2> QED
    BY <2>1 DEF OneActivePerAdmin, Inv
<1>2. ASSUME NEW i \in Jobs, EnqueueUnique(i) PROVE OneActivePerAdmin'
  <2>1. \A a \in Admins : ActiveOf(a)' \subseteq ActiveOf(a)
    BY <1>t, <1>2 DEF ActiveOf, EnqueueUnique, Create
  <2> QED
    BY <2>1 DEF OneActivePerAdmin, Inv
<1>3. ASSUME NEW a \in Admins, NEW k \in Keys, EnqueueManual(a, k) PROVE OneActivePerAdmin'
  <2>1. ASSUME NEW j \in ActiveOf(a), request' = [request EXCEPT ![a][k] = j],
               UNCHANGED <<run, triggers>>
        PROVE  OneActivePerAdmin'
    <3>1. \A b \in Admins : ActiveOf(b)' \subseteq ActiveOf(b)
      BY <1>t, <2>1 DEF ActiveOf, run
    <3> QED
      BY <3>1 DEF OneActivePerAdmin, Inv
  <2>2. ASSUME NEW j \in Manual, ActiveOf(a) = {}, status[j] = "none", Create(j),
               request' = [request EXCEPT ![a][k] = j]
        PROVE  OneActivePerAdmin'
    <3>1. ActiveOf(a)' \subseteq {j}
      BY <1>t, <2>2 DEF ActiveOf, Create
    <3>2. \A b \in Admins \ {a} : ActiveOf(b)' \subseteq ActiveOf(b)
      BY <1>t, <2>2 DEF ActiveOf, Create, Inv, Requested
    <3> QED
      BY <3>1, <3>2 DEF OneActivePerAdmin, Inv
  <2> QED
    BY <1>3, <2>1, <2>2 DEF EnqueueManual
<1> QED
  BY <1>1, <1>2, <1>3, ActiveSteps, RequestSteps

\* A job that succeeded has sent a backup.
LEMMA SucceededStep == ASSUME Inv, [Next]_vars PROVE SucceededSent'
<1>t. Shape
  BY TypeParts DEF Inv
<1>1. ASSUME NEW j \in Jobs, status'[j] = "SUCCEEDED", status[j] # "SUCCEEDED"
      PROVE  sends[j] > 0
  <2>1. PICK h \in Handlers : HandlerStep(h) \/ HandlerFault(h)
    BY <1>t, <1>1
    DEF Next, vars, run, Enqueue, EnqueueUnique, EnqueueManual, Create, Deliver, Clock,
        LeaseLapses, BecomesAvailable, Duplicate, Shape
  <2>2. CASE UNCHANGED <<status, token, attempts, lapsed>> \/ LeaseOverrun(h)
    BY <1>1, <2>2 DEF LeaseOverrun
  <2>3. CASE \E s \in {"QUEUED"} \cup Terminal : ReleasedBy(h, s)
    BY <1>t, <1>1, <2>3 DEF ReleasedBy, Release, Shape, Inv, Knows, At, Terminal
  <2>4. CASE ClaimedBy(h)
    BY <1>t, <1>1, <2>4 DEF ClaimedBy, ClaimBackup, Shape
  <2> QED
    BY <2>1, <2>2, <2>3, <2>4, RowSteps
<1> QED
  BY <1>1, SendsGrow DEF SucceededSent, Inv

\* A failed job stays alerted until one succeeds.
LEMMA AlertedStep == ASSUME Inv, [Next]_vars PROVE FailureIsAlerted'
<1>t. Shape /\ alert \in BOOLEAN
  BY TypeParts DEF Inv, TypeOK
<1> SUFFICES ASSUME NEW j \in Jobs, status'[j] = "FAILED",
                    \A i \in Jobs : status'[i] # "SUCCEEDED"
             PROVE  alert' = TRUE
  BY DEF FailureIsAlerted
<1>1. \A i \in Jobs : status[i] # "SUCCEEDED"
  BY StatusSteps DEF Terminal
<1>2. CASE status[j] = "FAILED" /\ UNCHANGED alert
  BY <1>t, <1>1, <1>2 DEF Inv, FailureIsAlerted
<1>3. ASSUME NEW h \in Handlers, HandlerStep(h) \/ HandlerFault(h) PROVE alert' = TRUE
  <2>1. CASE status[j] = "FAILED"
    <3>1. alert = TRUE
      BY <1>t, <1>1, <2>1 DEF Inv, FailureIsAlerted
    <3>2. CASE At(h, "resolve")
      BY <1>1, <3>2 DEF Inv, Knows, HasJob, At
    <3>3. CASE ~At(h, "resolve")
      <4>1. alert' = alert \/ alert' = TRUE
        BY <1>3, <3>3
        DEF HandlerStep, HandlerFault, ReadJob, ClaimTerminal, ClaimDeferred, ClaimExhausted,
            ClaimBackup, SendBackup, LeaseLost, Complete, ResolveAlert, Fail, Ack, Requeue,
            ClaimThrows, BackupFails, CompleteThrows, ResolveThrows, FailThrows,
            ConnectionLost, Crash, LeaseOverrun
      <4> QED
        BY <3>1, <4>1
    <3> QED
      BY <3>2, <3>3
  <2>2. CASE status[j] # "FAILED"
    <3>1. CASE UNCHANGED <<status, token, attempts, lapsed>> \/ LeaseOverrun(h)
      BY <2>2, <3>1 DEF LeaseOverrun
    <3>2. CASE \E s \in {"QUEUED"} \cup Terminal : ReleasedBy(h, s)
      BY <1>t, <2>2, <3>2 DEF ReleasedBy, Release, Shape
    <3>3. CASE ClaimedBy(h)
      BY <1>t, <2>2, <3>3 DEF ClaimedBy, ClaimBackup, Shape
    <3> QED
      BY <1>3, <3>1, <3>2, <3>3, RowSteps
  <2> QED
    BY <2>1, <2>2
<1>4. CASE ~\E h \in Handlers : HandlerStep(h) \/ HandlerFault(h)
  <2>1. status[j] = "FAILED" /\ UNCHANGED alert
    BY <1>t, <1>4
    DEF Next, vars, run, Enqueue, EnqueueUnique, EnqueueManual, Create, Deliver, Clock,
        LeaseLapses, BecomesAvailable, Duplicate, Shape
  <2> QED
    BY <1>2, <2>1
<1> QED
  BY <1>3, <1>4

\* The running handlers are finitely many.
LEMMA RunningFinite ==
  ASSUME NEW j \in Jobs
  PROVE  /\ IsFiniteSet(Running(j)) /\ Cardinality(Running(j)) \in Nat
         /\ IsFiniteSet(Running(j)') /\ Cardinality(Running(j)') \in Nat
<1>1. Running(j) \subseteq Handlers /\ Running(j)' \subseteq Handlers
  BY DEF Running
<1>2. IsFiniteSet(Running(j)) /\ IsFiniteSet(Running(j)')
  BY <1>1, HandlersAssumption, FS_Subset
<1> QED
  BY <1>2, FS_CardinalityType

\* Every attempt sends at most one backup.
LEMMA SpentStep == ASSUME Inv, [Next]_vars PROVE AttemptsSpent'
<1>t. /\ handler \in [Handlers -> HandlerStates]
      /\ sends \in [Jobs -> Nat] /\ attempts \in [Jobs -> 0..MaxAttempts]
      /\ \A j \in Jobs : sends[j] + Cardinality(Running(j)) <= attempts[j]
      /\ MaxAttempts \in Nat
  BY BackupBounds DEF Inv, TypeOK, AttemptsSpent
<1>1. ASSUME NEW h \in Handlers, SendBackup(h) PROVE AttemptsSpent'
  <2>1. handler[h].job \in Jobs /\ attempts' = attempts
    BY <1>1 DEF SendBackup, At, Inv, HasJob, run
  <2>2. \A j \in Jobs : Running(j)' = Running(j) \ {h}
    BY <1>t, <1>1 DEF SendBackup, Goto, Running, At, HandlerStates
  <2>3. h \in Running(handler[h].job)
    BY <1>1 DEF SendBackup, Running
  <2>4. ASSUME NEW j \in Jobs PROVE sends'[j] + Cardinality(Running(j)') <= attempts'[j]
    <3>1. CASE j = handler[h].job
      <4>1. Cardinality(Running(j)') = Cardinality(Running(j)) - 1
        BY <2>2, <2>3, <3>1, RunningFinite, FS_RemoveElement
      <4>2. sends'[j] = sends[j] + 1
        BY <1>t, <1>1, <3>1 DEF SendBackup
      <4> QED
        BY <1>t, <2>1, <4>1, <4>2, RunningFinite
    <3>2. CASE j # handler[h].job
      <4>1. Running(j)' = Running(j)
        BY <2>2, <3>2 DEF Running
      <4>2. sends'[j] = sends[j]
        BY <1>t, <1>1, <3>2 DEF SendBackup
      <4> QED
        BY <1>t, <2>1, <4>1, <4>2
    <3> QED
      BY <3>1, <3>2
  <2> QED
    BY <2>4 DEF AttemptsSpent
<1>2. ASSUME NEW h \in Handlers, ClaimedBy(h) PROVE AttemptsSpent'
  <2> DEFINE i == handler[h].job
  <2>1. i \in Jobs /\ sends' = sends /\ attempts' = [attempts EXCEPT ![i] = @ + 1]
    BY <1>2 DEF ClaimedBy, ClaimBackup
  <2>2. \A j \in Jobs : Running(j)' = IF j = i THEN Running(j) \cup {h} ELSE Running(j)
    BY <1>t, <1>2 DEF ClaimedBy, ClaimBackup, Claimable, Running, At, HandlerStates
  <2>3. h \notin Running(i)
    BY <1>2 DEF ClaimedBy, ClaimBackup, Claimable, Running, At
  <2>4. Cardinality(Running(i) \cup {h}) = Cardinality(Running(i)) + 1
    BY <2>1, <2>3, RunningFinite, FS_AddElement
  <2>5. \A j \in Jobs : Cardinality(Running(j)) \in Nat
    BY RunningFinite
  <2>6. ASSUME NEW j \in Jobs PROVE sends'[j] + Cardinality(Running(j)') <= attempts'[j]
    <3>1. CASE j = i
      <4>1. Cardinality(Running(j)') = Cardinality(Running(j)) + 1
        BY <2>2, <2>4, <3>1
      <4>2. attempts'[j] = attempts[j] + 1
        BY <1>t, <2>1, <3>1
      <4> QED
        BY <1>t, <2>1, <2>5, <4>1, <4>2
    <3>2. CASE j # i
      BY <1>t, <2>1, <2>2, <3>2
    <3> QED
      BY <3>1, <3>2
  <2> QED
    BY <2>6 DEF AttemptsSpent
<1>3. CASE /\ sends' = sends /\ attempts' = attempts
           /\ \A j \in Jobs : Running(j)' \subseteq Running(j)
  <2>1. \A j \in Jobs : Cardinality(Running(j)') <= Cardinality(Running(j))
    BY <1>3, RunningFinite, FS_Subset
  <2>2. \A j \in Jobs : Cardinality(Running(j)) \in Nat /\ Cardinality(Running(j)') \in Nat
    BY RunningFinite
  <2> QED
    BY <1>t, <1>3, <2>1, <2>2 DEF AttemptsSpent
<1>4. ASSUME NEW h \in Handlers, HandlerStep(h) \/ HandlerFault(h), ~SendBackup(h), ~ClaimedBy(h)
      PROVE  /\ sends' = sends /\ attempts' = attempts
             /\ \A j \in Jobs : Running(j)' \subseteq Running(j)
  <2>1. attempts' = attempts
    BY <1>4, RowSteps DEF ReleasedBy, LeaseOverrun
  <2>2. sends' = sends
    BY <1>4
    DEF HandlerStep, HandlerFault, ReadJob, ClaimTerminal, ClaimDeferred, ClaimExhausted,
        ClaimBackup, LeaseLost, Complete, ResolveAlert, Fail, Ack, Requeue, ClaimThrows,
        BackupFails, CompleteThrows, ResolveThrows, FailThrows, ConnectionLost, Crash,
        LeaseOverrun
  <2>3. \A j \in Jobs : Running(j)' \subseteq Running(j)
    BY <1>4, OwnSteps, Arrivals DEF Running, At
  <2> QED
    BY <2>1, <2>2, <2>3
<1>5. CASE ~\E h \in Handlers : HandlerStep(h) \/ HandlerFault(h)
  <2>1. sends' = sends /\ attempts' = attempts
    BY <1>5
    DEF Next, vars, run, Enqueue, EnqueueUnique, EnqueueManual, Create, Deliver, Clock,
        LeaseLapses, BecomesAvailable, Duplicate
  <2>2. \A j \in Jobs : Running(j)' \subseteq Running(j)
    BY <1>t, <1>5, OtherSteps DEF Deliver, Running, At, Idle
  <2> QED
    BY <1>3, <2>1, <2>2
<1> QED
  BY <1>1, <1>2, <1>3, <1>4, <1>5

\* A handler that holds a trigger of j and will not drop it.
Holds(h, j) == /\ handler[h].held /\ handler[h].job = j
               /\ handler[h].pc \notin {"idle", "ack"}

\* A handler's step keeps a trigger of every unfinished job.
LEMMA HandlerPending ==
  ASSUME Inv, [Next]_vars, NEW h \in Handlers, HandlerStep(h) \/ HandlerFault(h),
         NEW j \in Jobs, Holds(h, j), status'[j] \in Active
  PROVE  triggers'[j] > 0 \/ Holds(h, j)'
<1>t. handler \in [Handlers -> HandlerStates] /\ triggers \in [Jobs -> Nat]
  BY DEF Inv, TypeOK
<1>0. status[j] \notin Terminal
  BY StatusSteps DEF Active, Terminal
<1>1. CASE Trigger(j)
  BY <1>t, <1>1, TriggerType
<1>2. CASE \E s \in Steps \ {"idle", "ack"} : Goto(h, s)
  BY <1>t, <1>2 DEF Goto, Holds, HandlerStates
<1>3. CASE ReadJob(h) \/ LeaseOverrun(h)
  BY <1>t, <1>3 DEF ReadJob, LeaseOverrun, Holds, HandlerStates
<1>4. CASE ClaimBackup(h)
  <2>1. handler' = [handler EXCEPT ![h].pc = "run", ![h].tok = next] \/ Goto(h, "requeue")
    BY <1>4 DEF ClaimBackup
  <2> QED
    BY <1>t, <1>2, <2>1 DEF Holds, HandlerStates, Steps
<1>5. CASE ClaimExhausted(h)
  <2>1. CASE SnapshotHolds(h)
    <3>1. status'[j] = "FAILED"
      BY <1>5, <2>1, StatusSteps DEF ClaimExhausted, Release, Holds, Inv, TypeOK
    <3> QED
      BY <3>1 DEF Active
  <2>2. CASE ~SnapshotHolds(h)
    BY <1>2, <1>5, <2>2 DEF ClaimExhausted, Steps
  <2> QED
    BY <2>1, <2>2
<1>6. CASE ClaimTerminal(h) \/ ResolveAlert(h) \/ ResolveThrows(h)
  BY <1>0, <1>6 DEF ClaimTerminal, ResolveAlert, ResolveThrows, Holds, Inv, Knows, At, Terminal
<1>7. CASE Fail(h)
  <2>1. CASE OwnsLive(h) /\ attempts[j] >= MaxAttempts
    <3>1. status'[j] = "FAILED"
      BY <1>7, <2>1, BackupBounds DEF Fail, Release, Holds, Inv, TypeOK
    <3> QED
      BY <3>1 DEF Active
  <2>2. CASE ~(OwnsLive(h) /\ attempts[j] >= MaxAttempts)
    BY <1>1, <1>2, <1>7, <2>2 DEF Fail, Holds, Steps
  <2> QED
    BY <2>1, <2>2
<1>8. HandlerStep(h) => \/ Trigger(j) \/ (\E s \in Steps \ {"idle", "ack"} : Goto(h, s))
                        \/ ReadJob(h) \/ ClaimBackup(h) \/ ClaimExhausted(h)
                        \/ ClaimTerminal(h) \/ ResolveAlert(h) \/ Fail(h)
  BY DEF HandlerStep, ClaimDeferred, SendBackup, LeaseLost, Complete, Ack, Requeue, Steps,
         Holds, At
<1>9. HandlerFault(h) => \/ Trigger(j) \/ (\E s \in Steps \ {"idle", "ack"} : Goto(h, s))
                         \/ LeaseOverrun(h) \/ ResolveThrows(h)
  BY DEF HandlerFault, ClaimThrows, BackupFails, CompleteThrows, FailThrows, ConnectionLost,
         Crash, Steps, Holds
<1> QED
  BY <1>1, <1>2, <1>3, <1>4, <1>5, <1>6, <1>7, <1>8, <1>9

\* Triggers in the outbox and the queue only go to a handler.
LEMMA TriggerSteps ==
  ASSUME Inv, [Next]_vars, NEW j \in Jobs, triggers[j] > 0
  PROVE  triggers'[j] > 0 \/ \E h \in Handlers : Deliver(h, j)
<1>t. triggers \in [Jobs -> Nat]
  BY DEF Inv, TypeOK
<1>1. CASE UNCHANGED triggers \/ \E i \in Jobs : Trigger(i)
  BY <1>t, <1>1, TriggerType
<1>2. CASE \E h \in Handlers, i \in Jobs : Deliver(h, i)
  BY <1>t, <1>2 DEF Deliver
<1>3. ASSUME NEW h \in Handlers, HandlerStep(h) \/ HandlerFault(h)
      PROVE  UNCHANGED triggers \/ \E i \in Jobs : Trigger(i)
  <2>1. ~At(h, "idle") => handler[h].job \in Jobs
    BY DEF At, Inv, HasJob
  <2>2. HandlerStep(h) => UNCHANGED triggers \/ \E i \in Jobs : Trigger(i)
    BY <2>1
    DEF HandlerStep, ReadJob, ClaimTerminal, ClaimDeferred, ClaimExhausted, ClaimBackup,
        SendBackup, LeaseLost, Complete, ResolveAlert, Fail, Ack, Requeue, At
  <2>3. HandlerFault(h) => UNCHANGED triggers \/ \E i \in Jobs : Trigger(i)
    BY <2>1
    DEF HandlerFault, ClaimThrows, BackupFails, CompleteThrows, ResolveThrows, FailThrows,
        ConnectionLost, Crash, LeaseOverrun
  <2> QED
    BY <1>3, <2>2, <2>3
<1>4. [Next]_vars => \/ UNCHANGED triggers \/ \E i \in Jobs : Trigger(i)
                     \/ \E h \in Handlers : HandlerStep(h) \/ HandlerFault(h)
                     \/ \E h \in Handlers, i \in Jobs : Deliver(h, i)
  BY DEF Next, vars, Enqueue, EnqueueUnique, EnqueueManual, Create, Clock, LeaseLapses,
         BecomesAvailable, Duplicate, Jobs
<1> QED
  BY <1>1, <1>2, <1>3, <1>4

\* Every unfinished job keeps a trigger.
LEMMA PendingStep == ASSUME Inv, [Next]_vars PROVE NoLostJob'
<1>t. handler \in [Handlers -> HandlerStates] /\ triggers \in [Jobs -> Nat]
  BY DEF Inv, TypeOK
<1> SUFFICES ASSUME NEW j \in Jobs, status'[j] \in Active
             PROVE  triggers'[j] > 0 \/ \E h \in Handlers : Holds(h, j)'
  BY DEF NoLostJob, Pending, Holds
<1>1. CASE status[j] \in Active
  <2>1. triggers[j] > 0 \/ \E h \in Handlers : Holds(h, j)
    BY <1>1 DEF Inv, NoLostJob, Pending, Holds
  <2>2. CASE triggers[j] > 0
    <3>1. ASSUME NEW h \in Handlers, Deliver(h, j) PROVE Holds(h, j)'
      BY <1>t, <3>1 DEF Deliver, Holds, Idle
    <3> QED
      BY <2>2, <3>1, TriggerSteps
  <2>3. ASSUME NEW h \in Handlers, Holds(h, j)
        PROVE  triggers'[j] > 0 \/ Holds(h, j)'
    <3>1. CASE HandlerStep(h) \/ HandlerFault(h)
      BY <2>3, <3>1, HandlerPending
    <3>2. ASSUME NEW g \in Handlers, HandlerStep(g) \/ HandlerFault(g), g # h
          PROVE  Holds(h, j)'
      BY <2>3, <3>2, OwnSteps DEF Holds
    <3>3. ASSUME NEW g \in Handlers, NEW i \in Jobs, Deliver(g, i) PROVE Holds(h, j)'
      BY <1>t, <2>3, <3>3 DEF Deliver, At, Holds
    <3>4. CASE UNCHANGED handler
      BY <2>3, <3>4 DEF Holds
    <3> QED
      BY <3>1, <3>2, <3>3, <3>4, OtherSteps
  <2> QED
    BY <2>1, <2>2, <2>3
<1>2. CASE status[j] \notin Active
  <2>1. Create(j)
    <3>1. PICK i \in Jobs : status[i] = "none" /\ Create(i)
      BY <1>2, ActiveSteps
    <3>2. i = j
      BY <1>2, <3>1 DEF Create, Inv, TypeOK
    <3> QED
      BY <3>1, <3>2
  <2> QED
    BY <1>t, <2>1, TriggerType DEF Create
<1> QED
  BY <1>1, <1>2

-----------------------------------------------------------------------------
(***************************************************************************)
(* The inductive invariant holds in every reachable state.                 *)
(***************************************************************************)
THEOREM BackupInvariance == Spec => []Inv
<1>1. Inv /\ [Next]_vars => Inv'
  BY TypeStep, HasJobStep, KnowsStep, RequestedStep, SpentStep, SucceededStep, PendingStep,
     AlertedStep, OneActiveStep
  DEF Inv
<1> QED
  BY InitInv, <1>1, PTL DEF Spec

(***************************************************************************)
(* The columns of a job keep their types, attempts stay within             *)
(* maxAttempts, and exactly the PROCESSING jobs have a lease token.        *)
(***************************************************************************)
THEOREM BackupTypes == Spec => []TypeOK
<1>1. Inv => TypeOK
  BY DEF Inv
<1> QED
  BY BackupInvariance, <1>1, PTL

(***************************************************************************)
(* No unfinished backup job ever loses its last trigger.                   *)
(***************************************************************************)
THEOREM JobsNeverLost == Spec => []NoLostJob
<1>1. Inv => NoLostJob
  BY DEF Inv
<1> QED
  BY BackupInvariance, <1>1, PTL

\* The attempts, running ones included, cover what was sent.
LEMMA Accounting == Inv => SendsAccounted
<1> SUFFICES ASSUME Inv, NEW j \in Jobs
             PROVE  sends[j] <= attempts[j] /\ (status[j] = "SUCCEEDED" => sends[j] > 0)
  BY DEF SendsAccounted
<1>1. /\ sends[j] \in Nat /\ attempts[j] \in 0..MaxAttempts /\ MaxAttempts \in Nat
      /\ Cardinality(Running(j)) \in Nat
      /\ sends[j] + Cardinality(Running(j)) <= attempts[j]
  BY BackupBounds, RunningFinite DEF Inv, TypeOK, AttemptsSpent
<1> QED
  BY <1>1 DEF Inv, SucceededSent

(***************************************************************************)
(* A backup is sent at most once per attempt, and at least once by a job   *)
(* that succeeded.                                                         *)
(***************************************************************************)
THEOREM SendsBounded == Spec => []SendsAccounted
  BY BackupInvariance, Accounting, PTL

(***************************************************************************)
(* While no backup of the target has succeeded, a failed one is alerted.   *)
(***************************************************************************)
THEOREM FailuresAlerted == Spec => []FailureIsAlerted
<1>1. Inv => FailureIsAlerted
  BY DEF Inv
<1> QED
  BY BackupInvariance, <1>1, PTL

(***************************************************************************)
(* However requests and retries overlap, an administrator has at most one  *)
(* active manual job.                                                      *)
(***************************************************************************)
THEOREM OneRequestActive == Spec => []OneActivePerAdmin
<1>1. Inv => OneActivePerAdmin
  BY DEF Inv
<1> QED
  BY BackupInvariance, <1>1, PTL

(***************************************************************************)
(* A finished job stays as it is.                                          *)
(***************************************************************************)
THEOREM FinishedStays == Spec => TerminalStays
<1>1. Inv /\ [Next]_vars =>
        [\A j \in Jobs : status[j] \in Terminal =>
            status'[j] = status[j] /\ attempts'[j] = attempts[j]]_vars
  BY StatusSteps
<1> QED
  BY BackupInvariance, <1>1, PTL DEF Spec, TerminalStays

\* What a step does to the alert when it finishes no job.
LEMMA AlertSteps ==
  ASSUME Inv, NEW h \in Handlers, HandlerStep(h) \/ HandlerFault(h),
         UNCHANGED <<status, token, attempts, lapsed>> \/ LeaseOverrun(h)
  PROVE  \/ UNCHANGED <<status, attempts, alert>>
         \/ /\ At(h, "resolve") /\ alert' = FALSE
            /\ UNCHANGED <<status, attempts, sends>>
<1>1. UNCHANGED <<status, attempts>>
  BY DEF LeaseOverrun
<1>2. CASE ResolveAlert(h) \/ ResolveThrows(h)
  BY <1>1, <1>2 DEF ResolveAlert, ResolveThrows
<1>3. CASE /\ ~ResolveAlert(h) /\ ~ResolveThrows(h)
  <2>1. \/ alert' = alert
        \/ ClaimExhausted(h) /\ SnapshotHolds(h)
        \/ Fail(h) /\ OwnsLive(h) /\ Release(handler[h].job, "FAILED")
    BY <1>3
    DEF HandlerStep, HandlerFault, ReadJob, ClaimTerminal, ClaimDeferred, ClaimExhausted,
        ClaimBackup, SendBackup, LeaseLost, Complete, Fail, Ack, Requeue, ClaimThrows,
        BackupFails, CompleteThrows, FailThrows, ConnectionLost, Crash, LeaseOverrun
  <2>2. ASSUME Release(handler[h].job, "FAILED"), handler[h].job \in Jobs,
               status[handler[h].job] \in Active
        PROVE  FALSE
    BY <1>1, <2>2 DEF Release, Active, Inv, TypeOK
  <2>3. ~(ClaimExhausted(h) /\ SnapshotHolds(h))
    BY <2>2 DEF ClaimExhausted, SnapshotHolds, Claimable, At, Inv, HasJob
  <2>4. ~(Fail(h) /\ OwnsLive(h) /\ Release(handler[h].job, "FAILED"))
    BY <2>2 DEF Fail, OwnsLive, At, Inv, HasJob, Active
  <2> QED
    BY <1>1, <2>1, <2>3, <2>4
<1> QED
  BY <1>2, <1>3

\* The status of one job moves, and so does its state.
LEMMA StateMoves ==
  ASSUME Inv, NEW j \in Jobs, NEW s \in {"none"} \cup Active \cup Terminal,
         status' = [status EXCEPT ![j] = s]
  PROVE  State' = [State EXCEPT ![j] = IF s \in Active THEN "open" ELSE s]
<1>1. status \in [Jobs -> {"none"} \cup Active \cup Terminal]
  BY DEF Inv, TypeOK
<1> QED
  BY <1>1 DEF State

\* Every step of the scheduler and its workers is one of the contract, or none.
LEMMA ContractStep ==
  ASSUME Inv, Inv', [Next]_vars
  PROVE  [Contract!Next]_(Contract!jvars)
<1> USE DEF Contract!Next, Contract!jvars
<1>t. /\ status \in [Jobs -> {"none"} \cup Active \cup Terminal]
      /\ attempts \in [Jobs -> 0..MaxAttempts] /\ sends \in [Jobs -> Nat]
      /\ MaxAttempts \in Nat
  BY BackupBounds DEF Inv, TypeOK
<1>1. CASE UNCHANGED <<status, attempts, sends, alert>>
  BY <1>1 DEF State
<1>2. ASSUME NEW j \in Jobs, status[j] = "none", Create(j), UNCHANGED <<alert, sends>>
      PROVE  Contract!Enqueue(j)
  BY <1>t, <1>2, StateMoves DEF Create, State, Contract!Enqueue, Contract!Move, Active
<1>3. ASSUME NEW h \in Handlers, HandlerStep(h) \/ HandlerFault(h)
      PROVE  [Contract!Next]_(Contract!jvars)
  <2> DEFINE j == handler[h].job
  <2>1. CASE SendBackup(h)
    <3>1. j \in Jobs /\ UNCHANGED <<status, attempts, alert>>
      BY <2>1 DEF SendBackup, At, Inv, HasJob, run
    <3>2. sends' = [sends EXCEPT ![j] = @ + 1]
      BY <2>1 DEF SendBackup
    <3>a. SendsAccounted'
      BY Accounting, PTL
    <3>3. sends'[j] <= attempts'[j]
      BY <3>1, <3>a DEF SendsAccounted
    <3>4. Contract!Send(j)
      BY <1>t, <3>1, <3>2, <3>3 DEF Contract!Send, State
    <3> QED
      BY <3>1, <3>4
  <2>2. CASE ~SendBackup(h) /\ (UNCHANGED <<status, token, attempts, lapsed>> \/ LeaseOverrun(h))
    <3>1. sends' = sends
      BY <1>3, <2>2
      DEF HandlerStep, HandlerFault, ReadJob, ClaimTerminal, ClaimDeferred, ClaimExhausted,
          ClaimBackup, LeaseLost, Complete, ResolveAlert, Fail, Ack, Requeue, ClaimThrows,
          BackupFails, CompleteThrows, ResolveThrows, FailThrows, ConnectionLost, Crash,
          LeaseOverrun
    <3>2. CASE At(h, "resolve") /\ alert' = FALSE /\ UNCHANGED <<status, attempts>>
      <4>1. j \in Jobs /\ status[j] = "SUCCEEDED"
        BY <3>2 DEF At, Inv, HasJob, Knows
      <4>2. Contract!Resolve(j)
        BY <3>1, <3>2, <4>1 DEF Contract!Resolve, State, Active
      <4> QED
        BY <4>1, <4>2
    <3> QED
      BY <1>1, <1>3, <2>2, <3>1, <3>2, AlertSteps
  <2>3. ASSUME NEW s \in {"QUEUED"} \cup Terminal, ReleasedBy(h, s)
        PROVE  [Contract!Next]_(Contract!jvars)
    <3>1. /\ j \in Jobs /\ status[j] \in Active
          /\ status' = [status EXCEPT ![j] = s]
          /\ UNCHANGED <<attempts, sends>>
      BY <2>3 DEF ReleasedBy, Release
    <3>2. State[j] = "open" /\ State' = [State EXCEPT ![j] = IF s \in Active THEN "open" ELSE s]
      BY <3>1, StateMoves DEF State, Active, Terminal
    <3>3. CASE s = "QUEUED"
      <4>1. State' = State /\ alert' = alert
        BY <2>3, <3>2, <3>3 DEF ReleasedBy, State, Active
      <4> QED
        BY <3>1, <4>1
    <3>4. CASE s = "SUCCEEDED"
      <4>1. sends[j] > 0 /\ alert' = alert
        BY <2>3, <3>4 DEF ReleasedBy, At, Inv, Knows
      <4>2. Contract!Succeed(j)
        BY <3>1, <3>2, <3>4, <4>1 DEF Contract!Succeed, Contract!Move, Active
      <4> QED
        BY <3>1, <4>2
    <3>5. CASE s = "FAILED"
      <4>1. attempts[j] = MaxAttempts /\ alert' = TRUE
        BY <1>t, <2>3, <3>1, <3>5 DEF ReleasedBy
      <4>2. Contract!Fail(j)
        BY <3>1, <3>2, <3>5, <4>1 DEF Contract!Fail, Contract!Move, Active
      <4> QED
        BY <3>1, <4>2
    <3> QED
      BY <3>3, <3>4, <3>5 DEF Terminal
  <2>4. CASE ClaimedBy(h)
    <3>1. /\ j \in Jobs /\ status[j] \in Active /\ attempts[j] < MaxAttempts
          /\ status' = [status EXCEPT ![j] = "PROCESSING"]
          /\ attempts' = [attempts EXCEPT ![j] = @ + 1]
          /\ UNCHANGED <<alert, sends>>
      BY <2>4 DEF ClaimedBy, ClaimBackup, SnapshotHolds
    <3>2. State[j] = "open" /\ State' = State
      BY <1>t, <3>1 DEF State, Active
    <3>3. Contract!Attempt(j)
      BY <3>1, <3>2 DEF Contract!Attempt
    <3> QED
      BY <3>1, <3>3
  <2> QED
    BY <1>3, <2>1, <2>2, <2>3, <2>4, RowSteps
<1>4. \/ \E h \in Handlers : HandlerStep(h) \/ HandlerFault(h)
      \/ \E j \in Jobs : status[j] = "none" /\ Create(j) /\ UNCHANGED <<alert, sends>>
      \/ UNCHANGED <<status, attempts, sends, alert>>
  BY DEF Next, vars, run, Enqueue, EnqueueUnique, EnqueueManual, Deliver, Clock, LeaseLapses,
         BecomesAvailable, Duplicate, Jobs
<1> QED
  BY <1>1, <1>2, <1>3, <1>4

(***************************************************************************)
(* The scheduler and its workers implement the contract of a backup job,   *)
(* for any jobs, handlers, attempts and faults.                            *)
(***************************************************************************)
THEOREM ContractRefined == Spec => ImplementsContract
<1>1. Init => Contract!Init
  BY DEF Init, Contract!Init, State, Active
<1>2. Inv /\ Inv' /\ [Next]_vars => [Contract!Next]_(Contract!jvars)
  BY ContractStep
<1> QED
  BY BackupInvariance, <1>1, <1>2, PTL DEF Spec, ImplementsContract, Contract!Spec
=============================================================================
