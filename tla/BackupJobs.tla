----------------------------- MODULE BackupJobs -----------------------------
(***************************************************************************)
(* The scheduled backup jobs of apps/operations: the scheduler and the     *)
(* administrators enqueue jobs (scheduled-jobs.service.ts), trigger        *)
(* messages reach the maintenance worker over the outbox and RabbitMQ      *)
(* (operations-rabbitmq.service.ts), and the worker claims the job under a *)
(* lease, sends the backup and completes or fails the job                  *)
(* (maintenance-worker.service.ts).                                        *)
(*                                                                         *)
(* All jobs here are of one backup target.  The trigger messages of a job  *)
(* are alike, so they are counted; they may come before their availableAt  *)
(* because clocks differ.  A lease is either running or "lapsed".          *)
(***************************************************************************)
EXTENDS Integers, FiniteSets

CONSTANTS
    Daily,          \* one job for each period, by its schedule key
    Manual,         \* ids for jobs that administrators ask for
    Admins, Keys,   \* administrators and their idempotency keys
    Handlers,       \* concurrent runs of handleScheduledJob
    MaxAttempts,    \* maxAttempts of every job
    MaxFaults       \* bound: crashes, lost connections, errors, overruns

Jobs == Daily \cup Manual

ASSUME JobsAssumption == Daily \cap Manual = {} /\ 0 \notin Jobs
ASSUME BackupBounds == MaxAttempts \in Nat \ {0} /\ MaxFaults \in Nat
ASSUME HandlersAssumption == IsFiniteSet(Handlers)

VARIABLES
    status,     \* of each job; "none" before it is created
    attempts,   \* started attempts
    token,      \* leaseToken, 0 for null
    lapsed,     \* jobs whose leaseExpiresAt is over
    waiting,    \* jobs whose availableAt is to come
    request,    \* ScheduledJobIdempotencyKey: admin and key to job, or NoJob
    alert,      \* the operational alert of the target is open
    triggers,   \* trigger messages of each job in the outbox or the queue
    handler,    \* local state of the handlers
    next,       \* the next lease token
    faults,     \* used budget of faults
    sends       \* backups of each job that were sent (history)

run  == <<status, attempts, token, lapsed, waiting>>
vars == <<run, request, alert, triggers, handler, next, faults, sends>>

NoJob    == 0
NoToken  == 0
Active   == {"QUEUED", "PROCESSING"}
Terminal == {"SUCCEEDED", "FAILED"}

\* What claimBackup has read of the job; "ready" is notBefore <= now.
NoSnap == [status |-> "none", attempts |-> 0, token |-> NoToken, ready |-> FALSE]
Idle   == [pc |-> "idle", job |-> NoJob, held |-> FALSE, tok |-> NoToken, snap |-> NoSnap]

Init ==
    /\ status = [j \in Jobs |-> "none"]
    /\ attempts = [j \in Jobs |-> 0]
    /\ token = [j \in Jobs |-> NoToken]
    /\ lapsed = {}
    /\ waiting = {}
    /\ request = [a \in Admins |-> [k \in Keys |-> NoJob]]
    /\ alert = FALSE
    /\ triggers = [j \in Jobs |-> 0]
    /\ handler = [h \in Handlers |-> Idle]
    /\ next = 1
    /\ faults = 0
    /\ sends = [j \in Jobs |-> 0]

At(h, step) == handler[h].pc = step
Goto(h, step) == handler' = [handler EXCEPT ![h].pc = step]
Fault == faults < MaxFaults /\ faults' = faults + 1
Trigger(j) == triggers' = [triggers EXCEPT ![j] = @ + 1]

\* Mutant: jobs whose lease is over are not claimed.
ReadyQueuedOnly(j) == j \notin waiting /\ status[j] = "QUEUED"

\* claimableSnapshot's time conditions.
Ready(j) == j \notin waiting /\ (status[j] = "PROCESSING" => j \in lapsed)

\* The condition of complete, renewLease and fail.
OwnsLive(h) ==
    LET j == handler[h].job IN
    status[j] = "PROCESSING" /\ token[j] = handler[h].tok /\ j \notin lapsed

\* The renewal timer of h runs for the lease of job j.
Renews(h, j) ==
    /\ handler[h].pc \in {"run", "complete", "fail"}
    /\ handler[h].job = j /\ handler[h].tok = token[j]

\* The job leaves PROCESSING.
Release(j, s) ==
    /\ status' = [status EXCEPT ![j] = s]
    /\ token' = [token EXCEPT ![j] = NoToken]
    /\ lapsed' = lapsed \ {j}

-----------------------------------------------------------------------------
\* enqueueUniqueInTransaction: the job and its first trigger.
Create(j) ==
    /\ status' = [status EXCEPT ![j] = "QUEUED"]
    /\ Trigger(j)
    /\ UNCHANGED <<attempts, token, lapsed, waiting>>

\* tick: the job of a period that is due, unless its schedule key exists.
EnqueueUnique(j) ==
    /\ j \in Daily /\ status[j] = "none"
    /\ Create(j)
    /\ UNCHANGED <<request, alert, handler, next, faults, sends>>

\* The active manual jobs of an administrator.
ActiveOf(a) == {j \in Manual : status[j] \in Active /\ \E k \in Keys : request[a][k] = j}

\* Mutant: only the idempotency key is looked up.
EnqueueManualByKey(a, k) ==
    /\ request[a][k] = NoJob
    /\ \E j \in Manual :
         /\ status[j] = "none"
         /\ Create(j)
         /\ request' = [request EXCEPT ![a][k] = j]
    /\ UNCHANGED <<alert, handler, next, faults, sends>>

\* A known key finds its job; otherwise the key joins the administrator's
\* active job or creates one.
EnqueueManual(a, k) ==
    /\ request[a][k] = NoJob
    /\ \/ \E j \in ActiveOf(a) :
            /\ request' = [request EXCEPT ![a][k] = j]
            /\ UNCHANGED <<run, triggers>>
       \/ /\ ActiveOf(a) = {}
          /\ \E j \in Manual :
               /\ status[j] = "none"
               /\ Create(j)
               /\ request' = [request EXCEPT ![a][k] = j]
    /\ UNCHANGED <<alert, handler, next, faults, sends>>

-----------------------------------------------------------------------------
\* RabbitMQ delivers a trigger; prefetch is 1.
Deliver(h, j) ==
    /\ At(h, "idle") /\ triggers[j] > 0
    /\ triggers' = [triggers EXCEPT ![j] = @ - 1]
    /\ handler' = [handler EXCEPT ![h] =
                     [Idle EXCEPT !.pc = "read", !.job = j, !.held = TRUE]]
    /\ UNCHANGED <<run, request, alert, next, faults, sends>>

\* claimBackup reads the job.
ReadJob(h) ==
    LET j == handler[h].job IN
    /\ At(h, "read")
    /\ handler' = [handler EXCEPT ![h].pc = "decide", ![h].snap =
                     [status |-> status[j], attempts |-> attempts[j],
                      token |-> token[j], ready |-> Ready(j)]]
    /\ UNCHANGED <<run, request, alert, triggers, next, faults, sends>>

ClaimTerminal(h) ==
    /\ At(h, "decide") /\ handler[h].snap.status \in Terminal
    /\ Goto(h, "ack")
    /\ UNCHANGED <<run, request, alert, triggers, next, faults, sends>>

\* Mutant: the recovery event reuses a deduplication key that is taken.
ClaimDeferredByKey(h) ==
    LET s == handler[h].snap IN
    /\ At(h, "decide") /\ s.status \in Active /\ ~s.ready
    /\ Goto(h, "ack")
    /\ UNCHANGED <<run, request, alert, triggers, next, faults, sends>>

\* Not available yet, or leased: a fresh delayed trigger replaces this one.
ClaimDeferred(h) ==
    LET s == handler[h].snap IN
    /\ At(h, "decide") /\ s.status \in Active /\ ~s.ready
    /\ Trigger(handler[h].job)
    /\ Goto(h, "ack")
    /\ UNCHANGED <<run, request, alert, next, faults, sends>>

\* The row still is what was read.
SnapshotHolds(h) ==
    LET j == handler[h].job
        s == handler[h].snap
    IN status[j] = s.status /\ attempts[j] = s.attempts /\ token[j] = s.token /\ Ready(j)

Claimable(h) ==
    At(h, "decide") /\ handler[h].snap.status \in Active /\ handler[h].snap.ready

\* Mutant: an exhausted job fails without its alert.
ClaimExhaustedSilently(h) ==
    LET j == handler[h].job IN
    /\ Claimable(h) /\ handler[h].snap.attempts >= MaxAttempts
    /\ IF SnapshotHolds(h)
       THEN Release(j, "FAILED") /\ Goto(h, "ack")
       ELSE UNCHANGED <<status, token, lapsed>> /\ Goto(h, "requeue")
    /\ UNCHANGED <<attempts, waiting, request, alert, triggers, next, faults, sends>>

\* Attempts are used up: FAILED and the alert in one transaction.
ClaimExhausted(h) ==
    LET j == handler[h].job IN
    /\ Claimable(h) /\ handler[h].snap.attempts >= MaxAttempts
    /\ IF SnapshotHolds(h)
       THEN Release(j, "FAILED") /\ alert' = TRUE /\ Goto(h, "ack")
       ELSE UNCHANGED <<status, token, lapsed, alert>> /\ Goto(h, "requeue")
    /\ UNCHANGED <<attempts, waiting, request, triggers, next, faults, sends>>

ClaimBackup(h) ==
    LET j == handler[h].job IN
    /\ Claimable(h) /\ handler[h].snap.attempts < MaxAttempts
    /\ IF SnapshotHolds(h)
       THEN /\ status' = [status EXCEPT ![j] = "PROCESSING"]
            /\ attempts' = [attempts EXCEPT ![j] = @ + 1]
            /\ token' = [token EXCEPT ![j] = next]
            /\ lapsed' = lapsed \ {j}
            /\ next' = next + 1
            /\ handler' = [handler EXCEPT ![h].pc = "run", ![h].tok = next]
       ELSE /\ UNCHANGED <<status, attempts, token, lapsed, next>>
            /\ Goto(h, "requeue")
    /\ UNCHANGED <<waiting, request, alert, triggers, faults, sends>>

\* claimBackup throws.
ClaimThrows(h) ==
    /\ handler[h].pc \in {"read", "decide"}
    /\ Fault
    /\ Goto(h, "requeue")
    /\ UNCHANGED <<run, request, alert, triggers, next, sends>>

-----------------------------------------------------------------------------
\* Telegram accepts the dump; its signature may still have to be sent.
SendBackup(h) ==
    /\ At(h, "run")
    /\ sends' = [sends EXCEPT ![handler[h].job] = @ + 1]
    /\ Goto(h, "complete")
    /\ UNCHANGED <<run, request, alert, triggers, next, faults>>

\* createAndSend throws before or after the dump was accepted: the dump, an
\* upload or the renewal fails, or an answer is lost.
BackupFails(h) ==
    /\ handler[h].pc \in {"run", "complete"}
    /\ Fault
    /\ Goto(h, "fail")
    /\ UNCHANGED <<run, request, alert, triggers, next, sends>>

\* renewLease finds the lease lost and aborts what is left of the backup.
LeaseLost(h) ==
    /\ handler[h].pc \in {"run", "complete"} /\ ~OwnsLive(h)
    /\ Goto(h, "fail")
    /\ UNCHANGED <<run, request, alert, triggers, next, faults, sends>>

\* Mutant: the lease columns are not reset.
CompleteKeepsLease(h) ==
    /\ At(h, "complete")
    /\ IF OwnsLive(h)
       THEN /\ status' = [status EXCEPT ![handler[h].job] = "SUCCEEDED"]
            /\ Goto(h, "resolve")
       ELSE UNCHANGED status /\ Goto(h, "requeue")
    /\ UNCHANGED <<attempts, token, lapsed, waiting, request, alert, triggers,
                   next, faults, sends>>

Complete(h) ==
    /\ At(h, "complete")
    /\ IF OwnsLive(h)
       THEN Release(handler[h].job, "SUCCEEDED") /\ Goto(h, "resolve")
       ELSE UNCHANGED <<status, token, lapsed>> /\ Goto(h, "requeue")
    /\ UNCHANGED <<attempts, waiting, request, alert, triggers, next, faults, sends>>

\* complete throws, with or without its effect.
CompleteThrows(h) ==
    /\ At(h, "complete")
    /\ Fault
    /\ \/ OwnsLive(h) /\ Release(handler[h].job, "SUCCEEDED")
       \/ UNCHANGED <<status, token, lapsed>>
    /\ Goto(h, "fail")
    /\ UNCHANGED <<attempts, waiting, request, alert, triggers, next, sends>>

\* The alert is resolved after the job; an error there is only logged.
ResolveAlert(h) ==
    /\ At(h, "resolve")
    /\ alert' = FALSE
    /\ Goto(h, "ack")
    /\ UNCHANGED <<run, request, triggers, next, faults, sends>>

\* The alert is not resolved, or the settings of a daily backup are not
\* updated: the latter leads to the catch clause.
ResolveThrows(h) ==
    /\ At(h, "resolve")
    /\ Fault
    /\ alert' \in {alert, FALSE}
    /\ \/ Goto(h, "ack")
       \/ handler[h].job \in Daily /\ Goto(h, "fail")
    /\ UNCHANGED <<run, request, triggers, next, sends>>

\* Mutant: the attempt that has just failed is counted once more.
FailEarly(h) ==
    LET j == handler[h].job IN
    /\ At(h, "fail")
    /\ IF ~OwnsLive(h)
       THEN /\ UNCHANGED <<status, token, lapsed, waiting, alert, triggers>>
            /\ Goto(h, "requeue")
       ELSE /\ Goto(h, "ack")
            /\ IF attempts[j] + 1 < MaxAttempts
               THEN /\ Release(j, "QUEUED") /\ Trigger(j)
                    /\ waiting' = waiting \cup {j} /\ UNCHANGED alert
               ELSE /\ Release(j, "FAILED") /\ alert' = TRUE
                    /\ UNCHANGED <<waiting, triggers>>
    /\ UNCHANGED <<attempts, request, next, faults, sends>>

\* fail: a delayed retry with its trigger, or FAILED with the alert.
Fail(h) ==
    LET j == handler[h].job IN
    /\ At(h, "fail")
    /\ \/ /\ OwnsLive(h) /\ attempts[j] < MaxAttempts
          /\ Release(j, "QUEUED")
          /\ waiting' = waiting \cup {j}
          /\ Trigger(j)
          /\ Goto(h, "ack")
          /\ UNCHANGED alert
       \/ /\ OwnsLive(h) /\ attempts[j] >= MaxAttempts
          /\ Release(j, "FAILED")
          /\ alert' = TRUE
          /\ Goto(h, "ack")
          /\ UNCHANGED <<waiting, triggers>>
       \/ /\ ~OwnsLive(h)
          /\ Goto(h, "requeue")
          /\ UNCHANGED <<status, token, lapsed, waiting, alert, triggers>>
    /\ UNCHANGED <<attempts, request, next, faults, sends>>

FailThrows(h) ==
    /\ At(h, "fail")
    /\ Fault
    /\ Goto(h, "requeue")
    /\ UNCHANGED <<run, request, alert, triggers, next, sends>>

-----------------------------------------------------------------------------
\* The handler is done with its message.
Ack(h) ==
    /\ At(h, "ack")
    /\ handler' = [handler EXCEPT ![h] = Idle]
    /\ UNCHANGED <<run, request, alert, triggers, next, faults, sends>>

\* scheduleOperationalRetry: a copy on the retry exchange and an ack, or a
\* nack.  On a closed channel the copy may be all or nothing.
Requeue(h) ==
    /\ At(h, "requeue")
    /\ \/ Trigger(handler[h].job)
       \/ ~handler[h].held /\ UNCHANGED triggers
    /\ handler' = [handler EXCEPT ![h] = Idle]
    /\ UNCHANGED <<run, request, alert, next, faults, sends>>

\* The channel closes: the message is delivered again, the handler goes on.
ConnectionLost(h) ==
    /\ ~At(h, "idle") /\ handler[h].held
    /\ Fault
    /\ Trigger(handler[h].job)
    /\ handler' = [handler EXCEPT ![h].held = FALSE]
    /\ UNCHANGED <<run, request, alert, next, sends>>

\* The worker process dies.
Crash(h) ==
    /\ ~At(h, "idle")
    /\ Fault
    /\ IF handler[h].held THEN Trigger(handler[h].job) ELSE UNCHANGED triggers
    /\ handler' = [handler EXCEPT ![h] = Idle]
    /\ UNCHANGED <<run, request, alert, next, sends>>

\* The outbox publishes a trigger twice, or a retry copy is not followed by
\* the ack of its original.
Duplicate(j) ==
    /\ triggers[j] > 0
    /\ Fault
    /\ Trigger(j)
    /\ UNCHANGED <<run, request, alert, handler, next, sends>>

\* A lease nobody renews runs out.
LeaseLapses(j) ==
    /\ status[j] = "PROCESSING" /\ j \notin lapsed
    /\ \A h \in Handlers : ~Renews(h, j)
    /\ lapsed' = lapsed \cup {j}
    /\ UNCHANGED <<status, attempts, token, waiting, request, alert, triggers,
                   handler, next, faults, sends>>

\* The renewals of a running backup come too late.
LeaseOverrun(h) ==
    /\ ~At(h, "idle") /\ OwnsLive(h)
    /\ Fault
    /\ lapsed' = lapsed \cup {handler[h].job}
    /\ UNCHANGED <<status, attempts, token, waiting, request, alert, triggers,
                   handler, next, sends>>

BecomesAvailable(j) ==
    /\ j \in waiting
    /\ waiting' = waiting \ {j}
    /\ UNCHANGED <<status, attempts, token, lapsed, request, alert, triggers,
                   handler, next, faults, sends>>

-----------------------------------------------------------------------------
Enqueue ==
    \/ \E j \in Jobs : EnqueueUnique(j)
    \/ \E a \in Admins, k \in Keys : EnqueueManual(a, k)

HandlerStep(h) ==
    \/ ReadJob(h) \/ ClaimTerminal(h) \/ ClaimDeferred(h) \/ ClaimExhausted(h)
    \/ ClaimBackup(h) \/ SendBackup(h) \/ LeaseLost(h) \/ Complete(h)
    \/ ResolveAlert(h) \/ Fail(h) \/ Ack(h) \/ Requeue(h)

HandlerFault(h) ==
    \/ ClaimThrows(h) \/ BackupFails(h) \/ CompleteThrows(h) \/ ResolveThrows(h)
    \/ FailThrows(h) \/ ConnectionLost(h) \/ Crash(h) \/ LeaseOverrun(h)

Clock == \E j \in Jobs : LeaseLapses(j) \/ BecomesAvailable(j)

Next ==
    \/ Enqueue
    \/ \E h \in Handlers : HandlerStep(h) \/ HandlerFault(h)
    \/ \E h \in Handlers, j \in Jobs : Deliver(h, j)
    \/ Clock
    \/ \E j \in Jobs : Duplicate(j)

Spec == Init /\ [][Next]_vars

\* Handlers go on, RabbitMQ delivers the triggers of every job in turn, and
\* time passes.
Fairness ==
    /\ \A h \in Handlers : WF_vars(HandlerStep(h))
    /\ \A j \in Jobs : SF_vars(\E h \in Handlers : Deliver(h, j))
    /\ \A j \in Jobs : WF_vars(LeaseLapses(j) \/ BecomesAvailable(j))

FairSpec == Spec /\ Fairness

-----------------------------------------------------------------------------
Snaps == [status : {"none"} \cup Active \cup Terminal, attempts : Nat,
          token : Nat, ready : BOOLEAN]

Steps == {"idle", "read", "decide", "run", "complete", "resolve", "fail", "ack", "requeue"}

HandlerStates ==
    [pc : Steps, job : Jobs \cup {NoJob}, held : BOOLEAN, tok : Nat, snap : Snaps]

(***************************************************************************)
(* Types, and the lease columns go together: exactly the PROCESSING jobs   *)
(* have a lease token; only they have a lease that can be over.            *)
(***************************************************************************)
TypeOK ==
    /\ status \in [Jobs -> {"none"} \cup Active \cup Terminal]
    /\ attempts \in [Jobs -> 0..MaxAttempts]
    /\ token \in [Jobs -> Nat]
    /\ lapsed \subseteq Jobs /\ waiting \subseteq Jobs
    /\ request \in [Admins -> [Keys -> Manual \cup {NoJob}]]
    /\ alert \in BOOLEAN
    /\ triggers \in [Jobs -> Nat]
    /\ handler \in [Handlers -> HandlerStates]
    /\ next \in Nat \ {0} /\ faults \in Nat
    /\ sends \in [Jobs -> Nat]
    /\ \A j \in Jobs : token[j] # NoToken <=> status[j] = "PROCESSING"
    /\ \A j \in lapsed : status[j] = "PROCESSING"

\* A trigger of j is on its way, or with a handler that will not drop it.
Pending(j) ==
    \/ triggers[j] > 0
    \/ \E h \in Handlers : /\ handler[h].held /\ handler[h].job = j
                           /\ handler[h].pc \notin {"idle", "ack"}

(***************************************************************************)
(* A job that is not finished never runs out of triggers: nothing polls    *)
(* for jobs, so the last trigger may be acknowledged only when the job is  *)
(* terminal or another trigger is durable.                                 *)
(***************************************************************************)
NoLostJob == \A j \in Jobs : status[j] \in Active => Pending(j)

(***************************************************************************)
(* Every attempt sends the backup at most once, so that crashes, overruns  *)
(* and redeliveries never send more than maxAttempts of them; a job that   *)
(* succeeded has sent one.                                                 *)
(***************************************************************************)
SendsAccounted ==
    \A j \in Jobs : /\ sends[j] <= attempts[j]
                    /\ status[j] = "SUCCEEDED" => sends[j] > 0

(***************************************************************************)
(* A failed backup is seen: while no backup of the target has succeeded, a *)
(* FAILED job comes with an open alert.                                    *)
(***************************************************************************)
FailureIsAlerted ==
    (\E j \in Jobs : status[j] = "FAILED") /\ (\A j \in Jobs : status[j] # "SUCCEEDED")
    => alert

(***************************************************************************)
(* An administrator has at most one active manual job, whatever the        *)
(* idempotency keys of the requests.                                       *)
(***************************************************************************)
OneActivePerAdmin ==
    \A a \in Admins : \A i, j \in ActiveOf(a) : i = j

(***************************************************************************)
(* A finished job stays as it is: a late complete or fail of a handler     *)
(* that lost its lease changes nothing.                                    *)
(***************************************************************************)
TerminalStays ==
    [][\A j \in Jobs : status[j] \in Terminal =>
         status'[j] = status[j] /\ attempts'[j] = attempts[j]]_vars

\* A job as the contract of the scheduler sees it.
State == [j \in Jobs |-> IF status[j] \in Active THEN "open" ELSE status[j]]

Contract == INSTANCE JobContract WITH state <- State

(***************************************************************************)
(* The scheduler and its workers keep the contract of a job, with stale    *)
(* handlers, lost answers and repeated triggers: claimBackup starts a job  *)
(* at most maxAttempts times, complete follows a backup that was sent,     *)
(* fail and the claim of an exhausted job give up only after the last      *)
(* attempt, and an alert is resolved only after a success.                 *)
(***************************************************************************)
ImplementsContract == Contract!Spec

(***************************************************************************)
(* Every job that was enqueued is eventually finished.                     *)
(***************************************************************************)
EveryJobEnds ==
    \A j \in Jobs : (status[j] = "QUEUED") ~> (status[j] \in Terminal)
=============================================================================
