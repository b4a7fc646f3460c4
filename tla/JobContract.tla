---------------------------- MODULE JobContract ----------------------------
(***************************************************************************)
(* What the scheduler of Operations promises for the backup jobs of a      *)
(* target (scheduled-jobs.service.ts, maintenance-worker.service.ts): a    *)
(* job is started at most maxAttempts times and sends at most one backup   *)
(* for each start; it succeeds only if a backup was sent, fails only when  *)
(* its attempts are used up, and then with an alert, which only a success  *)
(* of the target resolves.                                                 *)
(***************************************************************************)
EXTENDS Naturals

CONSTANTS Jobs, MaxAttempts

VARIABLES
    state,      \* of each job: "none", "open", "SUCCEEDED" or "FAILED"
    attempts,   \* starts of each job
    sends,      \* backups each job has sent
    alert       \* the alert of the target is open

jvars == <<state, attempts, sends, alert>>

Init ==
    /\ state = [j \in Jobs |-> "none"]
    /\ attempts = [j \in Jobs |-> 0]
    /\ sends = [j \in Jobs |-> 0]
    /\ alert = FALSE

Move(j, from, to) ==
    /\ state[j] = from
    /\ state' = [state EXCEPT ![j] = to]
    /\ UNCHANGED <<attempts, sends>>

Enqueue(j) == Move(j, "none", "open") /\ UNCHANGED alert

Attempt(j) ==
    /\ state[j] = "open" /\ attempts[j] < MaxAttempts
    /\ attempts' = [attempts EXCEPT ![j] = @ + 1]
    /\ UNCHANGED <<state, sends, alert>>

\* A handler that has lost its job may still send.
Send(j) ==
    /\ sends[j] < attempts[j]
    /\ sends' = [sends EXCEPT ![j] = @ + 1]
    /\ UNCHANGED <<state, attempts, alert>>

Succeed(j) == sends[j] > 0 /\ Move(j, "open", "SUCCEEDED") /\ UNCHANGED alert

Fail(j) == attempts[j] = MaxAttempts /\ Move(j, "open", "FAILED") /\ alert' = TRUE

Resolve(j) ==
    /\ state[j] = "SUCCEEDED"
    /\ alert' = FALSE
    /\ UNCHANGED <<state, attempts, sends>>

Next == \E j \in Jobs :
    Enqueue(j) \/ Attempt(j) \/ Send(j) \/ Succeed(j) \/ Fail(j) \/ Resolve(j)

Spec == Init /\ [][Next]_jvars
=============================================================================
