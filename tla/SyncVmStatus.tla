---------------------------- MODULE SyncVmStatus ----------------------------
(***************************************************************************)
(* The background job of src/src/jobs/syncVmStatus.js: a cron tick every   *)
(* two minutes, the guard against overlapping runs, the retry loop with    *)
(* its backoff, and the breaker it shares with the portal's requests.      *)
(*                                                                         *)
(* A run is an asynchronous function; two could be in progress at a time   *)
(* if the guard let them, so runs have slots.  The slots are there to make *)
(* an overlap expressible, not because the code has any.                   *)
(*                                                                         *)
(* A fetch that succeeds is followed by the condition of line 58, which    *)
(* reads a variable that is declared nowhere: the ReferenceError is thrown *)
(* in the turn of the answer and ends the run as a failure.  The lines     *)
(* after it, which would update the rows, are never reached, and so the    *)
(* model has no action for them.                                           *)
(***************************************************************************)
EXTENDS CircuitBreaker, FiniteSets

CONSTANTS
    Slots,              \* where runs take place
    MAX_RETRIES,
    SYNC_TIMEOUT,       \* SYNC_TIMEOUT_MS in units of time
    Backoff,            \* [1 .. MAX_RETRIES -> units]: RETRY_BASE_DELAY_MS * 2^k
    CronPeriod,         \* "*/2 * * * *" in units of time
    MaxStreak           \* bound: the failure streak saturates here

ASSUME SyncAssumption ==
    /\ MAX_RETRIES \in Nat
    /\ SYNC_TIMEOUT \in Nat \ {0}
    /\ Backoff \in [1 .. MAX_RETRIES -> Nat \ {0}]
    /\ CronPeriod \in Nat \ {0}
    /\ MaxStreak \in Nat \ {0}

VARIABLES
    running,        \* the guard
    syncFailures,   \* the job's own consecutiveFailures
    run,            \* [Slots -> the local state of fetchClusterResources]
    cronIn,         \* units until cron calls runGuarded again
    skipped,        \* history: ticks skipped since a run last started, up to 2
    proxmox         \* "up", "unreachable" or "denying" (environment)

vars == <<consecutiveFailures, cooldownLeft, running, syncFailures, run,
          cronIn, skipped, proxmox>>

Idle == [stage |-> "idle", attempt |-> 0, left |-> 0]

\* left: units until the fetch times out or the sleep is over.
TypeOK ==
    /\ BreakerTypeOK
    /\ running \in BOOLEAN
    /\ syncFailures \in 0 .. MaxStreak
    /\ run \in [Slots -> [stage : {"idle", "fetch", "sleep"},
                          attempt : 0 .. MAX_RETRIES + 1,
                          left : Nat]]
    /\ cronIn \in 0 .. CronPeriod
    /\ skipped \in 0 .. 2
    /\ proxmox \in {"up", "unreachable", "denying"}

Init ==
    /\ BreakerInit
    /\ running = FALSE
    /\ syncFailures = 0
    /\ run = [s \in Slots |-> Idle]
    /\ cronIn = CronPeriod
    /\ skipped = 0
    /\ proxmox = "up"

Active(s) == run[s].stage # "idle"

-----------------------------------------------------------------------------

CountFailure ==
    syncFailures' = IF syncFailures < MaxStreak
                    THEN syncFailures + 1 ELSE MaxStreak

\* A plausible bug: the guard is only cleared by a run that succeeds.
RunThrowsKeepsGuard(s) ==
    /\ run' = [run EXCEPT ![s] = Idle]
    /\ CountFailure
    /\ running' = TRUE

\* runGuarded's catch and finally.
RunThrows(s) ==
    /\ run' = [run EXCEPT ![s] = Idle]
    /\ CountFailure
    /\ running' = FALSE

\* A plausible bug: the attempts are not counted.
AttemptFailsUncounted(s, n, retryable, guard) ==
    \/ /\ ~retryable
       /\ RunThrows(s)
    \/ /\ retryable
       /\ run' = [run EXCEPT ![s] = [stage |-> "sleep", attempt |-> 0,
                                     left |-> Backoff[1]]]
       /\ running' = guard
       /\ UNCHANGED syncFailures

\* The catch of the retry loop for the failure of attempt n, the guard being
\* set to `guard' by then.
AttemptFails(s, n, retryable, guard) ==
    \/ /\ n > MAX_RETRIES \/ ~retryable
       /\ RunThrows(s)
    \/ /\ n <= MAX_RETRIES /\ retryable
       /\ run' = [run EXCEPT ![s] = [stage |-> "sleep", attempt |-> n,
                                     left |-> Backoff[n]]]
       /\ running' = guard
       /\ UNCHANGED syncFailures

\* Attempt n goes through the request interceptor.  An open circuit rejects
\* it with status 503, which isRetryable takes for a failure of Proxmox.
AttemptStarts(s, n, guard) ==
    \/ /\ CircuitIsOpen
       /\ AttemptFails(s, n, TRUE, guard)
    \/ /\ ~CircuitIsOpen
       /\ run' = [run EXCEPT ![s] = [stage |-> "fetch", attempt |-> n,
                                     left |-> SYNC_TIMEOUT]]
       /\ running' = guard
       /\ UNCHANGED syncFailures

RunStarts(s) ==
    /\ ~Active(s)
    /\ AttemptStarts(s, 1, TRUE)

\* A plausible bug: the guard is not looked at.
CronTickUnguarded ==
    /\ cronIn = 0
    /\ cronIn' = CronPeriod
    /\ skipped' = 0
    /\ \E s \in Slots : RunStarts(s)
    /\ UNCHANGED <<breakerVars, proxmox>>

\* cron calls runGuarded.  The tick is skipped, or a run starts and makes
\* its first attempt in the same turn.
CronTick ==
    /\ cronIn = 0
    /\ cronIn' = CronPeriod
    /\ \/ /\ running
          /\ skipped' = IF skipped < 2 THEN skipped + 1 ELSE skipped
          /\ UNCHANGED <<running, syncFailures, run>>
       \/ /\ ~running
          /\ skipped' = 0
          /\ \E s \in Slots : RunStarts(s)
    /\ UNCHANGED <<breakerVars, proxmox>>

\* The sleep is over and the loop makes its next attempt.
Wakes(s) ==
    /\ run[s].stage = "sleep"
    /\ run[s].left = 0
    /\ AttemptStarts(s, run[s].attempt + 1, running)
    /\ UNCHANGED <<breakerVars, cronIn, skipped, proxmox>>

\* The fetch succeeds, which closes the circuit; line 58 throws.
FetchOk(s) ==
    /\ run[s].stage = "fetch"
    /\ proxmox = "up"
    /\ RecordSuccess
    /\ RunThrows(s)
    /\ UNCHANGED <<cronIn, skipped, proxmox>>

\* The fetch is refused, answered with an error, or times out.  Only a 4xx is
\* not retryable.
FetchFails(s) ==
    /\ run[s].stage = "fetch"
    /\ proxmox # "up"
    /\ RecordFailure
    /\ AttemptFails(s, run[s].attempt, proxmox = "unreachable", running)
    /\ UNCHANGED <<cronIn, skipped, proxmox>>

\* A request of the portal is answered, or fails; it may have been sent when
\* the circuit was still closed.
PortalCall ==
    /\ \/ proxmox = "up" /\ RecordSuccess
       \/ proxmox # "up" /\ (RecordSuccess \/ RecordFailure)
    /\ UNCHANGED <<running, syncFailures, run, cronIn, skipped, proxmox>>

ProxmoxChanges ==
    /\ proxmox' \in {"up", "unreachable", "denying"} \ {proxmox}
    /\ UNCHANGED <<breakerVars, running, syncFailures, run, cronIn, skipped>>

\* Time passes, but past nothing that is due.
Tick ==
    /\ cronIn > 0
    /\ \A s \in Slots : Active(s) => run[s].left > 0
    /\ CooldownElapses
    /\ cronIn' = cronIn - 1
    /\ run' = [s \in Slots |->
                IF Active(s) THEN [run[s] EXCEPT !.left = @ - 1] ELSE run[s]]
    /\ UNCHANGED <<running, syncFailures, skipped, proxmox>>

RunStep(s) == Wakes(s) \/ FetchOk(s) \/ FetchFails(s)

Next ==
    \/ CronTick
    \/ \E s \in Slots : RunStep(s)
    \/ PortalCall
    \/ ProxmoxChanges
    \/ Tick

Spec == Init /\ [][Next]_vars

\* Time passes, cron fires, sleeps end, and a fetch is settled: answered
\* while Proxmox is up, and otherwise by an error or by its timeout.
Fairness ==
    /\ WF_vars(Tick)
    /\ WF_vars(CronTick)
    /\ \A s \in Slots : WF_vars(RunStep(s))

FairSpec == Spec /\ Fairness

-----------------------------------------------------------------------------

\* "This guard makes overlap structurally impossible": one run is in progress
\* while the guard is set, whichever way earlier runs ended, and none while
\* it is not.
GuardMeansOneRun ==
    Cardinality({s \in Slots : Active(s)}) = IF running THEN 1 ELSE 0

\* A run that exhausts every timeout and every backoff is late for one tick,
\* but over by the next: of two ticks in a row one starts a run.
AtMostOneTickSkipped == skipped <= 1

\* No run is the last one: whatever Proxmox does, runs end and others start.
SyncKeepsTrying == []<><<\E s \in Slots : RunStarts(s)>>_vars

\* dev-zero-validation.md expects "consecutiveFailures: 0 (or recovering, not
\* stuck climbing)" while Proxmox is healthy.
SyncRecovers == <>[](proxmox = "up") => <>[](syncFailures = 0)

=============================================================================
