------------------------- MODULE SyncVmStatusProofs -------------------------
(***************************************************************************)
(* The guard of the background sync, for any number of retries, any        *)
(* timeout, backoffs and cron period: it is set exactly while one run is   *)
(* in progress.                                                            *)
(*                                                                         *)
(* Every way in which an attempt begins or fails leaves its slot either    *)
(* idle with the guard cleared, or active with the guard as it was         *)
(* (Settles).  That, and the attempt number being one that has a backoff,  *)
(* is the induction.  The second part bounds the time that a run takes.    *)
(***************************************************************************)
EXTENDS SyncVmStatus, CircuitBreakerProofs, FiniteSetTheorems

Local == [stage : {"idle", "fetch", "sleep"},
          attempt : 0 .. MAX_RETRIES + 1, left : Nat]

\* An active run is at one of its attempts; one that sleeps has one left.
Attempting(K) ==
    /\ K.stage # "idle" => K.attempt >= 1
    /\ K.stage = "sleep" => K.attempt <= MAX_RETRIES

AttemptInv == \A s \in Slots : Attempting(run[s])

\* The guard and the runs, without counting.
GuardInv ==
    /\ ~running => \A s \in Slots : ~Active(s)
    /\ running => \E s \in Slots :
                     Active(s) /\ \A t \in Slots \ {s} : ~Active(t)

IInv ==
    /\ TypeOK
    /\ OpenOnlyAfterFailures
    /\ AttemptInv
    /\ GuardInv

Settles(s, guard) ==
    /\ syncFailures' \in 0 .. MaxStreak
    /\ \E K \in Local :
          /\ Attempting(K)
          /\ run' = [run EXCEPT ![s] = K]
          /\ \/ K.stage = "idle" /\ running' = FALSE
             \/ K.stage # "idle" /\ running' = guard

-----------------------------------------------------------------------------

LEMMA RunThrowsSettles ==
    ASSUME TypeOK, NEW s \in Slots, NEW guard, RunThrows(s)
    PROVE  Settles(s, guard)
<1>1. syncFailures' \in 0 .. MaxStreak
  BY SyncAssumption DEF TypeOK, RunThrows, CountFailure
<1>2. Idle \in Local /\ Attempting(Idle) /\ Idle.stage = "idle"
  BY SyncAssumption DEF Idle, Local, Attempting
<1> QED BY <1>1, <1>2 DEF RunThrows, Settles

LEMMA AttemptFailsSettles ==
    ASSUME TypeOK, NEW s \in Slots, NEW n \in 1 .. MAX_RETRIES + 1,
           NEW retryable \in BOOLEAN, NEW guard \in BOOLEAN,
           AttemptFails(s, n, retryable, guard)
    PROVE  Settles(s, guard)
<1>1. CASE RunThrows(s)
  BY <1>1, RunThrowsSettles
<1>2. CASE n <= MAX_RETRIES /\ ~RunThrows(s)
  <2> DEFINE K == [stage |-> "sleep", attempt |-> n, left |-> Backoff[n]]
  <2>1. K \in Local /\ Attempting(K) /\ K.stage = "sleep"
    BY <1>2, SyncAssumption DEF Local, Attempting
  <2>2. /\ run' = [run EXCEPT ![s] = K] /\ running' = guard
        /\ syncFailures' = syncFailures
    BY <1>2 DEF AttemptFails
  <2> HIDE DEF K
  <2> QED BY <2>1, <2>2 DEF Settles, TypeOK
<1> QED BY <1>1, <1>2 DEF AttemptFails

LEMMA AttemptStartsSettles ==
    ASSUME TypeOK, NEW s \in Slots, NEW n \in 1 .. MAX_RETRIES + 1,
           NEW guard \in BOOLEAN, AttemptStarts(s, n, guard)
    PROVE  Settles(s, guard)
<1>1. CASE CircuitIsOpen
  BY <1>1, AttemptFailsSettles DEF AttemptStarts
<1>2. CASE ~CircuitIsOpen
  <2> DEFINE K == [stage |-> "fetch", attempt |-> n, left |-> SYNC_TIMEOUT]
  <2>1. K \in Local /\ Attempting(K) /\ K.stage = "fetch"
    BY SyncAssumption DEF Local, Attempting
  <2>2. /\ run' = [run EXCEPT ![s] = K] /\ running' = guard
        /\ syncFailures' = syncFailures
    BY <1>2 DEF AttemptStarts
  <2> HIDE DEF K
  <2> QED BY <2>1, <2>2 DEF Settles, TypeOK
<1> QED BY <1>1, <1>2

\* A slot that settles keeps the guard true to the runs, if the other slots
\* are idle and the guard it keeps is set.
LEMMA SettlingKeepsInv ==
    ASSUME TypeOK, AttemptInv, NEW s \in Slots, Settles(s, TRUE),
           \A t \in Slots \ {s} : ~Active(t)
    PROVE  /\ run' \in [Slots -> Local]
           /\ running' \in BOOLEAN
           /\ syncFailures' \in 0 .. MaxStreak
           /\ AttemptInv'
           /\ GuardInv'
<1>1. PICK K \in Local :
        /\ Attempting(K)
        /\ run' = [run EXCEPT ![s] = K]
        /\ \/ K.stage = "idle" /\ running' = FALSE
           \/ K.stage # "idle" /\ running' = TRUE
  BY DEF Settles
<1>2. run \in [Slots -> Local]
  BY DEF TypeOK, Local
<1>3. run' \in [Slots -> Local]
  BY <1>1, <1>2
<1>4. run'[s] = K /\ \A t \in Slots \ {s} : run'[t] = run[t]
  BY <1>1, <1>2
<1>5. AttemptInv'
  BY <1>1, <1>4 DEF AttemptInv, Attempting
<1>6. GuardInv'
  BY <1>1, <1>4 DEF GuardInv, Active
<1> QED BY <1>1, <1>3, <1>5, <1>6 DEF Settles

LEMMA GuardedAlone ==
    ASSUME TypeOK, GuardInv, NEW s \in Slots, Active(s)
    PROVE  running = TRUE /\ \A t \in Slots \ {s} : ~Active(t)
BY DEF GuardInv, TypeOK

-----------------------------------------------------------------------------

LEMMA CronTickKeepsIInv ==
    ASSUME IInv, CronTick
    PROVE  IInv'
<1>1. /\ TypeOK /\ OpenOnlyAfterFailures /\ AttemptInv /\ GuardInv
      /\ UNCHANGED breakerVars /\ proxmox' = proxmox /\ cronIn' = CronPeriod
  BY DEF IInv, CronTick
<1>2. BreakerTypeOK' /\ OpenOnlyAfterFailures'
  BY <1>1, BreakerSteps DEF TypeOK, BreakerStep
<1>3. cronIn' \in 0 .. CronPeriod /\ skipped' \in 0 .. 2
  BY <1>1, SyncAssumption DEF TypeOK, CronTick
<1>4. CASE UNCHANGED <<running, syncFailures, run>>
  BY <1>1, <1>2, <1>3, <1>4
  DEF IInv, TypeOK, AttemptInv, Attempting, GuardInv, Active
<1>5. CASE ~running /\ \E s \in Slots : RunStarts(s)
  <2>1. PICK s \in Slots : AttemptStarts(s, 1, TRUE)
    BY <1>5 DEF RunStarts
  <2>2. Settles(s, TRUE)
    <3>1. 1 \in 1 .. MAX_RETRIES + 1 /\ TRUE \in BOOLEAN
      BY SyncAssumption
    <3> QED BY <1>1, <2>1, <3>1, AttemptStartsSettles
  <2>3. \A t \in Slots \ {s} : ~Active(t)
    BY <1>1, <1>5 DEF GuardInv
  <2>4. /\ run' \in [Slots -> Local] /\ running' \in BOOLEAN
        /\ syncFailures' \in 0 .. MaxStreak /\ AttemptInv' /\ GuardInv'
    BY <1>1, <2>2, <2>3, SettlingKeepsInv
  <2> QED BY <1>1, <1>2, <1>3, <2>4 DEF IInv, TypeOK, Local
<1> QED BY <1>4, <1>5 DEF CronTick

LEMMA RunStepKeepsIInv ==
    ASSUME IInv, NEW s \in Slots, RunStep(s)
    PROVE  IInv'
<1>1. /\ TypeOK /\ OpenOnlyAfterFailures /\ AttemptInv /\ GuardInv
      /\ proxmox' = proxmox /\ cronIn' = cronIn /\ skipped' = skipped
      /\ Active(s) /\ run[s] \in Local /\ Attempting(run[s])
  BY DEF IInv, RunStep, Wakes, FetchOk, FetchFails, Active, TypeOK, Local,
         AttemptInv
<1>2. running = TRUE /\ \A t \in Slots \ {s} : ~Active(t)
  BY <1>1, GuardedAlone
<1>3. BreakerTypeOK' /\ OpenOnlyAfterFailures'
  BY <1>1, BreakerSteps
     DEF TypeOK, BreakerStep, RunStep, Wakes, FetchOk, FetchFails
<1>4. run[s].attempt \in 1 .. MAX_RETRIES + 1
  BY <1>1, SyncAssumption DEF Local, Attempting, Active
<1>5. Settles(s, TRUE)
  <2>1. CASE Wakes(s)
    <3>1. run[s].attempt + 1 \in 1 .. MAX_RETRIES + 1
      BY <1>1, <1>4, <2>1, SyncAssumption DEF Wakes, Attempting
    <3> QED BY <1>1, <1>2, <2>1, <3>1, AttemptStartsSettles DEF Wakes
  <2>2. CASE FetchOk(s)
    BY <1>1, <2>2, RunThrowsSettles DEF FetchOk
  <2>3. CASE FetchFails(s)
    <3>1. (proxmox = "unreachable") \in BOOLEAN
      OBVIOUS
    <3> QED BY <1>1, <1>2, <1>4, <2>3, <3>1, AttemptFailsSettles DEF FetchFails
  <2> QED BY <2>1, <2>2, <2>3 DEF RunStep
<1>6. /\ run' \in [Slots -> Local] /\ running' \in BOOLEAN
      /\ syncFailures' \in 0 .. MaxStreak /\ AttemptInv' /\ GuardInv'
  BY <1>1, <1>2, <1>5, SettlingKeepsInv
<1> QED BY <1>1, <1>3, <1>6 DEF IInv, TypeOK, Local

LEMMA TickKeepsIInv ==
    ASSUME IInv, Tick
    PROVE  IInv'
<1>1. /\ TypeOK /\ OpenOnlyAfterFailures /\ AttemptInv /\ GuardInv
      /\ proxmox' = proxmox /\ skipped' = skipped /\ running' = running
      /\ syncFailures' = syncFailures /\ cronIn > 0 /\ cronIn' = cronIn - 1
      /\ CooldownElapses
  BY DEF IInv, Tick
<1>2. BreakerTypeOK' /\ OpenOnlyAfterFailures'
  BY <1>1, BreakerSteps DEF TypeOK, BreakerStep
<1>3. cronIn' \in 0 .. CronPeriod
  BY <1>1, SyncAssumption DEF TypeOK
<1>4. ASSUME NEW s \in Slots
      PROVE  /\ run'[s] \in Local
             /\ run'[s].stage = run[s].stage
             /\ run'[s].attempt = run[s].attempt
  <2>1. run[s] \in Local
    BY <1>1 DEF TypeOK, Local
  <2>2. run'[s] = IF Active(s) THEN [run[s] EXCEPT !.left = @ - 1] ELSE run[s]
    BY DEF Tick
  <2>3. Active(s) => run[s].left > 0
    BY DEF Tick
  <2> QED BY <2>1, <2>2, <2>3 DEF Local
<1>5. run' \in [Slots -> Local]
  <2>1. DOMAIN run' = Slots /\ run' = [s \in Slots |-> run'[s]]
    BY DEF Tick
  <2> QED BY <1>4, <2>1
<1>6. AttemptInv'
  BY <1>1, <1>4 DEF AttemptInv, Attempting
<1>7. GuardInv'
  BY <1>1, <1>4 DEF GuardInv, Active
<1> QED BY <1>1, <1>2, <1>3, <1>5, <1>6, <1>7 DEF IInv, TypeOK, Local

LEMMA OthersKeepIInv ==
    ASSUME IInv, PortalCall \/ ProxmoxChanges \/ UNCHANGED vars
    PROVE  IInv'
<1>1. /\ TypeOK /\ OpenOnlyAfterFailures /\ AttemptInv /\ GuardInv
      /\ UNCHANGED <<running, syncFailures, run, cronIn, skipped>>
      /\ proxmox' \in {"up", "unreachable", "denying"}
  BY DEF IInv, TypeOK, PortalCall, ProxmoxChanges, vars
<1>2. BreakerTypeOK' /\ OpenOnlyAfterFailures'
  BY <1>1, BreakerSteps
     DEF TypeOK, BreakerStep, PortalCall, ProxmoxChanges, vars, breakerVars
<1>3. TypeOK'
  BY <1>1, <1>2 DEF TypeOK
<1>4. AttemptInv' /\ GuardInv'
  BY <1>1 DEF AttemptInv, Attempting, GuardInv, Active
<1> QED BY <1>2, <1>3, <1>4 DEF IInv

LEMMA SpecIInv == Spec => []IInv
<1>1. Init => IInv
  <2> SUFFICES ASSUME Init PROVE IInv
    OBVIOUS
  <2>1. BreakerTypeOK /\ OpenOnlyAfterFailures
    BY BreakerAssumption DEF Init, BreakerInit, BreakerTypeOK,
                             OpenOnlyAfterFailures, CircuitIsOpen
  <2>2. Idle \in Local /\ Idle.stage = "idle"
    BY SyncAssumption DEF Idle, Local
  <2>3. TypeOK
    <3>1. run \in [Slots -> Local]
      BY <2>2 DEF Init
    <3>2. running \in BOOLEAN /\ proxmox \in {"up", "unreachable", "denying"}
      BY DEF Init
    <3>3. /\ syncFailures \in 0 .. MaxStreak
          /\ cronIn \in 0 .. CronPeriod /\ skipped \in 0 .. 2
      BY SyncAssumption DEF Init
    <3> QED BY <2>1, <3>1, <3>2, <3>3 DEF TypeOK, Local
  <2>4. AttemptInv /\ GuardInv
    BY <2>2 DEF Init, AttemptInv, Attempting, GuardInv, Active
  <2> QED BY <2>1, <2>3, <2>4 DEF IInv
<1>2. IInv /\ [Next]_vars => IInv'
  BY CronTickKeepsIInv, RunStepKeepsIInv, TickKeepsIInv, OthersKeepIInv DEF Next
<1> QED BY <1>1, <1>2, PTL DEF Spec

\* The job and the breaker keep their types: no attempt beyond the last, no
\* backoff that the table does not have, no negative rest of a wait.
THEOREM SyncTypeOK == Spec => []TypeOK
<1>1. IInv => TypeOK
  BY DEF IInv
<1> QED BY <1>1, SpecIInv, PTL

\* "This guard makes overlap structurally impossible": whatever the timeouts,
\* the backoffs and the cron period, one run is in progress while the guard
\* is set and none while it is not, so that no failure leaves it set.
THEOREM GuardIsTrue == Spec => []GuardMeansOneRun
<1>1. IInv => GuardMeansOneRun
  <2> SUFFICES ASSUME IInv PROVE GuardMeansOneRun
    OBVIOUS
  <2>1. CASE running
    <3>1. PICK s \in Slots : Active(s) /\ \A t \in Slots \ {s} : ~Active(t)
      BY <2>1 DEF IInv, GuardInv
    <3>2. {t \in Slots : Active(t)} = {s}
      BY <3>1
    <3>3. Cardinality({s}) = 1
      BY FS_Singleton
    <3> QED BY <2>1, <3>2, <3>3 DEF GuardMeansOneRun
  <2>2. CASE ~running
    <3>1. {t \in Slots : Active(t)} = {}
      BY <2>2 DEF IInv, GuardInv
    <3>2. Cardinality({}) = 0
      BY FS_EmptySet
    <3> QED BY <2>2, <3>1, <3>2 DEF GuardMeansOneRun
  <2> QED BY <2>1, <2>2
<1> QED BY <1>1, SpecIInv, PTL

-----------------------------------------------------------------------------
(* The breaker, which the job shares with the requests of the portal.      *)

LEMMA SyncUsesBreaker == Spec => BreakerSpec
<1>1. [Next]_vars => [BreakerStep]_breakerVars
  BY DEF Next, CronTick, RunStep, Wakes, FetchOk, FetchFails, PortalCall,
         ProxmoxChanges, Tick, vars, breakerVars, BreakerStep
<1> QED BY <1>1, PTL DEF Spec, Init, BreakerSpec

\* The job's retries and the portal's requests between them drive the breaker
\* through the three states as the comment of the breaker says.
THEOREM SyncSharesThreeStateBreaker == Spec => ActsAsThreeStateBreaker
BY SyncUsesBreaker, BreakerIsThreeState

-----------------------------------------------------------------------------
(***************************************************************************)
(* The length of a run.  Within[n] bounds the time from the n-th attempt   *)
(* to the end of the run, if it is at least a timeout and, but for the     *)
(* last attempt, a backoff and what is left after that.  With the code's   *)
(* constants in units of 5 s it is 40, 30, 20, 9 and the cron period 24.   *)
(***************************************************************************)

AfterAttempt(Within, n) ==
    IF n <= MAX_RETRIES THEN Backoff[n] + Within[n + 1] ELSE 0

Bounds(Within) ==
    /\ Within \in [1 .. MAX_RETRIES + 1 -> Nat]
    /\ \A n \in 1 .. MAX_RETRIES + 1 :
          Within[n] >= SYNC_TIMEOUT + AfterAttempt(Within, n)
    /\ Within[1] < 2 * CronPeriod

\* The most that a run may still take.
Remaining(Within, K) ==
    K.left + IF K.stage = "sleep" THEN Within[K.attempt + 1]
                                  ELSE AfterAttempt(Within, K.attempt)

\* A run in progress ends before the cron tick after the next one or, if it
\* has already cost a tick, before the next one.
Budget == cronIn + IF skipped = 0 THEN CronPeriod ELSE 0

BudgetInv(Within) ==
    /\ skipped <= 1
    /\ \A s \in Slots : Active(s) => Remaining(Within, run[s]) < Budget

\* What becomes of a slot whose run may take a time of at most most.
Shortens(s, Within, most) ==
    /\ \A t \in Slots \ {s} : run'[t] = run[t]
    /\ run'[s].stage # "idle" => Remaining(Within, run'[s]) <= most

LEMMA AfterAttemptType ==
    ASSUME NEW Within, Bounds(Within), NEW n \in 1 .. MAX_RETRIES + 1
    PROVE  Within[n] \in Nat /\ AfterAttempt(Within, n) \in Nat
<1>1. Within[n] \in Nat
  BY DEF Bounds
<1>2. CASE n <= MAX_RETRIES
  <2>1. n \in 1 .. MAX_RETRIES /\ n + 1 \in 1 .. MAX_RETRIES + 1
    BY <1>2, SyncAssumption
  <2>2. Backoff[n] \in Nat
    BY <2>1, SyncAssumption
  <2>3. Within[n + 1] \in Nat
    BY <2>1 DEF Bounds
  <2> QED BY <1>1, <1>2, <2>2, <2>3 DEF AfterAttempt
<1>3. CASE ~(n <= MAX_RETRIES)
  BY <1>1, <1>3 DEF AfterAttempt
<1> QED BY <1>2, <1>3

LEMMA RemainingType ==
    ASSUME NEW Within, Bounds(Within), NEW K \in Local, Attempting(K),
           K.stage # "idle"
    PROVE  Remaining(Within, K) \in Nat
<1>1. K.stage = "sleep" => Within[K.attempt + 1] \in Nat
  BY SyncAssumption DEF Bounds, Local, Attempting
<1>2. AfterAttempt(Within, K.attempt) \in Nat
  <2>1. K.attempt \in 1 .. MAX_RETRIES + 1
    BY SyncAssumption DEF Local, Attempting
  <2> QED BY <2>1, AfterAttemptType
<1> QED BY <1>1, <1>2 DEF Remaining, Local

LEMMA FailureShortens ==
    ASSUME TypeOK, NEW Within, Bounds(Within), NEW s \in Slots,
           NEW n \in 1 .. MAX_RETRIES + 1, NEW retryable, NEW guard,
           AttemptFails(s, n, retryable, guard)
    PROVE  Shortens(s, Within, AfterAttempt(Within, n))
<1>1. CASE RunThrows(s)
  BY <1>1 DEF RunThrows, TypeOK, Shortens, Idle
<1>2. CASE n <= MAX_RETRIES /\ ~RunThrows(s)
  <2> DEFINE K == [stage |-> "sleep", attempt |-> n, left |-> Backoff[n]]
  <2>1. K.stage = "sleep" /\ K.attempt = n /\ K.left = Backoff[n]
    OBVIOUS
  <2>2. run' = [run EXCEPT ![s] = K]
    BY <1>2 DEF AttemptFails
  <2> HIDE DEF K
  <2>3. run'[s] = K /\ \A t \in Slots \ {s} : run'[t] = run[t]
    BY <2>2 DEF TypeOK
  <2>4. Backoff[n] \in Nat /\ Within[n + 1] \in Nat
    BY <1>2, SyncAssumption DEF Bounds
  <2>5. Remaining(Within, K) = AfterAttempt(Within, n)
    BY <1>2, <2>1 DEF Remaining, AfterAttempt
  <2>6. AfterAttempt(Within, n) \in Nat
    BY <1>2, <2>4 DEF AfterAttempt
  <2> QED BY <2>3, <2>5, <2>6 DEF Shortens
<1> QED BY <1>1, <1>2 DEF AttemptFails

LEMMA StartShortens ==
    ASSUME TypeOK, NEW Within, Bounds(Within), NEW s \in Slots,
           NEW n \in 1 .. MAX_RETRIES + 1, NEW guard \in BOOLEAN,
           AttemptStarts(s, n, guard)
    PROVE  Shortens(s, Within, Within[n])
<1>1. /\ AfterAttempt(Within, n) \in Nat /\ Within[n] \in Nat
      /\ SYNC_TIMEOUT \in Nat
      /\ Within[n] >= SYNC_TIMEOUT + AfterAttempt(Within, n)
  BY AfterAttemptType, SyncAssumption DEF Bounds
<1>2. CASE AttemptFails(s, n, TRUE, guard)
  <2>1. Shortens(s, Within, AfterAttempt(Within, n))
    BY <1>2, FailureShortens
  <2>2. run'[s] \in Local /\ Attempting(run'[s])
    <3>1. Settles(s, guard)
      BY <1>2, AttemptFailsSettles
    <3> QED BY <3>1 DEF Settles, TypeOK
  <2> QED BY <1>1, <2>1, <2>2, RemainingType DEF Shortens
<1>3. CASE ~CircuitIsOpen
  <2> DEFINE K == [stage |-> "fetch", attempt |-> n, left |-> SYNC_TIMEOUT]
  <2>1. K.stage = "fetch" /\ K.attempt = n /\ K.left = SYNC_TIMEOUT
    OBVIOUS
  <2>2. run' = [run EXCEPT ![s] = K]
    BY <1>3 DEF AttemptStarts
  <2> HIDE DEF K
  <2>3. run'[s] = K /\ \A t \in Slots \ {s} : run'[t] = run[t]
    BY <2>2 DEF TypeOK
  <2>4. Remaining(Within, K) = SYNC_TIMEOUT + AfterAttempt(Within, n)
    BY <2>1 DEF Remaining
  <2> QED BY <1>1, <2>3, <2>4 DEF Shortens
<1> QED BY <1>2, <1>3 DEF AttemptStarts

LEMMA BudgetKept ==
    ASSUME NEW Within, Bounds(Within), BudgetInv(Within), IInv, IInv',
           NEW s \in Slots, NEW most \in Int, most < Budget,
           Shortens(s, Within, most), UNCHANGED <<cronIn, skipped>>
    PROVE  BudgetInv(Within)'
<1>1. Budget' = Budget /\ Budget \in Int
  BY SyncAssumption DEF Budget, IInv, TypeOK
<1>2. ASSUME NEW t \in Slots, Active(t)'
      PROVE  Remaining(Within, run'[t]) < Budget
  <2>1. CASE t # s
    BY <1>2, <2>1 DEF Shortens, Active, BudgetInv
  <2>2. CASE t = s
    <3>1. run'[s].stage # "idle"
      BY <1>2, <2>2 DEF Active
    <3>2. Remaining(Within, run'[s]) \in Nat
      BY <3>1, RemainingType DEF IInv, AttemptInv, TypeOK, Local
    <3> QED BY <1>1, <2>2, <3>1, <3>2 DEF Shortens
  <2> QED BY <2>1, <2>2
<1>3. \A t \in Slots : Active(t)' => Remaining(Within, run'[t]) < Budget'
  BY <1>1, <1>2
<1> QED BY <1>3 DEF BudgetInv

LEMMA RunStepKeepsBudget ==
    ASSUME NEW Within, Bounds(Within), BudgetInv(Within), IInv, IInv',
           NEW s \in Slots, RunStep(s)
    PROVE  BudgetInv(Within)'
<1>1. /\ TypeOK /\ run[s] \in Local /\ Attempting(run[s]) /\ Active(s)
      /\ UNCHANGED <<cronIn, skipped>>
  BY DEF IInv, TypeOK, Local, AttemptInv, Active, RunStep, Wakes, FetchOk,
         FetchFails
<1>2. /\ Remaining(Within, run[s]) \in Nat /\ Budget \in Int
      /\ Remaining(Within, run[s]) < Budget
  BY <1>1, RemainingType, SyncAssumption
  DEF BudgetInv, Active, Budget, TypeOK
<1>3. run[s].attempt \in 1 .. MAX_RETRIES + 1
  BY <1>1, SyncAssumption DEF Local, Attempting, Active
<1>4. CASE Wakes(s)
  <2>1. /\ run[s].attempt + 1 \in 1 .. MAX_RETRIES + 1
        /\ AttemptStarts(s, run[s].attempt + 1, running)
        /\ Within[run[s].attempt + 1] \in Nat
    BY <1>1, <1>3, <1>4, SyncAssumption DEF Wakes, Attempting, Bounds
  <2>2. Within[run[s].attempt + 1] = Remaining(Within, run[s])
    BY <1>4, <2>1 DEF Wakes, Remaining
  <2>3. Shortens(s, Within, Within[run[s].attempt + 1])
    BY <1>1, <2>1, StartShortens DEF TypeOK
  <2> QED BY <1>1, <1>2, <2>2, <2>3, BudgetKept
<1>5. CASE FetchOk(s)
  <2>1. Shortens(s, Within, Remaining(Within, run[s]))
    BY <1>1, <1>5 DEF FetchOk, RunThrows, TypeOK, Shortens, Idle
  <2> QED BY <1>1, <1>2, <2>1, BudgetKept
<1>6. CASE FetchFails(s)
  <2>1. Shortens(s, Within, AfterAttempt(Within, run[s].attempt))
    BY <1>1, <1>3, <1>6, FailureShortens DEF FetchFails
  <2>2. AfterAttempt(Within, run[s].attempt) \in Nat
    BY <1>3, AfterAttemptType
  <2>3. AfterAttempt(Within, run[s].attempt) <= Remaining(Within, run[s])
    BY <1>1, <1>6, <2>2 DEF FetchFails, Remaining, Local
  <2> QED BY <1>1, <1>2, <2>1, <2>2, <2>3, BudgetKept
<1> QED BY <1>4, <1>5, <1>6 DEF RunStep

LEMMA CronTickKeepsBudget ==
    ASSUME NEW Within, Bounds(Within), BudgetInv(Within), IInv, IInv', CronTick
    PROVE  BudgetInv(Within)'
<1>1. /\ TypeOK /\ AttemptInv /\ GuardInv /\ cronIn = 0
      /\ cronIn' = CronPeriod /\ CronPeriod \in Nat /\ skipped \in 0 .. 2
  BY SyncAssumption DEF IInv, TypeOK, CronTick
<1>2. CASE /\ running /\ run' = run
           /\ skipped' = IF skipped < 2 THEN skipped + 1 ELSE skipped
  <2>1. PICK s \in Slots : Active(s) /\ \A t \in Slots \ {s} : ~Active(t)
    BY <1>1, <1>2 DEF GuardInv
  <2>2. Remaining(Within, run[s]) \in Nat /\ Remaining(Within, run[s]) < Budget
    BY <1>1, <2>1, RemainingType DEF BudgetInv, AttemptInv, TypeOK, Local, Active
  <2>3. skipped = 0
    BY <1>1, <2>2 DEF Budget
  <2>4. skipped' = 1 /\ Budget' = CronPeriod /\ Budget = CronPeriod
    BY <1>1, <1>2, <2>3 DEF Budget
  <2> QED BY <1>2, <2>4 DEF BudgetInv, Active
<1>3. CASE ~running /\ skipped' = 0 /\ \E s \in Slots : RunStarts(s)
  <2>1. PICK s \in Slots : AttemptStarts(s, 1, TRUE)
    BY <1>3 DEF RunStarts
  <2>2. 1 \in 1 .. MAX_RETRIES + 1 /\ Within[1] \in Nat
    BY SyncAssumption DEF Bounds
  <2>3. Shortens(s, Within, Within[1])
    BY <1>1, <2>1, <2>2, StartShortens
  <2>4. Budget' = 2 * CronPeriod /\ Within[1] < Budget'
    BY <1>1, <1>3, <2>2 DEF Budget, Bounds
  <2>5. ASSUME NEW t \in Slots, Active(t)'
        PROVE  Remaining(Within, run'[t]) < Budget'
    <3>1. t = s
      BY <1>1, <1>3, <2>3, <2>5 DEF Shortens, GuardInv, Active
    <3>2. run'[s].stage # "idle"
      BY <2>5, <3>1 DEF Active
    <3>3. Remaining(Within, run'[s]) \in Nat
      BY <3>2, RemainingType DEF IInv, AttemptInv, TypeOK, Local
    <3> QED BY <1>1, <2>2, <2>3, <2>4, <3>1, <3>2, <3>3 DEF Shortens
  <2> QED BY <1>3, <2>5 DEF BudgetInv
<1> QED BY <1>2, <1>3 DEF CronTick

LEMMA TickKeepsBudget ==
    ASSUME NEW Within, Bounds(Within), BudgetInv(Within), IInv, IInv', Tick
    PROVE  BudgetInv(Within)'
<1>1. /\ TypeOK /\ AttemptInv /\ skipped' = skipped /\ cronIn' = cronIn - 1
      /\ cronIn \in Nat /\ CronPeriod \in Nat
  BY SyncAssumption DEF IInv, TypeOK, Tick
<1>2. Budget' = Budget - 1 /\ Budget \in Int
  BY <1>1 DEF Budget
<1>3. ASSUME NEW s \in Slots, Active(s)'
      PROVE  Remaining(Within, run'[s]) < Budget'
  <2>1. run[s] \in Local /\ Attempting(run[s])
    BY <1>1 DEF TypeOK, Local, AttemptInv
  <2>2. run'[s] = IF Active(s) THEN [run[s] EXCEPT !.left = @ - 1] ELSE run[s]
    BY DEF Tick
  <2>3. Active(s)
    BY <1>3, <2>2 DEF Active
  <2>4. /\ run'[s].stage = run[s].stage /\ run'[s].attempt = run[s].attempt
        /\ run'[s].left = run[s].left - 1 /\ run[s].left \in Nat
    BY <2>1, <2>2, <2>3 DEF Local
  <2>5. Remaining(Within, run[s]) \in Nat /\ Remaining(Within, run[s]) < Budget
    BY <2>1, <2>3, RemainingType DEF BudgetInv, Active
  <2>6. /\ run[s].stage = "sleep" => Within[run[s].attempt + 1] \in Nat
        /\ AfterAttempt(Within, run[s].attempt) \in Nat
    <3>1. run[s].attempt \in 1 .. MAX_RETRIES + 1
      BY <2>1, <2>3, SyncAssumption DEF Local, Attempting, Active
    <3>2. run[s].stage = "sleep"
            => run[s].attempt + 1 \in 1 .. MAX_RETRIES + 1
      BY <2>1, <3>1, SyncAssumption DEF Attempting
    <3> QED BY <3>1, <3>2, AfterAttemptType
  <2>7. Remaining(Within, run'[s]) = Remaining(Within, run[s]) - 1
    BY <2>4, <2>6 DEF Remaining
  <2> QED BY <1>2, <2>5, <2>7
<1> QED BY <1>1, <1>3 DEF BudgetInv

LEMMA OthersKeepBudget ==
    ASSUME NEW Within, BudgetInv(Within),
           PortalCall \/ ProxmoxChanges \/ UNCHANGED vars
    PROVE  BudgetInv(Within)'
<1>1. run' = run /\ cronIn' = cronIn /\ skipped' = skipped
  BY DEF PortalCall, ProxmoxChanges, vars
<1> QED BY <1>1 DEF BudgetInv, Budget, Active

\* A run is late for one tick at most, if all its timeouts and backoffs add up
\* to less than two cron periods, which Within witnesses.
THEOREM RunsEndInTime ==
    ASSUME NEW CONSTANT Within, Bounds(Within)
    PROVE  Spec => []AtMostOneTickSkipped
<1>1. Init => BudgetInv(Within)
  BY DEF Init, BudgetInv, Active, Idle
<1>2. BudgetInv(Within) /\ IInv /\ IInv' /\ [Next]_vars => BudgetInv(Within)'
  BY CronTickKeepsBudget, RunStepKeepsBudget, TickKeepsBudget, OthersKeepBudget
  DEF Next
<1>3. BudgetInv(Within) => AtMostOneTickSkipped
  BY DEF BudgetInv, AtMostOneTickSkipped
<1> QED BY <1>1, <1>2, <1>3, SpecIInv, PTL DEF Spec

\* The code's case, three retries: four timeouts and the three backoffs between
\* them (45 s each; 2, 4 and 8 s) have to fit into two cron periods (240 s).
THEOREM ThreeRetriesEndInTime ==
    ASSUME MAX_RETRIES = 3,
           4 * SYNC_TIMEOUT + Backoff[1] + Backoff[2] + Backoff[3]
               < 2 * CronPeriod
    PROVE  Spec => []AtMostOneTickSkipped
<1> DEFINE last == SYNC_TIMEOUT
           third == SYNC_TIMEOUT + Backoff[3] + last
           second == SYNC_TIMEOUT + Backoff[2] + third
           first == SYNC_TIMEOUT + Backoff[1] + second
           W == [n \in 1 .. 4 |->
                   IF n = 1 THEN first ELSE IF n = 2 THEN second
                   ELSE IF n = 3 THEN third ELSE last]
<1>1. /\ SYNC_TIMEOUT \in Nat
      /\ Backoff[1] \in Nat /\ Backoff[2] \in Nat /\ Backoff[3] \in Nat
  BY SyncAssumption
<1>2. W \in [1 .. 4 -> Nat]
  BY <1>1
<1>3. W[1] = first /\ W[2] = second /\ W[3] = third /\ W[4] = last
  OBVIOUS
<1>4. first < 2 * CronPeriod
  BY <1>1, SyncAssumption
<1> HIDE DEF W
<1>5. \A n \in 1 .. 4 : W[n] >= SYNC_TIMEOUT + AfterAttempt(W, n)
  <2>1. ASSUME NEW n \in 1 .. 4
        PROVE  n = 1 \/ n = 2 \/ n = 3 \/ n = 4
    OBVIOUS
  <2>2. /\ AfterAttempt(W, 1) = Backoff[1] + second
        /\ AfterAttempt(W, 2) = Backoff[2] + third
        /\ AfterAttempt(W, 3) = Backoff[3] + last
        /\ AfterAttempt(W, 4) = 0
    BY <1>3 DEF AfterAttempt
  <2> QED BY <1>1, <1>3, <2>1, <2>2
<1>6. Bounds(W)
  BY <1>2, <1>3, <1>4, <1>5 DEF Bounds
<1> QED BY <1>6, RunsEndInTime

=============================================================================
