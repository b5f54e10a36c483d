--------------------------- MODULE CircuitBreaker ---------------------------
(***************************************************************************)
(* The breaker that src/src/proxmoxClient.js keeps in two module-level     *)
(* variables and that every caller of the Proxmox API shares.  This module *)
(* holds its state and what one answer, one failure and one unit of time   *)
(* do to it; the modules that make calls EXTEND it.                        *)
(*                                                                         *)
(* Time is counted in units.  The code compares Date.now() with the        *)
(* instant circuitOpenUntil; only their difference matters, so the state   *)
(* keeps the time that is left, which also makes it finite.                *)
(***************************************************************************)
EXTENDS Naturals

CONSTANTS
    CIRCUIT_FAILURE_THRESHOLD,  \* failures in a row that open the circuit
    CIRCUIT_COOLDOWN,           \* CIRCUIT_COOLDOWN_MS in units of time
    MaxFailures                 \* bound: the counter saturates here

ASSUME BreakerAssumption ==
    /\ CIRCUIT_FAILURE_THRESHOLD \in Nat \ {0}
    /\ CIRCUIT_COOLDOWN \in Nat \ {0}
    /\ MaxFailures \in Nat
    /\ MaxFailures >= CIRCUIT_FAILURE_THRESHOLD

VARIABLES
    consecutiveFailures,
    cooldownLeft                \* circuitOpenUntil - Date.now(), or 0 if past

breakerVars == <<consecutiveFailures, cooldownLeft>>

BreakerTypeOK ==
    /\ consecutiveFailures \in 0 .. MaxFailures
    /\ cooldownLeft \in 0 .. CIRCUIT_COOLDOWN

BreakerInit ==
    /\ consecutiveFailures = 0
    /\ cooldownLeft = 0

CircuitIsOpen == cooldownLeft > 0

Saturated(n) == IF n < MaxFailures THEN n ELSE MaxFailures

-----------------------------------------------------------------------------

\* A plausible bug: a success clears the count but not the cooldown.
RecordSuccessKeepsCooldown ==
    /\ consecutiveFailures' = 0
    /\ UNCHANGED cooldownLeft

\* The response interceptor's success handler: any 2xx answer clears both,
\* whatever the state of the circuit and however old the call.
RecordSuccess ==
    /\ consecutiveFailures' = 0
    /\ cooldownLeft' = 0

\* A plausible bug: the circuit opens one failure late.
RecordFailureLate ==
    /\ consecutiveFailures' = Saturated(consecutiveFailures + 1)
    /\ cooldownLeft' = IF consecutiveFailures + 1 > CIRCUIT_FAILURE_THRESHOLD
                       THEN CIRCUIT_COOLDOWN
                       ELSE cooldownLeft

\* A plausible bug: one failure is enough to open the circuit.
RecordFailureAtOnce ==
    /\ consecutiveFailures' = Saturated(consecutiveFailures + 1)
    /\ cooldownLeft' = CIRCUIT_COOLDOWN

\* A plausible bug: a failure adds a cooldown to the one that is running.
RecordFailureExtends ==
    /\ consecutiveFailures' = Saturated(consecutiveFailures + 1)
    /\ cooldownLeft' = IF consecutiveFailures + 1 >= CIRCUIT_FAILURE_THRESHOLD
                       THEN cooldownLeft + CIRCUIT_COOLDOWN
                       ELSE cooldownLeft

\* The response interceptor's error handler: every error that is not the
\* breaker's own rejection counts, and from the threshold on every one of
\* them starts the cooldown afresh, an open circuit's included.
RecordFailure ==
    /\ consecutiveFailures' = Saturated(consecutiveFailures + 1)
    /\ cooldownLeft' = IF consecutiveFailures + 1 >= CIRCUIT_FAILURE_THRESHOLD
                       THEN CIRCUIT_COOLDOWN
                       ELSE cooldownLeft

\* One unit of time passes: Date.now() comes closer to circuitOpenUntil.
CooldownElapses ==
    /\ cooldownLeft' = IF CircuitIsOpen THEN cooldownLeft - 1 ELSE 0
    /\ UNCHANGED consecutiveFailures

-----------------------------------------------------------------------------

\* An open circuit has seen the threshold's worth of failures and no success
\* since: no interleaving of answers leaves the cooldown running on a count
\* that has been cleared (circuitIsOpen against consecutiveFailures).
OpenOnlyAfterFailures ==
    CircuitIsOpen => consecutiveFailures >= CIRCUIT_FAILURE_THRESHOLD

\* The refinement mapping onto the three states of the comment.
Mode ==
    IF CircuitIsOpen THEN "open"
    ELSE IF consecutiveFailures >= CIRCUIT_FAILURE_THRESHOLD THEN "halfOpen"
    ELSE "closed"

Strikes ==
    IF consecutiveFailures < CIRCUIT_FAILURE_THRESHOLD
    THEN consecutiveFailures
    ELSE CIRCUIT_FAILURE_THRESHOLD

Abstract == INSTANCE ThreeStateBreaker
    WITH Threshold <- CIRCUIT_FAILURE_THRESHOLD, mode <- Mode, strikes <- Strikes

\* Whoever shares the breaker, and in whatever order their answers come in, it
\* goes through the states of the comment only as the comment says: it opens
\* at the threshold, and leaves "open" by the cooldown or by an answer.
ActsAsThreeStateBreaker == Abstract!Spec

=============================================================================
