------------------------ MODULE CircuitBreakerProofs ------------------------
(***************************************************************************)
(* Facts about the breaker that hold whoever makes the calls: BreakerSpec   *)
(* lets answers, failures and time come in any order.  The modules that    *)
(* EXTEND CircuitBreaker implement it, whence their theorems follow.       *)
(***************************************************************************)
EXTENDS CircuitBreaker, TLAPS

\* What can happen to the breaker.
BreakerStep == RecordSuccess \/ RecordFailure \/ CooldownElapses

BreakerSpec == BreakerInit /\ [][BreakerStep]_breakerVars

\* What saturation does to the counter: it stays in its range, and it reaches
\* the threshold whenever the true count does.
LEMMA SaturatedCounts ==
    ASSUME NEW n \in 0 .. MaxFailures
    PROVE  /\ Saturated(n + 1) \in 0 .. MaxFailures
           /\ n + 1 >= CIRCUIT_FAILURE_THRESHOLD
                => Saturated(n + 1) >= CIRCUIT_FAILURE_THRESHOLD
           /\ n + 1 < CIRCUIT_FAILURE_THRESHOLD => Saturated(n + 1) = n + 1
BY BreakerAssumption DEF Saturated

\* The breaker's variables keep their types, and an open circuit its count,
\* under each thing that can happen to the breaker.
LEMMA BreakerSteps ==
    ASSUME BreakerTypeOK, OpenOnlyAfterFailures,
           [BreakerStep]_breakerVars
    PROVE  BreakerTypeOK' /\ OpenOnlyAfterFailures'
<1> USE DEF BreakerTypeOK, OpenOnlyAfterFailures, CircuitIsOpen
<1>1. CASE RecordSuccess
  BY <1>1, BreakerAssumption DEF RecordSuccess
<1>2. CASE RecordFailure
  BY <1>2, SaturatedCounts, BreakerAssumption DEF RecordFailure
<1>3. CASE CooldownElapses
  BY <1>3, BreakerAssumption DEF CooldownElapses
<1>4. CASE UNCHANGED breakerVars
  BY <1>4 DEF breakerVars
<1> QED BY <1>1, <1>2, <1>3, <1>4 DEF BreakerStep

-----------------------------------------------------------------------------
(* The refinement of ThreeStateBreaker.                                    *)

LEMMA BreakerStartsClosed == BreakerInit => Abstract!Init
BY BreakerAssumption
   DEF BreakerInit, Abstract!Init, Mode, Strikes, CircuitIsOpen

\* Each thing that can happen to the breaker is a step of the three-state
\* breaker, or leaves its state alone.
LEMMA BreakerRefines ==
    ASSUME BreakerTypeOK, OpenOnlyAfterFailures,
           [BreakerStep]_breakerVars
    PROVE  [Abstract!Next]_(Abstract!vars)
<1> USE BreakerAssumption DEF BreakerTypeOK
<1>1. CASE RecordSuccess
  <2>1. Abstract!Reset
    BY <1>1 DEF RecordSuccess, Abstract!Reset, Mode, Strikes, CircuitIsOpen
  <2> QED BY <2>1 DEF Abstract!Next
<1>2. CASE RecordFailure
  <2>1. CASE CircuitIsOpen
    <3>1. UNCHANGED <<Mode, Strikes>>
      BY <1>2, <2>1, SaturatedCounts
         DEF RecordFailure, OpenOnlyAfterFailures, Mode, Strikes, CircuitIsOpen
    <3> QED BY <3>1 DEF Abstract!vars
  <2>2. CASE ~CircuitIsOpen /\ consecutiveFailures + 1 < CIRCUIT_FAILURE_THRESHOLD
    <3>1. Abstract!Strike
      BY <1>2, <2>2, SaturatedCounts
         DEF RecordFailure, Abstract!Strike, Mode, Strikes, CircuitIsOpen
    <3> QED BY <3>1 DEF Abstract!Next
  <2>3. CASE ~CircuitIsOpen /\ consecutiveFailures + 1 >= CIRCUIT_FAILURE_THRESHOLD
    <3>1. Abstract!Trip
      BY <1>2, <2>3, SaturatedCounts
         DEF RecordFailure, Abstract!Trip, Mode, Strikes, CircuitIsOpen
    <3> QED BY <3>1 DEF Abstract!Next
  <2> QED BY <2>1, <2>2, <2>3
<1>3. CASE CooldownElapses
  <2>1. CASE cooldownLeft = 1
    <3>1. Abstract!Expire
      BY <1>3, <2>1
         DEF CooldownElapses, OpenOnlyAfterFailures, Abstract!Expire, Mode,
             Strikes, CircuitIsOpen
    <3> QED BY <3>1 DEF Abstract!Next
  <2>2. CASE cooldownLeft # 1
    <3>1. UNCHANGED <<Mode, Strikes>>
      BY <1>3, <2>2 DEF CooldownElapses, Mode, Strikes, CircuitIsOpen
    <3> QED BY <3>1 DEF Abstract!vars
  <2> QED BY <2>1, <2>2
<1>4. CASE UNCHANGED breakerVars
  BY <1>4 DEF breakerVars, Abstract!vars, Mode, Strikes, CircuitIsOpen
<1> QED BY <1>1, <1>2, <1>3, <1>4 DEF BreakerStep

-----------------------------------------------------------------------------

LEMMA BreakerInv == BreakerSpec => [](BreakerTypeOK /\ OpenOnlyAfterFailures)
<1>1. BreakerInit => BreakerTypeOK /\ OpenOnlyAfterFailures
  BY BreakerAssumption DEF BreakerInit, BreakerTypeOK, OpenOnlyAfterFailures,
                           CircuitIsOpen
<1> QED BY <1>1, BreakerSteps, PTL DEF BreakerSpec

\* An open circuit has the threshold's worth of failures on its count, in
\* whatever order answers, failures and the cooldown's end come.
THEOREM CountOutlivesCooldown == BreakerSpec => []OpenOnlyAfterFailures
BY BreakerInv, PTL

\* The two variables of the code are the three states of its comment, whoever
\* makes the calls.
THEOREM BreakerIsThreeState == BreakerSpec => ActsAsThreeStateBreaker
BY BreakerInv, BreakerStartsClosed, BreakerRefines, PTL
   DEF BreakerSpec, ActsAsThreeStateBreaker, Abstract!Spec

=============================================================================
