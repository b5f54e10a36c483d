------------------------- MODULE ProxmoxClientProofs -------------------------
(***************************************************************************)
(* For every set of callers, every timeout, threshold and cooldown: the    *)
(* safety invariants of ProxmoxClient, and that its steps are steps of     *)
(* ThreeStateBreaker.  The inductive invariant is the conjunction of the   *)
(* three invariants and the type invariant.  OutageIsBounded is not        *)
(* inductive without StragglersPredateTheTrip, for a failure that restarts *)
(* the cooldown is that of a call older than the outage; and the           *)
(* refinement needs OpenOnlyAfterFailures.                                 *)
(***************************************************************************)
EXTENDS ProxmoxClient, CircuitBreakerProofs, TLAPS

IInv ==
    /\ TypeOK
    /\ OpenOnlyAfterFailures
    /\ StragglersPredateTheTrip
    /\ OutageIsBounded

\* Each action of a caller leaves the breaker in one of those ways.
LEMMA CallStepOnBreaker ==
    ASSUME NEW c \in Callers, CallStep(c)
    PROVE  RecordSuccess \/ RecordFailure \/ UNCHANGED breakerVars
BY DEF CallStep, Send, Reject, AnswerOk, Fails, Lose, TimesOut, vars, breakerVars

LEMMA InitIInv == Init => IInv
BY BreakerAssumption, TimeoutAssumption
   DEF Init, BreakerInit, IInv, TypeOK, BreakerTypeOK, OpenOnlyAfterFailures,
       StragglersPredateTheTrip, OutageIsBounded, OutageLimit, CircuitIsOpen,
       Pending

\* The arithmetic of a circuit that opens just now.
LEMMA ClosedWithinBound ==
    \A x, y \in Nat :
        x <= 0 /\ y <= CIRCUIT_COOLDOWN
            => x + y <= CIRCUIT_COOLDOWN + LongestTimeout
BY BreakerAssumption, TimeoutAssumption

\* A call that ends: everyone else's call is as old as it was, and the
\* outage, if one goes on, has lasted as long as before.
LEMMA EndedCall ==
    ASSUME IInv, NEW c \in Callers, Pending(c),
           RecordSuccess \/ RecordFailure, Watch(0), Ends(c)
    PROVE  IInv'
<1> USE DEF IInv
<1>1. BreakerTypeOK' /\ OpenOnlyAfterFailures'
  BY BreakerSteps DEF TypeOK, BreakerStep
<1>2. TypeOK'
  <2>1. openFor' \in Nat
    BY DEF TypeOK, Watch, CircuitIsOpen
  <2>2. /\ call' \in [Callers -> {"idle", "inFlight", "lost"}]
        /\ age' \in [Callers -> Nat]
    BY DEF TypeOK, Ends
  <2>3. ASSUME NEW d \in Callers PROVE age'[d] <= Timeout[d]
    <3>1. Timeout[d] \in Nat /\ age[d] <= Timeout[d]
      BY TimeoutAssumption DEF TypeOK
    <3>2. age'[d] = IF d = c THEN 0 ELSE age[d]
      BY DEF TypeOK, Ends
    <3> QED BY <3>1, <3>2
  <2>4. healthy' \in BOOLEAN
    BY Zenon DEF TypeOK, Ends
  <2> QED BY <1>1, <2>1, <2>2, <2>3, <2>4 DEF TypeOK
<1>3. StragglersPredateTheTrip'
  BY TimeoutAssumption
     DEF StragglersPredateTheTrip, TypeOK, Watch, Ends, Pending, CircuitIsOpen
<1>4. OutageIsBounded'
  <2>1. CASE RecordSuccess
    BY <2>1, BreakerAssumption, TimeoutAssumption
       DEF OutageIsBounded, OutageLimit, RecordSuccess, Watch, CircuitIsOpen
  <2>2. CASE RecordFailure /\ CircuitIsOpen
    <3>1. openFor <= age[c] /\ age[c] <= LongestTimeout
      BY <2>2, TimeoutAssumption DEF StragglersPredateTheTrip, TypeOK
    <3>2. openFor' = openFor /\ cooldownLeft' = CIRCUIT_COOLDOWN
      <4>1. cooldownLeft' = CIRCUIT_COOLDOWN
        BY <2>2, BreakerAssumption
           DEF RecordFailure, OpenOnlyAfterFailures, TypeOK, BreakerTypeOK
      <4> QED
        BY <4>1, <2>2, BreakerAssumption DEF Watch, CircuitIsOpen, TypeOK
    <3> QED
      BY <3>1, <3>2, BreakerAssumption, TimeoutAssumption
         DEF OutageIsBounded, OutageLimit, TypeOK
  <2>3. CASE RecordFailure /\ ~CircuitIsOpen
    <3>1. openFor' \in Nat /\ openFor' <= 0
      BY <2>3 DEF Watch
    <3>2. cooldownLeft' \in Nat /\ cooldownLeft' <= CIRCUIT_COOLDOWN
      BY <1>1, BreakerAssumption DEF BreakerTypeOK
    <3> QED
      BY <3>1, <3>2, ClosedWithinBound, Zenon DEF OutageIsBounded, OutageLimit
  <2> QED BY <2>1, <2>2, <2>3
<1> QED BY <1>1, <1>2, <1>3, <1>4

LEMMA CallStepKeepsIInv ==
    ASSUME IInv, NEW c \in Callers, CallStep(c)
    PROVE  IInv'
<1>1. CASE Send(c)
  BY <1>1, TimeoutAssumption
     DEF IInv, TypeOK, BreakerTypeOK, OpenOnlyAfterFailures, CircuitIsOpen,
         StragglersPredateTheTrip, OutageIsBounded, Pending, Send, breakerVars
<1>2. CASE Reject(c)
  BY <1>2
     DEF IInv, TypeOK, BreakerTypeOK, OpenOnlyAfterFailures, CircuitIsOpen,
         StragglersPredateTheTrip, OutageIsBounded, Pending, Reject, vars
<1>3. CASE AnswerOk(c)
  BY <1>3, EndedCall DEF AnswerOk, Pending
<1>4. CASE Fails(c)
  BY <1>4, EndedCall DEF Fails, Pending
<1>5. CASE Lose(c)
  BY <1>5, TimeoutAssumption
     DEF IInv, TypeOK, BreakerTypeOK, OpenOnlyAfterFailures, CircuitIsOpen,
         StragglersPredateTheTrip, OutageIsBounded, Pending, Lose, breakerVars
<1>6. CASE TimesOut(c)
  BY <1>6, EndedCall DEF TimesOut, Pending
<1> QED BY <1>1, <1>2, <1>3, <1>4, <1>5, <1>6 DEF CallStep

LEMMA TickKeepsIInv == IInv /\ Tick => IInv'
<1> SUFFICES ASSUME IInv, Tick PROVE IInv'
  OBVIOUS
<1> USE DEF IInv
<1>1. BreakerTypeOK' /\ OpenOnlyAfterFailures'
  BY BreakerSteps DEF Tick, TypeOK, BreakerStep
<1>2. TypeOK'
  BY <1>1, TimeoutAssumption DEF TypeOK, Tick, Watch, Pending
<1>3. StragglersPredateTheTrip'
  BY TimeoutAssumption
     DEF StragglersPredateTheTrip, TypeOK, Tick, Watch, Pending, CircuitIsOpen
<1>4. OutageIsBounded'
  BY BreakerAssumption, TimeoutAssumption
     DEF OutageIsBounded, OutageLimit, TypeOK, BreakerTypeOK, Tick, Watch,
         CooldownElapses,
         CircuitIsOpen
<1> QED BY <1>1, <1>2, <1>3, <1>4

LEMMA NextKeepsIInv == IInv /\ [Next]_vars => IInv'
<1> SUFFICES ASSUME IInv, [Next]_vars PROVE IInv'
  OBVIOUS
<1>1. CASE Tick
  BY <1>1, TickKeepsIInv
<1>2. CASE HealthChanges
  BY <1>2
     DEF IInv, TypeOK, BreakerTypeOK, OpenOnlyAfterFailures, CircuitIsOpen,
         StragglersPredateTheTrip, OutageIsBounded, Pending, HealthChanges,
         breakerVars
<1>3. CASE \E c \in Callers : CallStep(c)
  BY <1>3, CallStepKeepsIInv
<1>4. CASE UNCHANGED vars
  BY <1>4
     DEF IInv, TypeOK, BreakerTypeOK, OpenOnlyAfterFailures, CircuitIsOpen,
         StragglersPredateTheTrip, OutageIsBounded, Pending, vars
<1> QED BY <1>1, <1>2, <1>3, <1>4 DEF Next

LEMMA SpecIInv == Spec => []IInv
BY InitIInv, NextKeepsIInv, PTL DEF Spec

\* Every variable keeps its type; in particular no call outlives its timeout.
THEOREM ClientTypeOK == Spec => []TypeOK
BY SpecIInv, PTL DEF IInv

\* An open circuit has the threshold's worth of failures on its count.
THEOREM OpensOnlyAfterFailures == Spec => []OpenOnlyAfterFailures
BY SpecIInv, PTL DEF IInv

\* A circuit that rejects lets nobody through: whatever is still on the wire
\* was sent before it opened.
THEOREM NothingSentWhileOpen == Spec => []StragglersPredateTheTrip
BY SpecIInv, PTL DEF IInv

\* Stragglers cannot keep the circuit open beyond the cooldown plus the
\* longest timeout, for any number of callers and any timeouts.
THEOREM OutagesAreBounded == Spec => []OutageIsBounded
BY SpecIInv, PTL DEF IInv

-----------------------------------------------------------------------------
(* The refinement.                                                         *)

\* Whatever the callers do, it is one of the things that BreakerSpec allows.
LEMMA ClientUsesBreaker == Spec => BreakerSpec
<1>1. [Next]_vars => [BreakerStep]_breakerVars
  BY CallStepOnBreaker
     DEF Next, Tick, HealthChanges, vars, breakerVars, BreakerStep
<1> QED BY <1>1, PTL DEF Spec, Init, BreakerSpec

\* The client implements the breaker of the comment: closed, open, half-open
\* with trials, whatever its callers do.  (That an open circuit eventually
\* expires is checked by TLC.)
THEOREM ClientRefinesThreeStateBreaker == Spec => ActsAsThreeStateBreaker
BY ClientUsesBreaker, BreakerIsThreeState

=============================================================================
