---------------------------- MODULE ProxmoxClient ----------------------------
(***************************************************************************)
(* The shared axios client of src/src/proxmoxClient.js under concurrent    *)
(* callers: the two interceptors, the per-call timeout and the clock.      *)
(* A caller has at most one call pending; the portal's requests use the    *)
(* client's default timeout and the sync job a longer one, so timeouts     *)
(* both shorter and longer than the cooldown occur.                        *)
(*                                                                         *)
(* Proxmox is the environment.  While it is healthy it answers 2xx; while  *)
(* it is not, a call may be answered, fail at once, or be lost and end in  *)
(* its timeout.  It may change at any time, any number of times.           *)
(***************************************************************************)
EXTENDS CircuitBreaker

CONSTANTS
    Callers,
    Timeout,            \* [Callers -> units of time], the axios timeout
    LongestTimeout      \* no caller's timeout is longer

ASSUME TimeoutAssumption ==
    /\ Timeout \in [Callers -> Nat \ {0}]
    /\ LongestTimeout \in Nat
    /\ \A c \in Callers : Timeout[c] <= LongestTimeout

VARIABLES
    call,       \* [Callers -> "idle" | "inFlight" | "lost"]
    age,        \* [Callers -> units since the pending call was sent]
    healthy,    \* whether Proxmox works (environment)
    openFor     \* history: units since the circuit last stopped being closed

vars == <<consecutiveFailures, cooldownLeft, call, age, healthy, openFor>>

Pending(c) == call[c] # "idle"

TypeOK ==
    /\ BreakerTypeOK
    /\ call \in [Callers -> {"idle", "inFlight", "lost"}]
    /\ age \in [Callers -> Nat]
    /\ \A c \in Callers : age[c] <= Timeout[c]
    /\ healthy \in BOOLEAN
    /\ openFor \in Nat

Init ==
    /\ BreakerInit
    /\ call = [c \in Callers |-> "idle"]
    /\ age = [c \in Callers |-> 0]
    /\ healthy = TRUE
    /\ openFor = 0

\* No outage of the circuit should be longer.
OutageLimit == CIRCUIT_COOLDOWN + LongestTimeout

\* History: the circuit has been rejecting calls for so long without a break.
\* What exceeds the limit is not counted.
Watch(elapsed) ==
    LET longer == IF openFor <= OutageLimit THEN openFor + elapsed ELSE openFor
    IN  openFor' = IF CircuitIsOpen /\ CircuitIsOpen' THEN longer ELSE 0

-----------------------------------------------------------------------------

\* A plausible bug: the request interceptor does not look at the circuit.
SendUnchecked(c) ==
    /\ call[c] = "idle"
    /\ call' = [call EXCEPT ![c] = "inFlight"]
    /\ UNCHANGED <<breakerVars, age, healthy, openFor>>

\* The request interceptor lets the call through.
Send(c) ==
    /\ call[c] = "idle"
    /\ ~CircuitIsOpen
    /\ call' = [call EXCEPT ![c] = "inFlight"]
    /\ UNCHANGED <<breakerVars, age, healthy, openFor>>

\* A plausible bug: the response interceptor counts the breaker's own
\* rejections, so asking is enough to keep the circuit open.
RejectCounted(c) ==
    /\ call[c] = "idle"
    /\ CircuitIsOpen
    /\ RecordFailure
    /\ Watch(0)
    /\ UNCHANGED <<call, age, healthy>>

\* The request interceptor rejects: no call is made, and the error handler
\* rethrows the rejection before it touches the counter.
Reject(c) ==
    /\ call[c] = "idle"
    /\ CircuitIsOpen
    /\ UNCHANGED vars

Ends(c) ==
    /\ call' = [call EXCEPT ![c] = "idle"]
    /\ age' = [age EXCEPT ![c] = 0]
    /\ UNCHANGED healthy

AnswerOk(c) ==
    /\ call[c] = "inFlight"
    /\ RecordSuccess
    /\ Watch(0)
    /\ Ends(c)

\* The connection is refused or Proxmox answers with an error.
Fails(c) ==
    /\ call[c] = "inFlight"
    /\ ~healthy
    /\ RecordFailure
    /\ Watch(0)
    /\ Ends(c)

\* No answer will come.
Lose(c) ==
    /\ call[c] = "inFlight"
    /\ ~healthy
    /\ call' = [call EXCEPT ![c] = "lost"]
    /\ UNCHANGED <<breakerVars, age, healthy, openFor>>

TimesOut(c) ==
    /\ call[c] = "lost" \/ (call[c] = "inFlight" /\ ~healthy)
    /\ age[c] = Timeout[c]
    /\ RecordFailure
    /\ Watch(0)
    /\ Ends(c)

\* Time passes, but not past the instant at which a pending call times out.
Tick ==
    /\ \A c \in Callers : Pending(c) => age[c] < Timeout[c]
    /\ age' = [c \in Callers |-> IF Pending(c) THEN age[c] + 1 ELSE 0]
    /\ CooldownElapses
    /\ Watch(1)
    /\ UNCHANGED <<call, healthy>>

HealthChanges ==
    /\ healthy' = ~healthy
    /\ UNCHANGED <<breakerVars, call, age, openFor>>

CallStep(c) ==
    \/ Send(c)
    \/ Reject(c)
    \/ AnswerOk(c)
    \/ Fails(c)
    \/ Lose(c)
    \/ TimesOut(c)

Next == Tick \/ HealthChanges \/ (\E c \in Callers : CallStep(c))

Spec == Init /\ [][Next]_vars

(***************************************************************************)
(* Time passes, callers poll, and axios settles every call it has sent.    *)
(* Nothing is assumed about the health of Proxmox.                         *)
(***************************************************************************)
Settles(c) == AnswerOk(c) \/ Fails(c) \/ TimesOut(c)

Fairness ==
    /\ WF_vars(Tick)
    /\ \A c \in Callers : WF_vars(Send(c) \/ Reject(c)) /\ WF_vars(Settles(c))

FairSpec == Spec /\ Fairness

-----------------------------------------------------------------------------

\* While the circuit rejects, every call still on the wire was sent before it
\* opened: the request interceptor lets nothing through in between, however
\* often stragglers extend the cooldown meanwhile.
StragglersPredateTheTrip ==
    \A c \in Callers : CircuitIsOpen /\ Pending(c) => age[c] >= openFor

\* Stragglers may extend the cooldown, but not without end: from the moment
\* the circuit opens it rejects for at most the cooldown plus the longest
\* timeout, and then lets a trial through ("the first request after the
\* cooldown is a real trial call").
OutageIsBounded == openFor + cooldownLeft <= OutageLimit

\* Once Proxmox is healthy for good, the circuit closes for good, whatever
\* calls were on the wire, lost or rejected before ("if it succeeds, the
\* breaker fully resets").
Recovery == <>[]healthy => <>[]~CircuitIsOpen

\* The client implements the breaker the comment describes, the promise that
\* an open circuit eventually lets a trial through included.
ImplementsThreeStateBreaker == Abstract!FairSpec

\* README.md, "The circuit stays open for a 20s cooldown": once running, the
\* cooldown only ends by time.  The late success of a call that was sent
\* before the circuit opened ends it at once.
CooldownIsServed ==
    [][CircuitIsOpen => cooldownLeft' >= cooldownLeft - 1]_vars

=============================================================================
