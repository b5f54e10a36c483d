-------------------------- MODULE ThreeStateBreaker --------------------------
(***************************************************************************)
(* What the comment at the head of the breaker in proxmoxClient.js         *)
(* promises, with no clock and no calls: a few failures in a row open the  *)
(* circuit, it stops rejecting after a while, the call let through then is *)
(* a trial, and a trial's outcome either closes the circuit for good or    *)
(* opens it again.  CircuitBreaker implements it, whoever calls it.      *)
(***************************************************************************)
EXTENDS Naturals

CONSTANT Threshold      \* a positive number

VARIABLES mode, strikes

vars == <<mode, strikes>>

Init ==
    /\ mode = "closed"
    /\ strikes = 0

\* A failure that does not open the circuit.
Strike ==
    /\ mode = "closed"
    /\ strikes + 1 < Threshold
    /\ strikes' = strikes + 1
    /\ UNCHANGED mode

\* The failure that opens it: the last one allowed, or a failed trial.
Trip ==
    /\ \/ mode = "closed" /\ strikes + 1 = Threshold
       \/ mode = "halfOpen"
    /\ mode' = "open"
    /\ strikes' = Threshold

\* The cooldown is over: calls pass again, on trial.
Expire ==
    /\ mode = "open"
    /\ mode' = "halfOpen"
    /\ UNCHANGED strikes

\* Proxmox answered.  From "open" too: the answer is that of a call sent
\* before the circuit opened.
Reset ==
    /\ mode' = "closed"
    /\ strikes' = 0

Next == Strike \/ Trip \/ Expire \/ Reset

Spec == Init /\ [][Next]_vars

\* The circuit does not stay open for ever unless it is opened again and again.
FairSpec == Spec /\ WF_vars(Expire)

=============================================================================
