------------------------- MODULE NodeFailoverProofs -------------------------
(***************************************************************************)
(* The safety of withNodeFailover for every number of VMs, nodes,          *)
(* concurrent requests, migrations and faults.                             *)
(*                                                                         *)
(* Each request has an invariant of its own, which mentions no other       *)
(* request: requests meet only in the breaker, the rows and the cluster,   *)
(* and of these only the cluster matters to it, and only in that a VM      *)
(* that is gone stays gone.  So a step has to be examined for the request  *)
(* that takes it; the others keep their invariant by lemma Bystander.      *)
(***************************************************************************)
EXTENDS NodeFailover, CircuitBreakerProofs, TLAPS

-----------------------------------------------------------------------------
(* The invariant of one request.                                           *)

\* A call is on the wire only while some step waits for it, except for the
\* rest of a Promise.all that has failed, which only a "read" has.
WireInv(r) ==
    /\ req[r].stage \in {"idle", "authorized"} => Quiet(r)
    /\ req[r].stage = "first" => wire[r]["retry"] = 0
    /\ req[r].stage = "resolve" => wire[r]["retry"] = 0
    /\ wire[r]["resolve"] = IF req[r].stage = "resolve" THEN 1 ELSE 0

\* What changes something is one call, and it is not sent again before the
\* first one is known to have done nothing.
OnceInv(r) ==
    /\ execs[r] <= 1
    /\ Mutating(req[r].kind) =>
        /\ wire[r]["first"] = IF req[r].stage = "first" THEN 1 ELSE 0
        /\ wire[r]["retry"] = IF req[r].stage = "retry" THEN 1 ELSE 0
        /\ req[r].stage \in {"authorized", "first", "resolve", "retry"}
            => execs[r] = 0

\* The nodes a request works with, and the one that served it.
NodeInv(r) ==
    /\ req[r].stage # "idle" => req[r].node \in Nodes
    /\ req[r].stage \in {"retry", "heal"} => req[r].freshNode \in Nodes
    /\ req[r].stage = "heal" => ranAt[r] = req[r].freshNode
    /\ req[r].stage = "done" /\ req[r].out = "ok" => req[r].served = ranAt[r]

\* Why a request was answered that its VM is missing.
GoneInv(r) ==
    req[r].stage = "done" /\ req[r].out = "vmNotFound"
        => place[req[r].vm] = Nowhere \/ blank[r]

RequestInv(r) == WireInv(r) /\ OnceInv(r) /\ NodeInv(r) /\ GoneInv(r)

IInv == TypeOK /\ \A r \in Requests : RequestInv(r)

-----------------------------------------------------------------------------
(* Steps of others.                                                        *)

Untouched(q) ==
    /\ req'[q] = req[q]
    /\ wire'[q] = wire[q]
    /\ execs'[q] = execs[q]
    /\ ranAt'[q] = ranAt[q]
    /\ blank'[q] = blank[q]

GoneStaysGone == \A v \in Vms : place[v] = Nowhere => place'[v] = Nowhere

\* A request that a step leaves alone keeps its invariant.
LEMMA Bystander ==
    ASSUME TypeOK, NEW q \in Requests, RequestInv(q), Untouched(q), GoneStaysGone
    PROVE  RequestInv(q)'
<1>1. WireInv(q)'
  BY DEF RequestInv, WireInv, Untouched, Quiet
<1>2. OnceInv(q)'
  BY DEF RequestInv, OnceInv, Untouched
<1>3. NodeInv(q)'
  BY DEF RequestInv, NodeInv, Untouched
<1>4. GoneInv(q)'
  BY DEF RequestInv, GoneInv, Untouched, GoneStaysGone, TypeOK, Request
<1> QED BY <1>1, <1>2, <1>3, <1>4 DEF RequestInv

\* Hence a step of one request has to be examined for that request only.
LEMMA StepOfOne ==
    ASSUME IInv, TypeOK', NEW r \in Requests, RequestInv(r)', GoneStaysGone,
           \A q \in Requests \ {r} : Untouched(q)
    PROVE  IInv'
BY Bystander DEF IInv

LEMMA CallsInRange ==
    \A k : /\ Calls(k) \in 1 .. 2
           /\ Mutating(k) => Calls(k) = 1
BY DEF Calls, Mutating

\* The ways in which a request's local state changes keep its type.
LEMMA RequestUpdates ==
    ASSUME NEW q \in Request
    PROVE  /\ \A s \in Stages : [q EXCEPT !.stage = s] \in Request
           /\ \A o \in Outcomes :
                [q EXCEPT !.stage = "done", !.out = o] \in Request
           /\ \A n \in Nodes :
                [q EXCEPT !.stage = "retry", !.freshNode = n] \in Request
           /\ \A n \in Nodes \cup {Nowhere} :
                [q EXCEPT !.stage = "done", !.out = "ok", !.served = n] \in Request
BY DEF Request, Stages, Outcomes

\* What it means for a request to finish with an outcome.
LEMMA FinishEffect ==
    ASSUME TypeOK, NEW r \in Requests, NEW o \in Outcomes, Finish(r, o)
    PROVE  /\ req' \in [Requests -> Request]
           /\ req'[r] = [req[r] EXCEPT !.stage = "done", !.out = o]
           /\ \A q \in Requests \ {r} : req'[q] = req[q]
<1>1. req[r] \in Request
  BY DEF TypeOK
<1>2. [req[r] EXCEPT !.stage = "done", !.out = o] \in Request
  BY <1>1, RequestUpdates
<1> QED BY <1>2 DEF TypeOK, Finish

\* Both outcomes of a call keep the breaker's types.
LEMMA BreakerKeepsType ==
    ASSUME BreakerTypeOK, RecordSuccess \/ RecordFailure
    PROVE  BreakerTypeOK'
<1>1. CASE RecordSuccess
  BY <1>1, BreakerAssumption DEF RecordSuccess, BreakerTypeOK
<1>2. CASE RecordFailure
  BY <1>2, SaturatedCounts, BreakerAssumption DEF RecordFailure, BreakerTypeOK
<1> QED BY <1>1, <1>2

-----------------------------------------------------------------------------

LEMMA InitIInv == Init => IInv
<1> SUFFICES ASSUME Init PROVE IInv
  OBVIOUS
<1>1. TypeOK
  BY BreakerAssumption, FailoverAssumption
     DEF Init, TypeOK, BreakerInit, BreakerTypeOK, Request, Stages, Outcomes,
         Silence, Legs, RunLegs
<1>2. ASSUME NEW r \in Requests PROVE RequestInv(r)
  BY DEF Init, RequestInv, WireInv, OnceInv, NodeInv, GoneInv, Quiet, Silence,
         Legs, RunLegs, Mutating
<1> QED BY <1>1, <1>2 DEF IInv

LEMMA EnvironmentKeepsIInv == IInv /\ Environment => IInv'
<1> SUFFICES ASSUME IInv, Environment PROVE IInv'
  OBVIOUS
<1>0. ASSUME TypeOK', GoneStaysGone, \A q \in Requests : Untouched(q)
      PROVE  IInv'
  BY <1>0, Bystander DEF IInv
<1>1. ASSUME NEW v \in Vms, NEW n \in Nodes, Migrate(v, n) PROVE IInv'
  <2>1. TypeOK'
    BY <1>1, FailoverAssumption
       DEF IInv, TypeOK, BreakerTypeOK, Migrate, breakerVars, historyVars
  <2>2. GoneStaysGone
    BY <1>1 DEF IInv, TypeOK, GoneStaysGone, Migrate
  <2>3. \A q \in Requests : Untouched(q)
    BY <1>1 DEF Untouched, Migrate, historyVars
  <2> QED BY <1>0, <2>1, <2>2, <2>3
<1>2. ASSUME NEW n \in Nodes, NodeFails(n) \/ NodeReturns(n) PROVE IInv'
  <2>1. TypeOK'
    BY <1>2, FailoverAssumption
       DEF IInv, TypeOK, BreakerTypeOK, NodeFails, NodeReturns, breakerVars,
           historyVars
  <2>2. GoneStaysGone /\ \A q \in Requests : Untouched(q)
    BY <1>2 DEF GoneStaysGone, Untouched, NodeFails, NodeReturns, historyVars
  <2> QED BY <1>0, <2>1, <2>2
<1>3. CASE OtherCall
  <2>1. BreakerTypeOK'
    BY <1>3, BreakerKeepsType DEF IInv, TypeOK, OtherCall
  <2>2. TypeOK'
    BY <1>3, <2>1, FailoverAssumption
       DEF IInv, TypeOK, OtherCall, clusterVars, historyVars
  <2>3. GoneStaysGone /\ \A q \in Requests : Untouched(q)
    BY <1>3 DEF GoneStaysGone, Untouched, OtherCall, clusterVars, historyVars
  <2> QED BY <1>0, <2>2, <2>3
<1>4. CASE TimePasses
  <2>1. BreakerTypeOK'
    BY <1>4, BreakerAssumption
       DEF IInv, TypeOK, BreakerTypeOK, TimePasses, CooldownElapses, CircuitIsOpen
  <2>2. TypeOK'
    BY <1>4, <2>1 DEF IInv, TypeOK, TimePasses, clusterVars, historyVars
  <2>3. GoneStaysGone /\ \A q \in Requests : Untouched(q)
    BY <1>4 DEF GoneStaysGone, Untouched, TimePasses, clusterVars, historyVars
  <2> QED BY <1>0, <2>2, <2>3
<1> QED BY <1>1, <1>2, <1>3, <1>4 DEF Environment

LEMMA AuthorizeKeepsIInv ==
    ASSUME IInv, NEW r \in Requests, NEW v \in Vms, NEW k \in Kinds,
           Authorize(r, v, k)
    PROVE  IInv'
<1>1. TypeOK'
  BY FailoverAssumption
     DEF IInv, TypeOK, BreakerTypeOK, Authorize, breakerVars, clusterVars,
         Request, Stages, Outcomes
<1>2. RequestInv(r)'
  BY FailoverAssumption
     DEF IInv, TypeOK, Authorize, RequestInv, WireInv, OnceInv, NodeInv,
         GoneInv, Quiet, Silence, Legs, RunLegs, Request
<1>3. GoneStaysGone /\ \A q \in Requests \ {r} : Untouched(q)
  BY DEF IInv, TypeOK, Authorize, GoneStaysGone, Untouched, clusterVars
<1> QED BY <1>1, <1>2, <1>3, StepOfOne

LEMMA SendFirstKeepsIInv ==
    ASSUME IInv, NEW r \in Requests, SendFirst(r)
    PROVE  IInv'
<1> USE DEF IInv
<1>1. req[r] \in Request /\ req[r].stage = "authorized"
  BY DEF TypeOK, SendFirst
<1>2. GoneStaysGone
  BY DEF GoneStaysGone, SendFirst, clusterVars
<1>3. CASE CircuitIsOpen
  <2>1. Finish(r, "circuitOpen") /\ wire' = wire
    BY <1>3 DEF SendFirst
  <2>2. /\ req' \in [Requests -> Request]
        /\ req'[r] = [req[r] EXCEPT !.stage = "done", !.out = "circuitOpen"]
        /\ \A q \in Requests \ {r} : req'[q] = req[q]
    BY <2>1, FinishEffect DEF Outcomes
  <2>3. TypeOK'
    BY <2>1, <2>2
       DEF TypeOK, BreakerTypeOK, SendFirst, breakerVars, clusterVars, historyVars
  <2>4. RequestInv(r)'
    BY <1>1, <2>1, <2>2
       DEF TypeOK, SendFirst, RequestInv, WireInv, OnceInv, NodeInv, GoneInv,
           Quiet, Silence, Legs, RunLegs, Request, historyVars
  <2>5. \A q \in Requests \ {r} : Untouched(q)
    BY <2>1, <2>2 DEF SendFirst, Untouched, historyVars
  <2> QED BY <1>2, <2>3, <2>4, <2>5, StepOfOne
<1>4. CASE ~CircuitIsOpen
  <2>1. /\ req' = [req EXCEPT ![r] = [req[r] EXCEPT !.stage = "first"]]
        /\ wire' = [wire EXCEPT ![r] =
                        [wire[r] EXCEPT !["first"] = Calls(req[r].kind)]]
    BY <1>4 DEF SendFirst
  <2>2. [req[r] EXCEPT !.stage = "first"] \in Request
    BY <1>1, RequestUpdates DEF Stages
  <2>3. wire' \in [Requests -> [Legs -> 0 .. 2]]
    BY <2>1, CallsInRange DEF TypeOK, Legs, RunLegs
  <2>4. TypeOK'
    BY <2>1, <2>2, <2>3
       DEF TypeOK, BreakerTypeOK, SendFirst, breakerVars, clusterVars, historyVars
  <2>5. RequestInv(r)'
    <3>1. /\ req'[r] = [req[r] EXCEPT !.stage = "first"]
          /\ wire'[r] = [Silence EXCEPT !["first"] = Calls(req[r].kind)]
          /\ execs'[r] = execs[r]
      BY <1>1, <2>1
         DEF TypeOK, RequestInv, WireInv, Quiet, SendFirst, historyVars
    <3> QED
      BY <1>1, <3>1, CallsInRange
         DEF RequestInv, WireInv, OnceInv, NodeInv, GoneInv, Quiet, Silence,
             Legs, RunLegs, Request
  <2>6. \A q \in Requests \ {r} : Untouched(q)
    BY <2>1 DEF TypeOK, SendFirst, Untouched, historyVars
  <2> QED BY <1>2, <2>4, <2>5, <2>6, StepOfOne
<1> QED BY <1>3, <1>4

LEMMA HealKeepsIInv ==
    ASSUME IInv, NEW r \in Requests, Heal(r)
    PROVE  IInv'
<1>1. req' \in [Requests -> Request]
  <2>1. req[r] \in Request /\ req[r].freshNode \in Nodes
    BY DEF IInv, TypeOK, RequestInv, NodeInv, Heal
  <2>2. [req[r] EXCEPT !.stage = "done", !.out = "ok",
                       !.served = req[r].freshNode] \in Request
    BY <2>1, RequestUpdates
  <2> QED BY <2>2 DEF IInv, TypeOK, Heal
<1>0. cache' \in [Vms -> Nodes]
  BY DEF IInv, TypeOK, RequestInv, NodeInv, Heal, Request
<1>2. TypeOK'
  BY <1>0, <1>1, FailoverAssumption
     DEF IInv, TypeOK, BreakerTypeOK, Heal, breakerVars, clusterVars, historyVars
<1>3. RequestInv(r)'
  BY DEF IInv, TypeOK, Heal, RequestInv, WireInv, OnceInv, NodeInv, GoneInv,
         Quiet, Request, historyVars
<1>4. GoneStaysGone /\ \A q \in Requests \ {r} : Untouched(q)
  BY DEF IInv, TypeOK, Heal, GoneStaysGone, Untouched, clusterVars, historyVars
<1> QED BY <1>2, <1>3, <1>4, StepOfOne

-----------------------------------------------------------------------------
(* Calls and their answers.                                                *)

\* An answer takes one call off the wire.
LEMMA AnsweredEffect ==
    ASSUME TypeOK, NEW r \in Requests, NEW leg \in Legs, wire[r][leg] > 0,
           Answered(r, leg)
    PROVE  /\ wire' \in [Requests -> [Legs -> 0 .. 2]]
           /\ wire'[r] = [wire[r] EXCEPT ![leg] = wire[r][leg] - 1]
           /\ \A q \in Requests \ {r} : wire'[q] = wire[q]
<1>1. wire[r] \in [Legs -> 0 .. 2] /\ wire[r][leg] \in 1 .. 2
  BY DEF TypeOK
<1>2. [wire[r] EXCEPT ![leg] = wire[r][leg] - 1] \in [Legs -> 0 .. 2]
  BY <1>1
<1> QED BY <1>1, <1>2 DEF TypeOK, Answered

\* What carrying a call out does to the history and to the cluster.
LEMMA ExecutesEffect ==
    ASSUME TypeOK, NEW r \in Requests, NEW leg \in RunLegs,
           Executes(r, leg) \/ UNCHANGED <<place, historyVars>>
    PROVE  /\ place' \in [Vms -> Nodes \cup {Nowhere}]
           /\ GoneStaysGone
           /\ execs' \in [Requests -> Nat]
           /\ execs'[r] <= execs[r] + 1
           /\ ~Mutating(req[r].kind) => execs'[r] = execs[r]
           /\ ranAt' \in [Requests -> Nodes \cup {Nowhere}]
           /\ ~Awaited(r, leg) => ranAt'[r] = ranAt[r]
           /\ \A q \in Requests \ {r} :
                execs'[q] = execs[q] /\ ranAt'[q] = ranAt[q]
           /\ blank' = blank
<1>1. CASE UNCHANGED <<place, historyVars>>
  <2>1. place' = place /\ execs' = execs /\ ranAt' = ranAt /\ blank' = blank
    BY <1>1 DEF historyVars
  <2>2. GoneStaysGone
    BY <2>1 DEF GoneStaysGone
  <2>3. /\ place' \in [Vms -> Nodes \cup {Nowhere}]
        /\ execs' \in [Requests -> Nat]
        /\ ranAt' \in [Requests -> Nodes \cup {Nowhere}]
    BY <2>1 DEF TypeOK
  <2>4. execs[r] \in Nat /\ execs[r] <= execs[r] + 1
    BY DEF TypeOK
  <2>5. \A q \in Requests : execs'[q] = execs[q] /\ ranAt'[q] = ranAt[q]
    BY <2>1
  <2> QED BY <2>1, <2>2, <2>3, <2>4, <2>5
<1>2. CASE Executes(r, leg)
  <2>1. NodeOf(r, leg) \in Nodes \cup {Nowhere} /\ req[r].vm \in Vms
    BY DEF TypeOK, Request, NodeOf
  <2>2. place' \in [Vms -> Nodes \cup {Nowhere}] /\ GoneStaysGone
    BY <1>2, <2>1 DEF TypeOK, Executes, GoneStaysGone
  <2>3. /\ execs' \in [Requests -> Nat]
        /\ execs'[r] <= execs[r] + 1
        /\ ~Mutating(req[r].kind) => execs'[r] = execs[r]
        /\ \A q \in Requests \ {r} : execs'[q] = execs[q]
    <3>1. CASE Mutating(req[r].kind)
      BY <1>2, <3>1 DEF TypeOK, Executes
    <3>2. CASE ~Mutating(req[r].kind)
      <4>1. execs' = execs
        BY <1>2, <3>2, Zenon DEF Executes
      <4>2. execs' \in [Requests -> Nat]
        BY <4>1 DEF TypeOK
      <4>3. execs[r] \in Nat /\ execs[r] <= execs[r] + 1
        BY DEF TypeOK
      <4>4. \A q \in Requests : execs'[q] = execs[q]
        BY <4>1
      <4> QED BY <4>2, <4>3, <4>4
    <3> QED BY <3>1, <3>2
  <2>4. /\ ranAt' \in [Requests -> Nodes \cup {Nowhere}]
        /\ ~Awaited(r, leg) => ranAt'[r] = ranAt[r]
        /\ \A q \in Requests \ {r} : ranAt'[q] = ranAt[q]
    <3>1. CASE Awaited(r, leg)
      BY <1>2, <2>1, <3>1 DEF TypeOK, Executes
    <3>2. CASE ~Awaited(r, leg)
      BY <1>2, <3>2 DEF TypeOK, Executes
    <3> QED BY <3>1, <3>2
  <2>5. blank' = blank
    BY <1>2 DEF Executes
  <2> QED BY <2>2, <2>3, <2>4, <2>5
<1> QED BY <1>1, <1>2

\* What changes something has one call on the wire while it waits for a run,
\* and the answer to it is awaited.
LEMMA MutatingIsAwaited ==
    ASSUME IInv, NEW r \in Requests, NEW leg \in RunLegs,
           Mutating(req[r].kind), wire[r][leg] > 0
    PROVE  Awaited(r, leg) /\ wire[r][leg] = 1 /\ execs[r] = 0
BY DEF IInv, RequestInv, OnceInv, Awaited, RunLegs

LEMMA RunOkKeepsIInv ==
    ASSUME IInv, NEW r \in Requests, NEW leg \in RunLegs, RunOk(r, leg)
    PROVE  IInv'
<1>1. /\ TypeOK
      /\ wire[r][leg] > 0
      /\ Executes(r, leg)
      /\ leg \in Legs
  BY DEF IInv, RunOk, Legs
<1>2. /\ wire' \in [Requests -> [Legs -> 0 .. 2]]
      /\ wire'[r] = [wire[r] EXCEPT ![leg] = wire[r][leg] - 1]
      /\ \A q \in Requests \ {r} : wire'[q] = wire[q]
  BY <1>1, AnsweredEffect DEF RunOk
<1>3. /\ place' \in [Vms -> Nodes \cup {Nowhere}]
      /\ GoneStaysGone
      /\ execs' \in [Requests -> Nat]
      /\ execs'[r] <= execs[r] + 1
      /\ ~Mutating(req[r].kind) => execs'[r] = execs[r]
      /\ ranAt' \in [Requests -> Nodes \cup {Nowhere}]
      /\ ~Awaited(r, leg) => ranAt'[r] = ranAt[r]
      /\ \A q \in Requests \ {r} :
           execs'[q] = execs[q] /\ ranAt'[q] = ranAt[q]
      /\ blank' = blank
  BY <1>1, ExecutesEffect
<1>4. Awaited(r, leg) => ranAt'[r] = NodeOf(r, leg)
  BY <1>1 DEF Executes, TypeOK
<1>5. req[r] \in Request /\ req[r].node \in Nodes \cup {Nowhere}
  BY <1>1 DEF TypeOK, Request
<1>6. req' \in [Requests -> Request] /\ \A q \in Requests \ {r} : req'[q] = req[q]
  <2>1. /\ [req[r] EXCEPT !.stage = "heal"] \in Request
        /\ [req[r] EXCEPT !.stage = "done", !.out = "ok",
                          !.served = req[r].node] \in Request
    BY <1>5, RequestUpdates DEF Stages
  <2> QED BY <1>1, <2>1 DEF TypeOK, RunOk
<1>7. TypeOK'
  <2>1. BreakerTypeOK'
    BY <1>1, BreakerKeepsType DEF TypeOK, RunOk
  <2> QED BY <1>1, <1>2, <1>3, <1>6, <2>1 DEF TypeOK, RunOk
<1>8. RequestInv(r)'
  <2>1. RequestInv(r) /\ wire[r] \in [Legs -> 0 .. 2] /\ execs[r] \in Nat
    BY <1>1 DEF IInv, TypeOK
  <2>2. CASE req' = req /\ (~Awaited(r, leg) \/ wire[r][leg] > 1)
    <3>1. ~Mutating(req[r].kind)
      BY <1>1, <2>2, MutatingIsAwaited
    <3>2. ~Awaited(r, leg) \/ req[r].stage \in {"first", "retry"}
      BY DEF Awaited, RunLegs
    <3> QED
      BY <1>1, <1>2, <1>3, <2>1, <2>2, <3>1, <3>2
         DEF RequestInv, WireInv, OnceInv, NodeInv, GoneInv, GoneStaysGone,
             Quiet, Silence, Legs, RunLegs, TypeOK, Request
  <2>3. CASE /\ leg = "first" /\ Awaited(r, leg) /\ wire[r][leg] = 1
             /\ req'[r] = [req[r] EXCEPT !.stage = "done", !.out = "ok",
                                         !.served = req[r].node]
    BY <1>2, <1>3, <1>4, <1>5, <2>1, <2>3
       DEF RequestInv, WireInv, OnceInv, NodeInv, GoneInv, Quiet, Silence,
           Legs, RunLegs, Awaited, NodeOf, Request
  <2>4. CASE /\ leg = "retry" /\ Awaited(r, leg) /\ wire[r][leg] = 1
             /\ req'[r] = [req[r] EXCEPT !.stage = "heal"]
    BY <1>2, <1>3, <1>4, <1>5, <2>1, <2>4
       DEF RequestInv, WireInv, OnceInv, NodeInv, GoneInv, Quiet, Silence,
           Legs, RunLegs, Awaited, NodeOf, Request
  <2> QED BY <1>1, <2>2, <2>3, <2>4 DEF RunOk, TypeOK
<1>9. \A q \in Requests \ {r} : Untouched(q)
  BY <1>2, <1>3, <1>6 DEF Untouched
<1> QED BY <1>3, <1>7, <1>8, <1>9, StepOfOne

\* A failed call: what CallFails does to the request that made it, given what
\* the call did to the history and the cluster.
LEMMA CallFailsKeepsIInv ==
    ASSUME IInv, NEW r \in Requests, NEW leg \in RunLegs, NEW error,
           CallFails(r, leg, error),
           Executes(r, leg) \/ UNCHANGED <<place, historyVars>>,
           Executes(r, leg) => ~LooksLikeWrongNode(error),
           down' \in SUBSET Nodes, cache' = cache, moves' = moves,
           faults' \in 0 .. MaxFaults
    PROVE  IInv'
<1>1. /\ TypeOK
      /\ wire[r][leg] > 0
      /\ leg \in Legs
      /\ req[r] \in Request
      /\ wire[r] \in [Legs -> 0 .. 2]
      /\ execs[r] \in Nat
      /\ RequestInv(r)
  BY DEF IInv, TypeOK, CallFails, Legs
<1>2. /\ place' \in [Vms -> Nodes \cup {Nowhere}]
      /\ GoneStaysGone
      /\ execs' \in [Requests -> Nat]
      /\ execs'[r] <= execs[r] + 1
      /\ ~Mutating(req[r].kind) => execs'[r] = execs[r]
      /\ ranAt' \in [Requests -> Nodes \cup {Nowhere}]
      /\ ~Awaited(r, leg) => ranAt'[r] = ranAt[r]
      /\ \A q \in Requests \ {r} :
           execs'[q] = execs[q] /\ ranAt'[q] = ranAt[q]
      /\ blank' = blank
  BY <1>1, ExecutesEffect
<1>3. BreakerTypeOK'
  BY <1>1, BreakerKeepsType DEF TypeOK, CallFails
<1>4. SUFFICES
        /\ req' \in [Requests -> Request]
        /\ wire' \in [Requests -> [Legs -> 0 .. 2]]
        /\ \A q \in Requests \ {r} : req'[q] = req[q] /\ wire'[q] = wire[q]
        /\ RequestInv(r)'
  <2>1. ASSUME req' \in [Requests -> Request],
               wire' \in [Requests -> [Legs -> 0 .. 2]]
        PROVE  TypeOK'
    BY <1>1, <1>2, <1>3, <2>1 DEF TypeOK
  <2> QED BY <1>2, <2>1, StepOfOne DEF Untouched
<1>5. ASSUME NEW o \in Outcomes \ {"ok", "vmNotFound"},
             Awaited(r, leg), Answered(r, leg), Finish(r, o)
      PROVE  /\ req' \in [Requests -> Request]
             /\ wire' \in [Requests -> [Legs -> 0 .. 2]]
             /\ \A q \in Requests \ {r} : req'[q] = req[q] /\ wire'[q] = wire[q]
             /\ RequestInv(r)'
  <2>1. /\ req' \in [Requests -> Request]
        /\ req'[r] = [req[r] EXCEPT !.stage = "done", !.out = o]
        /\ \A q \in Requests \ {r} : req'[q] = req[q]
    BY <1>1, <1>5, FinishEffect
  <2>2. /\ wire' \in [Requests -> [Legs -> 0 .. 2]]
        /\ wire'[r] = [wire[r] EXCEPT ![leg] = wire[r][leg] - 1]
        /\ \A q \in Requests \ {r} : wire'[q] = wire[q]
    BY <1>1, <1>5, AnsweredEffect
  <2>3. RequestInv(r)'
    BY <1>1, <1>2, <1>5, <2>1, <2>2
       DEF RequestInv, WireInv, OnceInv, NodeInv, GoneInv, Quiet, Silence, Legs,
           RunLegs, Awaited, Request
  <2> QED BY <2>1, <2>2, <2>3
<1>6. CASE ~Awaited(r, leg) /\ Answered(r, leg) /\ req' = req
  <2>1. /\ wire' \in [Requests -> [Legs -> 0 .. 2]]
        /\ wire'[r] = [wire[r] EXCEPT ![leg] = wire[r][leg] - 1]
        /\ \A q \in Requests \ {r} : wire'[q] = wire[q]
    BY <1>1, <1>6, AnsweredEffect
  <2>2. ~Mutating(req[r].kind)
    BY <1>1, <1>6, MutatingIsAwaited
  <2>3. RequestInv(r)'
    BY <1>1, <1>2, <1>6, <2>1, <2>2
       DEF RequestInv, WireInv, OnceInv, NodeInv, GoneInv, GoneStaysGone, Quiet,
           Silence, Legs, RunLegs, Awaited, Request
  <2> QED BY <1>1, <1>6, <2>1, <2>3 DEF TypeOK
<1>7. CASE Awaited(r, leg) /\ Answered(r, leg) /\ Finish(r, "error")
  BY <1>5, <1>7 DEF Outcomes
<1>8. CASE /\ Awaited(r, leg)
           /\ Answered(r, leg)
           /\ Finish(r, "clusterUnreadable")
  BY <1>5, <1>8 DEF Outcomes
<1>9. CASE /\ Awaited(r, leg)
           /\ leg = "first"
           /\ LooksLikeWrongNode(error)
           /\ wire' = [wire EXCEPT ![r][leg] = @ - 1, ![r]["resolve"] = 1]
           /\ req' = [req EXCEPT ![r].stage = "resolve"]
  <2>1. [req[r] EXCEPT !.stage = "resolve"] \in Request
    BY <1>1, RequestUpdates DEF Stages
  <2>2. /\ req' \in [Requests -> Request]
        /\ req'[r] = [req[r] EXCEPT !.stage = "resolve"]
        /\ \A q \in Requests \ {r} : req'[q] = req[q]
    BY <1>1, <1>9, <2>1 DEF TypeOK
  <2>3. wire[r]["first"] - 1 \in 0 .. 2
    BY <1>1, <1>9
  <2>4. /\ wire' \in [Requests -> [Legs -> 0 .. 2]]
        /\ wire'[r] = [wire[r] EXCEPT !["first"] = wire[r]["first"] - 1,
                                      !["resolve"] = 1]
        /\ \A q \in Requests \ {r} : wire'[q] = wire[q]
    BY <1>1, <1>9, <2>3 DEF TypeOK, Legs, RunLegs
  <2>5. execs' = execs /\ ranAt' = ranAt
    BY <1>9 DEF historyVars
  <2>6. RequestInv(r)'
    BY <1>1, <1>9, <2>2, <2>4, <2>5
       DEF RequestInv, WireInv, OnceInv, NodeInv, GoneInv, Quiet, Silence, Legs,
           RunLegs, Awaited, Request
  <2> QED BY <2>2, <2>4, <2>6
<1> QED BY <1>6, <1>7, <1>8, <1>9 DEF CallFails

LEMMA CallSettlesKeepsIInv ==
    ASSUME IInv, NEW r \in Requests, NEW leg \in RunLegs, CallSettles(r, leg)
    PROVE  IInv'
<1>1. CASE RunOk(r, leg)
  BY <1>1, RunOkKeepsIInv
<1>2. CASE WrongNode(r, leg)
  <2>1. CallFails(r, leg, "wrongNode") /\ ~Executes(r, leg)
    BY <1>2 DEF WrongNode, Executes
  <2>2. /\ UNCHANGED <<place, historyVars>>
        /\ down' \in SUBSET Nodes /\ cache' = cache /\ moves' = moves
        /\ faults' \in 0 .. MaxFaults
    BY <1>2 DEF IInv, TypeOK, WrongNode, clusterVars
  <2> QED BY <2>1, <2>2, CallFailsKeepsIInv
<1>3. CASE NodeIsDown(r, leg)
  <2>1. PICK error \in {"wrongNode", "noRoute"} : CallFails(r, leg, error)
    BY <1>3 DEF NodeIsDown
  <2>2. ~Executes(r, leg)
    BY <1>3 DEF NodeIsDown, Executes
  <2>3. /\ UNCHANGED <<place, historyVars>>
        /\ down' \in SUBSET Nodes /\ cache' = cache /\ moves' = moves
        /\ faults' \in 0 .. MaxFaults
    BY <1>3 DEF IInv, TypeOK, NodeIsDown, clusterVars
  <2> QED BY <2>1, <2>2, <2>3, CallFailsKeepsIInv
<1>4. CASE CallTimesOut(r, leg)
  <2>1. CallFails(r, leg, "timeout") /\ ~LooksLikeWrongNode("timeout")
    BY <1>4 DEF CallTimesOut, LooksLikeWrongNode
  <2>2. /\ Executes(r, leg) \/ UNCHANGED <<place, historyVars>>
        /\ down' \in SUBSET Nodes /\ cache' = cache /\ moves' = moves
        /\ faults' \in 0 .. MaxFaults
    BY <1>4, FailoverAssumption DEF IInv, TypeOK, CallTimesOut
  <2> QED BY <2>1, <2>2, CallFailsKeepsIInv
<1> QED BY <1>1, <1>2, <1>3, <1>4 DEF CallSettles

\* What a lookup that succeeds can lead to, whatever it was answered with.
LEMMA ResolveOkCases ==
    ASSUME TypeOK, NEW r \in Requests, req[r].node \in Nodes, ResolveOk(r)
    PROVE  /\ \/ /\ place[req[r].vm] = Nowhere \/ blank'[r]
                 /\ Finish(r, "vmNotFound")
                 /\ Answered(r, "resolve")
              \/ /\ Finish(r, "nodeUnreachable")
                 /\ Answered(r, "resolve")
                 /\ blank' = blank
              \/ /\ place[req[r].vm] \notin {Nowhere, req[r].node}
                 /\ req' = [req EXCEPT ![r].stage = "retry",
                                       ![r].freshNode = place[req[r].vm]]
                 /\ wire' = [wire EXCEPT ![r]["resolve"] = 0,
                                         ![r]["retry"] = Calls(req[r].kind)]
                 /\ blank' = blank
           /\ blank' \in [Requests -> BOOLEAN]
           /\ \A q \in Requests \ {r} : blank'[q] = blank[q]
           /\ faults' \in 0 .. MaxFaults
<1>1. /\ NodeForVmid(req[r].vm, Listed) = place[req[r].vm]
      /\ NodeForVmid(req[r].vm, {}) = Nowhere
  BY DEF TypeOK, Request, NodeForVmid, Listed
<1>2. CASE GoesOnAt(r, place[req[r].vm]) /\ UNCHANGED <<blank, faults>>
  BY <1>2 DEF TypeOK, GoesOnAt
<1>3. CASE /\ faults < MaxFaults
           /\ faults' = faults + 1
           /\ blank' = [blank EXCEPT ![r] = TRUE]
           /\ GoesOnAt(r, Nowhere)
  <2>1. blank' \in [Requests -> BOOLEAN] /\ blank'[r]
    BY <1>3 DEF TypeOK
  <2> QED BY <1>3, <2>1, FailoverAssumption DEF TypeOK, GoesOnAt
<1> QED BY <1>1, <1>2, <1>3 DEF ResolveOk

LEMMA ResolveKeepsIInv ==
    ASSUME IInv, NEW r \in Requests, ResolveOk(r) \/ ResolveFails(r)
    PROVE  IInv'
<1>1. /\ TypeOK
      /\ wire[r]["resolve"] > 0
      /\ "resolve" \in Legs
      /\ req[r] \in Request
      /\ wire[r] \in [Legs -> 0 .. 2]
      /\ RequestInv(r)
      /\ req[r].stage = "resolve"
      /\ wire[r]["resolve"] = 1
      /\ req[r].node \in Nodes
  <2>1. TypeOK /\ wire[r]["resolve"] > 0 /\ "resolve" \in Legs /\ RequestInv(r)
    BY DEF IInv, ResolveOk, ResolveFails, Legs
  <2>2. req[r] \in Request /\ wire[r] \in [Legs -> 0 .. 2]
    BY <2>1 DEF TypeOK
  <2>3. req[r].stage = "resolve" /\ wire[r]["resolve"] = 1 /\ req[r].node \in Nodes
    BY <2>1 DEF RequestInv, WireInv, NodeInv
  <2> QED BY <2>1, <2>2, <2>3
<1>2. /\ place' = place /\ down' = down /\ moves' = moves /\ cache' = cache
      /\ execs' = execs /\ ranAt' = ranAt /\ faults' \in 0 .. MaxFaults
      /\ blank' \in [Requests -> BOOLEAN]
      /\ \A q \in Requests \ {r} : blank'[q] = blank[q]
  <2>1. CASE ResolveOk(r)
    BY <1>1, <2>1, ResolveOkCases DEF ResolveOk, clusterVars
  <2>2. CASE ResolveFails(r)
    BY <1>1, <2>2, FailoverAssumption
       DEF TypeOK, ResolveFails, clusterVars, historyVars
  <2> QED BY <2>1, <2>2
<1>3. BreakerTypeOK'
  BY <1>1, BreakerKeepsType DEF TypeOK, ResolveOk, ResolveFails
<1>4. SUFFICES
        /\ req' \in [Requests -> Request]
        /\ wire' \in [Requests -> [Legs -> 0 .. 2]]
        /\ \A q \in Requests \ {r} : req'[q] = req[q] /\ wire'[q] = wire[q]
        /\ RequestInv(r)'
  <2>1. ASSUME req' \in [Requests -> Request],
               wire' \in [Requests -> [Legs -> 0 .. 2]]
        PROVE  TypeOK'
    BY <1>1, <1>2, <1>3, <2>1 DEF TypeOK
  <2>2. GoneStaysGone
    BY <1>2 DEF GoneStaysGone
  <2> QED BY <1>2, <2>1, <2>2, StepOfOne DEF Untouched
<1>5. ASSUME NEW o \in Outcomes \ {"ok"}, Answered(r, "resolve"), Finish(r, o),
             o = "vmNotFound" => place[req[r].vm] = Nowhere \/ blank'[r]
      PROVE  /\ req' \in [Requests -> Request]
             /\ wire' \in [Requests -> [Legs -> 0 .. 2]]
             /\ \A q \in Requests \ {r} : req'[q] = req[q] /\ wire'[q] = wire[q]
             /\ RequestInv(r)'
  <2>1. /\ req' \in [Requests -> Request]
        /\ req'[r] = [req[r] EXCEPT !.stage = "done", !.out = o]
        /\ \A q \in Requests \ {r} : req'[q] = req[q]
    BY <1>1, <1>5, FinishEffect
  <2>2. /\ wire' \in [Requests -> [Legs -> 0 .. 2]]
        /\ wire'[r] = [wire[r] EXCEPT !["resolve"] = 0]
        /\ \A q \in Requests \ {r} : wire'[q] = wire[q]
    BY <1>1, <1>5, AnsweredEffect
  <2>3. RequestInv(r)'
    BY <1>1, <1>2, <1>5, <2>1, <2>2
       DEF RequestInv, WireInv, OnceInv, NodeInv, GoneInv, Quiet, Silence, Legs,
           RunLegs, Request
  <2> QED BY <2>1, <2>2, <2>3
<1>6. CASE ResolveFails(r)
  BY <1>5, <1>6 DEF ResolveFails, Outcomes
<1>7. CASE /\ place[req[r].vm] = Nowhere \/ blank'[r]
           /\ Finish(r, "vmNotFound")
           /\ Answered(r, "resolve")
  BY <1>5, <1>7 DEF Outcomes
<1>8. CASE Finish(r, "nodeUnreachable") /\ Answered(r, "resolve")
  BY <1>5, <1>8 DEF Outcomes
<1>9. CASE
        /\ place[req[r].vm] \notin {Nowhere, req[r].node}
        /\ req' = [req EXCEPT ![r].stage = "retry",
                              ![r].freshNode = place[req[r].vm]]
        /\ wire' = [wire EXCEPT ![r]["resolve"] = 0,
                                ![r]["retry"] = Calls(req[r].kind)]
  <2>1. place[req[r].vm] \in Nodes
    BY <1>1, <1>9 DEF TypeOK, Request
  <2>2. [req[r] EXCEPT !.stage = "retry", !.freshNode = place[req[r].vm]]
            \in Request
    BY <1>1, <2>1, RequestUpdates
  <2>3. /\ req' \in [Requests -> Request]
        /\ req'[r] = [req[r] EXCEPT !.stage = "retry",
                                    !.freshNode = place[req[r].vm]]
        /\ \A q \in Requests \ {r} : req'[q] = req[q]
    BY <1>1, <1>9, <2>2 DEF TypeOK
  <2>4. /\ wire' \in [Requests -> [Legs -> 0 .. 2]]
        /\ wire'[r] = [wire[r] EXCEPT !["resolve"] = 0,
                                      !["retry"] = Calls(req[r].kind)]
        /\ \A q \in Requests \ {r} : wire'[q] = wire[q]
    BY <1>1, <1>9, CallsInRange DEF TypeOK, Legs, RunLegs
  <2>5. RequestInv(r)'
    BY <1>1, <1>2, <2>1, <2>3, <2>4, CallsInRange
       DEF RequestInv, WireInv, OnceInv, NodeInv, GoneInv, Quiet, Silence, Legs,
           RunLegs, Request
  <2> QED BY <2>3, <2>4, <2>5
<1> QED BY <1>1, <1>6, <1>7, <1>8, <1>9, ResolveOkCases

LEMMA StutteringKeepsIInv == IInv /\ UNCHANGED vars => IInv'
<1> SUFFICES ASSUME IInv, UNCHANGED vars PROVE IInv'
  OBVIOUS
<1>1. TypeOK'
  BY DEF IInv, TypeOK, BreakerTypeOK, vars
<1>2. GoneStaysGone /\ \A q \in Requests : Untouched(q)
  BY DEF GoneStaysGone, Untouched, vars
<1> QED BY <1>1, <1>2, Bystander DEF IInv

LEMMA NextKeepsIInv == IInv /\ [Next]_vars => IInv'
<1> SUFFICES ASSUME IInv, [Next]_vars PROVE IInv'
  OBVIOUS
<1>1. CASE Environment
  BY <1>1, EnvironmentKeepsIInv
<1>2. ASSUME NEW r \in Requests, RequestStep(r) PROVE IInv'
  BY <1>2, AuthorizeKeepsIInv, SendFirstKeepsIInv, CallSettlesKeepsIInv,
     ResolveKeepsIInv, HealKeepsIInv
     DEF RequestStep
<1>3. CASE UNCHANGED vars
  BY <1>3, StutteringKeepsIInv
<1> QED BY <1>1, <1>2, <1>3 DEF Next

LEMMA SpecIInv == Spec => []IInv
BY InitIInv, NextKeepsIInv, PTL DEF Spec

-----------------------------------------------------------------------------

\* Every variable keeps its type; in particular a row only ever names a node.
THEOREM FailoverTypeOK == Spec => []TypeOK
BY SpecIInv, PTL DEF IInv

\* No migration, timeout, node failure or open circuit makes withNodeFailover
\* carry out a power action, a console request or a deletion twice.
THEOREM NothingRunsTwice == Spec => []AtMostOneExecution
<1>1. IInv => AtMostOneExecution
  BY DEF IInv, RequestInv, OnceInv, AtMostOneExecution
<1> QED BY <1>1, SpecIInv, PTL

\* The node reported to the route, and from there to the log, the audit row
\* and the console session, is the node that carried the request out.
THEOREM ReportedNodeIsTheServer == Spec => []ReportedNodeServedIt
<1>1. IInv => ReportedNodeServedIt
  BY DEF IInv, RequestInv, NodeInv, ReportedNodeServedIt
<1> QED BY <1>1, SpecIInv, PTL

\* A request is told that its VM is missing only because the VM is gone or
\* because the cluster answered its lookup without a list; no failed lookup,
\* open circuit, stray answer or older answer leads to it.
THEOREM MissingIsTheClustersAnswer == Spec => []NotFoundIsTheClustersAnswer
<1>1. IInv => NotFoundIsTheClustersAnswer
  BY DEF IInv, RequestInv, GoneInv, NotFoundIsTheClustersAnswer
<1> QED BY <1>1, SpecIInv, PTL

\* The rows are only ever changed to a node on which the VM was seen to run.
THEOREM RowsLearnTheTruth == Spec => CacheLearnsOnlyWhereVmRan
<1>1. ASSUME IInv, [Next]_vars, NEW v \in Vms, cache'[v] # cache[v]
      PROVE  \E r \in Requests : req[r].vm = v /\ ranAt[r] = cache'[v]
  <2>1. PICK r \in Requests : Heal(r)
    <3>1. ~Environment
      BY <1>1
         DEF Environment, Migrate, NodeFails, NodeReturns, OtherCall, TimePasses
    <3>2. ASSUME NEW r \in Requests, RequestStep(r) PROVE Heal(r)
      BY <1>1, <3>2
         DEF RequestStep, Authorize, SendFirst, CallSettles, RunOk, WrongNode,
             NodeIsDown, CallTimesOut, ResolveOk, ResolveFails
    <3> QED BY <1>1, <3>1, <3>2 DEF Next, vars
  <2>2. cache' = [cache EXCEPT ![req[r].vm] = req[r].freshNode]
    BY <1>1, <2>1 DEF Heal
  <2>3. req[r].vm = v /\ cache'[v] = req[r].freshNode
    BY <1>1, <2>2 DEF IInv, TypeOK
  <2>4. ranAt[r] = req[r].freshNode
    BY <1>1, <2>1 DEF IInv, RequestInv, NodeInv, Heal
  <2> QED BY <2>3, <2>4
<1>2. IInv /\ [Next]_vars
        => [\A v \in Vms : cache'[v] # cache[v] =>
              \E r \in Requests : req[r].vm = v /\ ranAt[r] = cache'[v]]_vars
  BY <1>1
<1> QED BY <1>2, SpecIInv, PTL DEF Spec, CacheLearnsOnlyWhereVmRan

-----------------------------------------------------------------------------
(* Every request comes to its end: what fairness has to add is only that   *)
(* steps are taken.  The argument adds one clause to the invariant.        *)

\* The run that a request waits for has a call under way.
AwaitInv(r) ==
    /\ req[r].stage = "first" => wire[r]["first"] > 0
    /\ req[r].stage = "retry" => wire[r]["retry"] > 0

\* What a step may do to a request: nothing, begin it, or bring it nearer to
\* its end.
Alone(r) == req'[r] = req[r] /\ wire'[r] = wire[r]

Nearer(r) ==
    \/ req[r].stage \in {"idle", "done"} /\ req'[r].stage = "authorized"
    \/ Work(r)' < Work(r)

\* What a step of the request has to do, and leave to the others.
GoesOn(r) ==
    /\ AwaitInv(r)'
    /\ Nearer(r)
    /\ \A q \in Requests \ {r} : Alone(q)

LEMMA StageValues ==
    /\ StagesAhead["idle"] = 0 /\ StagesAhead["done"] = 0
    /\ StagesAhead["heal"] = 1 /\ StagesAhead["retry"] = 2
    /\ StagesAhead["resolve"] = 3 /\ StagesAhead["first"] = 4
    /\ StagesAhead["authorized"] = 5
BY DEF StagesAhead

\* What is left of a request is a number, as its stage has one.
LEMMA WorkCounts ==
    ASSUME TypeOK, NEW r \in Requests
    PROVE  /\ StagesAhead[req[r].stage] \in 0 .. 5
           /\ wire[r]["first"] \in 0 .. 2
           /\ wire[r]["retry"] \in 0 .. 2
           /\ wire[r]["resolve"] \in 0 .. 2
<1>1. req[r].stage \in Stages
  BY DEF TypeOK, Request
<1>2. wire[r] \in [Legs -> 0 .. 2]
  BY DEF TypeOK
<1> QED BY <1>1, <1>2, StageValues DEF Stages, Legs, RunLegs

\* A request that ends, with or without an answer that it waited for.
LEMMA EndIsNearer ==
    ASSUME TypeOK, NEW r \in Requests, req'[r].stage = "done",
           req[r].stage \in {"authorized", "first", "resolve", "retry", "heal"},
           \A leg \in Legs : wire'[r][leg] \in Nat /\ wire'[r][leg] <= wire[r][leg]
    PROVE  AwaitInv(r)' /\ Nearer(r)
<1>1. StagesAhead[req[r].stage] \in 1 .. 5 /\ StagesAhead[req'[r].stage] = 0
  BY StageValues
<1>2. \A leg \in {"first", "retry", "resolve"} :
        /\ wire[r][leg] \in Nat
        /\ wire'[r][leg] \in Nat
        /\ wire'[r][leg] <= wire[r][leg]
  BY WorkCounts DEF Legs, RunLegs
<1>3. Work(r)' < Work(r)
  BY <1>1, <1>2 DEF Work
<1> QED BY <1>3 DEF AwaitInv, Nearer

\* An answer nobody waits for, or one of several that are waited for.
LEMMA AnswerIsNearer ==
    ASSUME IInv, NEW r \in Requests, AwaitInv(r), NEW leg \in RunLegs,
           wire[r][leg] > 0, Answered(r, leg), req' = req,
           ~Awaited(r, leg) \/ wire[r][leg] > 1
    PROVE  GoesOn(r)
<1>1. /\ wire'[r] = [wire[r] EXCEPT ![leg] = wire[r][leg] - 1]
      /\ \A q \in Requests \ {r} : wire'[q] = wire[q]
  BY AnsweredEffect DEF IInv, Legs
<1>2. wire[r] \in [Legs -> 0 .. 2] /\ TypeOK
  BY DEF IInv, TypeOK
<1>3. /\ StagesAhead[req[r].stage] \in 0 .. 5
      /\ wire[r]["first"] \in 0 .. 2
      /\ wire[r]["retry"] \in 0 .. 2
      /\ wire[r]["resolve"] \in 0 .. 2
  BY <1>2, WorkCounts
<1>4. AwaitInv(r)'
  BY <1>1, <1>2 DEF AwaitInv, Awaited, Legs, RunLegs
<1>5. Work(r)' < Work(r)
  <2>1. StagesAhead[req'[r].stage] = StagesAhead[req[r].stage]
    OBVIOUS
  <2>2. CASE leg = "first"
    BY <1>1, <1>2, <1>3, <2>1, <2>2 DEF Work, Legs, RunLegs
  <2>3. CASE leg = "retry"
    BY <1>1, <1>2, <1>3, <2>1, <2>3 DEF Work, Legs, RunLegs
  <2> QED BY <2>2, <2>3 DEF RunLegs
<1> QED BY <1>1, <1>4, <1>5 DEF GoesOn, Nearer, Alone

LEMMA AuthorizeGoesOn ==
    ASSUME IInv, NEW r \in Requests, NEW v \in Vms, NEW k \in Kinds,
           Authorize(r, v, k)
    PROVE  GoesOn(r)
BY DEF IInv, TypeOK, Authorize, GoesOn, AwaitInv, Nearer, Alone

LEMMA SendFirstGoesOn ==
    ASSUME IInv, NEW r \in Requests, SendFirst(r)
    PROVE  GoesOn(r)
<1>1. /\ TypeOK /\ req[r].stage = "authorized" /\ wire[r] = Silence
      /\ wire[r] \in [Legs -> 0 .. 2]
  BY DEF IInv, TypeOK, RequestInv, WireInv, Quiet, SendFirst
<1>2. CASE Finish(r, "circuitOpen") /\ UNCHANGED wire
  <2>1. /\ req'[r] = [req[r] EXCEPT !.stage = "done", !.out = "circuitOpen"]
        /\ \A q \in Requests \ {r} : req'[q] = req[q]
    BY <1>1, <1>2, FinishEffect DEF Outcomes
  <2>2. req'[r].stage = "done"
    BY <1>1, <2>1 DEF TypeOK, Request
  <2>3. AwaitInv(r)' /\ Nearer(r)
    BY <1>1, <1>2, <2>2, EndIsNearer DEF Silence
  <2> QED BY <1>2, <2>1, <2>3 DEF GoesOn, Alone
<1>3. CASE /\ req' = [req EXCEPT ![r].stage = "first"]
           /\ wire' = [wire EXCEPT ![r]["first"] = Calls(req[r].kind)]
  <2>1. /\ req'[r].stage = "first"
        /\ wire'[r] = [wire[r] EXCEPT !["first"] = Calls(req[r].kind)]
        /\ \A q \in Requests \ {r} : Alone(q)
    BY <1>1, <1>3 DEF TypeOK, Request, Alone
  <2>2. /\ wire'[r]["first"] \in 1 .. 2
        /\ wire'[r]["retry"] = 0 /\ wire'[r]["resolve"] = 0
        /\ wire[r]["first"] = 0
        /\ wire[r]["retry"] = 0 /\ wire[r]["resolve"] = 0
    BY <1>1, <2>1, CallsInRange DEF Silence, Legs, RunLegs
  <2>3. Work(r)' < Work(r)
    BY <1>1, <2>1, <2>2, StageValues DEF Work
  <2> QED BY <2>1, <2>2, <2>3 DEF GoesOn, AwaitInv, Nearer
<1> QED BY <1>2, <1>3 DEF SendFirst

LEMMA RunOkGoesOn ==
    ASSUME IInv, NEW r \in Requests, AwaitInv(r), NEW leg \in RunLegs,
           RunOk(r, leg)
    PROVE  GoesOn(r)
<1>1. /\ TypeOK /\ leg \in Legs /\ wire[r][leg] > 0 /\ Answered(r, leg)
      /\ req[r] \in Request /\ wire[r] \in [Legs -> 0 .. 2]
  BY DEF IInv, TypeOK, RunOk, Legs
<1>2. /\ wire'[r] = [wire[r] EXCEPT ![leg] = wire[r][leg] - 1]
      /\ \A q \in Requests \ {r} : wire'[q] = wire[q]
  BY <1>1, AnsweredEffect
<1>3. \A l \in Legs : wire'[r][l] \in Nat /\ wire'[r][l] <= wire[r][l]
  BY <1>1, <1>2
<1>4. CASE (~Awaited(r, leg) \/ wire[r][leg] > 1) /\ UNCHANGED req
  BY <1>1, <1>4, AnswerIsNearer
<1>5. CASE /\ Awaited(r, leg)
           /\ req' = [req EXCEPT ![r].stage = "done", ![r].out = "ok",
                                 ![r].served = req[r].node]
  <2>1. /\ req'[r].stage = "done"
        /\ \A q \in Requests \ {r} : req'[q] = req[q]
    BY <1>1, <1>5 DEF TypeOK, Request
  <2>2. AwaitInv(r)' /\ Nearer(r)
    BY <1>1, <1>3, <1>5, <2>1, EndIsNearer DEF Awaited, RunLegs
  <2> QED BY <1>2, <2>1, <2>2 DEF GoesOn, Alone
<1>6. CASE /\ Awaited(r, leg) /\ leg = "retry"
           /\ req' = [req EXCEPT ![r].stage = "heal"]
  <2>1. /\ req[r].stage = "retry" /\ req'[r].stage = "heal"
        /\ \A q \in Requests \ {r} : req'[q] = req[q]
    BY <1>1, <1>6 DEF TypeOK, Request, Awaited
  <2>2. \A l \in {"first", "retry", "resolve"} :
          wire[r][l] \in Nat /\ wire'[r][l] \in Nat /\ wire'[r][l] <= wire[r][l]
    BY <1>1, <1>3 DEF Legs, RunLegs
  <2>3. Work(r)' < Work(r)
    BY <2>1, <2>2, StageValues DEF Work
  <2> QED BY <1>2, <2>1, <2>3 DEF GoesOn, AwaitInv, Nearer, Alone
<1> QED BY <1>4, <1>5, <1>6 DEF RunOk

LEMMA CallFailsGoesOn ==
    ASSUME IInv, NEW r \in Requests, AwaitInv(r), NEW leg \in RunLegs, NEW error,
           CallFails(r, leg, error)
    PROVE  GoesOn(r)
<1>1. /\ TypeOK /\ leg \in Legs /\ wire[r][leg] > 0
      /\ req[r] \in Request /\ wire[r] \in [Legs -> 0 .. 2]
  BY DEF IInv, TypeOK, CallFails, Legs
<1>2. CASE ~Awaited(r, leg) /\ Answered(r, leg) /\ UNCHANGED req
  BY <1>1, <1>2, AnswerIsNearer
<1>3. ASSUME NEW o \in Outcomes,
             Awaited(r, leg), Answered(r, leg), Finish(r, o)
      PROVE  GoesOn(r)
  <2>1. /\ req'[r] = [req[r] EXCEPT !.stage = "done", !.out = o]
        /\ \A q \in Requests \ {r} : req'[q] = req[q]
    BY <1>1, <1>3, FinishEffect
  <2>2. /\ wire'[r] = [wire[r] EXCEPT ![leg] = wire[r][leg] - 1]
        /\ \A q \in Requests \ {r} : wire'[q] = wire[q]
    BY <1>1, <1>3, AnsweredEffect
  <2>3. \A l \in Legs : wire'[r][l] \in Nat /\ wire'[r][l] <= wire[r][l]
    BY <1>1, <2>2
  <2>4. req'[r].stage = "done"
    BY <1>1, <2>1 DEF Request
  <2>5. AwaitInv(r)' /\ Nearer(r)
    BY <1>1, <1>3, <2>3, <2>4, EndIsNearer DEF Awaited, RunLegs
  <2> QED BY <2>1, <2>2, <2>5 DEF GoesOn, Alone
<1>4. CASE Awaited(r, leg) /\ Answered(r, leg) /\ Finish(r, "error")
  BY <1>3, <1>4 DEF Outcomes
<1>5. CASE Awaited(r, leg) /\ Answered(r, leg) /\ Finish(r, "clusterUnreadable")
  BY <1>3, <1>5 DEF Outcomes
<1>6. CASE /\ Awaited(r, leg) /\ leg = "first"
           /\ wire' = [wire EXCEPT ![r][leg] = @ - 1, ![r]["resolve"] = 1]
           /\ req' = [req EXCEPT ![r].stage = "resolve"]
  <2>1. /\ req[r].stage = "first" /\ req'[r].stage = "resolve"
        /\ \A q \in Requests \ {r} : Alone(q)
    BY <1>1, <1>6 DEF TypeOK, Request, Awaited, Alone
  <2>2. wire[r]["first"] \in 1 .. 2 /\ wire[r]["retry"] \in 0 .. 2
    BY <1>1, <1>6 DEF Legs, RunLegs
  <2>3. /\ wire'[r]["first"] = wire[r]["first"] - 1
        /\ wire'[r]["retry"] = wire[r]["retry"]
        /\ wire'[r]["resolve"] = 1
        /\ wire[r]["resolve"] = 0
    BY <1>1, <1>6, <2>1 DEF IInv, TypeOK, RequestInv, WireInv, Legs, RunLegs
  <2>4. Work(r)' < Work(r)
    BY <2>1, <2>2, <2>3, StageValues DEF Work
  <2> QED BY <2>1, <2>4 DEF GoesOn, AwaitInv, Nearer
<1> QED BY <1>2, <1>3, <1>4, <1>5, <1>6 DEF CallFails

LEMMA ResolveGoesOn ==
    ASSUME IInv, NEW r \in Requests, ResolveOk(r) \/ ResolveFails(r)
    PROVE  GoesOn(r)
<1>1. /\ TypeOK /\ "resolve" \in Legs /\ wire[r]["resolve"] > 0
      /\ req[r] \in Request /\ wire[r] \in [Legs -> 0 .. 2]
      /\ req[r].stage = "resolve" /\ wire[r]["resolve"] = 1
      /\ wire[r]["retry"] = 0 /\ req[r].node \in Nodes
  <2>1. TypeOK /\ "resolve" \in Legs /\ wire[r]["resolve"] > 0 /\ RequestInv(r)
    BY DEF IInv, ResolveOk, ResolveFails, Legs
  <2> QED BY <2>1 DEF TypeOK, RequestInv, WireInv, NodeInv
<1>2. ASSUME NEW o \in Outcomes, Answered(r, "resolve"), Finish(r, o)
      PROVE  GoesOn(r)
  <2>1. /\ req'[r] = [req[r] EXCEPT !.stage = "done", !.out = o]
        /\ \A q \in Requests \ {r} : req'[q] = req[q]
    BY <1>1, <1>2, FinishEffect
  <2>2. /\ wire'[r] = [wire[r] EXCEPT !["resolve"] = wire[r]["resolve"] - 1]
        /\ \A q \in Requests \ {r} : wire'[q] = wire[q]
    BY <1>1, <1>2, AnsweredEffect
  <2>3. \A l \in Legs : wire'[r][l] \in Nat /\ wire'[r][l] <= wire[r][l]
    BY <1>1, <2>2
  <2>4. req'[r].stage = "done"
    BY <1>1, <2>1 DEF Request
  <2>5. AwaitInv(r)' /\ Nearer(r)
    BY <1>1, <2>3, <2>4, EndIsNearer
  <2> QED BY <2>1, <2>2, <2>5 DEF GoesOn, Alone
<1>3. CASE ResolveFails(r)
  BY <1>2, <1>3 DEF ResolveFails, Outcomes
<1>4. CASE Finish(r, "vmNotFound") /\ Answered(r, "resolve")
  BY <1>2, <1>4 DEF Outcomes
<1>5. CASE Finish(r, "nodeUnreachable") /\ Answered(r, "resolve")
  BY <1>2, <1>5 DEF Outcomes
<1>6. CASE /\ req' = [req EXCEPT ![r].stage = "retry",
                                 ![r].freshNode = place[req[r].vm]]
           /\ wire' = [wire EXCEPT ![r]["resolve"] = 0,
                                   ![r]["retry"] = Calls(req[r].kind)]
  <2>1. req'[r].stage = "retry" /\ \A q \in Requests \ {r} : Alone(q)
    BY <1>1, <1>6 DEF TypeOK, Request, Alone
  <2>2. /\ wire'[r]["first"] = wire[r]["first"]
        /\ wire'[r]["retry"] \in 1 .. 2
        /\ wire'[r]["resolve"] = 0
    BY <1>1, <1>6, CallsInRange DEF TypeOK, Legs, RunLegs
  <2>3. wire[r]["first"] \in 0 .. 2
    BY <1>1 DEF Legs, RunLegs
  <2>4. Work(r)' < Work(r)
    BY <1>1, <2>1, <2>2, <2>3, StageValues DEF Work
  <2> QED BY <2>1, <2>2, <2>4 DEF GoesOn, AwaitInv, Nearer
<1> QED BY <1>1, <1>3, <1>4, <1>5, <1>6, ResolveOkCases

LEMMA HealGoesOn ==
    ASSUME IInv, NEW r \in Requests, Heal(r)
    PROVE  GoesOn(r)
<1>1. /\ req[r].stage = "heal" /\ req'[r].stage = "done" /\ wire' = wire
      /\ \A q \in Requests \ {r} : req'[q] = req[q]
  BY DEF IInv, TypeOK, Request, Heal
<1>2. \A l \in Legs : wire[r][l] \in Nat
  BY DEF IInv, TypeOK
<1>3. AwaitInv(r)' /\ Nearer(r)
  BY <1>1, <1>2, EndIsNearer DEF IInv
<1> QED BY <1>1, <1>3 DEF GoesOn, Alone

LEMMA StepGoesOn ==
    ASSUME IInv, NEW r \in Requests, AwaitInv(r), RequestStep(r)
    PROVE  GoesOn(r)
<1>1. ASSUME NEW leg \in RunLegs, CallSettles(r, leg) PROVE GoesOn(r)
  <2>1. CASE RunOk(r, leg)
    BY <2>1, RunOkGoesOn
  <2>2. CASE WrongNode(r, leg) \/ NodeIsDown(r, leg) \/ CallTimesOut(r, leg)
    BY <2>2, CallFailsGoesOn DEF WrongNode, NodeIsDown, CallTimesOut
  <2> QED BY <1>1, <2>1, <2>2 DEF CallSettles
<1> QED BY <1>1, AuthorizeGoesOn, SendFirstGoesOn, ResolveGoesOn, HealGoesOn
        DEF RequestStep

\* A step is one request's, or leaves them all alone.
LEMMA EveryStepGoesOn ==
    ASSUME IInv, \A r \in Requests : AwaitInv(r), [Next]_vars
    PROVE  \A r \in Requests : AwaitInv(r)' /\ (Alone(r) \/ Nearer(r))
<1>1. ASSUME NEW q \in Requests, Alone(q) PROVE AwaitInv(q)'
  BY <1>1 DEF Alone, AwaitInv
<1>2. CASE Environment \/ UNCHANGED vars
  <2>1. \A q \in Requests : Alone(q)
    BY <1>2 DEF Environment, Migrate, NodeFails, NodeReturns, OtherCall,
                TimePasses, Alone, vars
  <2> QED BY <1>1, <2>1
<1>3. ASSUME NEW r \in Requests, RequestStep(r)
      PROVE  \A q \in Requests : AwaitInv(q)' /\ (Alone(q) \/ Nearer(q))
  BY <1>1, <1>3, StepGoesOn DEF GoesOn
<1> QED BY <1>2, <1>3 DEF Next

AwaitIInv == IInv /\ \A r \in Requests : AwaitInv(r)

LEMMA SpecAwaitIInv == Spec => []AwaitIInv
<1>1. Init => AwaitIInv
  BY InitIInv DEF AwaitIInv, Init, AwaitInv
<1>2. AwaitIInv /\ [Next]_vars => AwaitIInv'
  BY NextKeepsIInv, EveryStepGoesOn DEF AwaitIInv
<1> QED BY <1>1, <1>2, PTL DEF Spec

\* No request waits for an answer that cannot come any more.
THEOREM WaitersAreServed == Spec => []NobodyWaitsForNothing
<1>1. AwaitIInv => NobodyWaitsForNothing
  BY DEF AwaitIInv, AwaitInv, IInv, RequestInv, WireInv, NobodyWaitsForNothing,
         Legs, RunLegs
<1> QED BY <1>1, SpecAwaitIInv, PTL

\* No interleaving of failures, stray answers, migrations and other requests
\* keeps a request busy for more than fifteen steps of its own.
THEOREM RequestsEnd == Spec => EveryStepNearsTheEnd
<1>1. AwaitIInv /\ [Next]_vars
        => [\A r \in Requests :
              \/ req'[r] = req[r] /\ wire'[r] = wire[r]
              \/ req[r].stage \in {"idle", "done"} /\ req'[r].stage = "authorized"
              \/ Work(r)' < Work(r)]_vars
  BY EveryStepGoesOn DEF AwaitIInv, Alone, Nearer
<1> QED BY <1>1, SpecAwaitIInv, PTL DEF Spec, EveryStepNearsTheEnd

-----------------------------------------------------------------------------
(* The breaker, which all requests share.                                  *)

LEMMA FailoverUsesBreaker == Spec => BreakerSpec
<1>1. ASSUME Environment
      PROVE  [BreakerStep]_breakerVars
  BY <1>1 DEF Environment, Migrate, NodeFails, NodeReturns, OtherCall,
              TimePasses, BreakerStep
<1>2. ASSUME NEW r \in Requests, RequestStep(r)
      PROVE  [BreakerStep]_breakerVars
  BY <1>2 DEF RequestStep, Authorize, SendFirst, CallSettles, RunOk, WrongNode,
              NodeIsDown, CallTimesOut, CallFails, ResolveOk, ResolveFails,
              Heal, BreakerStep
<1>3. [Next]_vars => [BreakerStep]_breakerVars
  BY <1>1, <1>2 DEF Next, vars, breakerVars
<1> QED BY <1>3, PTL DEF Spec, Init, BreakerSpec

\* However the first runs, lookups and second runs of the requests interleave,
\* their answers drive the breaker as its comment says.
THEOREM FailoverSharesThreeStateBreaker == Spec => ActsAsThreeStateBreaker
BY FailoverUsesBreaker, BreakerIsThreeState

=============================================================================
