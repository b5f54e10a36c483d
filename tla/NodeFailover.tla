---------------------------- MODULE NodeFailover ----------------------------
(***************************************************************************)
(* Requests for VMs whose node the service only knows from a cache:        *)
(* withNodeFailover (src/src/utils/nodeFailover.js), the routes that call  *)
(* it, and the breaker its calls share, against a cluster in which VMs     *)
(* migrate and nodes come and go.                                          *)
(*                                                                         *)
(* One action is one turn of the event loop: what runs between two awaits  *)
(* is atomic, and anything may happen at an await.  In particular the      *)
(* request interceptor of a call that follows an answer runs in the turn   *)
(* that handled the answer, so it sees the breaker as that answer left it. *)
(***************************************************************************)
EXTENDS CircuitBreaker

CONSTANTS
    Vms,
    Nodes,
    Requests,       \* slots: how many requests can be in progress at once
    Kinds,          \* the kinds of request that arrive
    Nowhere,        \* the place of a VM the cluster does not have
    MaxMoves,       \* bound on migrations
    MaxFaults       \* bound on timeouts, errors, node failures and lookups
                    \* that fail or are answered without a list

ASSUME FailoverAssumption ==
    /\ Vms # {}
    /\ Kinds \subseteq {"read", "stat", "act", "delete"}
    /\ Nowhere \notin Nodes
    /\ MaxMoves \in Nat
    /\ MaxFaults \in Nat

VARIABLES
    place,      \* [Vms -> Nodes or Nowhere]: the truth (environment)
    down,       \* nodes that are offline (environment)
    cache,      \* [Vms -> Nodes]: vm_ownership.node
    req,        \* [Requests -> the local state of withNodeFailover's caller]
    wire,       \* [Requests -> [Legs -> calls without an answer yet]]
    execs,      \* history: how often the request's change was carried out
    ranAt,      \* history: the node that last carried out its run, if any
    blank,      \* history: whether its lookup was answered without a list
    moves,      \* migrations so far
    faults      \* faults so far

clusterVars == <<place, down, moves>>
historyVars == <<execs, ranAt, blank>>
vars == <<consecutiveFailures, cooldownLeft, place, down, cache, req, wire,
          execs, ranAt, blank, moves, faults>>

RunLegs == {"first", "retry"}
Legs == RunLegs \cup {"resolve"}
Silence == [leg \in Legs |-> 0]

\* What a request waits for: its row, its first run, the cluster's answer,
\* its second run, the update of its row, or nothing.
Stages == {"idle", "authorized", "first", "resolve", "retry", "heal", "done"}

Outcomes == {"none", "ok", "error", "circuitOpen",
             "clusterUnreadable", "vmNotFound", "nodeUnreachable"}

\* Calls that run() makes in parallel: a VM's page reads status and config.
Calls(kind) == IF kind = "read" THEN 2 ELSE 1

\* Power actions and console tickets change something, and so does deletion.
Mutating(kind) == kind \in {"act", "delete"}

Request == [stage : Stages, vm : Vms, kind : {"read", "stat", "act", "delete"},
            node : Nodes \cup {Nowhere}, freshNode : Nodes \cup {Nowhere},
            out : Outcomes, served : Nodes \cup {Nowhere}]

TypeOK ==
    /\ BreakerTypeOK
    /\ place \in [Vms -> Nodes \cup {Nowhere}]
    /\ down \in SUBSET Nodes
    /\ cache \in [Vms -> Nodes]
    /\ req \in [Requests -> Request]
    /\ wire \in [Requests -> [Legs -> 0 .. 2]]
    /\ execs \in [Requests -> Nat]
    /\ ranAt \in [Requests -> Nodes \cup {Nowhere}]
    /\ blank \in [Requests -> BOOLEAN]
    /\ moves \in 0 .. MaxMoves
    /\ faults \in 0 .. MaxFaults

\* The rows are right at first: routes/admin.js has just bound the VMs.
Init ==
    /\ BreakerInit
    /\ place \in [Vms -> Nodes]
    /\ down = {}
    /\ cache = place
    /\ req = [r \in Requests |->
                [stage |-> "idle", vm |-> CHOOSE v \in Vms : TRUE,
                 kind |-> "stat", node |-> Nowhere, freshNode |-> Nowhere,
                 out |-> "none", served |-> Nowhere]]
    /\ wire = [r \in Requests |-> Silence]
    /\ execs = [r \in Requests |-> 0]
    /\ ranAt = [r \in Requests |-> Nowhere]
    /\ blank = [r \in Requests |-> FALSE]
    /\ moves = 0
    /\ faults = 0

-----------------------------------------------------------------------------
(* The cluster, and traffic for VMs that are not modelled.                 *)

Migrate(v, n) ==
    /\ moves < MaxMoves
    /\ place[v] \notin {n, Nowhere}
    /\ n \notin down
    /\ place' = [place EXCEPT ![v] = n]
    /\ moves' = moves + 1
    /\ UNCHANGED <<breakerVars, down, cache, req, wire, historyVars, faults>>

NodeFails(n) ==
    /\ n \notin down
    /\ faults < MaxFaults
    /\ down' = down \cup {n}
    /\ faults' = faults + 1
    /\ UNCHANGED <<breakerVars, place, moves, cache, req, wire, historyVars>>

NodeReturns(n) ==
    /\ n \in down
    /\ down' = down \ {n}
    /\ UNCHANGED <<breakerVars, place, moves, cache, req, wire, historyVars,
                   faults>>

\* The outcome of a call made for another VM or by the sync job.
OtherCall ==
    /\ \/ /\ RecordSuccess
          /\ UNCHANGED faults
       \/ /\ faults < MaxFaults
          /\ faults' = faults + 1
          /\ RecordFailure
    /\ UNCHANGED <<clusterVars, cache, req, wire, historyVars>>

TimePasses ==
    /\ CircuitIsOpen
    /\ CooldownElapses
    /\ UNCHANGED <<clusterVars, cache, req, wire, historyVars, faults>>

-----------------------------------------------------------------------------
(* The request's own steps.                                                *)

Quiet(r) == wire[r] = Silence

\* authorizeVm, authorizeVmByRecord and the list route: the database reads
\* the row.  The answer, with the node of that moment, is handled later.
Authorize(r, v, k) ==
    /\ req[r].stage \in {"idle", "done"}
    /\ Quiet(r)
    /\ req' = [req EXCEPT ![r] =
                [stage |-> "authorized", vm |-> v, kind |-> k,
                 node |-> cache[v], freshNode |-> Nowhere,
                 out |-> "none", served |-> Nowhere]]
    /\ execs' = [execs EXCEPT ![r] = 0]
    /\ ranAt' = [ranAt EXCEPT ![r] = Nowhere]
    /\ blank' = [blank EXCEPT ![r] = FALSE]
    /\ UNCHANGED <<breakerVars, clusterVars, cache, wire, faults>>

Finish(r, outcome) ==
    req' = [req EXCEPT ![r].stage = "done", ![r].out = outcome]

\* The route calls withNodeFailover: run(node), each of its calls through
\* the request interceptor.
SendFirst(r) ==
    /\ req[r].stage = "authorized"
    /\ \/ /\ CircuitIsOpen
          /\ Finish(r, "circuitOpen")
          /\ UNCHANGED wire
       \/ /\ ~CircuitIsOpen
          /\ req' = [req EXCEPT ![r].stage = "first"]
          /\ wire' = [wire EXCEPT ![r]["first"] = Calls(req[r].kind)]
    /\ UNCHANGED <<breakerVars, clusterVars, cache, historyVars, faults>>

NodeOf(r, leg) == IF leg = "retry" THEN req[r].freshNode ELSE req[r].node

\* A plausible bug: the handlers of the first run stay attached when its VM
\* is looked up and run again.
AwaitedOfAnyRun(r, leg) ==
    req[r].stage = leg \/ (leg = "first" /\ req[r].stage = "retry")

\* The request still waits for this call; it does not once another call of
\* the same Promise.all has failed.
Awaited(r, leg) == req[r].stage = leg

Answered(r, leg) ==
    wire' = [wire EXCEPT ![r][leg] = @ - 1]

\* Proxmox carries the call out on the node it was sent to.
Executes(r, leg) ==
    /\ place[req[r].vm] = NodeOf(r, leg)
    /\ NodeOf(r, leg) \notin down
    /\ execs' = IF Mutating(req[r].kind)
                THEN [execs EXCEPT ![r] = @ + 1] ELSE execs
    /\ ranAt' = IF Awaited(r, leg)
                THEN [ranAt EXCEPT ![r] = NodeOf(r, leg)] ELSE ranAt
    /\ place' = IF req[r].kind = "delete"
                THEN [place EXCEPT ![req[r].vm] = Nowhere] ELSE place
    /\ UNCHANGED blank

\* A call of run() succeeds.  The run is over with the last of them; a
\* second run goes on to update the row before the request is answered.
RunOk(r, leg) ==
    /\ wire[r][leg] > 0
    /\ Executes(r, leg)
    /\ RecordSuccess
    /\ Answered(r, leg)
    /\ \/ /\ ~Awaited(r, leg) \/ wire[r][leg] > 1
          /\ UNCHANGED req
       \/ /\ Awaited(r, leg) /\ wire[r][leg] = 1
          /\ leg = "first"
          /\ req' = [req EXCEPT ![r].stage = "done", ![r].out = "ok",
                                ![r].served = req[r].node]
       \/ /\ Awaited(r, leg) /\ wire[r][leg] = 1
          /\ leg = "retry"
          /\ req' = [req EXCEPT ![r].stage = "heal"]
    /\ UNCHANGED <<down, moves, cache, faults>>

\* A plausible bug: the node that was tried first is reported, not the one
\* that served the retry.
HealReportsStaleNode(r) ==
    /\ req[r].stage = "heal"
    /\ cache' = [cache EXCEPT ![req[r].vm] = req[r].freshNode]
    /\ req' = [req EXCEPT ![r].stage = "done", ![r].out = "ok",
                          ![r].served = req[r].node]
    /\ UNCHANGED <<breakerVars, clusterVars, wire, historyVars, faults>>

\* A plausible bug: the row is left as it was.
HealForgotten(r) ==
    /\ req[r].stage = "heal"
    /\ req' = [req EXCEPT ![r].stage = "done", ![r].out = "ok",
                          ![r].served = req[r].freshNode]
    /\ UNCHANGED <<breakerVars, clusterVars, cache, wire, historyVars, faults>>

\* The row of the VM is updated, or the database says why not; the request
\* is answered with the node of the retry either way.
Heal(r) ==
    /\ req[r].stage = "heal"
    /\ \/ /\ cache' = [cache EXCEPT ![req[r].vm] = req[r].freshNode]
          /\ UNCHANGED faults
       \/ /\ faults < MaxFaults
          /\ faults' = faults + 1
          /\ UNCHANGED cache
    /\ req' = [req EXCEPT ![r].stage = "done", ![r].out = "ok",
                          ![r].served = req[r].freshNode]
    /\ UNCHANGED <<breakerVars, clusterVars, wire, historyVars>>

\* A plausible bug: a timeout passes for a wrong node too.
LooksLikeAnyFailure(error) == error \in {"wrongNode", "timeout"}

\* looksLikeWrongNode: status 500 or 404 and Proxmox's text for a VM whose
\* configuration is not on that node.
LooksLikeWrongNode(error) == error = "wrongNode"

\* A call of run() fails, which the breaker counts.  If the request waits
\* for it and it is the first run that says "wrong node", the request asks
\* the cluster where the VM is, through the breaker as the failure left it;
\* any other failure is thrown to the error handler.
CallFails(r, leg, error) ==
    /\ wire[r][leg] > 0
    /\ RecordFailure
    /\ \/ /\ ~Awaited(r, leg)
          /\ Answered(r, leg)
          /\ UNCHANGED req
       \/ /\ Awaited(r, leg)
          /\ leg = "retry" \/ ~LooksLikeWrongNode(error)
          /\ Answered(r, leg)
          /\ Finish(r, "error")
       \/ /\ Awaited(r, leg)
          /\ leg = "first" /\ LooksLikeWrongNode(error)
          /\ CircuitIsOpen'
          /\ Answered(r, leg)
          /\ Finish(r, "clusterUnreadable")
       \/ /\ Awaited(r, leg)
          /\ leg = "first" /\ LooksLikeWrongNode(error)
          /\ ~CircuitIsOpen'
          /\ wire' = [wire EXCEPT ![r][leg] = @ - 1, ![r]["resolve"] = 1]
          /\ req' = [req EXCEPT ![r].stage = "resolve"]

\* The node is there and does not have the VM.
WrongNode(r, leg) ==
    /\ NodeOf(r, leg) \notin down
    /\ place[req[r].vm] # NodeOf(r, leg)
    /\ CallFails(r, leg, "wrongNode")
    /\ UNCHANGED <<clusterVars, cache, historyVars, faults>>

\* The node is offline.  Whether the error then has the text of a wrong node
\* is up to Proxmox; the code allows for both.
NodeIsDown(r, leg) ==
    /\ NodeOf(r, leg) \in down
    /\ \E error \in {"wrongNode", "noRoute"} : CallFails(r, leg, error)
    /\ UNCHANGED <<clusterVars, cache, historyVars, faults>>

\* The call ends in its timeout, before or after Proxmox carried it out.
CallTimesOut(r, leg) ==
    /\ faults < MaxFaults
    /\ faults' = faults + 1
    /\ CallFails(r, leg, "timeout")
    /\ Executes(r, leg) \/ UNCHANGED <<place, historyVars>>
    /\ UNCHANGED <<down, moves, cache>>

\* A plausible bug: the row is updated as soon as the cluster has answered,
\* before the VM was seen on that node.
ResolveOkHealsEarly(r) ==
    /\ wire[r]["resolve"] > 0
    /\ place[req[r].vm] \notin {Nowhere, req[r].node}
    /\ RecordSuccess
    /\ req' = [req EXCEPT ![r].stage = "retry",
                           ![r].freshNode = place[req[r].vm]]
    /\ wire' = [wire EXCEPT ![r]["resolve"] = 0,
                            ![r]["retry"] = Calls(req[r].kind)]
    /\ cache' = [cache EXCEPT ![req[r].vm] = place[req[r].vm]]
    /\ UNCHANGED <<clusterVars, historyVars, faults>>

\* The VMs that /cluster/resources lists.
Listed == {v \in Vms : place[v] # Nowhere}

\* resolveNodeForVmid: the VM's node in the list, if it is there.
NodeForVmid(v, list) == IF v \in list THEN place[v] ELSE Nowhere

\* What the request makes of the node it was given.  The answer has just
\* closed the circuit, so the calls of the retry pass the interceptor.
GoesOnAt(r, freshNode) ==
    \/ /\ freshNode = Nowhere
       /\ Finish(r, "vmNotFound")
       /\ Answered(r, "resolve")
    \/ /\ freshNode = req[r].node
       /\ Finish(r, "nodeUnreachable")
       /\ Answered(r, "resolve")
    \/ /\ freshNode \notin {Nowhere, req[r].node}
       /\ req' = [req EXCEPT ![r].stage = "retry",
                              ![r].freshNode = freshNode]
       /\ wire' = [wire EXCEPT ![r]["resolve"] = 0,
                               ![r]["retry"] = Calls(req[r].kind)]

\* The cluster answers with its list, or with success and no list: an empty
\* body, which the interceptor makes {data: null}, or one that is not JSON.
\* The code takes the latter for an empty list.
ResolveOk(r) ==
    /\ wire[r]["resolve"] > 0
    /\ RecordSuccess
    /\ \/ /\ GoesOnAt(r, NodeForVmid(req[r].vm, Listed))
          /\ UNCHANGED <<blank, faults>>
       \/ /\ faults < MaxFaults
          /\ faults' = faults + 1
          /\ blank' = [blank EXCEPT ![r] = TRUE]
          /\ GoesOnAt(r, NodeForVmid(req[r].vm, {}))
    /\ UNCHANGED <<clusterVars, cache, execs, ranAt>>

\* A plausible bug: an unreadable cluster passes for a missing VM.
ResolveFailsAsNotFound(r) ==
    /\ wire[r]["resolve"] > 0
    /\ faults < MaxFaults
    /\ faults' = faults + 1
    /\ RecordFailure
    /\ Answered(r, "resolve")
    /\ Finish(r, "vmNotFound")
    /\ UNCHANGED <<clusterVars, cache, historyVars>>

\* A plausible bug: the failed lookup answers nobody.
ResolveFailsSilently(r) ==
    /\ wire[r]["resolve"] > 0
    /\ faults < MaxFaults
    /\ faults' = faults + 1
    /\ RecordFailure
    /\ Answered(r, "resolve")
    /\ UNCHANGED <<clusterVars, cache, historyVars, req>>

\* The cluster cannot be asked.
ResolveFails(r) ==
    /\ wire[r]["resolve"] > 0
    /\ faults < MaxFaults
    /\ faults' = faults + 1
    /\ RecordFailure
    /\ Answered(r, "resolve")
    /\ Finish(r, "clusterUnreadable")
    /\ UNCHANGED <<clusterVars, cache, historyVars>>

-----------------------------------------------------------------------------

CallSettles(r, leg) ==
    \/ RunOk(r, leg)
    \/ WrongNode(r, leg)
    \/ NodeIsDown(r, leg)
    \/ CallTimesOut(r, leg)

RequestStep(r) ==
    \/ \E v \in Vms, k \in Kinds : Authorize(r, v, k)
    \/ SendFirst(r)
    \/ \E leg \in RunLegs : CallSettles(r, leg)
    \/ ResolveOk(r)
    \/ ResolveFails(r)
    \/ Heal(r)

Environment ==
    \/ \E v \in Vms, n \in Nodes : Migrate(v, n)
    \/ \E n \in Nodes : NodeFails(n) \/ NodeReturns(n)
    \/ OtherCall
    \/ TimePasses

Next == Environment \/ \E r \in Requests : RequestStep(r)

Spec == Init /\ [][Next]_vars

(***************************************************************************)
(* Fairness.  Time passes; a call is settled by Proxmox or by its timeout; *)
(* the process goes on with what was settled; and the portal, which polls  *)
(* every few seconds, asks for each VM again and again (strong, because a  *)
(* VM's poll competes with the others for a slot).  Migrations, faults,    *)
(* node failures and other VMs' traffic are not assumed to happen.         *)
(***************************************************************************)
Progress(r) ==
    \/ SendFirst(r)
    \/ \E leg \in RunLegs : CallSettles(r, leg)
    \/ ResolveOk(r)
    \/ ResolveFails(r)
    \/ Heal(r)

Polled(v) == \E r \in Requests, k \in Kinds : Authorize(r, v, k)

Fairness ==
    /\ WF_vars(TimePasses)
    /\ \A r \in Requests : WF_vars(Progress(r))
    /\ \A v \in Vms : SF_vars(Polled(v))

FairSpec == Spec /\ Fairness

-----------------------------------------------------------------------------
(* The promise: each request is a job of VmRouter.                         *)

Phase(r) ==
    CASE req[r].stage = "idle" -> "free"
      [] req[r].stage = "done" -> "answered"
      [] OTHER -> "open"

Task(r) ==
    CASE req[r].kind = "delete" -> "removes"
      [] req[r].kind = "act" -> "changes"
      [] OTHER -> "reads"

Verdict(r) ==
    CASE req[r].out = "none" -> "none"
      [] req[r].out = "ok" -> "ok"
      [] req[r].out = "vmNotFound" -> "missing"
      [] OTHER -> "failed"

JobOf(r) == [phase |-> Phase(r), vm |-> req[r].vm, task |-> Task(r),
             effects |-> execs[r], at |-> ranAt[r],
             answer |-> Verdict(r), node |-> req[r].served,
             blank |-> blank[r]]

Router == INSTANCE VmRouter WITH job <- [r \in Requests |-> JobOf(r)]

\* The failover is invisible but for failures: with its stale rows, breaker,
\* lookup and second run it serves every request on the node where the VM is,
\* a change at most once, and reports the node truthfully and a missing VM as
\* truthfully as the cluster does.
ImplementsRouter == Router!Spec

\* A request that changes something is carried out at most once, whatever
\* fails, migrates or times out between its two runs ("retries run exactly
\* once", and only after an answer that proves the first run did nothing).
AtMostOneExecution == \A r \in Requests : execs[r] <= 1

\* What the caller logs, audits and answers as the VM's node is the node
\* that carried the request out (the node withNodeFailover returns).
ReportedNodeServedIt ==
    \A r \in Requests :
        req[r].stage = "done" /\ req[r].out = "ok" => req[r].served = ranAt[r]

\* A 404 is the cluster's own answer: the VM is gone, or the lookup got an
\* answer without a list.  Neither an unreadable cluster nor an open circuit
\* nor an older answer is mistaken for a missing VM.
NotFoundIsTheClustersAnswer ==
    \A r \in Requests :
        req[r].stage = "done" /\ req[r].out = "vmNotFound"
            => place[req[r].vm] = Nowhere \/ blank[r]

\* The row only ever changes to a node on which the VM was seen to run.
CacheLearnsOnlyWhereVmRan ==
    [][\A v \in Vms : cache'[v] # cache[v] =>
          \E r \in Requests : req[r].vm = v /\ ranAt[r] = cache'[v]]_vars

\* Every request is answered, whichever of its calls fail.
EveryRequestIsAnswered ==
    \A r \in Requests :
        req[r].stage = "authorized" ~> req[r].stage = "done"

\* A request that waits for Proxmox has a call under way: no failure, stray
\* answer or open circuit swallows the call its await hangs on.
NobodyWaitsForNothing ==
    \A r \in Requests : req[r].stage \in Legs => wire[r][req[r].stage] > 0

\* How far a request is from the end: the waits that can still follow, each
\* worth more than the calls it can put on the wire, and the calls under way.
StagesAhead == [idle |-> 0, done |-> 0, heal |-> 1, retry |-> 2,
                resolve |-> 3, first |-> 4, authorized |-> 5]

Work(r) == 3 * StagesAhead[req[r].stage]
             + wire[r]["first"] + wire[r]["retry"] + wire[r]["resolve"]

\* Whatever happens to a request brings it nearer to its end, so that it is
\* over within fifteen steps of its own: the second run is the last, and
\* neither stray answers nor a VM that keeps moving send it round again.
EveryStepNearsTheEnd ==
    [][\A r \in Requests :
          \/ req'[r] = req[r] /\ wire'[r] = wire[r]
          \/ req[r].stage \in {"idle", "done"} /\ req'[r].stage = "authorized"
          \/ Work(r)' < Work(r)]_vars

\* The row names the node where the VM is.  It need not while no request for
\* the VM can succeed anywhere: the VM is gone, or its own node is offline.
CacheAgrees(v) == cache[v] = place[v] \/ place[v] \in down \cup {Nowhere}

\* Two conditions under which a stale row can be found out: from some time on
\* the breaker lets requests through, and the node that they are sent to is
\* there to say that it does not have the VM.
CircuitStaysClosed == <>[]~CircuitIsOpen
RowsNodeAnswers(v) == <>[](cache[v] \notin down)

\* Migrations are finite, so under both conditions each row comes to agree
\* with the cluster for good, heals that were overtaken included.
CacheConverges ==
    CircuitStaysClosed =>
        \A v \in Vms : RowsNodeAnswers(v) => <>[]CacheAgrees(v)

\* dynamic-multi-node.md: a VM that moved is picked up "transparently on the
\* next request per VM", the state of the circuit notwithstanding.
EveryMoveIsPickedUp == \A v \in Vms : RowsNodeAnswers(v) => []<>CacheAgrees(v)

\* dynamic-multi-node.md: "if `node1` goes down and Proxmox's own HA manager
\* migrates its VMs elsewhere", that too is picked up on the next request.
EveryEvacuationIsPickedUp ==
    CircuitStaysClosed => \A v \in Vms : []<>CacheAgrees(v)

\* nodeFailover.js: after a self-heal "every other in-flight or subsequent
\* request for this vmid targets the right node": a heal never replaces a
\* right node by a wrong one.
HealNeverMakesWorse ==
    [][\A v \in Vms :
          cache[v] = place[v] /\ cache'[v] # cache[v]
              => cache'[v] = place'[v]]_vars

=============================================================================
