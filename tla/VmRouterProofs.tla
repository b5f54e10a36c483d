--------------------------- MODULE VmRouterProofs ---------------------------
(***************************************************************************)
(* NodeFailover implements VmRouter: every step of a request is a step of  *)
(* its job or invisible.  What a step shows of the cluster is the place of *)
(* the VM; what it shows of a request is JobOf.  So each action is reduced *)
(* to what it does to these two, and matched with an action of the router. *)
(***************************************************************************)
EXTENDS NodeFailoverProofs

Jobs == [r \in Requests |-> JobOf(r)]

\* What the mapping needs beyond IInv: a read has no effects, and a request
\* without an answer names no node that served it.
MapInv(r) ==
    /\ ~Mutating(req[r].kind) => execs[r] = 0
    /\ req[r].stage # "done" => req[r].served = Nowhere

RInv == IInv /\ \A r \in Requests : MapInv(r)

-----------------------------------------------------------------------------
(* RInv is inductive.                                                      *)

LEMMA MapInvOfOthers ==
    ASSUME NEW q \in Requests, MapInv(q), req'[q] = req[q], execs'[q] = execs[q]
    PROVE  MapInv(q)'
BY DEF MapInv

\* What a call's fate does to the request, whichever it is.
LEMMA SettledKeepsMapInv ==
    ASSUME RInv, NEW r \in Requests, NEW leg \in RunLegs, CallSettles(r, leg)
    PROVE  \A q \in Requests : MapInv(q)'
<1>1. TypeOK /\ req[r] \in Request /\ MapInv(r)
  BY DEF RInv, IInv, TypeOK
<1>2. Executes(r, leg) \/ UNCHANGED <<place, historyVars>>
  BY DEF CallSettles, RunOk, WrongNode, NodeIsDown, CallTimesOut, clusterVars
<1>3. /\ ~Mutating(req[r].kind) => execs'[r] = execs[r]
      /\ \A q \in Requests \ {r} : execs'[q] = execs[q]
  BY <1>1, <1>2, ExecutesEffect
<1>4. CASE RunOk(r, leg)
  <2>1. /\ req'[r].kind = req[r].kind
        /\ req'[r].stage # "done" => req[r].stage # "done"
                                     /\ req'[r].served = req[r].served
        /\ \A q \in Requests \ {r} : req'[q] = req[q]
    BY <1>1, <1>4 DEF RunOk, TypeOK, Request, Awaited, RunLegs
  <2> QED BY <1>1, <1>3, <2>1, MapInvOfOthers DEF MapInv, RInv
<1>5. ASSUME NEW error, CallFails(r, leg, error)
      PROVE  \A q \in Requests : MapInv(q)'
  <2>1. /\ req'[r].kind = req[r].kind
        /\ req'[r].stage # "done" => req[r].stage # "done"
                                     /\ req'[r].served = req[r].served
        /\ \A q \in Requests \ {r} : req'[q] = req[q]
    BY <1>1, <1>5 DEF CallFails, TypeOK, Request, Awaited, Finish
  <2> QED BY <1>1, <1>3, <2>1, MapInvOfOthers DEF MapInv, RInv
<1> QED BY <1>4, <1>5 DEF CallSettles, WrongNode, NodeIsDown, CallTimesOut

LEMMA NextKeepsMapInv ==
    ASSUME RInv, [Next]_vars
    PROVE  \A q \in Requests : MapInv(q)'
<1>1. TypeOK /\ \A q \in Requests : MapInv(q) /\ req[q] \in Request
  BY DEF RInv, IInv, TypeOK
<1>2. CASE Environment \/ UNCHANGED vars
  <2>1. req' = req /\ execs' = execs
    BY <1>2 DEF Environment, Migrate, NodeFails, NodeReturns, OtherCall,
                TimePasses, historyVars, vars
  <2> QED BY <1>1, <2>1 DEF MapInv
<1>3. ASSUME NEW r \in Requests, RequestStep(r)
      PROVE  \A q \in Requests : MapInv(q)'
  <2>1. CASE \E v \in Vms, k \in Kinds : Authorize(r, v, k)
    <3>1. /\ req'[r].served = Nowhere /\ execs'[r] = 0
          /\ \A q \in Requests \ {r} : req'[q] = req[q] /\ execs'[q] = execs[q]
      BY <1>1, <2>1 DEF Authorize, TypeOK
    <3> QED BY <1>1, <3>1, MapInvOfOthers DEF MapInv
  <2>2. CASE \E leg \in RunLegs : CallSettles(r, leg)
    BY <2>2, SettledKeepsMapInv
  <2>3. CASE SendFirst(r) \/ ResolveOk(r) \/ ResolveFails(r) \/ Heal(r)
    <3>1. execs' = execs
      BY <2>3 DEF SendFirst, ResolveOk, ResolveFails, Heal, historyVars
    <3>2. \A q \in Requests \ {r} : req'[q] = req[q]
      BY <1>1, <2>3
         DEF SendFirst, ResolveOk, GoesOnAt, ResolveFails, Heal, Finish,
             TypeOK
    <3>3. /\ req'[r].kind = req[r].kind
          /\ req'[r].stage # "done" => req[r].stage # "done"
                                       /\ req'[r].served = req[r].served
      <4>1. req[r].stage # "done"
        BY <2>3 DEF SendFirst, ResolveOk, ResolveFails, Heal, RInv, IInv,
                    RequestInv, WireInv
      <4> QED
        BY <1>1, <2>3, <4>1
           DEF SendFirst, ResolveOk, GoesOnAt, ResolveFails, Heal, Finish,
               TypeOK, Request
    <3> QED BY <1>1, <3>1, <3>2, <3>3, MapInvOfOthers DEF MapInv
  <2> QED BY <1>3, <2>1, <2>2, <2>3 DEF RequestStep
<1> QED BY <1>2, <1>3 DEF Next

LEMMA SpecRInv == Spec => []RInv
<1>1. Init => RInv
  BY InitIInv DEF Init, RInv, MapInv, Mutating
<1>2. RInv /\ [Next]_vars => RInv'
  BY NextKeepsIInv, NextKeepsMapInv DEF RInv
<1> QED BY <1>1, <1>2, PTL DEF Spec

-----------------------------------------------------------------------------
(* What a step shows of a request.                                         *)

Open(r) == req[r].stage \notin {"idle", "done"}

\* A job only depends on these variables of its request.
Idle(q) ==
    /\ req'[q] = req[q]
    /\ execs'[q] = execs[q] /\ ranAt'[q] = ranAt[q] /\ blank'[q] = blank[q]

LEMMA IdleJob ==
    ASSUME NEW q \in Requests, Idle(q)
    PROVE  JobOf(q)' = JobOf(q)
BY DEF Idle, JobOf, Phase, Task, Verdict

\* A step that leaves the cluster and every job alone is invisible.
LEMMA InvisibleStep ==
    ASSUME place' = place, \A q \in Requests : JobOf(q)' = JobOf(q)
    PROVE  UNCHANGED Router!vars
BY DEF Router!vars

\* A step of one request changes one job.
LEMMA OneJob ==
    ASSUME NEW r \in Requests, \A q \in Requests \ {r} : Idle(q)
    PROVE  Jobs' = [Jobs EXCEPT ![r] = JobOf(r)']
<1>1. \A q \in Requests \ {r} : JobOf(q)' = JobOf(q)
  BY IdleJob
<1> QED BY <1>1 DEF Jobs

Job == [phase : {"free", "open", "answered"}, vm : Vms, task : Router!Tasks,
        effects : Nat, at : Nodes \cup {Nowhere},
        answer : {"none", "ok", "missing", "failed"},
        node : Nodes \cup {Nowhere}, blank : BOOLEAN]

LEMMA JobType ==
    /\ TypeOK => \A r \in Requests : JobOf(r) \in Job
    /\ TypeOK' => \A r \in Requests : JobOf(r)' \in Job
<1>1. /\ \A r : Phase(r) \in {"free", "open", "answered"}
      /\ \A r : Phase(r)' \in {"free", "open", "answered"}
  BY DEF Phase
<1>2. /\ \A r : Task(r) \in Router!Tasks
      /\ \A r : Task(r)' \in Router!Tasks
  BY DEF Task, Router!Tasks
<1>3. /\ \A r : Verdict(r) \in {"none", "ok", "missing", "failed"}
      /\ \A r : Verdict(r)' \in {"none", "ok", "missing", "failed"}
  BY DEF Verdict
<1>4. ASSUME TypeOK, NEW r \in Requests PROVE JobOf(r) \in Job
  <2>1. /\ req[r].vm \in Vms /\ req[r].served \in Nodes \cup {Nowhere}
        /\ execs[r] \in Nat /\ ranAt[r] \in Nodes \cup {Nowhere}
        /\ blank[r] \in BOOLEAN
    BY <1>4 DEF TypeOK, Request
  <2> QED BY <1>1, <1>2, <1>3, <2>1 DEF JobOf, Job
<1>5. ASSUME TypeOK', NEW r \in Requests PROVE JobOf(r)' \in Job
  <2>1. /\ req'[r].vm \in Vms /\ req'[r].served \in Nodes \cup {Nowhere}
        /\ execs'[r] \in Nat /\ ranAt'[r] \in Nodes \cup {Nowhere}
        /\ blank'[r] \in BOOLEAN
    BY <1>5 DEF TypeOK, Request
  <2> QED BY <1>1, <1>2, <1>3, <2>1 DEF JobOf, Job
<1> QED BY <1>4, <1>5

\* What the job of r shows after a step, if it goes on for the same VM.
Shows(r, phase, answer, node) ==
    /\ JobOf(r)'.phase = phase
    /\ JobOf(r)'.vm = req[r].vm
    /\ JobOf(r)'.task = Task(r)
    /\ JobOf(r)'.effects = execs'[r]
    /\ JobOf(r)'.at = ranAt'[r]
    /\ JobOf(r)'.answer = answer
    /\ JobOf(r)'.node = node
    /\ JobOf(r)'.blank = blank'[r]

\* An open request that is still open shows only where it has run.
LEMMA StillOpen ==
    ASSUME NEW r \in Requests, Open(r), Open(r)',
           req'[r].vm = req[r].vm, req'[r].kind = req[r].kind,
           req'[r].out = req[r].out, req'[r].served = req[r].served
    PROVE  Shows(r, "open", Verdict(r), req[r].served)
<1>1. Phase(r)' = "open"
  BY DEF Open, Phase
<1>2. Task(r)' = Task(r) /\ Verdict(r)' = Verdict(r)
  BY DEF Task, Verdict
<1> QED BY <1>1, <1>2 DEF JobOf, Shows

VerdictOf(o) ==
    CASE o = "none" -> "none"
      [] o = "ok" -> "ok"
      [] o = "vmNotFound" -> "missing"
      [] OTHER -> "failed"

\* An answer shows its verdict and its node besides.
LEMMA NowAnswered ==
    ASSUME NEW r \in Requests, req[r] \in Request, NEW o, NEW n,
           req'[r] = [req[r] EXCEPT !.stage = "done", !.out = o, !.served = n]
    PROVE  Shows(r, "answered", VerdictOf(o), n)
<1>1. /\ req'[r].stage = "done" /\ req'[r].out = o /\ req'[r].served = n
      /\ req'[r].vm = req[r].vm /\ req'[r].kind = req[r].kind
  BY DEF Request
<1>2. Phase(r)' = "answered"
  BY <1>1 DEF Phase
<1>3. Task(r)' = Task(r)
  BY <1>1 DEF Task
<1>4. Verdict(r)' = VerdictOf(o)
  BY <1>1 DEF Verdict, VerdictOf
<1> QED BY <1>1, <1>2, <1>3, <1>4 DEF JobOf, Shows

\* The same for a request that finishes without a node.
LEMMA NowFinished ==
    ASSUME RInv, NEW r \in Requests, Open(r), NEW o \in Outcomes, Finish(r, o)
    PROVE  /\ \A q \in Requests \ {r} : req'[q] = req[q]
           /\ Shows(r, "answered", VerdictOf(o), Nowhere)
<1>1. /\ req[r] \in Request
      /\ req'[r] = [req[r] EXCEPT !.stage = "done", !.out = o]
      /\ \A q \in Requests \ {r} : req'[q] = req[q]
  BY FinishEffect DEF RInv, IInv, TypeOK
<1>2. req[r].served = Nowhere
  BY DEF RInv, MapInv, Open
<1>3. req'[r] = [req[r] EXCEPT !.stage = "done", !.out = o, !.served = Nowhere]
  BY <1>1, <1>2 DEF Request
<1> QED BY <1>1, <1>3, NowAnswered

\* What the job of an open request shows before a step.
LEMMA OpenJob ==
    ASSUME TypeOK, NEW r \in Requests, Open(r)
    PROVE  /\ Jobs[r] \in Job
           /\ Jobs[r].phase = "open"
           /\ Jobs[r].vm = req[r].vm
           /\ Jobs[r].task = Task(r)
           /\ Jobs[r].effects = execs[r]
           /\ Jobs[r].at = ranAt[r]
           /\ Jobs[r].answer = Verdict(r)
           /\ Jobs[r].node = req[r].served
           /\ Jobs[r].blank = blank[r]
<1>1. Jobs[r] = JobOf(r)
  BY DEF Jobs
<1>2. JobOf(r).phase = "open"
  BY DEF Open, JobOf, Phase
<1> QED BY <1>1, <1>2, JobType DEF JobOf

\* A job is closed with an answer, or served, if its fields are.
LEMMA IsClosed ==
    ASSUME NEW J \in Job, NEW K \in Job,
           NEW a \in {"none", "ok", "missing", "failed"},
           NEW n \in Nodes \cup {Nowhere},
           K.phase = "answered", K.vm = J.vm, K.task = J.task,
           K.effects = J.effects, K.at = J.at, K.answer = a, K.node = n,
           K.blank = J.blank
    PROVE  K = Router!Closed(J, a, n)
BY DEF Job, Router!Closed

LEMMA IsMissing ==
    ASSUME NEW J \in Job, NEW K \in Job, NEW b \in BOOLEAN,
           K.phase = "answered", K.vm = J.vm, K.task = J.task,
           K.effects = J.effects, K.at = J.at, K.answer = "missing",
           K.node = Nowhere, K.blank = b
    PROVE  K = [Router!Closed(J, "missing", Nowhere) EXCEPT !.blank = b]
BY DEF Job, Router!Closed

LEMMA IsServed ==
    ASSUME NEW J \in Job, place[J.vm] \in Nodes
    PROVE  /\ Router!Served(J) \in Job
           /\ Router!Served(J).phase = J.phase
           /\ Router!Served(J).vm = J.vm
           /\ Router!Served(J).task = J.task
           /\ Router!Served(J).effects = IF J.task = "reads" THEN 0 ELSE 1
           /\ Router!Served(J).at = place[J.vm]
           /\ Router!Served(J).answer = J.answer
           /\ Router!Served(J).node = J.node
           /\ Router!Served(J).blank = J.blank
BY DEF Job, Router!Served

LEMMA SameJob ==
    ASSUME NEW J \in Job, NEW K \in Job,
           K.phase = J.phase, K.vm = J.vm, K.task = J.task,
           K.effects = J.effects, K.at = J.at, K.answer = J.answer,
           K.node = J.node, K.blank = J.blank
    PROVE  K = J
BY DEF Job

-----------------------------------------------------------------------------
(* Each step and its match.                                                *)

LEMMA AuthorizeAccepts ==
    ASSUME RInv, NEW r \in Requests, NEW v \in Vms, NEW k \in Kinds,
           Authorize(r, v, k)
    PROVE  Router!Accept(r)
<1>1. req[r] \in Request /\ \A q \in Requests \ {r} : Idle(q)
  BY DEF RInv, IInv, TypeOK, Authorize, Idle
<1>2. /\ req'[r] = [stage |-> "authorized", vm |-> v, kind |-> k,
                    node |-> cache[v], freshNode |-> Nowhere,
                    out |-> "none", served |-> Nowhere]
      /\ execs'[r] = 0 /\ ranAt'[r] = Nowhere /\ blank'[r] = FALSE
      /\ place' = place
  BY DEF RInv, IInv, TypeOK, Authorize, clusterVars
<1>3. PICK t \in Router!Tasks : Task(r)' = t
  BY DEF Task, Router!Tasks
<1>4. JobOf(r)' = [phase |-> "open", vm |-> v, task |-> t, effects |-> 0,
                   at |-> Nowhere, answer |-> "none", node |-> Nowhere,
                   blank |-> FALSE]
  <2>1. Phase(r)' = "open" /\ Verdict(r)' = "none"
    BY <1>2 DEF Phase, Verdict
  <2>2. /\ req'[r].vm = v /\ req'[r].served = Nowhere
        /\ execs'[r] = 0 /\ ranAt'[r] = Nowhere /\ blank'[r] = FALSE
    BY <1>2
  <2> QED BY <1>3, <2>1, <2>2, Zenon DEF JobOf
<1>5. Jobs[r].phase # "open"
  BY DEF Authorize, Jobs, JobOf, Phase
<1>6. Jobs' = [Jobs EXCEPT ![r] = JobOf(r)']
  BY <1>1, OneJob
<1> QED BY <1>2, <1>4, <1>5, <1>6 DEF Router!Accept, Jobs

\* A failure may be answered at any time.
LEMMA FailureIsAnAnswer ==
    ASSUME RInv, TypeOK', NEW r \in Requests, Open(r),
           NEW o \in Outcomes \ {"none", "ok", "vmNotFound"}, Finish(r, o),
           UNCHANGED <<place, historyVars>>
    PROVE  Router!Answer(r)
<1>1. /\ \A q \in Requests \ {r} : Idle(q)
      /\ execs'[r] = execs[r] /\ ranAt'[r] = ranAt[r] /\ blank' = blank
      /\ place' = place
  BY NowFinished DEF Idle, historyVars
<1>2. VerdictOf(o) = "failed"
  BY DEF VerdictOf
<1>3. Shows(r, "answered", "failed", Nowhere)
  BY <1>2, NowFinished
<1>4. /\ Jobs[r] \in Job /\ Jobs[r].phase = "open" /\ Jobs[r].vm = req[r].vm
      /\ Jobs[r].task = Task(r) /\ Jobs[r].effects = execs[r]
      /\ Jobs[r].at = ranAt[r] /\ Jobs[r].blank = blank[r]
  BY OpenJob DEF RInv, IInv
<1>5. JobOf(r)' \in Job
  BY JobType
<1>6. JobOf(r)' = Router!Closed(Jobs[r], "failed", Nowhere)
  BY <1>1, <1>3, <1>4, <1>5, IsClosed DEF Shows
<1>7. Jobs' = [Jobs EXCEPT ![r] = JobOf(r)']
  BY <1>1, OneJob
<1> QED BY <1>1, <1>4, <1>6, <1>7 DEF Router!Answer, Router!TrueAnswers, Jobs

\* A call of the awaited run that is carried out serves the job.
LEMMA ExecutionServes ==
    ASSUME RInv, TypeOK', NEW r \in Requests, NEW leg \in RunLegs,
           wire[r][leg] > 0, Awaited(r, leg), Executes(r, leg),
           \A q \in Requests \ {r} : Idle(q),
           \/ Shows(r, "open", Verdict(r), req[r].served)
           \/ Shows(r, "answered", "failed", Nowhere)
           \/ Shows(r, "answered", "ok", ranAt'[r])
    PROVE  Router!Serve(r)
<1>1. /\ TypeOK /\ req[r] \in Request /\ req[r].vm \in Vms /\ Open(r)
      /\ req[r].stage \in {"first", "retry"}
  BY DEF RInv, IInv, TypeOK, Request, Open, Awaited, RunLegs
<1>2. execs[r] = 0
  BY <1>1, MutatingIsAwaited DEF RInv, MapInv
<1>3. place[req[r].vm] = NodeOf(r, leg) /\ NodeOf(r, leg) \in Nodes
  BY <1>1 DEF Executes, NodeOf, Awaited, RInv, IInv, RequestInv, NodeInv, RunLegs
<1>4. /\ ranAt'[r] = place[req[r].vm]
      /\ place[req[r].vm] \in Nodes
  BY <1>1, <1>3 DEF Executes, TypeOK
<1>5. execs'[r] = IF Task(r) = "reads" THEN 0 ELSE 1
  <2>1. (Task(r) = "reads") <=> ~Mutating(req[r].kind)
    BY <1>1 DEF Task, Mutating, Request
  <2>2. CASE Mutating(req[r].kind)
    BY <1>1, <1>2, <2>1, <2>2 DEF Executes, TypeOK
  <2>3. CASE ~Mutating(req[r].kind)
    <3>1. execs'[r] = execs[r]
      BY <1>1, <2>3, ExecutesEffect
    <3> QED BY <1>2, <2>1, <2>3, <3>1
  <2> QED BY <2>2, <2>3
<1>6. place' = IF Task(r) = "removes"
               THEN [place EXCEPT ![req[r].vm] = Nowhere] ELSE place
  BY DEF Executes, Task
<1> DEFINE J == Jobs[r]
           S == Router!Served(J)
           K == JobOf(r)'
<1>7. /\ J \in Job /\ J.phase = "open" /\ J.vm = req[r].vm
      /\ J.task = Task(r) /\ J.effects = 0
      /\ J.answer = Verdict(r) /\ J.node = req[r].served
      /\ J.blank = blank[r] /\ blank'[r] = blank[r]
  BY <1>1, <1>2, OpenJob, ExecutesEffect
<1>8. K \in Job
  BY JobType
<1> HIDE DEF J, K
<1>9. /\ S \in Job /\ S.phase = "open" /\ S.vm = req[r].vm
      /\ S.task = Task(r) /\ S.effects = execs'[r] /\ S.at = ranAt'[r]
      /\ S.answer = Verdict(r) /\ S.node = req[r].served
      /\ S.blank = blank'[r]
  BY <1>4, <1>5, <1>7, IsServed
<1>10. S.at # Nowhere /\ S.at \in Nodes
  BY <1>4, <1>9, FailoverAssumption
<1> HIDE DEF S
<1>11. /\ K.vm = S.vm /\ K.task = S.task /\ K.effects = S.effects /\ K.at = S.at
       /\ K.blank = S.blank
       /\ \/ K.phase = S.phase /\ K.answer = S.answer /\ K.node = S.node
          \/ K.phase = "answered" /\ K.answer = "failed" /\ K.node = Nowhere
          \/ K.phase = "answered" /\ K.answer = "ok" /\ K.node = S.at
  BY <1>9 DEF Shows, K
<1>12. K \in {S} \cup Router!TrueAnswers(S)
  <2>1. CASE K.phase = S.phase /\ K.answer = S.answer /\ K.node = S.node
    <3>1. K = S
      BY <1>8, <1>9, <1>11, <2>1, SameJob
    <3> QED BY <3>1
  <2>2. CASE K.phase = "answered" /\ K.answer = "failed" /\ K.node = Nowhere
    <3>1. K = Router!Closed(S, "failed", Nowhere)
      BY <1>8, <1>9, <1>11, <2>2, IsClosed
    <3> QED BY <3>1 DEF Router!TrueAnswers
  <2>3. CASE K.phase = "answered" /\ K.answer = "ok" /\ K.node = S.at
    <3>1. K = Router!Closed(S, "ok", S.at)
      BY <1>8, <1>9, <1>10, <1>11, <2>3, IsClosed
    <3> QED BY <1>10, <3>1 DEF Router!TrueAnswers
  <2> QED BY <1>11, <2>1, <2>2, <2>3
<1>13. Jobs' = [Jobs EXCEPT ![r] = K]
  BY OneJob DEF K
<1> QED
  BY <1>4, <1>6, <1>7, <1>10, <1>12, <1>13, FailoverAssumption
     DEF Router!Serve, J, S, Jobs

\* A step after which the request is still open and has run nowhere new.
LEMMA HiddenStep ==
    ASSUME NEW r \in Requests, Open(r), Open(r)',
           req'[r].vm = req[r].vm, req'[r].kind = req[r].kind,
           req'[r].out = req[r].out, req'[r].served = req[r].served,
           execs'[r] = execs[r], ranAt'[r] = ranAt[r], blank'[r] = blank[r],
           place' = place, \A q \in Requests \ {r} : Idle(q)
    PROVE  UNCHANGED Router!vars
<1>1. Phase(r)' = Phase(r)
  BY DEF Open, Phase
<1>2. Task(r)' = Task(r) /\ Verdict(r)' = Verdict(r)
  BY DEF Task, Verdict
<1>3. JobOf(r)' = JobOf(r)
  BY <1>1, <1>2 DEF JobOf
<1> QED BY <1>3, IdleJob, InvisibleStep

\* The answer to a call that nothing waits for any more is not seen: only a
\* read has such calls.
LEMMA StrayIsInvisible ==
    ASSUME RInv, NEW r \in Requests, NEW leg \in RunLegs,
           wire[r][leg] > 0, ~Awaited(r, leg), req' = req,
           Executes(r, leg) \/ UNCHANGED <<place, historyVars>>
    PROVE  UNCHANGED Router!vars
<1>1. TypeOK /\ ~Mutating(req[r].kind)
  BY MutatingIsAwaited DEF RInv, IInv
<1>2. \A q \in Requests : Idle(q)
  BY <1>1, ExecutesEffect DEF Idle
<1>3. place' = place
  BY <1>1 DEF Executes, Mutating
<1> QED BY <1>2, <1>3, IdleJob, InvisibleStep

LEMMA RunOkMaps ==
    ASSUME RInv, TypeOK', NEW r \in Requests, NEW leg \in RunLegs, RunOk(r, leg)
    PROVE  Router!Serve(r) \/ UNCHANGED Router!vars
<1>1. /\ TypeOK /\ req[r] \in Request /\ wire[r][leg] > 0 /\ Executes(r, leg)
  BY DEF RInv, IInv, TypeOK, RunOk
<1>2. CASE ~Awaited(r, leg)
  BY <1>1, <1>2, StrayIsInvisible DEF RunOk
<1>3. CASE Awaited(r, leg)
  <2>1. \A q \in Requests \ {r} : req'[q] = req[q]
    BY <1>1 DEF RunOk, TypeOK
  <2>2. \A q \in Requests \ {r} : Idle(q)
    BY <1>1, <2>1, ExecutesEffect DEF Idle
  <2>3. Open(r)
    BY <1>3 DEF Awaited, RunLegs, Open
  <2>4. CASE req' = req
    <3>1. Shows(r, "open", Verdict(r), req[r].served)
      BY <2>3, <2>4, StillOpen DEF Open
    <3> QED BY <1>1, <1>3, <2>2, <3>1, ExecutionServes
  <2>5. CASE /\ leg = "first"
             /\ req' = [req EXCEPT ![r].stage = "done", ![r].out = "ok",
                                   ![r].served = req[r].node]
    <3>1. req'[r] = [req[r] EXCEPT !.stage = "done", !.out = "ok",
                                   !.served = req[r].node]
      BY <1>1, <2>5 DEF TypeOK
    <3>2. ranAt'[r] = req[r].node
      BY <1>1, <1>3, <2>5 DEF Executes, NodeOf, TypeOK
    <3>3. Shows(r, "answered", "ok", ranAt'[r])
      BY <1>1, <3>1, <3>2, NowAnswered DEF VerdictOf
    <3> QED BY <1>1, <1>3, <2>2, <3>3, ExecutionServes
  <2>6. CASE leg = "retry" /\ req' = [req EXCEPT ![r].stage = "heal"]
    <3>1. req'[r] = [req[r] EXCEPT !.stage = "heal"]
      BY <1>1, <2>6 DEF TypeOK
    <3>2. Shows(r, "open", Verdict(r), req[r].served)
      BY <1>1, <2>3, <3>1, StillOpen DEF Open, Request
    <3> QED BY <1>1, <1>3, <2>2, <3>2, ExecutionServes
  <2> QED BY <1>3, <2>4, <2>5, <2>6 DEF RunOk
<1> QED BY <1>2, <1>3

LEMMA CallFailsMaps ==
    ASSUME RInv, TypeOK', NEW r \in Requests, NEW leg \in RunLegs, NEW error,
           CallFails(r, leg, error),
           Executes(r, leg) \/ UNCHANGED <<place, historyVars>>,
           Executes(r, leg) => ~LooksLikeWrongNode(error)
    PROVE  Router!Serve(r) \/ Router!Answer(r) \/ UNCHANGED Router!vars
<1>1. TypeOK /\ req[r] \in Request /\ wire[r][leg] > 0
  BY DEF RInv, IInv, TypeOK, CallFails
<1>2. CASE ~Awaited(r, leg)
  BY <1>1, <1>2, StrayIsInvisible DEF CallFails
<1>3. ASSUME Awaited(r, leg) PROVE Open(r)
  BY <1>3 DEF Awaited, RunLegs, Open
<1>4. CASE Awaited(r, leg) /\ Finish(r, "error")
  <2>1. CASE Executes(r, leg)
    <3>1. \A q \in Requests \ {r} : Idle(q)
      BY <1>1, <1>3, <1>4, ExecutesEffect, NowFinished DEF Idle, Outcomes
    <3>2. Shows(r, "answered", "failed", Nowhere)
      BY <1>3, <1>4, NowFinished DEF Outcomes, VerdictOf
    <3> QED BY <1>1, <1>4, <2>1, <3>1, <3>2, ExecutionServes
  <2>2. CASE UNCHANGED <<place, historyVars>>
    BY <1>3, <1>4, <2>2, FailureIsAnAnswer DEF Outcomes
  <2> QED BY <2>1, <2>2
<1>5. CASE Awaited(r, leg) /\ LooksLikeWrongNode(error)
           /\ Finish(r, "clusterUnreadable")
  BY <1>3, <1>5, FailureIsAnAnswer DEF Outcomes
<1>6. CASE /\ Awaited(r, leg) /\ LooksLikeWrongNode(error)
           /\ req' = [req EXCEPT ![r].stage = "resolve"]
  <2>1. /\ req'[r] = [req[r] EXCEPT !.stage = "resolve"]
        /\ \A q \in Requests \ {r} : Idle(q)
        /\ execs'[r] = execs[r] /\ ranAt'[r] = ranAt[r] /\ blank'[r] = blank[r]
        /\ place' = place
    BY <1>1, <1>6 DEF TypeOK, Idle, historyVars
  <2> QED BY <1>1, <1>3, <1>6, <2>1, HiddenStep DEF Open, Request
<1> QED BY <1>2, <1>4, <1>5, <1>6 DEF CallFails

LEMMA CallSettlesMaps ==
    ASSUME RInv, TypeOK', NEW r \in Requests, NEW leg \in RunLegs,
           CallSettles(r, leg)
    PROVE  Router!Serve(r) \/ Router!Answer(r) \/ UNCHANGED Router!vars
<1>1. CASE RunOk(r, leg)
  BY <1>1, RunOkMaps
<1>2. CASE WrongNode(r, leg)
  <2>1. CallFails(r, leg, "wrongNode") /\ ~Executes(r, leg)
    BY <1>2 DEF WrongNode, Executes
  <2>2. UNCHANGED <<place, historyVars>>
    BY <1>2 DEF WrongNode, clusterVars
  <2> QED BY <2>1, <2>2, CallFailsMaps
<1>3. CASE NodeIsDown(r, leg)
  <2>1. PICK error \in {"wrongNode", "noRoute"} : CallFails(r, leg, error)
    BY <1>3 DEF NodeIsDown
  <2>2. ~Executes(r, leg) /\ UNCHANGED <<place, historyVars>>
    BY <1>3 DEF NodeIsDown, Executes, clusterVars
  <2> QED BY <2>1, <2>2, CallFailsMaps
<1>4. CASE CallTimesOut(r, leg)
  <2>1. CallFails(r, leg, "timeout") /\ ~LooksLikeWrongNode("timeout")
    BY <1>4 DEF CallTimesOut, LooksLikeWrongNode
  <2>2. Executes(r, leg) \/ UNCHANGED <<place, historyVars>>
    BY <1>4 DEF CallTimesOut
  <2> QED BY <2>1, <2>2, CallFailsMaps
<1> QED BY <1>1, <1>2, <1>3, <1>4 DEF CallSettles

LEMMA SendFirstMaps ==
    ASSUME RInv, TypeOK', NEW r \in Requests, SendFirst(r)
    PROVE  Router!Answer(r) \/ UNCHANGED Router!vars
<1>1. TypeOK /\ req[r] \in Request /\ Open(r)
  BY DEF RInv, IInv, TypeOK, SendFirst, Open
<1>2. UNCHANGED <<place, historyVars>>
  BY DEF SendFirst, clusterVars
<1>3. CASE Finish(r, "circuitOpen")
  BY <1>1, <1>2, <1>3, FailureIsAnAnswer DEF Outcomes
<1>4. CASE req' = [req EXCEPT ![r].stage = "first"]
  <2>1. /\ req'[r] = [req[r] EXCEPT !.stage = "first"]
        /\ \A q \in Requests \ {r} : Idle(q)
        /\ execs'[r] = execs[r] /\ ranAt'[r] = ranAt[r] /\ blank'[r] = blank[r]
        /\ place' = place
    BY <1>1, <1>2, <1>4 DEF TypeOK, Idle, historyVars
  <2> QED BY <1>1, <2>1, HiddenStep DEF Open, Request
<1> QED BY <1>3, <1>4 DEF SendFirst

\* A request that the cluster's answer leaves without a VM.
LEMMA NotFoundMaps ==
    ASSUME RInv, TypeOK', NEW r \in Requests, Open(r), Finish(r, "vmNotFound"),
           place' = place, execs' = execs, ranAt' = ranAt,
           \A q \in Requests \ {r} : blank'[q] = blank[q],
           place[req[r].vm] = Nowhere \/ blank'[r]
    PROVE  Router!AnswerMissing(r)
<1>1. \A q \in Requests \ {r} : Idle(q)
  BY NowFinished DEF Idle, Outcomes
<1>2. Shows(r, "answered", "missing", Nowhere)
  BY NowFinished DEF Outcomes, VerdictOf
<1>3. /\ Jobs[r] \in Job /\ Jobs[r].phase = "open" /\ Jobs[r].vm = req[r].vm
      /\ Jobs[r].task = Task(r) /\ Jobs[r].effects = execs[r]
      /\ Jobs[r].at = ranAt[r]
  BY OpenJob DEF RInv, IInv
<1>4. JobOf(r)' \in Job /\ blank'[r] \in BOOLEAN
  BY JobType DEF TypeOK
<1>5. JobOf(r)' = [Router!Closed(Jobs[r], "missing", Nowhere)
                      EXCEPT !.blank = blank'[r]]
  <2>1. JobOf(r)'.blank = blank'[r]
    BY DEF JobOf
  <2> QED BY <1>2, <1>3, <1>4, <2>1, IsMissing DEF Shows
<1>6. Jobs' = [Jobs EXCEPT ![r] = JobOf(r)']
  BY <1>1, OneJob
<1> QED BY <1>3, <1>4, <1>5, <1>6 DEF Router!AnswerMissing, Jobs

LEMMA ResolveMaps ==
    ASSUME RInv, TypeOK', NEW r \in Requests, ResolveOk(r) \/ ResolveFails(r)
    PROVE  \/ Router!Answer(r) \/ Router!AnswerMissing(r)
           \/ UNCHANGED Router!vars
<1>1. /\ TypeOK /\ req[r] \in Request /\ req[r].stage = "resolve" /\ Open(r)
      /\ req[r].node \in Nodes
  BY DEF RInv, IInv, TypeOK, ResolveOk, ResolveFails, Open, RequestInv, WireInv,
         NodeInv
<1>2. place' = place /\ execs' = execs /\ ranAt' = ranAt
  BY DEF ResolveOk, ResolveFails, clusterVars, historyVars
<1>3. ASSUME blank' = blank,
             Finish(r, "nodeUnreachable") \/ Finish(r, "clusterUnreadable")
      PROVE  Router!Answer(r)
  <2>1. UNCHANGED <<place, historyVars>>
    BY <1>2, <1>3 DEF historyVars
  <2> QED BY <1>1, <1>3, <2>1, FailureIsAnAnswer DEF Outcomes
<1>4. CASE ResolveFails(r)
  BY <1>3, <1>4 DEF ResolveFails, historyVars
<1>5. CASE ResolveOk(r) /\ Finish(r, "vmNotFound")
           /\ (place[req[r].vm] = Nowhere \/ blank'[r])
  BY <1>1, <1>2, <1>5, ResolveOkCases, NotFoundMaps
<1>6. CASE blank' = blank /\ Finish(r, "nodeUnreachable")
  BY <1>3, <1>6
<1>7. CASE /\ blank' = blank
           /\ req' = [req EXCEPT ![r].stage = "retry",
                                 ![r].freshNode = place[req[r].vm]]
  <2>1. /\ req'[r] = [req[r] EXCEPT !.stage = "retry",
                                    !.freshNode = place[req[r].vm]]
        /\ \A q \in Requests \ {r} : Idle(q)
        /\ execs'[r] = execs[r] /\ ranAt'[r] = ranAt[r] /\ blank'[r] = blank[r]
        /\ place' = place
    BY <1>1, <1>2, <1>7 DEF TypeOK, Idle
  <2> QED BY <1>1, <2>1, HiddenStep DEF Open, Request
<1> QED BY <1>1, <1>4, <1>5, <1>6, <1>7, ResolveOkCases

\* The answer after the heal: the job was served by the retry.
LEMMA HealAnswers ==
    ASSUME RInv, TypeOK', NEW r \in Requests, Heal(r)
    PROVE  Router!Answer(r)
<1>1. /\ TypeOK /\ req[r] \in Request /\ Open(r)
      /\ req[r].freshNode \in Nodes /\ ranAt[r] = req[r].freshNode
  BY DEF RInv, IInv, TypeOK, RequestInv, NodeInv, Heal, Open
<1>2. /\ req'[r] = [req[r] EXCEPT !.stage = "done", !.out = "ok",
                                  !.served = req[r].freshNode]
      /\ \A q \in Requests \ {r} : Idle(q)
      /\ execs'[r] = execs[r] /\ ranAt'[r] = ranAt[r] /\ blank'[r] = blank[r]
      /\ place' = place
  BY <1>1 DEF TypeOK, Heal, Idle, clusterVars, historyVars
<1>3. Shows(r, "answered", "ok", ranAt[r])
  BY <1>1, <1>2, NowAnswered DEF VerdictOf
<1>4. /\ Jobs[r] \in Job /\ Jobs[r].phase = "open" /\ Jobs[r].vm = req[r].vm
      /\ Jobs[r].task = Task(r) /\ Jobs[r].effects = execs[r]
      /\ Jobs[r].at = ranAt[r] /\ Jobs[r].blank = blank[r]
  BY <1>1, OpenJob
<1>5. JobOf(r)' \in Job
  BY JobType
<1>6. JobOf(r)' = Router!Closed(Jobs[r], "ok", ranAt[r])
  BY <1>1, <1>2, <1>3, <1>4, <1>5, IsClosed DEF Shows
<1>7. Jobs' = [Jobs EXCEPT ![r] = JobOf(r)']
  BY <1>2, OneJob
<1>8. Jobs[r].at # Nowhere
  BY <1>1, <1>4, FailoverAssumption
<1> QED
  BY <1>2, <1>4, <1>6, <1>7, <1>8 DEF Router!Answer, Router!TrueAnswers, Jobs

-----------------------------------------------------------------------------

LEMMA RequestStepMaps ==
    ASSUME RInv, TypeOK', NEW r \in Requests, RequestStep(r)
    PROVE  [Router!Next]_(Router!vars)
<1>1. \/ Router!Accept(r) \/ Router!Serve(r) \/ Router!Answer(r)
      \/ Router!AnswerMissing(r) \/ UNCHANGED Router!vars
  BY AuthorizeAccepts, SendFirstMaps, CallSettlesMaps, ResolveMaps, HealAnswers
     DEF RequestStep
<1> QED BY <1>1 DEF Router!Next

LEMMA EnvironmentMaps ==
    ASSUME RInv, Environment \/ UNCHANGED vars
    PROVE  [Router!Next]_(Router!vars)
<1>1. \A q \in Requests : Idle(q)
  BY DEF Environment, Migrate, NodeFails, NodeReturns, OtherCall, TimePasses,
         historyVars, vars, Idle
<1>2. \A q \in Requests : JobOf(q)' = JobOf(q)
  BY <1>1, IdleJob
<1>3. CASE \E v \in Vms, n \in Nodes : Migrate(v, n)
  <2>1. PICK v \in Vms : Router!Move(v)
    BY <1>2, <1>3 DEF Migrate, Router!Move
  <2> QED BY <2>1 DEF Router!Next
<1>4. CASE place' = place
  BY <1>2, <1>4, InvisibleStep
<1>5. (\E v \in Vms, n \in Nodes : Migrate(v, n)) \/ place' = place
  BY DEF Environment, NodeFails, NodeReturns, OtherCall, TimePasses,
         clusterVars, vars
<1> QED BY <1>3, <1>4, <1>5

\* withNodeFailover is invisible but for failures: with its stale rows,
\* breaker, lookup and second run, every request is a job that is served on
\* the node where its VM is, at most once, and truthfully answered.
THEOREM FailoverImplementsRouter == Spec => ImplementsRouter
<1>1. Init => Router!Init
  BY DEF Init, Router!Init, JobOf, Phase
<1>2. RInv /\ RInv' /\ [Next]_vars => [Router!Next]_(Router!vars)
  <2> SUFFICES ASSUME RInv, TypeOK', [Next]_vars
               PROVE  [Router!Next]_(Router!vars)
    BY DEF RInv, IInv
  <2> QED BY RequestStepMaps, EnvironmentMaps DEF Next
<1> QED BY <1>1, <1>2, SpecRInv, PTL DEF Spec, ImplementsRouter, Router!Spec

=============================================================================
