------------------------------ MODULE VmRouter ------------------------------
(***************************************************************************)
(* What a caller of the VM routes is promised, with neither rows, breaker, *)
(* calls nor retries: a job is served on the node where its VM is at that  *)
(* moment, at most once if it changes anything, and its answer is true.    *)
(* NodeFailover implements it.                                             *)
(***************************************************************************)
EXTENDS Naturals

CONSTANTS Vms, Nodes, Requests, Nowhere

VARIABLES
    place,      \* [Vms -> Nodes or Nowhere]
    job         \* [Requests -> what has become of the request]

vars == <<place, job>>

Tasks == {"reads", "changes", "removes"}

Init ==
    /\ place \in [Vms -> Nodes]
    /\ \A r \in Requests : job[r].phase = "free"

Accept(r) ==
    /\ job[r].phase # "open"
    /\ \E v \in Vms, task \in Tasks :
          job' = [job EXCEPT ![r] =
                    [phase |-> "open", vm |-> v, task |-> task, effects |-> 0,
                     at |-> Nowhere, answer |-> "none", node |-> Nowhere,
                     blank |-> FALSE]]
    /\ UNCHANGED place

Closed(j, answer, node) ==
    [j EXCEPT !.phase = "answered", !.answer = answer, !.node = node]

\* The answers that are true of a job: success on the node that served it, or
\* a failure, which says nothing about what was done.
TrueAnswers(j) ==
    {Closed(j, "failed", Nowhere)} \cup
    (IF j.at = Nowhere THEN {} ELSE {Closed(j, "ok", j.at)})

Served(j) ==
    [j EXCEPT !.at = place[j.vm],
              !.effects = IF j.task = "reads" THEN 0 ELSE 1]

\* A job is served, and answered at once or later.
Serve(r) ==
    LET j == job[r] IN
    /\ j.phase = "open"
    /\ place[j.vm] # Nowhere
    /\ j.effects = 0
    /\ \E after \in {Served(j)} \cup TrueAnswers(Served(j)) :
          job' = [job EXCEPT ![r] = after]
    /\ place' = IF j.task = "removes"
                THEN [place EXCEPT ![j.vm] = Nowhere] ELSE place

Answer(r) ==
    /\ job[r].phase = "open"
    /\ \E after \in TrueAnswers(job[r]) : job' = [job EXCEPT ![r] = after]
    /\ UNCHANGED place

\* A VM is reported missing if it is gone, or if the cluster was asked and
\* had no list to give, which the job remembers.
AnswerMissing(r) ==
    /\ job[r].phase = "open"
    /\ \E blank \in BOOLEAN :
          /\ blank \/ place[job[r].vm] = Nowhere
          /\ job' = [job EXCEPT ![r] =
                        [Closed(job[r], "missing", Nowhere)
                            EXCEPT !.blank = blank]]
    /\ UNCHANGED place

\* A VM moves; one that is gone never comes back.
Move(v) ==
    /\ place[v] # Nowhere
    /\ \E n \in Nodes : place' = [place EXCEPT ![v] = n]
    /\ UNCHANGED job

Next ==
    \/ \E r \in Requests :
          Accept(r) \/ Serve(r) \/ Answer(r) \/ AnswerMissing(r)
    \/ \E v \in Vms : Move(v)

Spec == Init /\ [][Next]_vars

=============================================================================
