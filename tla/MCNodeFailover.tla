--------------------------- MODULE MCNodeFailover ---------------------------
(* Small instances of NodeFailover. *)
EXTENDS NodeFailover, TLC

CONSTANTS v1, v2, v3, n1, n2, n3, r1, r2, r3

\* Requests are interchangeable, and so are nodes: no action, and no property
\* of the runs that use this set, names one.
SlotsAndNodes == Permutations(Requests) \cup Permutations(Nodes)

\* What the steps and the liveness properties depend on: not the history, which
\* no guard reads, and of a request that is over, with nothing on the wire, only
\* that it is, as Authorize overwrites the rest.
Future == <<breakerVars, clusterVars, cache, wire, faults,
            [r \in Requests |->
                IF req[r].stage \in {"idle", "done"} /\ Quiet(r)
                THEN req[r].stage ELSE req[r]]>>

=============================================================================
