----------------------------- MODULE AuditTrail -----------------------------
(***************************************************************************)
(* The rows that auditLog (src/src/middleware/auditLog.js) inserts into    *)
(* vm_action_audit for the requests of NodeFailover.                       *)
(*                                                                         *)
(* The middleware wraps res.json: in the turn that answers a request it    *)
(* reads vmid and node off req.params and sends the insert, whose outcome  *)
(* is only logged.  A route answers a success with the node it was served  *)
(* on in req.params.  A failure is answered by the error handler, which is *)
(* mounted on the application: on the way out of the router Express has    *)
(* put back the parameters of the outer path, which names neither a vmid   *)
(* nor, for a handler at the root, a node.                                 *)
(***************************************************************************)
EXTENDS NodeFailover

VARIABLE entry      \* [Requests -> the insert for the request's answer]

auditedVars == <<vars, entry>>

NoEntry == [fate |-> "none", node |-> Nowhere, result |-> "none"]

Entry == [fate : {"none", "stored", "refused", "lost"},
          node : Nodes \cup {Nowhere}, result : {"none", "success", "error"}]

AuditedInit ==
    /\ Init
    /\ entry = [r \in Requests |-> NoEntry]

\* auditLog is on the routes that change something.
Audited(kind) == Mutating(kind)

\* A plausible bug: the routes leave the node of the row in req.params.
ParamsNodeStale(r) ==
    IF req'[r].out = "ok" THEN req'[r].node ELSE Nowhere

\* A plausible bug: the node of a second run never gets into req.params.
ParamsNodeOfFirstRun(r) ==
    IF req'[r].out = "ok" /\ req'[r].freshNode = Nowhere
    THEN req'[r].served ELSE Nowhere

\* req.params.node || null in the turn that answers.
ParamsNode(r) == IF req'[r].out = "ok" THEN req'[r].served ELSE Nowhere

AnswersNow(r) == req[r].stage # "done" /\ req'[r].stage = "done"

\* The column node is NOT NULL; an insert that could be stored may be lost to
\* a failing database.
Insert(r, node, result) ==
    \E fate \in IF node = Nowhere THEN {"refused"} ELSE {"stored", "lost"} :
        entry' = [entry EXCEPT ![r] =
                    [fate |-> fate, node |-> node, result |-> result]]

\* The wrapped res.json, in a step of the request.
ResJson(r) ==
    \/ /\ AnswersNow(r)
       /\ Audited(req[r].kind)
       /\ Insert(r, ParamsNode(r),
                 IF req'[r].out = "ok" THEN "success" ELSE "error")
    \/ /\ AnswersNow(r)
       /\ ~Audited(req[r].kind)
       /\ UNCHANGED entry
    \/ /\ ~AnswersNow(r)
       /\ entry' = IF req'[r].stage = "authorized"
                   THEN [entry EXCEPT ![r] = NoEntry] ELSE entry

AuditedNext ==
    \/ Environment /\ UNCHANGED entry
    \/ \E r \in Requests : RequestStep(r) /\ ResJson(r)

AuditedSpec == AuditedInit /\ [][AuditedNext]_auditedVars

-----------------------------------------------------------------------------

AuditedTypeOK == TypeOK /\ entry \in [Requests -> Entry]

\* A row of the trail can be relied on: its action was carried out, once, and
\* on the node the row names, however the VM moved while it was served.
AuditNamesServer ==
    \A r \in Requests :
        entry[r].fate = "stored"
            => /\ entry[r].result = "success"
               /\ execs[r] = 1
               /\ entry[r].node = ranAt[r]

\* No success is lost to the trail but by a failing database: its row has a
\* node, whichever run it was served by and whatever the row of the VM said.
SuccessesAreRecorded ==
    \A r \in Requests :
        /\ req[r].stage = "done" /\ req[r].out = "ok"
        /\ Audited(req[r].kind)
        => entry[r].fate \in {"stored", "lost"}

\* README.md: "every start/stop/shutdown/reboot/reset/suspend/resume/delete/
\* console/... action is recorded to vm_action_audit": if not to a failing
\* database, no answered action that was carried out is lost to the trail.
WhatRanIsRecorded ==
    \A r \in Requests :
        req[r].stage = "done" /\ execs[r] > 0 => entry[r].fate # "refused"

=============================================================================
