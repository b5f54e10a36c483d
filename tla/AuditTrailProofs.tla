-------------------------- MODULE AuditTrailProofs --------------------------
(***************************************************************************)
(* A row of the audit trail can be relied on, and no success is without    *)
(* one, for every number of VMs, nodes, requests, migrations and faults.   *)
(* The trail is written in the turn that answers, so what it says was true *)
(* then; it stays true because a request that changes something has        *)
(* nothing on the wire once it is answered (NodeFailoverProofs, OnceInv).  *)
(***************************************************************************)
EXTENDS AuditTrail, NodeFailoverProofs

\* A change that is reported, or about to be, was carried out.
DoneInv(r) ==
    Mutating(req[r].kind) /\ (req[r].stage = "heal" \/
                              (req[r].stage = "done" /\ req[r].out = "ok"))
        => execs[r] = 1

\* A success names its server.
ServedInv(r) ==
    req[r].stage = "done" /\ req[r].out = "ok" => req[r].served \in Nodes

\* A row belongs to a success, and repeats the node it was answered with.
StoredInv(r) ==
    entry[r].fate = "stored" =>
        /\ req[r].stage = "done" /\ req[r].out = "ok"
        /\ Mutating(req[r].kind)
        /\ entry[r].node = req[r].served
        /\ entry[r].result = "success"

\* The success of a change has an insert, which the database can only lose.
RecordedInv(r) ==
    req[r].stage = "done" /\ req[r].out = "ok" /\ Mutating(req[r].kind)
        => entry[r].fate \in {"stored", "lost"}

EntryInv(r) == StoredInv(r) /\ RecordedInv(r)

AInv ==
    /\ IInv
    /\ \A r \in Requests : DoneInv(r) /\ ServedInv(r)
    /\ entry \in [Requests -> Entry]
    /\ \A r \in Requests : EntryInv(r)

-----------------------------------------------------------------------------
(* DoneInv: the steps of one request.                                      *)

LEMMA SettledKeepsDone ==
    ASSUME IInv, NEW r \in Requests, DoneInv(r), NEW leg \in RunLegs,
           CallSettles(r, leg)
    PROVE  /\ \A q \in Requests \ {r} : Untouched(q)
           /\ DoneInv(r)'
<1>1. /\ TypeOK /\ req[r] \in Request /\ wire[r][leg] > 0 /\ leg \in Legs
      /\ Executes(r, leg) \/ UNCHANGED <<place, historyVars>>
  BY DEF IInv, TypeOK, CallSettles, RunOk, WrongNode, NodeIsDown, CallTimesOut,
         CallFails, clusterVars, Legs
<1>2. \A q \in Requests \ {r} :
        execs'[q] = execs[q] /\ ranAt'[q] = ranAt[q] /\ blank'[q] = blank[q]
  BY <1>1, ExecutesEffect
<1>3. ASSUME Mutating(req[r].kind)
      PROVE  Awaited(r, leg) /\ wire[r][leg] = 1 /\ execs[r] = 0
  BY <1>1, <1>3, MutatingIsAwaited
<1>4. CASE RunOk(r, leg)
  <2>1. /\ \A q \in Requests \ {r} : req'[q] = req[q] /\ wire'[q] = wire[q]
        /\ req'[r].kind = req[r].kind
    BY <1>1, <1>4 DEF RunOk, Answered, TypeOK, Request
  <2>2. ASSUME Mutating(req[r].kind) PROVE execs'[r] = 1
    BY <1>1, <1>3, <1>4, <2>2 DEF RunOk, Executes, TypeOK
  <2> QED BY <1>2, <2>1, <2>2 DEF Untouched, DoneInv
<1>5. ASSUME NEW error, CallFails(r, leg, error)
      PROVE  /\ \A q \in Requests \ {r} : Untouched(q)
             /\ DoneInv(r)'
  <2>1. /\ \A q \in Requests \ {r} : req'[q] = req[q] /\ wire'[q] = wire[q]
        /\ req'[r].kind = req[r].kind
    BY <1>1, <1>5 DEF CallFails, Answered, Finish, TypeOK, Request
  <2>2. ASSUME Mutating(req[r].kind)
        PROVE  /\ req'[r].stage # "heal"
               /\ ~(req'[r].stage = "done" /\ req'[r].out = "ok")
    BY <1>1, <1>3, <1>5, <2>2 DEF CallFails, Finish, TypeOK, Request
  <2> QED BY <1>2, <2>1, <2>2 DEF Untouched, DoneInv
<1> QED BY <1>4, <1>5 DEF CallSettles, WrongNode, NodeIsDown, CallTimesOut

\* A step of r leaves the others alone, and what it reports was carried out.
LEMMA RequestKeepsDone ==
    ASSUME IInv, NEW r \in Requests, DoneInv(r), RequestStep(r)
    PROVE  /\ \A q \in Requests \ {r} : Untouched(q)
           /\ DoneInv(r)'
<1>1. TypeOK /\ req[r] \in Request
  BY DEF IInv, TypeOK
<1>2. CASE \E leg \in RunLegs : CallSettles(r, leg)
  BY <1>2, SettledKeepsDone
<1>3. CASE \E v \in Vms, k \in Kinds : Authorize(r, v, k)
  BY <1>1, <1>3 DEF Authorize, TypeOK, Untouched, DoneInv
<1>4. CASE SendFirst(r)
  BY <1>1, <1>4
     DEF SendFirst, Finish, TypeOK, Request, Untouched, DoneInv, historyVars
<1>5. CASE ResolveOk(r) \/ ResolveFails(r)
  <2>1. \A q \in Requests \ {r} : Untouched(q)
    BY <1>1, <1>5 DEF ResolveOk, GoesOnAt, ResolveFails, Answered, Finish,
                      TypeOK, Untouched, historyVars
  <2>2. /\ req'[r].stage # "heal"
        /\ ~(req'[r].stage = "done" /\ req'[r].out = "ok")
    BY <1>1, <1>5
       DEF ResolveOk, GoesOnAt, ResolveFails, Finish, TypeOK, Request
  <2> QED BY <2>1, <2>2 DEF DoneInv
<1>6. CASE Heal(r)
  BY <1>1, <1>6 DEF Heal, TypeOK, Request, Untouched, DoneInv, historyVars
<1> QED BY <1>2, <1>3, <1>4, <1>5, <1>6 DEF RequestStep

\* What is answered with success was served on a node.
LEMMA RequestKeepsServed ==
    ASSUME IInv, NEW r \in Requests, ServedInv(r), RequestStep(r)
    PROVE  ServedInv(r)'
<1>1. TypeOK /\ req[r] \in Request /\ NodeInv(r)
  BY DEF IInv, TypeOK, RequestInv
<1>2. CASE \E v \in Vms, k \in Kinds : Authorize(r, v, k)
  BY <1>1, <1>2 DEF Authorize, TypeOK, ServedInv
<1>3. CASE \E leg \in RunLegs : RunOk(r, leg)
  BY <1>1, <1>3
     DEF RunOk, Awaited, NodeInv, TypeOK, Request, ServedInv, RunLegs
<1>4. ASSUME NEW leg \in RunLegs, NEW error, CallFails(r, leg, error)
      PROVE  ServedInv(r)'
  BY <1>1, <1>4 DEF CallFails, Finish, TypeOK, Request, ServedInv
<1>5. CASE SendFirst(r) \/ ResolveOk(r) \/ ResolveFails(r)
  BY <1>1, <1>5
     DEF SendFirst, ResolveOk, GoesOnAt, ResolveFails, Finish, TypeOK, Request,
         ServedInv
<1>6. CASE Heal(r)
  BY <1>1, <1>6 DEF Heal, NodeInv, TypeOK, Request, ServedInv
<1> QED
  BY <1>2, <1>3, <1>4, <1>5, <1>6
     DEF RequestStep, CallSettles, WrongNode, NodeIsDown, CallTimesOut

\* An answered change is over: no call of it is on the wire.
LEMMA AnsweredChangeRests ==
    ASSUME IInv, NEW r \in Requests, RequestStep(r),
           req[r].stage = "done", Mutating(req[r].kind)
    PROVE  req'[r].stage = "authorized"
<1>1. TypeOK /\ \A leg \in Legs : wire[r][leg] = 0
  BY DEF IInv, TypeOK, RequestInv, WireInv, OnceInv, Legs, RunLegs
<1>2. \A leg \in RunLegs : ~CallSettles(r, leg)
  BY <1>1 DEF CallSettles, RunOk, WrongNode, NodeIsDown, CallTimesOut, CallFails,
              Legs
<1>3. ~SendFirst(r) /\ ~ResolveOk(r) /\ ~ResolveFails(r) /\ ~Heal(r)
  BY <1>1 DEF SendFirst, ResolveOk, ResolveFails, Heal, Legs
<1> QED BY <1>1, <1>2, <1>3 DEF RequestStep, Authorize, TypeOK

-----------------------------------------------------------------------------
(* EntryInv: the insert.                                                   *)

LEMMA InsertEffect ==
    ASSUME entry \in [Requests -> Entry], NEW r \in Requests,
           NEW n \in Nodes \cup {Nowhere}, NEW result \in {"success", "error"},
           Insert(r, n, result)
    PROVE  /\ entry' \in [Requests -> Entry]
           /\ entry'[r].node = n /\ entry'[r].result = result
           /\ entry'[r].fate = "stored" => n # Nowhere
           /\ n # Nowhere => entry'[r].fate \in {"stored", "lost"}
           /\ \A q \in Requests \ {r} : entry'[q] = entry[q]
<1>1. PICK fate \in {"stored", "refused", "lost"} :
        /\ fate = "stored" => n # Nowhere
        /\ n # Nowhere => fate # "refused"
        /\ entry' = [entry EXCEPT ![r] = [fate |-> fate, node |-> n,
                                          result |-> result]]
  BY DEF Insert
<1> QED BY <1>1 DEF Entry

\* A request keeps its kind until the slot is used again.
LEMMA KindIsKept ==
    ASSUME TypeOK, NEW r \in Requests, RequestStep(r)
    PROVE  req'[r].stage = "authorized" \/ req'[r].kind = req[r].kind
<1>1. req[r] \in Request
  BY DEF TypeOK
<1>2. CASE \E v \in Vms, k \in Kinds : Authorize(r, v, k)
  BY <1>2 DEF Authorize, TypeOK
<1>3. CASE \E leg \in RunLegs : CallSettles(r, leg)
  <2>1. CASE \E leg \in RunLegs : RunOk(r, leg)
    BY <1>1, <2>1 DEF RunOk, TypeOK, Request
  <2>2. ASSUME NEW leg \in RunLegs, NEW error, CallFails(r, leg, error)
        PROVE  req'[r].kind = req[r].kind
    BY <1>1, <2>2 DEF CallFails, Finish, TypeOK, Request
  <2> QED
    BY <1>3, <2>1, <2>2 DEF CallSettles, WrongNode, NodeIsDown, CallTimesOut
<1>4. CASE SendFirst(r) \/ Heal(r)
  BY <1>1, <1>4 DEF SendFirst, Heal, Finish, TypeOK, Request
<1>5. CASE ResolveOk(r) \/ ResolveFails(r)
  BY <1>1, <1>5
     DEF ResolveOk, GoesOnAt, ResolveFails, Finish, TypeOK, Request
<1> QED BY <1>2, <1>3, <1>4, <1>5 DEF RequestStep

LEMMA ResJsonKeepsEntries ==
    ASSUME AInv, TypeOK', NEW r \in Requests, RequestStep(r), ResJson(r),
           ServedInv(r)', \A q \in Requests \ {r} : Untouched(q)
    PROVE  entry' \in [Requests -> Entry] /\ \A q \in Requests : EntryInv(q)'
<1>1. /\ IInv /\ entry \in [Requests -> Entry]
      /\ \A q \in Requests : StoredInv(q) /\ RecordedInv(q)
  BY DEF AInv, EntryInv
<1>2. SUFFICES /\ entry' \in [Requests -> Entry]
               /\ StoredInv(r)' /\ RecordedInv(r)'
               /\ \A q \in Requests \ {r} : entry'[q] = entry[q]
  BY <1>1 DEF EntryInv, StoredInv, RecordedInv, Untouched
<1>3. req'[r].stage = "done" => req'[r].kind = req[r].kind
  BY <1>1, KindIsKept DEF IInv
<1>4. CASE AnswersNow(r) /\ Audited(req[r].kind)
  <2>1. ParamsNode(r) \in Nodes \cup {Nowhere}
    BY DEF ParamsNode, TypeOK, Request
  <2>2. Insert(r, ParamsNode(r),
               IF req'[r].out = "ok" THEN "success" ELSE "error")
    BY <1>4 DEF ResJson
  <2>3. /\ entry' \in [Requests -> Entry]
        /\ entry'[r].node = ParamsNode(r)
        /\ entry'[r].result = IF req'[r].out = "ok" THEN "success" ELSE "error"
        /\ entry'[r].fate = "stored" => ParamsNode(r) # Nowhere
        /\ ParamsNode(r) # Nowhere => entry'[r].fate \in {"stored", "lost"}
        /\ \A q \in Requests \ {r} : entry'[q] = entry[q]
    BY <1>1, <2>1, <2>2, InsertEffect
  <2>4. StoredInv(r)'
    BY <1>3, <1>4, <2>3 DEF StoredInv, ParamsNode, Audited, AnswersNow
  <2>5. RecordedInv(r)'
    BY <2>3, FailoverAssumption DEF RecordedInv, ServedInv, ParamsNode
  <2> QED BY <2>3, <2>4, <2>5
<1>5. CASE AnswersNow(r) /\ ~Audited(req[r].kind)
  <2>1. entry' = entry
    BY <1>5 DEF ResJson
  <2>2. entry[r].fate # "stored"
    BY <1>1, <1>5 DEF StoredInv, AnswersNow
  <2>3. RecordedInv(r)'
    BY <1>3, <1>5 DEF RecordedInv, Audited
  <2> QED BY <1>1, <2>1, <2>2, <2>3 DEF StoredInv
<1>6. CASE ~AnswersNow(r) /\ req'[r].stage = "authorized"
  BY <1>1, <1>6 DEF ResJson, NoEntry, Entry, StoredInv, RecordedInv
<1>7. CASE ~AnswersNow(r) /\ req'[r].stage # "authorized"
  <2>1. entry' = entry
    BY <1>7 DEF ResJson
  <2>2. ~(req[r].stage = "done" /\ Mutating(req[r].kind))
    BY <1>1, <1>7, AnsweredChangeRests
  <2>3. StoredInv(r)'
    BY <1>1, <2>1, <2>2 DEF StoredInv
  <2>4. RecordedInv(r)'
    BY <1>3, <1>7, <2>2 DEF RecordedInv, AnswersNow
  <2> QED BY <1>1, <2>1, <2>3, <2>4
<1> QED BY <1>4, <1>5, <1>6, <1>7

LEMMA AuditedNextKeepsAInv == AInv /\ [AuditedNext]_auditedVars => AInv'
<1> SUFFICES ASSUME AInv, [AuditedNext]_auditedVars PROVE AInv'
  OBVIOUS
<1>1. IInv /\ [Next]_vars
  BY DEF AInv, AuditedNext, auditedVars, Next
<1>2. IInv' /\ TypeOK'
  BY <1>1, NextKeepsIInv DEF IInv
<1>3. CASE (Environment \/ UNCHANGED vars) /\ UNCHANGED entry
  <2>1. req' = req /\ execs' = execs
    BY <1>3 DEF Environment, Migrate, NodeFails, NodeReturns, OtherCall,
                TimePasses, historyVars, vars
  <2> QED BY <1>2, <1>3, <2>1
       DEF AInv, DoneInv, ServedInv, EntryInv, StoredInv, RecordedInv
<1>4. ASSUME NEW r \in Requests, RequestStep(r), ResJson(r) PROVE AInv'
  <2>1. /\ DoneInv(r)' /\ ServedInv(r)'
        /\ \A q \in Requests \ {r} : Untouched(q)
    BY <1>1, <1>4, RequestKeepsDone, RequestKeepsServed DEF AInv
  <2>2. \A q \in Requests : DoneInv(q)' /\ ServedInv(q)'
    BY <2>1 DEF AInv, DoneInv, ServedInv, Untouched
  <2>3. entry' \in [Requests -> Entry] /\ \A q \in Requests : EntryInv(q)'
    BY <1>2, <1>4, <2>1, ResJsonKeepsEntries
  <2> QED BY <1>2, <2>2, <2>3 DEF AInv
<1> QED BY <1>3, <1>4 DEF AuditedNext, auditedVars

-----------------------------------------------------------------------------

LEMMA SpecAInv == AuditedSpec => []AInv
<1>1. AuditedInit => AInv
  BY InitIInv
     DEF AuditedInit, AInv, Init, DoneInv, ServedInv, EntryInv, StoredInv,
         RecordedInv, NoEntry, Entry, Mutating
<1> QED BY <1>1, AuditedNextKeepsAInv, PTL DEF AuditedSpec

\* A row of the trail can be relied on: its action was carried out, once, and
\* on the node that the row names, however the VM moved meanwhile.
THEOREM TrailIsTrue == AuditedSpec => []AuditNamesServer
<1>1. AInv => AuditNamesServer
  BY DEF AInv, IInv, RequestInv, NodeInv, DoneInv, EntryInv, StoredInv,
         AuditNamesServer
<1> QED BY <1>1, SpecAInv, PTL

\* Every change that is answered with success has its row, unless the database
\* itself lost it: the column node is never null then.
THEOREM SuccessesReachTheTrail == AuditedSpec => []SuccessesAreRecorded
<1>1. AInv => SuccessesAreRecorded
  BY DEF AInv, EntryInv, RecordedInv, Audited, SuccessesAreRecorded
<1> QED BY <1>1, SpecAInv, PTL

=============================================================================
