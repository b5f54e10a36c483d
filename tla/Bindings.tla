------------------------------ MODULE Bindings ------------------------------
(***************************************************************************)
(* Binding VM records to VMs: POST /vms/:vmId/bindings of                  *)
(* src/src/routes/admin.js, a chain of database calls without transaction, *)
(* interleaved with itself, with the heals of other requests and with      *)
(* scripts/backfill-vm-passwords.js, over the tables of schema.sql.        *)
(*                                                                         *)
(* One action is one database call with the code up to the next one.  The  *)
(* answer may get lost after the call took effect.  supabase-js does not   *)
(* throw: what becomes of an error is up to the code that reads it.        *)
(***************************************************************************)
EXTENDS Naturals, Sequences, FiniteSets

CONSTANTS
    Records,        \* ids of rows of vms
    Customer,       \* [Records -> customers]: vms.customer_id, or None
    None,
    Legacy,         \* records with a plaintext password from before encryption
    Vmids,
    Nodes,
    Binders,        \* slots: how many bindings can be in progress at once
    MaxBindings     \* bound on bindings

ASSUME BindingsAssumption ==
    /\ DOMAIN Customer = Records
    /\ Legacy \subseteq Records
    /\ None \notin Vmids \cup Nodes \cup Records
    /\ MaxBindings \in Nat

VARIABLES
    vms,        \* [Records -> columns of vms that are written here]
    rows,       \* vm_ownership; a row's id is its index, rows are never deleted
    binder,     \* [Binders -> the locals of the handler]
    script,     \* the backfill script
    raced,      \* history: VMs two of whose bindings found no row together
    bound,      \* history: which record was ever bound to which VM
    bindings    \* bindings so far

databaseVars == <<vms, rows>>
historyVars == <<raced, bound>>
vars == <<databaseVars, binder, script, historyVars, bindings>>

Stages == {"idle", "update", "password", "find", "write", "audit"}

\* alone: nothing has interfered with the binding so far (history).
Idle == [stage |-> "idle", rec |-> None, vmid |-> None, node |-> None,
         found |-> 0, alone |-> TRUE]

\* The script's password of rec was overtaken if a binding has stored a newer
\* one since (history).
Off == [stage |-> "off", todo |-> {}, rec |-> None, failed |-> FALSE,
        overtaken |-> FALSE]

RowsOf(v) == {i \in DOMAIN rows : rows[i].vmid = v}

\* A plausible bug: the table has no unique (node, vmid).
ViolatesNothing(v, n, i) == FALSE

\* unique (node, vmid), were row i to become the row of v on n.
Violates(v, n, i) == \E j \in RowsOf(v) \ {i} : rows[j].node = n

\* The columns of vms that are written here: plain is whether vm_password is
\* set, encrypted which password vm_password_encrypted holds.
VmRecord == [vmid : Vmids \cup {None}, node : Nodes \cup {None},
             plain : BOOLEAN, encrypted : {"none", "old", "new"}]

Row == [vmid : Vmids, node : Nodes,
        owner : {Customer[r] : r \in Records} \ {None}]

Locals == [stage : Stages, rec : Records \cup {None}, vmid : Vmids \cup {None},
           node : Nodes \cup {None}, found : Nat, alone : BOOLEAN]

ScriptState == [stage : {"off", "loop", "holding", "done"},
                todo : SUBSET Records, rec : Records \cup {None},
                failed : BOOLEAN, overtaken : BOOLEAN]

TypeOK ==
    /\ vms \in [Records -> VmRecord]
    /\ rows \in Seq(Row)
    /\ \A i, j \in DOMAIN rows :
          rows[i].vmid = rows[j].vmid /\ rows[i].node = rows[j].node => i = j
    /\ binder \in [Binders -> Locals]
    /\ script \in ScriptState
    /\ raced \subseteq Vmids
    /\ bound \subseteq Records \X Vmids
    /\ bindings \in 0 .. MaxBindings

\* Records as the portal has inserted them.
Init ==
    /\ vms = [r \in Records |-> [vmid |-> None, node |-> None,
                                 plain |-> r \in Legacy, encrypted |-> "none"]]
    /\ rows = <<>>
    /\ binder = [b \in Binders |-> Idle]
    /\ script = Off
    /\ raced = {}
    /\ bound = {}
    /\ bindings = 0

-----------------------------------------------------------------------------
(* The handler of POST /vms/:vmId/bindings.                                *)

Busy == {b \in Binders : binder[b].stage # "idle"}

At(b, stage) == binder[b].stage = stage

Proceed(b, stage) == binder' = [binder EXCEPT ![b].stage = stage]

\* res.json or next(err): the locals are gone.
Answer(b) == binder' = [binder EXCEPT ![b] = Idle]

\* The bindings in progress that concern the same record or the same VM.
Rivals(r, v) == {b \in Busy : binder[b].rec = r \/ binder[b].vmid = v}

Disturbed(busy) ==
    [b \in Binders |-> [binder[b] EXCEPT !.alone = @ /\ b \notin busy]]

\* The request is valid and the record has a customer; if not, it is answered
\* with an error and nothing has changed.
Start(b, r, v, n) ==
    /\ At(b, "idle")
    /\ Customer[r] # None
    /\ bindings < MaxBindings
    /\ bindings' = bindings + 1
    /\ binder' = [Disturbed(Rivals(r, v)) EXCEPT ![b] =
                    [stage |-> "update", rec |-> r, vmid |-> v, node |-> n,
                     found |-> 0, alone |-> Rivals(r, v) = {}]]
    /\ UNCHANGED <<databaseVars, script, raced, bound>>

\* A call of b that takes effect or fails; a call that fails may have taken
\* effect all the same.  Its error is thrown.
Call(b, effect, noEffect, next) ==
    \/ effect /\ Proceed(b, next)
    \/ (effect \/ noEffect) /\ Answer(b)

WriteRecord(b) ==
    /\ vms' = [vms EXCEPT ![binder[b].rec].vmid = binder[b].vmid,
                          ![binder[b].rec].node = binder[b].node]
    /\ bound' = bound \cup {<<binder[b].rec, binder[b].vmid>>}

\* A plausible bug: the error of the update is not looked at.
UpdateRecordUnchecked(b) ==
    /\ At(b, "update")
    /\ Proceed(b, "password") \/ Proceed(b, "find")
    /\ WriteRecord(b) \/ UNCHANGED <<vms, bound>>
    /\ UNCHANGED <<rows, script, raced, bindings>>

\* What follows depends on whether the request has a password.
UpdateRecord(b) ==
    /\ At(b, "update")
    /\ \E next \in {"password", "find"} :
          Call(b, WriteRecord(b), UNCHANGED <<vms, bound>>, next)
    /\ UNCHANGED <<rows, script, raced, bindings>>

\* The function set_vm_password of the database.
SetVmPassword(r, password) ==
    vms' = [vms EXCEPT ![r].encrypted = password, ![r].plain = FALSE]

StorePassword(b) ==
    /\ SetVmPassword(binder[b].rec, "new")
    /\ script' = IF script.stage = "holding" /\ script.rec = binder[b].rec
                 THEN [script EXCEPT !.overtaken = TRUE] ELSE script

SetPassword(b) ==
    /\ At(b, "password")
    /\ Call(b, StorePassword(b), UNCHANGED <<vms, script>>, "find")
    /\ UNCHANGED <<rows, historyVars, bindings>>

\* A plausible bug: the row is looked up by its unique key.
RowsFoundByKey(b) ==
    {i \in RowsOf(binder[b].vmid) : rows[i].node = binder[b].node}

RowsFound(b) == RowsOf(binder[b].vmid)

\* maybeSingle: no row, one row, or an error, as when there are two.
FindOwnership(b) ==
    /\ At(b, "find")
    /\ \/ /\ Cardinality(RowsFound(b)) <= 1
          /\ \E i \in IF RowsFound(b) = {} THEN {0} ELSE RowsFound(b) :
                binder' = [binder EXCEPT ![b].stage = "write", ![b].found = i]
          /\ raced' = raced \cup {binder[c].vmid : c \in
                        {c \in Rivals(None, binder[b].vmid) :
                            At(c, "write") /\ RowsFound(b) = {}}}
       \/ Answer(b) /\ UNCHANGED raced
    /\ UNCHANGED <<databaseVars, script, bound, bindings>>

Fields(b) == [vmid |-> binder[b].vmid, node |-> binder[b].node,
              owner |-> Customer[binder[b].rec]]

\* A plausible bug: a row that exists keeps its owner.
WriteRowKeepsOwner(b) ==
    rows' = IF binder[b].found = 0
            THEN Append(rows, Fields(b))
            ELSE [rows EXCEPT ![binder[b].found].node = binder[b].node]

\* The row that was found becomes this binding's, or a new row is inserted.
WriteRow(b) ==
    rows' = IF binder[b].found = 0
            THEN Append(rows, Fields(b))
            ELSE [rows EXCEPT ![binder[b].found] = Fields(b)]

WriteOwnership(b) ==
    /\ At(b, "write")
    /\ LET refused == Violates(binder[b].vmid, binder[b].node, binder[b].found)
       IN \/ ~refused /\ Call(b, WriteRow(b), UNCHANGED rows, "audit")
          \/ refused /\ Answer(b) /\ UNCHANGED rows
    /\ UNCHANGED <<vms, script, historyVars, bindings>>

\* Nobody looks whether the insert into vm_action_audit succeeds.  It does not
\* where the table is as schema.sql has it: performed_by_role is no column.
AuditAndAnswer(b) ==
    /\ At(b, "audit")
    /\ Answer(b)
    /\ UNCHANGED <<databaseVars, script, historyVars, bindings>>

BinderStep(b) ==
    \/ \E r \in Records, v \in Vmids, n \in Nodes : Start(b, r, v, n)
    \/ UpdateRecord(b)
    \/ SetPassword(b)
    \/ FindOwnership(b)
    \/ WriteOwnership(b)
    \/ AuditAndAnswer(b)

-----------------------------------------------------------------------------
(* The self-heal of a request whose retry found v on n.  It updates every  *)
(* row of v to the same node, which the constraint refuses if there are    *)
(* two.                                                                    *)

Heal(v, n) ==
    /\ \E i \in RowsOf(v) :
          /\ RowsOf(v) = {i}
          /\ rows[i].node # n
          /\ rows' = [rows EXCEPT ![i].node = n]
    /\ binder' = Disturbed(Rivals(None, v))
    /\ UNCHANGED <<vms, script, raced, bound, bindings>>

-----------------------------------------------------------------------------
(* scripts/backfill-vm-passwords.js --apply, which may be run repeatedly.  *)

\* The list of the rows to encrypt, or exit 1.
BackfillList ==
    /\ script.stage \in {"off", "done"}
    /\ script' \in
          {[Off EXCEPT !.stage = "loop",
                       !.todo = {r \in Records : vms[r].plain
                                    /\ vms[r].encrypted = "none"}],
           [Off EXCEPT !.stage = "done", !.failed = TRUE]}
    /\ UNCHANGED <<databaseVars, binder, historyVars, bindings>>

\* A plausible bug: the passwords were read with the list.
BackfillFetchFromList(r) ==
    /\ script.stage = "loop"
    /\ r \in script.todo
    /\ script' = [script EXCEPT !.stage = "holding", !.todo = @ \ {r},
                                !.rec = r]
    /\ UNCHANGED <<databaseVars, binder, historyVars, bindings>>

\* The password is fetched just in time; a row whose password is gone by
\* then, or cannot be read, is skipped.
BackfillFetch(r) ==
    /\ script.stage = "loop"
    /\ r \in script.todo
    /\ \/ /\ vms[r].plain
          /\ script' = [script EXCEPT !.stage = "holding", !.todo = @ \ {r},
                                      !.rec = r]
       \/ script' = [script EXCEPT !.todo = @ \ {r}, !.failed = TRUE]
    /\ UNCHANGED <<databaseVars, binder, historyVars, bindings>>

Encrypted(failed) ==
    script' = [script EXCEPT !.stage = "loop", !.rec = None,
                             !.overtaken = FALSE, !.failed = @ \/ failed]

\* A plausible bug: an error of the call counts as a success.
BackfillEncryptUnchecked ==
    /\ script.stage = "holding"
    /\ SetVmPassword(script.rec, "old") \/ UNCHANGED vms
    /\ Encrypted(FALSE)
    /\ UNCHANGED <<rows, binder, historyVars, bindings>>

BackfillEncrypt ==
    /\ script.stage = "holding"
    /\ \/ SetVmPassword(script.rec, "old") /\ Encrypted(FALSE)
       \/ (SetVmPassword(script.rec, "old") \/ UNCHANGED vms)
             /\ Encrypted(TRUE)
    /\ UNCHANGED <<rows, binder, historyVars, bindings>>

\* The end of the loop, with exit code 1 if a row failed; or the operator
\* stops the script.
BackfillExit ==
    /\ \/ /\ script.stage = "loop" /\ script.todo = {}
          /\ script' = [script EXCEPT !.stage = "done"]
       \/ /\ script.stage \in {"loop", "holding"}
          /\ script' = [Off EXCEPT !.stage = "done", !.failed = TRUE]
    /\ UNCHANGED <<databaseVars, binder, historyVars, bindings>>

Backfill ==
    \/ BackfillList
    \/ \E r \in Records : BackfillFetch(r)
    \/ BackfillEncrypt
    \/ BackfillExit

Next ==
    \/ \E b \in Binders : BinderStep(b)
    \/ \E v \in Vmids, n \in Nodes : Heal(v, n)
    \/ Backfill

Spec == Init /\ [][Next]_vars

-----------------------------------------------------------------------------
(* What the other routes make of the tables.                               *)

\* The node of the row that single() or maybeSingle() returns, if any.
Single(found) ==
    IF Cardinality(found) = 1
    THEN rows[CHOOSE i \in found : TRUE].node ELSE None

\* authorizeVm for a customer, by vmid.
OwnLane(c, v) == Single({i \in RowsOf(v) : rows[i].owner = c})

\* authorizeVmByRecord for a customer, by the row's id.
RecordLane(c, i) == Single({j \in DOMAIN rows : j = i /\ rows[j].owner = c})

\* authorizeVm for staff, by vmid; without a node the cluster is asked.
StaffLane(v) == Single(RowsOf(v))

\* GET /nodes/:node: a customer may see the nodes of their VMs.
MaySeeNode(c, n) ==
    \E i \in DOMAIN rows : rows[i].owner = c /\ rows[i].node = n

-----------------------------------------------------------------------------

\* A VM has two rows, which no later call can tell apart or repair, only if
\* one of its bindings looked for a row between the look and the insert of
\* another; never by bindings that follow each other, whatever failed,
\* migrated or was bound to another node in between.
DuplicatesNeedARace ==
    \A v \in Vmids \ raced : Cardinality(RowsOf(v)) <= 1

\* A binding that no other binding of the record or the VM and no heal has
\* interfered with is as good as atomic, whatever was lost or failed before it:
\* record and row agree, and every lane leads to the node.
BoundWhenAlone ==
    \A b \in Binders : At(b, "audit") /\ binder[b].alone =>
        LET r == binder[b].rec
            v == binder[b].vmid
            n == binder[b].node
        IN /\ vms[r].vmid = v
           /\ vms[r].node = n
           /\ StaffLane(v) = n
           /\ OwnLane(Customer[r], v) = n
           /\ \E i \in RowsOf(v) : RecordLane(Customer[r], i) = n
           /\ MaySeeNode(Customer[r], n)

\* Nobody owns a VM without a record of theirs that was bound to it at some
\* time: whichever call of a binding fails, the ownership comes after the record.
OwnersHaveARecord ==
    \A i \in DOMAIN rows : \E r \in Records :
        Customer[r] = rows[i].owner /\ <<r, rows[i].vmid>> \in bound

\* The script replaces a password set by a binding only if that was stored
\* in the one round trip between its own fetch and its own call.
BackfillKeepsNewPasswords ==
    [][\A r \in Records :
          vms[r].encrypted = "new" /\ vms'[r].encrypted = "old"
              => script.rec = r /\ script.overtaken]_vars

\* A run that exits with 0 has left no plaintext password, whatever bindings
\* stored meanwhile and whichever answers were lost.
CleanExitMeansNoPlaintext ==
    script.stage = "done" /\ ~script.failed
        => \A r \in Records : ~vms[r].plain

-----------------------------------------------------------------------------
(* The promise: the tables are an account of VmLedger.                     *)

HolderOf(v) ==
    IF v \in raced THEN [state |-> "torn", node |-> None, owner |-> None]
    ELSE IF RowsOf(v) = {}
         THEN [state |-> "vacant", node |-> None, owner |-> None]
    ELSE LET row == rows[CHOOSE i \in RowsOf(v) : TRUE]
         IN [state |-> "held", node |-> row.node, owner |-> row.owner]

AssignmentOf(r) == [vmid |-> vms[r].vmid, node |-> vms[r].node]

Ledger == INSTANCE VmLedger
    WITH assigned <- [r \in Records |-> AssignmentOf(r)],
         named <- bound,
         holder <- [v \in Vmids |-> HolderOf(v)]

\* Whatever calls fail or lose their answers, and however bindings, heals and
\* the backfill interleave: record and row each change as a whole, ownership
\* only goes to the customer of a record that already names the VM, a heal
\* never changes it, and a race can spoil only the first grant of a VM.
ImplementsLedger == Ledger!Spec

=============================================================================
