--------------------------- MODULE BindingsProofs ---------------------------
(***************************************************************************)
(* The safety of the bindings for any number of records, VMs, nodes and    *)
(* bindings in progress.  The tables are only ever extended: no row is     *)
(* deleted, a row stays that of its VM, and what was bound was bound.  So  *)
(* a handler's knowledge stays true while it waits, and a step has to be   *)
(* examined for the handler that takes it.                                 *)
(***************************************************************************)
EXTENDS Bindings, FiniteSetTheorems, SequenceTheorems, TLAPS

-----------------------------------------------------------------------------
(* The invariant.                                                          *)

\* What the handler knows of its request, of the record it has updated and of
\* the row it has found.
LocalInv(b) ==
    /\ ~At(b, "idle") =>
        /\ binder[b].rec \in Records
        /\ binder[b].vmid \in Vmids
        /\ binder[b].node \in Nodes
        /\ Customer[binder[b].rec] # None
    /\ binder[b].stage \in {"password", "find", "write", "audit"}
        => <<binder[b].rec, binder[b].vmid>> \in bound
    /\ At(b, "write") /\ binder[b].found # 0
        => binder[b].found \in RowsOf(binder[b].vmid)

\* b has found no row of v.
FoundNone(b, v) == At(b, "write") /\ binder[b].vmid = v /\ binder[b].found = 0

\* Without a race a VM has one row at most, and a binding that has found none
\* is the only one and still right.
SoloInv(v) ==
    /\ \A i, j \in RowsOf(v) : i = j
    /\ \A b \in Binders : FoundNone(b, v) =>
        /\ RowsOf(v) = {}
        /\ \A c \in Binders : FoundNone(c, v) => c = b

OwnersInv ==
    /\ \A i \in DOMAIN rows : \E r \in Records :
          Customer[r] = rows[i].owner /\ <<r, rows[i].vmid>> \in bound
    /\ \A r \in Records : vms[r].vmid # None => <<r, vms[r].vmid>> \in bound

\* A plaintext password was never encrypted, the script still has it on its
\* list unless a row failed, and what it holds is the newest unless overtaken.
PasswordInv ==
    /\ \A r \in Records : vms[r].plain => vms[r].encrypted = "none"
    /\ script.stage # "off" /\ ~script.failed =>
        \A r \in Records : vms[r].plain => r \in script.todo \/
                              (script.stage = "holding" /\ r = script.rec)
    /\ script.stage = "done" => script.todo = {}
    /\ script.stage = "holding" =>
        /\ script.rec \in Records
        /\ vms[script.rec].encrypted = "new" => script.overtaken

BInv ==
    /\ TypeOK
    /\ \A b \in Binders : LocalInv(b)
    /\ \A v \in Vmids \ raced : SoloInv(v)
    /\ OwnersInv
    /\ PasswordInv

-----------------------------------------------------------------------------
(* Updates and their types.                                                *)

\* What is in the tables stays there.
Grows ==
    /\ bound \subseteq bound'
    /\ \A v \in Vmids : RowsOf(v) \subseteq RowsOf(v)'

\* A handler that a step leaves alone, but perhaps for the history.
Waits(b) ==
    /\ binder'[b].stage = binder[b].stage
    /\ binder'[b].rec = binder[b].rec
    /\ binder'[b].vmid = binder[b].vmid
    /\ binder'[b].node = binder[b].node
    /\ binder'[b].found = binder[b].found

LEMMA WaitingKeepsLocalInv ==
    ASSUME NEW b \in Binders, LocalInv(b), Waits(b), Grows
    PROVE  LocalInv(b)'
BY DEF LocalInv, Waits, Grows, At

LEMMA DisturbedType ==
    ASSUME TypeOK, NEW busy
    PROVE  /\ Disturbed(busy) \in [Binders -> Locals]
           /\ \A b \in Binders :
                /\ Disturbed(busy)[b].stage = binder[b].stage
                /\ Disturbed(busy)[b].rec = binder[b].rec
                /\ Disturbed(busy)[b].vmid = binder[b].vmid
                /\ Disturbed(busy)[b].node = binder[b].node
                /\ Disturbed(busy)[b].found = binder[b].found
                /\ Disturbed(busy)[b].alone = (binder[b].alone /\ b \notin busy)
<1>1. \A b \in Binders : (binder[b].alone /\ b \notin busy) \in BOOLEAN
  OBVIOUS
<1>2. binder \in [Binders -> Locals]
  BY DEF TypeOK
<1> QED BY <1>1, <1>2 DEF Disturbed, Locals

LEMMA ProceedEffect ==
    ASSUME TypeOK, NEW b \in Binders, NEW s \in Stages, Proceed(b, s)
    PROVE  /\ binder' \in [Binders -> Locals]
           /\ binder'[b] = [binder[b] EXCEPT !.stage = s]
           /\ binder'[b].stage = s
           /\ binder'[b].rec = binder[b].rec
           /\ binder'[b].vmid = binder[b].vmid
           /\ binder'[b].node = binder[b].node
           /\ binder'[b].found = binder[b].found
           /\ binder'[b].alone = binder[b].alone
           /\ \A c \in Binders \ {b} : binder'[c] = binder[c]
<1>1. binder[b] \in Locals
  BY DEF TypeOK
<1> QED BY <1>1 DEF TypeOK, Proceed, Locals

LEMMA AnswerEffect ==
    ASSUME TypeOK, NEW b \in Binders, Answer(b)
    PROVE  /\ binder' \in [Binders -> Locals]
           /\ binder'[b] = Idle
           /\ binder'[b].stage = "idle"
           /\ \A c \in Binders \ {b} : binder'[c] = binder[c]
<1>1. Idle \in Locals /\ Idle.stage = "idle"
  BY DEF Idle, Locals, Stages
<1> QED BY <1>1 DEF TypeOK, Answer

LEMMA WriteRecordEffect ==
    ASSUME TypeOK, NEW b \in Binders, LocalInv(b), ~At(b, "idle"),
           WriteRecord(b) \/ UNCHANGED <<vms, bound>>
    PROVE  /\ vms' \in [Records -> VmRecord]
           /\ bound' \subseteq Records \X Vmids
           /\ bound \subseteq bound'
           /\ \A r \in Records : /\ vms'[r].plain = vms[r].plain
                                 /\ vms'[r].encrypted = vms[r].encrypted
                                 /\ vms'[r].vmid # vms[r].vmid =>
                                        <<r, vms'[r].vmid>> \in bound'
<1>1. CASE UNCHANGED <<vms, bound>>
  BY <1>1 DEF TypeOK
<1>2. CASE WriteRecord(b)
  <2>1. /\ binder[b].rec \in Records /\ binder[b].vmid \in Vmids
        /\ binder[b].node \in Nodes
    BY DEF LocalInv
  <2>2. vms' = [vms EXCEPT ![binder[b].rec] =
                  [vms[binder[b].rec] EXCEPT !.vmid = binder[b].vmid,
                                             !.node = binder[b].node]]
    BY <1>2, <2>1 DEF WriteRecord, TypeOK
  <2>3. \A r \in Records : vms[r] \in VmRecord
    BY DEF TypeOK
  <2>4. [vms[binder[b].rec] EXCEPT !.vmid = binder[b].vmid,
                                   !.node = binder[b].node] \in VmRecord
    BY <2>1, <2>3 DEF VmRecord
  <2>5. bound' = bound \cup {<<binder[b].rec, binder[b].vmid>>}
    BY <1>2 DEF WriteRecord
  <2>6. \A r \in Records \ {binder[b].rec} : vms'[r] = vms[r]
    BY <2>1, <2>2 DEF TypeOK
  <2>7. vms'[binder[b].rec] = [vms[binder[b].rec] EXCEPT !.vmid = binder[b].vmid,
                                             !.node = binder[b].node]
    BY <2>1, <2>2 DEF TypeOK
  <2> QED BY <2>1, <2>2, <2>3, <2>4, <2>5, <2>6, <2>7 DEF TypeOK, VmRecord
<1> QED BY <1>1, <1>2

LEMMA SetVmPasswordEffect ==
    ASSUME TypeOK, NEW r \in Records, NEW p \in {"old", "new"},
           SetVmPassword(r, p)
    PROVE  /\ vms' \in [Records -> VmRecord]
           /\ vms'[r].plain = FALSE /\ vms'[r].encrypted = p
           /\ \A q \in Records : vms'[q].vmid = vms[q].vmid
           /\ \A q \in Records : vms'[q].node = vms[q].node
           /\ \A q \in Records \ {r} : vms'[q] = vms[q]
<1>1. \A q \in Records : vms[q] \in VmRecord
  BY DEF TypeOK
<1>2. /\ [vms[r] EXCEPT !.encrypted = p, !.plain = FALSE] \in VmRecord
      /\ vms' = [vms EXCEPT ![r] =
                    [vms[r] EXCEPT !.encrypted = p, !.plain = FALSE]]
  BY <1>1 DEF SetVmPassword, VmRecord, TypeOK
<1> QED BY <1>1, <1>2 DEF TypeOK, VmRecord

\* A row is changed in place, but not to the key of another one.
LEMMA RowUpdate ==
    ASSUME TypeOK, NEW i \in DOMAIN rows, NEW x \in Row,
           x.vmid = rows[i].vmid, ~Violates(x.vmid, x.node, i),
           rows' = [rows EXCEPT ![i] = x]
    PROVE  /\ rows' \in Seq(Row)
           /\ \A k, j \in DOMAIN rows' :
                rows'[k].vmid = rows'[j].vmid /\ rows'[k].node = rows'[j].node
                    => k = j
           /\ DOMAIN rows' = DOMAIN rows
           /\ rows'[i] = x
           /\ \A j \in DOMAIN rows \ {i} : rows'[j] = rows[j]
           /\ \A v \in Vmids : RowsOf(v)' = RowsOf(v)
<1>1. rows \in Seq(Row) /\ DOMAIN rows = 1 .. Len(rows)
  BY DEF TypeOK
<1>2. /\ rows' \in Seq(Row)
      /\ Len(rows') = Len(rows)
      /\ \A j \in 1 .. Len(rows) : rows'[j] = IF j = i THEN x ELSE rows[j]
  BY <1>1, ExceptSeq
<1>3. DOMAIN rows' = 1 .. Len(rows)
  BY <1>2
<1>4. \A v \in Vmids : RowsOf(v)' = RowsOf(v)
  BY <1>1, <1>2, <1>3 DEF RowsOf
<1>5. \A j \in DOMAIN rows \ {i} : rows[j].vmid = x.vmid => rows[j].node # x.node
  BY DEF Violates, RowsOf
<1> QED BY <1>1, <1>2, <1>3, <1>4, <1>5 DEF TypeOK

LEMMA RowInsert ==
    ASSUME TypeOK, NEW x \in Row, ~Violates(x.vmid, x.node, 0),
           rows' = Append(rows, x)
    PROVE  /\ rows' \in Seq(Row)
           /\ \A k, j \in DOMAIN rows' :
                rows'[k].vmid = rows'[j].vmid /\ rows'[k].node = rows'[j].node
                    => k = j
           /\ DOMAIN rows' = DOMAIN rows \cup {Len(rows) + 1}
           /\ Len(rows) + 1 \notin DOMAIN rows
           /\ rows'[Len(rows) + 1] = x
           /\ \A j \in DOMAIN rows : rows'[j] = rows[j]
           /\ \A v \in Vmids : RowsOf(v)' = IF v = x.vmid
                                  THEN RowsOf(v) \cup {Len(rows) + 1}
                                  ELSE RowsOf(v)
<1>1. /\ rows \in Seq(Row) /\ DOMAIN rows = 1 .. Len(rows)
      /\ Len(rows) \in Nat /\ 0 \notin DOMAIN rows
  BY DEF TypeOK
<1>2. /\ rows' \in Seq(Row)
      /\ Len(rows') = Len(rows) + 1
      /\ \A j \in 1 .. Len(rows) : rows'[j] = rows[j]
      /\ rows'[Len(rows) + 1] = x
  BY <1>1
<1>3. DOMAIN rows' = 1 .. Len(rows) + 1
  BY <1>2
<1>4. DOMAIN rows' = DOMAIN rows \cup {Len(rows) + 1}
  BY <1>1, <1>3
<1>5. Len(rows) + 1 \notin DOMAIN rows
  BY <1>1
<1>6. \A v \in Vmids : RowsOf(v)' = IF v = x.vmid
                          THEN RowsOf(v) \cup {Len(rows) + 1} ELSE RowsOf(v)
  BY <1>1, <1>2, <1>4 DEF RowsOf
<1>7. \A j \in DOMAIN rows : rows[j].vmid = x.vmid => rows[j].node # x.node
  BY <1>1 DEF Violates, RowsOf
<1> QED BY <1>1, <1>2, <1>4, <1>5, <1>6, <1>7 DEF TypeOK

-----------------------------------------------------------------------------
(* Steps, examined for the handler that takes them.                        *)

\* A step after which no row and no handler at "write" is new.
LEMMA SoloKept ==
    ASSUME BInv, rows' = rows, raced' = raced,
           \A c \in Binders, v \in Vmids : FoundNone(c, v)' => FoundNone(c, v)
    PROVE  \A v \in Vmids \ raced' : SoloInv(v)'
BY DEF BInv, SoloInv, RowsOf

LEMMA FoundNoneOfWaiting ==
    ASSUME NEW c \in Binders, Waits(c)
    PROVE  \A v \in Vmids : FoundNone(c, v)' = FoundNone(c, v)
BY DEF Waits, FoundNone, At

\* The passwords and the script are left alone.
LEMMA PasswordInvKept ==
    ASSUME PasswordInv, script' = script,
           \A r \in Records : /\ vms'[r].plain = vms[r].plain
                              /\ vms'[r].encrypted = vms[r].encrypted
    PROVE  PasswordInv'
BY DEF PasswordInv

\* The tables are left alone but for what was bound.
LEMMA OwnersInvKept ==
    ASSUME OwnersInv, rows' = rows, bound \subseteq bound',
           \A r \in Records : vms'[r].vmid # vms[r].vmid =>
                                <<r, vms'[r].vmid>> \in bound'
    PROVE  OwnersInv'
BY DEF OwnersInv

LEMMA InitBInv == Init => BInv
<1> SUFFICES ASSUME Init PROVE BInv
  OBVIOUS
<1>1. TypeOK
  BY BindingsAssumption
     DEF Init, TypeOK, VmRecord, Row, Locals, Stages, Idle, ScriptState, Off
<1>2. \A b \in Binders : LocalInv(b)
  BY DEF Init, LocalInv, At, Idle
<1>3. \A v \in Vmids : SoloInv(v)
  BY DEF Init, SoloInv, RowsOf, FoundNone, At, Idle
<1>4. OwnersInv /\ PasswordInv
  BY DEF Init, OwnersInv, PasswordInv, Off
<1> QED BY <1>1, <1>2, <1>3, <1>4 DEF BInv

LEMMA StartKeepsBInv ==
    ASSUME BInv, NEW b \in Binders, NEW r \in Records, NEW v \in Vmids,
           NEW n \in Nodes, Start(b, r, v, n)
    PROVE  BInv'
<1> DEFINE D == Disturbed(Rivals(r, v))
           L == [stage |-> "update", rec |-> r, vmid |-> v, node |-> n,
                 found |-> 0, alone |-> Rivals(r, v) = {}]
<1>1. /\ TypeOK /\ Customer[r] # None
      /\ binder' = [D EXCEPT ![b] = L]
      /\ vms' = vms /\ rows' = rows /\ script' = script
      /\ raced' = raced /\ bound' = bound /\ bindings' \in 0 .. MaxBindings
  BY BindingsAssumption DEF BInv, TypeOK, Start, databaseVars
<1>2. (Rivals(r, v) = {}) \in BOOLEAN
  OBVIOUS
<1>3. L \in Locals
  BY <1>2 DEF Locals, Stages
<1>4. D \in [Binders -> Locals] /\ \A c \in Binders :
        /\ D[c].stage = binder[c].stage /\ D[c].rec = binder[c].rec
        /\ D[c].vmid = binder[c].vmid /\ D[c].node = binder[c].node
        /\ D[c].found = binder[c].found
  BY <1>1, DisturbedType
<1> HIDE DEF D
<1>5. /\ binder' \in [Binders -> Locals]
      /\ binder'[b] = L
      /\ \A c \in Binders \ {b} : Waits(c)
  BY <1>1, <1>3, <1>4 DEF Waits
<1>6. TypeOK'
  BY <1>1, <1>5 DEF TypeOK
<1>7. Grows
  BY <1>1 DEF Grows, RowsOf
<1>8. /\ binder'[b].stage = "update" /\ binder'[b].rec = r
      /\ binder'[b].vmid = v /\ binder'[b].node = n
  BY <1>5
<1>9. LocalInv(b)'
  BY <1>1, <1>8 DEF LocalInv, At
<1>10. \A c \in Binders : LocalInv(c)'
  BY <1>5, <1>7, <1>9, WaitingKeepsLocalInv DEF BInv
<1>11. \A c \in Binders, w \in Vmids : FoundNone(c, w)' => FoundNone(c, w)
  <2>1. \A w \in Vmids : ~FoundNone(b, w)'
    BY <1>8 DEF FoundNone, At
  <2> QED BY <1>5, <2>1, FoundNoneOfWaiting
<1>12. \A w \in Vmids \ raced' : SoloInv(w)'
  BY <1>1, <1>11, SoloKept
<1>13. OwnersInv' /\ PasswordInv'
  BY <1>1, OwnersInvKept, PasswordInvKept DEF BInv
<1> QED BY <1>6, <1>10, <1>12, <1>13 DEF BInv

\* A handler goes on to another call, or answers.
LEMMA GoesOn ==
    ASSUME BInv, NEW b \in Binders, ~At(b, "idle"), Grows,
           NEW s \in {"password", "find", "audit"},
           \/ Proceed(b, s) /\ <<binder[b].rec, binder[b].vmid>> \in bound'
           \/ Answer(b)
    PROVE  /\ binder' \in [Binders -> Locals]
           /\ \A c \in Binders : LocalInv(c)'
           /\ \A c \in Binders, v \in Vmids :
                FoundNone(c, v)' => FoundNone(c, v)
<1>1. TypeOK /\ LocalInv(b)
  BY DEF BInv
<1>2. CASE Proceed(b, s) /\ <<binder[b].rec, binder[b].vmid>> \in bound'
  <2>1. /\ binder' \in [Binders -> Locals]
        /\ binder'[b].stage = s /\ binder'[b].rec = binder[b].rec
        /\ binder'[b].vmid = binder[b].vmid
        /\ binder'[b].node = binder[b].node
        /\ \A c \in Binders \ {b} : binder'[c] = binder[c]
    BY <1>1, <1>2, ProceedEffect DEF Stages
  <2>2. \A c \in Binders \ {b} : Waits(c)
    BY <2>1 DEF Waits
  <2>3. LocalInv(b)'
    BY <1>1, <1>2, <2>1 DEF LocalInv, At
  <2>4. \A c \in Binders : LocalInv(c)'
    BY <2>2, <2>3, WaitingKeepsLocalInv DEF BInv
  <2>5. \A v \in Vmids : ~FoundNone(b, v)'
    BY <2>1 DEF FoundNone, At
  <2> QED BY <2>1, <2>2, <2>4, <2>5, FoundNoneOfWaiting
<1>3. CASE Answer(b)
  <2>1. /\ binder' \in [Binders -> Locals]
        /\ binder'[b].stage = "idle"
        /\ \A c \in Binders \ {b} : binder'[c] = binder[c]
    BY <1>1, <1>3, AnswerEffect
  <2>2. \A c \in Binders \ {b} : Waits(c)
    BY <2>1 DEF Waits
  <2>3. LocalInv(b)'
    BY <2>1 DEF LocalInv, At
  <2>4. \A c \in Binders : LocalInv(c)'
    BY <2>2, <2>3, WaitingKeepsLocalInv DEF BInv
  <2>5. \A v \in Vmids : ~FoundNone(b, v)'
    BY <2>1 DEF FoundNone, At
  <2> QED BY <2>1, <2>2, <2>4, <2>5, FoundNoneOfWaiting
<1> QED BY <1>2, <1>3

LEMMA UpdateRecordKeepsBInv ==
    ASSUME BInv, NEW b \in Binders, UpdateRecord(b)
    PROVE  BInv'
<1>1. /\ TypeOK /\ LocalInv(b) /\ ~At(b, "idle")
      /\ rows' = rows /\ script' = script /\ raced' = raced
      /\ bindings' = bindings
      /\ WriteRecord(b) \/ UNCHANGED <<vms, bound>>
  BY DEF BInv, UpdateRecord, Call, At
<1>2. /\ vms' \in [Records -> VmRecord]
      /\ bound' \subseteq Records \X Vmids /\ bound \subseteq bound'
      /\ \A r \in Records : /\ vms'[r].plain = vms[r].plain
                            /\ vms'[r].encrypted = vms[r].encrypted
                            /\ vms'[r].vmid # vms[r].vmid =>
                                  <<r, vms'[r].vmid>> \in bound'
  BY <1>1, WriteRecordEffect
<1>3. Grows
  BY <1>1, <1>2 DEF Grows, RowsOf
<1>4. PICK s \in {"password", "find", "audit"} :
        \/ Proceed(b, s) /\ <<binder[b].rec, binder[b].vmid>> \in bound'
        \/ Answer(b)
  BY DEF UpdateRecord, Call, WriteRecord
<1>5. /\ binder' \in [Binders -> Locals]
      /\ \A c \in Binders : LocalInv(c)'
      /\ \A c \in Binders, v \in Vmids : FoundNone(c, v)' => FoundNone(c, v)
  BY <1>1, <1>3, <1>4, GoesOn
<1>6. TypeOK'
  BY <1>1, <1>2, <1>5 DEF TypeOK
<1>7. \A v \in Vmids \ raced' : SoloInv(v)'
  BY <1>1, <1>5, SoloKept
<1>8. OwnersInv' /\ PasswordInv'
  BY <1>1, <1>2, OwnersInvKept, PasswordInvKept DEF BInv
<1> QED BY <1>5, <1>6, <1>7, <1>8 DEF BInv

\* The call that stores a password, as the script sees it.
LEMMA SetPasswordKeepsBInv ==
    ASSUME BInv, NEW b \in Binders, SetPassword(b)
    PROVE  BInv'
<1>1. /\ TypeOK /\ LocalInv(b) /\ ~At(b, "idle") /\ At(b, "password")
      /\ rows' = rows /\ raced' = raced /\ bound' = bound
      /\ bindings' = bindings
      /\ StorePassword(b) \/ UNCHANGED <<vms, script>>
  BY DEF BInv, SetPassword, Call, At, historyVars
<1>2. Grows
  BY <1>1 DEF Grows, RowsOf
<1>3. Proceed(b, "find") \/ Answer(b)
  BY DEF SetPassword, Call
<1>4. <<binder[b].rec, binder[b].vmid>> \in bound' /\ binder[b].rec \in Records
  BY <1>1 DEF LocalInv, At
<1>5. /\ binder' \in [Binders -> Locals]
      /\ \A c \in Binders : LocalInv(c)'
      /\ \A c \in Binders, v \in Vmids : FoundNone(c, v)' => FoundNone(c, v)
  BY <1>1, <1>2, <1>3, <1>4, GoesOn
<1>6. \A v \in Vmids \ raced' : SoloInv(v)'
  BY <1>1, <1>5, SoloKept
<1>7. CASE UNCHANGED <<vms, script>>
  <2>1. TypeOK'
    BY <1>1, <1>5, <1>7 DEF TypeOK
  <2>2. OwnersInv' /\ PasswordInv'
    BY <1>1, <1>7, OwnersInvKept, PasswordInvKept DEF BInv
  <2> QED BY <1>5, <1>6, <2>1, <2>2 DEF BInv
<1>8. CASE StorePassword(b)
  <2> DEFINE r == binder[b].rec
  <2>1. /\ vms' \in [Records -> VmRecord]
        /\ vms'[r].plain = FALSE /\ vms'[r].encrypted = "new"
        /\ \A q \in Records : vms'[q].vmid = vms[q].vmid
        /\ \A q \in Records \ {r} : vms'[q] = vms[q]
    BY <1>1, <1>4, <1>8, SetVmPasswordEffect DEF StorePassword
  <2>2. /\ script' \in ScriptState
        /\ script'.stage = script.stage /\ script'.todo = script.todo
        /\ script'.rec = script.rec /\ script'.failed = script.failed
        /\ script.overtaken => script'.overtaken
        /\ script.stage = "holding" /\ script.rec = r => script'.overtaken
    BY <1>1, <1>8 DEF TypeOK, ScriptState, StorePassword
  <2>3. TypeOK'
    BY <1>1, <1>5, <2>1, <2>2 DEF TypeOK
  <2>4. OwnersInv'
    BY <1>1, <2>1, OwnersInvKept DEF BInv
  <2>5. PasswordInv'
    BY <1>4, <2>1, <2>2 DEF BInv, PasswordInv
  <2> QED BY <1>5, <1>6, <2>3, <2>4, <2>5 DEF BInv
<1> QED BY <1>1, <1>7, <1>8

\* The look for a row: the answer is right now, and if there is none and
\* somebody else is about to insert one, the VM is raced from now on.
LEMMA FindOwnershipKeepsBInv ==
    ASSUME BInv, NEW b \in Binders, FindOwnership(b)
    PROVE  BInv'
<1>1. /\ TypeOK /\ LocalInv(b) /\ ~At(b, "idle") /\ At(b, "find")
      /\ vms' = vms /\ rows' = rows /\ script' = script /\ bound' = bound
      /\ bindings' = bindings
      /\ binder[b].vmid \in Vmids
  BY DEF BInv, FindOwnership, At, LocalInv, databaseVars
<1>2. Grows
  BY <1>1 DEF Grows, RowsOf
<1>3. OwnersInv' /\ PasswordInv'
  BY <1>1, OwnersInvKept, PasswordInvKept DEF BInv
<1>4. CASE Answer(b) /\ raced' = raced
  <2>1. /\ binder' \in [Binders -> Locals]
        /\ \A c \in Binders : LocalInv(c)'
        /\ \A c \in Binders, v \in Vmids : FoundNone(c, v)' => FoundNone(c, v)
    BY <1>1, <1>2, <1>4, GoesOn
  <2>2. TypeOK'
    BY <1>1, <1>4, <2>1 DEF TypeOK
  <2>3. \A v \in Vmids \ raced' : SoloInv(v)'
    BY <1>1, <1>4, <2>1, SoloKept
  <2> QED BY <1>3, <2>1, <2>2, <2>3 DEF BInv
<1>5. ASSUME NEW i \in IF RowsFound(b) = {} THEN {0} ELSE RowsFound(b),
             binder' = [binder EXCEPT ![b].stage = "write", ![b].found = i],
             raced' = raced \cup {binder[c].vmid : c \in
                         {c \in Rivals(None, binder[b].vmid) :
                             At(c, "write") /\ RowsFound(b) = {}}}
      PROVE  BInv'
  <2>1. /\ RowsFound(b) = RowsOf(binder[b].vmid)
        /\ RowsFound(b) \subseteq DOMAIN rows
        /\ DOMAIN rows = 1 .. Len(rows) /\ Len(rows) \in Nat
    BY <1>1 DEF RowsFound, RowsOf, TypeOK
  <2>2. /\ i \in Nat
        /\ i = 0 => RowsOf(binder[b].vmid) = {}
        /\ i # 0 => i \in RowsOf(binder[b].vmid)
    BY <2>1
  <2>3. binder[b] \in Locals
    BY <1>1 DEF TypeOK
  <2>4. /\ binder' \in [Binders -> Locals]
        /\ binder'[b].stage = "write" /\ binder'[b].rec = binder[b].rec
        /\ binder'[b].vmid = binder[b].vmid /\ binder'[b].found = i
        /\ binder'[b].node = binder[b].node
        /\ \A c \in Binders \ {b} : binder'[c] = binder[c]
    BY <1>1, <1>5, <2>2, <2>3 DEF TypeOK, Locals, Stages
  <2>5. \A c \in Binders \ {b} : Waits(c)
    BY <2>4 DEF Waits
  <2>6. LocalInv(b)'
    BY <1>1, <2>2, <2>4 DEF LocalInv, At, RowsOf
  <2>7. \A c \in Binders : LocalInv(c)'
    BY <1>2, <2>5, <2>6, WaitingKeepsLocalInv DEF BInv
  <2>8. raced \subseteq raced' /\ raced' \subseteq Vmids
    <3>1. \A c \in Rivals(None, binder[b].vmid) : binder[c].vmid \in Vmids
      BY DEF Rivals, Busy, BInv, LocalInv, At
    <3>2. raced \subseteq Vmids
      BY <1>1 DEF TypeOK
    <3> QED BY <1>5, <3>1, <3>2
  <2>9. TypeOK'
    BY <1>1, <2>4, <2>8 DEF TypeOK
  <2>10. ASSUME NEW v \in Vmids \ raced' PROVE SoloInv(v)'
    <3>1. SoloInv(v) /\ v \notin raced'
      BY <2>8 DEF BInv
    <3>2. \A c \in Binders \ {b} : FoundNone(c, v)' = FoundNone(c, v)
      BY <2>5, FoundNoneOfWaiting
    <3>3. RowsOf(v)' = RowsOf(v)
      BY <1>1 DEF RowsOf
    <3>4. CASE v = binder[b].vmid /\ i = 0
      <4>1. ASSUME NEW c \in Binders, FoundNone(c, v) PROVE FALSE
        <5>1. c \in Rivals(None, binder[b].vmid) /\ At(c, "write")
          BY <3>4, <4>1 DEF FoundNone, Rivals, Busy, At
        <5>2. binder[c].vmid \in raced'
          BY <1>5, <2>1, <2>2, <3>4, <5>1
        <5> QED BY <3>1, <4>1, <5>2 DEF FoundNone
      <4>2. RowsOf(v) = {}
        BY <2>2, <3>4
      <4> QED BY <3>1, <3>2, <3>3, <4>1, <4>2 DEF SoloInv
    <3>5. CASE ~(v = binder[b].vmid /\ i = 0)
      <4>1. ~FoundNone(b, v)'
        BY <2>4, <3>5 DEF FoundNone
      <4> QED BY <3>1, <3>2, <3>3, <4>1 DEF SoloInv
    <3> QED BY <3>4, <3>5
  <2> QED BY <1>3, <2>7, <2>9, <2>10 DEF BInv
<1> QED BY <1>4, <1>5 DEF FindOwnership

\* The row is written: the one that was found, or a new one, which is the
\* only one unless the VM is raced.
LEMMA WriteRowKeepsSolo ==
    ASSUME BInv, NEW b \in Binders, At(b, "write"), WriteRow(b),
           ~Violates(binder[b].vmid, binder[b].node, binder[b].found),
           raced' = raced, bound' = bound, vms' = vms,
           ~At(b, "write")', \A c \in Binders \ {b} : Waits(c)
    PROVE  /\ rows' \in Seq(Row)
           /\ \A i, j \in DOMAIN rows' :
                rows'[i].vmid = rows'[j].vmid /\ rows'[i].node = rows'[j].node
                    => i = j
           /\ Grows
           /\ \A v \in Vmids \ raced' : SoloInv(v)'
           /\ OwnersInv'
<1> DEFINE v == binder[b].vmid
           x == Fields(b)
<1>1. /\ TypeOK /\ LocalInv(b) /\ ~At(b, "idle")
      /\ binder[b].rec \in Records /\ v \in Vmids /\ binder[b].node \in Nodes
      /\ <<binder[b].rec, v>> \in bound
  BY DEF BInv, LocalInv, At
<1>2. /\ x \in Row /\ x.vmid = v /\ x.node = binder[b].node
      /\ x.owner = Customer[binder[b].rec]
  BY <1>1 DEF Fields, Row, LocalInv
<1>3. \A w \in Vmids : ~FoundNone(b, w)'
  BY DEF FoundNone, At
<1>4. \A c \in Binders \ {b}, w \in Vmids : FoundNone(c, w)' = FoundNone(c, w)
  BY FoundNoneOfWaiting
<1>5. CASE binder[b].found # 0
  <2>1. binder[b].found \in DOMAIN rows /\ rows[binder[b].found].vmid = v
    BY <1>1, <1>5 DEF LocalInv, RowsOf
  <2>2. rows' = [rows EXCEPT ![binder[b].found] = x]
    BY <1>5 DEF WriteRow
  <2> HIDE DEF x
  <2>3. /\ rows' \in Seq(Row)
        /\ \A i, j \in DOMAIN rows' :
             rows'[i].vmid = rows'[j].vmid /\ rows'[i].node = rows'[j].node
                 => i = j
        /\ DOMAIN rows' = DOMAIN rows
        /\ rows'[binder[b].found] = x
        /\ \A j \in DOMAIN rows \ {binder[b].found} : rows'[j] = rows[j]
        /\ \A w \in Vmids : RowsOf(w)' = RowsOf(w)
    BY <1>1, <1>2, <2>1, <2>2, RowUpdate
  <2>4. Grows
    BY <2>3 DEF Grows
  <2>5. \A w \in Vmids \ raced' : SoloInv(w)'
    BY <1>3, <1>4, <2>3 DEF BInv, SoloInv
  <2>6. OwnersInv'
    <3>1. /\ rows'[binder[b].found].owner = Customer[binder[b].rec]
          /\ rows'[binder[b].found].vmid = v
      BY <1>2, <2>3
    <3>2. \A i \in DOMAIN rows \ {binder[b].found} : \E r \in Records :
            Customer[r] = rows'[i].owner /\ <<r, rows'[i].vmid>> \in bound
      BY <2>3 DEF BInv, OwnersInv
    <3>3. \A i \in DOMAIN rows' : \E r \in Records :
            Customer[r] = rows'[i].owner /\ <<r, rows'[i].vmid>> \in bound
      BY <1>1, <2>3, <3>1, <3>2
    <3> QED BY <3>3 DEF BInv, OwnersInv
  <2> QED BY <2>3, <2>4, <2>5, <2>6
<1>6. CASE binder[b].found = 0
  <2>1. rows' = Append(rows, x)
    BY <1>6 DEF WriteRow
  <2>2. ~Violates(x.vmid, x.node, 0)
    BY <1>2, <1>6
  <2> HIDE DEF x
  <2>3. /\ rows' \in Seq(Row)
        /\ \A i, j \in DOMAIN rows' :
             rows'[i].vmid = rows'[j].vmid /\ rows'[i].node = rows'[j].node
                 => i = j
        /\ DOMAIN rows' = DOMAIN rows \cup {Len(rows) + 1}
        /\ rows'[Len(rows) + 1] = x
        /\ \A j \in DOMAIN rows : rows'[j] = rows[j]
        /\ \A w \in Vmids : RowsOf(w)' = IF w = x.vmid
                              THEN RowsOf(w) \cup {Len(rows) + 1}
                              ELSE RowsOf(w)
    BY <1>1, <1>2, <2>1, <2>2, RowInsert
  <2>4. Grows
    BY <2>3 DEF Grows
  <2>5. ASSUME NEW w \in Vmids \ raced' PROVE SoloInv(w)'
    <3>1. SoloInv(w)
      BY DEF BInv
    <3>2. CASE w = v
      <4>1. FoundNone(b, w)
        BY <1>6, <3>2 DEF FoundNone
      <4>2. RowsOf(w) = {} /\ \A c \in Binders \ {b} : ~FoundNone(c, w)
        BY <3>1, <4>1 DEF SoloInv
      <4>3. RowsOf(w)' = {Len(rows) + 1}
        BY <1>2, <2>3, <3>2, <4>2
      <4> QED BY <1>3, <1>4, <4>2, <4>3 DEF SoloInv
    <3>3. CASE w # v
      <4>1. RowsOf(w)' = RowsOf(w)
        BY <1>2, <2>3, <3>3
      <4> QED BY <1>3, <1>4, <3>1, <4>1 DEF SoloInv
    <3> QED BY <3>2, <3>3
  <2>6. OwnersInv'
    BY <1>1, <1>2, <2>3 DEF BInv, OwnersInv
  <2> QED BY <2>3, <2>4, <2>5, <2>6
<1> QED BY <1>5, <1>6

LEMMA WriteOwnershipKeepsBInv ==
    ASSUME BInv, NEW b \in Binders, WriteOwnership(b)
    PROVE  BInv'
<1>1. /\ TypeOK /\ LocalInv(b) /\ ~At(b, "idle") /\ At(b, "write")
      /\ vms' = vms /\ script' = script /\ bound' = bound /\ raced' = raced
      /\ bindings' = bindings
      /\ <<binder[b].rec, binder[b].vmid>> \in bound'
  BY DEF BInv, WriteOwnership, At, LocalInv, historyVars
<1>2. Proceed(b, "audit") \/ Answer(b)
  BY DEF WriteOwnership, Call
<1>3. /\ binder' \in [Binders -> Locals]
      /\ binder'[b].stage # "write"
      /\ \A c \in Binders \ {b} : binder'[c] = binder[c]
  BY <1>1, <1>2, ProceedEffect, AnswerEffect DEF Stages
<1>4. ~At(b, "write")' /\ \A c \in Binders \ {b} : Waits(c)
  BY <1>3 DEF At, Waits
<1>5. PasswordInv'
  BY <1>1, PasswordInvKept DEF BInv
<1>6. CASE rows' = rows
  <2>1. Grows
    BY <1>1, <1>6 DEF Grows, RowsOf
  <2>2. /\ \A c \in Binders : LocalInv(c)'
        /\ \A c \in Binders, v \in Vmids : FoundNone(c, v)' => FoundNone(c, v)
    BY <1>1, <1>2, <2>1, GoesOn
  <2>3. TypeOK'
    BY <1>1, <1>3, <1>6 DEF TypeOK
  <2>4. OwnersInv' /\ \A v \in Vmids \ raced' : SoloInv(v)'
    BY <1>1, <1>6, <2>2, OwnersInvKept, SoloKept DEF BInv
  <2> QED BY <1>5, <2>2, <2>3, <2>4 DEF BInv
<1>7. CASE /\ WriteRow(b)
           /\ ~Violates(binder[b].vmid, binder[b].node, binder[b].found)
  <2>1. /\ rows' \in Seq(Row)
        /\ \A i, j \in DOMAIN rows' :
             rows'[i].vmid = rows'[j].vmid /\ rows'[i].node = rows'[j].node
                 => i = j
        /\ Grows
        /\ \A v \in Vmids \ raced' : SoloInv(v)'
        /\ OwnersInv'
    BY <1>1, <1>4, <1>7, WriteRowKeepsSolo
  <2>2. \A c \in Binders : LocalInv(c)'
    BY <1>1, <1>2, <2>1, GoesOn
  <2>3. TypeOK'
    BY <1>1, <1>3, <2>1 DEF TypeOK
  <2> QED BY <1>5, <2>1, <2>2, <2>3 DEF BInv
<1>8. \/ rows' = rows
      \/ /\ WriteRow(b)
         /\ ~Violates(binder[b].vmid, binder[b].node, binder[b].found)
  BY DEF WriteOwnership, Call
<1> QED BY <1>6, <1>7, <1>8

LEMMA AuditKeepsBInv ==
    ASSUME BInv, NEW b \in Binders, AuditAndAnswer(b)
    PROVE  BInv'
<1>1. /\ TypeOK /\ LocalInv(b) /\ ~At(b, "idle") /\ Answer(b)
      /\ vms' = vms /\ rows' = rows /\ script' = script /\ bound' = bound
      /\ raced' = raced /\ bindings' = bindings
  BY DEF BInv, AuditAndAnswer, At, databaseVars, historyVars
<1>2. Grows
  BY <1>1 DEF Grows, RowsOf
<1>3. /\ binder' \in [Binders -> Locals]
      /\ \A c \in Binders : LocalInv(c)'
      /\ \A c \in Binders, v \in Vmids : FoundNone(c, v)' => FoundNone(c, v)
  BY <1>1, <1>2, GoesOn
<1>4. TypeOK'
  BY <1>1, <1>3 DEF TypeOK
<1>5. OwnersInv' /\ PasswordInv' /\ \A v \in Vmids \ raced' : SoloInv(v)'
  BY <1>1, <1>3, OwnersInvKept, PasswordInvKept, SoloKept DEF BInv
<1> QED BY <1>3, <1>4, <1>5 DEF BInv

LEMMA HealKeepsBInv ==
    ASSUME BInv, NEW v \in Vmids, NEW n \in Nodes, Heal(v, n)
    PROVE  BInv'
<1>1. /\ TypeOK /\ vms' = vms /\ script' = script /\ bound' = bound
      /\ raced' = raced /\ bindings' = bindings
      /\ binder' = Disturbed(Rivals(None, v))
  BY DEF BInv, Heal
<1>2. PICK i \in RowsOf(v) : /\ RowsOf(v) = {i}
                             /\ rows' = [rows EXCEPT ![i].node = n]
  BY DEF Heal
<1> DEFINE x == [rows[i] EXCEPT !.node = n]
<1>3. /\ i \in DOMAIN rows /\ rows[i].vmid = v
      /\ rows \in Seq(Row) /\ DOMAIN rows = 1 .. Len(rows)
  BY <1>1 DEF TypeOK, RowsOf
<1>4. rows[i] \in Row
  BY <1>3, ElementOfSeq
<1>5. /\ x \in Row /\ x.vmid = v /\ x.node = n /\ x.owner = rows[i].owner
  BY <1>3, <1>4 DEF Row
<1>6. ~Violates(x.vmid, x.node, i)
  BY <1>2, <1>5 DEF Violates
<1>7. rows' = [rows EXCEPT ![i] = x]
  BY <1>2, <1>3
<1> HIDE DEF x
<1>8. /\ rows' \in Seq(Row)
      /\ \A k, j \in DOMAIN rows' :
           rows'[k].vmid = rows'[j].vmid /\ rows'[k].node = rows'[j].node
               => k = j
      /\ DOMAIN rows' = DOMAIN rows
      /\ rows'[i] = x
      /\ \A j \in DOMAIN rows \ {i} : rows'[j] = rows[j]
      /\ \A w \in Vmids : RowsOf(w)' = RowsOf(w)
  BY <1>1, <1>3, <1>5, <1>6, <1>7, RowUpdate
<1>9. binder' \in [Binders -> Locals] /\ \A c \in Binders : Waits(c)
  BY <1>1, DisturbedType DEF Waits
<1>10. TypeOK'
  BY <1>1, <1>8, <1>9 DEF TypeOK
<1>11. Grows
  BY <1>1, <1>8 DEF Grows
<1>12. \A c \in Binders : LocalInv(c)'
  BY <1>9, <1>11, WaitingKeepsLocalInv DEF BInv
<1>13. \A w \in Vmids \ raced' : SoloInv(w)'
  BY <1>1, <1>8, <1>9, FoundNoneOfWaiting DEF BInv, SoloInv
<1>14. OwnersInv'
  BY <1>1, <1>3, <1>5, <1>8 DEF BInv, OwnersInv
<1>15. PasswordInv'
  BY <1>1, PasswordInvKept DEF BInv
<1> QED BY <1>10, <1>12, <1>13, <1>14, <1>15 DEF BInv

-----------------------------------------------------------------------------
(* The script.                                                             *)

LEMMA BackfillKeepsPasswordInv ==
    ASSUME BInv, Backfill
    PROVE  /\ vms' \in [Records -> VmRecord]
           /\ \A r \in Records : vms'[r].vmid = vms[r].vmid
           /\ script' \in ScriptState
           /\ PasswordInv'
<1>1. /\ TypeOK /\ PasswordInv /\ script \in ScriptState
      /\ \A r \in Records : vms[r] \in VmRecord
  BY DEF BInv, TypeOK
<1>2. CASE BackfillList
  <2>1. vms' = vms
    BY <1>2 DEF BackfillList, databaseVars
  <2>2. CASE script' = [Off EXCEPT !.stage = "loop",
                          !.todo = {r \in Records : vms[r].plain
                                        /\ vms[r].encrypted = "none"}]
    BY <1>1, <2>1, <2>2
       DEF Off, ScriptState, PasswordInv, TypeOK
  <2>3. CASE script' = [Off EXCEPT !.stage = "done", !.failed = TRUE]
    BY <1>1, <2>1, <2>3 DEF Off, ScriptState, PasswordInv, TypeOK
  <2> QED BY <1>2, <2>2, <2>3 DEF BackfillList
<1>3. CASE \E r \in Records : BackfillFetch(r)
  <2>1. PICK r \in Records : BackfillFetch(r)
    BY <1>3
  <2>2. vms' = vms /\ script.stage = "loop" /\ r \in script.todo
    BY <2>1 DEF BackfillFetch, databaseVars
  <2>3. CASE /\ vms[r].plain
             /\ script' = [script EXCEPT !.stage = "holding",
                                         !.todo = @ \ {r}, !.rec = r]
    BY <1>1, <2>2, <2>3 DEF ScriptState, PasswordInv, TypeOK
  <2>4. CASE script' = [script EXCEPT !.todo = @ \ {r}, !.failed = TRUE]
    BY <1>1, <2>2, <2>4 DEF ScriptState, PasswordInv, TypeOK
  <2> QED BY <2>1, <2>3, <2>4 DEF BackfillFetch
<1>4. CASE BackfillEncrypt
  <2>1. script.stage = "holding" /\ script.rec \in Records
    BY <1>1, <1>4 DEF BackfillEncrypt, PasswordInv
  <2>2. CASE SetVmPassword(script.rec, "old")
    <3>1. /\ vms' \in [Records -> VmRecord]
          /\ vms'[script.rec].plain = FALSE
          /\ \A q \in Records : vms'[q].vmid = vms[q].vmid
          /\ \A q \in Records \ {script.rec} : vms'[q] = vms[q]
      BY <1>1, <2>1, <2>2, SetVmPasswordEffect
    <3>2. PICK failed \in BOOLEAN : Encrypted(failed)
      BY <1>4 DEF BackfillEncrypt
    <3>3. /\ script' \in ScriptState /\ script'.stage = "loop"
          /\ script'.todo = script.todo
          /\ ~script'.failed => ~script.failed
      BY <1>1, <3>2 DEF Encrypted, ScriptState
    <3> QED BY <1>1, <2>1, <3>1, <3>3 DEF PasswordInv
  <2>3. CASE vms' = vms /\ Encrypted(TRUE)
    <3>1. /\ script' \in ScriptState /\ script'.stage = "loop"
          /\ script'.todo = script.todo /\ script'.failed
      BY <1>1, <2>3 DEF Encrypted, ScriptState
    <3> QED BY <1>1, <2>3, <3>1 DEF PasswordInv, TypeOK
  <2> QED BY <1>4, <2>2, <2>3 DEF BackfillEncrypt
<1>5. CASE BackfillExit
  <2>1. vms' = vms
    BY <1>5 DEF BackfillExit, databaseVars
  <2>2. CASE /\ script.stage = "loop" /\ script.todo = {}
             /\ script' = [script EXCEPT !.stage = "done"]
    BY <1>1, <2>1, <2>2 DEF ScriptState, PasswordInv, TypeOK
  <2>3. CASE script' = [Off EXCEPT !.stage = "done", !.failed = TRUE]
    BY <1>1, <2>1, <2>3 DEF Off, ScriptState, PasswordInv, TypeOK
  <2> QED BY <1>5, <2>2, <2>3 DEF BackfillExit
<1> QED BY <1>2, <1>3, <1>4, <1>5 DEF Backfill

LEMMA BackfillKeepsBInv ==
    ASSUME BInv, Backfill
    PROVE  BInv'
<1>1. /\ TypeOK /\ rows' = rows /\ binder' = binder /\ raced' = raced
      /\ bound' = bound /\ bindings' = bindings
  BY DEF BInv, Backfill, BackfillList, BackfillFetch, BackfillEncrypt,
         BackfillExit, databaseVars, historyVars
<1>2. /\ vms' \in [Records -> VmRecord]
      /\ \A r \in Records : vms'[r].vmid = vms[r].vmid
      /\ script' \in ScriptState
      /\ PasswordInv'
  BY BackfillKeepsPasswordInv
<1>3. TypeOK'
  BY <1>1, <1>2 DEF TypeOK
<1>4. Grows /\ \A c \in Binders : Waits(c)
  BY <1>1 DEF Grows, RowsOf, Waits
<1>5. \A c \in Binders : LocalInv(c)'
  BY <1>4, WaitingKeepsLocalInv DEF BInv
<1>6. OwnersInv' /\ \A v \in Vmids \ raced' : SoloInv(v)'
  BY <1>1, <1>2, <1>4, FoundNoneOfWaiting, OwnersInvKept, SoloKept DEF BInv
<1> QED BY <1>2, <1>3, <1>5, <1>6 DEF BInv

LEMMA NextKeepsBInv == BInv /\ [Next]_vars => BInv'
<1> SUFFICES ASSUME BInv, [Next]_vars PROVE BInv'
  OBVIOUS
<1>1. ASSUME NEW b \in Binders, BinderStep(b) PROVE BInv'
  BY <1>1, StartKeepsBInv, UpdateRecordKeepsBInv, SetPasswordKeepsBInv,
     FindOwnershipKeepsBInv, WriteOwnershipKeepsBInv, AuditKeepsBInv
     DEF BinderStep
<1>2. CASE UNCHANGED vars
  <2>1. /\ vms' = vms /\ rows' = rows /\ binder' = binder /\ script' = script
        /\ raced' = raced /\ bound' = bound /\ bindings' = bindings
    BY <1>2 DEF vars, databaseVars, historyVars
  <2>2. Grows /\ \A c \in Binders : Waits(c)
    BY <2>1 DEF Grows, RowsOf, Waits
  <2>3. TypeOK'
    BY <2>1 DEF BInv, TypeOK
  <2>4. \A c \in Binders : LocalInv(c)'
    BY <2>2, WaitingKeepsLocalInv DEF BInv
  <2>5. /\ OwnersInv' /\ PasswordInv'
        /\ \A v \in Vmids \ raced' : SoloInv(v)'
    BY <2>1, <2>2, FoundNoneOfWaiting, OwnersInvKept, PasswordInvKept, SoloKept
       DEF BInv
  <2> QED BY <2>3, <2>4, <2>5 DEF BInv
<1> QED BY <1>1, <1>2, HealKeepsBInv, BackfillKeepsBInv DEF Next

LEMMA SpecBInv == Spec => []BInv
BY InitBInv, NextKeepsBInv, PTL DEF Spec

-----------------------------------------------------------------------------

\* Every column and every local keeps its type, and unique (node, vmid) holds.
THEOREM BindingsTypeOK == Spec => []TypeOK
BY SpecBInv, PTL DEF BInv

\* Bindings that follow each other never leave a VM with two rows, whatever
\* failed, was retried, migrated or was bound elsewhere in between.
THEOREM OnlyRacesDuplicate == Spec => []DuplicatesNeedARace
<1>1. BInv => DuplicatesNeedARace
  <2> SUFFICES ASSUME BInv, NEW v \in Vmids \ raced
               PROVE  Cardinality(RowsOf(v)) <= 1
    BY DEF DuplicatesNeedARace
  <2>1. \A i, j \in RowsOf(v) : i = j
    BY DEF BInv, SoloInv
  <2>2. CASE RowsOf(v) = {}
    BY <2>2, FS_EmptySet
  <2>3. CASE RowsOf(v) # {}
    <3>1. PICK i \in RowsOf(v) : TRUE
      BY <2>3
    <3>2. RowsOf(v) = {i}
      BY <2>1, <3>1
    <3>3. Cardinality(RowsOf(v)) = 1
      BY <3>2, FS_Singleton
    <3> QED BY <3>3
  <2> QED BY <2>2, <2>3
<1> QED BY <1>1, SpecBInv, PTL

\* Whichever call of a binding fails, nobody owns a VM without a record of
\* theirs that was bound to it.
THEOREM OwnershipFollowsTheRecord == Spec => []OwnersHaveARecord
<1>1. BInv => OwnersHaveARecord
  BY DEF BInv, OwnersInv, OwnersHaveARecord
<1> QED BY <1>1, SpecBInv, PTL

\* Exit code 0 of the backfill means that no plaintext password is left,
\* however it raced with bindings and whichever answers were lost.
THEOREM CleanExitIsClean == Spec => []CleanExitMeansNoPlaintext
<1>1. BInv => CleanExitMeansNoPlaintext
  BY DEF BInv, PasswordInv, CleanExitMeansNoPlaintext
<1> QED BY <1>1, SpecBInv, PTL

\* The backfill overwrites a newer password only in the one round trip
\* between its own fetch and its own call.
THEOREM BackfillLosesOnlyTheRace == Spec => BackfillKeepsNewPasswords
<1>1. ASSUME BInv, [Next]_vars, NEW r \in Records,
             vms[r].encrypted = "new", vms'[r].encrypted = "old"
      PROVE  script.rec = r /\ script.overtaken
  <2>1. TypeOK /\ vms' # vms
    BY <1>1 DEF BInv
  <2>2. ASSUME NEW b \in Binders, BinderStep(b) PROVE FALSE
    <3>1. LocalInv(b)
      BY <1>1 DEF BInv
    <3>2. CASE UpdateRecord(b)
      <4>1. vms'[r].encrypted = vms[r].encrypted
        BY <2>1, <3>1, <3>2, WriteRecordEffect DEF UpdateRecord, Call, At
      <4> QED BY <1>1, <4>1
    <3>3. CASE SetPassword(b)
      <4>1. StorePassword(b) /\ binder[b].rec \in Records
        BY <2>1, <3>1, <3>3 DEF SetPassword, Call, LocalInv, At
      <4>2. vms'[r].encrypted \in {"new", vms[r].encrypted}
        BY <2>1, <4>1, SetVmPasswordEffect DEF StorePassword
      <4> QED BY <1>1, <4>2
    <3> QED
      BY <2>1, <2>2, <3>2, <3>3
         DEF BinderStep, Start, FindOwnership, WriteOwnership, AuditAndAnswer,
             databaseVars
  <2>3. BackfillEncrypt /\ SetVmPassword(script.rec, "old")
    BY <1>1, <2>1, <2>2
       DEF Next, Heal, Backfill, BackfillList, BackfillFetch, BackfillEncrypt,
           BackfillExit, vars, databaseVars
  <2>4. script.stage = "holding" /\ script.rec \in Records
    BY <1>1, <2>3 DEF BInv, PasswordInv, BackfillEncrypt
  <2>5. script.rec = r
    BY <1>1, <2>1, <2>3, <2>4, SetVmPasswordEffect
  <2> QED BY <1>1, <2>4, <2>5 DEF BInv, PasswordInv
<1>2. BInv /\ [Next]_vars
        => [\A r \in Records :
              vms[r].encrypted = "new" /\ vms'[r].encrypted = "old"
                  => script.rec = r /\ script.overtaken]_vars
  BY <1>1
<1> QED BY <1>2, SpecBInv, PTL DEF Spec, BackfillKeepsNewPasswords

-----------------------------------------------------------------------------
(* Bindings that nobody interferes with.                                   *)

Busily(b) == binder[b].stage # "idle"

\* Nobody else works on the record or the VM of b, so that what b has written
\* and found is still there, and is all there is.
NobodyElse(b) ==
    \A c \in Binders \ {b} : Busily(c) =>
        binder[c].rec # binder[b].rec /\ binder[c].vmid # binder[b].vmid

RecordWritten(b) ==
    binder[b].stage \in {"password", "find", "write", "audit"} =>
        /\ vms[binder[b].rec].vmid = binder[b].vmid
        /\ vms[binder[b].rec].node = binder[b].node

OnlyRowFound(b) ==
    At(b, "write") =>
        RowsOf(binder[b].vmid)
            = IF binder[b].found = 0 THEN {} ELSE {binder[b].found}

RowWritten(b) ==
    At(b, "audit") => \E i \in DOMAIN rows :
        /\ RowsOf(binder[b].vmid) = {i}
        /\ rows[i].node = binder[b].node
        /\ rows[i].owner = Customer[binder[b].rec]

AloneInv(b) ==
    Busily(b) /\ binder[b].alone =>
        NobodyElse(b) /\ RecordWritten(b) /\ OnlyRowFound(b) /\ RowWritten(b)

CInv == BInv /\ \A b \in Binders : AloneInv(b)

\* A handler does not notice a step that leaves its record and the rows of its
\* VM alone, and makes nobody else work on them.
Unnoticed(b) ==
    /\ Waits(b)
    /\ binder'[b].alone => binder[b].alone
    /\ binder[b].rec \in Records =>
        /\ vms'[binder[b].rec].vmid = vms[binder[b].rec].vmid
        /\ vms'[binder[b].rec].node = vms[binder[b].rec].node
    /\ \A v \in Vmids : v = binder[b].vmid =>
        /\ RowsOf(v)' = RowsOf(v)
        /\ \A i \in RowsOf(v) : i \in DOMAIN rows' /\ rows'[i] = rows[i]

LEMMA UnnoticedKeepsAlone ==
    ASSUME CInv, NEW b \in Binders, Unnoticed(b),
           Busily(b) /\ binder'[b].alone => NobodyElse(b)'
    PROVE  AloneInv(b)'
<1> SUFFICES ASSUME Busily(b)', binder'[b].alone
             PROVE  /\ NobodyElse(b)' /\ RecordWritten(b)'
                    /\ OnlyRowFound(b)' /\ RowWritten(b)'
  BY DEF AloneInv
<1>1. /\ Busily(b) /\ binder[b].alone /\ Waits(b)
      /\ binder[b].rec \in Records /\ binder[b].vmid \in Vmids
      /\ binder'[b].vmid = binder[b].vmid
  BY DEF Unnoticed, Waits, Busily, CInv, BInv, LocalInv, At
<1>2. /\ NobodyElse(b) /\ RecordWritten(b) /\ OnlyRowFound(b) /\ RowWritten(b)
  BY <1>1 DEF CInv, AloneInv
<1>3. RecordWritten(b)'
  BY <1>1, <1>2 DEF RecordWritten, Unnoticed, Waits
<1>4. RowsOf(binder[b].vmid)' = RowsOf(binder[b].vmid)
  BY <1>1 DEF Unnoticed, RowsOf
<1>5. OnlyRowFound(b)'
  BY <1>1, <1>2, <1>4 DEF OnlyRowFound, Waits, At
<1>6. RowWritten(b)'
  <2> SUFFICES ASSUME At(b, "audit")'
               PROVE  \E i \in DOMAIN rows' :
                        /\ RowsOf(binder[b].vmid)' = {i}
                        /\ rows'[i].node = binder'[b].node
                        /\ rows'[i].owner = Customer[binder'[b].rec]
    BY DEF RowWritten
  <2>1. PICK i \in DOMAIN rows :
          /\ RowsOf(binder[b].vmid) = {i}
          /\ rows[i].node = binder[b].node
          /\ rows[i].owner = Customer[binder[b].rec]
    BY <1>1, <1>2 DEF RowWritten, Waits, At
  <2>2. i \in DOMAIN rows' /\ rows'[i] = rows[i]
    BY <1>1, <2>1 DEF Unnoticed
  <2> QED BY <1>1, <1>4, <2>1, <2>2 DEF Waits
<1> QED BY <1>1, <1>3, <1>5, <1>6

\* Nobody starts to work on what is another's: handlers wait, go on or answer.
LEMMA NobodyElseKept ==
    ASSUME NEW b \in Binders, NobodyElse(b), Waits(b),
           \A c \in Binders \ {b} : Busily(c)' =>
                /\ Busily(c)
                /\ binder'[c].rec = binder[c].rec
                /\ binder'[c].vmid = binder[c].vmid
    PROVE  NobodyElse(b)'
BY DEF NobodyElse, Waits

LEMMA StartKeepsAlone ==
    ASSUME CInv, NEW b \in Binders, NEW r \in Records, NEW v \in Vmids,
           NEW n \in Nodes, Start(b, r, v, n)
    PROVE  \A c \in Binders : AloneInv(c)'
<1> DEFINE D == Disturbed(Rivals(r, v))
           L == [stage |-> "update", rec |-> r, vmid |-> v, node |-> n,
                 found |-> 0, alone |-> Rivals(r, v) = {}]
<1>1. /\ TypeOK /\ At(b, "idle")
      /\ binder' = [D EXCEPT ![b] = L]
      /\ vms' = vms /\ rows' = rows
  BY DEF CInv, BInv, TypeOK, Start, databaseVars
<1>2. (Rivals(r, v) = {}) \in BOOLEAN
  OBVIOUS
<1>3. L \in Locals
  BY <1>2 DEF Locals, Stages
<1>4. D \in [Binders -> Locals] /\ \A c \in Binders :
        /\ D[c].stage = binder[c].stage /\ D[c].rec = binder[c].rec
        /\ D[c].vmid = binder[c].vmid /\ D[c].node = binder[c].node
        /\ D[c].found = binder[c].found
        /\ D[c].alone = (binder[c].alone /\ c \notin Rivals(r, v))
  BY <1>1, DisturbedType
<1>5. binder'[b] = L /\ \A c \in Binders \ {b} : binder'[c] = D[c]
  BY <1>1, <1>3, <1>4
<1> HIDE DEF D
<1>6. \A c \in Binders \ {b} : Waits(c)
  BY <1>4, <1>5 DEF Waits
<1>7. /\ binder'[b].stage = "update" /\ binder'[b].rec = r
      /\ binder'[b].vmid = v
  BY <1>5
<1>n. binder'[b].alone => Rivals(r, v) = {}
  <2>1. L.alone = (Rivals(r, v) = {})
    BY Zenon
  <2>2. binder'[b].alone = L.alone
    BY <1>5
  <2> HIDE DEF L
  <2> QED BY <2>1, <2>2, Zenon
<1>8. AloneInv(b)'
  <2> SUFFICES ASSUME binder'[b].alone PROVE NobodyElse(b)'
    BY <1>7 DEF AloneInv, RecordWritten, OnlyRowFound, RowWritten, At
  <2>1. \A c \in Binders : Busily(c) =>
            binder[c].rec # r /\ binder[c].vmid # v
    BY <1>n DEF Rivals, Busy, Busily
  <2> QED BY <1>6, <1>7, <2>1 DEF NobodyElse, Waits, Busily
<1>9. ASSUME NEW c \in Binders \ {b} PROVE AloneInv(c)'
  <2>1. binder'[c].alone = (binder[c].alone /\ c \notin Rivals(r, v))
    BY <1>4, <1>5
  <2>3. Unnoticed(c)
    BY <1>1, <1>6, <2>1 DEF Unnoticed, RowsOf, Waits
  <2>4. ASSUME Busily(c), binder'[c].alone PROVE NobodyElse(c)'
    <3>1. NobodyElse(c) /\ binder[c].rec # r /\ binder[c].vmid # v
      BY <2>1, <2>4 DEF CInv, AloneInv, Rivals, Busy, Busily
    <3> QED BY <1>6, <1>7, <3>1 DEF NobodyElse, Waits, Busily
  <2> QED BY <2>3, <2>4, UnnoticedKeepsAlone
<1> QED BY <1>8, <1>9

\* A step of b, which writes no record and no row but its own, is not noticed
\* by the other handlers that are alone; nor are they by b.
LEMMA StepOfOneHandler ==
    ASSUME CInv, NEW b \in Binders, Busily(b),
           Busily(b)' => /\ binder'[b].rec = binder[b].rec
                         /\ binder'[b].vmid = binder[b].vmid,
           \A c \in Binders \ {b} : binder'[c] = binder[c],
           \A r \in Records \ {binder[b].rec} :
                vms'[r].vmid = vms[r].vmid /\ vms'[r].node = vms[r].node,
           \A v \in Vmids \ {binder[b].vmid} :
                /\ RowsOf(v)' = RowsOf(v)
                /\ \A i \in RowsOf(v) : i \in DOMAIN rows' /\ rows'[i] = rows[i]
    PROVE  /\ \A c \in Binders \ {b} : AloneInv(c)'
           /\ NobodyElse(b) /\ Waits(b) => NobodyElse(b)'
<1>1. ASSUME NEW c \in Binders \ {b} PROVE AloneInv(c)'
  <2>1. Waits(c) /\ binder'[c] = binder[c]
    BY DEF Waits
  <2>2. CASE ~(Busily(c) /\ binder[c].alone)
    BY <2>1, <2>2 DEF AloneInv, Busily
  <2>3. CASE Busily(c) /\ binder[c].alone
    <3>1. /\ NobodyElse(c)
          /\ binder[b].rec # binder[c].rec /\ binder[b].vmid # binder[c].vmid
      BY <2>3 DEF CInv, AloneInv, NobodyElse
    <3>2. Unnoticed(c)
      BY <2>1, <3>1 DEF Unnoticed
    <3>3. \A d \in Binders \ {c} : Busily(d)' =>
                /\ Busily(d)
                /\ binder'[d].rec = binder[d].rec
                /\ binder'[d].vmid = binder[d].vmid
      BY DEF Busily
    <3>4. NobodyElse(c)'
      BY <2>1, <3>1, <3>3, NobodyElseKept
    <3> QED BY <3>2, <3>4, UnnoticedKeepsAlone
  <2> QED BY <2>2, <2>3
<1>2. ASSUME NobodyElse(b), Waits(b) PROVE NobodyElse(b)'
  BY <1>2 DEF NobodyElse, Waits, Busily
<1> QED BY <1>1, <1>2

\* NobodyElse of a handler that goes on.
LEMMA GoesOnAlone ==
    ASSUME CInv, NEW b \in Binders, Busily(b),
           binder'[b].rec = binder[b].rec, binder'[b].vmid = binder[b].vmid,
           binder'[b].alone => binder[b].alone,
           \A c \in Binders \ {b} : binder'[c] = binder[c]
    PROVE  binder'[b].alone =>
              NobodyElse(b)' /\ RecordWritten(b) /\ OnlyRowFound(b)
BY DEF CInv, AloneInv, NobodyElse, Busily

LEMMA UpdateRecordKeepsAlone ==
    ASSUME CInv, NEW b \in Binders, UpdateRecord(b)
    PROVE  \A c \in Binders : AloneInv(c)'
<1>1. /\ TypeOK /\ LocalInv(b) /\ Busily(b) /\ rows' = rows
      /\ WriteRecord(b) \/ UNCHANGED <<vms, bound>>
      /\ binder[b].rec \in Records
  BY DEF CInv, BInv, UpdateRecord, Call, At, Busily, LocalInv
<1>2. \A r \in Records \ {binder[b].rec} : vms'[r] = vms[r]
  BY <1>1 DEF WriteRecord, TypeOK
<1>3. \A v \in Vmids : /\ RowsOf(v)' = RowsOf(v)
                       /\ \A i \in RowsOf(v) : i \in DOMAIN rows'
  BY <1>1 DEF RowsOf
<1>4. PICK s \in {"password", "find"} :
        (Proceed(b, s) /\ WriteRecord(b)) \/ Answer(b)
  BY DEF UpdateRecord, Call
<1>5. CASE Answer(b)
  <2>1. binder'[b].stage = "idle" /\ \A c \in Binders \ {b} : binder'[c] = binder[c]
    BY <1>1, <1>5, AnswerEffect
  <2> QED BY <1>1, <1>2, <1>3, <2>1, StepOfOneHandler DEF AloneInv, Busily
<1>6. CASE Proceed(b, s) /\ WriteRecord(b)
  <2>1. /\ binder'[b].stage = s /\ binder'[b].rec = binder[b].rec
        /\ binder'[b].vmid = binder[b].vmid /\ binder'[b].node = binder[b].node
        /\ binder'[b].alone = binder[b].alone
        /\ \A c \in Binders \ {b} : binder'[c] = binder[c]
    BY <1>1, <1>6, ProceedEffect DEF Stages
  <2>2. \A c \in Binders \ {b} : AloneInv(c)'
    BY <1>1, <1>2, <1>3, <2>1, StepOfOneHandler
  <2>3. /\ vms'[binder[b].rec].vmid = binder[b].vmid
        /\ vms'[binder[b].rec].node = binder[b].node
    <3>1. vms[binder[b].rec] \in VmRecord
      BY <1>1 DEF TypeOK
    <3> QED BY <1>1, <1>6, <3>1 DEF WriteRecord, TypeOK, VmRecord
  <2>4. RecordWritten(b)' /\ OnlyRowFound(b)' /\ RowWritten(b)'
    BY <2>1, <2>3 DEF RecordWritten, OnlyRowFound, RowWritten, At
  <2>5. binder'[b].alone => NobodyElse(b)'
    BY <1>1, <2>1, GoesOnAlone
  <2> QED BY <2>2, <2>4, <2>5 DEF AloneInv
<1> QED BY <1>4, <1>5, <1>6

LEMMA SetPasswordKeepsAlone ==
    ASSUME CInv, NEW b \in Binders, SetPassword(b)
    PROVE  \A c \in Binders : AloneInv(c)'
<1>1. /\ TypeOK /\ LocalInv(b) /\ Busily(b) /\ rows' = rows
      /\ StorePassword(b) \/ UNCHANGED <<vms, script>>
      /\ binder[b].rec \in Records /\ At(b, "password")
  BY DEF CInv, BInv, SetPassword, Call, At, Busily, LocalInv
<1>2. \A r \in Records :
        vms'[r].vmid = vms[r].vmid /\ vms'[r].node = vms[r].node
  BY <1>1, SetVmPasswordEffect DEF StorePassword
<1>3. \A v \in Vmids : /\ RowsOf(v)' = RowsOf(v)
                       /\ \A i \in RowsOf(v) : i \in DOMAIN rows'
  BY <1>1 DEF RowsOf
<1>4. Proceed(b, "find") \/ Answer(b)
  BY DEF SetPassword, Call
<1>5. CASE Answer(b)
  <2>1. binder'[b].stage = "idle" /\ \A c \in Binders \ {b} : binder'[c] = binder[c]
    BY <1>1, <1>5, AnswerEffect
  <2> QED BY <1>1, <1>2, <1>3, <2>1, StepOfOneHandler DEF AloneInv, Busily
<1>6. CASE Proceed(b, "find")
  <2>1. /\ binder'[b].stage = "find" /\ binder'[b].rec = binder[b].rec
        /\ binder'[b].vmid = binder[b].vmid /\ binder'[b].node = binder[b].node
        /\ binder'[b].alone = binder[b].alone
        /\ \A c \in Binders \ {b} : binder'[c] = binder[c]
    BY <1>1, <1>6, ProceedEffect DEF Stages
  <2>2. \A c \in Binders \ {b} : AloneInv(c)'
    BY <1>1, <1>2, <1>3, <2>1, StepOfOneHandler
  <2>3. binder'[b].alone => NobodyElse(b)' /\ RecordWritten(b)
    BY <1>1, <2>1, GoesOnAlone
  <2>4. RecordWritten(b) => RecordWritten(b)'
    BY <1>1, <1>2, <2>1 DEF RecordWritten, At
  <2>5. OnlyRowFound(b)' /\ RowWritten(b)'
    BY <2>1 DEF OnlyRowFound, RowWritten, At
  <2> QED BY <2>2, <2>3, <2>4, <2>5 DEF AloneInv
<1> QED BY <1>4, <1>5, <1>6

LEMMA FindOwnershipKeepsAlone ==
    ASSUME CInv, NEW b \in Binders, FindOwnership(b)
    PROVE  \A c \in Binders : AloneInv(c)'
<1>1. /\ TypeOK /\ LocalInv(b) /\ Busily(b) /\ At(b, "find")
      /\ vms' = vms /\ rows' = rows /\ binder[b].vmid \in Vmids
  BY DEF CInv, BInv, FindOwnership, At, Busily, LocalInv, databaseVars
<1>2. \A v \in Vmids : /\ RowsOf(v)' = RowsOf(v)
                       /\ \A i \in RowsOf(v) : i \in DOMAIN rows'
  BY <1>1 DEF RowsOf
<1>3. CASE Answer(b)
  <2>1. binder'[b].stage = "idle" /\ \A c \in Binders \ {b} : binder'[c] = binder[c]
    BY <1>1, <1>3, AnswerEffect
  <2> QED BY <1>1, <1>2, <2>1, StepOfOneHandler DEF AloneInv, Busily
<1>4. ASSUME Cardinality(RowsFound(b)) <= 1,
             NEW i \in IF RowsFound(b) = {} THEN {0} ELSE RowsFound(b),
             binder' = [binder EXCEPT ![b].stage = "write", ![b].found = i]
      PROVE  \A c \in Binders : AloneInv(c)'
  <2>1. /\ DOMAIN rows = 1 .. Len(rows) /\ Len(rows) \in Nat
        /\ RowsFound(b) \subseteq 1 .. Len(rows)
        /\ RowsFound(b) = RowsOf(binder[b].vmid)
    BY <1>1 DEF RowsFound, RowsOf, TypeOK
  <2>2. IsFiniteSet(RowsFound(b))
    <3>1. IsFiniteSet(1 .. Len(rows))
      BY <2>1, FS_Interval
    <3> QED BY <2>1, <3>1, FS_Subset
  <2>3. RowsFound(b) = IF i = 0 THEN {} ELSE {i}
    <3>1. CASE RowsFound(b) = {}
      BY <1>4, <3>1
    <3>2. CASE RowsFound(b) # {}
      <4>1. Cardinality(RowsFound(b)) = 1
        BY <1>4, <2>2, <3>2, FS_CardinalityType, FS_EmptySet
      <4>2. PICK x : RowsFound(b) = {x}
        BY <2>2, <4>1, FS_Singleton
      <4>3. i = x /\ i # 0
        BY <1>4, <2>1, <3>2, <4>2
      <4> QED BY <4>2, <4>3
    <3> QED BY <3>1, <3>2
  <2>4. i \in Nat /\ binder[b] \in Locals
    BY <1>1, <1>4, <2>1 DEF TypeOK
  <2>5. /\ binder'[b].stage = "write" /\ binder'[b].rec = binder[b].rec
        /\ binder'[b].vmid = binder[b].vmid /\ binder'[b].node = binder[b].node
        /\ binder'[b].alone = binder[b].alone /\ binder'[b].found = i
        /\ \A c \in Binders \ {b} : binder'[c] = binder[c]
    BY <1>1, <1>4, <2>4 DEF TypeOK, Locals
  <2>6. \A c \in Binders \ {b} : AloneInv(c)'
    BY <1>1, <1>2, <2>5, StepOfOneHandler
  <2>7. binder'[b].alone => NobodyElse(b)' /\ RecordWritten(b)
    BY <1>1, <2>5, GoesOnAlone
  <2>8. RecordWritten(b) => RecordWritten(b)'
    BY <1>1, <2>5 DEF RecordWritten, At
  <2>9. RowsOf(binder[b].vmid)' = RowsOf(binder[b].vmid)
    BY <1>1, <2>5 DEF RowsOf
  <2>10. OnlyRowFound(b)' /\ RowWritten(b)'
    BY <2>1, <2>3, <2>5, <2>9 DEF OnlyRowFound, RowWritten, At
  <2> QED BY <2>6, <2>7, <2>8, <2>10 DEF AloneInv
<1> QED BY <1>3, <1>4 DEF FindOwnership

LEMMA WriteOwnershipKeepsAlone ==
    ASSUME CInv, NEW b \in Binders, WriteOwnership(b)
    PROVE  \A c \in Binders : AloneInv(c)'
<1> DEFINE v == binder[b].vmid
           x == Fields(b)
<1>1. /\ TypeOK /\ LocalInv(b) /\ Busily(b) /\ At(b, "write") /\ vms' = vms
      /\ binder[b].rec \in Records /\ v \in Vmids /\ binder[b].node \in Nodes
  BY DEF CInv, BInv, WriteOwnership, At, Busily, LocalInv
<1>2. /\ x \in Row /\ x.vmid = v /\ x.node = binder[b].node
      /\ x.owner = Customer[binder[b].rec]
  BY <1>1 DEF Fields, Row, LocalInv, Busily, At
<1> DEFINE k == IF binder[b].found = 0 THEN Len(rows) + 1 ELSE binder[b].found
\* The row that is written, and that no other row changes.
<1>3. ASSUME WriteRow(b), ~Violates(v, binder[b].node, binder[b].found)
      PROVE  /\ k \in DOMAIN rows' /\ rows'[k] = x
             /\ \A w \in Vmids : w = v /\ RowsOf(w) \subseteq {k}
                                    => RowsOf(w)' = {k}
             /\ \A w \in Vmids \ {v} :
                  /\ RowsOf(w)' = RowsOf(w)
                  /\ \A i \in RowsOf(w) : i \in DOMAIN rows' /\ rows'[i] = rows[i]
  <2>1. CASE binder[b].found # 0
    <3>1. binder[b].found \in RowsOf(v) /\ k = binder[b].found
      BY <1>1, <2>1 DEF LocalInv
    <3>2. /\ binder[b].found \in DOMAIN rows
          /\ rows[binder[b].found].vmid = v
          /\ rows' = [rows EXCEPT ![k] = x]
      BY <1>3, <2>1, <3>1 DEF WriteRow, RowsOf
    <3> HIDE DEF x, k
    <3>3. /\ DOMAIN rows' = DOMAIN rows
          /\ rows'[k] = x
          /\ \A j \in DOMAIN rows \ {k} : rows'[j] = rows[j]
          /\ \A w \in Vmids : RowsOf(w)' = RowsOf(w)
      BY <1>1, <1>2, <1>3, <3>1, <3>2, RowUpdate
    <3>4. \A w \in Vmids \ {v} : \A i \in RowsOf(w) : i \in DOMAIN rows \ {k}
      BY <3>1, <3>2 DEF RowsOf
    <3> QED BY <1>1, <3>1, <3>2, <3>3, <3>4
  <2>2. CASE binder[b].found = 0
    <3>1. rows' = Append(rows, x) /\ k = Len(rows) + 1
      BY <1>3, <2>2 DEF WriteRow
    <3>2. ~Violates(x.vmid, x.node, 0)
      BY <1>2, <1>3, <2>2
    <3> HIDE DEF x, k
    <3>3. /\ DOMAIN rows' = DOMAIN rows \cup {k}
          /\ k \notin DOMAIN rows
          /\ rows'[k] = x
          /\ \A j \in DOMAIN rows : rows'[j] = rows[j]
          /\ \A w \in Vmids : RowsOf(w)' = IF w = x.vmid
                                THEN RowsOf(w) \cup {k} ELSE RowsOf(w)
      BY <1>1, <1>2, <3>1, <3>2, RowInsert
    <3>4. \A w \in Vmids : RowsOf(w) \subseteq DOMAIN rows
      BY DEF RowsOf
    <3> QED BY <1>1, <1>2, <3>3, <3>4
  <2> QED BY <2>1, <2>2
<1> HIDE DEF k, x
<1>4. \A w \in Vmids \ {v} :
        /\ RowsOf(w)' = RowsOf(w)
        /\ \A i \in RowsOf(w) : i \in DOMAIN rows' /\ rows'[i] = rows[i]
  <2>1. CASE rows' = rows
    BY <2>1 DEF RowsOf
  <2>2. CASE WriteRow(b) /\ ~Violates(v, binder[b].node, binder[b].found)
    BY <1>3, <2>2
  <2> QED BY <2>1, <2>2 DEF WriteOwnership, Call
<1>5. CASE Answer(b)
  <2>1. binder'[b].stage = "idle" /\ \A c \in Binders \ {b} : binder'[c] = binder[c]
    BY <1>1, <1>5, AnswerEffect
  <2> QED BY <1>1, <1>4, <2>1, StepOfOneHandler DEF AloneInv, Busily
<1>6. CASE /\ Proceed(b, "audit") /\ WriteRow(b)
           /\ ~Violates(v, binder[b].node, binder[b].found)
  <2>1. /\ binder'[b].stage = "audit" /\ binder'[b].rec = binder[b].rec
        /\ binder'[b].vmid = v /\ binder'[b].node = binder[b].node
        /\ binder'[b].alone = binder[b].alone
        /\ \A c \in Binders \ {b} : binder'[c] = binder[c]
    BY <1>1, <1>6, ProceedEffect DEF Stages
  <2>2. \A c \in Binders \ {b} : AloneInv(c)'
    BY <1>1, <1>4, <2>1, StepOfOneHandler
  <2>3. binder'[b].alone =>
           NobodyElse(b)' /\ RecordWritten(b) /\ OnlyRowFound(b)
    BY <1>1, <2>1, GoesOnAlone
  <2>4. RecordWritten(b) => RecordWritten(b)'
    BY <1>1, <2>1 DEF RecordWritten, At
  <2>5. OnlyRowFound(b)'
    BY <2>1 DEF OnlyRowFound, At
  <2>6. OnlyRowFound(b) => RowWritten(b)'
    <3> SUFFICES ASSUME OnlyRowFound(b) PROVE RowWritten(b)'
      OBVIOUS
    <3>1. RowsOf(v) \subseteq {k}
      BY <1>1 DEF OnlyRowFound, k
    <3>2. \A w \in Vmids : w = v => RowsOf(w)' = {k}
      BY <1>3, <1>6, <3>1, Zenon
    <3>3. RowsOf(binder[b].vmid)' = {k}
      BY <1>1, <2>1, <3>2 DEF RowsOf
    <3>4. /\ k \in DOMAIN rows'
          /\ rows'[k].node = binder'[b].node
          /\ rows'[k].owner = Customer[binder'[b].rec]
      BY <1>2, <1>3, <1>6, <2>1
    <3> QED BY <3>3, <3>4 DEF RowWritten
  <2> QED BY <2>2, <2>3, <2>4, <2>5, <2>6 DEF AloneInv
<1> QED BY <1>5, <1>6 DEF WriteOwnership, Call

LEMMA AuditKeepsAlone ==
    ASSUME CInv, NEW b \in Binders, AuditAndAnswer(b)
    PROVE  \A c \in Binders : AloneInv(c)'
<1>1. /\ TypeOK /\ Busily(b) /\ Answer(b) /\ vms' = vms /\ rows' = rows
  BY DEF CInv, BInv, AuditAndAnswer, At, Busily, databaseVars
<1>2. binder'[b].stage = "idle" /\ \A c \in Binders \ {b} : binder'[c] = binder[c]
  BY <1>1, AnswerEffect
<1>3. \A v \in Vmids : /\ RowsOf(v)' = RowsOf(v)
                       /\ \A i \in RowsOf(v) : i \in DOMAIN rows'
  BY <1>1 DEF RowsOf
<1> QED BY <1>1, <1>2, <1>3, StepOfOneHandler DEF AloneInv, Busily

\* Steps of nobody's handler: those it disturbs are no longer alone.
LEMMA HealKeepsAlone ==
    ASSUME CInv, NEW v \in Vmids, NEW n \in Nodes, Heal(v, n)
    PROVE  \A c \in Binders : AloneInv(c)'
<1>1. /\ TypeOK /\ vms' = vms /\ binder' = Disturbed(Rivals(None, v))
  BY DEF CInv, BInv, Heal
<1>2. \A c \in Binders : Waits(c) /\
         binder'[c].alone = (binder[c].alone /\ c \notin Rivals(None, v))
  BY <1>1, DisturbedType DEF Waits
<1>3. PICK i \in RowsOf(v) : rows' = [rows EXCEPT ![i].node = n]
  BY DEF Heal
<1>4. /\ DOMAIN rows' = DOMAIN rows
      /\ \A j \in DOMAIN rows \ {i} : rows'[j] = rows[j]
      /\ rows'[i].vmid = rows[i].vmid /\ i \in DOMAIN rows
  <2>1. i \in DOMAIN rows /\ rows[i] \in Row
    BY <1>1, ElementOfSeq DEF TypeOK, RowsOf
  <2> QED BY <1>1, <1>3, <2>1 DEF TypeOK, Row
<1>5. \A w \in Vmids \ {v} :
        /\ RowsOf(w)' = RowsOf(w)
        /\ \A j \in RowsOf(w) : j \in DOMAIN rows' /\ rows'[j] = rows[j]
  BY <1>3, <1>4 DEF RowsOf
<1>6. ASSUME NEW c \in Binders PROVE AloneInv(c)'
  <2>1. CASE ~(Busily(c) /\ binder[c].alone) \/ binder[c].vmid = v
    <3>1. ~(Busily(c)' /\ binder'[c].alone)
      BY <1>2, <2>1 DEF Waits, Busily, Busy, Rivals
    <3> QED BY <3>1 DEF AloneInv
  <2>2. CASE Busily(c) /\ binder[c].alone /\ binder[c].vmid # v
    <3>1. NobodyElse(c)
      BY <2>2 DEF CInv, AloneInv
    <3>2. \A d \in Binders \ {c} : Busily(d)' =>
                /\ Busily(d)
                /\ binder'[d].rec = binder[d].rec
                /\ binder'[d].vmid = binder[d].vmid
      BY <1>2 DEF Busily, Waits
    <3>3. NobodyElse(c)'
      BY <1>2, <3>1, <3>2, NobodyElseKept
    <3>4. Unnoticed(c)
      BY <1>1, <1>2, <1>5, <2>2 DEF Unnoticed
    <3> QED BY <3>3, <3>4, UnnoticedKeepsAlone
  <2> QED BY <2>1, <2>2
<1> QED BY <1>6

LEMMA OthersKeepAlone ==
    ASSUME CInv, Backfill \/ UNCHANGED vars
    PROVE  \A c \in Binders : AloneInv(c)'
<1>1. TypeOK /\ rows' = rows /\ binder' = binder /\ PasswordInv
  BY DEF CInv, BInv, Backfill, BackfillList, BackfillFetch, BackfillEncrypt,
         BackfillExit, databaseVars, vars
<1>2. \A r \in Records :
        vms'[r].vmid = vms[r].vmid /\ vms'[r].node = vms[r].node
  <2>1. CASE vms' = vms
    BY <2>1
  <2>2. CASE BackfillEncrypt /\ SetVmPassword(script.rec, "old")
    BY <1>1, <2>2, SetVmPasswordEffect DEF PasswordInv, BackfillEncrypt
  <2> QED
    BY <2>1, <2>2 DEF Backfill, BackfillList, BackfillFetch, BackfillEncrypt,
                      BackfillExit, databaseVars, vars
<1>3. ASSUME NEW c \in Binders PROVE AloneInv(c)'
  <2>1. Unnoticed(c)
    BY <1>1, <1>2 DEF Unnoticed, Waits, RowsOf
  <2>2. ASSUME Busily(c) /\ binder'[c].alone PROVE NobodyElse(c)'
    BY <1>1, <2>2 DEF CInv, AloneInv, NobodyElse, Busily
  <2> QED BY <2>1, <2>2, UnnoticedKeepsAlone
<1> QED BY <1>3

LEMMA SpecCInv == Spec => []CInv
<1>1. Init => CInv
  BY InitBInv DEF Init, CInv, AloneInv, Busily, Idle
<1>2. CInv /\ [Next]_vars => CInv'
  <2> SUFFICES ASSUME CInv, [Next]_vars PROVE \A c \in Binders : AloneInv(c)'
    BY NextKeepsBInv DEF CInv
  <2> QED
    BY StartKeepsAlone, UpdateRecordKeepsAlone, SetPasswordKeepsAlone,
       FindOwnershipKeepsAlone, WriteOwnershipKeepsAlone, AuditKeepsAlone,
       HealKeepsAlone, OthersKeepAlone DEF Next, BinderStep
<1> QED BY <1>1, <1>2, PTL DEF Spec

\* The one row of a set of rows is what single() returns.
LEMMA SingleRow ==
    ASSUME NEW i
    PROVE  Single({i}) = rows[i].node
<1>1. Cardinality({i}) = 1
  BY FS_Singleton
<1>2. (CHOOSE j \in {i} : TRUE) = i
  OBVIOUS
<1> QED BY <1>1, <1>2 DEF Single

\* A binding with which no other binding of its record or VM and no heal has
\* interfered is as good as atomic: record and row agree, and every lane of
\* the other routes leads to the node that was bound.
THEOREM UndisturbedBindingsHold == Spec => []BoundWhenAlone
<1>1. CInv => BoundWhenAlone
  <2> SUFFICES ASSUME CInv, NEW b \in Binders, At(b, "audit"), binder[b].alone
               PROVE  LET r == binder[b].rec
                          v == binder[b].vmid
                          n == binder[b].node
                      IN /\ vms[r].vmid = v
                         /\ vms[r].node = n
                         /\ StaffLane(v) = n
                         /\ OwnLane(Customer[r], v) = n
                         /\ \E i \in RowsOf(v) : RecordLane(Customer[r], i) = n
                         /\ MaySeeNode(Customer[r], n)
    BY DEF BoundWhenAlone
  <2> DEFINE r == binder[b].rec
             v == binder[b].vmid
             n == binder[b].node
  <2>1. /\ AloneInv(b) /\ LocalInv(b) /\ Busily(b)
        /\ v \in Vmids /\ None \notin Vmids
    BY BindingsAssumption DEF CInv, BInv, Busily, At, LocalInv
  <2>2. vms[r].vmid = v /\ vms[r].node = n
    BY <2>1 DEF AloneInv, RecordWritten, At
  <2>3. PICK i \in DOMAIN rows :
          /\ RowsOf(v) = {i} /\ rows[i].node = n /\ rows[i].owner = Customer[r]
    BY <2>1 DEF AloneInv, RowWritten
  <2>4. StaffLane(v) = n
    BY <2>3, SingleRow DEF StaffLane
  <2>5. OwnLane(Customer[r], v) = n
    <3>1. {j \in RowsOf(v) : rows[j].owner = Customer[r]} = {i}
      BY <2>3
    <3> QED BY <2>3, <3>1, SingleRow DEF OwnLane
  <2>6. RecordLane(Customer[r], i) = n
    <3>1. {j \in DOMAIN rows : j = i /\ rows[j].owner = Customer[r]} = {i}
      BY <2>3
    <3> QED BY <2>3, <3>1, SingleRow DEF RecordLane
  <2>7. MaySeeNode(Customer[r], n)
    BY <2>3 DEF MaySeeNode
  <2> QED BY <2>2, <2>3, <2>4, <2>5, <2>6, <2>7
<1> QED BY <1>1, SpecCInv, PTL

-----------------------------------------------------------------------------
(* The tables are an account of VmLedger: every call is a step of the      *)
(* ledger or no step of it, and only the update of the record, the write   *)
(* of the row, a heal and the second look of a race are steps.             *)

Assigned == [r \in Records |-> AssignmentOf(r)]
Held == [v \in Vmids |-> HolderOf(v)]

LEMMA HolderVacant ==
    ASSUME NEW v \in Vmids \ raced, RowsOf(v) = {}
    PROVE  HolderOf(v) = [state |-> "vacant", node |-> None, owner |-> None]
BY DEF HolderOf

LEMMA HolderTorn ==
    ASSUME NEW v \in raced
    PROVE  HolderOf(v) = [state |-> "torn", node |-> None, owner |-> None]
BY DEF HolderOf

LEMMA HolderHeld ==
    ASSUME NEW v \in Vmids \ raced, NEW i, RowsOf(v) = {i}
    PROVE  HolderOf(v) = [state |-> "held", node |-> rows[i].node,
                          owner |-> rows[i].owner]
<1>1. (CHOOSE j \in RowsOf(v) : TRUE) = i /\ RowsOf(v) # {}
  OBVIOUS
<1> QED BY <1>1 DEF HolderOf

\* Who holds v does not change with the rows and the races of other VMs.
LEMMA HolderKept ==
    ASSUME NEW v \in Vmids, v \in raced' <=> v \in raced,
           RowsOf(v)' = RowsOf(v), \A i \in RowsOf(v) : rows'[i] = rows[i]
    PROVE  HolderOf(v)' = HolderOf(v)
<1>1. CASE v \in raced
  BY <1>1 DEF HolderOf
<1>2. CASE v \notin raced /\ RowsOf(v) = {}
  BY <1>2 DEF HolderOf
<1>3. CASE v \notin raced /\ RowsOf(v) # {}
  <2> DEFINE i == CHOOSE j \in RowsOf(v) : TRUE
  <2>1. i \in RowsOf(v)
    BY <1>3
  <2>2. rows'[i] = rows[i]
    BY <2>1
  <2>3. (CHOOSE j \in RowsOf(v)' : TRUE) = i
    BY Zenon
  <2> HIDE DEF i
  <2>4. HolderOf(v) = [state |-> "held", node |-> rows[i].node,
                       owner |-> rows[i].owner]
    BY <1>3 DEF HolderOf, i
  <2>5. HolderOf(v)' = [state |-> "held", node |-> rows'[i].node,
                        owner |-> rows'[i].owner]
    BY <1>3, <2>3 DEF HolderOf
  <2> QED BY <2>2, <2>4, <2>5
<1> QED BY <1>1, <1>2, <1>3

LEMMA AssignmentsKept ==
    ASSUME \A r \in Records : vms'[r].vmid = vms[r].vmid
                              /\ vms'[r].node = vms[r].node
    PROVE  Assigned' = Assigned
<1>1. \A r \in Records : AssignmentOf(r)' = AssignmentOf(r)
  BY DEF AssignmentOf
<1> QED BY <1>1 DEF Assigned

\* A step that changes neither record, nor row, nor race.
LEMMA LedgerUntouched ==
    ASSUME \A r \in Records : vms'[r].vmid = vms[r].vmid
                              /\ vms'[r].node = vms[r].node,
           rows' = rows, raced' = raced, bound' = bound
    PROVE  UNCHANGED Ledger!vars
<1>1. \A v \in Vmids : HolderOf(v)' = HolderOf(v)
  BY HolderKept DEF RowsOf
<1>2. Held' = Held
  BY <1>1 DEF Held
<1>3. Assigned' = Assigned
  BY AssignmentsKept
<1> QED BY <1>2, <1>3 DEF Ledger!vars, Assigned, Held

LEMMA HeldUpdate ==
    ASSUME NEW v \in Vmids, NEW x, HolderOf(v)' = x,
           \A w \in Vmids \ {v} : HolderOf(w)' = HolderOf(w)
    PROVE  Held' = [Held EXCEPT ![v] = x]
BY DEF Held

LEMMA UpdateRecordIsAssign ==
    ASSUME BInv, NEW b \in Binders, UpdateRecord(b)
    PROVE  [Ledger!Next]_(Ledger!vars)
<1>1. /\ TypeOK /\ rows' = rows /\ raced' = raced
      /\ binder[b].rec \in Records /\ binder[b].vmid \in Vmids
      /\ binder[b].node \in Nodes
      /\ WriteRecord(b) \/ UNCHANGED <<vms, bound>>
  BY DEF BInv, LocalInv, UpdateRecord, Call, At
<1>2. PICK r \in Records, v \in Vmids, n \in Nodes :
        r = binder[b].rec /\ v = binder[b].vmid /\ n = binder[b].node
  BY <1>1
<1>3. CASE UNCHANGED <<vms, bound>>
  BY <1>1, <1>3, LedgerUntouched
<1>4. CASE WriteRecord(b)
  <2>1. bound' = bound \cup {<<r, v>>}
    BY <1>2, <1>4 DEF WriteRecord
  <2>2. /\ vms'[r].vmid = v /\ vms'[r].node = n
        /\ \A q \in Records \ {r} : vms'[q] = vms[q]
    <3>1. \A q \in Records : vms[q] \in VmRecord
      BY <1>1 DEF TypeOK
    <3>2. vms' = [vms EXCEPT ![r] = [vms[r] EXCEPT !.vmid = v, !.node = n]]
      BY <1>1, <1>2, <1>4 DEF WriteRecord, TypeOK
    <3> QED BY <1>1, <3>1, <3>2 DEF TypeOK, VmRecord
  <2>3. AssignmentOf(r)' = [vmid |-> v, node |-> n]
    BY <2>2 DEF AssignmentOf
  <2>4. \A q \in Records \ {r} : AssignmentOf(q)' = AssignmentOf(q)
    BY <2>2 DEF AssignmentOf
  <2>5. Assigned' = [Assigned EXCEPT ![r] = [vmid |-> v, node |-> n]]
    BY <2>3, <2>4 DEF Assigned
  <2>6. Held' = Held
    <3>1. \A w \in Vmids : HolderOf(w)' = HolderOf(w)
      BY <1>1, HolderKept DEF RowsOf
    <3> QED BY <3>1 DEF Held
  <2>7. Ledger!Assign(r, v, n)
    BY <2>1, <2>5, <2>6 DEF Ledger!Assign, Assigned, Held
  <2> QED BY <2>7 DEF Ledger!Next
<1> QED BY <1>1, <1>3, <1>4

\* The second handler to find no row of a VM tears the account of it.
LEMMA FindOwnershipIsTear ==
    ASSUME BInv, NEW b \in Binders, FindOwnership(b)
    PROVE  [Ledger!Next]_(Ledger!vars)
<1>1. /\ TypeOK /\ binder[b].vmid \in Vmids
      /\ vms' = vms /\ rows' = rows /\ bound' = bound
  BY DEF BInv, LocalInv, FindOwnership, At, databaseVars
<1>2. PICK v \in Vmids : v = binder[b].vmid
  BY <1>1
<1>3. CASE raced' = raced
  BY <1>1, <1>3, LedgerUntouched
<1>4. CASE raced' # raced
  <2>1. raced' = raced \cup {binder[c].vmid : c \in
                        {c \in Rivals(None, v) :
                            At(c, "write") /\ RowsFound(b) = {}}}
    BY <1>2, <1>4 DEF FindOwnership
  <2>2. RowsFound(b) = {}
    BY <1>4, <2>1
  <2>3. \A d \in Rivals(None, v) : At(d, "write") => binder[d].vmid = v
    <3>1. \A d \in Binders : At(d, "write") => binder[d].rec \in Records
      BY DEF BInv, LocalInv, At
    <3> QED BY <3>1, BindingsAssumption DEF Rivals, Busy
  <2>4. raced' = raced \cup {v} /\ v \notin raced
    BY <1>4, <2>1, <2>3
  <2>5. RowsOf(v) = {}
    BY <1>2, <2>2 DEF RowsFound
  <2>6. HolderOf(v) = [state |-> "vacant", node |-> None, owner |-> None]
    BY <2>4, <2>5, HolderVacant
  <2>7. HolderOf(v)' = [state |-> "torn", node |-> None, owner |-> None]
    BY <2>4 DEF HolderOf
  <2>8. \A w \in Vmids \ {v} : HolderOf(w)' = HolderOf(w)
    BY <1>1, <2>4, HolderKept DEF RowsOf
  <2>9. Held' = [Held EXCEPT ![v].state = "torn"]
    <3>1. Held[v] = [state |-> "vacant", node |-> None, owner |-> None]
      BY <2>6 DEF Held
    <3>2. [Held[v] EXCEPT !.state = "torn"]
             = [state |-> "torn", node |-> None, owner |-> None]
      BY <3>1
    <3> QED BY <2>7, <2>8, <3>2, HeldUpdate
  <2>10. Assigned' = Assigned
    BY <1>1, AssignmentsKept
  <2>11. Held[v].state = "vacant"
    BY <2>6 DEF Held
  <2>12. Ledger!Tear(v)
    BY <1>1, <2>9, <2>10, <2>11 DEF Ledger!Tear, Assigned, Held
  <2> QED BY <2>12 DEF Ledger!Next
<1> QED BY <1>3, <1>4

\* The write of the row grants the VM, unless the account of it is torn.
LEMMA WriteOwnershipIsGrant ==
    ASSUME BInv, NEW b \in Binders, WriteOwnership(b)
    PROVE  [Ledger!Next]_(Ledger!vars)
<1> DEFINE x == Fields(b)
<1>1. /\ TypeOK /\ LocalInv(b) /\ At(b, "write")
      /\ binder[b].rec \in Records /\ binder[b].vmid \in Vmids
      /\ binder[b].node \in Nodes
      /\ vms' = vms /\ bound' = bound /\ raced' = raced
  BY DEF BInv, LocalInv, WriteOwnership, At, historyVars
<1>2. PICK r \in Records, v \in Vmids, n \in Nodes :
        r = binder[b].rec /\ v = binder[b].vmid /\ n = binder[b].node
  BY <1>1
<1>3. /\ x \in Row /\ x.vmid = v /\ x.node = n /\ x.owner = Customer[r]
      /\ Customer[r] # None /\ <<r, v>> \in bound
  BY <1>1, <1>2 DEF Fields, Row, LocalInv, At
<1>4. CASE rows' = rows
  BY <1>1, <1>4, LedgerUntouched
<1>5. CASE WriteRow(b) /\ ~Violates(v, n, binder[b].found)
  <2>1. PICK k : k = IF binder[b].found = 0 THEN Len(rows) + 1
                                             ELSE binder[b].found
    OBVIOUS
  <2> HIDE DEF x
  <2>2. /\ k \in DOMAIN rows' /\ rows'[k] = x
        /\ v \notin raced => RowsOf(v)' = {k}
        /\ \A w \in Vmids \ {v} :
             /\ RowsOf(w)' = RowsOf(w)
             /\ \A i \in RowsOf(w) : rows'[i] = rows[i]
    <3>1. CASE binder[b].found # 0
      <4>1. /\ k \in RowsOf(v) /\ k \in DOMAIN rows /\ rows[k].vmid = v
            /\ rows' = [rows EXCEPT ![k] = x]
        BY <1>1, <1>2, <1>5, <2>1, <3>1 DEF LocalInv, WriteRow, RowsOf, x
      <4>2. ~Violates(x.vmid, x.node, k)
        BY <1>3, <1>5, <2>1, <3>1
      <4>3. /\ DOMAIN rows' = DOMAIN rows
            /\ rows'[k] = x
            /\ \A j \in DOMAIN rows \ {k} : rows'[j] = rows[j]
            /\ \A w \in Vmids : RowsOf(w)' = RowsOf(w)
        BY <1>1, <1>3, <4>1, <4>2, RowUpdate
      <4>4. v \notin raced => RowsOf(v) = {k}
        BY <4>1 DEF BInv, SoloInv
      <4>5. \A w \in Vmids \ {v} : \A i \in RowsOf(w) : i \in DOMAIN rows \ {k}
        BY <4>1 DEF RowsOf
      <4> QED BY <4>1, <4>3, <4>4, <4>5
    <3>2. CASE binder[b].found = 0
      <4>1. rows' = Append(rows, x) /\ k = Len(rows) + 1
        BY <1>5, <2>1, <3>2 DEF WriteRow, x
      <4>2. ~Violates(x.vmid, x.node, 0)
        BY <1>3, <1>5, <3>2
      <4>3. /\ DOMAIN rows' = DOMAIN rows \cup {k}
            /\ k \notin DOMAIN rows
            /\ rows'[k] = x
            /\ \A j \in DOMAIN rows : rows'[j] = rows[j]
            /\ \A w \in Vmids : RowsOf(w)' = IF w = x.vmid
                                  THEN RowsOf(w) \cup {k} ELSE RowsOf(w)
        BY <1>1, <1>3, <4>1, <4>2, RowInsert
      <4>4. v \notin raced => RowsOf(v) = {}
        BY <1>1, <1>2, <3>2 DEF BInv, SoloInv, FoundNone
      <4>5. \A w \in Vmids : RowsOf(w) \subseteq DOMAIN rows
        BY DEF RowsOf
      <4>6. v \notin raced => RowsOf(v)' = {k}
        BY <1>3, <4>3, <4>4
      <4> QED BY <1>3, <4>3, <4>5, <4>6
    <3> QED BY <3>1, <3>2
  <2>3. \A w \in Vmids \ {v} : HolderOf(w)' = HolderOf(w)
    BY <1>1, <2>2, HolderKept
  <2>4. Assigned' = Assigned
    BY <1>1, AssignmentsKept
  <2>5. CASE v \in raced
    <3>1. HolderOf(v)' = HolderOf(v)
      BY <1>1, <2>5 DEF HolderOf
    <3>2. Held' = Held
      BY <2>3, <3>1 DEF Held
    <3> QED BY <1>1, <2>4, <3>2 DEF Ledger!vars, Assigned, Held
  <2>6. CASE v \notin raced
    <3>1. HolderOf(v)' = [state |-> "held", node |-> n, owner |-> Customer[r]]
      <4>1. HolderOf(v)' = [state |-> "held", node |-> rows'[k].node,
                            owner |-> rows'[k].owner]
        <5>1. (CHOOSE j \in RowsOf(v)' : TRUE) = k /\ RowsOf(v)' # {}
          BY <2>2, <2>6
        <5> QED BY <1>1, <2>6, <5>1 DEF HolderOf
      <4> QED BY <1>3, <2>2, <4>1
    <3>2. Held' = [Held EXCEPT ![v] = [state |-> "held", node |-> n,
                                       owner |-> Customer[r]]]
      BY <2>3, <3>1, HeldUpdate
    <3>3. Held[v].state # "torn"
      <4>1. HolderOf(v).state \in {"vacant", "held"}
        BY <2>6 DEF HolderOf
      <4> QED BY <4>1 DEF Held
    <3>4. Ledger!Grant(r, v, n)
      BY <1>1, <1>3, <2>4, <3>2, <3>3 DEF Ledger!Grant, Assigned, Held
    <3> QED BY <3>4 DEF Ledger!Next
  <2> QED BY <2>5, <2>6
<1> QED BY <1>2, <1>4, <1>5 DEF WriteOwnership, Call

\* A heal moves the VM, unless the account of it is torn.
LEMMA HealIsRelocate ==
    ASSUME BInv, NEW v \in Vmids, NEW n \in Nodes, Heal(v, n)
    PROVE  [Ledger!Next]_(Ledger!vars)
<1>1. TypeOK /\ vms' = vms /\ raced' = raced /\ bound' = bound
  BY DEF BInv, Heal
<1>2. PICK i \in RowsOf(v) :
        RowsOf(v) = {i} /\ rows' = [rows EXCEPT ![i].node = n]
  BY DEF Heal
<1>3. /\ DOMAIN rows' = DOMAIN rows /\ i \in DOMAIN rows
      /\ \A j \in DOMAIN rows \ {i} : rows'[j] = rows[j]
      /\ rows'[i].vmid = rows[i].vmid /\ rows'[i].node = n
      /\ rows'[i].owner = rows[i].owner
  <2>1. i \in DOMAIN rows /\ rows[i] \in Row
    BY <1>1, ElementOfSeq DEF TypeOK, RowsOf
  <2> QED BY <1>1, <1>2, <2>1 DEF TypeOK, Row
<1>4. \A w \in Vmids : RowsOf(w)' = RowsOf(w)
  BY <1>3 DEF RowsOf
<1>5. \A w \in Vmids \ {v} : \A j \in RowsOf(w) : rows'[j] = rows[j]
  BY <1>2, <1>3 DEF RowsOf
<1>6. \A w \in Vmids \ {v} : HolderOf(w)' = HolderOf(w)
  BY <1>1, <1>4, <1>5, HolderKept
<1>7. Assigned' = Assigned
  BY <1>1, AssignmentsKept
<1>8. CASE v \in raced
  <2>1. HolderOf(v)' = HolderOf(v)
    BY <1>1, <1>8 DEF HolderOf
  <2>2. Held' = Held
    BY <1>6, <2>1 DEF Held
  <2> QED BY <1>1, <1>7, <2>2 DEF Ledger!vars, Assigned, Held
<1>9. CASE v \notin raced
  <2>1. HolderOf(v) = [state |-> "held", node |-> rows[i].node,
                       owner |-> rows[i].owner]
    BY <1>2, <1>9, HolderHeld
  <2>2. HolderOf(v)' = [state |-> "held", node |-> n, owner |-> rows[i].owner]
    <3>1. (CHOOSE j \in RowsOf(v)' : TRUE) = i /\ RowsOf(v)' # {}
      BY <1>2, <1>4
    <3>2. HolderOf(v)' = [state |-> "held", node |-> rows'[i].node,
                          owner |-> rows'[i].owner]
      BY <1>1, <1>9, <3>1 DEF HolderOf
    <3> QED BY <1>3, <3>2
  <2>3. Held' = [Held EXCEPT ![v].node = n]
    <3>1. Held[v] = [state |-> "held", node |-> rows[i].node,
                     owner |-> rows[i].owner]
      BY <2>1 DEF Held
    <3>2. [Held[v] EXCEPT !.node = n]
             = [state |-> "held", node |-> n, owner |-> rows[i].owner]
      BY <3>1
    <3> QED BY <1>6, <2>2, <3>2, HeldUpdate
  <2>4. Held[v].state = "held"
    BY <2>1 DEF Held
  <2>5. Ledger!Relocate(v, n)
    BY <1>1, <1>7, <2>3, <2>4 DEF Ledger!Relocate, Assigned, Held
  <2> QED BY <2>5 DEF Ledger!Next
<1> QED BY <1>8, <1>9

\* The password of a record is no part of the ledger.
LEMMA OthersAreNoEntry ==
    ASSUME BInv,
           \/ \E b \in Binders :
                 \/ \E r \in Records, v \in Vmids, n \in Nodes :
                       Start(b, r, v, n)
                 \/ SetPassword(b)
                 \/ AuditAndAnswer(b)
           \/ Backfill
           \/ UNCHANGED vars
    PROVE  UNCHANGED Ledger!vars
<1>1. rows' = rows /\ raced' = raced /\ bound' = bound
  BY DEF Start, SetPassword, AuditAndAnswer, Backfill, BackfillList,
         BackfillFetch, BackfillEncrypt, BackfillExit, databaseVars,
         historyVars, vars
<1>2. \/ vms' = vms
      \/ \E r \in Records, p \in {"old", "new"} : SetVmPassword(r, p)
  <2>1. CASE \E b \in Binders : SetPassword(b)
    <3>1. PICK b \in Binders : SetPassword(b)
      BY <2>1
    <3>2. LocalInv(b) /\ At(b, "password")
      BY <3>1 DEF BInv, SetPassword
    <3> QED BY <3>1, <3>2 DEF SetPassword, StorePassword, Call, LocalInv, At
  <2>2. CASE BackfillEncrypt
    BY <2>2 DEF BackfillEncrypt, BInv, PasswordInv
  <2> QED
    BY <2>1, <2>2 DEF Start, AuditAndAnswer, Backfill, BackfillList,
         BackfillFetch, BackfillExit, databaseVars, vars
<1>3. \A r \in Records :
        vms'[r].vmid = vms[r].vmid /\ vms'[r].node = vms[r].node
  BY <1>2, SetVmPasswordEffect DEF BInv
<1> QED BY <1>1, <1>3, LedgerUntouched

\* Whatever calls fail or lose their answers and however they interleave,
\* records and rows are an account of VmLedger.
THEOREM BindingsImplementLedger == Spec => ImplementsLedger
<1>1. Init => Ledger!Init
  <2> SUFFICES ASSUME Init PROVE Ledger!Init
    OBVIOUS
  <2>1. \A r \in Records : AssignmentOf(r) = [vmid |-> None, node |-> None]
    BY DEF Init, AssignmentOf
  <2>2. \A v \in Vmids :
          HolderOf(v) = [state |-> "vacant", node |-> None, owner |-> None]
    BY HolderVacant DEF Init, RowsOf
  <2> QED BY <2>1, <2>2 DEF Ledger!Init, Init
<1>2. BInv /\ [Next]_vars => [Ledger!Next]_(Ledger!vars)
  BY UpdateRecordIsAssign, FindOwnershipIsTear, WriteOwnershipIsGrant,
     HealIsRelocate, OthersAreNoEntry DEF Next, BinderStep
<1> QED BY <1>1, <1>2, SpecBInv, PTL DEF Spec, ImplementsLedger, Ledger!Spec

=============================================================================
