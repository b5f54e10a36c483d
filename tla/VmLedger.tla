------------------------------ MODULE VmLedger ------------------------------
(***************************************************************************)
(* What the bindings promise to the other routes, with no handlers, calls, *)
(* rows or passwords: an account of who holds a VM and on which node.  A   *)
(* VM is granted to the customer of a record that names it, each grant     *)
(* replaces the last as a whole, a move changes the node and nothing else, *)
(* and a VM that is held is never without a holder again.  The account is  *)
(* torn only where nobody held the VM yet, and then it says nothing more.  *)
(* Bindings implements it.                                                 *)
(***************************************************************************)

CONSTANTS Records, Customer, None, Vmids, Nodes

VARIABLES
    assigned,   \* [Records -> the VM and the node that the record names]
    named,      \* which record has ever named which VM
    holder      \* [Vmids -> the VM's state, node and owner]

vars == <<assigned, named, holder>>

Init ==
    /\ assigned = [r \in Records |-> [vmid |-> None, node |-> None]]
    /\ named = {}
    /\ holder = [v \in Vmids |->
                    [state |-> "vacant", node |-> None, owner |-> None]]

Assign(r, v, n) ==
    /\ named' = named \cup {<<r, v>>}
    /\ assigned' = [assigned EXCEPT ![r] = [vmid |-> v, node |-> n]]
    /\ UNCHANGED holder

Grant(r, v, n) ==
    /\ <<r, v>> \in named
    /\ Customer[r] # None
    /\ holder[v].state # "torn"
    /\ holder' = [holder EXCEPT ![v] =
                    [state |-> "held", node |-> n, owner |-> Customer[r]]]
    /\ UNCHANGED <<assigned, named>>

Relocate(v, n) ==
    /\ holder[v].state = "held"
    /\ holder' = [holder EXCEPT ![v].node = n]
    /\ UNCHANGED <<assigned, named>>

\* Two first grants collide.
Tear(v) ==
    /\ holder[v].state = "vacant"
    /\ holder' = [holder EXCEPT ![v].state = "torn"]
    /\ UNCHANGED <<assigned, named>>

Next ==
    \/ \E r \in Records, v \in Vmids, n \in Nodes :
          Assign(r, v, n) \/ Grant(r, v, n)
    \/ \E v \in Vmids, n \in Nodes : Relocate(v, n)
    \/ \E v \in Vmids : Tear(v)

Spec == Init /\ [][Next]_vars

=============================================================================
