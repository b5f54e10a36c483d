--------------------------- MODULE MCProxmoxClient ---------------------------
(***************************************************************************)
(* One unit is 5 s: the cooldown is 4 units, a portal request's timeout 3, *)
(* the sync job's 9.                                                       *)
(***************************************************************************)
EXTENDS ProxmoxClient

CONSTANTS portal1, portal2, sync

MCCallers == {portal1, portal2, sync}
MCTimeout == [c \in MCCallers |-> IF c = sync THEN 9 ELSE 3]

=============================================================================
