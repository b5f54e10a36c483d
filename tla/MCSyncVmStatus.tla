--------------------------- MODULE MCSyncVmStatus ---------------------------
(***************************************************************************)
(* One unit is 5 s: a timeout of 45 s is 9 units, the cooldown 4, the cron *)
(* period 24, and the backoffs of 2, 4 and 8 s are rounded up to 1, 1, 2.  *)
(* Rounding up makes a run longer than in the code, never shorter.         *)
(***************************************************************************)
EXTENDS SyncVmStatus

CONSTANTS s1, s2

MCBackoff == [n \in 1 .. 3 |-> IF n = 3 THEN 2 ELSE 1]

=============================================================================
