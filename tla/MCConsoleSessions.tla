-------------------------- MODULE MCConsoleSessions --------------------------
(* One unit is 15 s: the default TTL of 60 s is 4 units, a sweep 2. *)
EXTENDS ConsoleSessions

CONSTANTS t1, t2, c1, c2

=============================================================================
