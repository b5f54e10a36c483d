---------------------------- MODULE MCAuditTrail ----------------------------
(* Small instances of AuditTrail, with the values of MCNodeFailover. *)
EXTENDS MCNodeFailover, AuditTrail

=============================================================================
