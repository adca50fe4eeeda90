------------------------- MODULE MCAuditReplication -------------------------
(* Instances of AuditReplication for TLC. *)
EXTENDS AuditReplication

CONSTANTS c1, c2

TwoConns == {c1, c2}
=============================================================================
