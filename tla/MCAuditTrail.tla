--------------------------- MODULE MCAuditTrail ---------------------------
(* Small instances of the audit trail for TLC. *)
EXTENDS AuditTrail

OneCursor == {<<1, 3>>}
===========================================================================
