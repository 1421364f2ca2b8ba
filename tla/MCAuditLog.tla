----------------------------- MODULE MCAuditLog -----------------------------
(* Small audit logs for TLC. *)
EXTENDS AuditLog, TLC

CONSTANTS p1, p2

Symmetry == Permutations(Procs)

=============================================================================
