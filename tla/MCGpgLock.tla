----------------------------- MODULE MCGpgLock -----------------------------
(* Calls on two hosts that share a GPG home, and a daemon on each host. *)
EXTENDS GpgLock

CONSTANTS g1, g2, g3, d1, d2, here, there

TwoHosts == [p \in Procs |-> IF p \in {g3, d2} THEN there ELSE here]

=============================================================================
