----------------------------- MODULE MCSession -----------------------------
(* Three unlocks, of two vaults, and a command on one of them. *)
EXTENDS Session

CONSTANTS u1, u2, u3, c1, v, w

TwoVaults == [i \in Unlocks \cup Commands |-> IF i = u3 THEN w ELSE v]

=============================================================================
