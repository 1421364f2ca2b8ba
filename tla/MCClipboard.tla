---------------------------- MODULE MCClipboard ----------------------------
(* Three copies, two of them of the same secret. *)
EXTENDS Clipboard

CONSTANTS c1, c2, c3, s, r

Texts == [c \in Copies |-> IF c = c3 THEN r ELSE s]

=============================================================================
