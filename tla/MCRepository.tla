---------------------------- MODULE MCRepository ----------------------------
(* Two processes on a vault directory that starts empty. *)
EXTENDS Repository, TLC

CONSTANTS p1, p2

Symmetry == Permutations({p1, p2})

=============================================================================
