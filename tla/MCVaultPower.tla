---------------------------- MODULE MCVaultPower ----------------------------
(* A small vault on a disk that can lose power. *)
EXTENDS VaultPower

CONSTANTS a, b, old, new, t, k0, k1

Cmd(op, n) == [op |-> op, name |-> n, target |-> n, val |-> old, tags |-> {},
               force |-> FALSE]
Insertion(n, v, f) == [Cmd("insert", n) EXCEPT !.val = v, !.force = f]
Rename(n, m, f)    == [Cmd("mv", n) EXCEPT !.target = m, !.force = f]

\* The commands that change store/ or repair the index, on two names.
PowerCommands ==
    {Insertion(a, old, FALSE), Insertion(a, new, TRUE), Insertion(b, new, FALSE),
     Rename(a, b, FALSE), Rename(a, b, TRUE), Rename(b, b, TRUE),
     [Cmd("tag", a) EXCEPT !.tags = {t}], Cmd("rm", a), Cmd("rm", b),
     Cmd("reindex", a), Cmd("rotate", a)}

=============================================================================
