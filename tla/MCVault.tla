------------------------------ MODULE MCVault ------------------------------
(* Small vaults for TLC.  The cfg files pick one of the command sets below. *)
EXTENDS VaultInvariant, TLC

CONSTANTS a, b,        \* names
          old, new,    \* values
          t,           \* a tag
          k0, k1, k2, k3, k4  \* master keys, in no particular order

Cmd(op, n) == [op |-> op, name |-> n, target |-> n, val |-> old, tags |-> {},
               force |-> FALSE]
Put(n, v, f)    == [Cmd("insert", n) EXCEPT !.val = v, !.force = f]
Rename(n, m, f) == [Cmd("mv", n) EXCEPT !.target = m, !.force = f]
Retag(n, ts)    == [Cmd("tag", n) EXCEPT !.tags = ts]

\* Rotations among the commands whose keys they can make stale.
RotateCommands ==
    {Put(a, old, FALSE), Put(b, new, TRUE), Rename(a, b, TRUE),
     Rename(a, b, FALSE), Retag(a, {t}), Cmd("rm", b), Cmd("show", a),
     Cmd("reindex", a), Cmd("rotate", a)}

\* A user who reads while others edit and rotate.
ReadCommands ==
    {Put(a, old, TRUE), Cmd("rm", a), Cmd("show", a), Cmd("rotate", a)}

=============================================================================
