--------------------------- MODULE MCBulkTransfer ---------------------------
(* Two names to transfer; files of up to three entries, one of them malformed. *)
EXTENDS BulkTransfer

CONSTANTS a, b, x, y, t

E(n, v, ts) == [name |-> n, val |-> v, tags |-> ts, valid |-> TRUE]

SmallDumps == {<<E(a, x, {t})>>,
               <<E(a, x, {}), E(b, x, {t})>>,
               <<E(a, x, {t}), E(b, y, {}), E(a, y, {})>>,
               <<E(a, x, {}), E(a, y, {t})>>,
               <<E(a, x, {t}), [E(b, y, {t}) EXCEPT !.valid = FALSE]>>}

=============================================================================
