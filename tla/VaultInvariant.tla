--------------------------- MODULE VaultInvariant ---------------------------
(* The inductive invariant behind the safety properties of Vault.tla.       *)
EXTENDS Vault

\* The stages inside a with vault.lock() block.
Critical == {"locked", "load", "save", "rewrap", "rotateAudit", "commit"}

\* The stages of _rotate_master_key_locked once a key is drawn.
Rotating == {"rewrap", "rotateAudit", "commit"}

\* The lock is held exactly by the process inside such a block.
LockInv == \A p \in Procs : pc[p] \in Critical <=> lock = p

\* A process has in memory what its stage needs, and a rotation visits only
\* files that are there.
LocalInv ==
    \A p \in Procs :
        /\ pc[p] = "save" => loaded[p] # None
        /\ pc[p] \in Rotating => newKey[p] # None
        /\ todo[p] # {} => pc[p] = "rewrap"
        /\ \A f \in todo[p] : store[f] # None

\* Every file a rotation has no more to visit is under its new key, and past
\* the manifest step so is the manifest.
RewrapInv ==
    \A p \in Procs :
        /\ pc[p] \in Rotating =>
              \A f \in Files : store[f] # None /\ f \notin todo[p]
                                  => store[f].key = newKey[p]
        /\ pc[p] \in {"rotateAudit", "commit"} =>
              manifest # None /\ manifest.key = newKey[p]

\* Without stale writes and abandoned rotations a secret is under the key of
\* master.json unless a rotation has visited it.
SecretsInv ==
    mishaps \cap {"staleWrite", "abandonedRotation"} = {} =>
        \A n \in Names : store[n] # None =>
            \/ store[n].key = master
            \/ \E p \in Procs : pc[p] \in Rotating /\ n \notin todo[p]

\* Without abandoned rotations the manifest opens with the key of master.json
\* unless a rotation is between the two.
ManifestInv ==
    "abandonedRotation" \notin mishaps =>
        \/ ManifestOpens(manifest, master)
        \/ \E p \in Procs : pc[p] \in {"rotateAudit", "commit"}

\* Keys in use have been drawn; the key of a rotation is nobody else's.
FreshInv ==
    /\ master \in drawn
    /\ manifest # None => manifest.key \in drawn
    /\ \A p \in Procs :
          /\ key[p] # None => key[p] \in drawn
          /\ newKey[p] # None => newKey[p] \in drawn
          /\ pc[p] \in Rotating =>
                newKey[p] # master /\ \A q \in Procs : key[q] # newKey[p]
          /\ pc[p] = "rewrap" /\ manifest # None => manifest.key # newKey[p]

\* A resolved key that opens the manifest is the key of master.json.
KeyInv ==
    \A p \in Procs : pc[p] # "idle" /\ ManifestOpens(manifest, key[p])
                        => key[p] = master

IInv ==
    /\ TypeOK /\ LockInv /\ LocalInv
    /\ NoLostUpdate /\ RewrapInv /\ SecretsInv
    /\ ManifestInv /\ FreshInv /\ KeyInv /\ NoStaleCommit

=============================================================================
