----------------------------- MODULE VaultPower -----------------------------
(* Vault.tla on a disk that can lose power.  _atomic_write syncs the         *)
(* directory it renames in: what it wrote is there for good, with every      *)
(* earlier change of that directory.  The rename of mv and the unlink of rm  *)
(* are synced by nobody, and the manifest save that follows them syncs       *)
(* another directory, so that the index can be ahead of store/.              *)
EXTENDS Vault

CONSTANT MaxLosses  \* bound: power losses in a behaviour

ASSUME PowerAssumption == MaxLosses \in Nat

VARIABLES
    unsynced,  \* the states of store/ a power loss may leave
    losses,    \* power losses so far
    suspect    \* history: a loss or a torn update since the last reindex

powerVars == <<vars, unsynced, losses, suspect>>

PowerInit == Init /\ unsynced = {store} /\ losses = 0 /\ suspect = FALSE

\* Mutant: insert leaves the directory to the kernel.
SyncedUnlessInserted(p) == pc'[p] # "idle" /\ call[p].op = "rotate"

\* Mutant: the rewrap of a rotation leaves the directory to the kernel.
SyncedUnlessRewrapped(p) == pc'[p] # "idle" /\ call[p].op = "insert"

\* The steps of p that end in an _atomic_write into store/; a process that was
\* killed inside one left its temporary file unsynced.
Synced(p) == pc'[p] # "idle" /\ call[p].op \in {"insert", "rotate"}

\* The changes of the directory reach the disk in order, at some time.
Track(p) ==
    unsynced' = IF store' = store THEN unsynced
                ELSE IF Synced(p) THEN {store'}
                ELSE unsynced \cup {store'}

\* p ends with a file changed and the index not told.
TornBy(p) == /\ Changing(p) /\ pc'[p] = "idle"
             /\ call[p].op \in {"insert", "rm", "mv"}

\* p saves the index of a reindex.
RepairedBy(p) == pc[p] = "save" /\ pc'[p] # "idle" /\ call[p].op = "reindex"

Work(p) ==
    /\ Start(p) \/ Step(p) \/ Crash(p) \/ CrashInWrite(p)
    /\ Track(p)
    /\ suspect' = (TornBy(p) \/ (suspect /\ ~RepairedBy(p)))
    /\ UNCHANGED losses

\* Every process ends; the files replaced by _atomic_write are as they were, and
\* store/ goes back to where it was synced last, or not as far.
PowerLoss ==
    /\ losses < MaxLosses
    /\ losses' = losses + 1
    /\ store' \in unsynced
    /\ unsynced' = {store'}
    /\ suspect' = TRUE
    /\ lock' = None
    /\ pc' = [p \in Procs |-> "idle"]
    /\ call' = [p \in Procs |-> None]
    /\ key' = [p \in Procs |-> None]
    /\ newKey' = [p \in Procs |-> None]
    /\ todo' = [p \in Procs |-> {}]
    /\ loaded' = [p \in Procs |-> None]
    /\ Recording(UNION {Wreckage(p) : p \in Procs})
    /\ UNCHANGED <<master, manifest, audit, drawn, started, crashes>>

PowerNext == PowerLoss \/ \E p \in Procs : Work(p)

PowerSpec == PowerInit /\ [][PowerNext]_powerVars

-----------------------------------------------------------------------------
(* Properties *)

\* No power loss takes a stored value with it, wherever it comes between the
\* steps of inserts, renames and rotations: it is there in whatever store/ the
\* loss leaves, under the same key, if maybe under its name before a rename
\* (vault.py:103-108).
NothingToLose ==
    \A s \in unsynced, n \in Names :
        store[n] # None => \E m \in Names : s[m] = store[n]

\* A reindex repairs what power losses and killed commands did to the index:
\* from then to the next of them, what is listed is there.
ReindexRepairs ==
    lock = None /\ ~suspect =>
        \A n \in Names : IndexIn(manifest)[n] # None => store[n] # None

\* When a rotation is about to write master.json, no power loss can bring back
\* a listed secret under the old key, unless an earlier one, or a torn update,
\* had already set the index and store/ apart.
RotationIsDurable ==
    \A p \in Procs : pc[p] = "commit" /\ ~suspect =>
        \A s \in unsynced, n \in Names :
            s[n] # None /\ IndexIn(manifest)[n] # None => s[n].key = newKey[p]

=============================================================================
