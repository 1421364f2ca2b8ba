----------------------------- MODULE AtomicFile -----------------------------
(* _atomic_write, system call by system call, by any number of writers of    *)
(* one file (manifest, audit, master.json, a blob of store/).  What has not  *)
(* been fsynced is lost, torn or kept by a power loss.  A content is named   *)
(* by the call that writes it; the temporary file of a call is its own.      *)
EXTENDS Integers

CONSTANTS Writes,     \* calls of _atomic_write
          Old,        \* the content the file starts with
          DirSync,    \* the filesystem can fsync a directory
          MaxLosses,  \* bound: power losses in a behaviour
          Torn        \* what a half-written file holds

ASSUME FileAssumption ==
    /\ Old \notin Writes /\ Torn \notin Writes \cup {Old}
    /\ DirSync \in BOOLEAN /\ MaxLosses \in Nat

Contents == Writes \cup {Old}

VARIABLES
    stage,    \* how far each call has got
    temps,    \* calls whose temporary name is in the directory
    whole,    \* contents that are all in their file
    synced,   \* contents that are all on disk
    current,  \* what the file holds
    pending,  \* what a power loss may leave it with
    rank,     \* when each content was renamed into place
    renames,  \* renames so far
    losses    \* power losses so far

vars == <<stage, temps, whole, synced, current, pending, rank, renames, losses>>

Running == {"made", "written", "synced", "renamed"}
Stages  == {"idle", "returned", "raised", "killed"} \cup Running

Goto(w, s) == stage' = [stage EXCEPT ![w] = s]

Init ==
    /\ stage = [w \in Writes |-> "idle"]
    /\ temps = {}
    /\ whole = {Old} /\ synced = {Old}
    /\ current = Old /\ pending = {Old}
    /\ rank = [c \in Contents |-> 0]
    /\ renames = 0 /\ losses = 0

\* mkstemp in the directory of the file.
MakeTemp(w) ==
    /\ stage[w] = "idle"
    /\ temps' = temps \cup {w}
    /\ Goto(w, "made")
    /\ UNCHANGED <<whole, synced, current, pending, rank, renames, losses>>

\* fchmod, write, flush.
WriteTemp(w) ==
    /\ stage[w] = "made"
    /\ whole' = whole \cup {w}
    /\ Goto(w, "written")
    /\ UNCHANGED <<temps, synced, current, pending, rank, renames, losses>>

\* Mutant: no fsync before the rename.
SkippedSync(w) == synced

\* fsync puts the whole content on disk.
AfterSync(w) == synced \cup {w}

SyncTemp(w) ==
    /\ stage[w] = "written"
    /\ synced' = AfterSync(w)
    /\ Goto(w, "synced")
    /\ UNCHANGED <<temps, whole, current, pending, rank, renames, losses>>

\* os.replace
Replace(w) ==
    /\ stage[w] = "synced"
    /\ current' = w
    /\ pending' = pending \cup {w}
    /\ temps' = temps \ {w}
    /\ renames' = renames + 1
    /\ rank' = [rank EXCEPT ![w] = renames + 1]
    /\ Goto(w, "renamed")
    /\ UNCHANGED <<whole, synced, losses>>

\* Mutant: the directory is not fsynced.
SkippedDirSync == pending

\* What a power loss may leave once the directory is fsynced, if it can be.
AfterDirSync == IF DirSync THEN {current} ELSE pending

\* The call returns; an OSError of the directory's fsync is ignored.
SyncDirectory(w) ==
    /\ stage[w] = "renamed"
    /\ pending' = AfterDirSync
    /\ Goto(w, "returned")
    /\ UNCHANGED <<temps, whole, synced, current, rank, renames, losses>>

\* Mutant: the exception handler forgets the temporary file.
KeptTemps(w) == temps

\* The exception handler unlinks the temporary file.
CleanedTemps(w) == temps \ {w}

\* An OSError before the rename, or a KeyboardInterrupt anywhere.
Raise(w) ==
    /\ stage[w] \in Running
    /\ temps' = CleanedTemps(w)
    /\ Goto(w, "raised")
    /\ UNCHANGED <<whole, synced, current, pending, rank, renames, losses>>

\* SIGKILL runs no handler.
Kill(w) ==
    /\ stage[w] \in Running
    /\ Goto(w, "killed")
    /\ UNCHANGED <<temps, whole, synced, current, pending, rank, renames, losses>>

\* Every call in progress is gone.  Renames and unlinks not yet on disk may be
\* undone, and give temporary names back; data not yet on disk may be torn.
PowerLoss ==
    /\ losses < MaxLosses
    /\ losses' = losses + 1
    /\ stage' = [w \in Writes |-> IF stage[w] \in Running THEN "killed" ELSE stage[w]]
    /\ \E c \in pending :
          /\ current' = c
          /\ pending' = {c}
          /\ temps' \in SUBSET (temps \cup {d \in pending : rank[d] > rank[c]}
                                     \cup {w \in Writes : stage[w] = "raised"})
    /\ \E lost \in SUBSET (whole \ synced) : whole' = whole \ lost
    /\ synced' = whole'
    /\ UNCHANGED <<rank, renames>>

Next ==
    \/ \E w \in Writes :
          \/ MakeTemp(w) \/ WriteTemp(w) \/ SyncTemp(w) \/ Replace(w)
          \/ SyncDirectory(w) \/ Raise(w) \/ Kill(w)
    \/ PowerLoss

Spec == Init /\ [][Next]_vars

-----------------------------------------------------------------------------
(* Properties *)

\* Every variable keeps its type.
TypeOK ==
    /\ stage \in [Writes -> Stages]
    /\ temps \in SUBSET Writes
    /\ whole \in SUBSET Contents /\ synced \in SUBSET whole
    /\ current \in pending /\ pending \in SUBSET Contents
    /\ rank \in [Contents -> Nat]
    /\ renames \in Nat /\ losses \in Nat

\* A write that returned is never rolled back to an older content, not even by
\* a power loss, where directories can be fsynced (vault.py:113-119).
ReturnedIsDurable ==
    DirSync => \A w \in Writes : stage[w] = "returned" =>
                  \A c \in pending : rank[c] >= rank[w]

\* Without a power loss, .tmp files are those of running or killed writers: no
\* exception leaves one behind (vault.py:121-123).
NoStrayTemps ==
    losses = 0 => \A w \in temps : stage[w] \in {"killed"} \cup Running

\* What makes them hold: only synced contents are renamed into place, and each
\* rename has a later rank than all before it.
FileInv ==
    /\ TypeOK
    /\ pending \subseteq synced
    /\ \A c \in Contents : rank[c] <= renames
    /\ rank[Old] = 0
    /\ \A w \in Writes : /\ stage[w] = "written" => w \in whole
                         /\ stage[w] = "synced" => w \in synced
                         /\ stage[w] = "renamed" => rank[w] <= rank[current]
    /\ ReturnedIsDurable

\* A content, as a reader of the file finds it.
Seen(c) == IF c \in whole THEN c ELSE Torn

Abstract == INSTANCE DurableFile WITH
    value    <- Seen(current),
    possible <- {Seen(c) : c \in pending}

\* The system calls implement atomic replacement: the file is never half
\* written, whoever fails, is killed or loses power, and at whatever point.
\* Vault.tla and AuditLog.tla take a whole _atomic_write as one step.
ImplementsDurableFile == Abstract!Spec

=============================================================================
