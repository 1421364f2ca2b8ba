---------------------------- MODULE Repository ----------------------------
(* A vault directory from its first init on: inits, changes and reads by     *)
(* concurrent processes, and the git repository that is to hold every        *)
(* change.  Vault.tla has the changes in detail; here a change is its two    *)
(* files, its audit record and its commit, in the order the commands make    *)
(* them.                                                                     *)
EXTENDS VaultInit, Git

VARIABLES
    lock     \* the process holding the vault lock, or None

vars == <<dirVars, pc, call, keys, started, crashes, overlap, missed,
          gitVars, gitLocal, promised, lock>>

Ops == {"init", "insert", "rm", "show"}

Stages == {"idle", "resolve", "lock", "change", "save", "audit"}
             \cup Making \cup {"check", "add", "addNew", "status", "tree", "head"}

Init ==
    /\ file = Empty /\ clock = 0
    /\ pc = [p \in Procs |-> "idle"]
    /\ call = [p \in Procs |-> "none"]
    /\ keys = [p \in Procs |-> 0]
    /\ started = 0 /\ crashes = 0 /\ overlap = FALSE /\ missed = FALSE
    /\ repo = FALSE /\ ignoring = FALSE
    /\ index = Empty /\ head = Empty /\ indexLock = None
    /\ scan = [p \in Procs |-> Empty] /\ base = [p \in Procs |-> Empty]
    /\ seen = [p \in Procs |-> Empty] /\ listed = [p \in Procs |-> {}]
    /\ promised = Empty
    /\ lock = None

-----------------------------------------------------------------------------
(* The commands other than init *)

\* unlock_with_gpg and derive_keys: the wrapped master key must be one of this
\* KEK.
Resolve(p) ==
    /\ pc[p] = "resolve"
    /\ IF file["master.json"].from = file["master.gpg"].from
          THEN /\ keys' = [keys EXCEPT ![p] = file["master.gpg"].from]
               /\ Goto(p, IF call[p] = "show" THEN "audit" ELSE "lock")
               /\ UNCHANGED call
          ELSE End(p)
    /\ UNCHANGED <<dirVars, lock, missed>>

\* The lock file is made by the first to take the lock.
AcquireLock(p) ==
    /\ pc[p] = "lock"
    /\ lock = None
    /\ lock' = p
    /\ IF Here(".lock") THEN UNCHANGED dirVars ELSE Put(p, ".lock", TRUE)
    /\ Goto(p, "change")
    /\ UNCHANGED <<call, keys, missed>>

\* insert --force replaces the file, rm removes it, if it is there.
ChangeSecret(p) ==
    /\ pc[p] = "change"
    /\ IF call[p] = "rm" /\ ~Here("secret")
          THEN End(p) /\ lock' = None /\ UNCHANGED dirVars
          ELSE /\ Put(p, "secret", call[p] = "insert")
               /\ Goto(p, "save")
               /\ UNCHANGED <<lock, call, keys>>
    /\ UNCHANGED missed

\* The manifest is read and replaced, or found to be under other keys.
SaveManifest(p) ==
    /\ pc[p] = "save"
    /\ IF Here("manifest") /\ file["manifest"].from # keys[p]
          THEN End(p) /\ UNCHANGED dirVars /\ missed' = TRUE
          ELSE Put(p, "manifest", TRUE) /\ Goto(p, "audit") /\ UNCHANGED <<call, keys, missed>>
    /\ lock' = None

\* Mutant: rm forgets its _auto_commit.
CommitsInserts(op) == op = "insert"

\* The commands that end with _auto_commit; init has had its own.
Commits(op) == op \in {"insert", "rm"}

\* AuditLog.append.  A change goes on to its commit; show and init are over.
AppendAudit(p) ==
    /\ pc[p] = "audit"
    /\ Put(p, "audit", TRUE)
    /\ IF Commits(call[p]) THEN Goto(p, "check") /\ UNCHANGED <<call, keys>>
                           ELSE End(p)
    /\ UNCHANGED <<lock, missed>>

\* An OSError of that write is no CryptoError: the command ends there, with
\* its change made.
AppendAuditFails(p) ==
    /\ pc[p] = "audit"
    /\ End(p)
    /\ missed' = TRUE
    /\ UNCHANGED <<dirVars, lock>>

Commands(p) ==
    \/ Resolve(p) \/ AcquireLock(p) \/ ChangeSecret(p) \/ SaveManifest(p)
    \/ AppendAudit(p) \/ AppendAuditFails(p)

\* p and the git it runs are killed.  The vault lock dies with it; an
\* index.lock stays.
Crash(p) ==
    /\ pc[p] # "idle"
    /\ crashes < MaxCrashes
    /\ crashes' = crashes + 1
    /\ End(p)
    /\ lock' = IF lock = p THEN None ELSE lock
    /\ missed' = TRUE
    /\ UNCHANGED <<dirVars, started, overlap, gitVars, gitLocal, promised>>

Next ==
    \E p \in Procs :
       \/ /\ \/ \E op \in Ops : Start(p, op)
             \/ InitSteps(p)
          /\ UNCHANGED <<gitVars, gitLocal, promised, lock>>
       \/ Commands(p) /\ UNCHANGED <<started, crashes, overlap, gitVars, gitLocal, promised>>
       \/ GitSteps(p) /\ UNCHANGED <<dirVars, started, crashes, overlap, lock>>
       \/ Crash(p)

Spec == Init /\ [][Next]_vars

-----------------------------------------------------------------------------
(* Properties *)

\* Every variable keeps its type, and a lock is held only by who works under it,
\* but for the index.lock of a git that was killed.
TypeOK ==
    /\ file \in [Paths -> Content] /\ clock \in Nat
    /\ pc \in [Procs -> Stages] /\ call \in [Procs -> Ops \cup {"none"}]
    /\ keys \in [Procs -> 0 .. MaxCommands]
    /\ started \in 0 .. MaxCommands /\ crashes \in 0 .. MaxCrashes
    /\ {overlap, repo, ignoring, missed} \subseteq BOOLEAN
    /\ {index, head, promised} \subseteq [Paths -> Content]
    /\ {indexLock, lock} \subseteq Procs \cup {None}
    /\ {scan, base, seen} \subseteq [Procs -> [Paths -> Content]]
    /\ listed \in [Procs -> SUBSET Paths]
    /\ \A p \in Procs : /\ lock = p <=> pc[p] \in {"change", "save"}
                        /\ indexLock = p /\ crashes = 0 => pc[p] = "addNew"

\* As long as no command runs while a vault is being made, all that is in it is
\* under the keys of one init, however often inits were killed and given again
\* before: what main admits can be unlocked, and what is stored can be read.
OneInitMadeIt ==
    Initialized /\ ~overlap =>
        /\ file["master.json"].from = file["master.gpg"].from
        /\ \A path \in {"manifest", "secret"} :
              Here(path) => file[path].from = file["master.json"].from

\* An init never replaces what a user has stored: what it is about to write is
\* not there, or is what an init that was killed has left, unless commands
\* overlapped the init (vault.py:345-346).
InitReplacesNothing ==
    ~overlap => \A p \in Procs :
        /\ pc[p] \in {"gpg", "json", "emptyManifest"} =>
              ~Here("manifest") /\ ~Here("secret")
        /\ pc[p] \in {"gpg", "json"} => ~Here("master.json")

\* What was on disk when the git add of an auto-commit began is in the tree that
\* auto-commit vouches for, and what was vouched for is in HEAD from then on, in
\* that version or a newer one, although the index, HEAD and the directory are
\* shared with commands that no lock keeps out.  So the next commit that works
\* also brings in what killed commands, failed audit records and skipped commits
\* left out (git.py:48-60, cli.py:50-55).  Who finds nothing to commit while
\* another commit is on its way has no such promise: that commit can bring back
\* a file that HEAD, the index and the directory agreed is gone.
CommitsAreKept ==
    \A path \in Paths \ {".lock"} :
        /\ \/ head[path].ver >= promised[path].ver
           \/ ~head[path].here /\ ~promised[path].here
        /\ \A p \in Procs :
              /\ pc[p] \in {"status", "tree"} => index[path].ver >= seen[p][path].ver
              /\ pc[p] = "head" => scan[p][path].ver >= seen[p][path].ver

\* "Auto-commit on every change" (README.md:29): when all commands are over,
\* HEAD has the vault as it is on disk, but for audit records, unless some
\* command was killed, failed after its change, was warned that its commit was
\* skipped, or had a git status that failed, of which nobody is warned.
EveryChangeIsCommitted ==
    (\A p \in Procs : pc[p] = "idle") /\ ~missed =>
        \A path \in {"master.gpg", "master.json", "manifest", "secret"} :
            head[path] = file[path] \/ ~(Here(path) \/ head[path].here)

\* "The advisory lock file must not appear in commits" (test_git.py:76-80): it
\* does only after a kill between git init and .gitignore, which no later init
\* makes up for, or when a command was admitted before the init was over.
LockFileNotTracked == crashes = 0 /\ ~overlap => ~head[".lock"].here

=============================================================================
