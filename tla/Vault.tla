------------------------------- MODULE Vault -------------------------------
(* A cavern vault directory and the cavern processes working on it.         *)
(*                                                                          *)
(* Every command is one process.  It reads master.json before it takes the  *)
(* vault lock, so the master key it works with is a snapshot; what it then  *)
(* does to store/, manifest, audit and master.json is a sequence of whole   *)
(* file replacements, each one action here.  A process can be killed        *)
(* between any two of them, and inside one of them.                         *)
(*                                                                          *)
(* A secret's file name is a keyed hash of its name under the KEK, which    *)
(* never changes, so the file of a name is identified with the name.  A     *)
(* blob is a value and the master key its header is wrapped under; opening  *)
(* it with any other key is the CryptoError of AES-GCM.                     *)
EXTENDS FiniteSets, Integers

CONSTANTS Procs,       \* cavern processes
          Names,       \* normalized secret names
          Temps,       \* names mkstemp can pick in store/
          Values,      \* secret contents
          Tags,        \* normalized tags
          MasterKeys,  \* master keys there are to draw
          FirstKey,    \* the key the vault was initialized with
          Commands,    \* the commands users may give
          MaxCommands, \* bound: commands given in a behaviour
          MaxCrashes,  \* bound: processes killed in a behaviour
          None         \* no file, no entry, no key, no process

Ops == {"insert", "show", "ls", "rm", "mv", "tag", "reindex", "rotate"}

\* One argparse namespace: an operation reads only the fields it has.
Command == [op : Ops, name : Names, target : Names, val : Values,
            tags : SUBSET Tags, force : BOOLEAN]

Files == Names \cup Temps

\* A torn file opens under no key.
Blob     == [key : MasterKeys \cup {None}, val : Values \cup {None}]
Torn     == [key |-> None, val |-> None]
Index    == [Names -> (SUBSET Tags) \cup {None}]
Manifest == [key : MasterKeys, index : Index]

Stages == {"idle", "check", "read", "scan", "lock", "locked", "load", "save",
           "rewrap", "rotateAudit", "commit", "rederive", "audit"}

Mishaps == {"staleWrite", "tornUpdate", "abandonedRotation"}

ASSUME VaultAssumption ==
    /\ FirstKey \in MasterKeys
    /\ Commands \subseteq Command
    /\ Names \cap Temps = {}
    /\ None \notin Procs \cup MasterKeys \cup Values
    /\ None \notin Command /\ None \notin Blob /\ None \notin Manifest
    /\ None \notin Index /\ \A ts \in SUBSET Tags : ts # None
    /\ MaxCommands \in Nat /\ MaxCrashes \in Nat

VARIABLES
    master,    \* the key master.json holds
    store,     \* store/: each file's blob, or None
    manifest,  \* the manifest file, or None
    audit,     \* the key the audit log is encrypted under, or None
    lock,      \* the process holding the flock, or None
    pc,        \* stage of each process
    call,      \* its command
    key,       \* the master key it resolved
    newKey,    \* the key a rotation drew
    todo,      \* files a rotation has still to visit
    loaded,    \* the index a process has in memory
    drawn,     \* every master key drawn so far
    started,   \* commands given so far
    crashes,   \* processes killed so far
    mishaps    \* history: which kinds of damage have happened

disk   == <<master, store, manifest, audit>>
locals == <<call, key, newKey, todo, loaded>>
ghosts == <<drawn, started, crashes, mishaps>>
vars   == <<disk, lock, pc, locals, ghosts>>

-----------------------------------------------------------------------------
(* Helpers *)

EmptyIndex == [n \in Names |-> None]

\* _manifest_load on the file as it is: a missing manifest is an empty one.
IndexIn(m) == IF m = None THEN EmptyIndex ELSE m.index

\* Mutant: a manifest under another key is read anyway.
OpensUnchecked(m, k) == TRUE

\* Whether the manifest decrypts with k.
ManifestOpens(m, k) == m # None => m.key = k

\* The tags an index carries for n: none when it is not listed.
TagsOf(index, n) == IF index[n] = None THEN {} ELSE index[n]

\* Mutant: reindex keeps what is not there.
Unreindexed(index, files) == index

\* The index a reindex saves: what it loaded, without the names whose file is
\* not there.
Reindexed(index, files) == [n \in Names |-> IF files[n] = None THEN None
                                                          ELSE index[n]]

\* Mutant: mv leaves the source listed.
UpdatedKeepingSource(c, index, files) ==
    CASE c.op \in {"insert", "mv"} ->
             [index EXCEPT ![c.target] = TagsOf(index, c.name)]
      [] c.op = "tag"     -> [index EXCEPT ![c.name] = c.tags]
      [] c.op = "rm"      -> [index EXCEPT ![c.name] = None]
      [] c.op = "reindex" -> Reindexed(index, files)
      [] OTHER            -> index

\* The index a command saves, from the index it loaded and the files on disk.
Updated(c, index, files) ==
    CASE c.op = "insert"  -> [index EXCEPT ![c.name] = TagsOf(index, c.name)]
      [] c.op = "tag"     -> [index EXCEPT ![c.name] = c.tags]
      [] c.op = "rm"      -> [index EXCEPT ![c.name] = None]
      [] c.op = "mv"      -> [index EXCEPT ![c.name] = None,
                                           ![c.target] = TagsOf(index, c.name)]
      [] c.op = "reindex" -> Reindexed(index, files)
      [] OTHER            -> index

\* Mutant: mv overwrites its target without --force.
RefusedIgnoringTarget(c) ==
    \/ c.op = "insert" /\ store[c.name] # None /\ ~c.force
    \/ c.op \in {"rm", "mv", "tag"} /\ store[c.name] = None

\* What the checks under the lock refuse: SecretExistsError, SecretNotFoundError.
Refused(c) ==
    \/ c.op = "insert" /\ store[c.name] # None /\ ~c.force
    \/ c.op \in {"rm", "mv", "tag"} /\ store[c.name] = None
    \/ c.op = "mv" /\ store[c.target] # None /\ ~c.force

\* The stage a command enters once its keys are resolved.
FirstStage(op) == CASE op = "show"              -> "check"
                    [] op \in {"ls", "reindex"} -> "scan"
                    [] OTHER                    -> "lock"

\* Mutant: a key that need only differ from the present one.
OtherKey == CHOOSE k \in MasterKeys : k # master

\* token_bytes: a key nobody has seen.
FreshKey == CHOOSE k \in MasterKeys : k \notin drawn

\* Mutant: no lock.
LockIsShared == TRUE

\* flock is exclusive.
LockIsFree == lock = None

\* Mutant: a lock file that outlives its process.
LockOutlives(p) == lock

\* A flock dies with its process.
LockAfter(p) == IF lock = p THEN None ELSE lock

\* Mutant: a rotation that visits the files the manifest lists.
ListedFiles == {n \in Names : store[n] # None /\ IndexIn(manifest)[n] # None}

\* The files a rotation visits: iterdir, so debris and unlisted files too.
StoredFiles == {f \in Files : store[f] # None}

Goto(p, stage) == pc' = [pc EXCEPT ![p] = stage]

\* The process is gone: its locals with it, and its flock if it had it.
End(p) ==
    /\ Goto(p, "idle")
    /\ call' = [call EXCEPT ![p] = None]
    /\ key' = [key EXCEPT ![p] = None]
    /\ newKey' = [newKey EXCEPT ![p] = None]
    /\ todo' = [todo EXCEPT ![p] = {}]
    /\ loaded' = [loaded EXCEPT ![p] = None]
    /\ lock' = LockAfter(p)

\* A rotation that has put something under its new key cannot be undone.
Underway(p) ==
    /\ newKey[p] # None
    /\ \/ \E n \in Names : store[n] # None /\ store[n].key = newKey[p]
       \/ manifest # None /\ manifest.key = newKey[p]

\* What is left half done when p ends now.
Wreckage(p) ==
    {m \in Mishaps :
       \/ /\ m = "tornUpdate"
          /\ pc[p] \in {"load", "save"} /\ call[p].op \in {"insert", "rm", "mv"}
       \/ /\ m = "abandonedRotation"
          /\ pc[p] \in {"rewrap", "rotateAudit", "commit"} /\ Underway(p)}

Recording(damage) == mishaps' = mishaps \cup damage

-----------------------------------------------------------------------------
(* A vault just initialized.  init writes the manifest last: a vault whose  *)
(* init died before that is initialized too, and has none.                  *)
Init ==
    /\ master = FirstKey
    /\ store = [f \in Files |-> None]
    /\ manifest \in {None, [key |-> FirstKey, index |-> EmptyIndex]}
    /\ audit \in {None, FirstKey}
    /\ lock = None
    /\ pc = [p \in Procs |-> "idle"]
    /\ call = [p \in Procs |-> None]
    /\ key = [p \in Procs |-> None]
    /\ newKey = [p \in Procs |-> None]
    /\ todo = [p \in Procs |-> {}]
    /\ loaded = [p \in Procs |-> None]
    /\ drawn = {FirstKey}
    /\ started = 0 /\ crashes = 0
    /\ mishaps = {}

\* A command starts: _resolve_keys reads master.json, holding no lock.
Start(p) ==
    /\ pc[p] = "idle"
    /\ started < MaxCommands
    /\ \E c \in Commands :
          /\ call' = [call EXCEPT ![p] = c]
          /\ Goto(p, FirstStage(c.op))
    /\ key' = [key EXCEPT ![p] = master]
    /\ started' = started + 1
    /\ UNCHANGED <<disk, lock, newKey, todo, loaded, drawn, crashes, mishaps>>

-----------------------------------------------------------------------------
(* Commands that read without the lock *)

\* show: is_file.
CheckFile(p) ==
    /\ pc[p] = "check"
    /\ IF store[call[p].name] = None
          THEN End(p)
          ELSE Goto(p, "read") /\ UNCHANGED <<lock, locals>>
    /\ UNCHANGED <<disk, ghosts>>

\* show: read_bytes and decrypt_secret.  The file may be gone by now
\* (FileNotFoundError) or be under another key (CryptoError).
ReadFile(p) ==
    LET blob == store[call[p].name] IN
    /\ pc[p] = "read"
    /\ IF blob # None /\ blob.key = key[p]
          THEN Goto(p, "audit") /\ UNCHANGED <<lock, locals>>
          ELSE End(p)
    /\ UNCHANGED <<disk, ghosts>>

\* ls, find, tag --list, tag --search, and the audit_drift report of reindex:
\* one unlocked _manifest_load.
ScanManifest(p) ==
    /\ pc[p] = "scan"
    /\ IF call[p].op = "reindex" /\ ManifestOpens(manifest, key[p])
          THEN Goto(p, "lock") /\ UNCHANGED <<lock, locals>>
          ELSE End(p)
    /\ UNCHANGED <<disk, ghosts>>

-----------------------------------------------------------------------------
(* Commands that write, under the lock *)

AcquireLock(p) ==
    /\ pc[p] = "lock"
    /\ LockIsFree
    /\ lock' = p
    /\ Goto(p, "locked")
    /\ UNCHANGED <<disk, locals, ghosts>>

Refuse(p) ==
    /\ pc[p] = "locked"
    /\ Refused(call[p])
    /\ End(p)
    /\ UNCHANGED <<disk, ghosts>>

\* What insert, rm, mv, tag and reindex do to store/ before the manifest.
FileStep(p, op) ==
    /\ pc[p] = "locked"
    /\ call[p].op = op
    /\ ~Refused(call[p])
    /\ Goto(p, "load")
    /\ UNCHANGED <<master, manifest, audit, lock, locals, drawn, started, crashes>>

\* insert: encrypt under the resolved key, replace the file.
InsertFile(p) ==
    /\ FileStep(p, "insert")
    /\ store' = [store EXCEPT ![call[p].name] =
                                [key |-> key[p], val |-> call[p].val]]
    /\ Recording(IF key[p] = master THEN {} ELSE {"staleWrite"})

\* remove: unlink.
RemoveFile(p) ==
    /\ FileStep(p, "rm")
    /\ store' = [store EXCEPT ![call[p].name] = None]
    /\ UNCHANGED mishaps

\* move: rename.
MoveFile(p) ==
    /\ FileStep(p, "mv")
    /\ store' = [store EXCEPT ![call[p].name] = None,
                              ![call[p].target] = store[call[p].name]]
    /\ UNCHANGED mishaps

\* set_tags: only checks that the secret is there.
TagFile(p) ==
    /\ FileStep(p, "tag")
    /\ UNCHANGED <<store, mishaps>>

\* reindex: goes straight to the manifest.
ReindexFiles(p) ==
    /\ FileStep(p, "reindex")
    /\ UNCHANGED <<store, mishaps>>

\* _manifest_load of a read-modify-write.  Removing a name that is not listed
\* saves nothing.
LoadManifest(p) ==
    LET index == IndexIn(manifest)
        noop  == call[p].op = "rm" /\ index[call[p].name] = None
    IN
    /\ pc[p] = "load"
    /\ ManifestOpens(manifest, key[p])
    /\ IF noop
          THEN Goto(p, "audit") /\ lock' = None /\ UNCHANGED loaded
          ELSE /\ Goto(p, "save")
               /\ loaded' = [loaded EXCEPT ![p] = index]
               /\ UNCHANGED lock
    /\ UNCHANGED <<disk, call, key, newKey, todo, ghosts>>

\* CryptoError: the file change stays, the index is never told.
LoadManifestFails(p) ==
    /\ pc[p] = "load"
    /\ ~ManifestOpens(manifest, key[p])
    /\ Recording(Wreckage(p))
    /\ End(p)
    /\ UNCHANGED <<disk, drawn, started, crashes>>

\* _manifest_save, and the end of the with block.
SaveManifest(p) ==
    /\ pc[p] = "save"
    /\ manifest' = [key |-> key[p], index |-> Updated(call[p], loaded[p], store)]
    /\ loaded' = [loaded EXCEPT ![p] = None]
    /\ lock' = None
    /\ Goto(p, "audit")
    /\ UNCHANGED <<master, store, audit, call, key, newKey, todo, ghosts>>

-----------------------------------------------------------------------------
(* rotate-key, under the lock *)

BeginRotation(p) ==
    /\ pc[p] = "locked"
    /\ call[p].op = "rotate"
    /\ MasterKeys \ drawn # {}
    /\ newKey' = [newKey EXCEPT ![p] = FreshKey]
    /\ drawn' = drawn \cup {FreshKey}
    /\ todo' = [todo EXCEPT ![p] = StoredFiles]
    /\ Goto(p, "rewrap")
    /\ UNCHANGED <<disk, lock, call, key, loaded, started, crashes, mishaps>>

\* The loop body: every file of store/, debris included, moves to the new key;
\* a file already on it is left alone.
RewrapFile(p) ==
    /\ pc[p] = "rewrap"
    /\ \E f \in todo[p] :
          /\ store[f].key \in {key[p], newKey[p]}
          /\ store' = [store EXCEPT ![f].key = newKey[p]]
          /\ todo' = [todo EXCEPT ![p] = @ \ {f}]
    /\ UNCHANGED <<master, manifest, audit, lock, pc, call, key, newKey, loaded,
                   ghosts>>

\* A file neither key opens: CryptoError, with the files before it rewrapped.
RewrapFails(p) ==
    /\ pc[p] = "rewrap"
    /\ \E f \in todo[p] : store[f].key \notin {key[p], newKey[p]}
    /\ Recording(Wreckage(p))
    /\ End(p)
    /\ UNCHANGED <<disk, drawn, started, crashes>>

\* The manifest moves to the new key; a missing one is written, empty.
RotateManifest(p) ==
    /\ pc[p] = "rewrap"
    /\ todo[p] = {}
    /\ \E k \in {key[p], newKey[p]} : ManifestOpens(manifest, k)
    /\ manifest' = [key |-> newKey[p], index |-> IndexIn(manifest)]
    /\ Goto(p, "rotateAudit")
    /\ UNCHANGED <<master, store, audit, lock, locals, ghosts>>

RotateManifestFails(p) ==
    /\ pc[p] = "rewrap"
    /\ todo[p] = {}
    /\ \A k \in {key[p], newKey[p]} : ~ManifestOpens(manifest, k)
    /\ Recording(Wreckage(p))
    /\ End(p)
    /\ UNCHANGED <<disk, drawn, started, crashes>>

\* The audit log moves to the new key; one that opens under neither is renamed
\* out of the way.  AuditLog.tla models its reads and writes apart.
RotateAudit(p) ==
    /\ pc[p] = "rotateAudit"
    /\ audit' = IF audit \in {key[p], newKey[p]} THEN newKey[p] ELSE None
    /\ Goto(p, "commit")
    /\ UNCHANGED <<master, store, manifest, lock, locals, ghosts>>

\* master.json moves to the new key: the commit point.
CommitRotation(p) ==
    /\ pc[p] = "commit"
    /\ master' = newKey[p]
    /\ lock' = None
    /\ Goto(p, "rederive")
    /\ UNCHANGED <<store, manifest, audit, locals, ghosts>>

\* cmd_rotate_key reads master.json again, without the lock.
Rederive(p) ==
    /\ pc[p] = "rederive"
    /\ key' = [key EXCEPT ![p] = master]
    /\ Goto(p, "audit")
    /\ UNCHANGED <<disk, lock, call, newKey, todo, loaded, ghosts>>

-----------------------------------------------------------------------------
\* AuditLog.append, without the lock: whatever key the log was under, it is now
\* under the process's own.  The command is over.
AppendAudit(p) ==
    /\ pc[p] = "audit"
    /\ audit' = key[p]
    /\ End(p)
    /\ UNCHANGED <<master, store, manifest, ghosts>>

\* p is killed between two steps.
Crash(p) ==
    /\ pc[p] # "idle"
    /\ crashes < MaxCrashes
    /\ crashes' = crashes + 1
    /\ Recording(Wreckage(p))
    /\ End(p)
    /\ UNCHANGED <<disk, drawn, started>>

\* The blobs p may be writing into store/ through a temporary file.
Pending(p) ==
    IF pc[p] = "locked" /\ call[p].op = "insert" /\ ~Refused(call[p])
       THEN {[key |-> key[p], val |-> call[p].val]}
       ELSE {[store[f] EXCEPT !.key = newKey[p]] :
                f \in {g \in todo[p] : store[g].key = key[p]}}

\* p is killed inside _atomic_write: the temporary file stays, torn or whole.
CrashInWrite(p) ==
    /\ crashes < MaxCrashes
    /\ Pending(p) # {}
    /\ crashes' = crashes + 1
    /\ \E t \in Temps, b \in Pending(p) \cup {Torn} :
          /\ store[t] = None
          /\ store' = [store EXCEPT ![t] = b]
    /\ Recording(Wreckage(p))
    /\ End(p)
    /\ UNCHANGED <<master, manifest, audit, drawn, started>>

-----------------------------------------------------------------------------

Step(p) ==
    \/ CheckFile(p) \/ ReadFile(p) \/ ScanManifest(p)
    \/ AcquireLock(p) \/ Refuse(p)
    \/ InsertFile(p) \/ RemoveFile(p) \/ MoveFile(p)
    \/ TagFile(p) \/ ReindexFiles(p)
    \/ LoadManifest(p) \/ LoadManifestFails(p) \/ SaveManifest(p)
    \/ BeginRotation(p) \/ RewrapFile(p) \/ RewrapFails(p)
    \/ RotateManifest(p) \/ RotateManifestFails(p)
    \/ RotateAudit(p) \/ CommitRotation(p) \/ Rederive(p)
    \/ AppendAudit(p)

Next == \E p \in Procs : Start(p) \/ Step(p) \/ Crash(p) \/ CrashInWrite(p)

Spec == Init /\ [][Next]_vars

\* The operating system runs every process; nobody has to start or kill one.
FairSpec == Spec /\ \A p \in Procs : WF_vars(Step(p))

-----------------------------------------------------------------------------
(* Properties *)

\* Every variable keeps its type; a process outside idle has a command and a
\* resolved key.
TypeOK ==
    /\ master \in MasterKeys
    /\ store \in [Files -> Blob \cup {None}]
    /\ manifest \in Manifest \cup {None}
    /\ audit \in MasterKeys \cup {None}
    /\ lock \in Procs \cup {None}
    /\ pc \in [Procs -> Stages]
    /\ call \in [Procs -> Command \cup {None}]
    /\ key \in [Procs -> MasterKeys \cup {None}]
    /\ newKey \in [Procs -> MasterKeys \cup {None}]
    /\ todo \in [Procs -> SUBSET Files]
    /\ loaded \in [Procs -> Index \cup {None}]
    /\ drawn \in SUBSET MasterKeys
    /\ started \in Nat
    /\ crashes \in Nat
    /\ mishaps \in SUBSET Mishaps
    /\ \A p \in Procs : pc[p] # "idle" => call[p] # None /\ key[p] # None

\* The lock serializes manifest read-modify-write cycles (vault.py:78-80): when
\* a process saves, the manifest is still the one it loaded, under its own key.
NoLostUpdate ==
    \A p \in Procs : pc[p] = "save" =>
        ManifestOpens(manifest, key[p]) /\ loaded[p] = IndexIn(manifest)

\* Between commands the manifest lists exactly the secrets in store/, unless a
\* command changed a file and never got to save the manifest.
IndexMatchesStore ==
    lock = None /\ "tornUpdate" \notin mishaps =>
        \A n \in Names : store[n] = None <=> IndexIn(manifest)[n] = None

\* A secret opens with the key master.json holds, or with the key of the
\* rotation that has already visited it; only a write with a key resolved
\* before a rotation, or a rotation that stopped halfway, breaks this.
SecretsOpen ==
    mishaps \cap {"staleWrite", "abandonedRotation"} = {} =>
        \A n \in Names : store[n] # None =>
            \/ store[n].key = master
            \/ \E p \in Procs : lock = p /\ newKey[p] = store[n].key
                               /\ n \notin todo[p]

\* The manifest, too; but no write with a stale key ever reaches the manifest,
\* so only a rotation that stopped halfway can make it unreadable.
ManifestReadable ==
    lock = None /\ "abandonedRotation" \notin mishaps =>
        (manifest # None => manifest.key = master)

\* When a rotation is about to write master.json, nothing is left under the old
\* key, whatever other commands were started meanwhile (vault.py:713-716).
CommitIsComplete ==
    \A p \in Procs : pc[p] = "commit" =>
        /\ \A f \in Files : store[f] # None => store[f].key = newKey[p]
        /\ manifest # None /\ manifest.key = newKey[p]

\* A rotation whose key was resolved before another rotation committed stops
\* before it writes master.json: two rotate-key never both count.
NoStaleCommit ==
    \A p \in Procs : pc[p] \in {"rotateAudit", "commit"} => key[p] = master

\* A stored value is only ever replaced by the lock holder, and only when its
\* user said --force for that very name (vault.py:457-460, 504-509).
OnlyForceReplaces ==
    [][\A n \in Names :
          store[n] # None /\ store'[n] # None /\ store'[n].val # store[n].val =>
              \E p \in Procs :
                  /\ lock = p /\ call[p].force
                  /\ \/ call[p].op = "insert" /\ call[p].name = n
                     \/ call[p].op = "mv" /\ call[p].target = n
      ]_vars

\* Every command ends: no command waits for ever for the lock, and none keeps it.
EveryCommandEnds == \A p \in Procs : pc[p] # "idle" ~> pc[p] = "idle"

(* The abstract specification: a process between its file change and its     *)
(* manifest save has a change that is promised and not saved.                *)

Changing(p) == pc[p] \in {"load", "save"}

SavedIndex == IndexIn(manifest)

PromisedIndex ==
    IF \E p \in Procs : Changing(p)
       THEN Updated(call[CHOOSE p \in Procs : Changing(p)], SavedIndex, store)
       ELSE SavedIndex

ContentOf(n) == IF store[n] = None THEN None ELSE store[n].val

Abstract == INSTANCE SecretIndex WITH
    content <- [n \in Names |-> ContentOf(n)],
    index   <- PromisedIndex,
    saved   <- SavedIndex,
    lapsed  <- "tornUpdate" \in mishaps

\* The vault implements SecretIndex: commands are atomic and serial, however
\* many processes run them, rotations change nothing a user stored, and a
\* command that dies loses at most its own index update.
ImplementsSecretIndex == Abstract!Spec

(* A claim of a docstring *)

\* "Re-running rotate_master_key after a crash therefore safely completes
\* whatever is left" (vault.py:624-627): a rotation with the key of master.json
\* meets no file it cannot open.
RotationResumes ==
    \A p \in Procs : pc[p] = "rewrap" /\ key[p] = master =>
        \A f \in todo[p] : store[f].key \in {key[p], newKey[p]}

=============================================================================
