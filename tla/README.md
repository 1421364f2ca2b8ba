# Cavern, specified

Cavern is a command-line credential vault: secrets are files under `~/.cavern/store/`, encrypted under keys that a GPG identity unlocks.
Every command is a short-lived process.
There is no server, so everything that makes the system hard happens between processes: a lock that only some code paths take, keys resolved before that lock is taken, files replaced one after the other with kills and power losses in between, a git repository that is committed outside of the lock, and detached cleaners that wake up later.

This directory holds TLA+ modules of that behaviour, TLC configurations that check them on small instances, and TLAPS proofs that hold for every instance.
`PROJECT.json` maps each definition to the source lines it stands for, and lists runs, mutants, findings, hazards and theorems.

    tlc -config vault_rotate.cfg MCVault.tla      # a run: <run>.cfg with its module
    tlapm VaultProofs.tla                         # a proof module

## 1. Inventory

| Component (under `src/src/cavern/`) | State | Operations | What is hard |
|---|---|---|---|
| Vault (`vault.py`) | `master.gpg`, `master.json`, `manifest`, `store/*`, `.lock` | init, insert, show, rm, mv, tag, list and search, audit_drift, reindex, rotate-key | the lock starts after the keys are resolved, init takes none; file first, manifest second; rotation is many writes; renames nobody syncs |
| `_atomic_write` (`vault.py`) | a temporary file, the target, the directory | one replacement | power loss, kill, exceptions at each system call |
| Audit log (`audit.py`) | `audit`: one encrypted file | append, recent, cap; rotation re-encrypts it | read-modify-write without a lock, stale keys |
| Git (`git.py`, `cli.py`) | the repository in the vault directory: index, HEAD, `index.lock`, `.gitignore` | init, commit after each change | outside the lock; two passes over a tree that changes; failures that are only warnings |
| Session (`session.py`, `_session_cleaner.py`) | one session file per user, a sleeping cleaner per unlock | unlock, lock, read by every command | unlink, create, write, spawn and expiry interleave on one path |
| Clipboard (`clipboard.py`, `_clipboard_cleaner.py`) | the clipboard, a sleeping cleaner per copy | copy, wipe | detached process nobody watches |
| Bulk transfer (`bulk.py`) | none of its own | dump, load, bulk-insert | many unlocked reads of a vault being edited; check outside the lock, two operations per entry, retries |
| GPG lock recovery (`crypto.py`) | `*.lock` files in the GPG home, daemons | kill daemons, sweep, retry once | other hosts, other recoveries, judging a file and removing a name |
| Crypto formats (`crypto.py`) | the file of a secret | pad, encrypt, decrypt, rewrap | boundaries of buckets, ambiguous padding, splicing by offsets, damaged files |
| Generator (`generator.py`) | none | generate_password | short lengths, classes left empty |
| CLI (`cli.py`) | none | one handler per command | the order of resolve, operate, log, commit |
| TOTP, exceptions, parser | none | | pure or declarative |

How they interact: a handler of `cli.py` resolves its keys (session file, else GPG; then `master.json`), calls one operation of the vault, appends to the audit log, and commits to git.
Vault, audit log and rotation all replace files through `_atomic_write`.
Only the vault's mutations hold the flock.
Session and clipboard hand over to a detached Python process.

What makes each correct:

- **Vault.** No manifest update is lost; the manifest lists what is stored; a stored value is replaced only with `--force`; every blob opens under the key `master.json` holds; a rotation commits only when nothing is left under the old key; a dead process never blocks others; a power loss takes no value with it; one init made all of it.
- **Atomic write.** A reader sees old or new, never a mixture, whatever fails; a write that returned survives power loss; no debris after an exception.
- **Audit log.** Order, cap, and no forgotten record as long as nobody interferes.
- **Git.** What a successful commit saw stays in HEAD; no change goes uncommitted without a warning or a failure, but for a `git status` that fails; local state is never committed.
- **Session.** Each session has a cleaner that will remove it, no cleaner removes another session (the code keeps this but for a race), and no command works with another vault's key.
- **Clipboard.** A copied secret leaves the clipboard; the code does not keep this.
- **Bulk transfer.** A dump holds only what was there; a load given again after failures has the effect of one load, but for the listing and tags of a name it died at; the two restore a vault.
- **GPG lock recovery.** It ends, and lets no two local `gpg` calls in together.
- **Formats and generator.** What is stored is what is shown, or an error; the size of a file shows a bucket and no more; a password meets its policy or none could.

## 2. Modules

| Module | What it is | Uses |
|---|---|---|
| `SecretIndex` | abstract: contents and an index, changed by atomic serial commands | |
| `Vault` | the vault directory and processes working on it | `SecretIndex` as its abstraction |
| `VaultPower` | the vault on a disk that loses power | `Vault` |
| `VaultInvariant`, `VaultProofs` | inductive invariant of `Vault`; the proofs of its key discipline, of manifest against store and `--force`, of the refinement of `SecretIndex`, and of what power losses leave | `Vault`, `VaultPower` |
| `VaultDir`, `VaultInit`, `Git` | the files of a directory as versions; init; the repository | `VaultDir` |
| `Repository`, `RepositoryProofs` | inits, changes, reads and auto-commits of one directory together; the proofs | `VaultInit`, `Git` |
| `DurableFile` | abstract: a file replaced atomically, with what a power loss may leave | |
| `AtomicFile`, `AtomicFileProofs` | `_atomic_write` by system call, and its proofs | `DurableFile` |
| `AuditLog`, `AuditLogProofs` | appends, the cap, and rotations of the log | |
| `Session`, `SessionProofs` | the session path, unlocks, cleaners, commands | |
| `Clipboard` | copies and their cleaners | |
| `BulkEntries`, `BulkDump`, `BulkLoad` | entries; a dump of a vault being edited; a load, its retries, and other processes | `BulkEntries` |
| `BulkTransfer`, `BulkTransferProofs` | a dump handed over to a load; the proofs | `BulkDump`, `BulkLoad` |
| `SecretBlob`, `Generator` | the file of one secret, cell by cell; `generate_password` | |
| `GeneratedSecret`, `SecretProofs` | what is typed or generated, down to the file and back; its proofs | `SecretBlob`, `Generator` |
| `GpgLock`, `GpgLockProofs` | recovery around gpg calls on several hosts | |
| `MC*` | instances for TLC | |

The levels fit together like this.
`AtomicFile` shows that a whole `_atomic_write` may be taken as one step; `Vault`, `AuditLog` and `Repository` take it as one.
(A kill inside it that leaves a temporary file in `store/` matters, because rotations visit such files, so `Vault` keeps that as `CrashInWrite`.)
`Vault` shows that a whole command may be taken as one step of `SecretIndex`, except when it lapses between its file and its manifest.
For a load that is given again this exception matters, as the next run looks at the file alone, so `BulkLoad` has an insert as the file and then the manifest, under the lock.
A dump reads without the lock, so in `BulkDump` an edit is the file and then the manifest too.
`Vault` and `AuditLog` share the rotation: `Vault` knows only which key the log is under, `AuditLog` knows its records and splits its reads from its writes.
`SecretBlob` is what stands behind a blob of `Vault`: that a rewrap changes the key and not the value is an assumption there and a theorem here.
`Repository` keeps of a change only what git can see of it: which file, in which version, when.

### Vault

| TLA+ | Code |
|---|---|
| `master`, `store`, `manifest`, `audit` | the key in `master.json`; the files, each with the key its header is wrapped under; the decrypted manifest and its key; the key of the log |
| `lock` | the flock on `.lock`; `LockAfter` releases it with its process |
| `pc`, `call`, `key`, `newKey`, `todo`, `loaded` | where a process is, its arguments, the `UnlockedKeys` it resolved, `new_master`, what `iterdir` gave it, the manifest in its memory |
| `Start` | `_resolve_keys`, without the lock |
| `CheckFile`, `ReadFile`; `ScanManifest` | `show`, in two reads; list, search and drift, one read |
| `AcquireLock`, `Refuse` | the `with self.lock()` and the checks in it |
| `InsertFile`, `RemoveFile`, `MoveFile`, `TagFile`, `ReindexFiles` | the part of an operation before the manifest |
| `LoadManifest`, `LoadManifestFails`, `SaveManifest` | `_manifest_load`, its `CryptoError`, and `_manifest_save` with the end of the block |
| `BeginRotation` ... `CommitRotation`, `Rederive` | `_rotate_master_key_locked`, one replaced file per step, and `cmd_rotate_key` |
| `AppendAudit` | the append that ends a handler, under the process's own key |
| `Crash`, `CrashInWrite` | a kill between two steps, and inside a replacement in `store/` |

Names are identified with their files, as the file name is a keyed hash under the KEK, which never changes.
A torn file opens under no key.
The variable `mishaps` is history: it records that a command failed or died between its file and its manifest (`tornUpdate`), that a blob was written under a key a rotation had replaced (`staleWrite`), or that a rotation ended after it had put something under its new key (`abandonedRotation`).
Properties that these break say so and hold otherwise, so each is also a statement about exactly what can break it.

`VaultPower` adds `unsynced`, the states of `store/` a power loss may leave: every change of the directory adds one, and a step that ends in an `_atomic_write` into `store/` leaves only the present one, as that syncs the directory.
The rename of `mv` and the unlink of `rm` are followed only by the manifest save, which syncs another directory.
`suspect` is history: a loss or a torn update since the last reindex.

### Repository

| TLA+ | Code |
|---|---|
| `file` | the vault directory: of each file whether it is there, which init's keys it is under, its version |
| `Start`, `Admitted` | `main`'s check of `is_initialized`, and the one of `init` |
| `WriteMasterGpg`, `EncryptFails`, `WriteMasterJson`, `WriteEmptyManifest` | `vault.init`, in its order |
| `InitRepo`, `InitRepoFails`, `WriteIgnore` | `git.init` |
| `Resolve`, `AcquireLock`, `ChangeSecret`, `SaveManifest`, `AppendAudit`, `AppendAuditFails` | a command, by what it does to the directory |
| `CheckRepo`, `AddTracked`, `AddNew`, `AddFails`, `Status`, `StatusFails`, `CommitTree`, `MoveHead`, `CommitFails` | `commit_all`, with what its git commands do |

git itself is external: `git add` takes `index.lock`, lists the untracked files, takes in the tracked ones, then the listed ones; `git commit` writes a tree and moves HEAD only if it is where it was.
A failed `git add` that had made the lock file removes it; one that met another's leaves that.
A `git add` or `git commit` can fail for any reason, and so can `git status`, whose return code nobody looks at.
`missed` records every way a change can go without its commit; `overlap` that a command ran while an init was not over; `promised` what an auto-commit that worked has vouched for.
Who finds nothing to commit vouches for what HEAD holds, unless another `git commit` has written its tree and not moved HEAD yet (`CommitOnItsWay`); see "What the models show".

### The others

`AuditLog`: a record is the number of the append that wrote it, so order and loss can be told; `disturbed` records that some process replaced the log, or made its key stale, under another one's hands.
`AtomicFile`: `current` is what the file holds, `pending` what a power loss may leave, `whole` and `synced` what is in the files and on disk; `rank` orders the renames.
`Session`: what is at the one path is the file some unlock created, and `size` how much of it is written; the reading side opens and reads in two steps, since the file may be replaced in between.
`Clipboard`: `copy_with_autoclear` starts the cleaner's script by its path, so its relative imports fail and it ends (`ImportFails`); its `main`, which it never reaches, is not modelled.
`BulkDump`: each unlocked look at the manifest and each `show` is a step; `ever` is history of what was stored and listed since the dump was asked for.
`BulkLoad`: an entry is four steps, its check, its file, its manifest entry and its tags, and a run can fail or be killed before each; other processes edit in between, except between file and manifest, which the lock holds together. The vault may have files without entry and entries without file from the start. `edited` is history of the names others edited, `cut` of those a run died at after their file was written.
`SecretBlob`: a file is a sequence of cells; a cell knows the field it is from, and a sealed one its key, nonce and text. `Resize` and `Alter` cut, lengthen or change a file anywhere.
`Generator`: every outcome of its random choices is a behaviour.
`GpgLock`: what gpg itself does with its lock file (`Acquire`, `Release`, `Die`) is external, modelled from what `crypto.py` assumes of it; `robbed` records that a sweep removed a lock it had not judged, or a live one of another host.

## 3. Runs

Passing:

| Run | Question | Bounds | States |
|---|---|---|---|
| `vault_rotate` | Under which key is what, when may `master.json` move, do manifest and `store/` stay together, do commands look atomic, does every command end? | 2 processes, 2 names, 9 commands of which 4 are given, 5 keys, 1 temporary name, 2 kills | 647 706 |
| `vault_power` | What can a power loss take, and what repairs it? | 2 processes, 2 names, 11 commands of which 4 are given, 2 keys, 1 kill, 1 loss | 1 751 501 |
| `repository` | Do the files of a vault belong together, and does HEAD get every change? | 2 processes, 3 commands from an empty directory on, 1 kill; symmetric processes | 1 800 248 |
| `audit_log` | Is the log in order, within its cap, and complete? | 2 processes, cap 3, 6 commands, 1 kill; symmetric processes | 120 206 |
| `atomic_file` | Is the replacement atomic and durable? | 3 writes, 2 power losses, kills and exceptions anywhere | 43 484 |
| `session` | Who removes which session, and whose key is read? | 3 unlocks of 2 vaults, 1 command, 1 death | 43 866 |
| `bulk_transfer` | What does a dump hold, has a repeated load the effect of one, do the two restore a vault? | every vault of 2 names, 2 values and a tag; 5 files of up to 3 entries; 2 runs, 2 edits of the source, 1 of the target, 2 of both together | 3 849 874 |
| `generated_secret` | Is what is shown what was stored, what does a file's size show, does a password meet its policy? | plaintexts of up to 4 bytes over 0x00, 0x80 and one other, buckets of 2 and 3; lengths 0 to 3 of 3 classes; 2 rewraps over 3 keys, 2 damages; symmetric keys | 478 227 |
| `gpg_lock` | Does recovery end, and is it exclusive? | 3 calls and 2 daemons on 2 hosts | 18 578 |

Violations, each a claim of the repository that the code does not keep (quoted in `PROJECT.json`):

| Run | Claim | What TLC shows |
|---|---|---|
| `rotate_resume` | re-running a rotation completes it | every run draws a new key, so a file that a killed run had moved opens under neither key of the next run, which stops there |
| `clipboard_stays` | the clipboard wipes itself | the cleaner is started by its path and fails on its relative import, silently |
| `session_wiped` | a later unlock is never wiped out by an earlier cleaner | a cleaner has compared the token, an unlock replaces the file, and the cleaner unlinks the path |

Why the bounds are enough.
All conflicts in the vault are between the holder of the lock and one process outside of it (a stale key, an unlocked read), or between one process and what a dead one left, so two processes and two kills give every pair.
Two names are what `mv` needs; the temporary name makes debris.
Four commands allow two rotations, with a write before and after, which is what it takes for a key to become stale twice.
Five keys are the first one and one for each command given.
For a power loss to matter something unsynced must precede it and a reindex or a rotation follow: that is three commands and one loss; two keys are one rotation.
In the repository two processes are a git and whoever meddles with its index, its HEAD or the work tree; three commands are an init and two changes, or an init that was killed, the next one, and a change.
A log of three records wraps within six appends; the mutants of its cap are caught at that size.
Three writes of one file let an old rename be undone past a newer one; the second power loss meets a file system that has already lost something.
Three unlocks allow a cleaner of the first to wake between two others, on the same vault and on another.
Two edits of the source are enough to swap two names under a dump; a second run of a load meets all that the first one can leave, and an edit of each side, or two of the source, come in between anywhere.
Buckets of two and three with plaintexts of up to four bytes meet a full bucket, one byte short of it, and the rounding beyond the largest; a second damage can undo the first, and does.
Every property of a passing run has a mutant: an operator in the module that changes a mapped definition the way a plausible bug would, under which TLC finds the property violated.

What the models show beside the properties, and a reader of the code should know:

- *Unlocked reads.* `show` tests the file and reads it without the lock. A racing `rm` makes that read a `FileNotFoundError`, which nothing catches, and a racing rotation a `CryptoError`, although `vault.py:469-471` calls the read safe.
- *Session.* The cleaner compares the token and unlinks the path in two steps. An unlock in between loses its session, although `session.py:4-7` and `SECURITY.md` say that a later unlock is never wiped (the run `session_wiped`). `WakingSparesOthers` is about the comparison, the part that the code does get right.
- *Init.* It takes no lock. Two overlapping inits can leave `master.gpg` and `master.json` of different ones. A command admitted before an init is over can lose its index entry to the empty manifest that init writes last, and can get `.lock` committed. The init properties exclude such an overlap and hold for every sequence of killed and repeated inits.
- *Git.* An init killed between `git init` and `.gitignore` leaves a repository that never gets the ignore file. A `GitError` of `git.init` fails `cmd_init` when the vault is complete, and the init cannot be given again. The `index.lock` of a killed git turns every later auto-commit into a skipped one with a warning. An `OSError` of the audit record ends a command before its commit. A `git status` that fails prints nothing, and `commit_all` takes that for nothing to commit: the change stays uncommitted until a later command, and nobody is warned (`git.py:69-71`).
- *Nothing to commit.* A `git status` that prints nothing speaks of HEAD as it is, while another `git commit`, its tree already written, may be about to move HEAD. If that tree has a file that HEAD lacks and that was removed since, the auto-commit of the `rm` finds everything clean, and then the file comes into HEAD. It takes three processes, five commands and two kills, more than the run `repository` has; the proof of `CommitsAreKept` found it, and the property now claims nothing for that case. The next commit brings the removal in.
- *Power.* After an `rm`, a rotation and a power loss, the removed file can be back under the old key, and every later rotation fails on it. `NothingToLose` and `RotationIsDurable` say how far this goes: no value is lost, and no listed secret comes back under the old key unless an earlier loss or torn update had set the index and `store/` apart.
- *Dump.* A dump empties its output before it knows that there is anything to write. Two names swapped under it can leave one secret out of it, or stop it; what it holds was nonetheless there.
- *Retry of a load.* A load that dies, or meets a manifest under another key, between the file and the manifest entry of a name leaves a file that is not listed (`vault.py:462-463`); one that dies before the tags leaves them unset. The next load without `--overwrite` finds the file, skips the name (`bulk.py:418-422`) and finishes, so the name stays unlisted or untagged.
- *Race of a load.* It looks for a name outside the lock and then inserts with force, so without `--overwrite` it still replaces a secret that another process inserts in between, although `bulk.py:358-359` says that existing secrets are skipped. `ExistingAreSkipped` excludes the names others edit.
- *Cap.* With `max_records = 1`, which the constructor of `AuditLog` accepts and no command uses, `lines[-(max_records - 1):]` is the whole list, and the log is never trimmed.
- *Drift.* `audit_drift` calls orphans a sign of out-of-band edits, while the `tornUpdate` of `IndexMatchesStore` is what any command with a stale key leaves.

## 4. Fairness

`Vault`, in the run `vault_rotate`: weak fairness of each process's steps.
The operating system schedules every process, no step of the code waits for anything but the flock, and the flock is released by every exit.
Weak fairness of a waiting process would not do if others could take the lock for ever; commands are bounded in the model, and in reality a user gives finitely many.
Starting commands and kills are not fair.
`Session`: an unlock that has begun and a sleeping cleaner go on; nobody has to unlock, and an unlock may die.
`Clipboard`: a command that has copied and its cleaner go on, unless killed, so that `clipboard_stays` fails by what the code does and not by stopping.
`GpgLock`: a call goes on; gpg finishes or times out, as `Contend` gives up on its own.
The other modules have safety properties only and no fairness.

## 5. Proofs

| Theorem | Statement, for all values of the constants |
|---|---|
| `VaultProofs!Invariance` | `IInv` is invariant |
| `VaultProofs!TypeCorrect`, `UpdatesAreNotLost`, `SecretsStayOpen`, `ManifestStaysReadable`, `CommitsAreComplete`, `StaleRotationsStop` | the safety properties of `Vault` about keys and updates |
| `VaultProofs!IndexMatches`, `ForceAloneReplaces` | the manifest lists what is stored; only `--force` replaces |
| `VaultProofs!VaultImplementsSecretIndex`, `IndexStaysExact` | `Vault` implements `SecretIndex`, whose index lists exactly what is stored until a command lapses |
| `VaultProofs!PowerLosesNoUpdate`, `PowerLossSparesCommits` | the same updates and commits, with any number of power losses |
| `VaultProofs!PowerLossKeepsValues`, `AReindexRepairs`, `RotationsAreDurable` | a power loss takes no value, a reindex repairs the index, no loss brings a listed secret back under the old key |
| `RepositoryProofs!RepositoryTypeOK`, `OneInitMadeTheVault`, `NothingIsReplaced` | types and locks; one init made all that is in the vault, and replaced nothing |
| `RepositoryProofs!CommitsStay`, `ChangesAreCommitted`, `LockFileStaysOut` | what was vouched for stays in HEAD; in the end HEAD has the vault, unless somebody was killed, failed or was warned, or a `git status` failed; `.lock` is in no commit |
| `AtomicFileProofs!Invariance`, `Durability`, `TempsHaveWriters`, `Refinement` | only synced contents are renamed; a returned write is not rolled back; no exception leaves debris; the system calls implement `DurableFile` |
| `AuditLogProofs!TypeCorrect`, `LogStaysInOrder`, `LogStaysWithinCap`, `NothingGetsLost` | the properties of the run `audit_log`; the cap for `MaxRecords # 1` |
| `SessionProofs!Invariance`, `SessionsHaveCleaners`, `WakingCleanersSpareOthers`, `CommandsUseTheirOwnKey` | the safety properties of `Session` |
| `BulkTransferProofs!DumpsHoldWhatWas`, `ExistingStay` | what a dump holds was there; without `--overwrite` no file that was there is replaced, of a name nobody else edits |
| `BulkTransferProofs!LoadsTakeEffect`, `DumpAndLoadRestore` | a load that finishes had its effect on every name nobody else edited, wherever the runs before it died; dump and load restore a vault; both but for the listing of a name a run died at after writing its file |
| `SecretProofs!UnpadUndoesPad`, `BucketIsAllThatShows` | padding is undone exactly; the size of a file shows a bucket only |
| `SecretProofs!StoredReadsBack`, `SecretsReadBackOrFail` | an undamaged file reads back; a damaged one gives what was stored or nothing, and after one damage nothing |
| `SecretProofs!PoliciesAreHonoured` | a password meets its policy, and a refused policy has no password |
| `GpgLockProofs!WorkersTakeTurns` | recovery never lets two calls of a host in together by itself |

Assumptions are those of the modules, each named in the module that declares the constants (`VaultAssumption`, `PowerAssumption`, `DirAssumption`, `FileAssumption`, `AuditAssumption`, `SessionAssumption`, `EntryAssumption`, `DumpAssumption`, `BulkAssumption`, `BlobAssumption`, `GeneratorAssumption`, `SecretAssumption`, `GpgAssumption`; `IndexAssumption` is a hypothesis of its theorem): `None` is none of the values, bounds are natural numbers, temporary names are no secret names, the first key is a key, buckets increase, lengths are integers, the character classes are finitely many, not empty, disjoint, and made of bytes.
`StoredReadsBack` assumes besides that no DEK is the mark of a failure, and `SecretsReadBackOrFail` that this mark is not a sequence, hence no DEK and no file.
Nothing is assumed of the number of processes, names, keys, records, buckets or hosts, or of the length of anything.

The argument for `Vault`.
None of the safety properties is inductive.
`VaultInvariant` adds to them that the lock is held exactly by the process in a critical stage (`LockInv`); that a rotation's files are there while it visits them, since only the lock holder changes `store/` (`LocalInv`); that what a rotation has visited is under its key (`RewrapInv`); and the fact that carries the rest, `FreshInv`: all keys in use have been drawn, and nobody but the rotation itself has the key it drew.
From freshness follows that a manifest under a process's own key is one under the key of `master.json` (`KeyInv`), and from this that a process with a stale key never gets past its manifest: it cannot lose an update, make the manifest unreadable or commit a second rotation.
The proof goes conjunct by conjunct, with lemmas that say which actions can change `store/`, `manifest`, `master`, `key` and `newKey` at all.

The argument for the refinement.
The abstract index is, while some process is between its file and its manifest, the one it is about to save (`PromisedIndex`), else the saved one.
`IndexInv` says that this index agrees with `store/`, and follows from `IInv` because what a process loaded is still what is saved.
`ValuesInv` says that a file's value is never the torn one.
A file step is then the abstract command, a save is `Save`, a death in between is `Lapse`, and a rotation is a stutter; a lemma (`IndexSteps`) first puts every action into one of these classes.

The argument for `VaultPower`.
A power loss brings old states of `store/` back, so what `IInv` says of keys in `store/` (`SecretsInv`) is false there; all its other conjuncts survive a loss, which also ends every process, and `PowerInv` is made of them.
That is enough for updates and commits.
For a reindex, `CoverInv`: with no loss and no torn update since, all that is listed, or will be once the process in between saves, is there.
For a rotation, `DrawnInv`: nothing is or can come back under a key nobody has drawn; and `SyncInv`: while a rotation runs with index and `store/` in step, either nothing but the present `store/` can come back, or nothing is listed, or there is still a file to rewrap, whose replacement will sync the directory.
The last case is why a rotation of a vault with a secret is durable although its first steps sync nothing.

The argument for `Repository`.
About the vault: files are written in the order of `init` (`InitInv`), and without an overlap whoever makes the vault is alone (`AloneInv`), so that one init made what is there (`KeysInv`).
About git, everything rests on versions that only grow: from HEAD to the index, to what a running `git add` has scanned, to the directory (`OrderInv`, `VersionInv`).
What an auto-commit saw when it began is therefore still in the tree it commits (`SeenInv`), and a commit can only move HEAD from the HEAD it was built on, which is no older than what had been vouched for.
Two facts are less obvious.
A tree that has an old version of the secret has a manifest from before the present one (`Lagging` in `TrackInv`), and the manifest saved last is newer than the secret (`ManifestOrder`): this is how a removal that HEAD never had to record is told from a commit on its way with the removed file in it, as that tree and HEAD then differ in the manifest.
And the tree a commit writes differs from the one it is built on (`TreeInv`), so when it moves HEAD all others that were built there miss.
`CommitInv` then is the promise behind `EveryChangeIsCommitted`: once all who change files have added, the index is current and HEAD is too, or a commit that makes it so is on its way.

The argument for `BulkTransfer`.
Of a dump: what it has read is part of what ever was there (`EverInv`), and of the names nobody touched it has selected exactly those it should (`SelectInv`).
Of a load, each name that nobody else edited is followed by itself.
Without `--overwrite` its first entry counts (`SkipFor`): it is as it was, or its file is from that entry, and then its listing and tags are too, unless the entry is in hand (`InHand`: between its file and its tags) or a run died at it (`cut`).
With it the last entry counts, and for the tags the last one that brings any (`OverwriteFor`), of those the run has written so far (`Written`).
Each also says what the name is at worst, which is what a run that died leaves to the next one, as that begins again at the first entry.
`HandInv` ties the two: the file handed over has the entries of the dump.

The argument for `AuditLog`.
`RotationInv`: one rotation at a time, under a key beyond all that are in use.
`OrderInv`: every copy of the log, in memory or on disk, is in order and holds only records that were written.
`KeptInv`: while nothing is disturbed, the log is complete back to the cap, and whoever is about to replace it has all of it; between a rotation's write and its commit this is said of the file under the new key.
The cap needs nothing but itself and the types.

The argument for `AtomicFile`: contents in `pending` are synced (so a power loss never shows a torn one), and each rename has a higher rank than all before it (so what is pending after the directory's fsync is no older than what returned).
The refinement then maps each system call to a step or a stutter of `DurableFile`; that a power loss cannot tear what is pending is where the invariant is used.

The argument for `Session`: a file is at the path only after its unlock created it and is whole before its cleaner starts, so when a waking cleaner finds its token, the path is its own.

The argument for the formats: `_bucket_for` gives the least admissible size above the length (the first bucket, or the next multiple of the largest), `_unpad` stops at the byte 0x80 that `_pad` put behind the text, whatever the text ends in, and a file cut at the offsets of the header gives back its six fields.
So an undamaged file is one that `encrypt_secret` could have written for its present key, and a rewrap keeps it so (`SecretInv`).
A damaged file is compared with that one, cell by cell (`DamageInv`): every place of it holds the cell that was written there, or another size in the place of the size, or junk, and after a single damage it does differ somewhere.
Who opens it has found the size to fit, and each sealed field whole with its nonce and tag, so nothing differs and the content is the one that was stored.
A rewrap can be made only if the DEK opened, and keeps all that differs behind it, so a damage cannot be washed out by a rotation.

The argument for `Generator` (`PasswordInv`): the password has a character of each pool that is done with, none from elsewhere, and room for the pools to come; a policy that is refused has nothing to pick from or more pools than characters, and as pools are disjoint no password meets it.

The argument for `GpgLock`: a lock that names a call names one that works or died at work, a call judged dead by its own host stays dead, and so, unless it says so, no sweep takes the lock of one that works.

Every safety property that a run checks is a theorem.
Only model-checked are the liveness properties (`EveryCommandEnds`, `SessionExpires`, `EveryCallEnds`), which the prover cannot do.
Their bounds are those of section 3.

## 6. Plan

Done: all modules above, their runs, and the proofs of their safety properties.
What is left: `Vault` and `Session` together, that is, a command that takes its KEK from a session of another vault.

## 7. Not modelled, and why

- Cryptography is ideal: a cell opens whole, under its key and nonce, or not at all; random bytes do not repeat. HKDF and the HMAC of file names are pure functions of bytes and appear as "a name has one file".
- Other programs that write to the vault are out of scope, except for the damage in `SecretBlob`.
- `KeyboardInterrupt` between `mkstemp` and the `try` of `_atomic_write`: one bytecode wide, same outcome as a kill.
- Failing writes of `_atomic_write` inside `Vault` (disk full): the exception leaves what a kill between the steps leaves, which `Crash` covers.
- What the clipboard cleaner would do if it got to its `main`. `clipboard.py:18-22` says that what the user copies in the meantime is left alone; that holds today only because no cleaner wipes anything. Launched as its docstring has it, the cleaner looks and wipes in two steps (`_clipboard_cleaner.py:39-45`), and a copy in between would be wiped against that claim.
- Lock files of GPG that cannot be parsed (never removed) or name no host (taken as local), and several lock files at once.
- The GPG wrappers and the key wizard: calls of an external program; what the vault needs of them is that they give the KEK.
- The round trip of texts through clipboard tools (`KNOWN_ISSUES.md`, trailing newlines).
- `mlock` and zeroing of buffers, file modes, symlink checks: no state that a property here reads.
- That the generator's choices are uniform: a statement about probabilities.
- TOTP, prompts, printing, the argument parser, `cavern git`, `__init__` and `__main__`: no shared state.
