---------------------------- MODULE VaultProofs ----------------------------
(* What holds of Vault.tla for any number of processes, names, temporary    *)
(* files, values, tags, keys, commands and crashes.                         *)
EXTENDS VaultInvariant, VaultPower, TLAPS

-----------------------------------------------------------------------------
(* Lemmas about the helpers *)

\* A missing manifest reads as an index, and so does one that is there.
LEMMA IndexInType ==
  ASSUME NEW m \in Manifest \cup {None}
  PROVE  IndexIn(m) \in Index
  BY VaultAssumption DEF IndexIn, Index, Manifest, EmptyIndex

\* What a command saves is an index again.
LEMMA UpdatedType ==
  ASSUME NEW c \in Command, NEW ix \in Index, NEW files
  PROVE  Updated(c, ix, files) \in Index
  BY DEF Updated, Index, Command, Reindexed, TagsOf

\* As long as keys are left, the drawn one is a master key nobody has.
LEMMA FreshKeyType ==
  ASSUME MasterKeys \ drawn # {}
  PROVE  FreshKey \in MasterKeys /\ FreshKey \notin drawn
  BY DEF FreshKey

\* What End leaves of the process-local variables.
LEMMA EndType ==
  ASSUME TypeOK, NEW p \in Procs, End(p)
  PROVE  /\ lock' \in Procs \cup {None}
         /\ pc' \in [Procs -> Stages]
         /\ call' \in [Procs -> Command \cup {None}]
         /\ key' \in [Procs -> MasterKeys \cup {None}]
         /\ newKey' \in [Procs -> MasterKeys \cup {None}]
         /\ todo' \in [Procs -> SUBSET Files]
         /\ loaded' \in [Procs -> Index \cup {None}]
         /\ \A q \in Procs : pc'[q] # "idle" => call'[q] # None /\ key'[q] # None
  BY VaultAssumption DEF TypeOK, End, Goto, LockAfter, Stages

-----------------------------------------------------------------------------
(* Type correctness *)

\* A vault just initialized is well typed.
LEMMA InitTypeOK == Init => TypeOK
  <1> SUFFICES ASSUME Init PROVE TypeOK
    OBVIOUS
  <1>1. EmptyIndex \in Index
    BY DEF EmptyIndex, Index
  <1>2. manifest \in Manifest \cup {None}
    BY <1>1, VaultAssumption DEF Init, Manifest
  <1> QED
    BY <1>2, VaultAssumption DEF Init, TypeOK, Stages, Mishaps

\* Every step keeps the types; what a process has in hand (LocalInv) is needed
\* for the steps that dereference it.
LEMMA NextTypeOK == TypeOK /\ LocalInv /\ [Next]_vars => TypeOK'
  <1> SUFFICES ASSUME TypeOK, LocalInv, [Next]_vars PROVE TypeOK'
    OBVIOUS
  <1> USE VaultAssumption
  <1>1. ASSUME NEW p \in Procs, Start(p) PROVE TypeOK'
    BY <1>1 DEF TypeOK, Start, Goto, FirstStage, Stages, disk, Command
  <1>2. ASSUME NEW p \in Procs,
               CheckFile(p) \/ ReadFile(p) \/ ScanManifest(p)
        PROVE  TypeOK'
    <2>1. CASE End(p) /\ UNCHANGED <<disk, ghosts>>
      BY <2>1, EndType DEF TypeOK, disk, ghosts
    <2>2. CASE /\ \E s \in Stages : Goto(p, s)
               /\ UNCHANGED <<disk, lock, locals, ghosts>>
               /\ pc[p] # "idle"
      BY <2>2 DEF TypeOK, Goto, disk, locals, ghosts
    <2> QED
      BY <1>2, <2>1, <2>2 DEF CheckFile, ReadFile, ScanManifest, Stages
  <1>3. ASSUME NEW p \in Procs, AcquireLock(p) PROVE TypeOK'
    BY <1>3 DEF TypeOK, AcquireLock, Goto, Stages, disk, locals, ghosts
  <1>4. ASSUME NEW p \in Procs, Refuse(p) PROVE TypeOK'
    BY <1>4, EndType DEF TypeOK, Refuse, disk, ghosts
  <1>5. ASSUME NEW p \in Procs, InsertFile(p) PROVE TypeOK'
    BY <1>5 DEF TypeOK, InsertFile, FileStep, Goto, Stages, locals, Recording,
                Mishaps, Blob, Command, Files
  <1>6. ASSUME NEW p \in Procs, RemoveFile(p) PROVE TypeOK'
    BY <1>6 DEF TypeOK, RemoveFile, FileStep, Goto, Stages, locals
  <1>7. ASSUME NEW p \in Procs, MoveFile(p) PROVE TypeOK'
    BY <1>7 DEF TypeOK, MoveFile, FileStep, Goto, Stages, locals, Command, Files
  <1>8. ASSUME NEW p \in Procs, TagFile(p) \/ ReindexFiles(p) PROVE TypeOK'
    BY <1>8 DEF TypeOK, TagFile, ReindexFiles, FileStep, Goto, Stages, locals
  <1>9. ASSUME NEW p \in Procs, LoadManifest(p) PROVE TypeOK'
    <2>1. IndexIn(manifest) \in Index
      BY IndexInType DEF TypeOK
    <2> QED
      BY <1>9, <2>1 DEF TypeOK, LoadManifest, Goto, Stages, disk, ghosts
  <1>10. ASSUME NEW p \in Procs, LoadManifestFails(p) PROVE TypeOK'
    BY <1>10, EndType DEF TypeOK, LoadManifestFails, Recording, Wreckage, disk
  <1>11. ASSUME NEW p \in Procs, SaveManifest(p) PROVE TypeOK'
    <2>1. loaded[p] \in Index /\ call[p] \in Command
      BY <1>11 DEF TypeOK, LocalInv, SaveManifest
    <2>2. Updated(call[p], loaded[p], store) \in Index
      BY <2>1, UpdatedType
    <2> QED
      BY <1>11, <2>2 DEF TypeOK, SaveManifest, Goto, Stages, Manifest, ghosts
  <1>12. ASSUME NEW p \in Procs, BeginRotation(p) PROVE TypeOK'
    BY <1>12, FreshKeyType
       DEF TypeOK, BeginRotation, Goto, Stages, StoredFiles, disk
  <1>13. ASSUME NEW p \in Procs, RewrapFile(p) PROVE TypeOK'
    <2> PICK f \in todo[p] :
                /\ store' = [store EXCEPT ![f].key = newKey[p]]
                /\ todo' = [todo EXCEPT ![p] = @ \ {f}]
      BY <1>13 DEF RewrapFile
    <2>1. store[f] \in Blob /\ f \in Files /\ newKey[p] \in MasterKeys
      BY <1>13 DEF RewrapFile, TypeOK, LocalInv, Rotating
    <2>2. [store[f] EXCEPT !.key = newKey[p]] \in Blob
      BY <2>1 DEF Blob
    <2> QED
      BY <1>13, <2>1, <2>2 DEF RewrapFile, TypeOK, ghosts
  <1>14. ASSUME NEW p \in Procs, RewrapFails(p) \/ RotateManifestFails(p)
         PROVE  TypeOK'
    BY <1>14, EndType
       DEF TypeOK, RewrapFails, RotateManifestFails, Recording, Wreckage, disk
  <1>15. ASSUME NEW p \in Procs, RotateManifest(p) PROVE TypeOK'
    <2>1. IndexIn(manifest) \in Index
      BY IndexInType DEF TypeOK
    <2>2. newKey[p] \in MasterKeys
      BY <1>15 DEF RotateManifest, TypeOK, LocalInv, Rotating
    <2> QED
      BY <1>15, <2>1, <2>2
         DEF TypeOK, RotateManifest, Goto, Stages, Manifest, locals, ghosts
  <1>16. ASSUME NEW p \in Procs, RotateAudit(p) PROVE TypeOK'
    BY <1>16 DEF TypeOK, RotateAudit, Goto, Stages, locals, ghosts
  <1>17. ASSUME NEW p \in Procs, CommitRotation(p) PROVE TypeOK'
    BY <1>17 DEF TypeOK, LocalInv, Rotating, CommitRotation, Goto, Stages,
                 locals, ghosts
  <1>18. ASSUME NEW p \in Procs, Rederive(p) PROVE TypeOK'
    BY <1>18 DEF TypeOK, Rederive, Goto, Stages, disk, ghosts
  <1>19. ASSUME NEW p \in Procs, AppendAudit(p) PROVE TypeOK'
    BY <1>19, EndType DEF TypeOK, AppendAudit, ghosts
  <1>20. ASSUME NEW p \in Procs, Crash(p) PROVE TypeOK'
    BY <1>20, EndType DEF TypeOK, Crash, Recording, Wreckage, disk
  <1>21. ASSUME NEW p \in Procs, CrashInWrite(p) PROVE TypeOK'
    <2>1. Pending(p) \cup {Torn} \subseteq Blob
      <3>1. CASE pc[p] = "locked" /\ call[p].op = "insert" /\ ~Refused(call[p])
        BY <3>1 DEF Pending, TypeOK, Blob, Torn, Command
      <3>2. CASE ~(pc[p] = "locked" /\ call[p].op = "insert" /\ ~Refused(call[p]))
        <4>1. ASSUME NEW f \in todo[p]
              PROVE  [store[f] EXCEPT !.key = newKey[p]] \in Blob
          <5>1. store[f] \in Blob /\ newKey[p] \in MasterKeys \cup {None}
            BY DEF TypeOK, LocalInv
          <5> QED
            BY <5>1 DEF Blob
        <4> QED
          BY <3>2, <4>1 DEF Pending, Blob, Torn
      <3> QED
        BY <3>1, <3>2
    <2> QED
      BY <1>21, <2>1, EndType
         DEF TypeOK, CrashInWrite, Recording, Wreckage, Files
  <1>22. CASE UNCHANGED vars
    BY <1>22 DEF TypeOK, vars, disk, locals, ghosts
  <1> QED
    BY <1>1, <1>2, <1>3, <1>4, <1>5, <1>6, <1>7, <1>8, <1>9, <1>10, <1>11,
       <1>12, <1>13, <1>14, <1>15, <1>16, <1>17, <1>18, <1>19, <1>20, <1>21,
       <1>22
       DEF Next, Step

-----------------------------------------------------------------------------
(* The lock *)

\* A step of one process leaves the locals of every other as they are.
LEMMA OthersUnchanged ==
  ASSUME TypeOK, NEW p \in Procs, NEW q \in Procs, q # p,
         Start(p) \/ Step(p) \/ Crash(p) \/ CrashInWrite(p)
  PROVE  /\ pc'[q] = pc[q] /\ call'[q] = call[q] /\ key'[q] = key[q]
         /\ newKey'[q] = newKey[q] /\ todo'[q] = todo[q]
         /\ loaded'[q] = loaded[q]
  BY DEF TypeOK, Start, Step, CheckFile, ReadFile, ScanManifest, AcquireLock,
         Refuse, InsertFile, RemoveFile, MoveFile, TagFile, ReindexFiles,
         FileStep, LoadManifest, LoadManifestFails, SaveManifest,
         BeginRotation, RewrapFile, RewrapFails, RotateManifest,
         RotateManifestFails, RotateAudit, CommitRotation, Rederive,
         AppendAudit, Crash, CrashInWrite, End, Goto, disk, locals, ghosts

\* Taking and giving up the lock go with entering and leaving Critical.
LEMMA NextLockInv == TypeOK /\ LockInv /\ [Next]_vars => LockInv'
  <1> SUFFICES ASSUME TypeOK, LockInv, [Next]_vars PROVE LockInv'
    OBVIOUS
  <1> USE VaultAssumption DEF LockInv
  <1>0. ASSUME NEW p \in Procs, End(p) PROVE LockInv'
    BY <1>0 DEF TypeOK, End, Goto, LockAfter, Critical
  <1>1. ASSUME NEW p \in Procs, Start(p) PROVE LockInv'
    BY <1>1 DEF TypeOK, Start, Goto, FirstStage, Critical, disk
  <1>2. ASSUME NEW p \in Procs,
               CheckFile(p) \/ ReadFile(p) \/ ScanManifest(p)
        PROVE  LockInv'
    <2>1. CASE End(p)
      BY <2>1, <1>0
    <2>2. CASE ~End(p)
      BY <1>2, <2>2
         DEF TypeOK, CheckFile, ReadFile, ScanManifest, Goto, Critical
    <2> QED
      BY <2>1, <2>2
  <1>3. ASSUME NEW p \in Procs, AcquireLock(p) PROVE LockInv'
    BY <1>3 DEF TypeOK, AcquireLock, LockIsFree, Goto, Critical
  <1>4. ASSUME NEW p \in Procs,
               InsertFile(p) \/ RemoveFile(p) \/ MoveFile(p) \/ TagFile(p)
                 \/ ReindexFiles(p)
        PROVE  LockInv'
    BY <1>4 DEF TypeOK, InsertFile, RemoveFile, MoveFile, TagFile,
                ReindexFiles, FileStep, Goto, Critical
  <1>5. ASSUME NEW p \in Procs, LoadManifest(p) \/ SaveManifest(p) PROVE LockInv'
    BY <1>5 DEF TypeOK, LoadManifest, SaveManifest, Goto, Critical
  <1>6. ASSUME NEW p \in Procs,
               BeginRotation(p) \/ RewrapFile(p) \/ RotateManifest(p)
                 \/ RotateAudit(p) \/ CommitRotation(p)
        PROVE  LockInv'
    BY <1>6 DEF TypeOK, BeginRotation, RewrapFile, RotateManifest, RotateAudit,
                CommitRotation, Goto, Critical, locals
  <1>7. ASSUME NEW p \in Procs, Rederive(p) PROVE LockInv'
    BY <1>7 DEF TypeOK, Rederive, Goto, Critical
  <1>8. ASSUME NEW p \in Procs,
               Refuse(p) \/ LoadManifestFails(p) \/ RewrapFails(p)
                 \/ RotateManifestFails(p) \/ AppendAudit(p) \/ Crash(p)
                 \/ CrashInWrite(p)
        PROVE  LockInv'
    BY <1>8, <1>0 DEF Refuse, LoadManifestFails, RewrapFails,
                      RotateManifestFails, AppendAudit, Crash, CrashInWrite
  <1>9. CASE UNCHANGED vars
    BY <1>9 DEF vars
  <1> QED
    BY <1>1, <1>2, <1>3, <1>4, <1>5, <1>6, <1>7, <1>8, <1>9 DEF Next, Step

\* Only the process inside the lock writes store/ or the manifest.
LEMMA OnlyHolderWrites ==
  ASSUME TypeOK, LockInv, LocalInv, NEW p \in Procs,
         Start(p) \/ Step(p) \/ Crash(p) \/ CrashInWrite(p),
         store' # store \/ manifest' # manifest
  PROVE  pc[p] \in Critical /\ lock = p
  <1>1. pc[p] \in Critical
    BY DEF LocalInv, Start, Step, CheckFile, ReadFile, ScanManifest, AcquireLock,
           Refuse, InsertFile, RemoveFile, MoveFile, TagFile, ReindexFiles,
           FileStep, LoadManifest, LoadManifestFails, SaveManifest,
           BeginRotation, RewrapFile, RewrapFails, RotateManifest,
           RotateManifestFails, RotateAudit, CommitRotation, Rederive,
           AppendAudit, Crash, CrashInWrite, Pending, Critical, disk
  <1> QED
    BY <1>1 DEF LockInv

\* A process that needs the lock keeps what it relies on while others step.
LEMMA HolderUndisturbed ==
  ASSUME TypeOK, LockInv, LocalInv, NEW p \in Procs, NEW q \in Procs, q # p,
         Start(p) \/ Step(p) \/ Crash(p) \/ CrashInWrite(p),
         pc[q] \in Critical \/ pc'[q] \in Critical
  PROVE  /\ pc'[q] = pc[q] /\ key'[q] = key[q] /\ newKey'[q] = newKey[q]
         /\ todo'[q] = todo[q] /\ loaded'[q] = loaded[q]
         /\ store' = store /\ manifest' = manifest
  BY OthersUnchanged, OnlyHolderWrites DEF LockInv

\* A process keeps what its stage says it has: a key, a command, an index.
LEMMA NextLocalInv == TypeOK /\ LockInv /\ LocalInv /\ [Next]_vars => LocalInv'
  <1> SUFFICES ASSUME TypeOK, LockInv, LocalInv, [Next]_vars PROVE LocalInv'
    OBVIOUS
  <1> DEFINE Ok(q) == /\ pc[q] = "save" => loaded[q] # None
                      /\ pc[q] \in Rotating => newKey[q] # None
                      /\ todo[q] # {} => pc[q] = "rewrap"
                      /\ \A f \in todo[q] : store[f] # None
  <1>1. ASSUME NEW p \in Procs,
               Start(p) \/ Step(p) \/ Crash(p) \/ CrashInWrite(p)
        PROVE  \A q \in Procs : Ok(q)'
    <2>1. ASSUME NEW q \in Procs, q # p PROVE Ok(q)'
      <3>1. CASE pc[q] \in Critical
        BY <1>1, <2>1, <3>1, HolderUndisturbed DEF LocalInv
      <3>2. CASE pc[q] \notin Critical
        BY <1>1, <2>1, <3>2, OthersUnchanged DEF LocalInv, Critical, Rotating
      <3> QED
        BY <3>1, <3>2
    <2>2. Ok(p)'
      <3>1. CASE End(p)
        BY <3>1, VaultAssumption DEF TypeOK, End, Goto, Rotating
      <3>2. CASE Start(p) \/ CheckFile(p) \/ ReadFile(p) \/ ScanManifest(p)
                   \/ AcquireLock(p) \/ Rederive(p)
        BY <3>1, <3>2
           DEF TypeOK, LocalInv, Start, CheckFile, ReadFile, ScanManifest,
               AcquireLock, Rederive, FirstStage, Goto, Rotating, disk, locals
      <3>3. CASE \E op \in Ops : FileStep(p, op)
        BY <3>3 DEF TypeOK, LocalInv, FileStep, Goto, Rotating, locals
      <3>4. CASE LoadManifest(p)
        <4>1. IndexIn(manifest) # None
          BY IndexInType, VaultAssumption DEF TypeOK
        <4> QED
          BY <3>4, <4>1 DEF TypeOK, LocalInv, LoadManifest, Goto, Rotating, disk
      <3>5. CASE SaveManifest(p)
        BY <3>5 DEF TypeOK, LocalInv, SaveManifest, Goto, Rotating
      <3>6. CASE BeginRotation(p)
        BY <3>6, FreshKeyType, VaultAssumption
           DEF TypeOK, LocalInv, BeginRotation, StoredFiles, Goto, disk
      <3>7. CASE RewrapFile(p)
        BY <3>7, VaultAssumption
           DEF TypeOK, LocalInv, RewrapFile, Blob, Rotating
      <3>8. CASE RotateManifest(p) \/ RotateAudit(p) \/ CommitRotation(p)
        BY <3>8 DEF TypeOK, LocalInv, RotateManifest, RotateAudit,
                    CommitRotation, Goto, Rotating, locals
      <3> QED
        BY <1>1, <3>1, <3>2, <3>3, <3>4, <3>5, <3>6, <3>7, <3>8
           DEF Step, Refuse, InsertFile, RemoveFile, MoveFile, TagFile,
               ReindexFiles, LoadManifestFails, RewrapFails,
               RotateManifestFails, AppendAudit, Crash, CrashInWrite, Ops
    <2> QED
      BY <2>1, <2>2
  <1>2. CASE UNCHANGED vars
    BY <1>2 DEF LocalInv, vars, disk, locals
  <1> QED
    BY <1>1, <1>2 DEF LocalInv, Next

-----------------------------------------------------------------------------
(* No lost update *)

\* The manifest does not change between the load and the save of one process.
LEMMA NextNoLostUpdate ==
  TypeOK /\ LockInv /\ LocalInv /\ NoLostUpdate /\ [Next]_vars => NoLostUpdate'
  <1> SUFFICES ASSUME TypeOK, LockInv, LocalInv, NoLostUpdate, [Next]_vars,
                      NEW q \in Procs, pc'[q] = "save"
               PROVE  ManifestOpens(manifest, key[q])' /\ loaded'[q] = IndexIn(manifest)'
    BY DEF NoLostUpdate
  <1>1. ASSUME NEW p \in Procs, p # q,
               Start(p) \/ Step(p) \/ Crash(p) \/ CrashInWrite(p)
        PROVE  pc[q] = "save" /\ UNCHANGED <<key[q], loaded[q], manifest>>
    BY <1>1, HolderUndisturbed DEF Critical
  <1>2. CASE Start(q) \/ Step(q) \/ Crash(q) \/ CrashInWrite(q)
    <2>1. LoadManifest(q)
      BY <1>2 DEF TypeOK, Start, FirstStage, Step, CheckFile, ReadFile, ScanManifest,
             AcquireLock, Refuse, InsertFile, RemoveFile, MoveFile, TagFile,
             ReindexFiles, FileStep, LoadManifestFails, SaveManifest,
             BeginRotation, RewrapFile, RewrapFails, RotateManifest,
             RotateManifestFails, RotateAudit, CommitRotation, Rederive,
             AppendAudit, Crash, CrashInWrite, End, Goto
    <2> QED
      BY <2>1 DEF LoadManifest, TypeOK, Goto, disk, ManifestOpens
  <1>3. CASE UNCHANGED vars
    BY <1>3 DEF NoLostUpdate, vars, disk, locals, ManifestOpens, IndexIn
  <1> QED
    BY <1>1, <1>2, <1>3 DEF Next, NoLostUpdate, ManifestOpens, IndexIn

-----------------------------------------------------------------------------
(* Rotation *)

\* The only ways into and on through a rotation.
LEMMA RotatingSteps ==
  ASSUME TypeOK, NEW p \in Procs,
         Start(p) \/ Step(p) \/ Crash(p) \/ CrashInWrite(p),
         pc'[p] \in Rotating
  PROVE  BeginRotation(p) \/ RewrapFile(p) \/ RotateManifest(p) \/ RotateAudit(p)
  BY DEF TypeOK, Rotating, Start, FirstStage, Step, CheckFile, ReadFile,
         ScanManifest, AcquireLock, Refuse, InsertFile, RemoveFile, MoveFile,
         TagFile, ReindexFiles, FileStep, LoadManifest, LoadManifestFails,
         SaveManifest, RewrapFails, RotateManifestFails, CommitRotation,
         Rederive, AppendAudit, Crash, CrashInWrite, End, Goto

\* What a process writes to the manifest is a manifest, under the right key.
LEMMA WrittenManifest ==
  ASSUME TypeOK, LocalInv, NEW p \in Procs
  PROVE  /\ SaveManifest(p) => manifest' # None /\ manifest'.key = key[p]
         /\ RotateManifest(p) => manifest' # None /\ manifest'.key = newKey[p]
  <1>1. ASSUME SaveManifest(p) PROVE manifest' # None /\ manifest'.key = key[p]
    <2>1. loaded[p] \in Index /\ call[p] \in Command /\ key[p] \in MasterKeys
      BY <1>1 DEF TypeOK, LocalInv, SaveManifest
    <2>2. Updated(call[p], loaded[p], store) \in Index
      BY <2>1, UpdatedType
    <2> QED
      BY <1>1, <2>1, <2>2, VaultAssumption DEF SaveManifest, Manifest
  <1>2. ASSUME RotateManifest(p) PROVE manifest' # None /\ manifest'.key = newKey[p]
    <2>1. newKey[p] \in MasterKeys
      BY <1>2 DEF TypeOK, LocalInv, RotateManifest, Rotating
    <2>2. IndexIn(manifest) \in Index
      BY IndexInType DEF TypeOK
    <2> QED
      BY <1>2, <2>1, <2>2, VaultAssumption DEF RotateManifest, Manifest
  <1> QED
    BY <1>1, <1>2

\* What a rotation has visited stays under its new key while it goes on.
LEMMA NextRewrapInv ==
  TypeOK /\ LockInv /\ LocalInv /\ RewrapInv /\ [Next]_vars => RewrapInv'
  <1> SUFFICES ASSUME TypeOK, LockInv, LocalInv, RewrapInv, [Next]_vars
               PROVE  RewrapInv'
    OBVIOUS
  <1> DEFINE Ok(q) ==
        /\ pc[q] \in Rotating =>
              \A f \in Files : store[f] # None /\ f \notin todo[q]
                                  => store[f].key = newKey[q]
        /\ pc[q] \in {"rotateAudit", "commit"} =>
              manifest # None /\ manifest.key = newKey[q]
  <1>1. ASSUME NEW p \in Procs,
               Start(p) \/ Step(p) \/ Crash(p) \/ CrashInWrite(p)
        PROVE  \A q \in Procs : Ok(q)'
    <2>1. ASSUME NEW q \in Procs, q # p PROVE Ok(q)'
      BY <1>1, <2>1, HolderUndisturbed DEF RewrapInv, Rotating, Critical
    <2>2. Ok(p)'
      <3>1. CASE BeginRotation(p)
        BY <3>1 DEF TypeOK, BeginRotation, StoredFiles, Goto, disk
      <3>2. CASE RewrapFile(p)
        <4> PICK f \in todo[p] :
                  /\ store' = [store EXCEPT ![f].key = newKey[p]]
                  /\ todo' = [todo EXCEPT ![p] = @ \ {f}]
          BY <3>2 DEF RewrapFile
        <4>1. store[f] \in Blob /\ f \in Files
          BY DEF TypeOK, LocalInv
        <4>2. store'[f].key = newKey[p]
          BY <4>1 DEF TypeOK, Blob
        <4> QED
          BY <3>2, <4>1, <4>2 DEF TypeOK, RewrapInv, RewrapFile, Rotating
      <3>3. CASE RotateManifest(p)
        BY <3>3, WrittenManifest
           DEF TypeOK, RewrapInv, RotateManifest, Goto, Rotating, locals
      <3>4. CASE RotateAudit(p)
        BY <3>4 DEF TypeOK, RewrapInv, RotateAudit, Goto, Rotating, locals
      <3> QED
        BY <1>1, <3>1, <3>2, <3>3, <3>4, RotatingSteps DEF Rotating
    <2> QED
      BY <2>1, <2>2
  <1>2. CASE UNCHANGED vars
    BY <1>2 DEF RewrapInv, vars, disk, locals
  <1> QED
    BY <1>1, <1>2 DEF RewrapInv, Next

\* master.json and the mishaps change only where the code says so.
LEMMA MasterSteps ==
  ASSUME TypeOK, NEW p \in Procs,
         Start(p) \/ Step(p) \/ Crash(p) \/ CrashInWrite(p)
  PROVE  /\ mishaps \subseteq mishaps'
         /\ master' = master \/ CommitRotation(p)
  <1>1. master' = master \/ CommitRotation(p)
    BY DEF Start, Step, CheckFile, ReadFile, ScanManifest, AcquireLock, Refuse,
           InsertFile, RemoveFile, MoveFile, TagFile, ReindexFiles, FileStep,
           LoadManifest, LoadManifestFails, SaveManifest, BeginRotation,
           RewrapFile, RewrapFails, RotateManifest, RotateManifestFails,
           RotateAudit, Rederive, AppendAudit, Crash, CrashInWrite, disk
  <1>2. CASE InsertFile(p)
    BY <1>1, <1>2 DEF InsertFile, Recording
  <1>3. CASE ~InsertFile(p)
    <2>1. mishaps' = mishaps \/ Recording(Wreckage(p))
      BY <1>3 DEF Start, Step, CheckFile, ReadFile, ScanManifest, AcquireLock, Refuse,
             InsertFile, RemoveFile, MoveFile, TagFile, ReindexFiles, FileStep,
             LoadManifest, LoadManifestFails, SaveManifest, BeginRotation,
             RewrapFile, RewrapFails, RotateManifest, RotateManifestFails,
             RotateAudit, Rederive, AppendAudit, Crash, CrashInWrite,
             CommitRotation, ghosts
    <2> QED
      BY <1>1, <2>1 DEF Recording
  <1> QED
    BY <1>2, <1>3

\* A rotation that stops with something under its new key is recorded.
LEMMA RotationEnds ==
  ASSUME TypeOK, LockInv, NEW p \in Procs, pc[p] \in Rotating,
         Start(p) \/ Step(p) \/ Crash(p) \/ CrashInWrite(p),
         pc'[p] \notin Rotating
  PROVE  \/ CommitRotation(p)
         \/ /\ Underway(p) => "abandonedRotation" \in mishaps'
            /\ \A n \in Names : store'[n] = store[n]
            /\ master' = master /\ manifest' = manifest
  <1> SUFFICES ASSUME ~CommitRotation(p)
               PROVE  /\ Underway(p) => "abandonedRotation" \in mishaps'
                      /\ \A n \in Names : store'[n] = store[n]
                      /\ master' = master /\ manifest' = manifest
    OBVIOUS
  <1>1. RewrapFails(p) \/ RotateManifestFails(p) \/ Crash(p) \/ CrashInWrite(p)
    BY DEF TypeOK, Rotating, Start, Step, CheckFile, ReadFile, ScanManifest,
           AcquireLock, Refuse, InsertFile, RemoveFile, MoveFile, TagFile,
           ReindexFiles, FileStep, LoadManifest, LoadManifestFails,
           SaveManifest, BeginRotation, RewrapFile, RotateManifest, RotateAudit,
           Rederive, AppendAudit, Goto
  <1>2. Underway(p) => "abandonedRotation" \in Wreckage(p)
    BY DEF Wreckage, Mishaps, Rotating
  <1>3. \A n \in Names : store'[n] = store[n]
    BY <1>1, VaultAssumption
       DEF TypeOK, Files, RewrapFails, RotateManifestFails, Crash, CrashInWrite,
           disk
  <1> QED
    BY <1>1, <1>2, <1>3
       DEF RewrapFails, RotateManifestFails, Crash, CrashInWrite, Recording, disk

\* A secret leaves the two keys it may be under only by a recorded mishap.
LEMMA NextSecretsInv ==
  /\ TypeOK /\ LockInv /\ LocalInv /\ RewrapInv /\ SecretsInv /\ [Next]_vars
  => SecretsInv'
  <1> DEFINE Clean == mishaps \cap {"staleWrite", "abandonedRotation"} = {}
             Visited(n) == \E q \in Procs : pc[q] \in Rotating /\ n \notin todo[q]
  <1> SUFFICES ASSUME TypeOK, LockInv, LocalInv, RewrapInv, SecretsInv,
                      [Next]_vars, Clean',
                      NEW n \in Names, store'[n] # None
               PROVE  store'[n].key = master' \/ Visited(n)'
    BY DEF SecretsInv
  <1>1. ASSUME NEW p \in Procs,
               Start(p) \/ Step(p) \/ Crash(p) \/ CrashInWrite(p)
        PROVE  store'[n].key = master' \/ Visited(n)'
    <2>0. Clean /\ (store[n] # None => store[n].key = master \/ Visited(n))
      BY <1>1, MasterSteps DEF SecretsInv
    <2>1. CASE pc[p] \in Rotating /\ pc'[p] \notin Rotating
      <3>1. CASE CommitRotation(p)
        BY <2>1, <3>1 DEF CommitRotation, RewrapInv, LocalInv, Rotating, TypeOK, Files
      <3>2. CASE ~CommitRotation(p)
        <4>1. ~Underway(p) /\ store'[n] = store[n] /\ master' = master
          BY <1>1, <2>1, <3>2, RotationEnds
        <4>2. store[n].key # newKey[p] /\ newKey[p] # None
          BY <2>1, <4>1 DEF Underway, LocalInv
        <4>3. n \in todo[p]
          BY <2>1, <4>1, <4>2 DEF RewrapInv, Files
        <4>4. ASSUME NEW q \in Procs, q # p PROVE pc[q] \notin Rotating
          BY <2>1, <4>4 DEF LockInv, Critical, Rotating
        <4> QED
          BY <2>0, <4>1, <4>3, <4>4
      <3> QED
        BY <3>1, <3>2
    <2>2. CASE pc'[p] \in Rotating
      <3>1. master' = master
        BY <1>1, <2>2, MasterSteps DEF TypeOK, CommitRotation, Goto, Rotating
      <3>2. \A q \in Procs : q # p => pc[q] \notin Rotating
        BY <1>1, <2>2, RotatingSteps
           DEF LockInv, Critical, Rotating, BeginRotation, RewrapFile,
               RotateManifest, RotateAudit
      <3>3. CASE BeginRotation(p)
        BY <2>0, <3>1, <3>2, <3>3 DEF BeginRotation, Rotating, disk
      <3>4. CASE RewrapFile(p)
        <4> PICK f \in todo[p] :
                  /\ store' = [store EXCEPT ![f].key = newKey[p]]
                  /\ todo' = [todo EXCEPT ![p] = @ \ {f}]
          BY <3>4 DEF RewrapFile
        <4>1. CASE f = n
          BY <2>2, <4>1 DEF TypeOK
        <4>2. CASE f # n
          <5>1. store'[n] = store[n]
            BY <4>2 DEF TypeOK, Files
          <5>2. n \notin todo[p] => n \notin todo'[p]
            BY DEF TypeOK
          <5> QED
            BY <2>0, <2>2, <3>1, <3>2, <5>1, <5>2
        <4> QED
          BY <4>1, <4>2
      <3>5. CASE RotateManifest(p) \/ RotateAudit(p)
        BY <2>0, <2>2, <3>1, <3>2, <3>5 DEF RotateManifest, RotateAudit, locals
      <3> QED
        BY <1>1, <2>2, <3>3, <3>4, <3>5, RotatingSteps
    <2>3. CASE pc[p] \notin Rotating /\ pc'[p] \notin Rotating
      <3>1. master' = master
        BY <1>1, <2>3, MasterSteps DEF CommitRotation, Rotating
      <3>2. Visited(n) => Visited(n)'
        BY <1>1, <2>3, OthersUnchanged
      <3>3. CASE store'[n] = store[n]
        BY <2>0, <3>1, <3>2, <3>3
      <3>4. CASE store'[n] # store[n]
        <4>1. lock = p /\ pc[p] \in Critical
          BY <1>1, <3>4, OnlyHolderWrites
        <4>2. \A m \in Names : store[m] # None => store[m].key = master
          BY <2>0, <2>3, <4>1 DEF SecretsInv, LockInv, Critical, Rotating
        <4>3. InsertFile(p) \/ RemoveFile(p) \/ MoveFile(p)
          BY <1>1, <2>3, <3>4, VaultAssumption
             DEF TypeOK, Start, Step, CheckFile, ReadFile, ScanManifest,
                 AcquireLock, Refuse, TagFile, ReindexFiles, LoadManifest,
                 LoadManifestFails, SaveManifest, BeginRotation, RewrapFile,
                 RewrapFails, RotateManifest, RotateManifestFails, RotateAudit,
                 CommitRotation, Rederive, AppendAudit, Crash, CrashInWrite,
                 Rotating, Files, disk
        <4>4. CASE InsertFile(p)
          <5>1. key[p] = master
            BY <4>4 DEF InsertFile, Recording
          <5> QED
            BY <3>1, <4>2, <4>4, <5>1 DEF TypeOK, InsertFile, Files
        <4>5. CASE RemoveFile(p)
          BY <3>1, <4>2, <4>5 DEF TypeOK, RemoveFile, Files
        <4>6. CASE MoveFile(p)
          <5>1. call[p] \in Command /\ ~Refused(call[p]) /\ call[p].op = "mv"
            BY <4>6 DEF TypeOK, MoveFile, FileStep
          <5>2. store[call[p].name] # None
            BY <5>1 DEF Refused
          <5>3. call[p].name \in Names /\ call[p].target \in Names
            BY <5>1 DEF Command
          <5> QED
            BY <3>1, <4>2, <4>6, <5>2, <5>3 DEF TypeOK, MoveFile, Files
        <4> QED
          BY <4>3, <4>4, <4>5, <4>6
      <3> QED
        BY <3>3, <3>4
    <2> QED
      BY <2>1, <2>2, <2>3
  <1>2. CASE UNCHANGED vars
    BY <1>2 DEF SecretsInv, vars, disk, locals, ghosts
  <1> QED
    BY <1>1, <1>2 DEF Next

-----------------------------------------------------------------------------
(* Keys *)

\* The manifest changes in two places.
LEMMA ManifestSteps ==
  ASSUME NEW p \in Procs,
         Start(p) \/ Step(p) \/ Crash(p) \/ CrashInWrite(p),
         manifest' # manifest
  PROVE  SaveManifest(p) \/ RotateManifest(p)
  BY DEF Start, Step, CheckFile, ReadFile, ScanManifest, AcquireLock, Refuse,
         InsertFile, RemoveFile, MoveFile, TagFile, ReindexFiles, FileStep,
         LoadManifest, LoadManifestFails, BeginRotation, RewrapFile,
         RewrapFails, RotateManifestFails, RotateAudit, CommitRotation,
         Rederive, AppendAudit, Crash, CrashInWrite, disk

\* A process resolves its key, gets it again after a rotation, or loses it.
LEMMA KeySteps ==
  ASSUME TypeOK, NEW p \in Procs,
         Start(p) \/ Step(p) \/ Crash(p) \/ CrashInWrite(p)
  PROVE  \/ key'[p] = key[p]
         \/ key'[p] = master /\ master' = master /\ drawn' = drawn
            /\ pc'[p] \notin Rotating /\ pc'[p] # "idle"
            /\ UNCHANGED <<manifest, newKey>>
         \/ key'[p] = None /\ pc'[p] = "idle"
  BY VaultAssumption
     DEF TypeOK, Rotating, Start, FirstStage, Step, CheckFile, ReadFile,
         ScanManifest, AcquireLock, Refuse, InsertFile, RemoveFile, MoveFile,
         TagFile, ReindexFiles, FileStep, LoadManifest, LoadManifestFails,
         SaveManifest, BeginRotation, RewrapFile, RewrapFails, RotateManifest,
         RotateManifestFails, RotateAudit, CommitRotation, Rederive,
         AppendAudit, Crash, CrashInWrite, End, Goto, disk, locals, ghosts

\* A rotation draws its key, keeps it or loses it.
LEMMA NewKeySteps ==
  ASSUME TypeOK, NEW p \in Procs,
         Start(p) \/ Step(p) \/ Crash(p) \/ CrashInWrite(p)
  PROVE  \/ newKey'[p] \in {newKey[p], None} /\ drawn' = drawn
         \/ BeginRotation(p) /\ newKey'[p] = FreshKey
  BY DEF TypeOK, Start, Step, CheckFile, ReadFile,
         ScanManifest, AcquireLock, Refuse, InsertFile, RemoveFile, MoveFile,
         TagFile, ReindexFiles, FileStep, LoadManifest, LoadManifestFails,
         SaveManifest, BeginRotation, RewrapFile, RewrapFails, RotateManifest,
         RotateManifestFails, RotateAudit, CommitRotation, Rederive,
         AppendAudit, Crash, CrashInWrite, End, Goto, disk, locals, ghosts

\* A key just drawn is under no file, and is no other process's key.
LEMMA NextFreshInv ==
  /\ TypeOK /\ LockInv /\ LocalInv /\ NoLostUpdate /\ FreshInv /\ [Next]_vars
  => FreshInv'
  <1> SUFFICES ASSUME TypeOK, LockInv, LocalInv, NoLostUpdate, FreshInv,
                      [Next]_vars
               PROVE  FreshInv'
    OBVIOUS
  <1>1. ASSUME NEW p \in Procs,
               Start(p) \/ Step(p) \/ Crash(p) \/ CrashInWrite(p)
        PROVE  FreshInv'
    <2>1. drawn \subseteq drawn'
      BY <1>1, NewKeySteps DEF BeginRotation
    <2>2. master' \in drawn'
      BY <1>1, <2>1, MasterSteps DEF FreshInv, CommitRotation, LocalInv, Rotating
    <2>3. manifest' # None => manifest'.key \in drawn'
      <3>1. CASE SaveManifest(p)
        BY <2>1, <3>1 DEF FreshInv, SaveManifest, TypeOK
      <3>2. CASE RotateManifest(p)
        BY <2>1, <3>2 DEF FreshInv, RotateManifest, LocalInv, Rotating
      <3> QED
        BY <1>1, <2>1, <3>1, <3>2, ManifestSteps DEF FreshInv
    <2>4. \A q \in Procs : key'[q] # None => key'[q] \in drawn'
      BY <1>1, <2>1, OthersUnchanged, KeySteps DEF FreshInv
    <2>5. \A q \in Procs : newKey'[q] # None => newKey'[q] \in drawn'
      BY <1>1, <2>1, OthersUnchanged, NewKeySteps DEF FreshInv, BeginRotation
    <2>6. ASSUME NEW q \in Procs, pc'[q] \in Rotating
          PROVE  /\ newKey'[q] # master' /\ \A r \in Procs : key'[r] # newKey'[q]
                 /\ pc'[q] = "rewrap" /\ manifest' # None
                       => manifest'.key # newKey'[q]
      <3>1. CASE BeginRotation(q)
        BY <3>1, FreshKeyType, VaultAssumption
           DEF TypeOK, FreshInv, BeginRotation, disk
      <3>2. CASE ~BeginRotation(q)
        <4>1. pc[q] \in Rotating /\ newKey'[q] = newKey[q] /\ newKey[q] # None
          <5>1. CASE q = p
            <6>1. RewrapFile(p) \/ RotateManifest(p) \/ RotateAudit(p)
              BY <1>1, <2>6, <3>2, <5>1, RotatingSteps
            <6> QED
              BY <5>1, <6>1 DEF RewrapFile, RotateManifest, RotateAudit, Rotating,
                                LocalInv, locals
          <5>2. CASE q # p
            BY <1>1, <2>6, <5>2, OthersUnchanged DEF LocalInv
          <5> QED
            BY <5>1, <5>2
        <4>2. master' = master
          <5>1. CASE CommitRotation(p)
            BY <2>6, <4>1, <5>1
               DEF TypeOK, LockInv, CommitRotation, Goto, Critical, Rotating
          <5> QED
            BY <1>1, <5>1, MasterSteps
        <4>3. \A r \in Procs : key'[r] # newKey'[q]
          BY <1>1, <4>1, OthersUnchanged, KeySteps DEF FreshInv
        <4>4. pc'[q] = "rewrap" /\ manifest' # None => manifest'.key # newKey'[q]
          <5>1. CASE manifest' = manifest
            <6>1. pc'[q] = "rewrap" => pc[q] = "rewrap"
              BY <1>1, <3>2, <4>1, OthersUnchanged, RotatingSteps
                 DEF TypeOK, Rotating, RewrapFile, RotateManifest, RotateAudit, Goto
            <6> QED
              BY <4>1, <5>1, <6>1 DEF FreshInv
          <5>2. CASE manifest' # manifest
            <6>1. SaveManifest(p) \/ RotateManifest(p)
              BY <1>1, <5>2, ManifestSteps
            <6>2. q = p
              BY <4>1, <6>1
                 DEF LockInv, Critical, Rotating, SaveManifest, RotateManifest
            <6> QED
              BY <4>1, <6>1, <6>2
                 DEF TypeOK, SaveManifest, RotateManifest, Rotating, Goto
          <5> QED
            BY <5>1, <5>2
        <4> QED
          BY <4>1, <4>2, <4>3, <4>4 DEF FreshInv
      <3> QED
        BY <3>1, <3>2
    <2> QED
      BY <2>2, <2>3, <2>4, <2>5, <2>6 DEF FreshInv, Rotating
  <1>2. CASE UNCHANGED vars
    BY <1>2 DEF FreshInv, vars, disk, locals, ghosts
  <1> QED
    BY <1>1, <1>2 DEF Next

\* A process outside a rotation knows only keys that have been drawn.
LEMMA NextKeyInv ==
  /\ TypeOK /\ LockInv /\ LocalInv /\ NoLostUpdate /\ RewrapInv /\ FreshInv
  /\ KeyInv /\ [Next]_vars
  => KeyInv'
  <1> SUFFICES ASSUME TypeOK, LockInv, LocalInv, NoLostUpdate, RewrapInv,
                      FreshInv, KeyInv, [Next]_vars,
                      NEW q \in Procs, pc'[q] # "idle",
                      ManifestOpens(manifest', key'[q])
               PROVE  key'[q] = master'
    BY DEF KeyInv, ManifestOpens
  <1>1. ASSUME NEW p \in Procs,
               Start(p) \/ Step(p) \/ Crash(p) \/ CrashInWrite(p)
        PROVE  key'[q] = master'
    <2>1. CASE SaveManifest(p)
      <3>1. key[p] = master
        BY <2>1 DEF SaveManifest, NoLostUpdate, KeyInv
      <3> QED
        BY <2>1, <3>1, WrittenManifest DEF SaveManifest, ManifestOpens
    <2>2. CASE RotateManifest(p)
      BY <2>2, WrittenManifest DEF RotateManifest, ManifestOpens, FreshInv, Rotating, locals
    <2>3. CASE CommitRotation(p)
      BY <2>3 DEF CommitRotation, ManifestOpens, RewrapInv, FreshInv, Rotating, locals
    <2>4. CASE manifest' = manifest /\ master' = master
      <3>1. CASE key'[q] = key[q] /\ pc[q] # "idle"
        BY <2>4, <3>1 DEF KeyInv
      <3>2. CASE q = p /\ key'[q] # key[q]
        BY <1>1, <2>4, <3>2, KeySteps
      <3>3. CASE q = p /\ pc[q] = "idle"
        BY <1>1, <2>4, <3>3
           DEF LocalInv, TypeOK, Start, Step, CheckFile, ReadFile, ScanManifest,
               AcquireLock, Refuse, InsertFile, RemoveFile, MoveFile, TagFile,
               ReindexFiles, FileStep, LoadManifest, LoadManifestFails,
               SaveManifest, BeginRotation, RewrapFile, RewrapFails,
               RotateManifest, RotateManifestFails, RotateAudit, CommitRotation,
               Rederive, AppendAudit, Crash, CrashInWrite, Pending
      <3> QED
        BY <1>1, <3>1, <3>2, <3>3, OthersUnchanged
    <2> QED
      BY <1>1, <2>1, <2>2, <2>3, <2>4, ManifestSteps, MasterSteps
  <1>2. CASE UNCHANGED vars
    BY <1>2 DEF KeyInv, vars, disk, locals
  <1> QED
    BY <1>1, <1>2 DEF Next

\* A rotation past the manifest works with the key of master.json.
LEMMA NextNoStaleCommit ==
  /\ TypeOK /\ LockInv /\ LocalInv /\ FreshInv /\ KeyInv /\ NoStaleCommit
  /\ [Next]_vars
  => NoStaleCommit'
  <1> SUFFICES ASSUME TypeOK, LockInv, LocalInv, FreshInv, KeyInv, NoStaleCommit,
                      [Next]_vars,
                      NEW q \in Procs, pc'[q] \in {"rotateAudit", "commit"}
               PROVE  key'[q] = master'
    BY DEF NoStaleCommit
  <1>1. ASSUME NEW p \in Procs, p # q,
               Start(p) \/ Step(p) \/ Crash(p) \/ CrashInWrite(p)
        PROVE  key'[q] = master'
    <2>1. pc[q] \in {"rotateAudit", "commit"} /\ key'[q] = key[q]
      BY <1>1, OthersUnchanged
    <2>2. ~CommitRotation(p)
      BY <1>1, <2>1 DEF CommitRotation, LockInv, Critical
    <2> QED
      BY <1>1, <2>1, <2>2, MasterSteps DEF NoStaleCommit
  <1>2. CASE Start(q) \/ Step(q) \/ Crash(q) \/ CrashInWrite(q)
    <2>1. BeginRotation(q) \/ RewrapFile(q) \/ RotateManifest(q) \/ RotateAudit(q)
      BY <1>2, RotatingSteps DEF Rotating
    <2>2. CASE BeginRotation(q) \/ RewrapFile(q)
      BY <2>2 DEF TypeOK, BeginRotation, RewrapFile, Goto
    <2>3. CASE RotateManifest(q)
      BY <2>3 DEF RotateManifest, FreshInv, KeyInv, ManifestOpens, locals
    <2>4. CASE RotateAudit(q)
      BY <2>4 DEF RotateAudit, NoStaleCommit, locals
    <2> QED
      BY <2>1, <2>2, <2>3, <2>4
  <1>3. CASE UNCHANGED vars
    BY <1>3 DEF NoStaleCommit, vars, disk, locals
  <1> QED
    BY <1>1, <1>2, <1>3 DEF Next

\* The manifest is under the key of master.json or of the rotation under way,
\* unless a rotation was abandoned.
LEMMA NextManifestInv ==
  /\ TypeOK /\ LockInv /\ LocalInv /\ NoLostUpdate /\ RewrapInv /\ FreshInv
  /\ KeyInv /\ ManifestInv /\ [Next]_vars
  => ManifestInv'
  <1> DEFINE Between(q) == pc[q] \in {"rotateAudit", "commit"}
  <1> SUFFICES ASSUME TypeOK, LockInv, LocalInv, NoLostUpdate, RewrapInv,
                      FreshInv, KeyInv, ManifestInv, [Next]_vars,
                      "abandonedRotation" \notin mishaps'
               PROVE  \/ ManifestOpens(manifest', master')
                      \/ \E q \in Procs : Between(q)'
    BY DEF ManifestInv, ManifestOpens
  <1>1. ASSUME NEW p \in Procs,
               Start(p) \/ Step(p) \/ Crash(p) \/ CrashInWrite(p)
        PROVE  ManifestOpens(manifest', master') \/ \E q \in Procs : Between(q)'
    <2>1. CASE SaveManifest(p)
      BY <2>1, WrittenManifest DEF SaveManifest, NoLostUpdate, KeyInv, ManifestOpens
    <2>2. CASE RotateManifest(p)
      BY <2>2 DEF TypeOK, RotateManifest, Goto
    <2>3. CASE CommitRotation(p)
      BY <2>3 DEF CommitRotation, RewrapInv, ManifestOpens
    <2>4. CASE manifest' = manifest /\ master' = master
      <3>1. "abandonedRotation" \notin mishaps
        BY <1>1, MasterSteps
      <3>2. CASE ManifestOpens(manifest, master)
        BY <2>4, <3>2
      <3>3. ASSUME NEW q \in Procs, Between(q), ~Between(q)'
            PROVE  ManifestOpens(manifest', master')
        <4>1. q = p
          BY <1>1, <3>3, OthersUnchanged
        <4>2. pc'[p] \notin Rotating
          BY <1>1, <3>3, <4>1, RotatingSteps
             DEF TypeOK, Rotating, BeginRotation, RewrapFile, RotateManifest,
                 RotateAudit, Goto
        <4>3. Underway(p)
          BY <3>3, <4>1 DEF RewrapInv, LocalInv, Rotating, Underway
        <4>4. CommitRotation(p)
          BY <1>1, <3>3, <4>1, <4>2, <4>3, RotationEnds DEF Rotating
        <4> QED
          BY <4>4, <2>3, <2>4 DEF CommitRotation, RewrapInv, ManifestOpens
      <3> QED
        BY <3>1, <3>2, <3>3 DEF ManifestInv
    <2> QED
      BY <1>1, <2>1, <2>2, <2>3, <2>4, ManifestSteps, MasterSteps
  <1>2. CASE UNCHANGED vars
    BY <1>2 DEF ManifestInv, ManifestOpens, vars, disk, locals, ghosts
  <1> QED
    BY <1>1, <1>2 DEF Next

-----------------------------------------------------------------------------
(* The theorems *)

\* The inductive invariant holds of a vault just initialized.
LEMMA InitIInv == Init => IInv
  <1> SUFFICES ASSUME Init PROVE IInv
    OBVIOUS
  <1>1. TypeOK
    BY InitTypeOK
  <1>2. \A p \in Procs : pc[p] = "idle" /\ todo[p] = {} /\ newKey[p] = None
                         /\ key[p] = None /\ lock # p
    BY VaultAssumption DEF Init
  <1> QED
    BY <1>1, <1>2, VaultAssumption
       DEF Init, IInv, LockInv, LocalInv, NoLostUpdate, RewrapInv, SecretsInv,
           ManifestInv, FreshInv, KeyInv, NoStaleCommit, Critical, Rotating,
           ManifestOpens, Files

\* The inductive invariant holds in every reachable state, with any number of
\* processes, names and keys, and however many of them are killed.
THEOREM Invariance == Spec => []IInv
  <1>1. IInv /\ [Next]_vars => IInv'
    BY NextTypeOK, NextLockInv, NextLocalInv, NextNoLostUpdate, NextRewrapInv,
       NextSecretsInv, NextManifestInv, NextFreshInv, NextKeyInv,
       NextNoStaleCommit
       DEF IInv
  <1> QED
    BY InitIInv, <1>1, PTL DEF Spec

\* Every variable keeps its type.
THEOREM TypeCorrect == Spec => []TypeOK
  BY Invariance, PTL DEF IInv

\* The vault lock serializes manifest updates: none is lost.
THEOREM UpdatesAreNotLost == Spec => []NoLostUpdate
  BY Invariance, PTL DEF IInv

\* A secret opens with the key of master.json or of the rotation visiting it,
\* unless a stale write or an abandoned rotation happened.
THEOREM SecretsStayOpen == Spec => []SecretsOpen
  <1>1. IInv => SecretsOpen
    BY DEF IInv, SecretsInv, SecretsOpen, RewrapInv, LockInv, Critical, Rotating,
           Files
  <1> QED
    BY Invariance, <1>1, PTL

\* Between commands the manifest opens with the key of master.json, unless a
\* rotation was abandoned: no stale process ever writes it.
THEOREM ManifestStaysReadable == Spec => []ManifestReadable
  <1>1. IInv => ManifestReadable
    BY VaultAssumption
       DEF IInv, ManifestInv, ManifestReadable, ManifestOpens, LockInv, Critical
  <1> QED
    BY Invariance, <1>1, PTL

\* A rotation commits only when nothing is left under the old key.
THEOREM CommitsAreComplete == Spec => []CommitIsComplete
  <1>1. IInv => CommitIsComplete
    BY DEF IInv, RewrapInv, LocalInv, CommitIsComplete, Rotating
  <1> QED
    BY Invariance, <1>1, PTL

\* A rotation that resolved its key before another one committed never commits.
THEOREM StaleRotationsStop == Spec => []NoStaleCommit
  BY Invariance, PTL DEF IInv

-----------------------------------------------------------------------------
(* The index *)

\* An index lists exactly the files that are there.
Agrees(index, files) == \A n \in Names : files[n] = None <=> index[n] = None

\* The two sets of files are there for the same names.
SameNames(files, others) == \A n \in Names : files[n] = None <=> others[n] = None

\* What a process between its file change and its manifest save will save
\* agrees with the files; nobody else leaves the manifest behind them.
IndexInv ==
    /\ \A p \in Procs : Changing(p) =>
          call[p].op \in {"insert", "rm", "mv", "tag", "reindex"}
    /\ "tornUpdate" \notin mishaps =>
          /\ (\A p \in Procs : ~Changing(p)) => Agrees(SavedIndex, store)
          /\ \A p \in Procs : Changing(p) =>
                /\ Agrees(Updated(call[p], SavedIndex, store), store)
                /\ call[p].op \in {"tag", "reindex"} => Agrees(SavedIndex, store)

\* A set of tags is not "no entry".
LEMMA TagsOfListed ==
    ASSUME NEW ix \in Index, NEW n \in Names
    PROVE  TagsOf(ix, n) # None /\ TagsOf(ix, n) \in SUBSET Tags
BY VaultAssumption DEF Index, TagsOf

\* A command's index looks only at which files are there.
LEMMA UpdatedSees ==
    ASSUME NEW c, NEW ix, NEW files, NEW others, SameNames(files, others)
    PROVE  Updated(c, ix, files) = Updated(c, ix, others)
BY DEF SameNames, Updated, Reindexed

\* Only one process at a time is between its file change and its save.
LEMMA OneChanging ==
    ASSUME LockInv, NEW p \in Procs, Changing(p)
    PROVE  lock = p /\ \A q \in Procs : Changing(q) => q = p
BY DEF LockInv, Changing, Critical

\* A process that had changed files ends without saving the manifest.
Leaves(p) ==
    /\ Changing(p) /\ ~Changing(p)' /\ pc'[p] = "idle"
    /\ mishaps' = mishaps \cup Wreckage(p)
    /\ \A n \in Names : store'[n] = store[n]
    /\ SavedIndex' = SavedIndex

\* A process does nothing that users see of the files and the index.
Quiet(p) ==
    /\ ~Changing(p) /\ ~Changing(p)'
    /\ "tornUpdate" \in mishaps' <=> "tornUpdate" \in mishaps
    /\ \A n \in Names : /\ store'[n] = None <=> store[n] = None
                        /\ store[n] # None => store'[n].val = store[n].val
    /\ SavedIndex' = SavedIndex

\* The steps that matter to the index.
LEMMA IndexSteps ==
    ASSUME TypeOK, LocalInv, NEW p \in Procs,
           Start(p) \/ Step(p) \/ Crash(p) \/ CrashInWrite(p)
    PROVE  \/ InsertFile(p) \/ RemoveFile(p) \/ MoveFile(p)
           \/ TagFile(p) \/ ReindexFiles(p)
           \/ LoadManifest(p) \/ SaveManifest(p)
           \/ Leaves(p) \/ Quiet(p)
<1> DEFINE Ends == /\ mishaps' = mishaps \cup Wreckage(p)
                   /\ \A n \in Names : store'[n] = store[n]
                   /\ manifest' = manifest /\ pc'[p] = "idle"
<1>1. ASSUME Ends PROVE Leaves(p) \/ Quiet(p)
  BY <1>1 DEF Leaves, Quiet, Changing, SavedIndex, Wreckage, IndexIn
<1>2. ASSUME Crash(p) \/ LoadManifestFails(p) \/ RewrapFails(p) \/ RotateManifestFails(p)
             \/ CrashInWrite(p)
      PROVE  Leaves(p) \/ Quiet(p)
  <2>1. Ends
    BY <1>2, VaultAssumption
       DEF TypeOK, Crash, LoadManifestFails, RewrapFails, RotateManifestFails, CrashInWrite,
           Recording, End, Goto, Files, disk
  <2> QED
    BY <1>1, <2>1
<1>3. ASSUME RewrapFile(p) PROVE Quiet(p)
  <2> PICK f \in todo[p] : store' = [store EXCEPT ![f].key = newKey[p]]
    BY <1>3 DEF RewrapFile
  <2>1. store[f] \in Blob /\ newKey[p] \in MasterKeys \cup {None}
    BY DEF TypeOK, LocalInv
  <2>2. [store[f] EXCEPT !.key = newKey[p]] \in Blob
        /\ [store[f] EXCEPT !.key = newKey[p]].val = store[f].val
    BY <2>1 DEF Blob
  <2>3. \A n \in Names : /\ store'[n] = None <=> store[n] = None
                         /\ store[n] # None => store'[n].val = store[n].val
    BY <2>1, <2>2, VaultAssumption DEF TypeOK, Files
  <2> QED
    BY <1>3, <2>3 DEF RewrapFile, Quiet, Changing, SavedIndex, IndexIn, ghosts
<1>4. ASSUME RotateManifest(p) PROVE Quiet(p)
  <2>1. manifest' # None /\ manifest'.index = IndexIn(manifest)
    BY <1>4, WrittenManifest DEF RotateManifest
  <2>2. store' = store /\ mishaps' = mishaps
    BY <1>4 DEF RotateManifest, ghosts
  <2>3. ~Changing(p) /\ ~Changing(p)'
    BY <1>4 DEF RotateManifest, TypeOK, Changing, Goto
  <2>4. SavedIndex' = SavedIndex
    BY <2>1 DEF SavedIndex, IndexIn
  <2> QED
    BY <2>2, <2>3, <2>4 DEF Quiet
<1>5. ASSUME Start(p) \/ CheckFile(p) \/ ReadFile(p) \/ ScanManifest(p) \/ AcquireLock(p)
             \/ Refuse(p) \/ BeginRotation(p) \/ RotateAudit(p) \/ CommitRotation(p)
             \/ Rederive(p) \/ AppendAudit(p)
      PROVE  Quiet(p)
  <2>1. store' = store /\ manifest' = manifest /\ mishaps' = mishaps
    BY <1>5 DEF Start, CheckFile, ReadFile, ScanManifest, AcquireLock, Refuse,
                BeginRotation, RotateAudit, CommitRotation, Rederive, AppendAudit,
                disk, ghosts
  <2>2. pc[p] \notin {"load", "save"} /\ pc'[p] \notin {"load", "save"}
    BY <1>5 DEF TypeOK, Start, CheckFile, ReadFile, ScanManifest, AcquireLock, Refuse,
                BeginRotation, RotateAudit, CommitRotation, Rederive, AppendAudit,
                FirstStage, End, Goto
  <2> QED
    BY <2>1, <2>2 DEF Quiet, Changing, SavedIndex, IndexIn
<1> QED
  BY <1>2, <1>3, <1>4, <1>5, Zenon DEF Step

-----------------------------------------------------------------------------
(* The index lists what is stored *)

\* What each file change leaves agrees with the index it promises.
LEMMA FileStepAgrees ==
    ASSUME TypeOK, NEW p \in Procs, NEW ix \in Index, Agrees(ix, store),
           InsertFile(p) \/ RemoveFile(p) \/ MoveFile(p) \/ TagFile(p) \/ ReindexFiles(p)
    PROVE  /\ Agrees(Updated(call[p], ix, store'), store')
           /\ call[p].op \in {"tag", "reindex"} => Agrees(ix, store')
<1>1. call[p] \in Command
  BY DEF TypeOK, InsertFile, RemoveFile, MoveFile, TagFile, ReindexFiles, FileStep
<1>2. call[p].name \in Names /\ call[p].target \in Names /\ call[p].tags \in SUBSET Tags
  BY <1>1 DEF Command
<1>3. TagsOf(ix, call[p].name) # None /\ call[p].tags # None
  BY <1>2, TagsOfListed, VaultAssumption
<1>4. Names \subseteq Files
  BY DEF Files
<1>5. CASE InsertFile(p)
  <2>1. [key |-> key[p], val |-> call[p].val] # None
    BY <1>1, <1>5, VaultAssumption DEF TypeOK, InsertFile, FileStep, Blob, Command
  <2> QED
    BY <1>2, <1>3, <1>4, <1>5, <2>1
       DEF InsertFile, FileStep, Updated, Agrees, TypeOK, Index
<1>6. CASE RemoveFile(p)
  BY <1>2, <1>4, <1>6 DEF RemoveFile, FileStep, Updated, Agrees, TypeOK, Index
<1>7. CASE MoveFile(p)
  <2>1. store[call[p].name] # None
    BY <1>7 DEF MoveFile, FileStep, Refused
  <2> QED
    BY <1>2, <1>3, <1>4, <1>7, <2>1
       DEF MoveFile, FileStep, Updated, Agrees, TypeOK, Index
<1>8. CASE TagFile(p)
  <2>1. store[call[p].name] # None
    BY <1>8 DEF TagFile, FileStep, Refused
  <2> QED
    BY <1>2, <1>3, <1>4, <1>8, <2>1
       DEF TagFile, FileStep, Updated, Agrees, TypeOK, Index
<1>9. CASE ReindexFiles(p)
  BY <1>9 DEF ReindexFiles, FileStep, Updated, Reindexed, Agrees
<1> QED
  BY <1>5, <1>6, <1>7, <1>8, <1>9

\* A file change belongs to the process that holds the lock, so nobody else is
\* between its own file change and its save.
LEMMA FileStepAlone ==
    ASSUME TypeOK, LockInv, NEW p \in Procs,
           InsertFile(p) \/ RemoveFile(p) \/ MoveFile(p) \/ TagFile(p) \/ ReindexFiles(p)
    PROVE  /\ \A q \in Procs : ~Changing(q)
           /\ \A q \in Procs : Changing(q)' <=> q = p
           /\ SavedIndex' = SavedIndex /\ manifest' = manifest
           /\ call' = call
           /\ call[p].op \in {"insert", "rm", "mv", "tag", "reindex"}
<1>1. /\ pc[p] = "locked" /\ pc' = [pc EXCEPT ![p] = "load"]
      /\ manifest' = manifest /\ call' = call
      /\ call[p].op \in {"insert", "rm", "mv", "tag", "reindex"}
  BY DEF InsertFile, RemoveFile, MoveFile, TagFile, ReindexFiles, FileStep, Goto, locals
<1>2. lock = p
  BY <1>1 DEF LockInv, Critical
<1>3. \A q \in Procs : ~Changing(q)
  BY <1>1, <1>2 DEF LockInv, Critical, Changing
<1> QED
  BY <1>1, <1>3 DEF TypeOK, Changing, SavedIndex, IndexIn

\* A save leaves in the manifest what was promised when the files changed.
LEMMA SavedIsUpdated ==
    ASSUME TypeOK, LocalInv, NoLostUpdate, NEW p \in Procs, SaveManifest(p)
    PROVE  SavedIndex' = Updated(call[p], SavedIndex, store)
<1>1. loaded[p] = SavedIndex
  BY DEF SaveManifest, NoLostUpdate, SavedIndex
<1>2. manifest' # None
  BY WrittenManifest
<1>3. manifest'.index = Updated(call[p], SavedIndex, store)
  BY <1>1 DEF SaveManifest
<1> QED
  BY <1>2, <1>3 DEF SavedIndex, IndexIn

\* Every step keeps the index invariant.
LEMMA NextIndexInv ==
    TypeOK /\ LockInv /\ LocalInv /\ NoLostUpdate /\ IndexInv /\ [Next]_vars => IndexInv'
<1> SUFFICES ASSUME TypeOK, LockInv, LocalInv, NoLostUpdate, IndexInv, [Next]_vars
             PROVE  IndexInv'
  OBVIOUS
<1>0. SavedIndex \in Index
  BY IndexInType DEF TypeOK, SavedIndex
<1>1. ASSUME NEW p \in Procs, Start(p) \/ Step(p) \/ Crash(p) \/ CrashInWrite(p)
      PROVE  IndexInv'
  <2>1. CASE InsertFile(p) \/ RemoveFile(p) \/ MoveFile(p) \/ TagFile(p) \/ ReindexFiles(p)
    <3>1. /\ \A q \in Procs : ~Changing(q)
          /\ \A q \in Procs : Changing(q)' <=> q = p
          /\ SavedIndex' = SavedIndex /\ call' = call
          /\ call[p].op \in {"insert", "rm", "mv", "tag", "reindex"}
      BY <2>1, FileStepAlone
    <3>2. "tornUpdate" \notin mishaps' => "tornUpdate" \notin mishaps
      BY <2>1 DEF InsertFile, RemoveFile, MoveFile, TagFile, ReindexFiles, Recording
    <3>3. Agrees(SavedIndex, store) =>
            /\ Agrees(Updated(call[p], SavedIndex, store'), store')
            /\ call[p].op \in {"tag", "reindex"} => Agrees(SavedIndex, store')
      BY <1>0, <2>1, FileStepAgrees
    <3>4. "tornUpdate" \notin mishaps' => Agrees(SavedIndex, store)
      BY <3>1, <3>2 DEF IndexInv
    <3> QED
      BY <3>1, <3>3, <3>4 DEF IndexInv
  <2>2. CASE LoadManifest(p)
    <3>1. /\ Changing(p) /\ store' = store /\ manifest' = manifest /\ call' = call
          /\ mishaps' = mishaps
          /\ \A q \in Procs \ {p} : ~Changing(q) /\ ~Changing(q)'
      BY <1>1, <2>2, OneChanging, OthersUnchanged
         DEF LoadManifest, Changing, disk, ghosts
    <3>2. SavedIndex' = SavedIndex
      BY <3>1 DEF SavedIndex, IndexIn
    <3>3. CASE Changing(p)'
      BY <3>1, <3>2, <3>3 DEF IndexInv
    <3>4. CASE ~Changing(p)'
      <4>1. call[p].op = "rm" /\ SavedIndex[call[p].name] = None
        BY <2>2, <3>4 DEF LoadManifest, TypeOK, Goto, Changing, SavedIndex
      <4>2. Updated(call[p], SavedIndex, store) = SavedIndex
        BY <1>0, <4>1 DEF Updated, Index
      <4> QED
        BY <3>1, <3>2, <3>4, <4>2 DEF IndexInv
    <3> QED
      BY <3>3, <3>4
  <2>3. CASE SaveManifest(p)
    <3>1. /\ Changing(p) /\ ~Changing(p)' /\ store' = store /\ mishaps' = mishaps
          /\ \A q \in Procs \ {p} : ~Changing(q) /\ ~Changing(q)'
      BY <1>1, <2>3, OneChanging, OthersUnchanged
         DEF SaveManifest, TypeOK, Goto, Changing, ghosts
    <3>2. SavedIndex' = Updated(call[p], SavedIndex, store)
      BY <2>3, SavedIsUpdated
    <3> QED
      BY <3>1, <3>2 DEF IndexInv
  <2>4. CASE Leaves(p)
    <3>1. \A q \in Procs : ~Changing(q)'
      BY <1>1, <2>4, OneChanging, OthersUnchanged DEF Leaves, Changing
    <3>2. ASSUME "tornUpdate" \notin mishaps' PROVE Agrees(SavedIndex, store)
      <4>1. "tornUpdate" \notin mishaps /\ call[p].op \in {"tag", "reindex"}
        BY <2>4, <3>2 DEF IndexInv, Leaves, Wreckage, Mishaps, Changing
      <4> QED
        BY <2>4, <4>1 DEF IndexInv, Leaves
    <3> QED
      BY <2>4, <3>1, <3>2 DEF IndexInv, Leaves, Agrees
  <2>5. CASE Quiet(p)
    <3>1. \A q \in Procs : /\ Changing(q)' <=> Changing(q)
                           /\ Changing(q) => call'[q] = call[q]
      BY <1>1, <2>5, OthersUnchanged DEF Quiet, Changing
    <3>2. SameNames(store, store') /\ SavedIndex' = SavedIndex
      BY <2>5 DEF Quiet, SameNames
    <3>3. \A ix : Agrees(ix, store) => Agrees(ix, store')
      BY <3>2 DEF Agrees, SameNames
    <3>4. \A c : Updated(c, SavedIndex, store') = Updated(c, SavedIndex, store)
      BY <3>2, UpdatedSees
    <3>5. "tornUpdate" \in mishaps' <=> "tornUpdate" \in mishaps
      BY <2>5 DEF Quiet
    <3> QED
      BY <3>1, <3>2, <3>3, <3>4, <3>5 DEF IndexInv
  <2> QED
    BY <1>1, <2>1, <2>2, <2>3, <2>4, <2>5, IndexSteps
<1>2. CASE UNCHANGED vars
  BY <1>2 DEF IndexInv, Changing, SavedIndex, vars, disk, locals, ghosts
<1> QED
  BY <1>1, <1>2 DEF Next

\* A vault just initialized lists nothing and stores nothing.
LEMMA InitIndexInv == Init => IndexInv
BY DEF Init, IndexInv, Changing, Agrees, SavedIndex, IndexIn, EmptyIndex, Files

\* The index invariant holds in every reachable state.
LEMMA IndexInvariance == Spec => []IndexInv
<1>1. IInv /\ IndexInv /\ [Next]_vars => IndexInv'
  BY NextIndexInv DEF IInv
<1> QED
  BY InitIndexInv, Invariance, <1>1, PTL DEF Spec

\* Between commands the manifest lists exactly the secrets in store/, unless a
\* command changed a file and never got to save the manifest.
THEOREM IndexMatches == Spec => []IndexMatchesStore
<1>1. IInv /\ IndexInv => IndexMatchesStore
  BY VaultAssumption
     DEF IInv, LockInv, IndexInv, IndexMatchesStore, Changing, Critical, Agrees, SavedIndex
<1> QED
  BY Invariance, IndexInvariance, <1>1, PTL

-----------------------------------------------------------------------------
(* Only --force replaces a value *)

\* What a step does to the value of a name.
LEMMA ValueSteps ==
    ASSUME TypeOK, LockInv, LocalInv, NEW p \in Procs,
           Start(p) \/ Step(p) \/ Crash(p) \/ CrashInWrite(p),
           NEW n \in Names, store[n] # None, store'[n] # None, store'[n].val # store[n].val
    PROVE  /\ lock = p /\ call[p].force
           /\ \/ call[p].op = "insert" /\ call[p].name = n
              \/ call[p].op = "mv" /\ call[p].target = n
<1>1. lock = p
  BY OnlyHolderWrites
<1>2. CASE InsertFile(p)
  BY <1>1, <1>2 DEF InsertFile, FileStep, Refused, TypeOK, Files, Command
<1>3. CASE MoveFile(p)
  BY <1>1, <1>3 DEF MoveFile, FileStep, Refused, TypeOK, Files, Command
<1>4. CASE RemoveFile(p)
  BY <1>4 DEF RemoveFile, TypeOK, Files
<1>5. CASE Leaves(p) \/ Quiet(p)
  BY <1>5 DEF Leaves, Quiet
<1>6. CASE TagFile(p) \/ ReindexFiles(p) \/ LoadManifest(p) \/ SaveManifest(p)
  BY <1>6 DEF TagFile, ReindexFiles, LoadManifest, SaveManifest, disk
<1> QED
  BY <1>2, <1>3, <1>4, <1>5, <1>6, IndexSteps

\* A stored value is only ever replaced by the lock holder, and only when its
\* user said --force for that very name: whatever other commands, rotations and
\* crashes do in between.
THEOREM ForceAloneReplaces == Spec => OnlyForceReplaces
<1> DEFINE Forced == \A n \in Names :
                       store[n] # None /\ store'[n] # None /\ store'[n].val # store[n].val =>
                         \E p \in Procs :
                            /\ lock = p /\ call[p].force
                            /\ \/ call[p].op = "insert" /\ call[p].name = n
                               \/ call[p].op = "mv" /\ call[p].target = n
<1>1. IInv /\ [Next]_vars => [Forced]_vars
  <2> SUFFICES ASSUME IInv, Next PROVE Forced
    OBVIOUS
  <2> PICK p \in Procs : Start(p) \/ Step(p) \/ Crash(p) \/ CrashInWrite(p)
    BY DEF Next
  <2> QED
    BY ValueSteps DEF IInv
<1> QED
  BY Invariance, <1>1, PTL DEF Spec, OnlyForceReplaces

-----------------------------------------------------------------------------
(* The refinement *)

\* What the vault holds, as SecretIndex sees it.
Content == [n \in Names |-> ContentOf(n)]

\* What is promised is what is saved, when nobody is in between.
LEMMA NothingPromised ==
    /\ (\A p \in Procs : ~Changing(p)) => PromisedIndex = SavedIndex
    /\ (\A p \in Procs : ~Changing(p)') => PromisedIndex' = SavedIndex'
BY DEF PromisedIndex

\* What is promised is what the process in between will save.
LEMMA PromisedByOne ==
    ASSUME NEW p \in Procs
    PROVE  /\ (\A q \in Procs : Changing(q) <=> q = p)
                => PromisedIndex = Updated(call[p], SavedIndex, store)
           /\ (\A q \in Procs : Changing(q)' <=> q = p)
                => PromisedIndex' = Updated(call'[p], SavedIndex', store')
<1>1. ASSUME \A q \in Procs : Changing(q) <=> q = p
      PROVE  PromisedIndex = Updated(call[p], SavedIndex, store)
  <2>1. (CHOOSE q \in Procs : Changing(q)) = p
    BY <1>1
  <2> QED
    BY <1>1, <2>1 DEF PromisedIndex
<1>2. ASSUME \A q \in Procs : Changing(q)' <=> q = p
      PROVE  PromisedIndex' = Updated(call'[p], SavedIndex', store')
  <2>1. (CHOOSE q \in Procs : Changing(q)') = p
    BY <1>2
  <2> QED
    BY <1>2, <2>1 DEF PromisedIndex
<1> QED
  BY <1>1, <1>2

\* Every stored secret has a value: torn files have temporary names.
ValuesInv == \A n \in Names : store[n] # None => store[n].val \in Values

\* Every step keeps a value in every stored secret.
LEMMA NextValuesInv == TypeOK /\ LocalInv /\ ValuesInv /\ [Next]_vars => ValuesInv'
<1> SUFFICES ASSUME TypeOK, LocalInv, ValuesInv, [Next]_vars PROVE ValuesInv'
  OBVIOUS
<1>1. ASSUME NEW p \in Procs, Start(p) \/ Step(p) \/ Crash(p) \/ CrashInWrite(p)
      PROVE  ValuesInv'
  <2>1. CASE InsertFile(p)
    BY <2>1 DEF InsertFile, FileStep, TypeOK, Command, ValuesInv, Files
  <2>2. CASE RemoveFile(p)
    BY <2>2 DEF RemoveFile, FileStep, TypeOK, ValuesInv, Files
  <2>3. CASE MoveFile(p)
    BY <2>3 DEF MoveFile, FileStep, Refused, TypeOK, Command, ValuesInv, Files
  <2>4. CASE Leaves(p) \/ Quiet(p)
    BY <2>4 DEF Leaves, Quiet, ValuesInv
  <2>5. CASE TagFile(p) \/ ReindexFiles(p) \/ LoadManifest(p) \/ SaveManifest(p)
    BY <2>5 DEF TagFile, ReindexFiles, LoadManifest, SaveManifest, disk, ValuesInv
  <2> QED
    BY <1>1, <2>1, <2>2, <2>3, <2>4, <2>5, IndexSteps
<1>2. CASE UNCHANGED vars
  BY <1>2 DEF ValuesInv, vars, disk
<1> QED
  BY <1>1, <1>2 DEF Next

\* It has one in every reachable state.
LEMMA ValuesInvariance == Spec => []ValuesInv
<1>1. Init => ValuesInv
  BY DEF Init, ValuesInv, Files
<1>2. IInv /\ ValuesInv /\ [Next]_vars => ValuesInv'
  BY NextValuesInv DEF IInv
<1> QED
  BY <1>1, <1>2, Invariance, PTL DEF Spec

\* An initialized vault is an empty index.
LEMMA InitRefines == Init => Abstract!Init
<1> SUFFICES ASSUME Init PROVE Abstract!Init
  OBVIOUS
<1>1. SavedIndex = EmptyIndex /\ PromisedIndex = SavedIndex
  BY NothingPromised DEF Init, Changing, SavedIndex, IndexIn, EmptyIndex
<1>2. Content = [n \in Names |-> None]
  BY DEF Content, ContentOf, Init, Files
<1>3. "tornUpdate" \notin mishaps
  BY DEF Init
<1> QED
  BY <1>1, <1>2, <1>3 DEF Abstract!Init, Content, EmptyIndex

\* A file change is the abstract command of the same name.
LEMMA FileStepRefines ==
    ASSUME TypeOK, LockInv, ValuesInv, NEW p \in Procs,
           InsertFile(p) \/ RemoveFile(p) \/ MoveFile(p) \/ TagFile(p) \/ ReindexFiles(p)
    PROVE  Abstract!Next
<1> DEFINE n == call[p].name
           m == call[p].target
<1>1. /\ PromisedIndex = SavedIndex /\ SavedIndex' = SavedIndex
      /\ PromisedIndex' = Updated(call[p], SavedIndex, store')
  BY FileStepAlone, NothingPromised, PromisedByOne
<1>2. call[p] \in Command /\ n \in Names /\ m \in Names
  BY DEF TypeOK, InsertFile, RemoveFile, MoveFile, TagFile, ReindexFiles, FileStep, Command
<1>3. UNCHANGED <<SavedIndex, "tornUpdate" \in mishaps>>
  <2>1. ("tornUpdate" \in mishaps)' = ("tornUpdate" \in mishaps)
    BY DEF InsertFile, RemoveFile, MoveFile, TagFile, ReindexFiles, Recording
  <2> QED
    BY <1>1, <2>1
<1>4. SavedIndex \in Index /\ Names \subseteq Files
  BY IndexInType DEF TypeOK, SavedIndex, Files
<1>5. Abstract!Tagged(n) = TagsOf(SavedIndex, n)
  BY <1>1 DEF Abstract!Tagged, TagsOf
<1>6. ASSUME InsertFile(p) PROVE Abstract!Put(n)
  <2>1. call[p].val \in Values /\ [key |-> key[p], val |-> call[p].val] # None
    BY <1>2, <1>6, VaultAssumption DEF TypeOK, InsertFile, FileStep, Blob, Command
  <2>2. Content' = [Content EXCEPT ![n] = call[p].val]
    BY <1>2, <1>4, <1>6, <2>1 DEF InsertFile, TypeOK, Content, ContentOf
  <2>3. PromisedIndex' = [PromisedIndex EXCEPT ![n] = Abstract!Tagged(n)]
    BY <1>1, <1>5, <1>6 DEF InsertFile, FileStep, Updated
  <2>4. Abstract!Change([Content EXCEPT ![n] = call[p].val],
                        [PromisedIndex EXCEPT ![n] = Abstract!Tagged(n)])
    BY <1>1, <1>3, <2>2, <2>3, Zenon DEF Abstract!Change, Content
  <2> QED
    BY <2>1, <2>4, Zenon DEF Abstract!Put, Content
<1>7. ASSUME RemoveFile(p) PROVE Abstract!Remove(n)
  <2>1. Content[n] # None
    BY <1>2, <1>7, VaultAssumption
       DEF RemoveFile, FileStep, Refused, ValuesInv, Content, ContentOf
  <2>2. Content' = [Content EXCEPT ![n] = None]
    BY <1>2, <1>4, <1>7 DEF RemoveFile, TypeOK, Content, ContentOf
  <2>3. PromisedIndex' = [PromisedIndex EXCEPT ![n] = None]
    BY <1>1, <1>7 DEF RemoveFile, FileStep, Updated
  <2>4. Abstract!Change([Content EXCEPT ![n] = None], [PromisedIndex EXCEPT ![n] = None])
    BY <1>1, <1>3, <2>2, <2>3, Zenon DEF Abstract!Change, Content
  <2> QED
    BY <2>1, <2>4, Zenon DEF Abstract!Remove, Content
<1>8. ASSUME MoveFile(p) PROVE Abstract!Move(n, m)
  <2>1. store[n] # None /\ Content[n] # None
    BY <1>2, <1>8, VaultAssumption
       DEF MoveFile, FileStep, Refused, ValuesInv, Content, ContentOf
  <2>2. Content' = [Content EXCEPT ![n] = None, ![m] = Content[n]]
    BY <1>2, <1>4, <1>8, <2>1 DEF MoveFile, TypeOK, Content, ContentOf
  <2>3. PromisedIndex' = [PromisedIndex EXCEPT ![n] = None, ![m] = Abstract!Tagged(n)]
    BY <1>1, <1>5, <1>8 DEF MoveFile, FileStep, Updated
  <2>4. Abstract!Change([Content EXCEPT ![n] = None, ![m] = Content[n]],
                        [PromisedIndex EXCEPT ![n] = None, ![m] = Abstract!Tagged(n)])
    BY <1>1, <1>3, <2>2, <2>3, Zenon DEF Abstract!Change, Content
  <2> QED
    BY <2>1, <2>4, Zenon DEF Abstract!Move, Content
<1>9. ASSUME TagFile(p) PROVE Abstract!SetTags(n)
  <2>1. Content[n] # None /\ call[p].tags \in SUBSET Tags
    BY <1>2, <1>9, VaultAssumption
       DEF TagFile, FileStep, Refused, ValuesInv, Content, ContentOf, Command
  <2>2. Content' = Content
    BY <1>9 DEF TagFile, Content, ContentOf
  <2>3. PromisedIndex' = [PromisedIndex EXCEPT ![n] = call[p].tags]
    BY <1>1, <1>9 DEF TagFile, FileStep, Updated
  <2>4. Abstract!Change(Content, [PromisedIndex EXCEPT ![n] = call[p].tags])
    BY <1>1, <1>3, <2>2, <2>3, Zenon DEF Abstract!Change, Content
  <2> QED
    BY <2>1, <2>4, Zenon DEF Abstract!SetTags, Content
<1>10. ASSUME ReindexFiles(p) PROVE Abstract!Reindex
  <2> DEFINE kept == [k \in Names |-> IF Content[k] = None THEN None ELSE PromisedIndex[k]]
  <2>1. Content' = Content
    BY <1>10 DEF ReindexFiles, Content, ContentOf
  <2>2. \A k \in Names : Content[k] = None <=> store[k] = None
    BY VaultAssumption DEF ValuesInv, Content, ContentOf
  <2>3. PromisedIndex' = Reindexed(SavedIndex, store)
    BY <1>1, <1>10 DEF ReindexFiles, FileStep, Updated
  <2>4. PromisedIndex' = kept
    BY <1>1, <2>2, <2>3 DEF Reindexed
  <2>5. Abstract!Change(Content, kept)
    BY <1>1, <1>3, <2>1, <2>4, Zenon DEF Abstract!Change, Content
  <2> QED
    BY <2>5, Zenon DEF Abstract!Reindex, Content
<1> QED
  BY <1>2, <1>6, <1>7, <1>8, <1>9, <1>10 DEF Abstract!Next

\* The load and the save of one process: what it promised becomes what is
\* saved, and only then.
LEMMA LoadAndSaveRefine ==
    ASSUME TypeOK, LockInv, LocalInv, NoLostUpdate, NEW p \in Procs
    PROVE  /\ SaveManifest(p) => Abstract!Save
           /\ LoadManifest(p) => UNCHANGED Abstract!vars
<1>1. ASSUME SaveManifest(p) PROVE Abstract!Save
  <2>1. Changing(p) /\ Step(p)
    BY <1>1 DEF SaveManifest, Changing, Step
  <2>2. \A q \in Procs : (Changing(q) <=> q = p) /\ ~Changing(q)'
    BY <1>1, <2>1, OneChanging, OthersUnchanged DEF SaveManifest, TypeOK, Goto, Changing
  <2>3. SavedIndex' = PromisedIndex /\ PromisedIndex' = PromisedIndex
    BY <1>1, <2>2, SavedIsUpdated, NothingPromised, PromisedByOne
  <2>4. Content' = Content /\ UNCHANGED ("tornUpdate" \in mishaps)
    BY <1>1 DEF SaveManifest, Content, ContentOf, ghosts
  <2> QED
    BY <2>3, <2>4, Zenon DEF Abstract!Save, Content
<1>2. ASSUME LoadManifest(p) PROVE UNCHANGED Abstract!vars
  <2>1. /\ Changing(p) /\ Step(p) /\ store' = store /\ manifest' = manifest
        /\ call' = call /\ mishaps' = mishaps
    BY <1>2 DEF LoadManifest, Changing, Step, disk, ghosts
  <2>2. \A q \in Procs : Changing(q) <=> q = p
    BY <2>1, OneChanging
  <2>3. \A q \in Procs : q # p => ~Changing(q)'
    BY <2>1, <2>2, OthersUnchanged DEF Changing
  <2>4. SavedIndex' = SavedIndex
    BY <2>1 DEF SavedIndex, IndexIn
  <2>5. PromisedIndex = Updated(call[p], SavedIndex, store)
    BY <2>2, PromisedByOne
  <2>6. PromisedIndex' = PromisedIndex
    <3>1. CASE Changing(p)'
      BY <2>1, <2>3, <2>4, <2>5, <3>1, PromisedByOne
    <3>2. CASE ~Changing(p)'
      <4>1. call[p].op = "rm" /\ SavedIndex[call[p].name] = None
        BY <1>2, <3>2 DEF LoadManifest, TypeOK, Goto, Changing, SavedIndex
      <4>2. SavedIndex \in Index
        BY IndexInType DEF TypeOK, SavedIndex
      <4>3. Updated(call[p], SavedIndex, store) = SavedIndex
        BY <4>1, <4>2 DEF Updated, Index
      <4> QED
        BY <2>3, <2>4, <2>5, <3>2, <4>3, NothingPromised
    <3> QED
      BY <3>1, <3>2
  <2>7. Content' = Content /\ UNCHANGED ("tornUpdate" \in mishaps)
    BY <2>1 DEF Content, ContentOf
  <2> QED
    BY <2>4, <2>6, <2>7, Zenon DEF Abstract!vars, Content
<1> QED
  BY <1>1, <1>2

\* A process that ends before its save lapses; what no user sees is a stutter.
LEMMA EndsAndTheRestRefine ==
    ASSUME TypeOK, LockInv, LocalInv, IndexInv, ValuesInv, NEW p \in Procs,
           Start(p) \/ Step(p) \/ Crash(p) \/ CrashInWrite(p)
    PROVE  /\ Leaves(p) => Abstract!Lapse
           /\ Quiet(p) => UNCHANGED Abstract!vars
<1>1. ASSUME Leaves(p) PROVE Abstract!Lapse
  <2>1. \A q \in Procs : ~Changing(q)'
    BY <1>1, OneChanging, OthersUnchanged DEF Leaves, Changing
  <2>2. PromisedIndex' = SavedIndex /\ SavedIndex' = SavedIndex
    BY <1>1, <2>1, NothingPromised DEF Leaves
  <2>3. Content' = Content
    BY <1>1 DEF Leaves, Content, ContentOf
  <2>4. ("tornUpdate" \in mishaps)' \in {"tornUpdate" \in mishaps, TRUE}
    <3>1. "tornUpdate" \in mishaps => "tornUpdate" \in mishaps'
      BY <1>1 DEF Leaves
    <3>2. CASE "tornUpdate" \in mishaps'
      <4>1. ("tornUpdate" \in mishaps)' = TRUE
        BY <3>2
      <4> QED
        BY <4>1, Zenon
    <3>3. CASE "tornUpdate" \notin mishaps'
      <4>1. ("tornUpdate" \in mishaps)' = ("tornUpdate" \in mishaps)
        BY <3>1, <3>3
      <4> QED
        BY <4>1, Zenon
    <3> QED
      BY <3>2, <3>3
  <2>5. ASSUME "tornUpdate" \notin mishaps' PROVE Agrees(SavedIndex, store)
    <3>1. "tornUpdate" \notin mishaps /\ call[p].op \in {"tag", "reindex"}
      BY <1>1, <2>5 DEF IndexInv, Leaves, Wreckage, Mishaps, Changing
    <3> QED
      BY <1>1, <3>1 DEF IndexInv, Leaves
  <2>6. Agrees(SavedIndex, store) => Abstract!Listing(SavedIndex, Content)
    BY VaultAssumption DEF Agrees, Abstract!Listing, ValuesInv, Content, ContentOf
  <2>7. ("tornUpdate" \in mishaps)' \/ Abstract!Listing(SavedIndex, Content)
    BY <2>5, <2>6
  <2> QED
    BY <2>2, <2>3, <2>4, <2>7, Zenon DEF Abstract!Lapse, Content
<1>2. ASSUME Quiet(p) PROVE UNCHANGED Abstract!vars
  <2>1. SavedIndex' = SavedIndex /\ SameNames(store', store)
    BY <1>2 DEF Quiet, SameNames
  <2>2. \A q \in Procs : (Changing(q)' <=> Changing(q)) /\ (Changing(q) => call'[q] = call[q])
    BY <1>2, OthersUnchanged DEF Quiet, Changing
  <2>3. PromisedIndex' = PromisedIndex
    <3>1. CASE \E q \in Procs : Changing(q)
      <4> PICK q \in Procs : Changing(q)
        BY <3>1
      <4>1. \A r \in Procs : (Changing(r) <=> r = q) /\ (Changing(r)' <=> r = q)
        BY <2>2, OneChanging
      <4>2. /\ PromisedIndex = Updated(call[q], SavedIndex, store)
            /\ PromisedIndex' = Updated(call[q], SavedIndex, store')
        BY <2>1, <2>2, <4>1, PromisedByOne
      <4> QED
        BY <2>1, <4>2, UpdatedSees
    <3>2. CASE \A q \in Procs : ~Changing(q)
      BY <2>1, <2>2, <3>2, NothingPromised
    <3> QED
      BY <3>1, <3>2
  <2>4. Content' = Content
    BY <1>2 DEF Quiet, Content, ContentOf
  <2>5. UNCHANGED ("tornUpdate" \in mishaps)
    BY <1>2 DEF Quiet
  <2> QED
    BY <2>1, <2>3, <2>4, <2>5, Zenon DEF Abstract!vars, Content
<1> QED
  BY <1>1, <1>2

\* The vault implements SecretIndex: commands are atomic and serial for their
\* users, rotations change nothing a user stored, and a command that is cut
\* short loses at most its own index update.
THEOREM VaultImplementsSecretIndex == Spec => ImplementsSecretIndex
<1>1. IInv /\ IndexInv /\ ValuesInv /\ [Next]_vars => [Abstract!Next]_(Abstract!vars)
  <2> SUFFICES ASSUME IInv, IndexInv, ValuesInv, [Next]_vars
               PROVE  Abstract!Next \/ UNCHANGED Abstract!vars
    OBVIOUS
  <2>1. ASSUME NEW p \in Procs, Start(p) \/ Step(p) \/ Crash(p) \/ CrashInWrite(p)
        PROVE  Abstract!Next \/ UNCHANGED Abstract!vars
    <3>1. Abstract!Save \/ Abstract!Lapse => Abstract!Next
      BY DEF Abstract!Next
    <3> QED
      BY <2>1, <3>1, IndexSteps, FileStepRefines, LoadAndSaveRefine, EndsAndTheRestRefine
         DEF IInv
  <2>2. CASE UNCHANGED vars
    BY <2>2 DEF vars, disk, locals, ghosts, Abstract!vars, PromisedIndex, Changing,
                SavedIndex, ContentOf
  <2> QED
    BY <2>1, <2>2 DEF Next
<1> QED
  BY InitRefines, Invariance, IndexInvariance, ValuesInvariance, <1>1, PTL
     DEF Spec, ImplementsSecretIndex, Abstract!Spec

\* The vault has what SecretIndex promises: no sequence of commands brings what
\* users see of the index and of the contents apart, as long as none lapsed.
THEOREM IndexStaysExact == Spec => []Abstract!IndexIsExact
<1>1. IInv /\ IndexInv /\ ValuesInv => Abstract!IndexIsExact
  <2> SUFFICES ASSUME IInv, IndexInv, ValuesInv, "tornUpdate" \notin mishaps
               PROVE  Abstract!Listing(PromisedIndex, [n \in Names |-> ContentOf(n)])
    BY DEF Abstract!IndexIsExact
  <2>1. Agrees(PromisedIndex, store)
    <3>1. CASE \A p \in Procs : ~Changing(p)
      BY <3>1, NothingPromised DEF IndexInv
    <3>2. ASSUME NEW p \in Procs, Changing(p) PROVE Agrees(PromisedIndex, store)
      <4>1. \A q \in Procs : Changing(q) <=> q = p
        BY <3>2, OneChanging DEF IInv
      <4> QED  BY <3>2, <4>1, PromisedByOne DEF IndexInv
    <3> QED  BY <3>1, <3>2
  <2>2. \A n \in Names : ContentOf(n) = None <=> store[n] = None
    BY VaultAssumption DEF ContentOf, ValuesInv
  <2> QED  BY <2>1, <2>2 DEF Agrees, Abstract!Listing
<1> QED
  BY Invariance, IndexInvariance, ValuesInvariance, <1>1, PTL

-----------------------------------------------------------------------------
(* Power losses.  Between two of them the vault takes the steps of Vault.tla, *)
(* so that the lemmas above carry every part of the invariant that a loss     *)
(* itself keeps; that a secret opens (SecretsInv) is not one of them.         *)

\* The states of store/ on the disk are states of store/.
UnsyncedType == unsynced \subseteq [Files -> Blob \cup {None}]

\* What a power loss leaves of the inductive invariant of the vault.
PowerInv ==
    /\ TypeOK /\ LockInv /\ LocalInv
    /\ NoLostUpdate /\ RewrapInv
    /\ ManifestInv /\ FreshInv /\ KeyInv /\ NoStaleCommit
    /\ UnsyncedType

\* A stage tells the command.
OpInv ==
    \A p \in Procs :
        /\ pc[p] \in Rotating => call[p].op = "rotate"
        /\ Changing(p) => call[p].op \in {"insert", "rm", "mv", "tag", "reindex"}

\* No file is or can come back under a key that has not been drawn.
DrawnInv ==
    \A s \in unsynced \cup {store}, f \in Files :
        s[f] # None => s[f].key \in drawn \cup {None}

\* After a loss nobody is at anything, and the disk holds what it held.
LEMMA AfterLoss ==
    ASSUME PowerLoss
    PROVE  /\ \A p \in Procs : /\ pc'[p] = "idle" /\ call'[p] = None /\ key'[p] = None
                               /\ newKey'[p] = None /\ todo'[p] = {} /\ loaded'[p] = None
           /\ lock' = None /\ store' \in unsynced /\ unsynced' = {store'} /\ suspect'
           /\ UNCHANGED <<master, manifest, audit, drawn, started, crashes>>
           /\ mishaps' = mishaps \cup UNION {Wreckage(p) : p \in Procs}
BY DEF PowerLoss, Recording

\* The work of a process is a step of the vault.
LEMMA WorkIsNext ==
    ASSUME NEW p \in Procs, Work(p)
    PROVE  /\ Start(p) \/ Step(p) \/ Crash(p) \/ CrashInWrite(p)
           /\ Next
BY DEF Work, Next

\* The states store/ may be left in are old ones or the one just reached.
LEMMA TrackedStates ==
    ASSUME NEW p \in Procs, Track(p)
    PROVE  /\ unsynced' \subseteq unsynced \cup {store'}
           /\ store' = store => unsynced' = unsynced
           /\ store' # store /\ Synced(p) => unsynced' = {store'}
BY DEF Track

\* The steps that write store/.
LEMMA StoreSteps ==
    ASSUME NEW p \in Procs, store' # store,
           Start(p) \/ Step(p) \/ Crash(p) \/ CrashInWrite(p)
    PROVE  \/ InsertFile(p) \/ RemoveFile(p) \/ MoveFile(p)
           \/ RewrapFile(p) \/ CrashInWrite(p)
BY DEF Start, Step, CheckFile, ReadFile, ScanManifest, AcquireLock, Refuse,
       TagFile, ReindexFiles, LoadManifest, LoadManifestFails, SaveManifest,
       BeginRotation, RewrapFails, RotateManifest, RotateManifestFails,
       RotateAudit, CommitRotation, Rederive, AppendAudit, Crash, disk

\* A loss keeps what is left of the invariant: the locals go, and a rotation it
\* interrupts between the manifest and master.json is recorded as abandoned.
LEMMA LossPowerInv == PowerInv /\ PowerLoss => PowerInv'
<1> SUFFICES ASSUME PowerInv, PowerLoss PROVE PowerInv'
  OBVIOUS
<1>1. TypeOK'
  <2>1. store' \in [Files -> Blob \cup {None}]
    BY DEF PowerInv, UnsyncedType, PowerLoss
  <2>2. mishaps' \in SUBSET Mishaps
    BY AfterLoss DEF PowerInv, TypeOK, Wreckage
  <2> QED
    BY <2>1, <2>2 DEF PowerInv, TypeOK, PowerLoss, Stages
<1>2. LockInv' /\ LocalInv' /\ NoLostUpdate' /\ RewrapInv' /\ KeyInv' /\ NoStaleCommit'
  BY AfterLoss, VaultAssumption
     DEF LockInv, LocalInv, NoLostUpdate, RewrapInv, KeyInv, NoStaleCommit,
         Critical, Rotating
<1>3. FreshInv'
  BY AfterLoss DEF PowerInv, FreshInv, Rotating
<1>4. ManifestInv'
  <2> SUFFICES ASSUME "abandonedRotation" \notin mishaps'
               PROVE  ManifestOpens(manifest', master')
    BY DEF ManifestInv, ManifestOpens
  <2>1. ASSUME NEW p \in Procs, pc[p] \in {"rotateAudit", "commit"} PROVE FALSE
    <3>1. Underway(p)
      BY <2>1 DEF PowerInv, RewrapInv, LocalInv, Rotating, Underway
    <3>2. "abandonedRotation" \in Wreckage(p)
      BY <2>1, <3>1 DEF Wreckage, Mishaps
    <3> QED
      BY <3>2, AfterLoss
  <2>2. "abandonedRotation" \notin mishaps
    BY AfterLoss
  <2> QED
    BY <2>1, <2>2, AfterLoss DEF PowerInv, ManifestInv, ManifestOpens
<1>5. UnsyncedType'
  BY <1>1, AfterLoss DEF UnsyncedType, TypeOK
<1> QED
  BY <1>1, <1>2, <1>3, <1>4, <1>5 DEF PowerInv

\* Every step keeps it.
LEMMA NextPowerInv == PowerInv /\ [PowerNext]_powerVars => PowerInv'
<1> SUFFICES ASSUME PowerInv, [PowerNext]_powerVars PROVE PowerInv'
  OBVIOUS
<1>1. ASSUME [Next]_vars, UnsyncedType' PROVE PowerInv'
  BY <1>1, NextTypeOK, NextLockInv, NextLocalInv, NextNoLostUpdate, NextRewrapInv,
     NextManifestInv, NextFreshInv, NextKeyInv, NextNoStaleCommit
     DEF PowerInv
<1>2. ASSUME NEW p \in Procs, Work(p) PROVE PowerInv'
  <2>1. Next /\ TypeOK'
    BY <1>2, WorkIsNext, NextTypeOK DEF PowerInv
  <2>2. UnsyncedType'
    BY <1>2, <2>1, TrackedStates DEF Work, PowerInv, UnsyncedType, TypeOK
  <2> QED
    BY <1>1, <2>1, <2>2
<1>3. CASE UNCHANGED powerVars
  BY <1>1, <1>3 DEF powerVars, PowerInv, UnsyncedType
<1> QED
  BY <1>2, <1>3, LossPowerInv DEF PowerNext

\* It holds in every state a disk that loses power can reach.
LEMMA PowerInvariance == PowerSpec => []PowerInv
<1>1. PowerInit => PowerInv
  <2> SUFFICES ASSUME PowerInit PROVE PowerInv
    OBVIOUS
  <2>1. IInv
    BY InitIInv DEF PowerInit
  <2> QED
    BY <2>1 DEF PowerInit, PowerInv, IInv, UnsyncedType, TypeOK
<1> QED
  BY <1>1, NextPowerInv, PTL DEF PowerSpec

\* No power loss makes two updates of the manifest overlap.
THEOREM PowerLosesNoUpdate == PowerSpec => []NoLostUpdate
BY PowerInvariance, PTL DEF PowerInv

\* Nor does one make a rotation commit that has left something under the old
\* key on the disk as it is, or that started from a key no longer current.
THEOREM PowerLossSparesCommits == PowerSpec => [](CommitIsComplete /\ NoStaleCommit)
<1>1. PowerInv => CommitIsComplete /\ NoStaleCommit
  BY DEF PowerInv, RewrapInv, LocalInv, CommitIsComplete, Rotating
<1> QED
  BY PowerInvariance, <1>1, PTL

-----------------------------------------------------------------------------
(* No power loss takes a value with it *)

\* The stages of a rotation and of a change keep their commands.
LEMMA NextOpInv ==
  TypeOK /\ LocalInv /\ OpInv /\ [PowerNext]_powerVars => OpInv'
<1> SUFFICES ASSUME TypeOK, LocalInv, OpInv, [PowerNext]_powerVars PROVE OpInv'
  OBVIOUS
<1>1. ASSUME NEW p \in Procs, Work(p) PROVE OpInv'
  <2> DEFINE Ok(q) == /\ pc[q] \in Rotating => call[q].op = "rotate"
                      /\ Changing(q) => call[q].op \in {"insert", "rm", "mv", "tag", "reindex"}
  <2>1. Start(p) \/ Step(p) \/ Crash(p) \/ CrashInWrite(p)
    BY <1>1, WorkIsNext
  <2>2. ASSUME NEW q \in Procs, q # p PROVE Ok(q)'
    BY <2>1, <2>2, OthersUnchanged DEF OpInv, Changing
  <2>3. pc'[p] \in Rotating => call'[p].op = "rotate"
    BY <2>1, RotatingSteps
       DEF OpInv, Rotating, BeginRotation, RewrapFile, RotateManifest, RotateAudit, locals
  <2>4. Changing(p)' => call'[p].op \in {"insert", "rm", "mv", "tag", "reindex"}
    <3>1. CASE InsertFile(p) \/ RemoveFile(p) \/ MoveFile(p) \/ TagFile(p) \/ ReindexFiles(p)
      BY <3>1 DEF InsertFile, RemoveFile, MoveFile, TagFile, ReindexFiles, FileStep, locals
    <3>2. CASE LoadManifest(p)
      BY <3>2 DEF LoadManifest, OpInv, Changing
    <3>3. CASE SaveManifest(p)
      BY <3>3 DEF SaveManifest, TypeOK, Goto, Changing
    <3>4. CASE Leaves(p) \/ Quiet(p)
      BY <3>4 DEF Leaves, Quiet
    <3> QED
      BY <2>1, <3>1, <3>2, <3>3, <3>4, IndexSteps
  <2> QED
    BY <2>2, <2>3, <2>4 DEF OpInv, Changing
<1>2. CASE PowerLoss
  BY <1>2, AfterLoss DEF OpInv, Rotating, Changing
<1>3. CASE UNCHANGED powerVars
  BY <1>3 DEF powerVars, vars, locals, OpInv, Changing
<1> QED
  BY <1>1, <1>2, <1>3 DEF PowerNext

\* They have them in every reachable state.
LEMMA OpInvariance == PowerSpec => []OpInv
<1>1. PowerInit => OpInv
  BY DEF PowerInit, Init, OpInv, Rotating, Changing
<1>2. PowerInv /\ OpInv /\ [PowerNext]_powerVars => OpInv'
  BY NextOpInv DEF PowerInv
<1> QED
  BY <1>1, <1>2, PowerInvariance, PTL DEF PowerSpec

\* A change of store/ that is not synced takes no value out of it but what rm
\* was told to: what is there after it was there before.
LEMMA UnsyncedChange ==
    ASSUME TypeOK, LocalInv, OpInv, NEW p \in Procs, store' # store, ~Synced(p),
           Start(p) \/ Step(p) \/ Crash(p) \/ CrashInWrite(p),
           NEW n \in Names, store'[n] # None
    PROVE  \E m \in Names : store[m] # None /\ store'[n] = store[m]
<1>1. Names \subseteq Files /\ Names \cap Temps = {}
  BY VaultAssumption DEF Files
<1>2. ~InsertFile(p)
  BY DEF InsertFile, FileStep, TypeOK, Goto, Synced
<1>3. ~RewrapFile(p)
  BY DEF RewrapFile, OpInv, Rotating, Synced
<1>4. CASE RemoveFile(p)
  BY <1>1, <1>4 DEF RemoveFile, TypeOK
<1>5. CASE MoveFile(p)
  <2>1. call[p].name \in Names /\ call[p].target \in Names
    BY <1>5 DEF MoveFile, FileStep, TypeOK, Command
  <2>2. store[call[p].name] # None
    BY <1>5 DEF MoveFile, FileStep, Refused
  <2> QED
    BY <1>1, <1>5, <2>1, <2>2 DEF MoveFile, TypeOK
<1>6. CASE CrashInWrite(p)
  BY <1>1, <1>6 DEF CrashInWrite, TypeOK
<1> QED
  BY <1>2, <1>3, <1>4, <1>5, <1>6, StoreSteps

\* Every step leaves each stored value in every state store/ may go back to.
LEMMA NextNothingToLose ==
  TypeOK /\ LocalInv /\ OpInv /\ NothingToLose /\ [PowerNext]_powerVars => NothingToLose'
<1> SUFFICES ASSUME TypeOK, LocalInv, OpInv, NothingToLose, [PowerNext]_powerVars,
                    NEW s \in unsynced', NEW n \in Names, store'[n] # None
             PROVE  \E m \in Names : s[m] = store'[n]
  BY DEF NothingToLose
<1>1. ASSUME s = store' PROVE \E m \in Names : s[m] = store'[n]
  BY <1>1
<1>2. ASSUME NEW p \in Procs, Work(p) PROVE \E m \in Names : s[m] = store'[n]
  <2>1. Track(p) /\ (Start(p) \/ Step(p) \/ Crash(p) \/ CrashInWrite(p))
    BY <1>2 DEF Work
  <2>2. CASE store' = store
    BY <2>1, <2>2, TrackedStates DEF NothingToLose
  <2>3. CASE store' # store /\ Synced(p)
    BY <1>1, <2>1, <2>3, TrackedStates
  <2>4. CASE store' # store /\ ~Synced(p) /\ s \in unsynced
    BY <2>1, <2>4, UnsyncedChange DEF NothingToLose
  <2> QED
    BY <1>1, <2>1, <2>2, <2>3, <2>4, TrackedStates
<1>3. CASE PowerLoss
  BY <1>1, <1>3, AfterLoss
<1>4. CASE UNCHANGED powerVars
  BY <1>4 DEF powerVars, vars, disk, NothingToLose
<1> QED
  BY <1>2, <1>3, <1>4 DEF PowerNext

\* A stored secret survives every power loss with its value and its key, at most
\* under the name it had before a rename: a rename nobody synced is undone as a
\* whole, and nothing else that is not synced moves or replaces a file.
THEOREM PowerLossKeepsValues == PowerSpec => []NothingToLose
<1>1. PowerInit => NothingToLose
  BY DEF PowerInit, NothingToLose
<1>2. PowerInv /\ OpInv /\ NothingToLose /\ [PowerNext]_powerVars => NothingToLose'
  BY NextNothingToLose DEF PowerInv
<1> QED
  BY <1>1, <1>2, PowerInvariance, OpInvariance, PTL DEF PowerSpec

-----------------------------------------------------------------------------
(* A reindex repairs *)

\* What an index lists is there.
Covers(files, ix) == \A n \in Names : ix[n] # None => files[n] # None

\* As long as no loss and no torn update came between the index and store/,
\* what is listed, or will be once the process in between saves, is there.
CoverInv ==
    ~suspect =>
        /\ (\A p \in Procs : ~Changing(p)) => Covers(store, SavedIndex)
        /\ \A p \in Procs : Changing(p) =>
              /\ Covers(store, Updated(call[p], SavedIndex, store))
              /\ call[p].op \in {"tag", "reindex"} => Covers(store, SavedIndex)

\* What each file change leaves is enough for the index it promises.
LEMMA FileStepCovers ==
    ASSUME TypeOK, NEW p \in Procs, NEW ix \in Index, Covers(store, ix),
           InsertFile(p) \/ RemoveFile(p) \/ MoveFile(p) \/ TagFile(p) \/ ReindexFiles(p)
    PROVE  /\ Covers(store', Updated(call[p], ix, store'))
           /\ call[p].op \in {"tag", "reindex"} => Covers(store', ix)
<1>1. call[p] \in Command
  BY DEF TypeOK, InsertFile, RemoveFile, MoveFile, TagFile, ReindexFiles, FileStep
<1>2. /\ call[p].name \in Names /\ call[p].target \in Names
      /\ Names \subseteq Files
  BY <1>1 DEF Command, Files
<1>3. CASE InsertFile(p)
  <2>1. [key |-> key[p], val |-> call[p].val] # None
    BY <1>1, <1>3, VaultAssumption DEF TypeOK, InsertFile, FileStep, Blob, Command
  <2> QED
    BY <1>2, <1>3, <2>1 DEF InsertFile, FileStep, Updated, Covers, TypeOK, Index
<1>4. CASE RemoveFile(p)
  BY <1>2, <1>4 DEF RemoveFile, FileStep, Updated, Covers, TypeOK, Index
<1>5. CASE MoveFile(p)
  <2>1. store[call[p].name] # None
    BY <1>5 DEF MoveFile, FileStep, Refused
  <2> QED
    BY <1>2, <1>5, <2>1 DEF MoveFile, FileStep, Updated, Covers, TypeOK, Index
<1>6. CASE TagFile(p)
  <2>1. store[call[p].name] # None
    BY <1>6 DEF TagFile, FileStep, Refused
  <2> QED
    BY <1>2, <1>6, <2>1 DEF TagFile, FileStep, Updated, Covers, TypeOK, Index
<1>7. CASE ReindexFiles(p)
  BY <1>7 DEF ReindexFiles, FileStep, Updated, Reindexed, Covers
<1> QED
  BY <1>3, <1>4, <1>5, <1>6, <1>7

\* What a reindex saves is covered, whatever the index it read.
LEMMA ReindexCovers ==
    ASSUME NEW c, NEW ix, NEW files, c.op = "reindex"
    PROVE  Covers(files, Updated(c, ix, files))
BY DEF Covers, Updated, Reindexed

\* Every step keeps the index covered.
LEMMA NextCoverInv ==
  /\ TypeOK /\ LockInv /\ LocalInv /\ NoLostUpdate /\ OpInv /\ CoverInv
  /\ [PowerNext]_powerVars
  => CoverInv'
<1> SUFFICES ASSUME TypeOK, LockInv, LocalInv, NoLostUpdate, OpInv, CoverInv,
                    [PowerNext]_powerVars, ~suspect'
             PROVE  CoverInv'
  BY DEF CoverInv
<1>0. SavedIndex \in Index
  BY IndexInType DEF TypeOK, SavedIndex
<1>1. ASSUME NEW p \in Procs, Work(p) PROVE CoverInv'
  <2>0. /\ Start(p) \/ Step(p) \/ Crash(p) \/ CrashInWrite(p)
        /\ ~TornBy(p) /\ (~suspect \/ RepairedBy(p))
    BY <1>1 DEF Work
  <2>1. CASE InsertFile(p) \/ RemoveFile(p) \/ MoveFile(p) \/ TagFile(p) \/ ReindexFiles(p)
    <3>1. /\ \A q \in Procs : ~Changing(q)
          /\ \A q \in Procs : Changing(q)' <=> q = p
          /\ SavedIndex' = SavedIndex /\ call' = call
      BY <2>1, FileStepAlone
    <3>2. Covers(store, SavedIndex)
      BY <2>0, <3>1 DEF CoverInv, RepairedBy, Changing
    <3>3. /\ Covers(store', Updated(call[p], SavedIndex, store'))
          /\ call[p].op \in {"tag", "reindex"} => Covers(store', SavedIndex)
      BY <1>0, <2>1, <3>2, FileStepCovers
    <3> QED
      BY <3>1, <3>3 DEF CoverInv
  <2>2. CASE LoadManifest(p)
    <3>1. /\ Changing(p) /\ store' = store /\ manifest' = manifest /\ call' = call
          /\ \A q \in Procs \ {p} : ~Changing(q) /\ ~Changing(q)'
          /\ ~suspect
      BY <2>0, <2>2, OneChanging, OthersUnchanged
         DEF LoadManifest, Changing, RepairedBy, disk
    <3>2. SavedIndex' = SavedIndex
      BY <3>1 DEF SavedIndex, IndexIn
    <3>3. CASE Changing(p)'
      BY <3>1, <3>2, <3>3 DEF CoverInv
    <3>4. CASE ~Changing(p)'
      <4>1. call[p].op = "rm" /\ SavedIndex[call[p].name] = None
        BY <2>2, <3>4 DEF LoadManifest, TypeOK, Goto, Changing, SavedIndex
      <4>2. Updated(call[p], SavedIndex, store) = SavedIndex
        BY <1>0, <4>1 DEF Updated, Index
      <4> QED
        BY <3>1, <3>2, <3>4, <4>2 DEF CoverInv
    <3> QED
      BY <3>3, <3>4
  <2>3. CASE SaveManifest(p)
    <3>1. /\ Changing(p) /\ ~Changing(p)' /\ store' = store
          /\ \A q \in Procs \ {p} : ~Changing(q) /\ ~Changing(q)'
      BY <2>0, <2>3, OneChanging, OthersUnchanged
         DEF SaveManifest, TypeOK, Goto, Changing
    <3>2. SavedIndex' = Updated(call[p], SavedIndex, store)
      BY <2>3, SavedIsUpdated
    <3>3. Covers(store, Updated(call[p], SavedIndex, store))
      BY <2>0, <3>1, ReindexCovers DEF CoverInv, RepairedBy
    <3> QED
      BY <3>1, <3>2, <3>3 DEF CoverInv
  <2>4. CASE Leaves(p)
    <3>1. \A q \in Procs : ~Changing(q)'
      BY <2>0, <2>4, OneChanging, OthersUnchanged DEF Leaves, Changing
    <3>2. ~suspect /\ call[p].op \in {"tag", "reindex"}
      BY <2>0, <2>4 DEF Leaves, TornBy, RepairedBy, OpInv
    <3> QED
      BY <2>4, <3>1, <3>2 DEF CoverInv, Leaves, Covers
  <2>5. CASE Quiet(p)
    <3>1. \A q \in Procs : /\ Changing(q)' <=> Changing(q)
                           /\ Changing(q) => call'[q] = call[q]
      BY <2>0, <2>5, OthersUnchanged DEF Quiet, Changing
    <3>2. SameNames(store, store') /\ SavedIndex' = SavedIndex /\ ~suspect
      BY <2>0, <2>5 DEF Quiet, SameNames, RepairedBy, Changing
    <3>3. \A ix : Covers(store, ix) => Covers(store', ix)
      BY <3>2 DEF Covers, SameNames
    <3>4. \A c : Updated(c, SavedIndex, store') = Updated(c, SavedIndex, store)
      BY <3>2, UpdatedSees
    <3> QED
      BY <3>1, <3>2, <3>3, <3>4 DEF CoverInv
  <2> QED
    BY <2>0, <2>1, <2>2, <2>3, <2>4, <2>5, IndexSteps
<1>2. CASE PowerLoss
  BY <1>2 DEF PowerLoss
<1>3. CASE UNCHANGED powerVars
  BY <1>3 DEF powerVars, vars, disk, locals, CoverInv, Changing, SavedIndex
<1> QED
  BY <1>1, <1>2, <1>3 DEF PowerNext

\* The index is covered in every reachable state.
LEMMA CoverInvariance == PowerSpec => []CoverInv
<1>1. PowerInit => CoverInv
  BY DEF PowerInit, Init, CoverInv, Changing, Covers, SavedIndex, IndexIn, EmptyIndex
<1>2. PowerInv /\ OpInv /\ CoverInv /\ [PowerNext]_powerVars => CoverInv'
  BY NextCoverInv DEF PowerInv
<1> QED
  BY <1>1, <1>2, PowerInvariance, OpInvariance, PTL DEF PowerSpec

\* A reindex repairs what power losses and killed commands did to the index:
\* from then to the next of them, what is listed is there whenever nobody holds
\* the lock.
THEOREM AReindexRepairs == PowerSpec => []ReindexRepairs
<1>1. LockInv /\ CoverInv => ReindexRepairs
  BY VaultAssumption
     DEF LockInv, CoverInv, ReindexRepairs, Changing, Critical, Covers, SavedIndex
<1> QED
  BY <1>1, PowerInvariance, CoverInvariance, PTL DEF PowerInv

-----------------------------------------------------------------------------
(* A committed rotation is durable *)

\* Every step writes only under keys that have been drawn.
LEMMA NextDrawnInv ==
  /\ TypeOK /\ LocalInv /\ FreshInv /\ UnsyncedType /\ DrawnInv /\ [PowerNext]_powerVars
  => DrawnInv'
<1> SUFFICES ASSUME TypeOK, LocalInv, FreshInv, UnsyncedType, DrawnInv,
                    [PowerNext]_powerVars
             PROVE  DrawnInv'
  OBVIOUS
<1>1. ASSUME NEW p \in Procs, Work(p) PROVE DrawnInv'
  <2>1. Track(p) /\ (Start(p) \/ Step(p) \/ Crash(p) \/ CrashInWrite(p))
    BY <1>1 DEF Work
  <2>2. drawn \subseteq drawn'
    BY <2>1, NewKeySteps DEF BeginRotation
  <2>3. ASSUME NEW f \in Files, store'[f] # None
        PROVE  store'[f].key \in drawn' \cup {None}
    <3>1. CASE store' = store
      BY <2>2, <2>3, <3>1 DEF DrawnInv
    <3>2. CASE InsertFile(p)
      BY <2>2, <2>3, <3>2 DEF InsertFile, FileStep, TypeOK, DrawnInv, FreshInv
    <3>3. CASE RemoveFile(p)
      BY <2>2, <2>3, <3>3 DEF RemoveFile, TypeOK, DrawnInv
    <3>4. CASE MoveFile(p)
      <4>1. call[p].name \in Files
        BY <3>4 DEF MoveFile, FileStep, TypeOK, Command, Files
      <4> QED
        BY <2>2, <2>3, <3>4, <4>1 DEF MoveFile, TypeOK, DrawnInv
    <3>5. CASE RewrapFile(p)
      <4> PICK g \in todo[p] : store' = [store EXCEPT ![g].key = newKey[p]]
        BY <3>5 DEF RewrapFile
      <4>1. store[g] \in Blob /\ g \in Files /\ newKey[p] \in drawn
        BY <3>5 DEF TypeOK, LocalInv, FreshInv, RewrapFile, Rotating
      <4>2. f = g => store'[f].key = newKey[p]
        BY <4>1 DEF TypeOK, Blob
      <4>3. f # g => store'[f] = store[f]
        BY DEF TypeOK
      <4> QED
        BY <2>2, <2>3, <4>1, <4>2, <4>3 DEF DrawnInv
    <3>6. CASE CrashInWrite(p)
      <4> PICK t \in Temps, b \in Pending(p) \cup {Torn} :
                  store' = [store EXCEPT ![t] = b]
        BY <3>6 DEF CrashInWrite
      <4>1. b.key \in drawn \cup {None}
        <5>1. CASE b = Torn
          BY <5>1 DEF Torn
        <5>2. CASE pc[p] = "locked" /\ call[p].op = "insert" /\ ~Refused(call[p])
          BY <5>1, <5>2 DEF Pending, FreshInv
        <5>3. ASSUME NEW g \in todo[p], b = [store[g] EXCEPT !.key = newKey[p]]
              PROVE  b.key \in drawn \cup {None}
          <6>1. store[g] \in Blob
            BY DEF TypeOK, LocalInv
          <6> QED
            BY <5>3, <6>1 DEF Blob, FreshInv
        <5> QED
          BY <5>1, <5>2, <5>3 DEF Pending
      <4> QED
        BY <2>2, <2>3, <4>1 DEF TypeOK, DrawnInv
    <3> QED
      BY <2>1, <3>1, <3>2, <3>3, <3>4, <3>5, <3>6, StoreSteps
  <2> QED
    BY <2>1, <2>2, <2>3, TrackedStates DEF DrawnInv
<1>2. CASE PowerLoss
  BY <1>2, AfterLoss DEF DrawnInv
<1>3. CASE UNCHANGED powerVars
  BY <1>3 DEF powerVars, vars, disk, ghosts, DrawnInv
<1> QED
  BY <1>1, <1>2, <1>3 DEF PowerNext

\* No other key is ever found in store/.
LEMMA DrawnInvariance == PowerSpec => []DrawnInv
<1>1. PowerInit => DrawnInv
  BY DEF PowerInit, Init, DrawnInv
<1>2. PowerInv /\ DrawnInv /\ [PowerNext]_powerVars => DrawnInv'
  BY NextDrawnInv DEF PowerInv
<1> QED
  BY <1>1, <1>2, PowerInvariance, PTL DEF PowerSpec

\* While a rotation goes on with index and store/ in step, either nothing but
\* store/ as it is can come back, or nothing is listed, or the rotation has not
\* rewrapped anything yet and has something to rewrap.
SyncInv ==
    \A p \in Procs : pc[p] \in Rotating /\ ~suspect =>
        \/ unsynced = {store}
        \/ \A n \in Names : SavedIndex[n] = None
        \/ todo[p] # {} /\ \A f \in todo[p] : store[f].key # newKey[p]

\* A rotation that starts has every file to visit, under keys drawn before its
\* own, or finds store/ empty and so, as the index is covered, nothing listed.
LEMMA RotationStartsSynced ==
    ASSUME TypeOK, LockInv, CoverInv, DrawnInv, NEW p \in Procs, BeginRotation(p), ~suspect
    PROVE  \/ \A n \in Names : SavedIndex'[n] = None
           \/ todo'[p] # {} /\ \A f \in todo'[p] : store'[f].key # newKey'[p]
<1>1. /\ todo'[p] = StoredFiles /\ newKey'[p] = FreshKey
      /\ store' = store /\ SavedIndex' = SavedIndex
  BY DEF BeginRotation, TypeOK, SavedIndex, IndexIn, disk
<1>2. CASE StoredFiles = {}
  <2>1. \A q \in Procs : ~Changing(q)
    BY DEF BeginRotation, LockInv, Critical, Changing
  <2>2. Covers(store, SavedIndex)
    BY <2>1 DEF CoverInv
  <2> QED
    BY <1>1, <1>2, <2>2 DEF Covers, StoredFiles, Files
<1>3. CASE StoredFiles # {}
  <2>1. FreshKey \notin drawn \cup {None}
    BY FreshKeyType, VaultAssumption DEF BeginRotation
  <2>2. \A f \in StoredFiles : store[f].key \in drawn \cup {None}
    BY DEF DrawnInv, StoredFiles
  <2> QED
    BY <1>1, <1>3, <2>1, <2>2
<1> QED
  BY <1>2, <1>3

\* Rewrapping the first file makes everything before it durable, and rewrapping
\* another keeps it so.
LEMMA RewrapSyncs ==
    ASSUME TypeOK, LocalInv, OpInv, SyncInv, ~suspect, NEW p \in Procs,
           RewrapFile(p), Track(p)
    PROVE  unsynced' = {store'} \/ \A n \in Names : SavedIndex'[n] = None
<1> PICK f \in todo[p] : store' = [store EXCEPT ![f].key = newKey[p]]
  BY DEF RewrapFile
<1>1. store[f] \in Blob /\ f \in Files
  BY DEF TypeOK, LocalInv
<1>2. store'[f].key = newKey[p]
  BY <1>1 DEF TypeOK, Blob
<1>3. Synced(p)
  BY DEF RewrapFile, OpInv, Rotating, Synced
<1>4. store' # store => unsynced' = {store'}
  BY <1>3, TrackedStates
<1>5. CASE unsynced = {store}
  BY <1>4, <1>5, TrackedStates
<1>6. CASE \A n \in Names : SavedIndex[n] = None
  BY <1>6 DEF RewrapFile, SavedIndex, IndexIn
<1>7. CASE \A g \in todo[p] : store[g].key # newKey[p]
  BY <1>2, <1>4, <1>7
<1> QED
  BY <1>5, <1>6, <1>7 DEF SyncInv, RewrapFile, Rotating

\* Every step keeps a rotation in one of its three cases.
LEMMA NextSyncInv ==
  /\ TypeOK /\ LockInv /\ LocalInv /\ OpInv /\ CoverInv /\ DrawnInv /\ SyncInv
  /\ [PowerNext]_powerVars
  => SyncInv'
<1> SUFFICES ASSUME TypeOK, LockInv, LocalInv, OpInv, CoverInv, DrawnInv, SyncInv,
                    [PowerNext]_powerVars,
                    NEW p \in Procs, pc'[p] \in Rotating, ~suspect'
             PROVE  \/ unsynced' = {store'}
                    \/ \A n \in Names : SavedIndex'[n] = None
                    \/ todo'[p] # {} /\ \A f \in todo'[p] : store'[f].key # newKey'[p]
  BY DEF SyncInv
<1>1. ASSUME NEW q \in Procs, q # p, Work(q)
      PROVE  /\ ~suspect /\ pc[p] \in Rotating
             /\ UNCHANGED <<store, unsynced, SavedIndex, todo[p], newKey[p]>>
  <2>1. Track(q) /\ (Start(q) \/ Step(q) \/ Crash(q) \/ CrashInWrite(q))
    BY <1>1 DEF Work
  <2>2. /\ pc'[p] = pc[p] /\ newKey'[p] = newKey[p] /\ todo'[p] = todo[p]
        /\ store' = store /\ manifest' = manifest
    BY <1>1, <2>1, HolderUndisturbed DEF Critical, Rotating
  <2>3. ~RepairedBy(q)
    BY <1>1, <2>2 DEF RepairedBy, LockInv, Critical, Rotating
  <2> QED
    BY <1>1, <2>1, <2>2, <2>3, TrackedStates DEF Work, SavedIndex, IndexIn
<1>2. ASSUME Work(p)
      PROVE  \/ unsynced' = {store'}
             \/ \A n \in Names : SavedIndex'[n] = None
             \/ todo'[p] # {} /\ \A f \in todo'[p] : store'[f].key # newKey'[p]
  <2>1. Track(p) /\ (Start(p) \/ Step(p) \/ Crash(p) \/ CrashInWrite(p))
    BY <1>2 DEF Work
  <2>2. BeginRotation(p) \/ RewrapFile(p) \/ RotateManifest(p) \/ RotateAudit(p)
    BY <2>1, RotatingSteps
  <2>3. ~suspect
    BY <1>2, <2>2
       DEF Work, RepairedBy, BeginRotation, RewrapFile, RotateManifest, RotateAudit
  <2>4. CASE RotateManifest(p) \/ RotateAudit(p)
    <3>1. store' = store /\ unsynced' = unsynced
      BY <2>1, <2>4, TrackedStates DEF RotateManifest, RotateAudit
    <3>2. SavedIndex' = SavedIndex
      <4>1. CASE RotateManifest(p)
        BY <4>1, WrittenManifest DEF RotateManifest, SavedIndex, IndexIn
      <4>2. CASE RotateAudit(p)
        BY <4>2 DEF RotateAudit, SavedIndex, IndexIn
      <4> QED
        BY <2>4, <4>1, <4>2
    <3>3. pc[p] \in Rotating /\ todo[p] = {}
      BY <2>4 DEF RotateManifest, RotateAudit, LocalInv, Rotating
    <3> QED
      BY <2>3, <3>1, <3>2, <3>3 DEF SyncInv
  <2> QED
    BY <2>1, <2>2, <2>3, <2>4, RotationStartsSynced, RewrapSyncs
<1>3. CASE PowerLoss
  BY <1>3 DEF PowerLoss
<1>4. CASE UNCHANGED powerVars
  BY <1>4 DEF powerVars, vars, disk, locals, SyncInv, SavedIndex
<1> QED
  BY <1>1, <1>2, <1>3, <1>4 DEF PowerNext, SyncInv

\* It is in one of them in every reachable state.
LEMMA SyncInvariance == PowerSpec => []SyncInv
<1>1. PowerInit => SyncInv
  BY DEF PowerInit, SyncInv
<1>2. /\ PowerInv /\ OpInv /\ CoverInv /\ DrawnInv /\ SyncInv
      /\ [PowerNext]_powerVars
      => SyncInv'
  BY NextSyncInv DEF PowerInv
<1> QED
  BY <1>1, <1>2, PowerInvariance, OpInvariance, CoverInvariance, DrawnInvariance, PTL
     DEF PowerSpec

\* When a rotation is about to write master.json, no power loss can bring back a
\* listed secret under the old key: with index and store/ in step at its start,
\* it rewrapped something, which synced what came before, or nothing is listed.
THEOREM RotationsAreDurable == PowerSpec => []RotationIsDurable
<1>1. PowerInv /\ SyncInv => RotationIsDurable
  <2> SUFFICES ASSUME PowerInv, SyncInv, NEW p \in Procs, pc[p] = "commit", ~suspect,
                      NEW s \in unsynced, NEW n \in Names,
                      s[n] # None, SavedIndex[n] # None
               PROVE  s[n].key = newKey[p]
    BY DEF RotationIsDurable, SavedIndex
  <2>1. pc[p] \in Rotating /\ todo[p] = {}
    BY DEF PowerInv, LocalInv, Rotating
  <2>2. unsynced = {store}
    BY <2>1 DEF SyncInv
  <2> QED
    BY <2>1, <2>2 DEF PowerInv, RewrapInv, Files
<1> QED
  BY <1>1, PowerInvariance, SyncInvariance, PTL

=============================================================================
