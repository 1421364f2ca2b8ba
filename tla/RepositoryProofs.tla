-------------------------- MODULE RepositoryProofs --------------------------
(* The safety of Repository.tla, for any number of processes, commands and   *)
(* killed processes.                                                         *)
EXTENDS Repository, TLAPS

-----------------------------------------------------------------------------
(* Types *)

\* The empty tree, and the version of a file that was never written.
LEMMA EmptyType == Missing \in Content /\ Empty \in [Paths -> Content]
BY DirAssumption DEF Missing, Content, Empty

\* A put keeps the types of the directory.
LEMMA PutType ==
  ASSUME TypeOK, NEW p \in Procs, NEW path \in Paths, NEW present \in BOOLEAN,
         Put(p, path, present)
  PROVE  file' \in [Paths -> Content] /\ clock' \in Nat
BY DEF TypeOK, Put, Content

\* Ending keeps the types of the locals.
LEMMA EndType ==
  ASSUME TypeOK, NEW p \in Procs, End(p)
  PROVE  /\ pc' \in [Procs -> Stages] /\ call' \in [Procs -> Ops \cup {"none"}]
         /\ keys' \in [Procs -> 0 .. MaxCommands]
BY DirAssumption DEF TypeOK, End, Goto, Stages, Ops

\* The end of an auto-commit keeps the types of the locals.
LEMMA AfterCommitType ==
  ASSUME TypeOK, NEW p \in Procs, AfterCommit(p)
  PROVE  /\ pc' \in [Procs -> Stages] /\ call' \in [Procs -> Ops \cup {"none"}]
         /\ keys' \in [Procs -> 0 .. MaxCommands]
         /\ {scan', base', seen'} \subseteq [Procs -> [Paths -> Content]]
         /\ listed' \in [Procs -> SUBSET Paths]
<1>1. /\ pc' \in [Procs -> Stages] /\ call' \in [Procs -> Ops \cup {"none"}]
      /\ keys' \in [Procs -> 0 .. MaxCommands]
  <2>1. CASE call[p] = "init"
    BY <2>1 DEF AfterCommit, Goto, TypeOK, Stages
  <2>2. CASE call[p] # "init"
    BY <2>2, EndType DEF AfterCommit
  <2> QED  BY <2>1, <2>2
<1> QED  BY <1>1, EmptyType DEF AfterCommit, TypeOK

\* An auto-commit ends, or goes on to init's audit record.
LEMMA AfterCommitStage ==
  ASSUME NEW p \in Procs, AfterCommit(p)
  PROVE  \E stage \in {"idle", "audit"} : Goto(p, stage)
BY DEF AfterCommit, End

\* The last part of TypeOK.
LocksHeld ==
    \A p \in Procs : /\ lock = p <=> pc[p] \in {"change", "save"}
                     /\ indexLock = p /\ crashes = 0 => pc[p] = "addNew"

\* A process that holds no lock and goes to a stage without one disturbs none.
LEMMA LocksStayHeld ==
  ASSUME TypeOK, NEW p \in Procs, NEW stage, Goto(p, stage),
         stage \notin {"change", "save", "addNew"},
         lock' = IF lock = p THEN None ELSE lock,
         \/ crashes' # 0
         \/ crashes' = crashes /\ indexLock' = None
         \/ crashes' = crashes /\ indexLock' = indexLock /\ pc[p] # "addNew"
  PROVE  LocksHeld'
<1>1. \A q \in Procs : pc'[q] = IF q = p THEN stage ELSE pc[q]
  BY DEF Goto, TypeOK
<1> QED  BY <1>1, DirAssumption DEF LocksHeld, TypeOK

\* What changes of the stages and the locks: the vault lock is held in "change"
\* and "save", the index.lock in "addNew".
LEMMA InitStepsType ==
  ASSUME TypeOK, NEW p \in Procs,
         (\E op \in Ops : Start(p, op)) \/ InitSteps(p),
         UNCHANGED <<gitVars, gitLocal, promised, lock>>
  PROVE  TypeOK'
<1> USE DirAssumption
<1>1. ASSUME NEW op \in Ops, Start(p, op) PROVE TypeOK'
  <2>1. overlap' \in BOOLEAN
    BY <1>1, Zenon DEF Start, TypeOK
  <2>2. pc' \in [Procs -> Stages] /\ call' \in [Procs -> Ops \cup {"none"}]
    BY <1>1 DEF Start, Goto, TypeOK, Stages, Making
  <2>3. keys' \in [Procs -> 0 .. MaxCommands] /\ started' \in 0 .. MaxCommands
    BY <1>1 DEF Start, TypeOK
  <2>4. LocksHeld'
    BY <1>1 DEF Start, Goto, TypeOK, LocksHeld, gitVars
  <2> QED
    BY <1>1, <2>1, <2>2, <2>3, <2>4 DEF Start, LocksHeld, TypeOK, dirVars, gitVars, gitLocal
<1>2. CASE WriteMasterGpg(p)
  BY <1>2, PutType DEF WriteMasterGpg, Goto, TypeOK, Stages, Paths, gitVars, gitLocal, Making
<1>3. CASE EncryptFails(p)
  BY <1>3, EndType DEF EncryptFails, End, Goto, TypeOK, dirVars, gitVars, gitLocal
<1>4. CASE WriteMasterJson(p)
  BY <1>4, PutType DEF WriteMasterJson, Goto, TypeOK, Stages, Paths, gitVars, gitLocal, Making
<1>5. CASE WriteEmptyManifest(p)
  BY <1>5, PutType DEF WriteEmptyManifest, Goto, TypeOK, Stages, Paths, gitVars, gitLocal, Making
<1> QED  BY <1>1, <1>2, <1>3, <1>4, <1>5 DEF InitSteps

\* What the commands other than init leave.
LEMMA CommandsType ==
  ASSUME TypeOK, NEW p \in Procs, Commands(p),
         UNCHANGED <<started, crashes, overlap, gitVars, gitLocal, promised>>
  PROVE  TypeOK'
<1> USE DirAssumption DEF gitVars, gitLocal
<1>1. CASE Resolve(p)
  <2>1. file["master.gpg"].from \in 0 .. MaxCommands
    BY DEF TypeOK, Content, Paths
  <2>2. CASE file["master.json"].from = file["master.gpg"].from
    BY <1>1, <2>1, <2>2 DEF Resolve, Goto, TypeOK, Stages, dirVars
  <2>3. CASE file["master.json"].from # file["master.gpg"].from
    BY <1>1, <2>3, EndType DEF Resolve, End, Goto, TypeOK, dirVars
  <2> QED  BY <2>2, <2>3
<1>2. CASE AcquireLock(p)
  <2>1. file' \in [Paths -> Content] /\ clock' \in Nat
    <3>1. CASE Here(".lock")
      BY <1>2, <3>1 DEF AcquireLock, TypeOK, dirVars
    <3>2. CASE ~Here(".lock")
      BY <1>2, <3>2, PutType DEF AcquireLock, Paths
    <3> QED  BY <3>1, <3>2
  <2> QED  BY <1>2, <2>1 DEF AcquireLock, Goto, TypeOK, Stages
<1>3. CASE ChangeSecret(p)
  <2>1. CASE call[p] = "rm" /\ ~Here("secret")
    BY <1>3, <2>1, EndType DEF ChangeSecret, End, Goto, TypeOK, dirVars
  <2>2. CASE ~(call[p] = "rm" /\ ~Here("secret"))
    <3>1. Put(p, "secret", call[p] = "insert")
      BY <1>3, <2>2 DEF ChangeSecret
    <3>2. file' \in [Paths -> Content] /\ clock' \in Nat
      BY <3>1, PutType, "secret" \in Paths, (call[p] = "insert") \in BOOLEAN DEF Paths
    <3> QED  BY <1>3, <2>2, <3>2 DEF ChangeSecret, Goto, TypeOK, Stages
  <2> QED  BY <2>1, <2>2
<1>4. CASE SaveManifest(p)
  <2>1. CASE Here("manifest") /\ file["manifest"].from # keys[p]
    BY <1>4, <2>1, EndType DEF SaveManifest, End, Goto, TypeOK, dirVars
  <2>2. CASE ~(Here("manifest") /\ file["manifest"].from # keys[p])
    BY <1>4, <2>2, PutType DEF SaveManifest, Goto, TypeOK, Stages, Paths
  <2> QED  BY <2>1, <2>2
<1>5. CASE AppendAudit(p)
  <2>1. file' \in [Paths -> Content] /\ clock' \in Nat
    BY <1>5, PutType DEF AppendAudit, Paths
  <2>2. CASE Commits(call[p])
    BY <1>5, <2>1, <2>2 DEF AppendAudit, Goto, TypeOK, Stages
  <2>3. CASE ~Commits(call[p])
    BY <1>5, <2>1, <2>3, EndType DEF AppendAudit, End, Goto, TypeOK
  <2> QED  BY <2>2, <2>3
<1>6. CASE AppendAuditFails(p)
  BY <1>6, EndType DEF AppendAuditFails, End, Goto, TypeOK, dirVars
<1> QED  BY <1>1, <1>2, <1>3, <1>4, <1>5, <1>6 DEF Commands

\* What a crash leaves.
LEMMA CrashType ==
  ASSUME TypeOK, NEW p \in Procs, Crash(p)
  PROVE  TypeOK'
<1>1. LocksHeld'
  <2>1. Goto(p, "idle") /\ lock' = (IF lock = p THEN None ELSE lock) /\ crashes' # 0
    BY DirAssumption DEF Crash, End, TypeOK
  <2> QED  BY <2>1, LocksStayHeld
<1>2. crashes' \in 0 .. MaxCrashes
  BY DirAssumption DEF Crash, TypeOK
<1> QED
  BY <1>1, <1>2, EndType DEF Crash, LocksHeld, TypeOK, dirVars, gitVars, gitLocal

\* What init's git steps and the auto-commits leave.
LEMMA GitStepsType ==
  ASSUME TypeOK, NEW p \in Procs, GitSteps(p),
         UNCHANGED <<dirVars, started, crashes, overlap, lock>>
  PROVE  TypeOK'
<1> USE DirAssumption DEF dirVars
<1>0. ASSUME AfterCommit(p), lock # p,
             indexLock' = None \/ (indexLock' = indexLock /\ pc[p] # "addNew")
      PROVE  LocksHeld'
  <2>1. PICK stage \in {"idle", "audit"} : Goto(p, stage)
    BY <1>0, AfterCommitStage
  <2> QED  BY <1>0, <2>1, LocksStayHeld
<1>1. CASE InitRepo(p)
  BY <1>1 DEF InitRepo, Goto, TypeOK, Stages, Making, gitLocal
<1>2. CASE InitRepoFails(p)
  BY <1>2, EndType DEF InitRepoFails, End, Goto, TypeOK, gitVars, gitLocal
<1>3. CASE WriteIgnore(p)
  BY <1>3 DEF WriteIgnore, IgnoreWritten, Goto, TypeOK, Stages, Making, gitLocal
<1>4. CASE CheckRepo(p)
  <2>1. CASE repo
    BY <1>4, <2>1 DEF CheckRepo, Goto, TypeOK, Stages, gitVars, gitLocal
  <2>2. CASE ~repo
    <3>1. LocksHeld'
      BY <1>4, <2>2, <1>0 DEF CheckRepo, TypeOK, gitVars
    <3> QED  BY <1>4, <2>2, <3>1, AfterCommitType DEF CheckRepo, LocksHeld, TypeOK, gitVars
  <2> QED  BY <2>1, <2>2
<1>5. CASE AddTracked(p)
  <2>1. Untracked \in SUBSET Paths
    BY DEF Untracked
  <2>2. scan' \in [Procs -> [Paths -> Content]]
    BY <1>5 DEF AddTracked, TypeOK
  <2> QED  BY <1>5, <2>1, <2>2 DEF AddTracked, Goto, TypeOK, Stages
<1>6. CASE AddNew(p)
  <2>1. index' \in [Paths -> Content]
    BY <1>6 DEF AddNew, TypeOK
  <2> QED  BY <1>6, <2>1 DEF AddNew, Goto, TypeOK, Stages, gitLocal
<1>7. CASE AddFails(p)
  <2>1. LocksHeld'
    <3>1. AfterCommit(p) /\ lock # p
      BY <1>7 DEF AddFails, AfterAddError, TypeOK
    <3>2. indexLock' = None \/ (indexLock' = indexLock /\ pc[p] # "addNew")
      BY <1>7 DEF AddFails, LockDropped
    <3> QED  BY <3>1, <3>2, <1>0
  <2> QED
    BY <1>7, <2>1, AfterCommitType DEF AddFails, LockDropped, AfterAddError, LocksHeld, TypeOK
<1>8. ASSUME NEW tree \in [Paths -> Content], Vouch(tree) PROVE promised' \in [Paths -> Content]
  BY <1>8 DEF Vouch, TypeOK
<1>9. CASE Status(p)
  <2>1. CASE Clean
    <3>1. promised' \in [Paths -> Content]
      BY <1>8, <1>9, <2>1 DEF Status, TypeOK
    <3>2. LocksHeld'
      BY <1>9, <2>1, <1>0 DEF Status, TypeOK, gitVars
    <3> QED  BY <1>9, <2>1, <3>1, <3>2, AfterCommitType DEF Status, LocksHeld, TypeOK, gitVars
  <2>2. CASE ~Clean
    BY <1>9, <2>2 DEF Status, Goto, TypeOK, Stages, gitVars, gitLocal
  <2> QED  BY <2>1, <2>2
<1>10. CASE CommitTree(p)
  BY <1>10 DEF CommitTree, Goto, TypeOK, Stages, gitVars
<1>11. CASE MoveHead(p)
  <2>1. scan[p] \in [Paths -> Content]
    BY DEF TypeOK
  <2>2. promised' \in [Paths -> Content]
    BY <1>8, <1>11, <2>1 DEF MoveHead
  <2>3. LocksHeld'
    BY <1>11, <1>0 DEF MoveHead, TypeOK
  <2> QED  BY <1>11, <2>1, <2>2, <2>3, AfterCommitType DEF MoveHead, LocksHeld, TypeOK
<1>12. CASE StatusFails(p) \/ CommitFails(p)
  <2>1. LocksHeld'
    BY <1>12, <1>0 DEF StatusFails, CommitFails, TypeOK, gitVars
  <2> QED
    BY <1>12, <2>1, AfterCommitType DEF StatusFails, CommitFails, LocksHeld, TypeOK, gitVars
<1> QED
  BY <1>1, <1>2, <1>3, <1>4, <1>5, <1>6, <1>7, <1>9, <1>10, <1>11, <1>12 DEF GitSteps

\* Every step keeps the types.
LEMMA NextTypeOK == TypeOK /\ [Next]_vars => TypeOK'
<1> SUFFICES ASSUME TypeOK, [Next]_vars PROVE TypeOK'
  OBVIOUS
<1>1. CASE UNCHANGED vars
  BY <1>1 DEF vars, TypeOK, dirVars, gitVars, gitLocal
<1>2. ASSUME NEW p \in Procs,
             /\ \/ \E op \in Ops : Start(p, op)
                \/ InitSteps(p)
             /\ UNCHANGED <<gitVars, gitLocal, promised, lock>>
      PROVE TypeOK'
  BY <1>2, InitStepsType
<1>3. ASSUME NEW p \in Procs,
             Commands(p) /\ UNCHANGED <<started, crashes, overlap, gitVars, gitLocal, promised>>
      PROVE TypeOK'
  BY <1>3, CommandsType
<1>4. ASSUME NEW p \in Procs,
             GitSteps(p) /\ UNCHANGED <<dirVars, started, crashes, overlap, lock>>
      PROVE TypeOK'
  BY <1>4, GitStepsType
<1> QED  BY <1>1, <1>2, <1>3, <1>4, CrashType DEF Next

-----------------------------------------------------------------------------
(* The making of a vault *)

\* master.gpg comes first, then master.json, then all that is under their keys,
\* and only a secret is ever removed.
InitInv ==
    /\ \A p \in Procs : pc[p] = "json" => Here("master.gpg")
    /\ \A p \in Procs : pc[p] \notin {"idle", "gpg", "json"} => Initialized
    /\ Here("master.json") => Here("master.gpg")
    /\ Here("manifest") \/ Here("secret") => Initialized
    /\ \A path \in {"master.gpg", "master.json", "manifest"} :
          ~Here(path) => file[path].ver = 0

\* Which commands get as far as the change of a secret.
CallInv ==
    \A p \in Procs :
        /\ pc[p] = "resolve" => call[p] \in {"insert", "rm", "show"}
        /\ pc[p] \in {"lock", "change", "save"} => call[p] \in {"insert", "rm"}

\* Without an overlap a process that makes the vault is alone.
AloneInv ==
    ~overlap => \A p, q \in Procs : p # q /\ pc[p] \in Making => pc[q] = "idle"

\* All that is in the vault is under the keys master.gpg is under, which are
\* those everyone works with, and who makes the vault finds nothing made.
OneKey ==
    /\ \A p \in Procs :
          /\ pc[p] \in {"json", "emptyManifest", "lock", "change", "save"} =>
                keys[p] = file["master.gpg"].from
          /\ pc[p] \in {"gpg", "json", "emptyManifest"} =>
                ~Here("manifest") /\ ~Here("secret")
          /\ pc[p] \in {"gpg", "json"} => ~Here("master.json")
    /\ Initialized => file["master.json"].from = file["master.gpg"].from
    /\ \A path \in {"manifest", "secret"} :
          Here(path) => file[path].from = file["master.gpg"].from

\* So it is unless commands overlapped an init.
KeysInv == ~overlap => OneKey

\* The stages of git.init and _auto_commit.
GitStages == {"repo", "ignore", "check", "add", "addNew", "status", "tree", "head"}

\* The stages a step of them goes to, and the process it is of.
LEMMA GitStage ==
  ASSUME NEW p \in Procs, GitSteps(p)
  PROVE  /\ pc[p] \in GitStages
         /\ \E stage \in (GitStages \ {"repo"}) \cup {"audit", "idle"} :
               Goto(p, stage) /\ (stage = "ignore" => pc[p] = "repo")
         /\ \/ call' = call /\ keys' = keys
            \/ End(p)
<1>0. ASSUME AfterCommit(p)
      PROVE  /\ \E stage \in {"audit", "idle"} : Goto(p, stage)
             /\ (call' = call /\ keys' = keys) \/ End(p)
  BY <1>0 DEF AfterCommit, End
<1>1. CASE InitRepo(p)
  BY <1>1 DEF InitRepo, GitStages
<1>2. CASE InitRepoFails(p)
  BY <1>2 DEF InitRepoFails, GitStages, End
<1>3. CASE WriteIgnore(p)
  BY <1>3 DEF WriteIgnore, GitStages
<1>4. CASE CheckRepo(p)
  <2>1. CASE repo
    BY <1>4, <2>1 DEF CheckRepo, GitStages
  <2>2. CASE ~repo
    BY <1>4, <2>2, <1>0 DEF CheckRepo, GitStages
  <2> QED  BY <2>1, <2>2
<1>5. CASE AddTracked(p)
  BY <1>5 DEF AddTracked, GitStages
<1>6. CASE AddNew(p)
  BY <1>6 DEF AddNew, GitStages
<1>7. CASE AddFails(p)
  BY <1>7, <1>0 DEF AddFails, AfterAddError, GitStages
<1>8. CASE Status(p)
  <2>1. CASE Clean
    BY <1>8, <2>1, <1>0 DEF Status, GitStages
  <2>2. CASE ~Clean
    BY <1>8, <2>2 DEF Status, GitStages
  <2> QED  BY <2>1, <2>2
<1>9. CASE CommitTree(p)
  BY <1>9 DEF CommitTree, GitStages
<1>10. CASE MoveHead(p)
  BY <1>10, <1>0 DEF MoveHead, GitStages
<1>11. CASE StatusFails(p) \/ CommitFails(p)
  BY <1>11, <1>0 DEF StatusFails, CommitFails, GitStages
<1> QED
  BY <1>1, <1>2, <1>3, <1>4, <1>5, <1>6, <1>7, <1>8, <1>9, <1>10, <1>11 DEF GitSteps

\* Every step preserves InitInv.
LEMMA NextInitInv == TypeOK /\ InitInv /\ [Next]_vars => InitInv'
<1> SUFFICES ASSUME TypeOK, InitInv, [Next]_vars PROVE InitInv'
  OBVIOUS
<1> USE DEF TypeOK, InitInv, Here, Initialized, Paths, Content
<1>1. CASE UNCHANGED vars
  BY <1>1 DEF vars, dirVars, gitVars, gitLocal
<1>2. ASSUME NEW p \in Procs, NEW op \in Ops, Start(p, op) PROVE InitInv'
  <2>1. file' = file /\ pc' = [pc EXCEPT ![p] = IF op = "init" THEN "gpg" ELSE "resolve"]
    BY <1>2 DEF Start, Goto, dirVars
  <2>2. op # "init" => Initialized
    BY <1>2 DEF Start, Admitted
  <2>3. \A q \in Procs : pc'[q] = IF q = p THEN IF op = "init" THEN "gpg" ELSE "resolve" ELSE pc[q]
    BY <2>1
  <2> QED  BY <2>1, <2>2, <2>3
<1>3. ASSUME NEW p \in Procs, WriteMasterGpg(p) PROVE InitInv'
  BY <1>3 DEF WriteMasterGpg, Put, End, Goto, dirVars
<1>4. ASSUME NEW p \in Procs, EncryptFails(p) PROVE InitInv'
  BY <1>4 DEF EncryptFails, Put, End, Goto, dirVars
<1>5. ASSUME NEW p \in Procs, WriteMasterJson(p) PROVE InitInv'
  BY <1>5 DEF WriteMasterJson, Put, End, Goto, dirVars
<1>6. ASSUME NEW p \in Procs, WriteEmptyManifest(p) PROVE InitInv'
  BY <1>6 DEF WriteEmptyManifest, Put, End, Goto, dirVars
<1>7. ASSUME NEW p \in Procs, Resolve(p) PROVE InitInv'
  BY <1>7 DEF Resolve, Put, End, Goto, dirVars
<1>8. ASSUME NEW p \in Procs, AcquireLock(p) PROVE InitInv'
  BY <1>8 DEF AcquireLock, Put, End, Goto, dirVars
<1>9. ASSUME NEW p \in Procs, ChangeSecret(p) PROVE InitInv'
  <2>1. CASE call[p] = "rm" /\ ~Here("secret")
    BY <1>9, <2>1 DEF ChangeSecret, End, Goto, dirVars
  <2>2. CASE ~(call[p] = "rm" /\ ~Here("secret"))
    <3>1. Put(p, "secret", call[p] = "insert") /\ Goto(p, "save")
      BY <1>9, <2>2 DEF ChangeSecret
    <3>2. Initialized
      BY <1>9 DEF ChangeSecret
    <3> QED  BY <3>1, <3>2 DEF Put, Goto
  <2> QED  BY <2>1, <2>2
<1>10. ASSUME NEW p \in Procs, SaveManifest(p) PROVE InitInv'
  <2>1. CASE Here("manifest") /\ file["manifest"].from # keys[p]
    BY <1>10, <2>1 DEF SaveManifest, End, Goto, dirVars
  <2>2. CASE ~(Here("manifest") /\ file["manifest"].from # keys[p])
    <3>1. Put(p, "manifest", TRUE) /\ Goto(p, "audit")
      BY <1>10, <2>2 DEF SaveManifest
    <3>2. Initialized
      BY <1>10 DEF SaveManifest
    <3> QED  BY <3>1, <3>2 DEF Put, Goto
  <2> QED  BY <2>1, <2>2
<1>11. ASSUME NEW p \in Procs, AppendAudit(p) PROVE InitInv'
  BY <1>11 DEF AppendAudit, Put, End, Goto, dirVars
<1>12. ASSUME NEW p \in Procs, AppendAuditFails(p) PROVE InitInv'
  BY <1>12 DEF AppendAuditFails, Put, End, Goto, dirVars
<1>13. ASSUME NEW p \in Procs, GitSteps(p), UNCHANGED <<dirVars, overlap, crashes>> PROVE InitInv'
  BY <1>13, GitStage DEF GitStages, End, Goto, dirVars
<1>14. ASSUME NEW p \in Procs, Crash(p) PROVE InitInv'
  BY <1>14 DEF Crash, End, Goto, dirVars
<1> QED
  BY <1>1, <1>2, <1>3, <1>4, <1>5, <1>6, <1>7, <1>8, <1>9, <1>10, <1>11, <1>12, <1>13, <1>14
     DEF Next, InitSteps, Commands

\* Every step preserves CallInv.
LEMMA NextCallInv == TypeOK /\ CallInv /\ [Next]_vars => CallInv'
<1> SUFFICES ASSUME TypeOK, CallInv, [Next]_vars PROVE CallInv'
  OBVIOUS
<1> USE DEF TypeOK, CallInv, Ops
<1>1. CASE UNCHANGED vars
  BY <1>1 DEF vars, dirVars, gitVars, gitLocal
<1>2. ASSUME NEW p \in Procs, NEW op \in Ops, Start(p, op) PROVE CallInv'
  BY <1>2 DEF Start, Goto, dirVars
<1>3. ASSUME NEW p \in Procs, WriteMasterGpg(p) PROVE CallInv'
  BY <1>3 DEF WriteMasterGpg, Put, End, Goto, dirVars
<1>4. ASSUME NEW p \in Procs, EncryptFails(p) PROVE CallInv'
  BY <1>4 DEF EncryptFails, Put, End, Goto, dirVars
<1>5. ASSUME NEW p \in Procs, WriteMasterJson(p) PROVE CallInv'
  BY <1>5 DEF WriteMasterJson, Put, End, Goto, dirVars
<1>6. ASSUME NEW p \in Procs, WriteEmptyManifest(p) PROVE CallInv'
  BY <1>6 DEF WriteEmptyManifest, Put, End, Goto, dirVars
<1>7. ASSUME NEW p \in Procs, Resolve(p) PROVE CallInv'
  BY <1>7 DEF Resolve, Put, End, Goto, dirVars
<1>8. ASSUME NEW p \in Procs, AcquireLock(p) PROVE CallInv'
  BY <1>8 DEF AcquireLock, Put, End, Goto, dirVars
<1>9. ASSUME NEW p \in Procs, ChangeSecret(p) PROVE CallInv'
  BY <1>9 DEF ChangeSecret, Put, End, Goto, dirVars
<1>10. ASSUME NEW p \in Procs, SaveManifest(p) PROVE CallInv'
  BY <1>10 DEF SaveManifest, Put, End, Goto, dirVars
<1>11. ASSUME NEW p \in Procs, AppendAudit(p) PROVE CallInv'
  BY <1>11 DEF AppendAudit, Put, End, Goto, dirVars
<1>12. ASSUME NEW p \in Procs, AppendAuditFails(p) PROVE CallInv'
  BY <1>12 DEF AppendAuditFails, Put, End, Goto, dirVars
<1>13. ASSUME NEW p \in Procs, GitSteps(p), UNCHANGED <<dirVars, overlap, crashes>> PROVE CallInv'
  BY <1>13, GitStage DEF GitStages, End, Goto, dirVars
<1>14. ASSUME NEW p \in Procs, Crash(p) PROVE CallInv'
  BY <1>14 DEF Crash, End, Goto, dirVars
<1> QED
  BY <1>1, <1>2, <1>3, <1>4, <1>5, <1>6, <1>7, <1>8, <1>9, <1>10, <1>11, <1>12, <1>13, <1>14
     DEF Next, InitSteps, Commands

\* Every step preserves AloneInv.
LEMMA NextAloneInv == TypeOK /\ AloneInv /\ [Next]_vars => AloneInv'
<1> SUFFICES ASSUME TypeOK, AloneInv, [Next]_vars PROVE AloneInv'
  OBVIOUS
<1> USE DEF TypeOK, AloneInv, Making, OthersMaking
<1>0. ASSUME NEW p \in Procs, NEW stage, Goto(p, stage), overlap' = overlap,
             pc[p] # "idle", stage \in Making => pc[p] \in Making
      PROVE  AloneInv'
  BY <1>0 DEF Goto
<1>1. CASE UNCHANGED vars
  BY <1>1 DEF vars, dirVars, gitVars, gitLocal
<1>2. ASSUME NEW p \in Procs, NEW op \in Ops, Start(p, op) PROVE AloneInv'
  BY <1>2 DEF Start, Goto, dirVars
<1>3. ASSUME NEW p \in Procs, WriteMasterGpg(p) PROVE AloneInv'
  BY <1>3 DEF WriteMasterGpg, Put, End, Goto, dirVars
<1>4. ASSUME NEW p \in Procs, EncryptFails(p) PROVE AloneInv'
  BY <1>4 DEF EncryptFails, Put, End, Goto, dirVars
<1>5. ASSUME NEW p \in Procs, WriteMasterJson(p) PROVE AloneInv'
  BY <1>5 DEF WriteMasterJson, Put, End, Goto, dirVars
<1>6. ASSUME NEW p \in Procs, WriteEmptyManifest(p) PROVE AloneInv'
  BY <1>6 DEF WriteEmptyManifest, Put, End, Goto, dirVars
<1>7. ASSUME NEW p \in Procs, Resolve(p), overlap' = overlap PROVE AloneInv'
  <2>1. \E stage \in {"audit", "lock", "idle"} : Goto(p, stage)
    BY <1>7 DEF Resolve, End
  <2>2. pc[p] = "resolve"
    BY <1>7 DEF Resolve
  <2> QED  BY <1>0, <1>7, <2>1, <2>2
<1>8. ASSUME NEW p \in Procs, AcquireLock(p), overlap' = overlap PROVE AloneInv'
  BY <1>8 DEF AcquireLock, Put, End, Goto, dirVars
<1>9. ASSUME NEW p \in Procs, ChangeSecret(p), overlap' = overlap PROVE AloneInv'
  BY <1>9 DEF ChangeSecret, Put, End, Goto, dirVars
<1>10. ASSUME NEW p \in Procs, SaveManifest(p), overlap' = overlap PROVE AloneInv'
  BY <1>10 DEF SaveManifest, Put, End, Goto, dirVars
<1>11. ASSUME NEW p \in Procs, AppendAudit(p), overlap' = overlap PROVE AloneInv'
  <2>1. \E stage \in {"check", "idle"} : Goto(p, stage)
    BY <1>11 DEF AppendAudit, End
  <2>2. pc[p] = "audit"
    BY <1>11 DEF AppendAudit
  <2> QED  BY <1>0, <1>11, <2>1, <2>2
<1>12. ASSUME NEW p \in Procs, AppendAuditFails(p), overlap' = overlap PROVE AloneInv'
  BY <1>12 DEF AppendAuditFails, Put, End, Goto, dirVars
<1>13. ASSUME NEW p \in Procs, GitSteps(p), UNCHANGED <<dirVars, overlap, crashes>> PROVE AloneInv'
  <2>1. PICK stage \in (GitStages \ {"repo"}) \cup {"audit", "idle"} :
            Goto(p, stage) /\ (stage = "ignore" => pc[p] = "repo")
    BY <1>13, GitStage
  <2>2. pc[p] # "idle"
    BY <1>13, GitStage DEF GitStages
  <2> QED  BY <1>0, <1>13, <2>1, <2>2 DEF GitStages
<1>14. ASSUME NEW p \in Procs, Crash(p) PROVE AloneInv'
  BY <1>14 DEF Crash, End, Goto, dirVars
<1> QED
  BY <1>1, <1>2, <1>3, <1>4, <1>5, <1>6, <1>7, <1>8, <1>9, <1>10, <1>11, <1>12, <1>13, <1>14
     DEF Next, InitSteps, Commands

\* Every step preserves KeysInv.
LEMMA NextKeysInv == TypeOK /\ InitInv /\ AloneInv /\ KeysInv /\ [Next]_vars => KeysInv'
<1> SUFFICES ASSUME TypeOK, InitInv, AloneInv, KeysInv, [Next]_vars PROVE KeysInv'
  OBVIOUS
<1> USE DEF TypeOK, InitInv, AloneInv, KeysInv, OneKey, Here, Initialized, Paths, Content, Making
<1>1. CASE UNCHANGED vars
  BY <1>1 DEF vars, dirVars, gitVars, gitLocal
<1>2. ASSUME NEW p \in Procs, NEW op \in Ops, Start(p, op) PROVE KeysInv'
  <2> SUFFICES ASSUME ~overlap' PROVE OneKey'
    OBVIOUS
  <2>1. file' = file /\ ~overlap
    BY <1>2 DEF Start, dirVars
  <2>2. \A q \in Procs : q # p => pc'[q] = pc[q] /\ keys'[q] = keys[q]
    BY <1>2 DEF Start, Goto
  <2>3. CASE op = "init"
    <3>1. ~Initialized /\ pc'[p] = "gpg"
      BY <1>2, <2>3 DEF Start, Goto, Admitted
    <3> QED  BY <2>1, <2>2, <3>1
  <2>4. CASE op # "init"
    <3>1. pc'[p] = "resolve"
      BY <1>2, <2>4 DEF Start, Goto
    <3> QED  BY <2>1, <2>2, <3>1
  <2> QED  BY <2>3, <2>4
<1>3. ASSUME NEW p \in Procs, WriteMasterGpg(p) PROVE KeysInv'
  BY <1>3 DEF WriteMasterGpg, Put, End, Goto, dirVars
<1>4. ASSUME NEW p \in Procs, EncryptFails(p) PROVE KeysInv'
  BY <1>4 DEF EncryptFails, Put, End, Goto, dirVars
<1>5. ASSUME NEW p \in Procs, WriteMasterJson(p) PROVE KeysInv'
  BY <1>5 DEF WriteMasterJson, Put, End, Goto, dirVars
<1>6. ASSUME NEW p \in Procs, WriteEmptyManifest(p) PROVE KeysInv'
  BY <1>6 DEF WriteEmptyManifest, Put, End, Goto, dirVars
<1>7. ASSUME NEW p \in Procs, Resolve(p), overlap' = overlap PROVE KeysInv'
  BY <1>7 DEF Resolve, Put, End, Goto, dirVars
<1>8. ASSUME NEW p \in Procs, AcquireLock(p), overlap' = overlap PROVE KeysInv'
  BY <1>8 DEF AcquireLock, Put, End, Goto, dirVars
<1>9. ASSUME NEW p \in Procs, ChangeSecret(p), overlap' = overlap PROVE KeysInv'
  BY <1>9 DEF ChangeSecret, Put, End, Goto, dirVars
<1>10. ASSUME NEW p \in Procs, SaveManifest(p), overlap' = overlap PROVE KeysInv'
  BY <1>10 DEF SaveManifest, Put, End, Goto, dirVars
<1>11. ASSUME NEW p \in Procs, AppendAudit(p), overlap' = overlap PROVE KeysInv'
  BY <1>11 DEF AppendAudit, Put, End, Goto, dirVars
<1>12. ASSUME NEW p \in Procs, AppendAuditFails(p), overlap' = overlap PROVE KeysInv'
  BY <1>12 DEF AppendAuditFails, Put, End, Goto, dirVars
<1>13. ASSUME NEW p \in Procs, GitSteps(p), UNCHANGED <<dirVars, overlap, crashes>> PROVE KeysInv'
  <2>1. file' = file
    BY <1>13 DEF dirVars
  <2>2. pc'[p] \in (GitStages \ {"repo"}) \cup {"audit", "idle"}
    <3>1. PICK stage \in (GitStages \ {"repo"}) \cup {"audit", "idle"} : Goto(p, stage)
      BY <1>13, GitStage
    <3> QED  BY <3>1 DEF Goto
  <2>3. \A q \in Procs : q # p => pc'[q] = pc[q] /\ keys'[q] = keys[q]
    BY <1>13, GitStage DEF Goto, End
  <2> QED  BY <1>13, <2>1, <2>2, <2>3 DEF GitStages
<1>14. ASSUME NEW p \in Procs, Crash(p) PROVE KeysInv'
  BY <1>14 DEF Crash, End, Goto, dirVars
<1> QED
  BY <1>1, <1>2, <1>3, <1>4, <1>5, <1>6, <1>7, <1>8, <1>9, <1>10, <1>11, <1>12, <1>13, <1>14
     DEF Next, InitSteps, Commands

-----------------------------------------------------------------------------
(* The repository of a vault *)

\* There is a repository only once the first manifest is written, and whoever
\* works in it found it.  A .gitignore is missing only while its init is at it,
\* or after a crash.
RepoInv ==
    /\ repo => Here("manifest")
    /\ \A p \in Procs :
          /\ pc[p] \in {"repo", "ignore"} => Here("manifest")
          /\ pc[p] \in {"ignore", "add", "addNew"} => repo
    /\ crashes = 0 /\ repo => ignoring \/ \E q \in Procs : pc[q] = "ignore"

\* Every step preserves RepoInv.
LEMMA NextRepoInv == TypeOK /\ RepoInv /\ [Next]_vars => RepoInv'
<1> SUFFICES ASSUME TypeOK, RepoInv, [Next]_vars PROVE RepoInv'
  OBVIOUS
<1> USE DEF TypeOK, RepoInv, Here, Paths, Content
<1>0. ASSUME NEW p \in Procs, AfterCommit(p), pc[p] # "ignore",
             UNCHANGED <<file, repo, ignoring, crashes>>
      PROVE  RepoInv'
  <2>1. PICK stage \in {"idle", "audit"} : Goto(p, stage)
    BY <1>0, AfterCommitStage
  <2> QED  BY <1>0, <2>1 DEF Goto
<1>1. CASE UNCHANGED vars
  BY <1>1 DEF vars, dirVars, gitVars, gitLocal
<1>2. ASSUME NEW p \in Procs, NEW op \in Ops, Start(p, op), UNCHANGED <<gitVars, gitLocal, promised, lock>> PROVE RepoInv'
  BY <1>2 DEF Start, Goto, dirVars, gitVars, gitLocal
<1>3. ASSUME NEW p \in Procs, WriteMasterGpg(p),
             UNCHANGED <<gitVars, gitLocal, promised, lock>>
      PROVE  RepoInv'
  BY <1>3 DEF WriteMasterGpg, Put, End, Goto, dirVars, gitVars, gitLocal
<1>4. ASSUME NEW p \in Procs, EncryptFails(p),
             UNCHANGED <<gitVars, gitLocal, promised, lock>>
      PROVE  RepoInv'
  BY <1>4 DEF EncryptFails, Put, End, Goto, dirVars, gitVars, gitLocal
<1>5. ASSUME NEW p \in Procs, WriteMasterJson(p),
             UNCHANGED <<gitVars, gitLocal, promised, lock>>
      PROVE  RepoInv'
  BY <1>5 DEF WriteMasterJson, Put, End, Goto, dirVars, gitVars, gitLocal
<1>6. ASSUME NEW p \in Procs, WriteEmptyManifest(p),
             UNCHANGED <<gitVars, gitLocal, promised, lock>>
      PROVE  RepoInv'
  BY <1>6 DEF WriteEmptyManifest, Put, End, Goto, dirVars, gitVars, gitLocal
<1>7. ASSUME NEW p \in Procs, Resolve(p),
             UNCHANGED <<crashes, overlap, gitVars, gitLocal, promised>>
      PROVE  RepoInv'
  BY <1>7 DEF Resolve, Put, End, Goto, dirVars, gitVars, gitLocal
<1>8. ASSUME NEW p \in Procs, AcquireLock(p),
             UNCHANGED <<crashes, overlap, gitVars, gitLocal, promised>>
      PROVE  RepoInv'
  BY <1>8 DEF AcquireLock, Put, End, Goto, dirVars, gitVars, gitLocal
<1>9. ASSUME NEW p \in Procs, ChangeSecret(p),
             UNCHANGED <<crashes, overlap, gitVars, gitLocal, promised>>
      PROVE  RepoInv'
  BY <1>9 DEF ChangeSecret, Put, End, Goto, dirVars, gitVars, gitLocal
<1>10. ASSUME NEW p \in Procs, SaveManifest(p),
             UNCHANGED <<crashes, overlap, gitVars, gitLocal, promised>>
      PROVE  RepoInv'
  BY <1>10 DEF SaveManifest, Put, End, Goto, dirVars, gitVars, gitLocal
<1>11. ASSUME NEW p \in Procs, AppendAudit(p),
             UNCHANGED <<crashes, overlap, gitVars, gitLocal, promised>>
      PROVE  RepoInv'
  BY <1>11 DEF AppendAudit, Put, End, Goto, dirVars, gitVars, gitLocal
<1>12. ASSUME NEW p \in Procs, AppendAuditFails(p),
             UNCHANGED <<crashes, overlap, gitVars, gitLocal, promised>>
      PROVE  RepoInv'
  BY <1>12 DEF AppendAuditFails, Put, End, Goto, dirVars, gitVars, gitLocal
<1>13. ASSUME NEW p \in Procs, InitRepo(p), UNCHANGED <<dirVars, crashes, overlap>>
      PROVE  RepoInv'
  BY <1>13 DEF InitRepo, End, Goto, dirVars, gitVars, gitLocal
<1>14. ASSUME NEW p \in Procs, InitRepoFails(p), UNCHANGED <<dirVars, crashes, overlap>>
      PROVE  RepoInv'
  BY <1>14 DEF InitRepoFails, End, Goto, dirVars, gitVars, gitLocal
<1>15. ASSUME NEW p \in Procs, WriteIgnore(p), UNCHANGED <<dirVars, crashes, overlap>>
      PROVE  RepoInv'
  BY <1>15 DEF WriteIgnore, IgnoreWritten, End, Goto, dirVars, gitVars, gitLocal
<1>16. ASSUME NEW p \in Procs, CheckRepo(p), UNCHANGED <<dirVars, crashes, overlap>>
      PROVE  RepoInv'
  <2>1. CASE repo
    BY <1>16, <2>1 DEF CheckRepo, Goto, dirVars, gitVars
  <2>2. CASE ~repo
    BY <1>0, <1>16, <2>2 DEF CheckRepo, dirVars, gitVars
  <2> QED  BY <2>1, <2>2
<1>17. ASSUME NEW p \in Procs, AddTracked(p), UNCHANGED <<dirVars, crashes, overlap>>
      PROVE  RepoInv'
  BY <1>17 DEF AddTracked, End, Goto, dirVars, gitVars, gitLocal
<1>18. ASSUME NEW p \in Procs, AddNew(p), UNCHANGED <<dirVars, crashes, overlap>>
      PROVE  RepoInv'
  BY <1>18 DEF AddNew, End, Goto, dirVars, gitVars, gitLocal
<1>19. ASSUME NEW p \in Procs, AddFails(p), UNCHANGED <<dirVars, crashes, overlap>>
      PROVE  RepoInv'
  <2>1. AfterCommit(p) /\ pc[p] # "ignore"
    BY <1>19 DEF AddFails, AfterAddError
  <2> QED  BY <1>0, <1>19, <2>1 DEF AddFails, dirVars
<1>20. ASSUME NEW p \in Procs, Status(p), UNCHANGED <<dirVars, crashes, overlap>>
      PROVE  RepoInv'
  <2>1. CASE Clean
    BY <1>0, <1>20, <2>1 DEF Status, dirVars, gitVars
  <2>2. CASE ~Clean
    BY <1>20, <2>2 DEF Status, Goto, dirVars, gitVars
  <2> QED  BY <2>1, <2>2
<1>21. ASSUME NEW p \in Procs, CommitTree(p), UNCHANGED <<dirVars, crashes, overlap>>
      PROVE  RepoInv'
  BY <1>21 DEF CommitTree, End, Goto, dirVars, gitVars, gitLocal
<1>22. ASSUME NEW p \in Procs, MoveHead(p), UNCHANGED <<dirVars, crashes, overlap>>
      PROVE  RepoInv'
  BY <1>0, <1>22 DEF MoveHead, dirVars
<1>23. ASSUME NEW p \in Procs, StatusFails(p) \/ CommitFails(p),
              UNCHANGED <<dirVars, crashes, overlap>>
      PROVE  RepoInv'
  BY <1>0, <1>23 DEF StatusFails, CommitFails, dirVars, gitVars
<1>24. ASSUME NEW p \in Procs, Crash(p) PROVE RepoInv'
  BY <1>24 DEF Crash, End, Goto, dirVars, gitVars, gitLocal
<1> QED
  BY <1>1, <1>2, <1>3, <1>4, <1>5, <1>6, <1>7, <1>8, <1>9, <1>10, <1>11, <1>12, <1>13,
     <1>14, <1>15, <1>16, <1>17, <1>18, <1>19, <1>20, <1>21, <1>22, <1>23, <1>24
     DEF Next, InitSteps, Commands, GitSteps

\* The stages of commit_all once its git add has the index.lock.
Committing == {"addNew", "status", "tree", "head"}

\* What a step that does not move the index or HEAD, nor reads them for p, does
\* to them: the others keep what they have read, p comes from anywhere and
\* leaves commit_all, and at most one file is written.
Calm(p) ==
    /\ \E stage \in Stages \ Committing : Goto(p, stage)
    /\ index' = index /\ head' = head
    /\ \A q \in Procs : q # p =>
          /\ scan'[q] = scan[q] /\ base'[q] = base[q]
          /\ seen'[q] = seen[q] /\ listed'[q] = listed[q]
    /\ scan'[p] \in {scan[p], Empty} /\ base'[p] \in {base[p], Empty}
    /\ indexLock' = indexLock \/ pc[p] = "addNew"
    /\ \/ UNCHANGED dirVars
       \/ \E path \in Paths, present \in BOOLEAN : Put(p, path, present)

\* The steps of init and of the commands are calm.
LEMMA CommandsAreCalm ==
  ASSUME NEW p \in Procs, UNCHANGED <<gitVars, gitLocal>>,
         (\E op \in Ops : Start(p, op)) \/ InitSteps(p) \/ Commands(p)
  PROVE  Calm(p)
<1>0. ASSUME \E stage \in Stages \ Committing : Goto(p, stage),
             \/ UNCHANGED dirVars
             \/ \E path \in Paths, present \in BOOLEAN : Put(p, path, present)
      PROVE  Calm(p)
  BY <1>0 DEF Calm, gitVars, gitLocal
<1> USE DEF Committing, Stages, Making
<1>1. ASSUME NEW op \in Ops, Start(p, op) PROVE Calm(p)
  BY <1>0, <1>1 DEF Start
<1>2. CASE WriteMasterGpg(p)
  BY <1>0, <1>2, "master.gpg" \in Paths, TRUE \in BOOLEAN DEF WriteMasterGpg, Paths
<1>3. CASE EncryptFails(p)
  BY <1>0, <1>3 DEF EncryptFails, End
<1>4. CASE WriteMasterJson(p)
  BY <1>0, <1>4, "master.json" \in Paths, TRUE \in BOOLEAN DEF WriteMasterJson, Paths
<1>5. CASE WriteEmptyManifest(p)
  BY <1>0, <1>5, "manifest" \in Paths, TRUE \in BOOLEAN DEF WriteEmptyManifest, Paths
<1>6. CASE Resolve(p)
  BY <1>0, <1>6 DEF Resolve, End
<1>7. CASE AcquireLock(p)
  BY <1>0, <1>7, ".lock" \in Paths, TRUE \in BOOLEAN DEF AcquireLock, Paths
<1>8. CASE ChangeSecret(p)
  BY <1>0, <1>8, "secret" \in Paths, (call[p] = "insert") \in BOOLEAN
     DEF ChangeSecret, End, Paths
<1>9. CASE SaveManifest(p)
  BY <1>0, <1>9, "manifest" \in Paths, TRUE \in BOOLEAN DEF SaveManifest, End, Paths
<1>10. CASE AppendAudit(p)
  BY <1>0, <1>10, "audit" \in Paths, TRUE \in BOOLEAN DEF AppendAudit, End, Paths
<1>11. CASE AppendAuditFails(p)
  BY <1>0, <1>11 DEF AppendAuditFails, End
<1> QED
  BY <1>1, <1>2, <1>3, <1>4, <1>5, <1>6, <1>7, <1>8, <1>9, <1>10, <1>11
     DEF InitSteps, Commands

\* So is what ends an auto-commit, and what comes before it.
LEMMA OtherCalmSteps ==
  ASSUME TypeOK, NEW p \in Procs, UNCHANGED dirVars,
         \/ InitRepo(p) \/ InitRepoFails(p) \/ WriteIgnore(p) \/ CheckRepo(p)
         \/ AddFails(p) \/ StatusFails(p) \/ CommitFails(p) \/ Crash(p)
         \/ Status(p) /\ Clean
  PROVE  /\ Calm(p)
         /\ missed' = TRUE \/ pc[p] \notin Committing \/ (Status(p) /\ Clean)
<1>0. ASSUME AfterCommit(p), index' = index, head' = head,
             indexLock' = indexLock \/ pc[p] = "addNew"
      PROVE  Calm(p)
  <2>1. \E stage \in Stages \ Committing : Goto(p, stage)
    BY <1>0, AfterCommitStage DEF Stages, Committing
  <2> QED  BY <1>0, <2>1 DEF Calm, AfterCommit, TypeOK
<1>a. ASSUME \E stage \in Stages \ Committing : Goto(p, stage), index' = index,
             head' = head, indexLock' = indexLock \/ pc[p] = "addNew", UNCHANGED gitLocal
      PROVE  Calm(p)
  BY <1>a DEF Calm, gitLocal
<1> USE DEF Committing, Stages, Making, gitVars
<1>1. ASSUME InitRepo(p) \/ InitRepoFails(p) PROVE Calm(p)
  BY <1>1, <1>a DEF InitRepo, InitRepoFails, End
<1>2. ASSUME WriteIgnore(p) PROVE Calm(p)
  BY <1>2, <1>a DEF WriteIgnore
<1>3. ASSUME CheckRepo(p) PROVE Calm(p)
  BY <1>0, <1>a, <1>3 DEF CheckRepo
<1>4. ASSUME AddFails(p) PROVE Calm(p)
  BY <1>0, <1>4 DEF AddFails, AfterAddError
<1>5. ASSUME StatusFails(p) \/ CommitFails(p) PROVE Calm(p)
  BY <1>0, <1>5 DEF StatusFails, CommitFails
<1>6. ASSUME Crash(p) PROVE Calm(p)
  BY <1>a, <1>6 DEF Crash, End
<1>7. ASSUME Status(p) /\ Clean PROVE Calm(p)
  BY <1>0, <1>7 DEF Status
<1>8. ASSUME InitRepo(p) \/ InitRepoFails(p) \/ WriteIgnore(p) \/ CheckRepo(p)
      PROVE  pc[p] \notin Committing
  BY <1>8 DEF InitRepo, InitRepoFails, WriteIgnore, CheckRepo
<1>9. ASSUME AddFails(p) \/ StatusFails(p) \/ CommitFails(p) \/ Crash(p)
      PROVE  missed' = TRUE
  BY <1>9 DEF AddFails, StatusFails, CommitFails, Crash
<1> HIDE DEF Committing, Stages, Making, gitVars
<1> QED  BY <1>1, <1>2, <1>3, <1>4, <1>5, <1>6, <1>7, <1>8, <1>9

\* Nor are they steps of commit_all.
LEMMA CommandsDoNotCommit ==
  ASSUME NEW p \in Procs,
         (\E op \in Ops : Start(p, op)) \/ InitSteps(p) \/ Commands(p)
  PROVE  pc[p] \notin Committing
BY DEF Committing, Start, InitSteps, WriteMasterGpg, EncryptFails, WriteMasterJson,
       WriteEmptyManifest, Commands, Resolve, AcquireLock, ChangeSecret, SaveManifest,
       AppendAudit, AppendAuditFails

\* What commit_all does to what the processes share.
Commit(p) ==
    /\ UNCHANGED <<dirVars, crashes, overlap>>
    /\ \/ AddTracked(p) \/ AddNew(p) \/ CommitTree(p) \/ MoveHead(p)
       \/ Status(p) /\ ~Clean

\* Every step is one of these.
LEMMA CalmOrCommit ==
  ASSUME TypeOK, [Next]_vars
  PROVE  \/ UNCHANGED vars
         \/ \E p \in Procs :
               \/ /\ Calm(p)
                  /\ promised' = promised \/ (Status(p) /\ Clean)
                  /\ \/ missed' = TRUE \/ pc[p] \notin Committing
                     \/ Status(p) /\ Clean
               \/ Commit(p)
<1>1. ASSUME NEW p \in Procs,
             (\E op \in Ops : Start(p, op)) \/ InitSteps(p),
             UNCHANGED <<gitVars, gitLocal, promised, lock>>
      PROVE  Calm(p) /\ promised' = promised /\ pc[p] \notin Committing
  BY <1>1, CommandsAreCalm, CommandsDoNotCommit
<1>2. ASSUME NEW p \in Procs, Commands(p), UNCHANGED <<gitVars, gitLocal, promised>>
      PROVE  Calm(p) /\ promised' = promised /\ pc[p] \notin Committing
  BY <1>2, CommandsAreCalm, CommandsDoNotCommit
<1>3. ASSUME NEW p \in Procs, Crash(p)
      PROVE  Calm(p) /\ promised' = promised /\ missed' = TRUE
  <2>1. UNCHANGED dirVars /\ promised' = promised /\ missed' = TRUE
    BY <1>3 DEF Crash
  <2> QED  BY <1>3, <2>1, OtherCalmSteps
<1>4. ASSUME NEW p \in Procs, GitSteps(p),
             UNCHANGED <<dirVars, started, crashes, overlap, lock>>
      PROVE  \/ /\ Calm(p)
                /\ promised' = promised \/ (Status(p) /\ Clean)
                /\ \/ missed' = TRUE \/ pc[p] \notin Committing
                   \/ Status(p) /\ Clean
             \/ Commit(p)
  <2>1. CASE AddTracked(p) \/ AddNew(p) \/ CommitTree(p) \/ MoveHead(p)
    BY <1>4, <2>1 DEF Commit
  <2>2. CASE Status(p)
    <3>1. CASE Clean
      BY <1>4, <2>2, <3>1, OtherCalmSteps
    <3>2. CASE ~Clean
      BY <1>4, <2>2, <3>2 DEF Commit
    <3> QED  BY <3>1, <3>2
  <2>3. CASE \/ InitRepo(p) \/ InitRepoFails(p) \/ WriteIgnore(p) \/ CheckRepo(p)
             \/ AddFails(p) \/ StatusFails(p) \/ CommitFails(p)
    <3>1. Calm(p) /\ (missed' = TRUE \/ pc[p] \notin Committing \/ (Status(p) /\ Clean))
      BY <1>4, <2>3, OtherCalmSteps
    <3>2. promised' = promised
      BY <2>3 DEF InitRepo, InitRepoFails, WriteIgnore, CheckRepo, AddFails, StatusFails,
                  CommitFails
    <3> QED  BY <3>1, <3>2
  <2> QED  BY <1>4, <2>1, <2>2, <2>3 DEF GitSteps
<1> QED  BY <1>1, <1>2, <1>3, <1>4 DEF Next

-----------------------------------------------------------------------------
(* Versions *)

\* The versions of a file that are anywhere.
Known(path) ==
    {Missing, file[path], index[path], head[path]}
        \cup {scan[p][path] : p \in Procs} \cup {base[p][path] : p \in Procs}

\* None is newer than the clock, and two with the same number are the same.
VersionInv ==
    \A path \in Paths :
        /\ \A c, d \in Known(path) : c.ver = d.ver => c = d
        /\ \A c \in Known(path) : c.ver <= clock

\* Git only copies what it finds.
LEMMA KnownSteps ==
  ASSUME TypeOK, [Next]_vars, NEW path \in Paths
  PROVE  \/ Known(path)' \subseteq Known(path) /\ clock' = clock
         \/ /\ clock' = clock + 1 /\ file'[path].ver = clock'
            /\ Known(path)' \subseteq Known(path) \cup {file'[path]}
         \/ clock' = clock + 1 /\ Known(path)' \subseteq Known(path)
<1> USE DEF Known
<1>1. CASE UNCHANGED vars
  BY <1>1 DEF vars, dirVars, gitVars, gitLocal
<1>2. ASSUME NEW p \in Procs, Calm(p)
      PROVE  \/ Known(path)' \subseteq Known(path) /\ clock' = clock
             \/ /\ clock' = clock + 1 /\ file'[path].ver = clock'
                /\ Known(path)' \subseteq Known(path) \cup {file'[path]}
             \/ clock' = clock + 1 /\ Known(path)' \subseteq Known(path)
  <2>1. Known(path)' \subseteq Known(path) \cup {file'[path]}
    <3>1. Empty[path] = Missing
      BY DEF Empty
    <3>2. index' = index /\ head' = head
      BY <1>2 DEF Calm
    <3>3. \A q \in Procs : scan'[q][path] \in Known(path) /\ base'[q][path] \in Known(path)
      BY <1>2, <3>1 DEF Calm
    <3> QED  BY <3>2, <3>3
  <2>2. CASE UNCHANGED dirVars
    BY <2>1, <2>2 DEF dirVars
  <2>3. ASSUME NEW other \in Paths, NEW present \in BOOLEAN, Put(p, other, present)
        PROVE  clock' = clock + 1 /\ (file'[path].ver = clock' \/ file'[path] = file[path])
    BY <2>3 DEF Put, TypeOK
  <2> QED  BY <1>2, <2>1, <2>2, <2>3 DEF Calm
<1>3. ASSUME NEW p \in Procs, Commit(p)
      PROVE  Known(path)' \subseteq Known(path) /\ clock' = clock
  <2>0. file' = file /\ clock' = clock
    BY <1>3 DEF Commit, dirVars
  <2>1. CASE AddTracked(p)
    BY <2>0, <2>1 DEF AddTracked, TypeOK
  <2>2. CASE AddNew(p)
    BY <2>0, <2>2 DEF AddNew, TypeOK, gitLocal
  <2>3. CASE CommitTree(p)
    BY <2>0, <2>3 DEF CommitTree, TypeOK, gitVars
  <2>4. CASE MoveHead(p)
    <3>1. Empty[path] = Missing
      BY DEF Empty
    <3> QED  BY <2>0, <2>4, <3>1 DEF MoveHead, AfterCommit, TypeOK
  <2>5. CASE Status(p) /\ ~Clean
    BY <2>0, <2>5 DEF Status, gitVars, gitLocal
  <2> QED  BY <1>3, <2>1, <2>2, <2>3, <2>4, <2>5 DEF Commit
<1> QED  BY <1>1, <1>2, <1>3, CalmOrCommit

\* Every step preserves VersionInv.
LEMMA NextVersionInv == TypeOK /\ VersionInv /\ [Next]_vars => VersionInv'
<1> SUFFICES ASSUME TypeOK, VersionInv, [Next]_vars, NEW path \in Paths
             PROVE  /\ \A c, d \in Known(path)' : c.ver = d.ver => c = d
                    /\ \A c \in Known(path)' : c.ver <= clock'
  BY DEF VersionInv
<1>1. clock \in Nat
  BY DEF TypeOK
<1>2. \A c \in Known(path) : c.ver \in Nat /\ c.ver <= clock
  BY DEF VersionInv, Known, TypeOK, Content, Missing
<1>3. \A c, d \in Known(path) : c.ver = d.ver => c = d
  BY DEF VersionInv
<1> QED  BY <1>1, <1>2, <1>3, KnownSteps

-----------------------------------------------------------------------------
(* What is newer than what *)

\* git add holds index.lock; HEAD is no newer than the index, nor that than the
\* directory; what a git add or a git commit has built fits in between; and no
\* commit that can still move HEAD is older than what was vouched for.
OrderInv ==
    /\ \A p \in Procs : pc[p] = "addNew" => indexLock = p
    /\ \A path \in Paths :
          /\ head[path].ver <= index[path].ver /\ index[path].ver <= file[path].ver
          /\ promised[path].ver <= index[path].ver
    /\ \A p \in Procs : pc[p] = "addNew" => \A path \in Paths :
          /\ index[path].ver <= scan[p][path].ver
          /\ scan[p][path].ver <= file[path].ver
    /\ \A p \in Procs : pc[p] = "head" => \A path \in Paths :
          /\ base[p][path].ver <= scan[p][path].ver
          /\ base[p][path].ver <= head[path].ver
          /\ scan[p][path].ver <= index[path].ver
          /\ head = base[p] => promised[path].ver <= scan[p][path].ver

\* The files only get newer.
LEMMA FilesGrow ==
  ASSUME TypeOK, VersionInv, NEW p \in Procs, Calm(p), NEW path \in Paths
  PROVE  file[path].ver <= file'[path].ver
<1>1. file[path].ver <= clock /\ file[path].ver \in Nat /\ clock \in Nat
  BY DEF VersionInv, Known, TypeOK, Content
<1>2. CASE UNCHANGED dirVars
  BY <1>1, <1>2 DEF dirVars
<1>3. ASSUME NEW other \in Paths, NEW present \in BOOLEAN, Put(p, other, present)
      PROVE  file[path].ver <= file'[path].ver
  BY <1>1, <1>3 DEF Put, TypeOK
<1> QED  BY <1>2, <1>3 DEF Calm

\* Every step preserves OrderInv.
LEMMA NextOrderInv == TypeOK /\ VersionInv /\ OrderInv /\ [Next]_vars => OrderInv'
<1> SUFFICES ASSUME TypeOK, VersionInv, OrderInv, [Next]_vars PROVE OrderInv'
  OBVIOUS
<1>0. \A t \in {file, index, head, promised} : \A path \in Paths : t[path].ver \in Nat
  BY DEF TypeOK, Content
<1>a. \A p \in Procs, path \in Paths : scan[p][path].ver \in Nat /\ base[p][path].ver \in Nat
  BY DEF TypeOK, Content
<1>1. CASE UNCHANGED vars
  BY <1>1 DEF vars, dirVars, gitVars, gitLocal, OrderInv
<1>2. ASSUME NEW p \in Procs, Calm(p), promised' = promised \/ (Status(p) /\ Clean)
      PROVE  OrderInv'
  <2>1. index' = index /\ head' = head
    BY <1>2 DEF Calm
  <2>2. \A path \in Paths : file[path].ver <= file'[path].ver /\ file'[path].ver \in Nat
    <3>1. file' \in [Paths -> Content]
      BY NextTypeOK DEF TypeOK
    <3> QED  BY <1>2, <3>1, FilesGrow DEF Content
  <2>3. pc'[p] \notin Committing /\ \A q \in Procs : q # p =>
           pc'[q] = pc[q] /\ scan'[q] = scan[q] /\ base'[q] = base[q]
    <3>1. PICK stage \in Stages \ Committing : Goto(p, stage)
      BY <1>2 DEF Calm
    <3> QED  BY <1>2, <3>1 DEF Calm, Goto, TypeOK
  <2>4. \A q \in Procs : pc'[q] = "addNew" => indexLock' = q
    BY <1>2, <2>3 DEF Calm, OrderInv, Committing
  <2>5. \A path \in Paths : promised'[path].ver <= index[path].ver
    BY <1>0, <1>2 DEF Status, Vouch, OrderInv
  <2>6. \A q \in Procs : pc'[q] = "head" => promised' = promised
    BY <1>2, <2>3 DEF Status, CommitOnItsWay, Committing
  <2> QED
    BY <1>0, <1>a, <2>1, <2>2, <2>3, <2>4, <2>5, <2>6 DEF OrderInv, Committing
<1>3. ASSUME NEW p \in Procs, UNCHANGED dirVars, AddTracked(p)
      PROVE  OrderInv'
  <2>1. scan'[p] = [path \in Paths |->
            IF index[path].here \/ ~Here(path) THEN file[path] ELSE index[path]]
    BY <1>3 DEF AddTracked, TypeOK
  <2>2. \A path \in Paths : scan'[p][path] \in {file[path], index[path]}
    BY <2>1
  <2>3. \A q \in Procs : q # p => pc'[q] = pc[q] /\ scan'[q] = scan[q]
    BY <1>3 DEF AddTracked, Goto
  <2>4. pc'[p] = "addNew" /\ \A q \in Procs : pc[q] # "addNew"
    BY <1>3, DirAssumption DEF AddTracked, Goto, TypeOK, OrderInv
  <2>5. indexLock' = p /\ UNCHANGED <<file, index, head, base, promised>>
    BY <1>3 DEF AddTracked, dirVars
  <2> QED  BY <1>0, <1>a, <2>2, <2>3, <2>4, <2>5 DEF OrderInv
<1>4. ASSUME NEW p \in Procs, UNCHANGED dirVars, AddNew(p)
      PROVE  OrderInv'
  <2>1. \A path \in Paths : index'[path] \in {file[path], scan[p][path]}
    BY <1>4 DEF AddNew
  <2>2. pc[p] = "addNew" /\ \A q \in Procs : pc'[q] = IF q = p THEN "status" ELSE pc[q]
    BY <1>4 DEF AddNew, Goto, TypeOK
  <2>3. \A q \in Procs : pc'[q] # "addNew"
    BY <2>2 DEF OrderInv
  <2>4. UNCHANGED <<file, head, base, promised, scan>>
    BY <1>4 DEF AddNew, dirVars, gitLocal
  <2>5. \A path \in Paths : index[path].ver <= index'[path].ver
                               /\ index'[path].ver <= file[path].ver /\ index'[path].ver \in Nat
    BY <1>0, <1>a, <2>1, <2>2 DEF OrderInv
  <2> QED  BY <1>0, <1>a, <2>2, <2>3, <2>4, <2>5 DEF OrderInv
<1>5. ASSUME NEW p \in Procs, UNCHANGED dirVars, CommitTree(p)
      PROVE  OrderInv'
  <2>1. scan'[p] = index /\ base'[p] = head /\ pc'[p] = "head"
    BY <1>5 DEF CommitTree, Goto, TypeOK
  <2>2. \A q \in Procs : q # p => /\ pc'[q] = pc[q] /\ scan'[q] = scan[q]
                                  /\ base'[q] = base[q]
    BY <1>5 DEF CommitTree, Goto
  <2>3. UNCHANGED <<file, index, head, indexLock, promised>>
    BY <1>5 DEF CommitTree, dirVars, gitVars
  <2> QED  BY <1>0, <1>a, <2>1, <2>2, <2>3 DEF OrderInv
<1>6. ASSUME NEW p \in Procs, UNCHANGED dirVars, MoveHead(p)
      PROVE  OrderInv'
  <2>1. pc[p] = "head" /\ head = base[p] /\ head' = scan[p]
    BY <1>6 DEF MoveHead
  <2>2. pc'[p] \notin Committing /\ \A q \in Procs : q # p =>
           pc'[q] = pc[q] /\ scan'[q] = scan[q] /\ base'[q] = base[q]
    <3>1. PICK stage \in {"idle", "audit"} : Goto(p, stage)
      BY <1>6, AfterCommitStage DEF MoveHead
    <3> QED  BY <1>6, <3>1 DEF MoveHead, AfterCommit, Goto, TypeOK, Committing
  <2>3. UNCHANGED <<file, index, indexLock>>
    BY <1>6 DEF MoveHead, dirVars
  <2>4. \A path \in Paths : promised'[path].ver = scan[p][path].ver
    <3>1. \A path \in Paths : promised[path].ver <= scan[p][path].ver
      BY <2>1 DEF OrderInv
    <3>2. promised' = [path \in Paths |-> IF scan[p][path].ver > promised[path].ver
                                             THEN scan[p][path] ELSE promised[path]]
      BY <1>6 DEF MoveHead, Vouch
    <3>3. ASSUME NEW path \in Paths
          PROVE  promised'[path].ver = scan[p][path].ver
      <4>1. /\ promised[path].ver \in Nat /\ scan[p][path].ver \in Nat
            /\ promised[path].ver <= scan[p][path].ver
        BY <1>0, <1>a, <3>1
      <4>2. promised'[path] = IF scan[p][path].ver > promised[path].ver
                                 THEN scan[p][path] ELSE promised[path]
        BY <3>2
      <4> QED  BY <4>1, <4>2
    <3> QED  BY <3>3
  <2>5. \A path \in Paths : head[path].ver <= head'[path].ver
    BY <2>1 DEF OrderInv
  <2>6. \A q \in Procs : pc'[q] = "head" /\ head' = base'[q] =>
           \A path \in Paths : promised'[path].ver <= scan'[q][path].ver
    <3> SUFFICES ASSUME NEW q \in Procs, pc'[q] = "head", head' = base'[q], NEW path \in Paths
                 PROVE  promised'[path].ver <= scan'[q][path].ver
      OBVIOUS
    <3>1. q # p /\ pc[q] = "head" /\ base[q] = scan[p] /\ scan'[q] = scan[q]
      BY <2>1, <2>2 DEF Committing
    <3>2. base[q][path].ver <= scan[q][path].ver
      BY <3>1 DEF OrderInv
    <3> QED  BY <2>4, <3>1, <3>2
  <2> HIDE DEF Committing
  <2>7. \A q \in Procs : pc'[q] = "addNew" => pc[q] = "addNew" /\ scan'[q] = scan[q]
    BY <2>2 DEF Committing
  <2>8. \A q \in Procs : pc'[q] = "head" => pc[q] = "head" /\ scan'[q] = scan[q] /\ base'[q] = base[q]
    BY <2>2 DEF Committing
  <2>9. \A path \in Paths : head'[path].ver <= index[path].ver
                              /\ promised'[path].ver <= index[path].ver
    BY <2>1, <2>4 DEF OrderInv
  <2>10. \A q \in Procs, path \in Paths : pc'[q] = "head" => base[q][path].ver <= head'[path].ver
    <3> SUFFICES ASSUME NEW q \in Procs, NEW path \in Paths, pc[q] = "head"
                 PROVE  base[q][path].ver <= head'[path].ver
      BY <2>8
    <3>1. base[q][path].ver <= head[path].ver
      BY DEF OrderInv
    <3> QED  BY <1>0, <1>a, <2>1, <2>5, <3>1
  <2> QED  BY <2>3, <2>6, <2>7, <2>8, <2>9, <2>10 DEF OrderInv
<1>7. ASSUME NEW p \in Procs, UNCHANGED dirVars, Status(p), ~Clean
      PROVE  OrderInv'
  <2>1. \A q \in Procs : pc'[q] = IF q = p THEN "tree" ELSE pc[q]
    BY <1>7 DEF Status, Goto, TypeOK
  <2>2. UNCHANGED <<file, index, head, base, scan, promised, indexLock>>
    BY <1>7 DEF Status, gitVars, gitLocal, dirVars
  <2> QED  BY <2>1, <2>2 DEF OrderInv
<1> QED
  BY <1>1, <1>2, <1>3, <1>4, <1>5, <1>6, <1>7, CalmOrCommit DEF Commit

\* A git add will take in every file as it was when it began, or a newer version.
SeenInv ==
    \A p \in Procs : pc[p] = "addNew" =>
        \A path \in Paths \ {".lock"} :
            /\ seen[p][path].ver <= file[path].ver
            /\ path \notin listed[p] => seen[p][path].ver <= scan[p][path].ver

\* Every step preserves the promise of commit_all.
LEMMA NextCommitsAreKept ==
  TypeOK /\ VersionInv /\ OrderInv /\ SeenInv /\ CommitsAreKept /\ [Next]_vars
      => SeenInv' /\ CommitsAreKept'
<1> SUFFICES ASSUME TypeOK, VersionInv, OrderInv, SeenInv, CommitsAreKept, [Next]_vars
             PROVE  SeenInv' /\ CommitsAreKept'
  OBVIOUS
<1>0. \A t \in {file, index, head, promised} : \A path \in Paths : t[path].ver \in Nat
  BY DEF TypeOK, Content
<1>a. \A p \in Procs, path \in Paths : scan[p][path].ver \in Nat /\ seen[p][path].ver \in Nat
  BY DEF TypeOK, Content
<1>b. \A path \in Paths \ {".lock"} :
         head[path].ver >= promised[path].ver \/ (~head[path].here /\ ~promised[path].here)
  BY DEF CommitsAreKept
<1>c. \A p \in Procs, path \in Paths \ {".lock"} :
         /\ pc[p] \in {"status", "tree"} => seen[p][path].ver <= index[path].ver
         /\ pc[p] = "head" => seen[p][path].ver <= scan[p][path].ver
  BY <1>0, <1>a DEF CommitsAreKept
<1>1. CASE UNCHANGED vars
  BY <1>1 DEF vars, dirVars, gitVars, gitLocal, SeenInv, CommitsAreKept
<1>2. ASSUME NEW p \in Procs, Calm(p), promised' = promised \/ (Status(p) /\ Clean)
      PROVE  SeenInv' /\ CommitsAreKept'
  <2>1. index' = index /\ head' = head
    BY <1>2 DEF Calm
  <2>2. \A path \in Paths : file[path].ver <= file'[path].ver /\ file'[path].ver \in Nat
    <3>1. file' \in [Paths -> Content]
      BY NextTypeOK DEF TypeOK
    <3> QED  BY <1>2, <3>1, FilesGrow DEF Content
  <2>3. \A q \in Procs : pc'[q] \in Committing =>
           /\ pc'[q] = pc[q] /\ scan'[q] = scan[q]
           /\ seen'[q] = seen[q] /\ listed'[q] = listed[q]
    <3>1. PICK stage \in Stages \ Committing : Goto(p, stage)
      BY <1>2 DEF Calm
    <3> QED  BY <1>2, <3>1 DEF Calm, Goto, TypeOK
  <2>4. SeenInv'
    BY <1>0, <1>a, <2>2, <2>3 DEF SeenInv, Committing
  <2>5. \A path \in Paths \ {".lock"} :
           head[path].ver >= promised'[path].ver \/ (~head[path].here /\ ~promised'[path].here)
    <3> SUFFICES ASSUME NEW path \in Paths \ {".lock"}, promised'[path] # promised[path]
                 PROVE  \/ head[path].ver >= promised'[path].ver
                        \/ ~head[path].here /\ ~promised'[path].here
      BY <1>b
    <3>1. Vouch(index) /\ Clean
      BY <1>2 DEF Status
    <3>2. promised'[path] = index[path]
      BY <3>1 DEF Vouch
    <3>3. head[path] = index[path] \/ ~(head[path].here \/ index[path].here)
      BY <3>1 DEF Clean, Agree
    <3> QED  BY <1>0, <3>2, <3>3
  <2> QED
    BY <1>c, <2>1, <2>3, <2>4, <2>5, <1>0, <1>a DEF CommitsAreKept, Committing
<1>3. ASSUME NEW p \in Procs, UNCHANGED dirVars, AddTracked(p)
      PROVE  SeenInv' /\ CommitsAreKept'
  <2>1. scan'[p] = [path \in Paths |->
            IF index[path].here \/ ~Here(path) THEN file[path] ELSE index[path]]
    BY <1>3 DEF AddTracked, TypeOK
  <2>2. seen'[p] = file /\ listed'[p] = Untracked
    BY <1>3 DEF AddTracked, TypeOK
  <2>3. \A path \in Paths \ {".lock"} : path \notin Untracked => scan'[p][path] = file[path]
    BY <2>1 DEF Untracked, Local
  <2>4. \A q \in Procs : q # p =>
           /\ pc'[q] = pc[q] /\ scan'[q] = scan[q]
           /\ seen'[q] = seen[q] /\ listed'[q] = listed[q]
    BY <1>3 DEF AddTracked, Goto
  <2>5. pc'[p] = "addNew" /\ UNCHANGED <<file, index, head, promised>>
    BY <1>3 DEF AddTracked, Goto, TypeOK, dirVars
  <2>6. SeenInv'
    BY <1>0, <2>2, <2>3, <2>4, <2>5 DEF SeenInv
  <2> QED  BY <1>0, <1>a, <1>b, <1>c, <2>4, <2>5, <2>6 DEF CommitsAreKept
<1>4. ASSUME NEW p \in Procs, UNCHANGED dirVars, AddNew(p)
      PROVE  SeenInv' /\ CommitsAreKept'
  <2>1. \A path \in Paths :
           index'[path] = IF path \in listed[p] THEN file[path] ELSE scan[p][path]
    BY <1>4 DEF AddNew
  <2>2. pc[p] = "addNew" /\ \A q \in Procs : pc'[q] = IF q = p THEN "status" ELSE pc[q]
    BY <1>4 DEF AddNew, Goto, TypeOK
  <2>3. UNCHANGED <<file, head, promised, scan, seen, listed>>
    BY <1>4 DEF AddNew, dirVars, gitLocal
  <2>4. \A path \in Paths : index[path].ver <= index'[path].ver /\ index'[path].ver \in Nat
    BY <1>0, <1>a, <2>1, <2>2 DEF OrderInv
  <2>5. \A path \in Paths \ {".lock"} : seen[p][path].ver <= index'[path].ver
    BY <2>1, <2>2 DEF SeenInv
  <2>6. SeenInv'
    BY <2>2, <2>3 DEF SeenInv
  <2>7. \A q \in Procs, path \in Paths \ {".lock"} :
           pc'[q] \in {"status", "tree"} => index'[path].ver >= seen'[q][path].ver
    BY <1>0, <1>a, <1>c, <2>2, <2>3, <2>4, <2>5
  <2> QED  BY <1>0, <1>a, <1>b, <1>c, <2>2, <2>3, <2>6, <2>7 DEF CommitsAreKept
<1>5. ASSUME NEW p \in Procs, UNCHANGED dirVars, CommitTree(p)
      PROVE  SeenInv' /\ CommitsAreKept'
  <2>1. scan'[p] = index /\ pc'[p] = "head" /\ pc[p] = "tree"
    BY <1>5 DEF CommitTree, Goto, TypeOK
  <2>2. \A q \in Procs : q # p => pc'[q] = pc[q] /\ scan'[q] = scan[q]
    BY <1>5 DEF CommitTree, Goto
  <2>3. UNCHANGED <<file, index, head, promised, seen, listed>>
    BY <1>5 DEF CommitTree, dirVars, gitVars
  <2>4. SeenInv'
    BY <2>1, <2>2, <2>3 DEF SeenInv
  <2> QED  BY <1>0, <1>a, <1>b, <1>c, <2>1, <2>2, <2>3, <2>4 DEF CommitsAreKept
<1>6. ASSUME NEW p \in Procs, UNCHANGED dirVars, MoveHead(p)
      PROVE  SeenInv' /\ CommitsAreKept'
  <2>1. pc[p] = "head" /\ head = base[p] /\ head' = scan[p]
    BY <1>6 DEF MoveHead
  <2>2. \A q \in Procs : pc'[q] \in Committing =>
           /\ pc'[q] = pc[q] /\ scan'[q] = scan[q]
           /\ seen'[q] = seen[q] /\ listed'[q] = listed[q]
    <3>1. PICK stage \in {"idle", "audit"} : Goto(p, stage)
      BY <1>6, AfterCommitStage DEF MoveHead
    <3> QED  BY <1>6, <3>1 DEF MoveHead, AfterCommit, Goto, TypeOK, Committing
  <2>3. UNCHANGED <<file, index>>
    BY <1>6 DEF MoveHead, dirVars
  <2>4. ASSUME NEW path \in Paths
        PROVE  promised'[path].ver <= head'[path].ver /\ head'[path].ver \in Nat
                  /\ promised'[path].ver \in Nat
    <3>1. promised[path].ver <= scan[p][path].ver
      BY <2>1 DEF OrderInv
    <3>2. promised'[path] \in {promised[path], scan[p][path]}
      BY <1>6 DEF MoveHead, Vouch
    <3> QED  BY <1>0, <1>a, <2>1, <3>1, <3>2
  <2>5. SeenInv'
    BY <2>2, <2>3 DEF SeenInv, Committing
  <2> QED
    BY <1>0, <1>a, <1>c, <2>2, <2>3, <2>4, <2>5 DEF CommitsAreKept, Committing
<1>7. ASSUME NEW p \in Procs, UNCHANGED dirVars, Status(p), ~Clean
      PROVE  SeenInv' /\ CommitsAreKept'
  <2>1. pc[p] = "status" /\ \A q \in Procs : pc'[q] = IF q = p THEN "tree" ELSE pc[q]
    BY <1>7 DEF Status, Goto, TypeOK
  <2>2. UNCHANGED <<file, index, head, scan, promised, seen, listed>>
    BY <1>7 DEF Status, gitVars, gitLocal, dirVars
  <2>3. SeenInv'
    BY <2>1, <2>2 DEF SeenInv
  <2> QED  BY <1>0, <1>a, <1>b, <1>c, <2>1, <2>2, <2>3 DEF CommitsAreKept
<1> QED
  BY <1>1, <1>2, <1>3, <1>4, <1>5, <1>6, <1>7, CalmOrCommit DEF Commit

-----------------------------------------------------------------------------
(* The lock file *)

\* What happened has happened.
LEMMA HistoryStays ==
  ASSUME TypeOK, [Next]_vars
  PROVE  /\ crashes' = 0 => crashes = 0
         /\ ~overlap' => ~overlap
         /\ ~missed' => ~missed
<1>1. crashes' = crashes \/ crashes' = crashes + 1
  BY DEF Next, vars, Start, InitSteps, WriteMasterGpg, EncryptFails, WriteMasterJson,
         WriteEmptyManifest, Crash
<1>2. ~overlap' => ~overlap
  BY DEF Next, vars, Start, InitSteps, WriteMasterGpg, EncryptFails, WriteMasterJson,
         WriteEmptyManifest, Crash
<1>3. missed' = missed \/ missed' = TRUE
  <2>1. ASSUME NEW p \in Procs, Commands(p) PROVE missed' = missed \/ missed' = TRUE
    BY <2>1 DEF Commands, Resolve, AcquireLock, ChangeSecret, SaveManifest, AppendAudit,
                AppendAuditFails
  <2>2. ASSUME NEW p \in Procs, GitSteps(p) PROVE missed' = missed \/ missed' = TRUE
    BY <2>2 DEF GitSteps, InitRepo, InitRepoFails, WriteIgnore, CheckRepo, AddTracked,
                AddNew, AddFails, Status, StatusFails, CommitTree, MoveHead, CommitFails
  <2>3. ASSUME NEW p \in Procs, (\E op \in Ops : Start(p, op)) \/ InitSteps(p)
        PROVE missed' = missed
    BY <2>3 DEF Start, InitSteps, WriteMasterGpg, EncryptFails, WriteMasterJson,
                WriteEmptyManifest
  <2> QED  BY <2>1, <2>2, <2>3 DEF Next, Crash, vars
<1>4. crashes \in Nat
  BY DirAssumption DEF TypeOK
<1> QED  BY <1>1, <1>2, <1>3, <1>4

\* Without a crash and an overlap nothing git builds has the lock file.
LockFileInv ==
    crashes = 0 /\ ~overlap =>
        /\ ~index[".lock"].here /\ ~head[".lock"].here
        /\ \A p \in Procs :
              /\ pc[p] = "addNew" => ".lock" \notin listed[p]
              /\ pc[p] \in {"addNew", "head"} => ~scan[p][".lock"].here

\* Every step preserves LockFileInv.
LEMMA NextLockFileInv ==
  TypeOK /\ AloneInv /\ RepoInv /\ LockFileInv /\ [Next]_vars => LockFileInv'
<1> SUFFICES ASSUME TypeOK, AloneInv, RepoInv, LockFileInv, [Next]_vars,
                    crashes = 0, ~overlap
             PROVE  LockFileInv'
  BY HistoryStays DEF LockFileInv
<1> USE DEF LockFileInv
<1>0. ".lock" \in Paths
  BY DEF Paths
<1>1. CASE UNCHANGED vars
  BY <1>1 DEF vars, dirVars, gitVars, gitLocal
<1>2. ASSUME NEW p \in Procs, Calm(p)
      PROVE  LockFileInv'
  <2>1. index' = index /\ head' = head
    BY <1>2 DEF Calm
  <2>2. \A q \in Procs : pc'[q] \in Committing =>
           pc'[q] = pc[q] /\ scan'[q] = scan[q] /\ listed'[q] = listed[q]
    <3>1. PICK stage \in Stages \ Committing : Goto(p, stage)
      BY <1>2 DEF Calm
    <3> QED  BY <1>2, <3>1 DEF Calm, Goto, TypeOK
  <2> QED  BY <2>1, <2>2 DEF Committing
<1>3. ASSUME NEW p \in Procs, UNCHANGED dirVars, AddTracked(p)
      PROVE  LockFileInv'
  <2>1. scan'[p] = [path \in Paths |->
            IF index[path].here \/ ~Here(path) THEN file[path] ELSE index[path]]
    BY <1>3 DEF AddTracked, TypeOK
  <2>2. ignoring
    <3>1. pc[p] = "add" /\ repo
      BY <1>3 DEF AddTracked, RepoInv
    <3>2. ASSUME NEW q \in Procs, pc[q] = "ignore" PROVE FALSE
      BY <3>1, <3>2 DEF AloneInv, Making
    <3> QED  BY <3>1, <3>2 DEF RepoInv
  <2>3. listed'[p] = Untracked /\ ".lock" \notin Untracked
    BY <1>3, <2>2 DEF AddTracked, TypeOK, Untracked, Local
  <2>4. ~scan'[p][".lock"].here
    BY <1>0, <2>1 DEF Here
  <2>5. \A q \in Procs : q # p =>
           pc'[q] = pc[q] /\ scan'[q] = scan[q] /\ listed'[q] = listed[q]
    BY <1>3 DEF AddTracked, Goto
  <2>6. index' = index /\ head' = head
    BY <1>3 DEF AddTracked
  <2> QED  BY <2>3, <2>4, <2>5, <2>6
<1>4. ASSUME NEW p \in Procs, UNCHANGED dirVars, AddNew(p)
      PROVE  LockFileInv'
  <2>1. index'[".lock"] = IF ".lock" \in listed[p] THEN file[".lock"] ELSE scan[p][".lock"]
    BY <1>0, <1>4 DEF AddNew
  <2>2. pc[p] = "addNew" /\ \A q \in Procs : pc'[q] = IF q = p THEN "status" ELSE pc[q]
    BY <1>4 DEF AddNew, Goto, TypeOK
  <2>3. UNCHANGED <<head, scan, listed>>
    BY <1>4 DEF AddNew, gitLocal
  <2> QED  BY <2>1, <2>2, <2>3
<1>5. ASSUME NEW p \in Procs, UNCHANGED dirVars, CommitTree(p)
      PROVE  LockFileInv'
  <2>1. scan'[p] = index /\ pc'[p] = "head"
    BY <1>5 DEF CommitTree, Goto, TypeOK
  <2>2. \A q \in Procs : q # p => pc'[q] = pc[q] /\ scan'[q] = scan[q]
    BY <1>5 DEF CommitTree, Goto
  <2>3. UNCHANGED <<index, head, listed>>
    BY <1>5 DEF CommitTree, gitVars
  <2> QED  BY <2>1, <2>2, <2>3
<1>6. ASSUME NEW p \in Procs, UNCHANGED dirVars, MoveHead(p)
      PROVE  LockFileInv'
  <2>1. pc[p] = "head" /\ head' = scan[p] /\ index' = index
    BY <1>6 DEF MoveHead
  <2>2. \A q \in Procs : pc'[q] \in Committing =>
           pc'[q] = pc[q] /\ scan'[q] = scan[q] /\ listed'[q] = listed[q]
    <3>1. PICK stage \in {"idle", "audit"} : Goto(p, stage)
      BY <1>6, AfterCommitStage DEF MoveHead
    <3> QED  BY <1>6, <3>1 DEF MoveHead, AfterCommit, Goto, TypeOK, Committing
  <2> QED  BY <2>1, <2>2 DEF Committing
<1>7. ASSUME NEW p \in Procs, UNCHANGED dirVars, Status(p), ~Clean
      PROVE  LockFileInv'
  <2>1. pc[p] = "status" /\ \A q \in Procs : pc'[q] = IF q = p THEN "tree" ELSE pc[q]
    BY <1>7 DEF Status, Goto, TypeOK
  <2>2. UNCHANGED <<index, head, scan, listed>>
    BY <1>7 DEF Status, gitVars, gitLocal
  <2> QED  BY <2>1, <2>2
<1> QED
  BY <1>1, <1>2, <1>3, <1>4, <1>5, <1>6, <1>7, CalmOrCommit DEF Commit

-----------------------------------------------------------------------------
(* What a git add and a git commit carry *)

\* Where what is carried comes from, and what writes the index and HEAD.
LEMMA Carried ==
  ASSUME TypeOK, [Next]_vars
  PROVE  /\ \A q \in Procs :
               /\ pc'[q] = "head" =>
                     \/ CommitTree(q)
                     \/ pc[q] = "head" /\ scan'[q] = scan[q] /\ base'[q] = base[q]
               /\ pc'[q] = "addNew" =>
                     \/ AddTracked(q)
                     \/ pc[q] = "addNew" /\ scan'[q] = scan[q] /\ listed'[q] = listed[q]
         /\ index' = index \/ \E p \in Procs : AddNew(p)
         /\ head' = head \/ \E p \in Procs : MoveHead(p)
<1>1. CASE UNCHANGED vars
  BY <1>1 DEF vars, gitVars, gitLocal
<1>2. ASSUME NEW p \in Procs, Calm(p)
      PROVE  /\ \A q \in Procs : pc'[q] \in Committing =>
                   /\ pc'[q] = pc[q] /\ scan'[q] = scan[q]
                   /\ base'[q] = base[q] /\ listed'[q] = listed[q]
             /\ index' = index /\ head' = head
  <2>1. PICK stage \in Stages \ Committing : Goto(p, stage)
    BY <1>2 DEF Calm
  <2> QED  BY <1>2, <2>1 DEF Calm, Goto, TypeOK
<1>3. ASSUME NEW p \in Procs, AddTracked(p)
      PROVE  /\ index' = index /\ head' = head
             /\ \A q \in Procs \ {p} : /\ pc'[q] = pc[q] /\ scan'[q] = scan[q]
                                       /\ base'[q] = base[q] /\ listed'[q] = listed[q]
             /\ pc'[p] = "addNew"
  BY <1>3 DEF AddTracked, Goto, TypeOK
<1>4. ASSUME NEW p \in Procs, AddNew(p) \/ (Status(p) /\ ~Clean)
      PROVE  /\ head' = head /\ scan' = scan /\ base' = base /\ listed' = listed
             /\ AddNew(p) \/ index' = index
             /\ \A q \in Procs \ {p} : pc'[q] = pc[q]
             /\ pc'[p] \in {"status", "tree"}
  BY <1>4 DEF AddNew, Status, Goto, TypeOK, gitVars, gitLocal
<1>5. ASSUME NEW p \in Procs, CommitTree(p)
      PROVE  /\ index' = index /\ head' = head /\ listed' = listed
             /\ \A q \in Procs \ {p} : /\ pc'[q] = pc[q] /\ scan'[q] = scan[q]
                                       /\ base'[q] = base[q]
             /\ pc'[p] = "head"
  BY <1>5 DEF CommitTree, Goto, TypeOK, gitVars
<1>6. ASSUME NEW p \in Procs, MoveHead(p)
      PROVE  /\ index' = index
             /\ \A q \in Procs \ {p} : /\ pc'[q] = pc[q] /\ scan'[q] = scan[q]
                                       /\ base'[q] = base[q] /\ listed'[q] = listed[q]
             /\ pc'[p] \in {"idle", "audit"}
  <2>1. PICK stage \in {"idle", "audit"} : Goto(p, stage)
    BY <1>6, AfterCommitStage DEF MoveHead
  <2> QED  BY <1>6, <2>1 DEF MoveHead, AfterCommit, Goto, TypeOK
<1>7. CASE \E p \in Procs : Calm(p)
  BY <1>2, <1>7 DEF Committing
<1>8. ASSUME NEW p \in Procs, Commit(p)
      PROVE  \/ AddTracked(p) \/ AddNew(p) \/ (Status(p) /\ ~Clean)
             \/ CommitTree(p) \/ MoveHead(p)
  BY <1>8 DEF Commit
<1>9. CASE \E p \in Procs : AddTracked(p) \/ CommitTree(p)
  BY <1>3, <1>5, <1>9
<1>10. CASE \E p \in Procs : AddNew(p) \/ (Status(p) /\ ~Clean) \/ MoveHead(p)
  BY <1>4, <1>6, <1>10
<1> QED  BY <1>1, <1>7, <1>8, <1>9, <1>10, CalmOrCommit

\* A git commit never builds the tree it builds on.
TreeInv == \A p \in Procs : pc[p] = "head" => ~Agree(scan[p], base[p])

\* Every step preserves TreeInv.
LEMMA NextTreeInv == TypeOK /\ TreeInv /\ [Next]_vars => TreeInv'
<1> SUFFICES ASSUME TypeOK, TreeInv, [Next]_vars, NEW q \in Procs, pc'[q] = "head"
             PROVE  ~Agree(scan'[q], base'[q])
  BY DEF TreeInv, Agree
<1>1. CASE CommitTree(q)
  <2>1. scan'[q] = index /\ base'[q] = head /\ ~Agree(index, head)
    BY <1>1 DEF CommitTree, TypeOK
  <2> QED  BY <2>1
<1>2. CASE pc[q] = "head" /\ scan'[q] = scan[q] /\ base'[q] = base[q]
  BY <1>2 DEF TreeInv
<1> QED  BY <1>1, <1>2, Carried

\* A tree with an old secret has a manifest older than the secret there is.
Lagging(tree) ==
    tree["secret"].here /\ tree["secret"].ver < file["secret"].ver =>
        tree["manifest"].ver < file["secret"].ver

\* What git has of a secret comes with the manifest of that time.
TrackInv ==
    /\ index["secret"].here => index["manifest"].here
    /\ Lagging(index)
    /\ \A p \in Procs : pc[p] = "addNew" =>
          /\ "manifest" \in listed[p] \/ scan[p]["manifest"].here
          /\ scan[p]["secret"].here => "manifest" \notin listed[p]
    /\ \A p \in Procs : pc[p] \in {"addNew", "head"} => Lagging(scan[p])

\* Every step preserves TrackInv.
LEMMA NextTrackInv ==
  TypeOK /\ VersionInv /\ RepoInv /\ TrackInv /\ [Next]_vars => TrackInv'
<1> SUFFICES ASSUME TypeOK, VersionInv, RepoInv, TrackInv, [Next]_vars PROVE TrackInv'
  OBVIOUS
<1>0. "secret" \in Paths /\ "manifest" \in Paths
  BY DEF Paths
<1>1. \A tree \in {index} \cup {scan[q] : q \in Procs} :
         /\ tree["manifest"].ver \in Nat /\ tree["secret"].ver \in Nat
         /\ tree["manifest"].ver <= clock
  BY <1>0 DEF VersionInv, Known, TypeOK, Content
<1>2. clock \in Nat /\ file["secret"].ver \in Nat
  BY <1>0 DEF TypeOK, Content
<1>3. file'["secret"] = file["secret"] \/ file'["secret"].ver > clock
  <2>1. ASSUME NEW p \in Procs, NEW path \in Paths, NEW present \in BOOLEAN,
               Put(p, path, present)
        PROVE  file'["secret"] = file["secret"] \/ file'["secret"].ver > clock
    BY <1>0, <1>2, <2>1 DEF Put, TypeOK
  <2> QED  BY <2>1, CalmOrCommit DEF Calm, Commit, dirVars, vars
<1>4. ASSUME NEW tree \in {index} \cup {scan[q] : q \in Procs}, Lagging(tree)
      PROVE  tree["secret"].here /\ tree["secret"].ver < file'["secret"].ver =>
                 tree["manifest"].ver < file'["secret"].ver
  <2>1. CASE file'["secret"] = file["secret"]
    BY <1>4, <2>1 DEF Lagging
  <2>2. CASE file'["secret"].ver > clock
    <3>1. file'["secret"].ver \in Nat
      BY <1>0, NextTypeOK DEF TypeOK, Content
    <3>2. tree["manifest"].ver \in Nat /\ tree["manifest"].ver <= clock
      BY <1>1
    <3> QED  BY <1>2, <2>2, <3>1, <3>2
  <2> QED  BY <1>3, <2>1, <2>2
<1>5. ASSUME NEW p \in Procs, AddTracked(p)
      PROVE  /\ "manifest" \in listed'[p] \/ scan'[p]["manifest"].here
             /\ scan'[p]["secret"].here => /\ "manifest" \notin listed'[p]
                                           /\ scan'[p]["secret"] = file["secret"]
  <2>1. scan'[p] = [path \in Paths |->
            IF index[path].here \/ ~Here(path) THEN file[path] ELSE index[path]]
    BY <1>5 DEF AddTracked, TypeOK
  <2>2. listed'[p] = Untracked
    BY <1>5 DEF AddTracked, TypeOK
  <2>3. Here("manifest")
    BY <1>5 DEF AddTracked, RepoInv
  <2>4. "manifest" \in Untracked <=> ~index["manifest"].here
    BY <1>0, <2>3 DEF Untracked, Local
  <2> QED  BY <1>0, <2>1, <2>2, <2>3, <2>4 DEF Here, TrackInv
<1>6. ASSUME NEW p \in Procs, AddTracked(p) PROVE file' = file
  BY <1>6, CalmOrCommit DEF AddTracked, Calm, Commit, Committing, dirVars, vars, Goto, TypeOK
<1>7. ASSUME NEW p \in Procs, AddNew(p)
      PROVE  /\ index'["secret"].here => index'["manifest"].here
             /\ \/ index'["secret"] = file["secret"] \/ ~index'["secret"].here
                \/ /\ index'["secret"] = scan[p]["secret"]
                   /\ index'["manifest"] = scan[p]["manifest"]
             /\ pc[p] = "addNew" /\ file' = file
  <2>1. \A path \in {"secret", "manifest"} :
           index'[path] = IF path \in listed[p] THEN file[path] ELSE scan[p][path]
    BY <1>0, <1>7 DEF AddNew
  <2>2. pc[p] = "addNew" /\ \A path \in listed[p] : file[path].here
    BY <1>7 DEF AddNew, Here
  <2>3. file' = file
    BY <1>7, CalmOrCommit DEF AddNew, Calm, Commit, Committing, dirVars, vars, Goto, TypeOK
  <2> QED  BY <2>1, <2>2, <2>3 DEF TrackInv
<1>8. index'["secret"].here => index'["manifest"].here
  BY <1>7, Carried DEF TrackInv
<1>9. Lagging(index)'
  <2>1. CASE index' = index
    BY <1>4, <2>1 DEF TrackInv, Lagging
  <2>2. ASSUME NEW p \in Procs, AddNew(p) PROVE Lagging(index)'
    <3>1. file["secret"].ver < file["secret"].ver => FALSE
      BY <1>2
    <3>2. Lagging(scan[p])
      BY <1>7, <2>2 DEF TrackInv
    <3> QED  BY <1>7, <2>2, <3>1, <3>2 DEF Lagging
  <2> QED  BY <2>1, <2>2, Carried
<1>10. ASSUME NEW q \in Procs, pc'[q] = "addNew"
       PROVE  /\ "manifest" \in listed'[q] \/ scan'[q]["manifest"].here
              /\ scan'[q]["secret"].here => "manifest" \notin listed'[q]
              /\ Lagging(scan[q])'
  <2>1. CASE AddTracked(q)
    <3>1. file["secret"].ver < file["secret"].ver => FALSE
      BY <1>2
    <3> QED  BY <1>5, <1>6, <2>1, <3>1 DEF Lagging
  <2>2. CASE pc[q] = "addNew" /\ scan'[q] = scan[q] /\ listed'[q] = listed[q]
    <3>1. Lagging(scan[q])
      BY <2>2 DEF TrackInv
    <3>2. Lagging(scan[q])'
      BY <1>4, <2>2, <3>1 DEF Lagging
    <3> QED  BY <2>2, <3>2 DEF TrackInv
  <2> QED  BY <1>10, <2>1, <2>2, Carried
<1>11. ASSUME NEW q \in Procs, pc'[q] = "head" PROVE Lagging(scan[q])'
  <2>1. CASE CommitTree(q)
    <3>1. scan'[q] = index
      BY <2>1 DEF CommitTree, TypeOK
    <3> QED  BY <1>4, <3>1 DEF TrackInv, Lagging
  <2>2. CASE pc[q] = "head" /\ scan'[q] = scan[q] /\ base'[q] = base[q]
    <3>1. Lagging(scan[q])
      BY <2>2 DEF TrackInv
    <3> QED  BY <1>4, <2>2, <3>1 DEF Lagging
  <2> QED  BY <1>11, <2>1, <2>2, Carried
<1> QED  BY <1>8, <1>9, <1>10, <1>11 DEF TrackInv

-----------------------------------------------------------------------------
(* Every change gets its commit *)

\* What a commit is to bring in: all files but the audit log, to which the
\* commands that change nothing add too, and what is local.
Changed == {"master.gpg", "master.json", "manifest", "secret"}

\* p has changed such a file, or will, and its git add comes after that.
WillAdd(p) ==
    \/ pc[p] \in {"json", "emptyManifest", "repo", "ignore", "save", "check", "add"}
    \/ pc[p] = "audit" /\ Commits(call[p])

\* All who change files have added.
Settled == \A p \in Procs : ~WillAdd(p)

\* What a step of p does that misses no commit: p still has to add, or changes
\* nothing; and the manifest is written after the secret.
Accounted(p) ==
    /\ \A q \in Procs \ {p} : pc'[q] = pc[q] /\ call'[q] = call[q]
    /\ \/ WillAdd(p)'
       \/ /\ \A path \in Changed : file'[path] = file[path]
          /\ ~WillAdd(p) \/ AddTracked(p) \/ (pc[p] = "check" /\ ~repo)
    /\ \/ pc'[p] = "save"
       \/ file'["secret"] = file["secret"] /\ file'["manifest"].ver > clock
       \/ /\ file'["secret"] = file["secret"] /\ file'["manifest"] = file["manifest"]
          /\ pc[p] # "save"

\* Every step that misses no commit is of that kind.
LEMMA AllAccounted ==
  ASSUME TypeOK, CallInv, [Next]_vars, ~missed'
  PROVE  UNCHANGED vars \/ \E p \in Procs : Accounted(p)
<1>0. /\ Changed \subseteq Paths /\ "secret" \in Changed /\ "manifest" \in Changed
      /\ ".lock" \notin Changed /\ "audit" \notin Changed
  BY DEF Changed, Paths
<1>a. clock \in Nat
  BY DEF TypeOK
<1>b. ASSUME NEW p \in Procs, NEW stage \in {"idle", "audit"}, Goto(p, stage), file' = file,
             \A q \in Procs \ {p} : call'[q] = call[q],
             ~WillAdd(p) \/ (pc[p] = "check" /\ ~repo)
      PROVE  Accounted(p)
  BY <1>0, <1>b DEF Accounted, Goto, TypeOK, WillAdd
<1>c. ASSUME NEW p \in Procs, AfterCommit(p), file' = file,
             ~WillAdd(p) \/ (pc[p] = "check" /\ ~repo)
      PROVE  Accounted(p)
  <2>1. \A q \in Procs \ {p} : call'[q] = call[q]
    BY <1>c DEF AfterCommit, End, TypeOK
  <2> QED  BY <1>b, <1>c, <2>1, AfterCommitStage
<1> USE <1>0, <1>a DEF Goto, TypeOK, WillAdd, dirVars, Content
<1>1. ASSUME NEW p \in Procs, NEW op \in Ops, Start(p, op) PROVE Accounted(p)
  BY <1>1 DEF Start, Accounted
<1>2. ASSUME NEW p \in Procs, WriteMasterGpg(p) PROVE Accounted(p)
  BY <1>2 DEF WriteMasterGpg, Put, End, Accounted
<1>3. ASSUME NEW p \in Procs, EncryptFails(p) PROVE Accounted(p)
  BY <1>b, <1>3 DEF EncryptFails, End, Accounted
<1>4. ASSUME NEW p \in Procs, WriteMasterJson(p) PROVE Accounted(p)
  BY <1>4 DEF WriteMasterJson, Put, End, Accounted
<1>5. ASSUME NEW p \in Procs, WriteEmptyManifest(p) PROVE Accounted(p)
  BY <1>5 DEF WriteEmptyManifest, Put, End, Accounted
<1>6. ASSUME NEW p \in Procs, Resolve(p) PROVE Accounted(p)
  BY <1>b, <1>6 DEF Resolve, End, Accounted
<1>7. ASSUME NEW p \in Procs, AcquireLock(p) PROVE Accounted(p)
  BY <1>7 DEF AcquireLock, Put, End, Accounted
<1>8. ASSUME NEW p \in Procs, ChangeSecret(p) PROVE Accounted(p)
  BY <1>8 DEF ChangeSecret, Put, End, Accounted
<1>9. ASSUME NEW p \in Procs, SaveManifest(p) PROVE Accounted(p)
  <2>1. CASE Here("manifest") /\ file["manifest"].from # keys[p]
    BY <1>9, <2>1 DEF SaveManifest
  <2>2. CASE ~(Here("manifest") /\ file["manifest"].from # keys[p])
    <3>1. Put(p, "manifest", TRUE) /\ Goto(p, "audit") /\ call' = call
      BY <1>9, <2>2 DEF SaveManifest
    <3>2. Commits(call[p])
      BY <1>9 DEF SaveManifest, CallInv, Commits
    <3>3. WillAdd(p)'
      BY <3>1, <3>2
    <3> QED  BY <3>1, <3>3 DEF Put, Accounted
  <2> QED  BY <2>1, <2>2
<1>10. ASSUME NEW p \in Procs, AppendAudit(p) PROVE Accounted(p)
  BY <1>10 DEF AppendAudit, Put, End, Accounted
<1>11. ASSUME NEW p \in Procs, AppendAuditFails(p) PROVE FALSE
  BY <1>11 DEF AppendAuditFails
<1>12. ASSUME NEW p \in Procs, InitRepo(p), UNCHANGED dirVars PROVE Accounted(p)
  BY <1>12 DEF InitRepo, Accounted
<1>13. ASSUME NEW p \in Procs, InitRepoFails(p) PROVE FALSE
  BY <1>13 DEF InitRepoFails
<1>14. ASSUME NEW p \in Procs, WriteIgnore(p), UNCHANGED dirVars PROVE Accounted(p)
  BY <1>14 DEF WriteIgnore, Accounted
<1>15. ASSUME NEW p \in Procs, CheckRepo(p), UNCHANGED dirVars PROVE Accounted(p)
  BY <1>c, <1>15 DEF CheckRepo, Accounted
<1>16. ASSUME NEW p \in Procs, AddTracked(p), UNCHANGED dirVars PROVE Accounted(p)
  BY <1>16 DEF AddTracked, Accounted
<1>17. ASSUME NEW p \in Procs, AddNew(p), UNCHANGED dirVars PROVE Accounted(p)
  BY <1>17 DEF AddNew, Accounted
<1>18. ASSUME NEW p \in Procs, AddFails(p) PROVE FALSE
  BY <1>18 DEF AddFails
<1>19. ASSUME NEW p \in Procs, Status(p), UNCHANGED dirVars PROVE Accounted(p)
  BY <1>c, <1>19 DEF Status, Accounted
<1>20. ASSUME NEW p \in Procs, CommitTree(p), UNCHANGED dirVars PROVE Accounted(p)
  BY <1>20 DEF CommitTree, Accounted
<1>21. ASSUME NEW p \in Procs, MoveHead(p), UNCHANGED dirVars PROVE Accounted(p)
  BY <1>c, <1>21 DEF MoveHead, Accounted
<1>22. ASSUME NEW p \in Procs, StatusFails(p) \/ CommitFails(p) PROVE FALSE
  BY <1>22 DEF StatusFails, CommitFails
<1>23. ASSUME NEW p \in Procs, Crash(p) PROVE FALSE
  BY <1>23 DEF Crash
<1> HIDE DEF Goto, TypeOK, WillAdd, dirVars, Content
<1> QED
  BY <1>1, <1>2, <1>3, <1>4, <1>5, <1>6, <1>7, <1>8, <1>9, <1>10, <1>11, <1>12, <1>13, <1>14, <1>15, <1>16, <1>17, <1>18, <1>19, <1>20, <1>21, <1>22, <1>23
     DEF Next, InitSteps, Commands, GitSteps

\* Once whoever changed a secret has written the manifest, that is the newer one.
ManifestOrder ==
    ~missed /\ (\A p \in Procs : pc[p] # "save") =>
        file["secret"].ver = 0 \/ file["secret"].ver < file["manifest"].ver

\* Every step preserves ManifestOrder.
LEMMA NextManifestOrder ==
  TypeOK /\ VersionInv /\ CallInv /\ ManifestOrder /\ [Next]_vars => ManifestOrder'
<1> SUFFICES ASSUME TypeOK, VersionInv, CallInv, ManifestOrder, [Next]_vars, ~missed',
                    \A p \in Procs : pc'[p] # "save"
             PROVE  file'["secret"].ver = 0 \/ file'["secret"].ver < file'["manifest"].ver
  BY DEF ManifestOrder
<1>1. ~missed
  BY HistoryStays
<1>2. "secret" \in Paths /\ "manifest" \in Paths
  BY DEF Paths
<1>3. CASE UNCHANGED vars
  BY <1>1, <1>3 DEF vars, dirVars, ManifestOrder
<1>4. ASSUME NEW p \in Procs, Accounted(p)
      PROVE  file'["secret"].ver = 0 \/ file'["secret"].ver < file'["manifest"].ver
  <2>1. CASE file'["secret"] = file["secret"] /\ file'["manifest"].ver > clock
    <3>1. file["secret"].ver <= clock /\ file["secret"].ver \in Nat /\ clock \in Nat
      BY <1>2 DEF VersionInv, Known, TypeOK, Content
    <3>2. file'["manifest"].ver \in Nat
      BY <1>2, NextTypeOK DEF TypeOK, Content
    <3> QED  BY <2>1, <3>1, <3>2
  <2>2. CASE /\ file'["secret"] = file["secret"] /\ file'["manifest"] = file["manifest"]
             /\ pc[p] # "save"
    BY <1>1, <1>4, <2>2 DEF Accounted, ManifestOrder
  <2> QED  BY <1>4, <2>1, <2>2 DEF Accounted
<1> QED  BY <1>3, <1>4, AllAccounted

\* A vault without a repository is in the making, unless its init did not come
\* to its end.
RepoMaker ==
    ~missed /\ ~repo /\ Here("master.gpg") =>
        \E p \in Procs : pc[p] \in {"json", "emptyManifest", "repo"}

\* Every step preserves RepoMaker.
LEMMA NextRepoMaker == TypeOK /\ RepoMaker /\ [Next]_vars => RepoMaker'
<1> SUFFICES ASSUME TypeOK, RepoMaker, [Next]_vars, ~missed', ~repo', Here("master.gpg")'
             PROVE  \E q \in Procs : pc'[q] \in {"json", "emptyManifest", "repo"}
  BY DEF RepoMaker
<1> DEFINE Makes(q) == pc[q] \in {"json", "emptyManifest", "repo"}
<1>1. ~missed
  BY HistoryStays
<1>2. "master.gpg" \in Paths
  BY DEF Paths
<1>3. CASE UNCHANGED vars
  BY <1>1, <1>3 DEF vars, dirVars, gitVars, RepoMaker, Here
<1>4. ASSUME NEW p \in Procs, WriteMasterGpg(p) \/ WriteMasterJson(p) \/ WriteEmptyManifest(p)
      PROVE  Makes(p)'
  BY <1>4 DEF WriteMasterGpg, WriteMasterJson, WriteEmptyManifest, Goto, TypeOK
<1>5. ASSUME NEW p \in Procs, InitRepo(p) \/ InitRepoFails(p) \/ Crash(p)
      PROVE  FALSE
  BY <1>5 DEF InitRepo, InitRepoFails, Crash
<1> HIDE DEF Makes
<1>6. ASSUME NEW p \in Procs, ~Makes(p), file'["master.gpg"] = file["master.gpg"],
             repo' = repo, \A q \in Procs \ {p} : pc'[q] = pc[q]
      PROVE  \E q \in Procs : Makes(q)'
  BY <1>1, <1>6 DEF RepoMaker, Here, Makes
<1>7. ASSUME NEW p \in Procs, NEW op \in Ops, Start(p, op),
             UNCHANGED <<gitVars, gitLocal, promised, lock>>
      PROVE  \E q \in Procs : Makes(q)'
  BY <1>6, <1>7 DEF Start, Goto, Makes, dirVars, gitVars
<1>8. ASSUME NEW p \in Procs, EncryptFails(p), UNCHANGED <<gitVars, gitLocal, promised, lock>>
      PROVE  \E q \in Procs : Makes(q)'
  BY <1>6, <1>8 DEF EncryptFails, End, Goto, Makes, dirVars, gitVars
<1>9. ASSUME NEW p \in Procs, Commands(p),
             UNCHANGED <<started, crashes, overlap, gitVars, gitLocal, promised>>
      PROVE  \E q \in Procs : Makes(q)'
  <2>1. ~Makes(p)
    BY <1>9 DEF Makes, Commands, Resolve, AcquireLock, ChangeSecret, SaveManifest,
                AppendAudit, AppendAuditFails
  <2>2. \A q \in Procs \ {p} : pc'[q] = pc[q]
    <3>1. Calm(p)
      BY <1>9, CommandsAreCalm
    <3> QED  BY <3>1 DEF Calm, Goto
  <2>3. file'["master.gpg"] = file["master.gpg"]
    BY <1>2, <1>9 DEF Commands, Resolve, AcquireLock, ChangeSecret, SaveManifest,
                AppendAudit, AppendAuditFails, Put, dirVars, TypeOK
  <2> QED  BY <1>6, <1>9, <2>1, <2>2, <2>3 DEF gitVars
<1>10. ASSUME NEW p \in Procs, GitSteps(p),
              UNCHANGED <<dirVars, started, crashes, overlap, lock>>
       PROVE  \E q \in Procs : Makes(q)'
  <2>1. pc[p] \in GitStages /\ \A q \in Procs \ {p} : pc'[q] = pc[q]
    <3>1. PICK stage \in (GitStages \ {"repo"}) \cup {"audit", "idle"} : Goto(p, stage)
      BY <1>10, GitStage
    <3>2. pc[p] \in GitStages
      BY <1>10, GitStage
    <3> QED  BY <3>1, <3>2 DEF Goto
  <2>2. pc[p] # "repo"
    BY <1>5, <1>10 DEF GitSteps, WriteIgnore, CheckRepo, AddTracked, AddNew, AddFails,
                       Status, StatusFails, CommitTree, MoveHead, CommitFails
  <2>3. repo' = repo
    BY <1>5, <1>10 DEF GitSteps, WriteIgnore, CheckRepo, AddTracked, AddNew, AddFails,
                       Status, StatusFails, CommitTree, MoveHead, CommitFails, gitVars
  <2> QED  BY <1>6, <1>10, <2>1, <2>2, <2>3 DEF Makes, GitStages, dirVars
<1>11. \E q \in Procs : Makes(q)'
  BY <1>3, <1>4, <1>5, <1>7, <1>8, <1>9, <1>10 DEF Next, InitSteps, Makes
<1> QED  BY <1>11 DEF Makes

\* Two versions git sees no difference between.
Same(c, d) == c = d \/ ~(c.here \/ d.here)

\* A tree that has the changed files as they are on disk.
Current(tree) == \A path \in Changed : Same(tree[path], file[path])

\* A git add that will bring them all in.
AddsAll(p) == \A path \in Changed : path \in listed[p] \/ Same(scan[p][path], file[path])

\* A git commit that finds HEAD moved.
WillMiss(p) == \E path \in Paths : base[p][path].ver < head[path].ver

\* HEAD is current, and stays so.
Committed ==
    /\ Current(head)
    /\ \A p \in Procs : pc[p] = "head" /\ ~WillMiss(p) => Current(scan[p])

\* A commit of p that makes it so, or fails.
OnItsWay(p) ==
    \/ pc[p] \in {"status", "tree"}
    \/ pc[p] = "head" /\ (WillMiss(p) \/ Current(scan[p]))

\* The index is current or a git add makes it so, and then HEAD is or a commit
\* that makes it so is on its way.
WillBeCommitted ==
    /\ \A p \in Procs : pc[p] = "addNew" => AddsAll(p)
    /\ \/ \E p \in Procs : pc[p] = "addNew"
       \/ Current(index) /\ (Committed \/ \E p \in Procs : OnItsWay(p))

\* So it is once all who change files have added.
CommitInv == ~missed /\ Settled => WillBeCommitted

\* Once all have added, no file changes; else the last of them adds in this step.
LEMMA LastAdder ==
  ASSUME TypeOK, InitInv, CallInv, RepoMaker, [Next]_vars, ~missed', Settled'
  PROVE  /\ \A path \in Changed : file'[path] = file[path]
         /\ Settled \/ \E p \in Procs : AddTracked(p)
<1>1. CASE UNCHANGED vars
  BY <1>1 DEF vars, dirVars, Settled, WillAdd
<1>2. ASSUME NEW p \in Procs, Accounted(p)
      PROVE  /\ \A path \in Changed : file'[path] = file[path]
             /\ Settled \/ \E q \in Procs : AddTracked(q)
  <2>1. ~WillAdd(p)'
    BY DEF Settled
  <2>2. \A q \in Procs \ {p} : ~WillAdd(q)
    BY <1>2 DEF Settled, WillAdd, Accounted
  <2>3. ASSUME pc[p] = "check", ~repo PROVE FALSE
    <3>1. Here("master.gpg")
      BY <2>3 DEF InitInv, Initialized
    <3> QED  BY <2>2, <2>3, <3>1, HistoryStays DEF RepoMaker, WillAdd
  <2> QED  BY <1>2, <2>1, <2>2, <2>3 DEF Accounted, Settled
<1> QED  BY <1>1, <1>2, AllAccounted

\* While nothing that changes files is left to add, a clean status tells that
\* HEAD is current, and that what is on its way to it is so too.
LEMMA CleanIsCommitted ==
  ASSUME TypeOK, InitInv, VersionInv, OrderInv, TrackInv, ManifestOrder,
         ~missed, Settled, Clean, Current(index)
  PROVE  Committed
<1>0. Changed \subseteq Paths /\ "secret" \in Changed /\ "manifest" \in Changed
  BY DEF Changed, Paths
<1>1. Current(head)
  BY <1>0 DEF Current, Same, Clean, Agree
<1>2. ASSUME NEW p \in Procs, pc[p] = "head", ~WillMiss(p), NEW path \in Changed
      PROVE  Same(scan[p][path], file[path])
  <2>1. \A t \in {file, index, head, scan[p], base[p]}, other \in Paths :
           t[other].ver \in Nat /\ t[other] \in Known(other)
    BY DEF TypeOK, Content, Known
  <2>2. \A other \in Paths : \A c, d \in Known(other) : c.ver = d.ver => c = d
    BY DEF VersionInv
  <2>3. \A other \in Paths : /\ head[other].ver <= scan[p][other].ver
                             /\ scan[p][other].ver <= index[other].ver
                             /\ index[other].ver <= file[other].ver
    <3>1. \A other \in Paths : /\ base[p][other].ver <= scan[p][other].ver
                               /\ ~(base[p][other].ver < head[other].ver)
                               /\ scan[p][other].ver <= index[other].ver
                               /\ index[other].ver <= file[other].ver
      BY <1>2 DEF OrderInv, WillMiss
    <3> QED  BY <2>1, <3>1
  <2>4. ASSUME NEW other \in Changed, head[other] = index[other]
        PROVE  Same(scan[p][other], file[other])
    <3>1. scan[p][other].ver = index[other].ver
      BY <1>0, <2>1, <2>3, <2>4
    <3>2. scan[p][other] = index[other]
      BY <1>0, <2>1, <2>2, <3>1
    <3> QED  BY <2>4, <3>2 DEF Current
  <2>5. CASE head[path] = index[path]
    BY <2>4, <2>5
  <2>6. CASE ~head[path].here /\ ~index[path].here /\ path # "secret"
    <3>1. ~Here(path)
      BY <1>0, <2>6 DEF Current, Same, Here
    <3>2. file[path].ver = 0
      BY <2>6, <3>1 DEF InitInv, Changed
    <3>3. head[path].ver = index[path].ver
      BY <1>0, <2>1, <2>3, <3>2
    <3>4. head[path] = index[path]
      BY <1>0, <2>1, <2>2, <3>3
    <3> QED  BY <2>5, <3>4
  <2>7. CASE ~head["secret"].here /\ ~index["secret"].here /\ path = "secret"
    <3>1. ~file["secret"].here
      BY <1>0, <2>7 DEF Current, Same
    <3> SUFFICES ASSUME scan[p]["secret"].here PROVE FALSE
      BY <2>7, <3>1 DEF Same
    <3>2. scan[p]["secret"].ver < file["secret"].ver
      <4>1. scan[p]["secret"].ver # file["secret"].ver
        BY <1>0, <2>1, <2>2, <3>1
      <4> QED  BY <1>0, <2>1, <2>3, <4>1
    <3>3. scan[p]["manifest"].ver < file["secret"].ver
      BY <1>2, <3>2 DEF TrackInv, Lagging
    <3>4. file["secret"].ver < file["manifest"].ver
      <4>1. \A q \in Procs : pc[q] # "save"
        BY DEF Settled, WillAdd
      <4> QED  BY <1>0, <2>1, <3>2, <4>1 DEF ManifestOrder
    <3>5. file["manifest"].here
      BY <1>0, <2>1, <3>4 DEF InitInv, Here
    <3>6. index["manifest"] = file["manifest"]
      BY <1>0, <3>5 DEF Current, Same
    <3>7. head["manifest"] = index["manifest"]
      BY <1>0, <3>5, <3>6 DEF Clean, Agree
    <3>8. Same(scan[p]["manifest"], file["manifest"])
      BY <1>0, <2>4, <3>7
    <3>9. scan[p]["manifest"] = file["manifest"]
      BY <3>5, <3>8 DEF Same
    <3> QED  BY <1>0, <2>1, <3>3, <3>4, <3>9
  <2> QED  BY <1>0, <2>5, <2>6, <2>7 DEF Clean, Agree
<1> QED  BY <1>1, <1>2 DEF Committed, Current

\* The commit that moves HEAD is seen by all the others.
LEMMA OthersMiss ==
  ASSUME TypeOK, VersionInv, OrderInv, TreeInv, NEW p \in Procs, NEW q \in Procs \ {p},
         pc[p] = "head", head = base[p], pc[q] = "head"
  PROVE  \E path \in Paths : base[q][path].ver < scan[p][path].ver
<1>1. PICK path \in Paths : scan[p][path] # base[p][path]
  BY DEF TreeInv, Agree
<1>2. \A t \in {head, scan[p], base[p], base[q]} : t[path].ver \in Nat
  BY DEF TypeOK, Content
<1>3. scan[p][path].ver # base[p][path].ver
  BY <1>1 DEF VersionInv, Known
<1>4. base[p][path].ver <= scan[p][path].ver /\ base[q][path].ver <= head[path].ver
  BY DEF OrderInv
<1> QED  BY <1>2, <1>3, <1>4

\* Every step preserves CommitInv.
LEMMA NextCommitInv ==
  TypeOK /\ InitInv /\ CallInv /\ VersionInv /\ OrderInv /\ TreeInv /\ TrackInv
     /\ ManifestOrder /\ RepoMaker /\ CommitInv /\ [Next]_vars
  => CommitInv'
<1> SUFFICES ASSUME TypeOK, InitInv, CallInv, VersionInv, OrderInv, TreeInv, TrackInv,
                    ManifestOrder, RepoMaker, CommitInv, [Next]_vars,
                    ~missed', Settled'
             PROVE  WillBeCommitted'
  BY DEF CommitInv
<1> DEFINE Goal == /\ \A p \in Procs : pc'[p] = "addNew" => AddsAll(p)'
                   /\ \/ \E p \in Procs : pc'[p] = "addNew"
                      \/ Current(index)' /\ (Committed' \/ \E p \in Procs : OnItsWay(p)')
<1>0. /\ ~missed
      /\ \A path \in Changed : file'[path] = file[path]
      /\ Settled \/ \E p \in Procs : AddTracked(p)
  BY HistoryStays, LastAdder
<1>a. Changed \subseteq Paths /\ ".lock" \notin Changed
  BY DEF Changed, Paths
\* The last adder.
<1>1. ASSUME NEW p \in Procs, AddTracked(p), UNCHANGED dirVars
      PROVE  Goal
  <2>1. pc'[p] = "addNew" /\ \A q \in Procs \ {p} : pc'[q] # "addNew"
    BY <1>1, DirAssumption DEF AddTracked, Goto, TypeOK, OrderInv
  <2>2. scan'[p] = [path \in Paths |->
            IF index[path].here \/ ~Here(path) THEN file[path] ELSE index[path]]
    BY <1>1 DEF AddTracked, TypeOK
  <2>3. listed'[p] = Untracked
    BY <1>1 DEF AddTracked, TypeOK
  <2>4. ASSUME NEW path \in Changed
        PROVE  path \in listed'[p] \/ Same(scan'[p][path], file'[path])
    <3>1. path \in Paths /\ file'[path] = file[path]
      BY <1>0, <1>a
    <3>2. CASE index[path].here \/ ~Here(path)
      BY <2>2, <3>1, <3>2 DEF Same
    <3>3. CASE Here(path) /\ ~index[path].here
      BY <1>a, <2>3, <3>1, <3>3 DEF Untracked, Local
    <3> QED  BY <3>2, <3>3
  <2>5. AddsAll(p)'
    BY <2>4 DEF AddsAll
  <2> QED  BY <2>1, <2>5
\* After that.
<1>b. ASSUME NEW tree, tree \in {index, head} \cup {scan[q] : q \in Procs}, Current(tree)
      PROVE  \A path \in Changed : Same(tree[path], file'[path])
  BY <1>0, <1>b DEF Current
<1>2. ASSUME UNCHANGED vars, Settled PROVE Goal
  <2>1. CommitInv' <=> CommitInv
    BY <1>2 DEF CommitInv, WillBeCommitted, Settled, WillAdd, AddsAll, Same, Current, Committed, WillMiss,
                OnItsWay, vars, dirVars, gitVars, gitLocal
  <2> QED  BY <1>0, <1>2, <2>1 DEF CommitInv, WillBeCommitted
<1>3. ASSUME NEW p \in Procs, Calm(p), Settled, pc[p] \notin Committing \/ (Status(p) /\ Clean)
      PROVE  Goal
  <2>1. index' = index /\ head' = head
    BY <1>3 DEF Calm
  <2>2. \A q \in Procs : pc'[q] \in Committing =>
           /\ pc'[q] = pc[q] /\ scan'[q] = scan[q]
           /\ base'[q] = base[q] /\ listed'[q] = listed[q]
    <3>1. PICK stage \in Stages \ Committing : Goto(p, stage)
      BY <1>3 DEF Calm
    <3> QED  BY <1>3, <3>1 DEF Calm, Goto, TypeOK
  <2>3. \A q \in Procs \ {p} : pc'[q] = pc[q]
    BY <1>3 DEF Calm, Goto
  <2>4. \A q \in Procs : pc'[q] = "addNew" => AddsAll(q)'
    BY <1>0, <1>3, <2>2 DEF CommitInv, WillBeCommitted, AddsAll, Committing
  <2>5. ASSUME NEW q \in Procs, pc[q] = "addNew" PROVE pc'[q] = "addNew"
    BY <1>3, <2>3, <2>5 DEF Committing, Status
  <2>6. ASSUME \A q \in Procs : pc[q] # "addNew"
        PROVE  Current(index)' /\ (Committed' \/ \E q \in Procs : OnItsWay(q)')
    <3>1. Current(index) /\ (Committed \/ \E q \in Procs : OnItsWay(q))
      BY <1>0, <1>3, <2>6 DEF CommitInv, WillBeCommitted
    <3>2. Current(index)'
      BY <1>b, <2>1, <3>1 DEF Current
    <3>3. Committed => Committed'
      BY <1>b, <2>1, <2>2 DEF Committed, Current, WillMiss, Committing
    <3>4. CASE pc[p] \notin Committing
      <4>1. ASSUME NEW q \in Procs, OnItsWay(q) PROVE OnItsWay(q)'
        <5>1. q # p /\ pc[q] \in Committing
          BY <3>4, <4>1 DEF OnItsWay, Committing
        <5>2. pc'[q] = pc[q] /\ scan'[q] = scan[q] /\ base'[q] = base[q]
          BY <2>2, <2>3, <5>1
        <5> QED  BY <1>b, <2>1, <4>1, <5>2 DEF OnItsWay, WillMiss, Current
      <4> QED  BY <3>1, <3>2, <3>3, <4>1
    <3>5. CASE Status(p) /\ Clean
      <4>1. Committed
        BY <1>0, <1>3, <3>1, <3>5, CleanIsCommitted
      <4> QED  BY <3>2, <3>3, <4>1
    <3> QED  BY <1>3, <3>4, <3>5
  <2> QED  BY <2>4, <2>5, <2>6
<1>4. ASSUME NEW p \in Procs, AddNew(p), Settled, UNCHANGED dirVars
      PROVE  Goal
  <2>1. /\ pc[p] = "addNew"
        /\ \A q \in Procs : pc'[q] = IF q = p THEN "status" ELSE pc[q]
    BY <1>4 DEF AddNew, Goto, TypeOK
  <2>2. \A q \in Procs : pc'[q] # "addNew"
    BY <2>1 DEF OrderInv
  <2>3. AddsAll(p)
    BY <1>0, <1>4, <2>1 DEF CommitInv, WillBeCommitted
  <2>4. \A path \in Paths : index'[path] = IF path \in listed[p] THEN file[path]
                                                                 ELSE scan[p][path]
    BY <1>4 DEF AddNew
  <2>5. Current(index)'
    BY <1>0, <1>a, <2>3, <2>4 DEF AddsAll, Current, Same
  <2>6. OnItsWay(p)'
    BY <2>1 DEF OnItsWay
  <2> QED  BY <2>2, <2>5, <2>6
\* What the rest of commit_all keeps.
<1>5. ASSUME NEW p \in Procs, Settled, index' = index, pc[p] \in {"status", "tree", "head"},
             pc'[p] # "addNew",
             \A q \in Procs \ {p} : pc'[q] = pc[q] /\ scan'[q] = scan[q] /\ listed'[q] = listed[q]
      PROVE  /\ \A q \in Procs : pc'[q] = "addNew" => AddsAll(q)'
             /\ \/ \E q \in Procs : pc'[q] = "addNew"
                \/ /\ Current(index)' /\ Current(index)
                   /\ Committed \/ \E q \in Procs : OnItsWay(q)
  <2>1. \A q \in Procs : pc'[q] = "addNew" => AddsAll(q)'
    BY <1>0, <1>5 DEF CommitInv, WillBeCommitted, AddsAll
  <2>2. ASSUME \A q \in Procs : pc[q] # "addNew"
        PROVE  /\ Current(index)' /\ Current(index)
               /\ Committed \/ \E q \in Procs : OnItsWay(q)
    <3>1. Current(index) /\ (Committed \/ \E q \in Procs : OnItsWay(q))
      BY <1>0, <1>5, <2>2 DEF CommitInv, WillBeCommitted
    <3> QED  BY <1>5, <1>b, <3>1 DEF Current
  <2> QED  BY <1>5, <2>1, <2>2
<1>6. ASSUME NEW p \in Procs, Status(p), ~Clean, Settled
      PROVE  Goal
  <2>1. /\ pc[p] = "status"
        /\ \A q \in Procs : pc'[q] = IF q = p THEN "tree" ELSE pc[q]
    BY <1>6 DEF Status, Goto, TypeOK
  <2>2. UNCHANGED <<index, head, scan, base, listed>>
    BY <1>6 DEF Status, gitVars, gitLocal
  <2>3. OnItsWay(p)'
    BY <2>1 DEF OnItsWay
  <2> QED  BY <1>5, <1>6, <2>1, <2>2, <2>3
<1>7. ASSUME NEW p \in Procs, CommitTree(p), Settled
      PROVE  Goal
  <2>1. pc[p] = "tree" /\ pc'[p] = "head" /\ scan'[p] = index /\ index' = index
    BY <1>7 DEF CommitTree, Goto, TypeOK, gitVars
  <2>2. \A q \in Procs \ {p} : pc'[q] = pc[q] /\ scan'[q] = scan[q] /\ listed'[q] = listed[q]
    BY <1>7 DEF CommitTree, Goto
  <2>3. ASSUME Current(index)' PROVE OnItsWay(p)'
    BY <2>1, <2>3 DEF OnItsWay, Current
  <2> QED  BY <1>5, <1>7, <2>1, <2>2, <2>3
<1>8. ASSUME NEW p \in Procs, MoveHead(p), Settled
      PROVE  Goal
  <2>1. pc[p] = "head" /\ head = base[p] /\ head' = scan[p] /\ index' = index
    BY <1>8 DEF MoveHead
  <2>2. pc'[p] \notin Committing /\ \A q \in Procs \ {p} :
           /\ pc'[q] = pc[q] /\ scan'[q] = scan[q]
           /\ base'[q] = base[q] /\ listed'[q] = listed[q]
    <3>1. PICK stage \in {"idle", "audit"} : Goto(p, stage)
      BY <1>8, AfterCommitStage DEF MoveHead
    <3> QED  BY <1>8, <3>1 DEF MoveHead, AfterCommit, Goto, TypeOK, Committing
  <2>3. ~WillMiss(p)
    <3>1. \A path \in Paths : head[path].ver \in Nat
      BY DEF TypeOK, Content
    <3> QED  BY <2>1, <3>1 DEF WillMiss
  <2>4. ASSUME NEW q \in Procs, pc'[q] = "head" PROVE WillMiss(q)'
    <3>1. q # p /\ pc[q] = "head" /\ base'[q] = base[q]
      BY <2>2, <2>4 DEF Committing
    <3>2. \E path \in Paths : base[q][path].ver < scan[p][path].ver
      BY <2>1, <3>1, OthersMiss
    <3> QED  BY <2>1, <3>1, <3>2 DEF WillMiss
  <2>5. ASSUME Current(scan[p]) PROVE Committed'
    BY <1>b, <2>1, <2>4, <2>5 DEF Committed, Current
  <2>6. ASSUME Committed PROVE Committed'
    BY <2>1, <2>3, <2>5, <2>6 DEF Committed
  <2>7. ASSUME NEW q \in Procs, OnItsWay(q)
        PROVE  Committed' \/ OnItsWay(q)'
    <3>1. CASE q = p
      BY <2>1, <2>3, <2>5, <2>7, <3>1 DEF OnItsWay
    <3>2. CASE q # p
      BY <2>2, <2>4, <2>7, <3>2 DEF OnItsWay
    <3> QED  BY <3>1, <3>2
  <2>8. pc'[p] # "addNew"
    BY <2>2 DEF Committing
  <2> QED  BY <1>5, <1>8, <2>1, <2>2, <2>6, <2>7, <2>8
<1> HIDE DEF Goal
<1>9. ASSUME UNCHANGED vars PROVE Goal
  <2>1. UNCHANGED dirVars
    BY <1>9 DEF vars
  <2> QED  BY <1>0, <1>1, <1>2, <1>9, <2>1
<1>10. ASSUME NEW p \in Procs, Calm(p), pc[p] \notin Committing \/ (Status(p) /\ Clean)
       PROVE  Goal
  <2>1. ASSUME NEW q \in Procs, AddTracked(q) PROVE FALSE
    BY <1>10, <2>1 DEF AddTracked, Calm, Goto, TypeOK, Committing
  <2> QED  BY <1>0, <1>3, <1>10, <2>1
<1>11. ASSUME NEW p \in Procs, Commit(p) PROVE Goal
  <2>1. ASSUME NEW q \in Procs, AddTracked(q) PROVE Goal
    BY <1>1, <1>11, <2>1 DEF Commit
  <2> QED  BY <1>0, <1>4, <1>6, <1>7, <1>8, <1>11, <2>1 DEF Commit
<1> QED  BY <1>9, <1>10, <1>11, CalmOrCommit DEF Goal, WillBeCommitted

-----------------------------------------------------------------------------
(* The theorems *)

\* The inductive invariant: what is written, who works on what, what git has.
RepositoryInv ==
    /\ TypeOK /\ InitInv /\ CallInv /\ AloneInv /\ KeysInv /\ RepoInv
    /\ VersionInv /\ OrderInv /\ SeenInv /\ CommitsAreKept /\ LockFileInv
    /\ TreeInv /\ TrackInv /\ ManifestOrder /\ RepoMaker /\ CommitInv

\* A directory without a vault satisfies it.
LEMMA InitRepositoryInv == Init => RepositoryInv
<1> SUFFICES ASSUME Init PROVE RepositoryInv
  OBVIOUS
<1>1. \A p \in Procs : pc[p] = "idle" /\ call[p] = "none" /\ keys[p] = 0
  BY DEF Init
<1>2. \A path \in Paths : Empty[path] = Missing
  BY DEF Empty
<1>3. TypeOK
  <2>1. LocksHeld
    BY DirAssumption DEF Init, LocksHeld
  <2>2. /\ file \in [Paths -> Content] /\ {index, head, promised} \subseteq [Paths -> Content]
        /\ {scan, base, seen} \subseteq [Procs -> [Paths -> Content]]
        /\ listed \in [Procs -> SUBSET Paths]
    BY EmptyType DEF Init
  <2>3. /\ clock \in Nat /\ pc \in [Procs -> Stages] /\ call \in [Procs -> Ops \cup {"none"}]
        /\ keys \in [Procs -> 0 .. MaxCommands]
        /\ started \in 0 .. MaxCommands /\ crashes \in 0 .. MaxCrashes
    BY DirAssumption DEF Init, Stages
  <2>4. {overlap, repo, ignoring, missed} \subseteq BOOLEAN
    BY DEF Init
  <2>5. {indexLock, lock} \subseteq Procs \cup {None}
    BY DEF Init
  <2> QED  BY <2>1, <2>2, <2>3, <2>4, <2>5 DEF TypeOK, LocksHeld
<1>4. InitInv /\ CallInv /\ AloneInv /\ KeysInv /\ RepoInv
  BY <1>1, <1>2 DEF Init, InitInv, CallInv, AloneInv, KeysInv, OneKey, RepoInv, Here,
                    Initialized, Missing, Making, Paths
<1>5. VersionInv
  <2>1. ASSUME NEW path \in Paths, NEW c \in Known(path) PROVE c = Missing
    BY <1>2 DEF Init, Known
  <2>2. clock = 0 /\ Missing.ver = 0
    BY DEF Init, Missing
  <2> QED  BY <2>1, <2>2 DEF VersionInv
<1>6. OrderInv /\ SeenInv /\ CommitsAreKept
  BY <1>1, <1>2 DEF Init, OrderInv, SeenInv, CommitsAreKept, Missing
<1>7. LockFileInv /\ TreeInv /\ TrackInv /\ ManifestOrder /\ RepoMaker
  BY <1>1, <1>2 DEF Init, LockFileInv, TreeInv, TrackInv, Lagging, ManifestOrder,
                    RepoMaker, Here, Missing, Paths
<1>8. CommitInv
  BY <1>1 DEF Init, CommitInv, WillBeCommitted, Current, Committed, Same
<1> QED  BY <1>3, <1>4, <1>5, <1>6, <1>7, <1>8 DEF RepositoryInv

\* Every step preserves it.
LEMMA NextRepositoryInv == RepositoryInv /\ [Next]_vars => RepositoryInv'
<1> SUFFICES ASSUME RepositoryInv, [Next]_vars PROVE RepositoryInv'
  OBVIOUS
<1>1. TypeOK' /\ InitInv' /\ CallInv' /\ AloneInv' /\ KeysInv' /\ RepoInv'
  BY NextTypeOK, NextInitInv, NextCallInv, NextAloneInv, NextKeysInv, NextRepoInv
     DEF RepositoryInv
<1>2. VersionInv' /\ OrderInv' /\ SeenInv' /\ CommitsAreKept' /\ LockFileInv'
  BY NextVersionInv, NextOrderInv, NextCommitsAreKept, NextLockFileInv DEF RepositoryInv
<1>3. TreeInv' /\ TrackInv' /\ ManifestOrder' /\ RepoMaker' /\ CommitInv'
  BY NextTreeInv, NextTrackInv, NextManifestOrder, NextRepoMaker, NextCommitInv
     DEF RepositoryInv
<1> QED  BY <1>1, <1>2, <1>3 DEF RepositoryInv

\* It holds in every state.
LEMMA RepositoryInvariant == Spec => []RepositoryInv
BY InitRepositoryInv, NextRepositoryInv, PTL DEF Spec

\* The types and the holders of the locks.
THEOREM RepositoryTypeOK == Spec => []TypeOK
<1>1. RepositoryInv => TypeOK
  BY DEF RepositoryInv
<1> QED  BY <1>1, RepositoryInvariant, PTL

\* What is in a vault that was not used while it was made is under the keys of
\* one init, so that whoever is admitted can read it.
THEOREM OneInitMadeTheVault == Spec => []OneInitMadeIt
<1>1. RepositoryInv => OneInitMadeIt
  BY DEF RepositoryInv, KeysInv, OneKey, OneInitMadeIt
<1> QED  BY <1>1, RepositoryInvariant, PTL

\* An init that is alone writes over nothing a user has stored.
THEOREM NothingIsReplaced == Spec => []InitReplacesNothing
<1>1. RepositoryInv => InitReplacesNothing
  BY DEF RepositoryInv, KeysInv, OneKey, InitReplacesNothing
<1> QED  BY <1>1, RepositoryInvariant, PTL

\* What an auto-commit has vouched for stays in HEAD.
THEOREM CommitsStay == Spec => []CommitsAreKept
<1>1. RepositoryInv => CommitsAreKept
  BY DEF RepositoryInv
<1> QED  BY <1>1, RepositoryInvariant, PTL

\* The lock file is in no commit, but after a crash or an overlap.
THEOREM LockFileStaysOut == Spec => []LockFileNotTracked
<1>1. RepositoryInv => LockFileNotTracked
  BY DEF RepositoryInv, LockFileInv, LockFileNotTracked
<1> QED  BY <1>1, RepositoryInvariant, PTL

\* When all commands are over, none was killed, failed after its change or warned,
\* and no git status failed, HEAD has the vault, whatever the others did between a
\* command's change and its commit.
THEOREM ChangesAreCommitted == Spec => []EveryChangeIsCommitted
<1>1. RepositoryInv => EveryChangeIsCommitted
  <2> SUFFICES ASSUME RepositoryInv, \A p \in Procs : pc[p] = "idle", ~missed,
                      NEW path \in Changed
               PROVE  head[path] = file[path] \/ ~(Here(path) \/ head[path].here)
    BY DEF EveryChangeIsCommitted, Changed
  <2>1. WillBeCommitted
    BY DEF RepositoryInv, CommitInv, Settled, WillAdd
  <2>2. Current(head)
    BY <2>1 DEF WillBeCommitted, Committed, OnItsWay
  <2> QED  BY <2>2 DEF Current, Same, Here
<1> QED  BY <1>1, RepositoryInvariant, PTL

=============================================================================
