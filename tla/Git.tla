-------------------------------- MODULE Git --------------------------------
(* git.py: the repository at the vault root, made by init, and the commit    *)
(* that follows each change.  Several processes share the index and HEAD;    *)
(* none of this is under the vault lock.  git itself is external: its index  *)
(* lock, its two passes over the work tree and its check of HEAD are what    *)
(* cavern relies on.                                                         *)
EXTENDS VaultDir

VARIABLES
    repo,       \* .git is there
    ignoring,   \* .gitignore is there
    index,      \* what is staged: a version of every path
    head,       \* what is committed
    indexLock,  \* the process whose git holds index.lock, or None
    scan,       \* the index a git add builds, or the tree a git commit writes
    listed,     \* the untracked files a git add saw
    base,       \* the HEAD a git commit builds on
    seen,       \* history: the files on disk when a git add began
    promised    \* history: the newest files a commit that worked vouched for

gitVars  == <<repo, ignoring, index, head, indexLock>>
gitLocal == <<scan, listed, base, seen>>

Empty == [path \in Paths |-> Missing]

Local(path) == path = ".lock"

\* What commit_all leads to: init still writes its audit record, the others
\* have written theirs before.  A GitError is a warning.
AfterCommit(p) ==
    /\ IF call[p] = "init" THEN Goto(p, "audit") /\ UNCHANGED <<call, keys>>
                           ELSE End(p)
    /\ scan' = [scan EXCEPT ![p] = Empty]
    /\ base' = [base EXCEPT ![p] = Empty]
    /\ seen' = [seen EXCEPT ![p] = Empty]
    /\ listed' = [listed EXCEPT ![p] = {}]

\* git.init: early return when there is a .git.
InitRepo(p) ==
    /\ pc[p] = "repo"
    /\ Goto(p, IF repo THEN "check" ELSE "ignore")
    /\ repo' = TRUE
    /\ UNCHANGED <<ignoring, index, head, indexLock, gitLocal, promised, call, keys, missed>>

\* No git on PATH, or git init fails: GitError, which nothing catches, so that
\* cmd_init ends there with its vault made.
InitRepoFails(p) ==
    /\ pc[p] = "repo"
    /\ ~repo
    /\ End(p)
    /\ missed' = TRUE
    /\ UNCHANGED <<gitVars, gitLocal, promised>>

\* Mutant: only a .gitignore that is there is written.
IgnoreExisting == ignoring

\* A .gitignore that is missing is written, one that is there is kept.
IgnoreWritten == TRUE

\* The rest of git.init, .gitattributes and then .gitignore.
WriteIgnore(p) ==
    /\ pc[p] = "ignore"
    /\ ignoring' = IgnoreWritten
    /\ Goto(p, "check")
    /\ UNCHANGED <<repo, index, head, indexLock, gitLocal, promised,
                   call, keys, missed>>

\* commit_all: a vault without a repository is left alone.
CheckRepo(p) ==
    /\ pc[p] = "check"
    /\ IF repo THEN Goto(p, "add") /\ UNCHANGED <<call, keys, gitLocal>>
               ELSE AfterCommit(p)
    /\ UNCHANGED <<gitVars, promised, missed>>

Untracked == {path \in Paths : Here(path) /\ ~index[path].here
                                  /\ ~(ignoring /\ Local(path))}

\* git add --all: it takes index.lock, lists the untracked files and takes in
\* the tracked ones, those that are gone included.
AddTracked(p) ==
    /\ pc[p] = "add"
    /\ indexLock = None
    /\ indexLock' = p
    /\ listed' = [listed EXCEPT ![p] = Untracked]
    /\ scan' = [scan EXCEPT ![p] = [path \in Paths |->
                   IF index[path].here \/ ~Here(path) THEN file[path]
                                                      ELSE index[path]]]
    /\ seen' = [seen EXCEPT ![p] = file]
    /\ Goto(p, "addNew")
    /\ UNCHANGED <<repo, ignoring, index, head, base, promised, call, keys, missed>>

\* git add --all: the files it listed, and the index is written.
AddNew(p) ==
    /\ pc[p] = "addNew"
    /\ \A path \in listed[p] : Here(path)
    /\ index' = [path \in Paths |-> IF path \in listed[p] THEN file[path]
                                                          ELSE scan[p][path]]
    /\ indexLock' = None
    /\ Goto(p, "status")
    /\ UNCHANGED <<repo, ignoring, head, gitLocal, promised, call, keys, missed>>

\* Mutant: the return code of git add is not looked at.
AfterFailedAdd(p) == Goto(p, "status") /\ UNCHANGED <<call, keys, gitLocal>>

\* A GitError of git add: _auto_commit warns.
AfterAddError(p) == AfterCommit(p)

\* Mutant: git add leaves its index.lock behind when it fails.
LockLeft(p) == indexLock

\* A git that ends removes the index.lock it made.
LockDropped(p) == None

\* Another git's index.lock, which stays, a listed file that is gone, or any
\* other failure of git add.
AddFails(p) ==
    /\ \/ pc[p] = "add" /\ UNCHANGED indexLock
       \/ pc[p] = "addNew" /\ indexLock' = LockDropped(p)
    /\ AfterAddError(p)
    /\ missed' = TRUE
    /\ UNCHANGED <<repo, ignoring, index, head, promised>>

\* Two trees git sees no difference between.
Agree(s, t) == \A path \in Paths : s[path] = t[path]
                                    \/ ~(s[path].here \/ t[path].here)

\* git status --porcelain prints nothing: HEAD, index and work tree agree.
Clean == /\ Agree(head, index) /\ Untracked = {}
         /\ \A path \in Paths : index[path].here => file[path] = index[path]

\* commit_all returns and nobody is warned: HEAD has this tree.
Vouch(tree) == promised' = [path \in Paths |->
                  IF tree[path].ver > promised[path].ver THEN tree[path]
                                                         ELSE promised[path]]

\* Another git commit has written its tree and not moved HEAD yet.
CommitOnItsWay == \E q \in Procs : pc[q] = "head"

\* Nothing to commit: HEAD agrees with the index, until a commit that is on its
\* way moves it.
Status(p) ==
    /\ pc[p] = "status"
    /\ IF Clean THEN /\ IF CommitOnItsWay THEN UNCHANGED promised ELSE Vouch(index)
                     /\ AfterCommit(p)
                ELSE Goto(p, "tree") /\ UNCHANGED <<promised, call, keys, gitLocal>>
    /\ UNCHANGED <<gitVars, missed>>

\* A git status that fails prints nothing either, and nobody looks at its return
\* code: commit_all returns as if there were nothing to commit, without a warning.
StatusFails(p) ==
    /\ pc[p] = "status"
    /\ AfterCommit(p)
    /\ missed' = TRUE
    /\ UNCHANGED <<gitVars, promised>>

\* git commit: the tree is written from the index, on top of HEAD.
CommitTree(p) ==
    /\ pc[p] = "tree"
    /\ indexLock = None /\ ~Agree(index, head)
    /\ scan' = [scan EXCEPT ![p] = index]
    /\ base' = [base EXCEPT ![p] = head]
    /\ Goto(p, "head")
    /\ UNCHANGED <<gitVars, listed, seen, promised, call, keys, missed>>

\* git commit: HEAD moves, if it is where it was.
MoveHead(p) ==
    /\ pc[p] = "head"
    /\ head = base[p]
    /\ head' = scan[p]
    /\ Vouch(scan[p])
    /\ AfterCommit(p)
    /\ UNCHANGED <<repo, ignoring, index, indexLock, missed>>

\* Another git's index.lock, nothing staged, no user.email, a HEAD that has moved,
\* or any other failure of git commit: a warning.
CommitFails(p) ==
    /\ pc[p] \in {"tree", "head"}
    /\ AfterCommit(p)
    /\ missed' = TRUE
    /\ UNCHANGED <<gitVars, promised>>

GitSteps(p) ==
    \/ InitRepo(p) \/ InitRepoFails(p) \/ WriteIgnore(p) \/ CheckRepo(p)
    \/ AddTracked(p) \/ AddNew(p) \/ AddFails(p)
    \/ Status(p) \/ StatusFails(p) \/ CommitTree(p) \/ MoveHead(p) \/ CommitFails(p)

=============================================================================
