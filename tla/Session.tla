------------------------------ MODULE Session ------------------------------
(* The session file of a user: unlock writes the KEK of a vault to it and    *)
(* starts a cleaner that removes it after the TTL, lock removes it, and      *)
(* every other command tries it before it asks GPG.  There is one path, and  *)
(* what is at it is a file an unlock created; an unlock writes to its own    *)
(* file even when that is no longer at the path.                             *)
EXTENDS Naturals

CONSTANTS Unlocks,   \* cavern unlock invocations; also names their tokens
          Commands,  \* invocations of other commands
          Vaults,    \* vaults of the user: one KEK each
          VaultOf,   \* the vault each invocation works on
          MaxDeaths, \* bound: unlocks that die in a behaviour
          None       \* no file, no key

ASSUME SessionAssumption ==
    /\ VaultOf \in [Unlocks \cup Commands -> Vaults]
    /\ None \notin Unlocks \cup Vaults
    /\ MaxDeaths \in Nat

VARIABLES
    path,     \* the unlock whose file is at the path, or None
    size,     \* how much of its file each unlock has written
    stage,    \* how far each unlock has got
    cleaner,  \* how far its cleaner has got
    reading,  \* what each command does about its keys
    opened,   \* the unlock whose file it has open, or None
    kek,      \* the vault whose KEK it ended up with, or None
    deaths,   \* unlocks that died so far
    seen      \* history: files created before each cleaner checked its token

vars == <<path, size, stage, cleaner, reading, opened, kek, deaths, seen>>
commandVars == <<reading, opened, kek>>

Sizes == {"empty", "part", "full"}

Init ==
    /\ path = None
    /\ size = [u \in Unlocks |-> "empty"]
    /\ stage = [u \in Unlocks |-> "idle"]
    /\ cleaner = [u \in Unlocks |-> "none"]
    /\ reading = [c \in Commands |-> "start"]
    /\ opened = [c \in Commands |-> None]
    /\ kek = [c \in Commands |-> None]
    /\ deaths = 0
    /\ seen = [u \in Unlocks |-> {}]

-----------------------------------------------------------------------------
(* write_session, once GPG has given the KEK *)

Advance(u, from, to) ==
    /\ stage[u] = from
    /\ stage' = [stage EXCEPT ![u] = to]

\* Whatever file is there is unlinked.
UnlinkOld(u) ==
    /\ Advance(u, "idle", "create")
    /\ path' = None
    /\ UNCHANGED <<size, cleaner, commandVars, deaths, seen>>

\* O_EXCL: FileExistsError when another unlock was faster.
Create(u) ==
    /\ IF path = None
          THEN Advance(u, "create", "write") /\ path' = u
          ELSE Advance(u, "create", "failed") /\ UNCHANGED path
    /\ UNCHANGED <<size, cleaner, commandVars, deaths, seen>>

\* _write_all: one write(2), or several when one is short.
WriteFile(u) ==
    /\ \/ Advance(u, "write", "spawn") /\ size' = [size EXCEPT ![u] = "full"]
       \/ /\ stage[u] = "write" /\ size[u] = "empty"
          /\ size' = [size EXCEPT ![u] = "part"]
          /\ UNCHANGED stage
    /\ UNCHANGED <<path, cleaner, commandVars, deaths, seen>>

\* The detached cleaner goes to sleep for the TTL.
SpawnCleaner(u) ==
    /\ Advance(u, "spawn", "done")
    /\ cleaner' = [cleaner EXCEPT ![u] = "asleep"]
    /\ UNCHANGED <<path, size, commandVars, deaths, seen>>

\* An unlock that dies here, of a signal or of an OSError of write or fork;
\* nothing cleans up after it.
Die(u) ==
    /\ deaths < MaxDeaths
    /\ deaths' = deaths + 1
    /\ stage[u] \in {"create", "write", "spawn"}
    /\ stage' = [stage EXCEPT ![u] = "died"]
    /\ UNCHANGED <<path, size, cleaner, commandVars, seen>>

-----------------------------------------------------------------------------
(* _session_cleaner *)

\* Mutant: the cleaner was given another token.
ForeignToken(u) == FALSE

\* Mutant: any session is taken for the cleaner's own.
AnySession(u) == path # None /\ size[path] = "full"

\* The header at the path holds the cleaner's token.
HoldsToken(u) == path = u /\ size[u] = "full"

\* The TTL is over: the token on disk is read and compared.
CheckToken(u) ==
    /\ cleaner[u] = "asleep"
    /\ cleaner' = [cleaner EXCEPT ![u] = IF HoldsToken(u) THEN "unlink" ELSE "gone"]
    /\ seen' = [seen EXCEPT ![u] = {x \in Unlocks : stage[x] \notin {"idle", "create"}}]
    /\ UNCHANGED <<path, size, stage, commandVars, deaths>>

\* Whatever is at the path by now is unlinked.
UnlinkExpired(u) ==
    /\ cleaner[u] = "unlink"
    /\ cleaner' = [cleaner EXCEPT ![u] = "gone"]
    /\ path' = None
    /\ UNCHANGED <<size, stage, commandVars, deaths, seen>>

-----------------------------------------------------------------------------
(* lock, and the other commands *)

\* clear_session
Lock ==
    /\ path # None
    /\ path' = None
    /\ UNCHANGED <<size, stage, cleaner, commandVars, deaths, seen>>

\* read_session opens the file; without one the command asks GPG.
OpenSession(c) ==
    /\ reading[c] = "start"
    /\ opened' = [opened EXCEPT ![c] = path]
    /\ reading' = [reading EXCEPT ![c] = IF path = None THEN "gpg" ELSE "read"]
    /\ UNCHANGED <<path, size, stage, cleaner, kek, deaths, seen>>

\* Mutant: the vault takes any KEK.
UnwrapsAnything(c, u) == size[u] = "full"

\* The file has its full length, and the KEK unwraps the vault's master key.
Usable(c, u) == size[u] = "full" /\ VaultOf[u] = VaultOf[c]

\* read_session reads the open file, derive_keys unwraps the master key; on a
\* SessionError or a CryptoError the command asks GPG.
ReadSession(c) ==
    /\ reading[c] = "read"
    /\ opened' = [opened EXCEPT ![c] = None]
    /\ IF Usable(c, opened[c])
          THEN /\ kek' = [kek EXCEPT ![c] = VaultOf[opened[c]]]
               /\ reading' = [reading EXCEPT ![c] = "done"]
          ELSE reading' = [reading EXCEPT ![c] = "gpg"] /\ UNCHANGED kek
    /\ UNCHANGED <<path, size, stage, cleaner, deaths, seen>>

\* unlock_with_gpg, then derive_keys.
AskGpg(c) ==
    /\ reading[c] = "gpg"
    /\ kek' = [kek EXCEPT ![c] = VaultOf[c]]
    /\ reading' = [reading EXCEPT ![c] = "done"]
    /\ UNCHANGED <<path, size, stage, cleaner, opened, deaths, seen>>

-----------------------------------------------------------------------------

UnlockStep(u) == Create(u) \/ WriteFile(u) \/ SpawnCleaner(u)

CleanerStep(u) == CheckToken(u) \/ UnlinkExpired(u)

Next ==
    \/ \E u \in Unlocks : UnlinkOld(u) \/ UnlockStep(u) \/ Die(u) \/ CleanerStep(u)
    \/ \E c \in Commands : OpenSession(c) \/ ReadSession(c) \/ AskGpg(c)
    \/ Lock

Spec == Init /\ [][Next]_vars

\* A started unlock and a sleeping cleaner run on; nobody has to unlock or lock.
FairSpec == Spec /\ \A u \in Unlocks : WF_vars(UnlockStep(u)) /\ WF_vars(CleanerStep(u))

-----------------------------------------------------------------------------
(* Properties *)

\* Every variable keeps its type.
TypeOK ==
    /\ path \in Unlocks \cup {None}
    /\ size \in [Unlocks -> Sizes]
    /\ stage \in [Unlocks -> {"idle", "create", "write", "spawn", "done", "failed",
                              "died"}]
    /\ cleaner \in [Unlocks -> {"none", "asleep", "unlink", "gone"}]
    /\ reading \in [Commands -> {"start", "read", "gpg", "done"}]
    /\ opened \in [Commands -> Unlocks \cup {None}]
    /\ kek \in [Commands -> Vaults \cup {None}]
    /\ deaths \in Nat
    /\ seen \in [Unlocks -> SUBSET Unlocks]

\* An unlock that returned has started a cleaner that will still remove its
\* session, however other unlocks, locks and cleaners interleave with it.
SessionHasCleaner ==
    path # None /\ stage[path] = "done" => cleaner[path] \in {"asleep", "unlink"}

\* A cleaner never removes a session that was there when it woke, unless it is
\* its own (_session_cleaner.py:5-9).
WakingSparesOthers ==
    \A u \in Unlocks : cleaner[u] = "unlink" => path \notin seen[u] \ {u}

\* "so a later ``unlock`` is never wiped out by an earlier cleaner"
\* (session.py:4-7, _session_cleaner.py:5-9): a cleaner removes its own session
\* or finds none.
LaterUnlockSurvives ==
    [][\A u \in Unlocks : UnlinkExpired(u) => path \in {u, None}]_vars

\* A command works with the KEK of its own vault, also when the session is half
\* written, of another vault, or replaced while the command has it open.
OwnKey == \A c \in Commands : reading[c] = "done" => kek[c] = VaultOf[c]

\* What makes these hold: a file is at the path only once its unlock created it,
\* it is whole before its cleaner starts, and a cleaner sees only created files.
SessionInv ==
    /\ TypeOK
    /\ \A u \in Unlocks :
          /\ path = u => stage[u] \in {"write", "spawn", "done", "died"}
          /\ stage[u] \in {"spawn", "done"} => size[u] = "full"
          /\ stage[u] = "done" <=> cleaner[u] # "none"
          /\ \A x \in seen[u] : stage[x] \notin {"idle", "create"}
    /\ \A c \in Commands : reading[c] = "read" => opened[c] # None
    /\ SessionHasCleaner /\ WakingSparesOthers /\ OwnKey

\* Every session expires, unless its unlock died.
SessionExpires ==
    \A u \in Unlocks : path = u ~> path # u \/ stage[u] = "died"

=============================================================================
