------------------------------ MODULE GpgLock ------------------------------
(* Recovery from a stale lock on the GPG keyring: a gpg call that fails on   *)
(* lock contention kills the daemons of its host, removes locks it judges    *)
(* stale, and is tried once more.  The lock file names its holder and is     *)
(* shared by the hosts that mount the GPG home.                              *)
EXTENDS FiniteSets

CONSTANTS Calls,    \* gpg calls of cavern commands
          Daemons,  \* gpg-agent and keyboxd processes
          Hosts,
          HostOf,   \* the host each of them runs on
          None      \* no lock file

Procs == Calls \cup Daemons

ASSUME GpgAssumption ==
    /\ HostOf \in [Procs -> Hosts]
    /\ Calls \cap Daemons = {}
    /\ None \notin Procs

VARIABLES
    lock,    \* the process the lock file names, or None
    live,    \* daemons still running
    stage,   \* how far each call has got
    judged,  \* the lock each call judged stale, or None
    robbed   \* history: a lock was removed that the judgement did not cover

vars == <<lock, live, stage, judged, robbed>>

Working == {"work", "workAgain"}

Init ==
    /\ lock \in Daemons \cup {None}
    /\ live \in SUBSET Daemons
    /\ stage = [c \in Calls |-> "try"]
    /\ judged = [c \in Calls |-> None]
    /\ robbed = FALSE

Goto(c, s) == stage' = [stage EXCEPT ![c] = s]

\* gpg takes the lock.
Acquire(c) ==
    /\ stage[c] \in {"try", "retry"}
    /\ lock = None
    /\ lock' = c
    /\ Goto(c, IF stage[c] = "try" THEN "work" ELSE "workAgain")
    /\ UNCHANGED <<live, judged, robbed>>

\* gpg is done and removes its own lock, if it is still there.
Release(c) ==
    /\ stage[c] \in Working
    /\ lock' = IF lock = c THEN None ELSE lock
    /\ Goto(c, "done")
    /\ UNCHANGED <<live, judged, robbed>>

\* gpg is killed while it holds the lock.
Die(c) ==
    /\ stage[c] \in Working
    /\ Goto(c, "dead")
    /\ UNCHANGED <<lock, live, judged, robbed>>

\* Mutant: the call is tried again without recovery.
RetryOnly(c) == "try"

\* The first failure starts the recovery, the second one is final, and the
\* caller is told of the first.
AfterContention(c) == IF stage[c] = "try" THEN "killDaemons" ELSE "failed"

\* gpg times out on a lock that is there.
Contend(c) ==
    /\ stage[c] \in {"try", "retry"}
    /\ lock # None
    /\ Goto(c, AfterContention(c))
    /\ UNCHANGED <<lock, live, judged, robbed>>

\* gpgconf --kill all: daemons of this host end; one that held the lock may or
\* may not get to remove it.
KillDaemons(c) ==
    LET killed == {d \in live : HostOf[d] = HostOf[c]} IN
    /\ stage[c] = "killDaemons"
    /\ live' = live \ killed
    /\ lock' \in {lock} \cup (IF lock \in killed THEN {None} ELSE {})
    /\ Goto(c, "sweep")
    /\ UNCHANGED <<judged, robbed>>

\* _pid_alive_on_this_host, of a process of this host.
Alive(p) == p \in live \cup {c \in Calls : stage[c] \in Working}

\* Mutant: a lock of this host is stale whoever holds it.
StaleIfAny(c, p) == TRUE

\* _is_lock_stale: a dead holder here, or any holder elsewhere.
Stale(c, p) == HostOf[p] = HostOf[c] => ~Alive(p)

\* The sweep finds the lock and judges its holder.
Judge(c) ==
    /\ stage[c] = "sweep"
    /\ IF lock # None /\ Stale(c, lock)
          THEN judged' = [judged EXCEPT ![c] = lock] /\ Goto(c, "unlink")
          ELSE Goto(c, "retry") /\ UNCHANGED judged
    /\ UNCHANGED <<lock, live, robbed>>

\* The sweep unlinks the lock file, whichever is there by now.
Unlink(c) ==
    /\ stage[c] = "unlink"
    /\ lock' = None
    /\ robbed' = \/ robbed
                 \/ lock \notin {judged[c], None}
                 \/ lock # None /\ HostOf[lock] # HostOf[c] /\ Alive(lock)
    /\ Goto(c, "retry")
    /\ UNCHANGED <<live, judged>>

Step(c) ==
    Acquire(c) \/ Release(c) \/ Contend(c) \/ KillDaemons(c) \/ Judge(c) \/ Unlink(c)

Next == \E c \in Calls : Step(c) \/ Die(c)

\* Commands run on, and gpg finishes or times out.
Spec == Init /\ [][Next]_vars /\ \A c \in Calls : WF_vars(Step(c))

-----------------------------------------------------------------------------
(* Properties *)

\* Every variable keeps its type.
TypeOK ==
    /\ lock \in Procs \cup {None}
    /\ live \in SUBSET Daemons
    /\ stage \in [Calls -> {"try", "killDaemons", "sweep", "unlink", "retry", "done",
                            "failed", "dead"} \cup Working]
    /\ judged \in [Calls -> Procs \cup {None}]
    /\ robbed \in BOOLEAN

\* On one host, recovery never lets two gpg calls work on the keyring together,
\* unless a sweep removed a lock other than the one it had judged, or a live one
\* of another host, whose holder it cannot see (crypto.py:418-419).
OneWorkerPerHost ==
    ~robbed => \A c, d \in Calls :
        stage[c] \in Working /\ stage[d] \in Working /\ HostOf[c] = HostOf[d] => c = d

\* Every call ends: recovery is tried once, whoever holds the lock.
EveryCallEnds == \A c \in Calls : <>(stage[c] \in {"done", "failed", "dead"})

=============================================================================
