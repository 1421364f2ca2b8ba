--------------------------- MODULE GpgLockProofs ---------------------------
(* Any number of gpg calls, daemons and hosts: recovery from a stale lock    *)
(* does not let two calls of one host work on the keyring together.          *)
EXTENDS GpgLock, TLAPS

\* A lock that names a call names one that works or died at work.
HolderInv ==
    \A c \in Calls : lock = c => stage[c] \in Working \cup {"dead"}

\* A call judged dead by a call of its own host is dead.
JudgedInv ==
    \A c, d \in Calls :
        judged[d] = c /\ HostOf[c] = HostOf[d] => stage[c] = "dead"

\* Who works holds the lock, as long as no live lock was swept away.
WorkerInv ==
    ~robbed => \A c \in Calls : stage[c] \in Working => lock = c

\* The inductive invariant.
GpgInv == TypeOK /\ HolderInv /\ JudgedInv /\ WorkerInv

\* Nobody works or is judged at the start.
LEMMA InitGpgInv == Init => GpgInv
BY GpgAssumption
   DEF Init, GpgInv, TypeOK, HolderInv, JudgedInv, WorkerInv, Working, Procs

\* Every step keeps the types.
LEMMA NextTypeOK == TypeOK /\ [Next]_vars => TypeOK'
<1> SUFFICES ASSUME TypeOK, [Next]_vars PROVE TypeOK'
  OBVIOUS
<1> USE DEF TypeOK, Goto, Working, Procs
<1>1. ASSUME NEW c \in Calls, Acquire(c) PROVE TypeOK'
  BY <1>1 DEF Acquire
<1>2. ASSUME NEW c \in Calls, Release(c) PROVE TypeOK'
  BY <1>2 DEF Release
<1>3. ASSUME NEW c \in Calls, Die(c) PROVE TypeOK'
  BY <1>3 DEF Die
<1>4. ASSUME NEW c \in Calls, Contend(c) PROVE TypeOK'
  BY <1>4 DEF Contend, AfterContention
<1>5. ASSUME NEW c \in Calls, KillDaemons(c) PROVE TypeOK'
  BY <1>5 DEF KillDaemons
<1>6. ASSUME NEW c \in Calls, Judge(c) PROVE TypeOK'
  BY <1>6 DEF Judge
<1>7. ASSUME NEW c \in Calls, Unlink(c) PROVE TypeOK'
  BY <1>7 DEF Unlink
<1>8. CASE UNCHANGED vars
  BY <1>8 DEF vars
<1> QED
  BY <1>1, <1>2, <1>3, <1>4, <1>5, <1>6, <1>7, <1>8 DEF Next, Step

\* Only Unlink removes a lock that is not the remover's or a daemon's, and it
\* robs nobody unless it says so.
LEMMA UnlinkSparesWorkers ==
    ASSUME GpgInv, NEW c \in Calls, Unlink(c)
    PROVE  WorkerInv'
<1> SUFFICES ASSUME ~robbed', NEW d \in Calls, stage'[d] \in Working PROVE FALSE
  BY DEF WorkerInv
<1>1. ~robbed /\ lock \in {judged[c], None}
      /\ ~(lock # None /\ HostOf[lock] # HostOf[c] /\ Alive(lock))
  BY DEF Unlink
<1>2. stage[d] \in Working
  BY DEF Unlink, Goto, GpgInv, TypeOK, Working
<1>3. lock = d /\ lock # None
  BY <1>1, <1>2, GpgAssumption DEF GpgInv, WorkerInv, Procs
<1>4. judged[c] = d /\ Alive(d)
  BY <1>1, <1>2, <1>3 DEF Alive
<1>5. HostOf[d] = HostOf[c]
  BY <1>1, <1>3, <1>4
<1>6. stage[d] = "dead"
  BY <1>4, <1>5 DEF GpgInv, JudgedInv
<1> QED
  BY <1>2, <1>6 DEF Working

\* Every step preserves the three relations between locks, stages and verdicts.
LEMMA Inductive == GpgInv /\ [Next]_vars => GpgInv'
<1> SUFFICES ASSUME GpgInv, [Next]_vars PROVE GpgInv'
  OBVIOUS
<1>0. TypeOK /\ TypeOK' /\ HolderInv /\ JudgedInv /\ WorkerInv
  BY NextTypeOK DEF GpgInv
<1> USE GpgAssumption DEF TypeOK, Goto, Working, Procs
<1>1. ASSUME NEW c \in Calls, Acquire(c) PROVE HolderInv' /\ JudgedInv' /\ WorkerInv'
  BY <1>0, <1>1 DEF Acquire, HolderInv, JudgedInv, WorkerInv
<1>2. ASSUME NEW c \in Calls, Release(c) PROVE HolderInv' /\ JudgedInv' /\ WorkerInv'
  BY <1>0, <1>2 DEF Release, HolderInv, JudgedInv, WorkerInv
<1>3. ASSUME NEW c \in Calls, Die(c) PROVE HolderInv' /\ JudgedInv' /\ WorkerInv'
  BY <1>0, <1>3 DEF Die, HolderInv, JudgedInv, WorkerInv
<1>4. ASSUME NEW c \in Calls, Contend(c) PROVE HolderInv' /\ JudgedInv' /\ WorkerInv'
  BY <1>0, <1>4 DEF Contend, AfterContention, HolderInv, JudgedInv, WorkerInv
<1>5. ASSUME NEW c \in Calls, KillDaemons(c) PROVE HolderInv' /\ JudgedInv' /\ WorkerInv'
  BY <1>0, <1>5 DEF KillDaemons, HolderInv, JudgedInv, WorkerInv
<1>6. ASSUME NEW c \in Calls, Judge(c) PROVE HolderInv' /\ JudgedInv' /\ WorkerInv'
  BY <1>0, <1>6 DEF Judge, Stale, Alive, HolderInv, JudgedInv, WorkerInv
<1>7. ASSUME NEW c \in Calls, Unlink(c) PROVE HolderInv' /\ JudgedInv' /\ WorkerInv'
  <2>1. HolderInv' /\ JudgedInv'
    BY <1>0, <1>7 DEF Unlink, HolderInv, JudgedInv
  <2> QED
    BY <1>7, <2>1, UnlinkSparesWorkers
<1>8. CASE UNCHANGED vars
  BY <1>0, <1>8 DEF vars, HolderInv, JudgedInv, WorkerInv, GpgInv
<1> QED
  BY <1>0, <1>1, <1>2, <1>3, <1>4, <1>5, <1>6, <1>7, <1>8 DEF Next, Step, GpgInv

\* Whatever the calls, daemons and hosts, the invariant holds.
LEMMA Invariance == Spec => []GpgInv
BY InitGpgInv, Inductive, PTL DEF Spec

\* On one host, no two gpg calls work on the keyring together, unless a sweep
\* removed a lock it had not judged, or a live one of another host.
THEOREM WorkersTakeTurns == Spec => []OneWorkerPerHost
<1>1. GpgInv => OneWorkerPerHost
  BY DEF GpgInv, WorkerInv, OneWorkerPerHost
<1> QED
  BY <1>1, Invariance, PTL

=============================================================================
