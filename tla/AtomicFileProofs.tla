-------------------------- MODULE AtomicFileProofs --------------------------
(* Any number of writers, failures, kills and power losses: the file is      *)
(* replaced atomically, and a write that returned is there to stay.          *)
EXTENDS AtomicFile, TLAPS

\* Every step of the writers, and every power loss, preserves the invariant.
LEMMA Inductive == FileInv /\ [Next]_vars => FileInv'
<1> SUFFICES ASSUME FileInv, [Next]_vars
             PROVE  FileInv'
  OBVIOUS
<1> USE FileAssumption DEF FileInv, TypeOK, Contents, Stages, Running
<1>1. ASSUME NEW w \in Writes, MakeTemp(w) PROVE FileInv'
  BY <1>1 DEF MakeTemp, Goto, ReturnedIsDurable
<1>2. ASSUME NEW w \in Writes, WriteTemp(w) PROVE FileInv'
  BY <1>2 DEF WriteTemp, Goto, ReturnedIsDurable
<1>3. ASSUME NEW w \in Writes, SyncTemp(w) PROVE FileInv'
  <2>1. w \in whole
    BY <1>3 DEF SyncTemp
  <2> QED
    BY <1>3, <2>1 DEF SyncTemp, AfterSync, Goto, ReturnedIsDurable
<1>4. ASSUME NEW w \in Writes, Replace(w) PROVE FileInv'
  BY <1>4 DEF Replace, Goto, ReturnedIsDurable
<1>5. ASSUME NEW w \in Writes, SyncDirectory(w) PROVE FileInv'
  BY <1>5 DEF SyncDirectory, AfterDirSync, Goto, ReturnedIsDurable
<1>6. ASSUME NEW w \in Writes, Raise(w) PROVE FileInv'
  BY <1>6 DEF Raise, CleanedTemps, Goto, ReturnedIsDurable
<1>7. ASSUME NEW w \in Writes, Kill(w) PROVE FileInv'
  BY <1>7 DEF Kill, Goto, ReturnedIsDurable
<1>8. CASE PowerLoss
  BY <1>8 DEF PowerLoss, ReturnedIsDurable
<1>9. CASE UNCHANGED vars
  BY <1>9 DEF vars, ReturnedIsDurable
<1> QED
  BY <1>1, <1>2, <1>3, <1>4, <1>5, <1>6, <1>7, <1>8, <1>9 DEF Next

\* The invariant holds from the start.
LEMMA Initially == Init => FileInv
BY FileAssumption DEF Init, FileInv, TypeOK, ReturnedIsDurable, Contents, Stages

\* However many writers there are and whatever happens to them, FileInv holds.
THEOREM Invariance == Spec => []FileInv
<1>1. Init => FileInv
  BY Initially
<1>2. FileInv /\ [Next]_vars => FileInv'
  BY Inductive
<1> QED
  BY <1>1, <1>2, PTL DEF Spec

\* A write that returned survives every later power loss.
THEOREM Durability == Spec => []ReturnedIsDurable
<1>1. FileInv => ReturnedIsDurable
  BY DEF FileInv
<1> QED
  BY <1>1, Invariance, PTL

\* Until power is lost, a temporary file is one of a writer that was killed, or
\* has not yet renamed it.
TempsInv ==
  losses = 0 => \A w \in temps : stage[w] \in {"killed", "made", "written", "synced"}

\* Every step keeps it so.
LEMMA NextTemps ==
  TypeOK /\ TempsInv /\ [Next]_vars => TempsInv'
<1> SUFFICES ASSUME TypeOK, TempsInv, [Next]_vars
             PROVE  TempsInv'
  OBVIOUS
<1> USE DEF TypeOK, Goto, TempsInv
<1>1. ASSUME NEW w \in Writes, MakeTemp(w) PROVE TempsInv'
  BY <1>1 DEF MakeTemp
<1>2. ASSUME NEW w \in Writes, WriteTemp(w) PROVE TempsInv'
  BY <1>2 DEF WriteTemp
<1>3. ASSUME NEW w \in Writes, SyncTemp(w) PROVE TempsInv'
  BY <1>3 DEF SyncTemp
<1>4. ASSUME NEW w \in Writes, Replace(w) PROVE TempsInv'
  BY <1>4 DEF Replace
<1>5. ASSUME NEW w \in Writes, SyncDirectory(w) PROVE TempsInv'
  BY <1>5 DEF SyncDirectory
<1>6. ASSUME NEW w \in Writes, Raise(w) PROVE TempsInv'
  BY <1>6 DEF Raise, CleanedTemps
<1>7. ASSUME NEW w \in Writes, Kill(w) PROVE TempsInv'
  BY <1>7 DEF Kill
<1>8. CASE PowerLoss
  <2>1. losses' = losses + 1 /\ losses \in Nat
    BY <1>8 DEF PowerLoss
  <2> QED
    BY <2>1
<1>9. CASE UNCHANGED vars
  BY <1>9 DEF vars
<1> QED
  BY <1>1, <1>2, <1>3, <1>4, <1>5, <1>6, <1>7, <1>8, <1>9 DEF Next

\* No exception leaves a temporary file behind: those there are belong to
\* writers that run or were killed.
THEOREM TempsHaveWriters == Spec => []NoStrayTemps
<1>1. Init => TempsInv
  BY DEF Init, TempsInv
<1>2. FileInv => TypeOK
  BY DEF FileInv
<1>3. TempsInv => NoStrayTemps
  BY DEF TempsInv, NoStrayTemps, Running
<1> QED
  BY <1>1, <1>2, <1>3, NextTemps, Invariance, PTL DEF Spec

\* What a reader can find is whole, now and after a power loss.
LEMMA SeenIsWhole ==
  ASSUME FileInv
  PROVE  /\ Seen(current) = current
         /\ {Seen(c) : c \in pending} = pending
         /\ current \in Contents
BY DEF FileInv, TypeOK, Seen

\* Every step of the system calls is a step of the abstract file, or none.
LEMMA StepSimulation ==
  FileInv /\ FileInv' /\ [Next]_vars =>
      [Abstract!Next]_<<Seen(current), {Seen(c) : c \in pending}>>
<1> SUFFICES ASSUME FileInv, FileInv', [Next]_vars
             PROVE  [Abstract!Next]_<<Seen(current), {Seen(c) : c \in pending}>>
  OBVIOUS
<1>0. /\ Seen(current) = current /\ {Seen(c) : c \in pending} = pending
      /\ Seen(current)' = current' /\ {Seen(c) : c \in pending}' = pending'
      /\ current' \in Contents
  <2>1. current' \in whole' /\ pending' \subseteq whole' /\ current' \in Contents
    BY DEF FileInv, TypeOK, Contents
  <2> QED
    BY <2>1, SeenIsWhole DEF Seen
<1>1. ASSUME NEW w \in Writes, Replace(w) PROVE Abstract!Write
  BY <1>0, <1>1 DEF Replace, Abstract!Write
<1>2. ASSUME NEW w \in Writes, SyncDirectory(w)
      PROVE  Abstract!Harden \/ UNCHANGED <<current, pending>>
  BY <1>0, <1>2 DEF SyncDirectory, AfterDirSync, Abstract!Harden
<1>3. CASE PowerLoss
  <2>1. PICK c \in pending : current' = c /\ pending' = {c}
    BY <1>3 DEF PowerLoss
  <2> QED
    BY <1>0, <2>1 DEF Abstract!PowerLoss, Abstract!Next
<1>4. ASSUME NEW w \in Writes,
             MakeTemp(w) \/ WriteTemp(w) \/ SyncTemp(w) \/ Raise(w) \/ Kill(w)
      PROVE  UNCHANGED <<current, pending>>
  BY <1>4 DEF MakeTemp, WriteTemp, SyncTemp, Raise, Kill
<1>5. CASE UNCHANGED vars
  BY <1>0, <1>5 DEF vars
<1> QED
  BY <1>0, <1>1, <1>2, <1>3, <1>4, <1>5 DEF Next, Abstract!Next

\* The system calls implement atomic replacement, for any number of writers.
THEOREM Refinement == Spec => ImplementsDurableFile
<1>1. Init => Abstract!Init
  <2> SUFFICES ASSUME Init PROVE Abstract!Init
    OBVIOUS
  <2> QED
    BY Initially, SeenIsWhole DEF Init, Abstract!Init, Contents
<1>2. FileInv /\ FileInv' /\ [Next]_vars =>
        [Abstract!Next]_<<Seen(current), {Seen(c) : c \in pending}>>
  BY StepSimulation
<1> QED
  BY <1>1, <1>2, Invariance, PTL DEF Spec, ImplementsDurableFile, Abstract!Spec

=============================================================================
