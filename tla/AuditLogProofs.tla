--------------------------- MODULE AuditLogProofs ---------------------------
(* What holds of the audit log for any number of processes, commands and     *)
(* crashes, and any cap.                                                     *)
EXTENDS AuditLog, SequenceTheorems, TLAPS

-----------------------------------------------------------------------------
(* The inductive invariant *)

\* The smaller of two numbers.
Smaller(a, b) == IF a < b THEN a ELSE b

\* A list of records, of w written in all, in order and without repetition.
Ordered(s, w) == Increasing(s) /\ \A i \in 1 .. Len(s) : s[i] \in 1 .. w

\* The last records of w written in all, at least up to the cap.
Complete(s, w) ==
    /\ Smaller(w, MaxRecords) <= Len(s) /\ Len(s) <= w
    /\ \A i \in 1 .. Len(s) : s[i] = w - Len(s) + i

\* The stages inside the vault lock.
Rotating == {"rotate", "rewrite", "sideline", "commit"}

\* One rotation at a time, with a key beyond all that are in use.
RotationInv ==
    /\ \A p \in Procs : /\ pc[p] \in Rotating <=> lock = p
                        /\ pc[p] \in Rotating => master < drawn
                        /\ pc[p] \in {"rewrite", "sideline", "commit"} => key[p] = master
                        /\ key[p] <= master

\* The log and all copies of it are in order.
OrderInv ==
    /\ file # None => Ordered(file.lines, written)
    /\ \A p \in Procs : Ordered(buffer[p], written)

\* While nothing is disturbed, the log is complete unless a rotation is about
\* to commit, and whoever is about to replace it has all of it.
KeptInv ==
    ~disturbed =>
       /\ (\A p \in Procs : pc[p] # "commit") =>
             /\ file # None => file.key = master
             /\ Complete(ReadLog(file, master), written)
             /\ \A p \in Procs : pc[p] = "write" /\ key[p] = master =>
                   buffer[p] = Capped(ReadLog(file, master))
       /\ \A p \in Procs :
             /\ pc[p] = "commit" => /\ file = None => written = 0
                                    /\ file # None /\ file.key = drawn =>
                                          Complete(file.lines, written)
             /\ pc[p] = "rewrite" => buffer[p] = ReadLog(file, master)
             /\ pc[p] # "sideline"

\* The inductive invariant.
AuditInv == TypeOK /\ RotationInv /\ OrderInv /\ KeptInv

-----------------------------------------------------------------------------
(* The file format *)

\* What is read of a log is a list of records.
LEMMA ReadLogType ==
    ASSUME TypeOK, NEW k
    PROVE  ReadLog(file, k) \in Seq(Nat)
BY EmptySeq DEF TypeOK, ReadLog, Log

\* The last k of a longer list.
LEMMA LastOfIs ==
    ASSUME NEW s \in Seq(Nat), NEW k \in Nat \ {0}, k <= Len(s)
    PROVE  /\ LastOf(s, k) \in Seq(Nat) /\ Len(LastOf(s, k)) = k
           /\ \A i \in 1 .. k : LastOf(s, k)[i] = s[Len(s) - k + i]
<1> DEFINE m == Len(s) - k + 1
<1>1. Len(s) \in Nat /\ m \in Int /\ m <= Len(s) /\ \A i \in m .. Len(s) : s[i] \in Nat
  BY LenProperties, ElementOfSeq
<1>2. /\ SubSeq(s, m, Len(s)) \in Seq(Nat)
      /\ Len(SubSeq(s, m, Len(s))) = Len(s) - m + 1
      /\ \A i \in 1 .. Len(s) - m + 1 : SubSeq(s, m, Len(s))[i] = s[m + i - 1]
  BY <1>1, SubSeqProperties
<1> QED
  BY <1>1, <1>2 DEF LastOf

\* Capping keeps the end of a list, all of it below the cap and when the cap
\* is one.
LEMMA CappedIs ==
    ASSUME NEW s \in Seq(Nat)
    PROVE  /\ Capped(s) \in Seq(Nat)
           /\ Len(Capped(s)) = IF Len(s) < MaxRecords \/ MaxRecords = 1
                                  THEN Len(s) ELSE MaxRecords - 1
           /\ \A i \in 1 .. Len(Capped(s)) : Capped(s)[i] = s[Len(s) - Len(Capped(s)) + i]
<1> USE AuditAssumption
<1>1. Len(s) \in Nat
  BY LenProperties
<1>2. CASE Len(s) < MaxRecords \/ MaxRecords = 1
  <2>1. Capped(s) = s
    <3>1. MaxRecords = 1 => MaxRecords - 1 = 0
      OBVIOUS
    <3> QED
      BY <1>2, <3>1 DEF Capped, LastOf
  <2>2. \A i \in 1 .. Len(s) : Len(s) - Len(s) + i = i
    BY <1>1
  <2> QED
    BY <1>2, <2>1, <2>2
<1>3. CASE ~(Len(s) < MaxRecords \/ MaxRecords = 1)
  <2> DEFINE r == MaxRecords - 1
             k == Len(Capped(s))
  <2>1. r \in Nat \ {0} /\ r <= Len(s)
    BY <1>1, <1>3
  <2>2. Capped(s) = LastOf(s, r)
    BY <1>3 DEF Capped
  <2> HIDE DEF r
  <2>3. Capped(s) \in Seq(Nat) /\ k = r
        /\ \A i \in 1 .. r : Capped(s)[i] = s[Len(s) - r + i]
    BY <2>1, <2>2, LastOfIs
  <2>4. \A i \in 1 .. k : Capped(s)[i] = s[Len(s) - k + i]
    BY <2>3
  <2> QED
    BY <1>3, <2>3, <2>4 DEF r
<1> QED
  BY <1>2, <1>3

\* A capped list is in order if the list is.
LEMMA CappedOrdered ==
    ASSUME NEW s \in Seq(Nat), NEW w \in Nat, Ordered(s, w)
    PROVE  Ordered(Capped(s), w)
<1> DEFINE c == Capped(s)
           d == Len(s) - Len(c)
<1>1. Len(s) \in Nat /\ Len(c) \in Nat /\ d \in Nat
  BY CappedIs, LenProperties, AuditAssumption
<1>2. \A i \in 1 .. Len(c) : c[i] = s[d + i] /\ d + i \in 1 .. Len(s)
  BY <1>1, CappedIs
<1> HIDE DEF c, d
<1>3. \A i \in 1 .. Len(c) : c[i] \in 1 .. w
  BY <1>2 DEF Ordered
<1>4. \A i, j \in 1 .. Len(c) : i < j => c[i] < c[j]
  BY <1>1, <1>2 DEF Ordered, Increasing
<1> QED
  BY <1>3, <1>4 DEF Ordered, Increasing, c

\* A list stays in order when the next record is appended.
LEMMA AppendedOrdered ==
    ASSUME NEW s \in Seq(Nat), NEW w \in Nat, Ordered(s, w)
    PROVE  Ordered(Appended(s, w + 1), w + 1)
<1>1. Len(s) \in Nat /\ w + 1 \in Nat
  BY LenProperties
<1>2. /\ Len(Append(s, w + 1)) = Len(s) + 1
      /\ \A i \in 1 .. Len(s) : Append(s, w + 1)[i] = s[i]
      /\ Append(s, w + 1)[Len(s) + 1] = w + 1
  BY <1>1, AppendProperties
<1> QED
  BY <1>1, <1>2 DEF Ordered, Increasing, Appended

\* Capping and appending the next record keeps a list complete.
LEMMA CappedComplete ==
    ASSUME NEW s \in Seq(Nat), NEW w \in Nat, Complete(s, w)
    PROVE  Complete(Appended(Capped(s), w + 1), w + 1)
<1> DEFINE c == Capped(s)
<1>1. Len(s) \in Nat /\ w + 1 \in Nat /\ c \in Seq(Nat) /\ Len(c) \in Nat
  BY LenProperties, CappedIs
<1>2. /\ Len(Append(c, w + 1)) = Len(c) + 1
      /\ \A i \in 1 .. Len(c) : Append(c, w + 1)[i] = c[i]
      /\ Append(c, w + 1)[Len(c) + 1] = w + 1
  BY <1>1, AppendProperties
<1>3. \A i \in 1 .. Len(c) : c[i] = w - Len(c) + i
  <2> TAKE i \in 1 .. Len(c)
  <2>1. c[i] = s[Len(s) - Len(c) + i]
    BY CappedIs
  <2>2. Len(s) - Len(c) + i \in 1 .. Len(s)
    BY <1>1, CappedIs, AuditAssumption
  <2> QED
    BY <1>1, <2>1, <2>2 DEF Complete
<1>4. Len(c) = IF Len(s) < MaxRecords \/ MaxRecords = 1 THEN Len(s) ELSE MaxRecords - 1
  BY CappedIs
<1> HIDE DEF c
<1>5. Smaller(w + 1, MaxRecords) <= Len(c) + 1 /\ Len(c) + 1 <= w + 1
  BY <1>1, <1>4, AuditAssumption DEF Complete, Smaller
<1>6. \A i \in 1 .. Len(c) + 1 : Append(c, w + 1)[i] = w + 1 - (Len(c) + 1) + i
  BY <1>1, <1>2, <1>3
<1> QED
  BY <1>2, <1>5, <1>6 DEF Complete, Appended, c

-----------------------------------------------------------------------------
(* The inductive invariant *)

\* A step of one process leaves the locals of every other as they are.
LEMMA OthersUnchanged ==
    ASSUME TypeOK, NEW p \in Procs, NEW q \in Procs, q # p,
           Start(p) \/ Step(p) \/ Crash(p)
    PROVE  pc'[q] = pc[q] /\ key'[q] = key[q] /\ buffer'[q] = buffer[q]
BY DEF TypeOK, Start, Step, AppendRead, AppendWrite, BeginRotation, StaleRotationFails,
       RotateRead, RotateWrite, Sideline, CommitRotation, Rederive, Crash, End, Goto

\* The invariant holds of a vault that has no log.
LEMMA InitAuditInv == Init => AuditInv
<1> SUFFICES ASSUME Init PROVE AuditInv
  OBVIOUS
<1> USE AuditAssumption, EmptySeq
<1>1. TypeOK
  <2>1. disturbed \in BOOLEAN
    BY Zenon DEF Init
  <2> QED
    BY <2>1 DEF Init, TypeOK
<1>2. RotationInv
  BY DEF Init, RotationInv, Rotating
<1>3. OrderInv
  BY DEF Init, OrderInv, Ordered, Increasing
<1>4. KeptInv
  BY DEF Init, KeptInv, Complete, ReadLog, Smaller
<1> QED
  BY <1>1, <1>2, <1>3, <1>4 DEF AuditInv

\* Every step keeps the types.
LEMMA NextTypeOK == TypeOK /\ RotationInv /\ [Next]_vars => TypeOK'
<1> SUFFICES ASSUME TypeOK, RotationInv, [Next]_vars PROVE TypeOK'
  OBVIOUS
<1> USE AuditAssumption
<1>9. disturbed' \in BOOLEAN
  <2>1. ASSUME NEW p \in Procs, Start(p) \/ Step(p) \/ Crash(p)
        PROVE  disturbed' = disturbed \/ \E b \in BOOLEAN : disturbed' = b
    <3>1. CASE AppendWrite(p) \/ RotateWrite(p) \/ CommitRotation(p) \/ Sideline(p) \/ Crash(p)
      BY <3>1, Zenon DEF AppendWrite, RotateWrite, CommitRotation, Sideline, Crash
    <3> QED
      BY <2>1, <3>1, Zenon DEF Start, Step, AppendRead, BeginRotation, StaleRotationFails,
                       RotateRead, Rederive
  <2>2. UNCHANGED vars => disturbed' = disturbed
    BY DEF vars
  <2> QED
    BY <2>1, <2>2, Zenon DEF Next, TypeOK
<1> DEFINE Staged == pc \in [Procs -> {"idle", "read", "write", "lock", "rotate", "rewrite",
                                     "sideline", "commit", "rederive"}]
           Keyed == master \in 1 .. drawn /\ drawn \in Nat /\ key \in [Procs -> 0 .. drawn]
           Rest == /\ file \in Log \cup {None} /\ lock \in Procs \cup {None}
                   /\ buffer \in [Procs -> Seq(Nat)]
                   /\ written \in Nat /\ started \in Nat /\ crashes \in Nat
<1>0. ASSUME NEW p \in Procs, End(p)
      PROVE  /\ Staged' /\ key' \in [Procs -> 0 .. drawn] /\ buffer' \in [Procs -> Seq(Nat)]
             /\ lock' \in Procs \cup {None}
  BY <1>0, EmptySeq DEF TypeOK, End, Goto
<1>1. ASSUME NEW p \in Procs, Start(p) \/ BeginRotation(p) \/ CommitRotation(p) \/ Rederive(p)
      PROVE  Staged' /\ Keyed' /\ Rest'
  <2>1. Staged'
    BY <1>1 DEF TypeOK, Start, BeginRotation, CommitRotation, Rederive, Goto
  <2>2. Keyed'
    <3>1. CASE Start(p) \/ Rederive(p)
      <4>1. key' = [key EXCEPT ![p] = master] /\ master' = master /\ drawn' = drawn
        BY <3>1 DEF Start, Rederive
      <4>2. master \in 0 .. drawn
        BY DEF TypeOK
      <4> QED
        BY <4>1, <4>2 DEF TypeOK
    <3>2. CASE BeginRotation(p)
      BY <3>2 DEF TypeOK, BeginRotation
    <3>3. CASE CommitRotation(p)
      BY <3>3 DEF TypeOK, CommitRotation, NewKey
    <3> QED
      BY <1>1, <3>1, <3>2, <3>3
  <2>3. Rest'
    <3>1. CASE Start(p)
      BY <3>1 DEF TypeOK, Start, counters
    <3>2. CASE BeginRotation(p)
      BY <3>2 DEF TypeOK, BeginRotation, counters
    <3>3. CASE CommitRotation(p)
      BY <3>3 DEF TypeOK, CommitRotation, counters
    <3>4. CASE Rederive(p)
      BY <3>4 DEF TypeOK, Rederive, counters
    <3> QED
      BY <1>1, <3>1, <3>2, <3>3, <3>4
  <2> QED
    BY <2>1, <2>2, <2>3
<1>2. ASSUME NEW p \in Procs, AppendRead(p) \/ RotateRead(p)
      PROVE  Staged' /\ Keyed' /\ Rest'
  <2>1. \A k : ReadLog(file, k) \in Seq(Nat) /\ Capped(ReadLog(file, k)) \in Seq(Nat)
    BY ReadLogType, CappedIs
  <2>2. Staged' /\ Keyed'
    BY <1>2 DEF TypeOK, AppendRead, RotateRead, Goto
  <2>3. Rest'
    <3>1. CASE AppendRead(p)
      BY <3>1, <2>1 DEF TypeOK, AppendRead, counters
    <3>2. CASE RotateRead(p)
      BY <3>2, <2>1 DEF TypeOK, RotateRead, counters
    <3> QED
      BY <1>2, <3>1, <3>2
  <2> QED
    BY <2>2, <2>3
<1>3. ASSUME NEW p \in Procs, AppendWrite(p) PROVE Staged' /\ Keyed' /\ Rest'
  <2>1. Appended(buffer[p], written + 1) \in Seq(Nat) /\ key[p] \in Nat
    BY AppendProperties DEF TypeOK, Appended
  <2>2. file' \in Log
    BY <1>3, <2>1 DEF AppendWrite, Log
  <2> QED
    BY <1>0, <1>3, <2>2 DEF TypeOK, AppendWrite, counters
<1>4. ASSUME NEW p \in Procs, StaleRotationFails(p) \/ Crash(p)
      PROVE  Staged' /\ Keyed' /\ Rest'
  <2>1. CASE StaleRotationFails(p)
    BY <1>0, <2>1 DEF TypeOK, StaleRotationFails, counters
  <2>2. CASE Crash(p)
    BY <1>0, <2>2 DEF TypeOK, Crash
  <2> QED
    BY <1>4, <2>1, <2>2
<1>5. ASSUME NEW p \in Procs, RotateWrite(p) \/ Sideline(p) PROVE Staged' /\ Keyed' /\ Rest'
  <2>1. Staged' /\ Keyed'
    BY <1>5 DEF TypeOK, RotateWrite, Sideline, Goto
  <2>2. Rest'
    BY <1>5 DEF TypeOK, RotateWrite, Sideline, Log, NewKey, counters
  <2> QED
    BY <2>1, <2>2
<1>6. CASE UNCHANGED vars
  BY <1>6 DEF TypeOK, vars
<1>7. Staged' /\ Keyed' /\ Rest'
  BY <1>1, <1>2, <1>3, <1>4, <1>5, <1>6 DEF Next, Step, TypeOK, vars
<1> QED
  BY <1>7, <1>9, Zenon DEF TypeOK

\* One rotation at a time, and its key is new.
LEMMA NextRotationInv == TypeOK /\ RotationInv /\ [Next]_vars => RotationInv'
<1> SUFFICES ASSUME TypeOK, RotationInv, [Next]_vars PROVE RotationInv'
  OBVIOUS
<1> USE AuditAssumption DEF RotationInv, Rotating
<1>1. ASSUME NEW p \in Procs, End(p), master' = master, drawn' = drawn PROVE RotationInv'
  BY <1>1 DEF TypeOK, End, Goto
<1>2. ASSUME NEW p \in Procs, AppendWrite(p) \/ StaleRotationFails(p) \/ Crash(p)
      PROVE  RotationInv'
  BY <1>1, <1>2 DEF AppendWrite, StaleRotationFails, Crash
<1>3. ASSUME NEW p \in Procs, Start(p) \/ AppendRead(p) \/ Rederive(p) PROVE RotationInv'
  BY <1>3 DEF TypeOK, Start, AppendRead, Rederive, Goto
<1>4. ASSUME NEW p \in Procs, BeginRotation(p) PROVE RotationInv'
  BY <1>4 DEF TypeOK, BeginRotation, Goto
<1>5. ASSUME NEW p \in Procs, RotateRead(p) \/ RotateWrite(p) \/ Sideline(p)
      PROVE  RotationInv'
  BY <1>5 DEF TypeOK, RotateRead, RotateWrite, Sideline, Goto
<1>6. ASSUME NEW p \in Procs, CommitRotation(p) PROVE RotationInv'
  BY <1>6 DEF TypeOK, CommitRotation, Goto, NewKey
<1>7. CASE UNCHANGED vars
  BY <1>7 DEF vars
<1> QED
  BY <1>2, <1>3, <1>4, <1>5, <1>6, <1>7 DEF Next, Step

\* Every list stays in order.
LEMMA NextOrderInv == TypeOK /\ OrderInv /\ [Next]_vars => OrderInv'
<1> SUFFICES ASSUME TypeOK, OrderInv, [Next]_vars PROVE OrderInv'
  OBVIOUS
<1>1. \A k : Ordered(ReadLog(file, k), written) /\ Ordered(Capped(ReadLog(file, k)), written)
  <2>1. Ordered(<<>>, written)
    BY EmptySeq DEF Ordered, Increasing
  <2>2. \A k : Ordered(ReadLog(file, k), written)
    BY <2>1 DEF OrderInv, ReadLog
  <2> QED
    BY <2>2, ReadLogType, CappedOrdered DEF TypeOK
<1>2. Ordered(<<>>, written') /\ \A s : Ordered(s, written) => Ordered(s, written + 1)
  BY EmptySeq DEF Ordered, Increasing, TypeOK
<1>3. ASSUME NEW p \in Procs, AppendRead(p) \/ RotateRead(p) PROVE OrderInv'
  BY <1>1, <1>3 DEF OrderInv, TypeOK, AppendRead, RotateRead
<1>4. ASSUME NEW p \in Procs, AppendWrite(p) PROVE OrderInv'
  <2>1. Ordered(Appended(buffer[p], written + 1), written + 1)
    BY AppendedOrdered DEF TypeOK, OrderInv
  <2>2. file'.lines = Appended(buffer[p], written + 1) /\ written' = written + 1
        /\ buffer' = [buffer EXCEPT ![p] = <<>>]
    BY <1>4 DEF AppendWrite, End
  <2> QED
    BY <1>2, <2>1, <2>2 DEF OrderInv, TypeOK
<1>5. ASSUME NEW p \in Procs, StaleRotationFails(p) \/ Crash(p) PROVE OrderInv'
  BY <1>2, <1>5 DEF OrderInv, TypeOK, StaleRotationFails, Crash, End
<1>6. ASSUME NEW p \in Procs, RotateWrite(p) \/ Sideline(p) PROVE OrderInv'
  BY <1>6 DEF OrderInv, TypeOK, RotateWrite, Sideline
<1>7. ASSUME NEW p \in Procs, Start(p) \/ BeginRotation(p) \/ CommitRotation(p) \/ Rederive(p)
      PROVE  OrderInv'
  BY <1>7 DEF OrderInv, Start, BeginRotation, CommitRotation, Rederive
<1>8. CASE UNCHANGED vars
  BY <1>8 DEF OrderInv, vars
<1> QED
  BY <1>3, <1>4, <1>5, <1>6, <1>7, <1>8 DEF Next, Step

\* Nothing that was disturbed is undisturbed again, and what disturbs says so.
LEMMA Undisturbed ==
    ASSUME NEW p \in Procs, Start(p) \/ Step(p) \/ Crash(p), ~disturbed'
    PROVE  /\ ~disturbed
           /\ ~Sideline(p)
           /\ AppendWrite(p) \/ RotateWrite(p) \/ CommitRotation(p) => Holding \ {p} = {}
           /\ AppendWrite(p) => key[p] = master
           /\ CommitRotation(p) => file = None \/ file.key = drawn
           /\ Crash(p) => pc[p] # "commit"
<1>1. disturbed' = disturbed \/ Sideline(p) \/ AppendWrite(p) \/ RotateWrite(p)
        \/ CommitRotation(p) \/ Crash(p)
  BY DEF Start, Step, AppendRead, BeginRotation, StaleRotationFails, RotateRead, Rederive
<1>2. /\ ~Sideline(p)
      /\ AppendWrite(p) => ~disturbed /\ Holding \ {p} = {} /\ key[p] = master
      /\ RotateWrite(p) => ~disturbed /\ Holding \ {p} = {}
      /\ CommitRotation(p) => /\ ~disturbed /\ Holding \ {p} = {}
                              /\ file = None \/ file.key = drawn
      /\ Crash(p) => ~disturbed /\ pc[p] # "commit"
  <2>1. ~Sideline(p)
    BY Zenon DEF Sideline
  <2>2. AppendWrite(p) => ~disturbed /\ Holding \ {p} = {} /\ key[p] = master
    BY Zenon DEF AppendWrite, Overtakes
  <2>3. RotateWrite(p) => ~disturbed /\ Holding \ {p} = {}
    BY Zenon DEF RotateWrite, Overtakes
  <2>4. CommitRotation(p) => /\ ~disturbed /\ Holding \ {p} = {}
                             /\ file = None \/ file.key = drawn
    BY Zenon DEF CommitRotation, Overtakes, NewKey
  <2>5. Crash(p) => ~disturbed /\ pc[p] # "commit"
    <3>1. Crash(p) => (disturbed' <=> disturbed \/ pc[p] = "commit")
      BY DEF Crash
    <3> QED
      BY <3>1, Zenon
  <2> QED
    BY <2>1, <2>2, <2>3, <2>4, <2>5, Zenon
<1> QED
  <2>1. ~disturbed
    BY <1>1, <1>2, Zenon
  <2> QED
    BY <1>2, <2>1, Zenon

\* Every step keeps the log complete, or says that it disturbed it.
LEMMA NextKeptInv == AuditInv /\ [Next]_vars => KeptInv'
<1> SUFFICES ASSUME AuditInv, [Next]_vars, ~disturbed' PROVE KeptInv'
  BY DEF KeptInv
<1> USE AuditAssumption
<1> DEFINE log == ReadLog(file, master)
<1>0. TypeOK /\ RotationInv /\ (~disturbed => KeptInv)
  BY DEF AuditInv
<1>1. ASSUME NEW p \in Procs, Start(p) \/ Step(p) \/ Crash(p)
      PROVE  KeptInv'
  <2>0. \A q \in Procs : q # p =>
           pc'[q] = pc[q] /\ key'[q] = key[q] /\ buffer'[q] = buffer[q]
    BY <1>0, <1>1, OthersUnchanged
  <2>1. ~disturbed /\ KeptInv
    BY <1>0, <1>1, Undisturbed
  <2>2. ASSUME /\ file' = file /\ master' = master /\ written' = written
               /\ pc[p] # "commit" /\ pc'[p] \notin {"commit", "rewrite", "sideline"}
               /\ pc'[p] = "write" => buffer'[p] = Capped(ReadLog(file, key'[p]))
               /\ drawn' = drawn \/ \A q \in Procs : pc[q] # "commit"
        PROVE  KeptInv'
    <3>1. \A q \in Procs : pc'[q] = "commit" <=> pc[q] = "commit"
      BY <2>0, <2>2
    <3>2. CASE \E q \in Procs : pc[q] = "commit"
      BY <2>0, <2>1, <2>2, <3>1, <3>2 DEF KeptInv, ReadLog
    <3>3. CASE \A q \in Procs : pc[q] # "commit"
      <4>1. /\ file # None => file.key = master
            /\ Complete(log, written)
            /\ \A q \in Procs : pc[q] = "write" /\ key[q] = master => buffer[q] = Capped(log)
            /\ \A q \in Procs : pc[q] # "sideline" /\ (pc[q] = "rewrite" => buffer[q] = log)
        BY <2>1, <3>3 DEF KeptInv
      <4>2. ReadLog(file, master)' = log
        BY <2>2 DEF ReadLog
      <4>3. \A q \in Procs : pc'[q] = "write" /\ key'[q] = master => buffer'[q] = Capped(log)
        BY <2>0, <2>2, <4>1
      <4>4. \A q \in Procs : pc'[q] # "sideline" /\ (pc'[q] = "rewrite" => buffer'[q] = log)
        BY <2>0, <2>2, <4>1
      <4> QED
        BY <2>2, <3>1, <3>3, <4>1, <4>2, <4>3, <4>4 DEF KeptInv
    <3> QED
      BY <3>2, <3>3
  <2>3. CASE Start(p) \/ Rederive(p) \/ StaleRotationFails(p) \/ BeginRotation(p) \/ AppendRead(p)
               \/ Crash(p)
    <3>1. CASE Start(p) \/ Rederive(p)
      BY <1>0, <2>2, <3>1 DEF Start, Rederive, TypeOK, Goto
    <3>2. CASE AppendRead(p)
      BY <1>0, <2>2, <3>2 DEF AppendRead, TypeOK, Goto
    <3>3. CASE BeginRotation(p)
      BY <1>0, <2>2, <3>3 DEF BeginRotation, TypeOK, Goto, RotationInv, Rotating
    <3>4. CASE StaleRotationFails(p) \/ Crash(p)
      <4>1. pc[p] # "commit"
        BY <1>1, <3>4, Undisturbed DEF StaleRotationFails
      <4>2. pc'[p] = "idle"
        BY <1>0, <3>4 DEF StaleRotationFails, Crash, TypeOK, End, Goto
      <4>3. file' = file /\ master' = master /\ written' = written /\ drawn' = drawn
        BY <3>4 DEF StaleRotationFails, Crash
      <4> QED
        BY <2>2, <4>1, <4>2, <4>3
    <3> QED
      BY <2>3, <3>1, <3>2, <3>3, <3>4
  <2>4. CASE AppendWrite(p)
    <3>1. Holding \ {p} = {} /\ key[p] = master
      BY <1>1, <2>4, Undisturbed
    <3>2. /\ pc[p] = "write" /\ pc'[p] = "idle" /\ master' = master /\ drawn' = drawn
          /\ file' = [key |-> master, lines |-> Appended(buffer[p], written + 1)]
          /\ written' = written + 1 /\ file' # None
      <4>1. Appended(buffer[p], written + 1) \in Seq(Nat) /\ master \in Nat
        BY <1>0, AppendProperties DEF TypeOK, Appended
      <4>2. [key |-> master, lines |-> Appended(buffer[p], written + 1)] # None
        BY <4>1
      <4> QED
        BY <1>0, <2>4, <3>1, <4>2 DEF AppendWrite, TypeOK, End, Goto
    <3>3. \A q \in Procs : pc'[q] \notin {"write", "rewrite", "sideline"}
      BY <2>0, <3>1, <3>2 DEF Holding
    <3>4. CASE \E q \in Procs : pc[q] = "commit"
      <4>1. master < drawn /\ \E q \in Procs : pc'[q] = "commit"
        BY <1>0, <2>0, <3>2, <3>4 DEF RotationInv, Rotating
      <4> QED
        BY <1>0, <3>2, <3>3, <4>1 DEF KeptInv, TypeOK
    <3>5. CASE \A q \in Procs : pc[q] # "commit"
      <4>1. buffer[p] = Capped(log) /\ Complete(log, written)
        BY <2>1, <3>1, <3>2, <3>5 DEF KeptInv
      <4>2. Complete(Appended(Capped(log), written + 1), written + 1)
        BY <1>0, <4>1, ReadLogType, CappedComplete DEF TypeOK
      <4>3. ReadLog(file, master)' = Appended(buffer[p], written + 1)
        BY <3>2 DEF ReadLog
      <4>4. \A q \in Procs : pc'[q] # "commit"
        BY <2>0, <3>2, <3>5
      <4> QED
        BY <3>2, <3>3, <4>1, <4>2, <4>3, <4>4 DEF KeptInv
    <3> QED
      BY <3>4, <3>5
  <2>5. CASE RotateRead(p)
    <3>1. /\ pc[p] = "rotate" /\ key[p] = master /\ file' = file /\ master' = master
          /\ written' = written /\ drawn' = drawn /\ buffer'[p] = log
          /\ pc'[p] = IF file = None THEN "commit"
                      ELSE IF file.key = master THEN "rewrite" ELSE "sideline"
      BY <1>0, <2>5 DEF RotateRead, TypeOK, Goto
    <3>2. \A q \in Procs : pc[q] # "commit"
      BY <1>0, <3>1 DEF RotationInv, Rotating
    <3>3. /\ file # None => file.key = master
          /\ Complete(log, written)
          /\ \A q \in Procs : pc[q] = "write" /\ key[q] = master => buffer[q] = Capped(log)
          /\ \A q \in Procs : pc[q] # "sideline" /\ (pc[q] = "rewrite" => buffer[q] = log)
      BY <2>1, <3>2 DEF KeptInv
    <3>4. ReadLog(file, master)' = log
      BY <3>1 DEF ReadLog
    <3>5. \A q \in Procs : /\ pc'[q] = "write" /\ key'[q] = master => buffer'[q] = Capped(log)
                           /\ pc'[q] # "sideline" /\ (pc'[q] = "rewrite" => buffer'[q] = log)
      BY <2>0, <3>1, <3>3
    <3>6. file = None => written = 0
      BY <1>0, <3>3, EmptySeq DEF Complete, Smaller, ReadLog, TypeOK
    <3>7. \A q \in Procs : pc'[q] = "commit" => file = None
      BY <2>0, <3>1, <3>2
    <3> QED
      BY <3>1, <3>3, <3>4, <3>5, <3>6, <3>7 DEF KeptInv
  <2>6. CASE RotateWrite(p)
    <3>1. Holding \ {p} = {}
      BY <1>1, <2>6, Undisturbed
    <3>2. /\ pc[p] = "rewrite" /\ pc'[p] = "commit" /\ written' = written /\ drawn' = drawn
          /\ file'.lines = buffer[p] /\ file' # None
      BY <1>0, <2>6, NextTypeOK DEF RotateWrite, TypeOK, Goto, Log, NewKey
    <3>3. \A q \in Procs : pc[q] # "commit"
      BY <1>0, <3>2 DEF RotationInv, Rotating
    <3>4. Complete(buffer[p], written)
      BY <2>1, <3>2, <3>3 DEF KeptInv
    <3>5. \A q \in Procs : pc'[q] \notin {"write", "rewrite", "sideline"}
      BY <2>0, <3>1, <3>2 DEF Holding
    <3> QED
      BY <3>2, <3>4, <3>5 DEF KeptInv
  <2>7. CASE CommitRotation(p)
    <3>1. Holding \ {p} = {} /\ (file = None \/ file.key = drawn)
      BY <1>1, <2>7, Undisturbed
    <3>2. /\ pc[p] = "commit" /\ pc'[p] = "rederive" /\ written' = written /\ drawn' = drawn
          /\ file' = file /\ master' = drawn
      BY <1>0, <2>7 DEF CommitRotation, TypeOK, Goto, NewKey
    <3>3. \A q \in Procs : pc'[q] \notin {"write", "rewrite", "sideline", "commit"}
      BY <1>0, <2>0, <3>1, <3>2 DEF Holding, RotationInv, Rotating
    <3>4. /\ file = None => written = 0
          /\ file # None => Complete(file.lines, written)
      BY <2>1, <3>1, <3>2 DEF KeptInv
    <3>5. Complete(ReadLog(file', master'), written')
      <4>1. CASE file = None
        BY <3>2, <3>4, <4>1, EmptySeq DEF ReadLog, Complete, Smaller
      <4>2. CASE file # None
        BY <3>1, <3>2, <3>4, <4>2 DEF ReadLog
      <4> QED
        BY <4>1, <4>2
    <3> QED
      BY <3>1, <3>2, <3>3, <3>5 DEF KeptInv
  <2> QED
    BY <1>1, <2>3, <2>4, <2>5, <2>6, <2>7, Undisturbed DEF Step
<1>2. CASE UNCHANGED vars
  BY <1>0, <1>2 DEF KeptInv, vars
<1> QED
  BY <1>1, <1>2 DEF Next

\* Every step keeps the log, and what is about to be the log, within the cap.
LEMMA NextWithinCap ==
    ASSUME MaxRecords # 1
    PROVE  TypeOK /\ LogWithinCap /\ [Next]_vars => LogWithinCap'
<1> SUFFICES ASSUME TypeOK, LogWithinCap, [Next]_vars PROVE LogWithinCap'
  OBVIOUS
<1> USE AuditAssumption
<1> DEFINE Fits(q) == Len(buffer[q]) <= MaxRecords - (IF pc[q] = "write" THEN 1 ELSE 0)
           Bounded == file # None => Len(file.lines) <= MaxRecords
<1>0. /\ MaxRecords \in Nat /\ MaxRecords >= 2
      /\ Len(<<>>) = 0 /\ \A q \in Procs : Len(buffer[q]) \in Nat
  BY EmptySeq, LenProperties DEF TypeOK
<1>1. Bounded /\ \A q \in Procs : Fits(q)
  BY DEF LogWithinCap
<1>2. \A k : Len(ReadLog(file, k)) <= MaxRecords
  BY <1>0, <1>1 DEF ReadLog
<1>3. \A k : Len(Capped(ReadLog(file, k))) <= MaxRecords - 1
  <2> TAKE k
  <2> DEFINE s == ReadLog(file, k)
  <2>1. s \in Seq(Nat) /\ Len(s) \in Nat
    BY ReadLogType, LenProperties
  <2> HIDE DEF s
  <2>2. Len(Capped(s)) = IF Len(s) < MaxRecords \/ MaxRecords = 1
                           THEN Len(s) ELSE MaxRecords - 1
    BY <2>1, CappedIs
  <2>3. Len(Capped(s)) <= MaxRecords - 1
    BY <1>0, <2>1, <2>2
  <2> QED
    BY <2>3 DEF s
<1>4. ASSUME NEW p \in Procs, Start(p) \/ Step(p) \/ Crash(p)
      PROVE  Bounded' /\ Fits(p)'
  <2>1. ASSUME pc'[p] # "write", buffer'[p] = <<>> PROVE Fits(p)'
    BY <1>0, <2>1
  <2>2. CASE AppendRead(p)
    <3>1. pc'[p] = "write" /\ buffer'[p] = Capped(ReadLog(file, key[p])) /\ file' = file
      BY <2>2 DEF AppendRead, TypeOK, Goto
    <3> QED
      BY <1>1, <1>3, <3>1
  <2>3. CASE RotateRead(p)
    <3>1. pc'[p] # "write" /\ buffer'[p] = ReadLog(file, key[p]) /\ file' = file
      BY <2>3 DEF RotateRead, TypeOK, Goto
    <3>2. Len(buffer'[p]) <= MaxRecords - 0
      BY <1>0, <1>2, <3>1
    <3> QED
      BY <1>1, <3>1, <3>2
  <2>4. CASE AppendWrite(p)
    <3>1. pc[p] = "write" /\ pc'[p] = "idle" /\ buffer'[p] = <<>>
          /\ file'.lines = Append(buffer[p], written + 1)
      BY <2>4 DEF AppendWrite, Appended, End, TypeOK, Goto
    <3>2. Len(Append(buffer[p], written + 1)) = Len(buffer[p]) + 1
      BY AppendProperties DEF TypeOK
    <3>3. Len(buffer[p]) <= MaxRecords - 1
      BY <1>1, <3>1
    <3>4. Len(file'.lines) <= MaxRecords
      BY <1>0, <3>1, <3>2, <3>3
    <3> QED
      BY <2>1, <3>1, <3>4
  <2>5. CASE StaleRotationFails(p) \/ Crash(p)
    <3>1. pc'[p] = "idle" /\ buffer'[p] = <<>> /\ file' = file
      BY <2>5 DEF StaleRotationFails, Crash, End, TypeOK, Goto
    <3> QED
      BY <1>1, <2>1, <3>1
  <2>6. ASSUME pc'[p] # "write", pc[p] # "write", buffer'[p] = buffer[p],
               file' = file \/ file' = None \/ file'.lines = buffer[p]
        PROVE  Bounded' /\ Fits(p)'
    <3>0. Fits(p)
      BY <1>1
    <3>1. Len(buffer[p]) <= MaxRecords
      <4>1. pc[p] # "write"
        BY <2>6
      <4>2. Len(buffer[p]) <= MaxRecords - 0
        BY <3>0, <4>1
      <4> QED
        BY <1>0, <4>2
    <3>2. Bounded'
      BY <1>1, <2>6, <3>1
    <3> QED
      BY <2>6, <3>1, <3>2
  <2> HIDE DEF Fits, Bounded
  <2>7. CASE Start(p)
    <3>1. pc[p] = "idle" /\ pc'[p] # "write" /\ buffer' = buffer /\ file' = file
      BY <2>7 DEF Start, TypeOK, Goto
    <3> QED
      BY <2>6, <3>1
  <2>8. CASE BeginRotation(p)
    <3>1. pc[p] = "lock" /\ pc'[p] = "rotate" /\ buffer' = buffer /\ file' = file
      BY <2>8 DEF BeginRotation, TypeOK, Goto
    <3> QED
      BY <2>6, <3>1
  <2>9. CASE RotateWrite(p)
    <3>1. /\ pc[p] = "rewrite" /\ pc'[p] = "commit" /\ buffer' = buffer
          /\ file'.lines = buffer[p]
      BY <2>9 DEF RotateWrite, TypeOK, Goto
    <3> QED
      BY <2>6, <3>1
  <2>10. CASE Sideline(p)
    <3>1. pc[p] = "sideline" /\ pc'[p] = "commit" /\ buffer' = buffer /\ file' = None
      BY <2>10 DEF Sideline, TypeOK, Goto
    <3> QED
      BY <2>6, <3>1
  <2>11. CASE CommitRotation(p)
    <3>1. pc[p] = "commit" /\ pc'[p] = "rederive" /\ buffer' = buffer /\ file' = file
      BY <2>11 DEF CommitRotation, TypeOK, Goto
    <3> QED
      BY <2>6, <3>1
  <2>12. CASE Rederive(p)
    <3>1. pc[p] = "rederive" /\ pc'[p] = "read" /\ buffer' = buffer /\ file' = file
      BY <2>12 DEF Rederive, TypeOK, Goto
    <3> QED
      BY <2>6, <3>1
  <2> QED
    BY <1>4, <2>2, <2>3, <2>4, <2>5, <2>7, <2>8, <2>9, <2>10, <2>11, <2>12 DEF Step
<1>5. ASSUME NEW p \in Procs, Start(p) \/ Step(p) \/ Crash(p) PROVE LogWithinCap'
  <2>1. \A q \in Procs : q # p => pc'[q] = pc[q] /\ buffer'[q] = buffer[q]
    BY <1>5, OthersUnchanged
  <2>2. \A q \in Procs : Fits(q)'
    BY <1>1, <1>4, <1>5, <2>1
  <2> HIDE DEF Fits, Bounded
  <2>3. Bounded'
    BY <1>4, <1>5
  <2> QED
    BY <2>2, <2>3 DEF LogWithinCap, Fits, Bounded
<1>6. CASE UNCHANGED vars
  BY <1>6 DEF LogWithinCap, vars
<1> QED
  BY <1>5, <1>6 DEF Next

-----------------------------------------------------------------------------
(* The theorems *)

\* The inductive invariant holds in every reachable state, whatever the number
\* of processes, commands and crashes, and whatever the cap.
THEOREM Invariance == Spec => []AuditInv
<1>1. AuditInv /\ [Next]_vars => AuditInv'
  BY NextTypeOK, NextRotationInv, NextOrderInv, NextKeptInv DEF AuditInv
<1> QED
  BY InitAuditInv, <1>1, PTL DEF Spec

\* Every variable keeps its type, and no key is used before it is drawn.
THEOREM TypeCorrect == Spec => []TypeOK
BY Invariance, PTL DEF AuditInv

\* However appends and rotations interleave, the log is in the order the records
\* were written, without repetition or invention.
THEOREM LogStaysInOrder == Spec => []LogInOrder
<1>1. AuditInv => LogInOrder
  BY DEF AuditInv, OrderInv, Ordered, LogInOrder
<1> QED
  BY Invariance, <1>1, PTL

\* The log never grows over max_records, unless max_records is one: then
\* _cap_records keeps everything, and the log grows for ever.
THEOREM LogStaysWithinCap ==
    ASSUME MaxRecords # 1
    PROVE  Spec => []LogWithinCap
<1>1. Init => LogWithinCap
  BY EmptySeq, AuditAssumption DEF Init, LogWithinCap
<1>2. TypeOK /\ LogWithinCap /\ [Next]_vars => LogWithinCap'
  BY NextWithinCap
<1> QED
  BY <1>1, <1>2, TypeCorrect, PTL DEF Spec

\* As long as no process replaces the log, or moves master.json, while another
\* is between reading and writing it, the audit command shows every record
\* written, newest first, back to the cap, across any number of rotations.
THEOREM NothingGetsLost == Spec => []NothingIsForgotten
<1>1. AuditInv => NothingIsForgotten
  <2> SUFFICES ASSUME AuditInv, ~disturbed, lock = None PROVE
                 Recent(ReadLog(file, master), MaxRecords)
                   = [i \in 1 .. (IF written < MaxRecords THEN written ELSE MaxRecords)
                        |-> written + 1 - i]
    BY DEF NothingIsForgotten
  <2> DEFINE log == ReadLog(file, master)
  <2>1. TypeOK /\ RotationInv /\ KeptInv
    BY DEF AuditInv
  <2>2. \A p \in Procs : pc[p] # "commit"
    BY <2>1, AuditAssumption DEF RotationInv, Rotating
  <2>3. Complete(log, written)
    BY <2>1, <2>2 DEF KeptInv
  <2>4. log \in Seq(Nat) /\ Len(log) \in Nat /\ written \in Nat
    BY <2>1, ReadLogType, LenProperties DEF TypeOK
  <2> HIDE DEF log
  <2>5. (IF MaxRecords < Len(log) THEN MaxRecords ELSE Len(log))
          = (IF written < MaxRecords THEN written ELSE MaxRecords)
    BY <2>3, <2>4, AuditAssumption DEF Complete, Smaller
  <2>6. \A i \in 1 .. (IF MaxRecords < Len(log) THEN MaxRecords ELSE Len(log)) :
           log[Len(log) + 1 - i] = written + 1 - i
    <3> TAKE i \in 1 .. (IF MaxRecords < Len(log) THEN MaxRecords ELSE Len(log))
    <3>1. Len(log) + 1 - i \in 1 .. Len(log)
      BY <2>4, AuditAssumption
    <3>2. log[Len(log) + 1 - i] = written - Len(log) + (Len(log) + 1 - i)
      BY <2>3, <3>1 DEF Complete
    <3> QED
      BY <2>4, <3>2, AuditAssumption
  <2> QED
    BY <2>5, <2>6 DEF Recent, log
<1> QED
  BY Invariance, <1>1, PTL

=============================================================================
