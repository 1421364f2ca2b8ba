------------------------------ MODULE AuditLog ------------------------------
(* The encrypted operation log of a vault, and the commands that append to   *)
(* it.  append reads the whole log, caps it, and replaces the file; it holds *)
(* no lock.  rotate-key re-encrypts the log under the vault lock, which      *)
(* appenders do not take.  Every process uses the master key it resolved     *)
(* when it started; a log under any other key reads as empty.                *)
(*                                                                           *)
(* A record is the number of the append that wrote it: 1 is the first record *)
(* ever written to the log.                                                  *)
EXTENDS Integers, Sequences, FiniteSets

CONSTANTS Procs,       \* cavern processes
          MaxRecords,  \* max_records
          MaxCommands, \* bound: commands given in a behaviour
          MaxCrashes,  \* bound: processes killed in a behaviour
          None         \* no file, no process

ASSUME AuditAssumption ==
    /\ MaxRecords \in Nat \ {0}
    /\ MaxCommands \in Nat /\ MaxCrashes \in Nat
    /\ None \notin Procs /\ None \notin [key : Nat, lines : Seq(Nat)]

\* Master keys are numbered in the order rotations draw them.
Log == [key : Nat, lines : Seq(Nat)]

VARIABLES
    master,    \* the key master.json holds
    drawn,     \* keys drawn so far
    file,      \* the audit file, or None
    lock,      \* the rotation holding the vault lock, or None
    pc,        \* stage of each process
    key,       \* the master key it works with
    buffer,    \* the log it has in memory
    written,   \* records written so far, over all processes
    started,   \* commands given so far
    crashes,   \* processes killed so far
    disturbed  \* history: a log was replaced or put out of reach under a process

vars == <<master, drawn, file, lock, pc, key, buffer, written, started, crashes,
          disturbed>>

counters == <<started, crashes>>

-----------------------------------------------------------------------------
(* The file format *)

\* Python's s[-k:], which for k = 0 is all of s.
LastOf(s, k) == IF k = 0 THEN s ELSE SubSeq(s, Len(s) - k + 1, Len(s))

\* Mutant: the cap forgets the line about to be appended.
OverCapped(lines) ==
    IF Len(lines) < MaxRecords THEN lines ELSE LastOf(lines, MaxRecords)

\* Mutant: the cap makes room for two lines.
UnderCapped(lines) ==
    IF Len(lines) < MaxRecords - 1 THEN lines ELSE LastOf(lines, MaxRecords - 2)

\* _cap_records
Capped(lines) ==
    IF Len(lines) < MaxRecords THEN lines ELSE LastOf(lines, MaxRecords - 1)

\* Mutant: new records go in front.
Prepended(lines, record) == <<record>> \o lines

\* A new record goes at the end.
Appended(lines, record) == Append(lines, record)

\* recent: newest first, at most limit.
Recent(lines, limit) ==
    [i \in 1 .. (IF limit < Len(lines) THEN limit ELSE Len(lines)) |->
        lines[Len(lines) + 1 - i]]

\* _read_plaintext_if_any: absent and unreadable are both empty.
ReadLog(f, k) == IF f # None /\ f.key = k THEN f.lines ELSE <<>>

-----------------------------------------------------------------------------

\* Mutant: the new key is drawn again when it is used.
RedrawnKey == drawn + 1

\* The key of the rotation under way.
NewKey == drawn

Goto(p, stage) == pc' = [pc EXCEPT ![p] = stage]

End(p) ==
    /\ Goto(p, "idle")
    /\ key' = [key EXCEPT ![p] = 0]
    /\ buffer' = [buffer EXCEPT ![p] = <<>>]
    /\ lock' = IF lock = p THEN None ELSE lock

\* Processes that have read the log and not yet replaced it.
Holding == {p \in Procs : pc[p] \in {"write", "rewrite", "sideline"}}

\* Whether replacing the file makes some other process's copy of it stale.
Overtakes(p) == Holding \ {p} # {}

Init ==
    /\ master = 1 /\ drawn = 1
    /\ file = None
    /\ lock = None
    /\ pc = [p \in Procs |-> "idle"]
    /\ key = [p \in Procs |-> 0]
    /\ buffer = [p \in Procs |-> <<>>]
    /\ written = 0 /\ started = 0 /\ crashes = 0
    /\ disturbed = FALSE

\* A command resolves its keys; what it does before it logs is in Vault.tla.
Start(p) ==
    /\ pc[p] = "idle"
    /\ started < MaxCommands
    /\ started' = started + 1
    /\ key' = [key EXCEPT ![p] = master]
    /\ \E stage \in {"read", "lock"} : Goto(p, stage)
    /\ UNCHANGED <<master, drawn, file, lock, buffer, written, crashes, disturbed>>

\* append, first half: the log is read and capped.
AppendRead(p) ==
    /\ pc[p] = "read"
    /\ buffer' = [buffer EXCEPT ![p] = Capped(ReadLog(file, key[p]))]
    /\ Goto(p, "write")
    /\ UNCHANGED <<master, drawn, file, lock, key, written, counters, disturbed>>

\* append, second half: the log is replaced.  Under a key that is not the one
\* of master.json the log is out of everybody's reach.
AppendWrite(p) ==
    /\ pc[p] = "write"
    /\ written' = written + 1
    /\ file' = [key |-> key[p], lines |-> Appended(buffer[p], written + 1)]
    /\ disturbed' = (disturbed \/ Overtakes(p) \/ key[p] # master)
    /\ End(p)
    /\ UNCHANGED <<master, drawn, counters>>

\* rotate-key takes the vault lock and draws a key; its work on store/ and the
\* manifest is in Vault.tla.
BeginRotation(p) ==
    /\ pc[p] = "lock"
    /\ lock = None
    /\ lock' = p
    /\ drawn' = drawn + 1
    /\ Goto(p, "rotate")
    /\ UNCHANGED <<master, file, key, buffer, written, counters, disturbed>>

\* A rotation whose key is stale fails on the manifest before it gets here.
StaleRotationFails(p) ==
    /\ pc[p] = "rotate"
    /\ key[p] # master
    /\ End(p)
    /\ UNCHANGED <<master, drawn, file, written, counters, disturbed>>

\* rotate-key reads the log: absent, it is skipped; under another key, it will
\* be renamed to audit.corrupt-<time>; else it will be re-encrypted.
RotateRead(p) ==
    /\ pc[p] = "rotate"
    /\ key[p] = master
    /\ buffer' = [buffer EXCEPT ![p] = ReadLog(file, key[p])]
    /\ Goto(p, IF file = None THEN "commit"
               ELSE IF file.key = key[p] THEN "rewrite" ELSE "sideline")
    /\ UNCHANGED <<master, drawn, file, lock, key, written, counters, disturbed>>

\* The log is replaced under the new key, out of reach until the commit.
RotateWrite(p) ==
    /\ pc[p] = "rewrite"
    /\ file' = [key |-> NewKey, lines |-> buffer[p]]
    /\ disturbed' = (disturbed \/ Overtakes(p))
    /\ Goto(p, "commit")
    /\ UNCHANGED <<master, drawn, lock, key, buffer, written, counters>>

\* Whatever is there by now is renamed out of the way.
Sideline(p) ==
    /\ pc[p] = "sideline"
    /\ file' = None
    /\ disturbed' = TRUE
    /\ Goto(p, "commit")
    /\ UNCHANGED <<master, drawn, lock, key, buffer, written, counters>>

\* master.json is replaced and the lock released.  A log still under the old
\* key, and a copy of the log some process holds, are stale from now on.
CommitRotation(p) ==
    /\ pc[p] = "commit"
    /\ master' = NewKey
    /\ lock' = None
    /\ disturbed' = (disturbed \/ Overtakes(p) \/ (file # None /\ file.key # NewKey))
    /\ Goto(p, "rederive")
    /\ UNCHANGED <<drawn, file, key, buffer, written, counters>>

\* rotate-key reads master.json again and logs under the key it finds there.
Rederive(p) ==
    /\ pc[p] = "rederive"
    /\ key' = [key EXCEPT ![p] = master]
    /\ Goto(p, "read")
    /\ UNCHANGED <<master, drawn, file, lock, buffer, written, counters, disturbed>>

\* A rotation killed after it replaced the log leaves it out of reach.
Crash(p) ==
    /\ pc[p] # "idle"
    /\ crashes < MaxCrashes
    /\ crashes' = crashes + 1
    /\ disturbed' = (disturbed \/ pc[p] = "commit")
    /\ End(p)
    /\ UNCHANGED <<master, drawn, file, written, started>>

Step(p) ==
    \/ AppendRead(p) \/ AppendWrite(p)
    \/ BeginRotation(p) \/ StaleRotationFails(p)
    \/ RotateRead(p) \/ RotateWrite(p) \/ Sideline(p)
    \/ CommitRotation(p) \/ Rederive(p)

Next == \E p \in Procs : Start(p) \/ Step(p) \/ Crash(p)

Spec == Init /\ [][Next]_vars

-----------------------------------------------------------------------------
(* Properties *)

Increasing(s) == \A i, j \in 1 .. Len(s) : i < j => s[i] < s[j]

\* Every variable keeps its type, and no key is used before it is drawn.
TypeOK ==
    /\ master \in 1 .. drawn /\ drawn \in Nat
    /\ file \in Log \cup {None}
    /\ lock \in Procs \cup {None}
    /\ pc \in [Procs -> {"idle", "read", "write", "lock", "rotate", "rewrite",
                         "sideline", "commit", "rederive"}]
    /\ key \in [Procs -> 0 .. drawn]
    /\ buffer \in [Procs -> Seq(Nat)]
    /\ written \in Nat /\ started \in Nat /\ crashes \in Nat
    /\ disturbed \in BOOLEAN

\* However appends and rotations interleave, the log is in the order the records
\* were written, none appears twice and none is invented.
LogInOrder ==
    file # None => /\ Increasing(file.lines)
                   /\ \A i \in 1 .. Len(file.lines) : file.lines[i] \in 1 .. written

\* "the result + one new record stays under max_records" (audit.py:122-123): the
\* log and every copy about to be written back are within the cap.
LogWithinCap ==
    /\ file # None => Len(file.lines) <= MaxRecords
    /\ \A p \in Procs : Len(buffer[p]) <= MaxRecords - (IF pc[p] = "write" THEN 1 ELSE 0)

\* As long as no process replaces the log, or moves master.json, while another
\* is between reading and writing it, what cavern audit shows is every record
\* written, newest first, back to the cap.  Rotations lose none.
NothingIsForgotten ==
    ~disturbed /\ Holding = {} /\ lock = None =>
        Recent(ReadLog(file, master), MaxRecords)
            = [i \in 1 .. (IF written < MaxRecords THEN written ELSE MaxRecords)
                   |-> written + 1 - i]

=============================================================================
