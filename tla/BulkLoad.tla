------------------------------ MODULE BulkLoad ------------------------------
(* load and bulk-insert: one secret after the other into a vault that other  *)
(* processes edit meanwhile.  An insert is the file and then the manifest,   *)
(* under the vault lock; whether a name is there already is checked outside  *)
(* of it, by the file alone, and an entry's tags are a second operation.     *)
EXTENDS BulkEntries, Integers, Sequences, FiniteSetsExt

CONSTANTS Dumps,     \* decrypted dumps, or plaintext files: sequences of entries
          MaxEdits,  \* bound: edits by other processes
          MaxRuns    \* bound: times the user gives the command

ASSUME BulkAssumption ==
    /\ Dumps \subseteq Seq(Entry)
    /\ MaxEdits \in Nat /\ MaxRuns \in Nat

VARIABLES
    content,    \* the files: each name's value, or None
    index,      \* the manifest: each name's tags, or None
    dump,       \* the entries to load
    overwrite,  \* --overwrite
    before,     \* history: the vault as it was given
    stage,      \* how far the run has got
    at,         \* the entry it is at
    runs,       \* runs so far
    edits,      \* edits by others so far
    edited,     \* history: the names they were about
    cut         \* history: names a run died at, after their file was written

vars == <<content, index, dump, overwrite, before, stage, at, runs, edits, edited, cut>>
given == <<dump, overwrite, before>>
others == <<edits, edited>>

\* Any vault, with what killed commands have left: files that are not listed,
\* and names that are listed and have no file.
Init ==
    /\ content \in [Names -> Values \cup {None}]
    /\ index \in Listings
    /\ dump \in Dumps /\ overwrite \in BOOLEAN
    /\ before = [content |-> content, index |-> index]
    /\ stage = "idle" /\ at = 0
    /\ runs = 0 /\ edits = 0
    /\ edited = {} /\ cut = {}

\* The command is given, or given again after it failed.  The dump is read and
\* decrypted whole.
Run ==
    /\ stage \in {"idle", "failed"}
    /\ runs < MaxRuns
    /\ runs' = runs + 1
    /\ stage' = "check" /\ at' = 1
    /\ UNCHANGED <<content, index, given, others, cut>>

\* Mutant: a known name ends the run.
EndAtKnown(n) == IF content[n] # None /\ ~overwrite THEN "done" ELSE "insert"

\* Mutant: --overwrite is taken for granted.
OverwriteKnown(n) == "insert"

\* Without --overwrite a name that is there already is skipped.
AfterCheck(n) == IF content[n] # None /\ ~overwrite THEN "check" ELSE "insert"

Check ==
    /\ stage = "check"
    /\ IF at > Len(dump)
          THEN stage' = "done" /\ UNCHANGED at
          ELSE IF ~dump[at].valid
             THEN stage' = "failed" /\ UNCHANGED at
             ELSE /\ stage' = AfterCheck(dump[at].name)
                  /\ at' = IF stage' = "check" THEN at + 1 ELSE at
    /\ UNCHANGED <<content, index, runs, given, others, cut>>

\* vault.insert with force, which replaces whatever is there by now: the file.
InsertFile ==
    /\ stage = "insert"
    /\ content' = [content EXCEPT ![dump[at].name] = dump[at].val]
    /\ stage' = "list"
    /\ UNCHANGED <<index, given, at, runs, others, cut>>

\* vault.insert: the manifest, in which a name keeps the tags it is listed with.
InsertEntry ==
    /\ stage = "list"
    /\ index' = [index EXCEPT ![dump[at].name] = TagsIn(index, dump[at].name)]
    /\ IF dump[at].tags = {}
          THEN stage' = "check" /\ at' = at + 1
          ELSE stage' = "tag" /\ UNCHANGED at
    /\ UNCHANGED <<content, given, runs, others, cut>>

\* vault.set_tags, or its SecretNotFoundError.
SetTags ==
    /\ stage = "tag"
    /\ IF content[dump[at].name] = None
          THEN stage' = "failed" /\ UNCHANGED <<index, at>>
          ELSE /\ index' = [index EXCEPT ![dump[at].name] = dump[at].tags]
               /\ stage' = "check" /\ at' = at + 1
    /\ UNCHANGED <<content, given, runs, others, cut>>

\* The run is killed, or an operation of the vault fails, also between the two
\* halves of an insert, where a manifest under another key is a CryptoError.
Fail ==
    /\ stage \in {"check", "insert", "list", "tag"}
    /\ stage' = "failed"
    /\ cut' = IF stage \in {"list", "tag"} THEN cut \cup {dump[at].name} ELSE cut
    /\ UNCHANGED <<content, index, given, at, runs, others>>

\* What other processes do to a secret, or leave of it when they are killed;
\* they wait for an insert to release the lock.
Edit ==
    /\ stage # "list"
    /\ edits < MaxEdits
    /\ edits' = edits + 1
    /\ \E n \in Names, v \in Values \cup {None}, e \in (SUBSET Tags) \cup {None} :
          /\ content' = [content EXCEPT ![n] = v]
          /\ index' = [index EXCEPT ![n] = e]
          /\ edited' = edited \cup {n}
    /\ UNCHANGED <<given, stage, at, runs, cut>>

Next == Run \/ Check \/ InsertFile \/ InsertEntry \/ SetTags \/ Fail \/ Edit

Spec == Init /\ [][Next]_vars

-----------------------------------------------------------------------------
(* Properties *)

EntriesOf(n) == {i \in 1 .. Len(dump) : dump[i].name = n}
TaggingsOf(n) == {i \in EntriesOf(n) : dump[i].tags # {}}

Loads(n) == EntriesOf(n) # {} /\ (overwrite \/ before.content[n] = None)

\* What a load is for: with --overwrite the last entry of a name counts, without
\* it the first one, and only if the name was not there.
Expected(n) ==
    IF ~Loads(n) THEN before.content[n]
    ELSE dump[IF overwrite THEN Max(EntriesOf(n)) ELSE Min(EntriesOf(n))].val

\* A loaded name is listed, with its tags of before unless an entry that counts
\* brings others.
ExpectedEntry(n) ==
    LET brings == IF overwrite THEN TaggingsOf(n)
                               ELSE TaggingsOf(n) \cap {Min(EntriesOf(n))} IN
    IF ~Loads(n) THEN before.index[n]
    ELSE IF brings = {} THEN TagsIn(before.index, n) ELSE dump[Max(brings)].tags

\* A load that finishes, at the first run or after any number of failed ones,
\* has had its effect on every name that nobody else edited meanwhile.  Only the
\* listing and the tags of a name may be missing, of one whose run died after it
\* had written the file: without --overwrite a load that is given again skips
\* that name.
FinishedLoadTookEffect ==
    stage = "done" =>
        \A n \in Names \ edited :
            /\ content[n] = Expected(n)
            /\ n \notin cut \/ overwrite => index[n] = ExpectedEntry(n)

\* "If False (the default), existing secrets are skipped" (bulk.py:358-359): a
\* load without --overwrite, given again or not, replaces no file that was not
\* put there by another process.
ExistingAreSkipped ==
    [][InsertFile /\ ~overwrite =>
          content[dump[at].name] = None \/ dump[at].name \in edited]_vars

=============================================================================
