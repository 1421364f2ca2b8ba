------------------------------ MODULE BulkDump ------------------------------
(* dump: the selected secrets of a vault into one encrypted file, while      *)
(* other processes edit the vault.  The dump holds no lock: it reads the     *)
(* manifest two or three times and each secret by itself, and an edit        *)
(* changes the file first and the manifest after it (Vault.tla).  The file   *)
(* is emptied before any of that; encoding, scrypt and AES-GCM are           *)
(* transparent: what is whole decrypts, and nothing else does.               *)
EXTENDS BulkEntries, Naturals

CONSTANT MaxSourceEdits  \* bound: edits of the source by other processes

ASSUME DumpAssumption == MaxSourceEdits \in Nat

VARIABLES
    store,    \* the source: each name's value, or None
    listing,  \* its manifest: each name's tags, or None
    pending,  \* the manifest an edit is about to save, or None
    prefix,   \* the names --prefix lets through
    wanted,   \* --tag
    dumping,  \* how far the dump has got
    left,     \* the selected names still to read
    tagsRead, \* the manifest as read for the tags
    got,      \* the entries read so far
    output,   \* what is under the output name
    srcEdits, \* edits so far
    touched,  \* history: the names they were about
    ever      \* history: for each name, every value stored and tags listed

sourceVars == <<store, listing, pending, srcEdits, touched, ever>>
dumpLocal  == <<dumping, left, tagsRead, got, output>>
dumpVars   == <<sourceVars, prefix, wanted, dumpLocal>>

Outputs == {"none", "empty", "whole"}

Ever(files, list) == [n \in Names |->
    [vals |-> {files[n]} \ {None}, tags |-> {TagsIn(list, n)}]]

DumpInit ==
    /\ store \in [Names -> Values \cup {None}]
    /\ listing \in Listings
    /\ pending = None
    /\ prefix \in SUBSET Names /\ wanted \in SUBSET Tags
    /\ dumping = "idle" /\ left = {} /\ got = {}
    /\ tagsRead = [n \in Names |-> {}]
    /\ output = "none"
    /\ srcEdits = 0 /\ touched = {} /\ ever = Ever(store, listing)

\* The passphrase is in, the keys are resolved, the output is opened "wb".
OpenOutput ==
    /\ dumping = "idle"
    /\ dumping' = "list"
    /\ output' = "empty"
    /\ UNCHANGED <<sourceVars, prefix, wanted, left, tagsRead, got>>

\* "No secrets matched the given filters."
SelectedOrFail(names, stage) ==
    /\ left' = names
    /\ dumping' = IF names = {} THEN "failed" ELSE stage

\* list_names, and --prefix.
ListNames ==
    LET names == {n \in prefix : listing[n] # None} IN
    /\ dumping = "list"
    /\ IF wanted = {} THEN SelectedOrFail(names, "tags")
                      ELSE left' = names /\ dumping' = "filter"
    /\ UNCHANGED <<sourceVars, prefix, wanted, tagsRead, got, output>>

\* --tag, from a second reading of the manifest.
FilterByTag ==
    /\ dumping = "filter"
    /\ SelectedOrFail({n \in left : TagsIn(listing, n) \cap wanted # {}}, "tags")
    /\ UNCHANGED <<sourceVars, prefix, wanted, tagsRead, got, output>>

\* Mutant: the tags stay behind.
NoTags == [n \in Names |-> {}]

\* name_to_tags
ListedTags == [n \in Names |-> TagsIn(listing, n)]

\* The tags that go into the dump, from another reading.
ReadTags ==
    /\ dumping = "tags"
    /\ tagsRead' = ListedTags
    /\ dumping' = "secrets"
    /\ UNCHANGED <<sourceVars, prefix, wanted, left, got, output>>

\* Mutant: a secret that is gone is dumped without a value.
ReadableAnyway(n) == TRUE

\* show of a secret that is gone raises SecretNotFoundError.
Readable(n) == store[n] # None

\* vault.show of the next name in order.
ReadSecret ==
    LET n == CHOOSE n \in left : TRUE IN
    /\ dumping = "secrets" /\ left # {}
    /\ left' = left \ {n}
    /\ IF Readable(n)
          THEN /\ got' = got \cup {[name |-> n, val |-> store[n],
                                    tags |-> tagsRead[n], valid |-> TRUE]}
               /\ UNCHANGED dumping
          ELSE dumping' = "failed" /\ UNCHANGED got
    /\ UNCHANGED <<sourceVars, prefix, wanted, tagsRead, output>>

WriteDump ==
    /\ dumping = "secrets" /\ left = {}
    /\ dumping' = "written" /\ output' = "whole"
    /\ UNCHANGED <<sourceVars, prefix, wanted, left, tagsRead, got>>

\* The dump is killed, in its write too, or meets a key that was rotated.
DumpDies ==
    /\ dumping \in {"list", "filter", "tags", "secrets"}
    /\ dumping' = "failed"
    /\ UNCHANGED <<sourceVars, prefix, wanted, left, tagsRead, got, output>>

-----------------------------------------------------------------------------
(* Other processes, one at a time under the vault lock *)

\* insert --force, rm and mv change the file; tag changes nothing yet.
EditFile ==
    /\ dumping \notin {"none", "written", "failed"}
    /\ pending = None /\ srcEdits < MaxSourceEdits
    /\ srcEdits' = srcEdits + 1
    /\ \/ \E n \in Names, v \in Values :
             /\ store' = [store EXCEPT ![n] = v]
             /\ pending' = [listing EXCEPT ![n] = TagsIn(listing, n)]
             /\ touched' = touched \cup {n}
       \/ \E n \in Names :
             /\ store[n] # None
             /\ store' = [store EXCEPT ![n] = None]
             /\ pending' = [listing EXCEPT ![n] = None]
             /\ touched' = touched \cup {n}
       \/ \E n, m \in Names :
             /\ store[n] # None
             /\ store' = [store EXCEPT ![n] = None, ![m] = store[n]]
             /\ pending' = [listing EXCEPT ![n] = None, ![m] = TagsIn(listing, n)]
             /\ touched' = touched \cup {n, m}
       \/ \E n \in Names, ts \in SUBSET Tags :
             /\ store[n] # None
             /\ pending' = [listing EXCEPT ![n] = ts]
             /\ touched' = touched \cup {n}
             /\ UNCHANGED store
    /\ ever' = [n \in Names |-> [ever[n] EXCEPT !.vals = @ \cup ({store'[n]} \ {None})]]
    /\ UNCHANGED <<listing, prefix, wanted, dumpLocal>>

EditManifest ==
    /\ pending # None
    /\ listing' = pending
    /\ pending' = None
    /\ ever' = [n \in Names |-> [ever[n] EXCEPT !.tags = @ \cup {TagsIn(pending, n)}]]
    /\ UNCHANGED <<store, srcEdits, touched, prefix, wanted, dumpLocal>>

DumpNext == \/ OpenOutput \/ ListNames \/ FilterByTag \/ ReadTags \/ ReadSecret
            \/ WriteDump \/ DumpDies \/ EditFile \/ EditManifest

=============================================================================
