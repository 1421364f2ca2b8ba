---------------------------- MODULE BulkTransfer ----------------------------
(* A dump of one vault loaded into another, or a file loaded that was made   *)
(* elsewhere: BulkDump and BulkLoad one after the other.                     *)
EXTENDS BulkDump, BulkLoad, SequencesExt

CONSTANT MaxBothEdits  \* bound: edits of the source and of the target together

transferVars == <<dumpVars, vars>>

\* A user has a file of entries, and any vault to load it into.
FileGiven ==
    /\ Init
    /\ store = [n \in Names |-> None] /\ listing = store
    /\ pending = None /\ prefix = {} /\ wanted = {}
    /\ dumping = "none" /\ left = {} /\ got = {}
    /\ tagsRead = [n \in Names |-> {}]
    /\ output = "none"
    /\ srcEdits = 0 /\ touched = {} /\ ever = Ever(store, listing)

\* A user has a vault to dump, and an empty one to load the dump into.
VaultGiven ==
    /\ DumpInit
    /\ content = [n \in Names |-> None] /\ index = content
    /\ dump = <<>> /\ overwrite = FALSE
    /\ before = [content |-> content, index |-> index]
    /\ stage = "waiting" /\ at = 0
    /\ runs = 0 /\ edits = 0
    /\ edited = {} /\ cut = {}

TransferInit == FileGiven \/ VaultGiven

\* load decrypts the dump whole; one that is not whole fails its tag.
HandOver ==
    /\ stage = "waiting" /\ output = "whole"
    /\ stage' = "idle"
    /\ dump' = SetToSeq(got)
    /\ UNCHANGED <<dumpVars, content, index, overwrite, before, at, runs, others, cut>>

TransferNext == \/ DumpNext /\ UNCHANGED vars
                \/ HandOver
                \/ /\ stage # "waiting" /\ Next /\ UNCHANGED dumpVars
                   /\ edits' + srcEdits <= MaxBothEdits

TransferSpec == TransferInit /\ [][TransferNext]_transferVars

-----------------------------------------------------------------------------
(* Properties *)

\* Whatever is edited while a dump reads, each of its entries has a value that
\* was stored under that name and tags that were listed for it, if not together,
\* at some time since the dump was asked for.
DumpHoldsWhatWas ==
    \A e \in got : e.val \in ever[e.name].vals /\ e.tags \in ever[e.name].tags

\* What --prefix and --tag select of a vault nobody edits.
Selected(n) ==
    /\ n \in prefix /\ listing[n] # None
    /\ wanted = {} \/ listing[n] \cap wanted # {}

\* A dump that was written and loaded into an empty vault restores every
\* selected secret that nobody touched meanwhile in either vault, with its tags,
\* and nothing that was not selected (bulk.py:1-10).  A name whose load died
\* after it had written the file, and was given again, may lack its listing.
TransferRestores ==
    output = "whole" /\ stage = "done" =>
        \A n \in Names \ (touched \cup edited) :
            /\ content[n] = IF Selected(n) THEN store[n] ELSE None
            /\ n \notin cut => index[n] = IF Selected(n) THEN listing[n] ELSE None

=============================================================================
