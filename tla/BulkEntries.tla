---------------------------- MODULE BulkEntries ----------------------------
(* What a dump or a plaintext file is made of. *)

CONSTANTS Names, Values, Tags,
          None  \* no secret

\* A malformed entry makes load raise CavernError; dump writes none.
Entry == [name : Names, val : Values, tags : SUBSET Tags, valid : BOOLEAN]

\* What a manifest lists, and the tags it has of a name: none of one that is not
\* listed.
Listings == [Names -> (SUBSET Tags) \cup {None}]
TagsIn(list, n) == IF list[n] = None THEN {} ELSE list[n]

ASSUME EntryAssumption == None \notin Values /\ \A ts \in SUBSET Tags : ts # None

=============================================================================
