------------------------- MODULE BulkTransferProofs -------------------------
(* What holds of BulkTransfer.tla for any number of names, values, tags,    *)
(* dumps, edits and runs.                                                   *)
EXTENDS BulkTransfer, FiniteSetTheorems, WellFoundedInduction, TLAPS

-----------------------------------------------------------------------------
(* The invariant of a dump *)

\* What the files of a vault may hold.
Contents == [Names -> Values \cup {None}]

\* The source and what the dump has in hand keep their types.
DumpType ==
    /\ store \in Contents /\ listing \in Listings /\ pending \in Listings \cup {None}
    /\ prefix \in SUBSET Names /\ wanted \in SUBSET Tags
    /\ left \in SUBSET Names
    /\ tagsRead \in [Names -> SUBSET Tags]
    /\ got \in SUBSET Entry /\ IsFiniteSet(got)
    /\ touched \in SUBSET Names
    /\ ever \in [Names -> [vals : SUBSET Values, tags : SUBSET SUBSET Tags]]

\* What is there now is part of what was ever there, and so is all the dump
\* has read.
EverInv ==
    /\ \A n \in Names : /\ store[n] # None => store[n] \in ever[n].vals
                        /\ TagsIn(listing, n) \in ever[n].tags
                        /\ dumping = "secrets" => tagsRead[n] \in ever[n].tags
    /\ DumpHoldsWhatWas

\* Of the names nobody has touched the dump has selected those it should, and
\* read what is still there.
SelectInv ==
    /\ dumping \in {"none", "idle", "list", "filter", "tags"} => got = {}
    /\ dumping = "filter" => wanted # {}
    /\ \A n \in Names \ touched :
        /\ pending # None => pending[n] = listing[n]
        /\ dumping = "filter" => (n \in left <=> (n \in prefix /\ listing[n] # None))
        /\ dumping = "tags" => (n \in left <=> Selected(n))
        /\ dumping \in {"secrets", "written"} =>
              ((n \in left \/ \E e \in got : e.name = n) <=> Selected(n))
        /\ dumping = "secrets" => tagsRead[n] = TagsIn(listing, n)
    /\ \A e \in got : e.name \notin touched =>
          e.val = store[e.name] /\ e.tags = TagsIn(listing, e.name)
    /\ output = "whole" => dumping = "written" /\ left = {}

-----------------------------------------------------------------------------
(* The invariant of a load *)

\* The stages of a run that has not failed.
Running == {"check", "insert", "list", "tag", "done"}

\* The vault and what the run has in hand keep their types; the run is at an
\* entry of the dump when it works on one.
LoadType ==
    /\ content \in Contents /\ index \in Listings
    /\ before \in [content : Contents, index : Listings]
    /\ dump \in Seq(Entry) /\ overwrite \in BOOLEAN
    /\ stage \in Running \cup {"waiting", "idle", "failed"}
    /\ at \in Nat
    /\ stage \in Running => at >= 1
    /\ stage \in {"insert", "list", "tag"} => at <= Len(dump)
    /\ stage = "tag" => dump[at].tags # {}
    /\ stage = "done" => at > Len(dump)

\* Entry i is the first of its name.
First(i) == \A j \in 1 .. Len(dump) : j < i => dump[j].name # dump[i].name

\* n is as the first run found it.
AsBefore(n) == content[n] = before.content[n] /\ index[n] = before.index[n]

\* The run has written the file of entry i and not yet done all to its listing.
InHand(i) == stage \in {"list", "tag"} /\ at = i

\* n had no file and has been loaded from entry i, listing and tags included
\* unless the run is about to set them or died before it did.
LoadedFrom(n, i) ==
    /\ First(i) /\ dump[i].name = n
    /\ before.content[n] = None /\ content[n] = dump[i].val
    /\ \/ n \in cut \/ InHand(i)
       \/ index[n] = IF dump[i].tags = {} THEN TagsIn(before.index, n) ELSE dump[i].tags

\* Without --overwrite n is as it was or as its first entry has it, however many
\* runs there were, and a run does not leave it out.
SkipFor(n) ==
    /\ AsBefore(n) \/ \E i \in 1 .. Len(dump) : LoadedFrom(n, i)
    /\ stage \in Running => \A i \in EntriesOf(n) : i < at => content[n] # None
    /\ stage = "insert" /\ dump[at].name = n => content[n] = None
    /\ stage \in {"list", "tag"} /\ dump[at].name = n => LoadedFrom(n, at)
    /\ stage = "list" /\ dump[at].name = n => index[n] = before.index[n]

\* The names that nobody else edited, without --overwrite.
SkipInv == ~overwrite => \A n \in Names \ edited : SkipFor(n)

\* The entries whose file the run has written.
Written(i) == i < at \/ InHand(i)

\* With --overwrite the last entry behind the run counts, for the value and,
\* among those that bring tags, for the tags.
OverwriteFor(n) ==
    /\ EntriesOf(n) = {} => AsBefore(n)
    /\ TaggingsOf(n) = {} => TagsIn(index, n) = TagsIn(before.index, n)
    /\ stage \in Running => \A i \in EntriesOf(n) :
          /\ Written(i) => \/ content[n] = dump[i].val
                           \/ \E j \in EntriesOf(n) : i < j /\ Written(j)
          /\ i < at => index[n] # None
          /\ i < at /\ dump[i].tags # {} =>
                \/ index[n] = dump[i].tags
                \/ \E j \in TaggingsOf(n) : i < j /\ j < at

\* The names that nobody else edited, with --overwrite.
OverwriteInv == overwrite => \A n \in Names \ edited : OverwriteFor(n)

-----------------------------------------------------------------------------
(* The invariant of the two together *)

\* A load waits for a dump that is being made, with an empty vault; one that has
\* been handed over is the entries of the dump.
HandInv ==
    /\ stage = "waiting" => content = before.content /\ index = before.index
    /\ stage # "waiting" => dumping \in {"none", "written"}
    /\ dumping = "none" => output = "none"
    /\ dumping # "none" =>
          /\ ~overwrite
          /\ \A n \in Names : before.content[n] = None /\ before.index[n] = None
    /\ stage # "waiting" /\ dumping # "none" => got = {dump[i] : i \in 1 .. Len(dump)}

\* The inductive invariant.
TransferInv ==
    /\ DumpType /\ EverInv /\ SelectInv
    /\ LoadType /\ SkipInv /\ OverwriteInv /\ HandInv

-----------------------------------------------------------------------------
(* The steps of a dump *)

\* A set of tags is not a missing listing, nor a value a missing secret.
LEMMA Listed ==
    ASSUME NEW list \in Listings, NEW n \in Names
    PROVE  TagsIn(list, n) \in SUBSET Tags
BY DEF Listings, TagsIn

\* What an edit does to store/ and to the manifest it will save: only the names
\* it is about.
LEMMA EditFileType ==
    ASSUME DumpType, EditFile
    PROVE  /\ store' \in Contents /\ pending' \in Listings
           /\ touched' \in SUBSET Names /\ touched \subseteq touched'
           /\ \A n \in Names \ touched' : store'[n] = store[n] /\ pending'[n] = listing[n]
<1> USE DEF DumpType, Contents, Listings
<1>1. CASE \E n \in Names, v \in Values :
              /\ store' = [store EXCEPT ![n] = v]
              /\ pending' = [listing EXCEPT ![n] = TagsIn(listing, n)]
              /\ touched' = touched \cup {n}
  BY <1>1, Listed
<1>2. CASE \E n \in Names :
              /\ store[n] # None
              /\ store' = [store EXCEPT ![n] = None]
              /\ pending' = [listing EXCEPT ![n] = None]
              /\ touched' = touched \cup {n}
  BY <1>2
<1>3. CASE \E n, m \in Names :
              /\ store[n] # None
              /\ store' = [store EXCEPT ![n] = None, ![m] = store[n]]
              /\ pending' = [listing EXCEPT ![n] = None, ![m] = TagsIn(listing, n)]
              /\ touched' = touched \cup {n, m}
  <2> PICK n \in Names, m \in Names :
              /\ store' = [store EXCEPT ![n] = None, ![m] = store[n]]
              /\ pending' = [listing EXCEPT ![n] = None, ![m] = TagsIn(listing, n)]
              /\ touched' = touched \cup {n, m}
    BY <1>3
  <2>1. TagsIn(listing, n) \in SUBSET Tags
    BY Listed
  <2> QED
    BY <2>1
<1>4. CASE \E n \in Names, ts \in SUBSET Tags :
              /\ store[n] # None
              /\ pending' = [listing EXCEPT ![n] = ts]
              /\ touched' = touched \cup {n}
              /\ UNCHANGED store
  BY <1>4
<1> QED
  BY <1>1, <1>2, <1>3, <1>4 DEF EditFile

\* Every step of a dump, and every edit of its source, keeps the types.
LEMMA NextDumpType == DumpType /\ DumpNext => DumpType'
<1> SUFFICES ASSUME DumpType, DumpNext PROVE DumpType'
  OBVIOUS
<1>1. CASE OpenOutput \/ ListNames \/ FilterByTag \/ WriteDump \/ DumpDies
  BY <1>1 DEF OpenOutput, ListNames, FilterByTag, WriteDump, DumpDies, SelectedOrFail,
              DumpType, sourceVars
<1>2. CASE ReadTags
  <2>1. tagsRead' \in [Names -> SUBSET Tags]
    BY <1>2, Listed DEF ReadTags, ListedTags, DumpType
  <2> QED
    BY <1>2, <2>1 DEF ReadTags, DumpType, sourceVars
<1>3. CASE ReadSecret
  <2> DEFINE n == CHOOSE n \in left : TRUE
             e == [name |-> n, val |-> store[n], tags |-> tagsRead[n], valid |-> TRUE]
  <2>1. n \in Names
    BY <1>3 DEF ReadSecret, DumpType
  <2>2. got' = got \/ (Readable(n) /\ got' = got \cup {e})
    BY <1>3 DEF ReadSecret
  <2>3. Readable(n) => e \in Entry
    BY <2>1 DEF DumpType, Contents, Readable, Entry
  <2> HIDE DEF e
  <2>4. got' \in SUBSET Entry /\ IsFiniteSet(got')
    BY <2>2, <2>3, FS_AddElement DEF DumpType
  <2> QED
    BY <1>3, <2>4 DEF ReadSecret, DumpType, sourceVars
<1>4. CASE EditFile
  <2>1. ever' \in [Names -> [vals : SUBSET Values, tags : SUBSET SUBSET Tags]]
    <3>1. ASSUME NEW n \in Names
          PROVE  [ever[n] EXCEPT !.vals = @ \cup ({store'[n]} \ {None})]
                    \in [vals : SUBSET Values, tags : SUBSET SUBSET Tags]
      BY <1>4, EditFileType DEF DumpType, Contents
    <3> QED
      BY <1>4, <3>1 DEF EditFile
  <2> QED
    BY <1>4, <2>1, EditFileType DEF EditFile, DumpType, dumpLocal
<1>5. CASE EditManifest
  <2>1. pending \in Listings
    BY <1>5 DEF EditManifest, DumpType
  <2>2. ever' \in [Names -> [vals : SUBSET Values, tags : SUBSET SUBSET Tags]]
    <3>1. ASSUME NEW n \in Names
          PROVE  [ever[n] EXCEPT !.tags = @ \cup {TagsIn(pending, n)}]
                    \in [vals : SUBSET Values, tags : SUBSET SUBSET Tags]
      BY <2>1, Listed DEF DumpType
    <3> QED
      BY <1>5, <3>1 DEF EditManifest
  <2> QED
    BY <1>5, <2>1, <2>2 DEF EditManifest, DumpType, dumpLocal
<1> QED
  BY <1>1, <1>2, <1>3, <1>4, <1>5 DEF DumpNext

\* What was ever there only grows.
LEMMA EverGrows ==
    ASSUME DumpType, DumpNext, NEW n \in Names
    PROVE  ever[n].vals \subseteq ever'[n].vals /\ ever[n].tags \subseteq ever'[n].tags
<1>1. CASE EditFile
  BY <1>1 DEF EditFile, DumpType
<1>2. CASE EditManifest
  BY <1>2 DEF EditManifest, DumpType
<1>3. CASE ~EditFile /\ ~EditManifest
  BY <1>3 DEF DumpNext, OpenOutput, ListNames, FilterByTag, ReadTags, ReadSecret, WriteDump,
              DumpDies, sourceVars
<1> QED
  BY <1>1, <1>2, <1>3

\* Whatever a dump reads and an edit writes was there.
LEMMA NextEverInv == DumpType /\ EverInv /\ DumpNext => EverInv'
<1> SUFFICES ASSUME DumpType, EverInv, DumpNext PROVE EverInv'
  OBVIOUS
<1> DEFINE Now(n) == /\ store[n] # None => store[n] \in ever[n].vals
                     /\ TagsIn(listing, n) \in ever[n].tags
                     /\ dumping = "secrets" => tagsRead[n] \in ever[n].tags
<1>0. \A e \in got : e.name \in Names
  BY DEF DumpType, Entry
<1>1. ASSUME got' = got PROVE DumpHoldsWhatWas'
  BY <1>0, <1>1, EverGrows DEF EverInv, DumpHoldsWhatWas
<1>2. CASE OpenOutput \/ ListNames \/ FilterByTag \/ WriteDump \/ DumpDies
  BY <1>1, <1>2 DEF OpenOutput, ListNames, FilterByTag, WriteDump, DumpDies,
                    SelectedOrFail, EverInv, sourceVars, TagsIn
<1>3. CASE ReadTags
  BY <1>1, <1>3 DEF ReadTags, ListedTags, EverInv, sourceVars, TagsIn
<1>4. CASE ReadSecret
  <2> DEFINE n == CHOOSE n \in left : TRUE
             e == [name |-> n, val |-> store[n], tags |-> tagsRead[n], valid |-> TRUE]
  <2>1. n \in Names
    BY <1>4 DEF ReadSecret, DumpType
  <2>2. got' = got \/ (Readable(n) /\ got' = got \cup {e})
    BY <1>4 DEF ReadSecret
  <2>3. Readable(n) => e.val \in ever[e.name].vals /\ e.tags \in ever[e.name].tags
    BY <1>4, <2>1 DEF ReadSecret, Readable, EverInv
  <2>4. ever' = ever
    BY <1>4 DEF ReadSecret, sourceVars
  <2> HIDE DEF e
  <2>5. DumpHoldsWhatWas'
    BY <2>2, <2>3, <2>4 DEF EverInv, DumpHoldsWhatWas
  <2> QED
    BY <1>4, <2>5 DEF ReadSecret, EverInv, sourceVars, TagsIn
<1>5. CASE EditFile
  <2>1. ASSUME NEW n \in Names PROVE Now(n)'
    <3>1. store'[n] # None => store'[n] \in ever'[n].vals
      BY <1>5, EditFileType DEF EditFile, DumpType
    <3>2. UNCHANGED <<listing, dumping, tagsRead>>
      BY <1>5 DEF EditFile, dumpLocal
    <3> QED
      BY <3>1, <3>2, EverGrows DEF EverInv, TagsIn
  <2> QED
    BY <1>1, <1>5, <2>1 DEF EditFile, EverInv, dumpLocal
<1>6. CASE EditManifest
  <2>1. ASSUME NEW n \in Names PROVE Now(n)'
    <3>1. TagsIn(listing, n)' \in ever'[n].tags
      BY <1>6 DEF EditManifest, DumpType, TagsIn
    <3>2. UNCHANGED <<store, dumping, tagsRead>>
      BY <1>6 DEF EditManifest, dumpLocal
    <3> QED
      BY <3>1, <3>2, EverGrows DEF EverInv
  <2> QED
    BY <1>1, <1>6, <2>1 DEF EditManifest, EverInv, dumpLocal
<1> QED
  BY <1>2, <1>3, <1>4, <1>5, <1>6 DEF DumpNext

\* The dump selects, and reads, what it should of the names nobody touches.
LEMMA NextSelectInv == DumpType /\ SelectInv /\ DumpNext => SelectInv'
<1> SUFFICES ASSUME DumpType, SelectInv, DumpNext PROVE SelectInv'
  OBVIOUS
<1> DEFINE ForName(n) ==
              /\ pending # None => pending[n] = listing[n]
              /\ dumping = "filter" => (n \in left <=> (n \in prefix /\ listing[n] # None))
              /\ dumping = "tags" => (n \in left <=> Selected(n))
              /\ dumping \in {"secrets", "written"} =>
                    ((n \in left \/ \E e \in got : e.name = n) <=> Selected(n))
              /\ dumping = "secrets" => tagsRead[n] = TagsIn(listing, n)
           ForEntry(e) == e.name \notin touched =>
                             e.val = store[e.name] /\ e.tags = TagsIn(listing, e.name)
<1>0. \A e \in got : e.name \in Names
  BY DEF DumpType, Entry
<1>1. CASE OpenOutput
  BY <1>1 DEF OpenOutput, SelectInv, sourceVars, Selected, TagsIn
<1>2. CASE ListNames
  <2>1. ASSUME NEW n \in Names \ touched PROVE ForName(n)'
    BY <1>2, <2>1 DEF ListNames, SelectedOrFail, SelectInv, sourceVars, Selected, TagsIn
  <2> QED
    BY <1>2, <2>1 DEF ListNames, SelectedOrFail, SelectInv, sourceVars, TagsIn
<1>3. CASE FilterByTag
  <2>1. ASSUME NEW n \in Names \ touched PROVE ForName(n)'
    BY <1>3, <2>1 DEF FilterByTag, SelectedOrFail, SelectInv, sourceVars, Selected, TagsIn
  <2> QED
    BY <1>3, <2>1 DEF FilterByTag, SelectedOrFail, SelectInv, sourceVars, TagsIn
<1>4. CASE ReadTags
  <2>1. ASSUME NEW n \in Names \ touched PROVE ForName(n)'
    BY <1>4, <2>1 DEF ReadTags, ListedTags, SelectInv, sourceVars, Selected, TagsIn
  <2> QED
    BY <1>4, <2>1 DEF ReadTags, SelectInv, sourceVars, TagsIn
<1>5. CASE ReadSecret
  <2> DEFINE m == CHOOSE n \in left : TRUE
             new == [name |-> m, val |-> store[m], tags |-> tagsRead[m], valid |-> TRUE]
  <2>1. /\ m \in left /\ m \in Names /\ left' = left \ {m}
        /\ dumping = "secrets" /\ UNCHANGED <<sourceVars, prefix, wanted, tagsRead, output>>
    BY <1>5 DEF ReadSecret, DumpType
  <2>2. \/ (Readable(m) /\ got' = got \cup {new} /\ dumping' = "secrets")
        \/ (got' = got /\ dumping' = "failed")
    BY <1>5 DEF ReadSecret
  <2>3. new.name = m /\ new.val = store[m] /\ new.tags = tagsRead[m]
    OBVIOUS
  <2> HIDE DEF new, m
  <2>4. output # "whole"
    BY <2>1 DEF SelectInv
  <2>5. ASSUME NEW n \in Names \ touched PROVE ForName(n)'
    BY <2>1, <2>2, <2>3, <2>5 DEF SelectInv, sourceVars, Selected, TagsIn
  <2>6. ASSUME NEW e \in got' PROVE ForEntry(e)'
    BY <2>1, <2>2, <2>3, <2>6 DEF SelectInv, sourceVars, TagsIn
  <2> QED
    BY <2>1, <2>2, <2>4, <2>5, <2>6 DEF SelectInv, sourceVars
<1>6. CASE WriteDump \/ DumpDies
  <2>1. ASSUME NEW n \in Names \ touched PROVE ForName(n)'
    BY <1>6, <2>1 DEF WriteDump, DumpDies, SelectInv, sourceVars, Selected, TagsIn
  <2> QED
    BY <1>6, <2>1 DEF WriteDump, DumpDies, SelectInv, sourceVars, TagsIn
<1>7. CASE EditFile
  <2>1. UNCHANGED <<listing, prefix, wanted, dumpLocal>>
    BY <1>7 DEF EditFile
  <2>2. ASSUME NEW n \in Names \ touched' PROVE ForName(n)'
    BY <1>7, <2>1, <2>2, EditFileType DEF SelectInv, dumpLocal, Selected, TagsIn
  <2>3. ASSUME NEW e \in got' PROVE ForEntry(e)'
    BY <1>0, <1>7, <2>1, <2>3, EditFileType DEF SelectInv, dumpLocal, TagsIn
  <2> QED
    BY <2>1, <2>2, <2>3 DEF SelectInv, dumpLocal
<1>8. CASE EditManifest
  <2>1. /\ UNCHANGED <<store, touched, prefix, wanted, dumpLocal>>
        /\ \A n \in Names \ touched : listing'[n] = listing[n]
        /\ pending' = None
    BY <1>8 DEF EditManifest, SelectInv
  <2>2. ASSUME NEW n \in Names \ touched' PROVE ForName(n)'
    BY <2>1, <2>2 DEF SelectInv, dumpLocal, Selected, TagsIn
  <2>3. ASSUME NEW e \in got' PROVE ForEntry(e)'
    BY <1>0, <2>1, <2>3 DEF SelectInv, dumpLocal, TagsIn
  <2> QED
    BY <2>1, <2>2, <2>3 DEF SelectInv, dumpLocal
<1> QED
  BY <1>1, <1>2, <1>3, <1>4, <1>5, <1>6, <1>7, <1>8 DEF DumpNext

-----------------------------------------------------------------------------
(* The steps of a load *)

\* Every step of a load, and every edit of its vault, keeps the types.
LEMMA NextLoadType == LoadType /\ Next => LoadType'
<1> SUFFICES ASSUME LoadType, Next PROVE LoadType'
  OBVIOUS
<1>0. \A i \in 1 .. Len(dump) : dump[i] \in Entry
  BY DEF LoadType
<1>1. CASE Run
  BY <1>1 DEF Run, LoadType, given, Running
<1>2. CASE Check
  <2>1. stage' \in {"check", "insert", "done", "failed"} /\ at' \in Nat /\ at' >= 1
    BY <1>2 DEF Check, AfterCheck, LoadType, Running
  <2>2. stage' = "insert" => at' <= Len(dump)
    BY <1>2 DEF Check, LoadType, Running
  <2>3. stage' = "done" => at' > Len(dump)
    BY <1>2 DEF Check, AfterCheck
  <2> QED
    BY <1>2, <2>1, <2>2, <2>3 DEF Check, LoadType, given, Running
<1>3. CASE InsertFile
  <2>1. dump[at] \in Entry
    BY <1>0, <1>3 DEF InsertFile, LoadType, Running
  <2>2. content' \in Contents
    BY <1>3, <2>1 DEF InsertFile, LoadType, Contents, Entry
  <2> QED
    BY <1>3, <2>2 DEF InsertFile, LoadType, given, Running
<1>4. CASE InsertEntry
  <2>1. dump[at].name \in Names
    BY <1>0, <1>4 DEF InsertEntry, LoadType, Running, Entry
  <2>2. index' \in Listings
    BY <1>4, <2>1, Listed DEF InsertEntry, LoadType, Listings
  <2> QED
    BY <1>4, <2>2 DEF InsertEntry, LoadType, given, Running
<1>5. CASE SetTags
  <2>1. dump[at] \in Entry
    BY <1>0, <1>5 DEF SetTags, LoadType, Running
  <2>2. index' \in Listings
    BY <1>5, <2>1 DEF SetTags, LoadType, Listings, Entry
  <2> QED
    BY <1>5, <2>2 DEF SetTags, LoadType, given, Running
<1>6. CASE Fail
  BY <1>6 DEF Fail, LoadType, given, Running
<1>7. CASE Edit
  <2>1. content' \in Contents /\ index' \in Listings
    BY <1>7 DEF Edit, LoadType, Contents, Listings
  <2> QED
    BY <1>7, <2>1 DEF Edit, LoadType, given, Running
<1> QED
  BY <1>1, <1>2, <1>3, <1>4, <1>5, <1>6, <1>7 DEF Next

\* The first entry of a name is one entry.
LEMMA FirstIsOne ==
    ASSUME NEW i \in 1 .. Len(dump), NEW j \in 1 .. Len(dump), dump \in Seq(Entry),
           First(i), First(j), dump[i].name = dump[j].name
    PROVE  i = j
BY DEF First

\* What is given stays, and who edits a name is remembered.
LEMMA GivenStays == Next => UNCHANGED given /\ edited \subseteq edited'
BY DEF Next, Run, Check, InsertFile, InsertEntry, SetTags, Fail, Edit, given, others

\* An edit leaves the other names alone.
LEMMA EditSpares ==
    ASSUME LoadType, Edit, NEW n \in Names \ edited'
    PROVE  content'[n] = content[n] /\ index'[n] = index[n]
<1> PICK m \in Names, v \in Values \cup {None}, e \in (SUBSET Tags) \cup {None} :
       /\ content' = [content EXCEPT ![m] = v]
       /\ index' = [index EXCEPT ![m] = e]
       /\ edited' = edited \cup {m}
  BY DEF Edit
<1> QED
  BY DEF LoadType, Contents, Listings

\* Without --overwrite every step leaves each name as it was or as its first
\* entry has it.
LEMMA NextSkipInv == LoadType /\ SkipInv /\ Next => SkipInv'
<1> SUFFICES ASSUME LoadType, SkipInv, Next, ~overwrite', NEW n \in Names \ edited'
             PROVE  SkipFor(n)'
  BY DEF SkipInv
<1>1. /\ ~overwrite /\ UNCHANGED given /\ n \in Names \ edited /\ SkipFor(n)
      /\ EntriesOf(n)' = EntriesOf(n)
  BY GivenStays DEF SkipInv, EntriesOf, given
<1>2. \A i \in 1 .. Len(dump) : dump[i] \in Entry
  BY DEF LoadType
<1>3. ASSUME NEW i \in 1 .. Len(dump), LoadedFrom(n, i), content'[n] = content[n],
             \/ n \in cut'
             \/ InHand(i)'
             \/ n \notin cut /\ ~InHand(i) /\ index'[n] = index[n]
      PROVE  LoadedFrom(n, i)'
  BY <1>1, <1>3 DEF LoadedFrom, First, given, TagsIn
<1>4. CASE Run
  <2>1. /\ UNCHANGED <<content, index, cut>> /\ stage \in {"idle", "failed"}
        /\ stage' = "check" /\ at' = 1
    BY <1>4 DEF Run
  <2>2. AsBefore(n)' \/ \E i \in 1 .. Len(dump) : LoadedFrom(n, i)'
    BY <1>1, <1>3, <2>1 DEF SkipFor, AsBefore, InHand, given
  <2> QED
    BY <1>1, <2>1, <2>2 DEF SkipFor, EntriesOf, given
<1>5. CASE Check
  <2>1. /\ UNCHANGED <<content, index, cut>> /\ stage = "check"
        /\ stage' \in {"check", "insert", "done", "failed"}
    BY <1>5 DEF Check, AfterCheck
  <2>2. AsBefore(n)' \/ \E i \in 1 .. Len(dump) : LoadedFrom(n, i)'
    BY <1>1, <1>3, <2>1 DEF SkipFor, AsBefore, InHand, given
  <2>3. stage' = "insert" /\ dump'[at'].name = n => content'[n] = None
    BY <1>1, <1>5 DEF Check, AfterCheck, given
  <2>4. stage' \in Running => \A i \in EntriesOf(n) : i < at' => content[n] # None
    BY <1>1, <1>5 DEF SkipFor, Check, AfterCheck, Running, LoadType, EntriesOf
  <2> QED
    BY <1>1, <2>1, <2>2, <2>3, <2>4 DEF SkipFor, given
<1>6. CASE InsertFile
  <2>0. at \in 1 .. Len(dump)
    BY <1>6 DEF InsertFile, LoadType, Running
  <2> PICK k \in 1 .. Len(dump) : k = at
    BY <2>0
  <2>1. /\ stage = "insert" /\ stage' = "list" /\ at' = k
        /\ content' = [content EXCEPT ![dump[k].name] = dump[k].val]
        /\ UNCHANGED <<index, cut>>
    BY <1>6 DEF InsertFile
  <2>2. CASE dump[k].name = n
    <3>1. content[n] = None /\ \A i \in EntriesOf(n) : i >= k
      BY <1>1, <2>1, <2>2 DEF SkipFor, Running, LoadType, EntriesOf
    <3>2. AsBefore(n)
      BY <1>1, <1>2, <3>1, EntryAssumption DEF SkipFor, LoadedFrom, Entry
    <3>3. First(k)
      BY <2>2, <3>1 DEF First, EntriesOf
    <3>4. content'[n] = dump[k].val /\ dump[k].val # None
      BY <1>2, <2>1, <2>2, EntryAssumption DEF LoadType, Contents, Entry
    <3>5. LoadedFrom(n, k)'
      BY <1>1, <2>1, <2>2, <3>1, <3>2, <3>3, <3>4
         DEF LoadedFrom, AsBefore, First, InHand, given
    <3> QED
      BY <1>1, <2>1, <3>2, <3>4, <3>5 DEF SkipFor, AsBefore, given
  <2>3. CASE dump[k].name # n
    <3>1. content'[n] = content[n] /\ index'[n] = index[n]
      BY <1>2, <2>1, <2>3 DEF LoadType, Contents, Entry
    <3>2. AsBefore(n)' \/ \E i \in 1 .. Len(dump) : LoadedFrom(n, i)'
      BY <1>1, <1>3, <2>1, <3>1 DEF SkipFor, AsBefore, InHand, given
    <3> QED
      BY <1>1, <2>1, <2>3, <3>1, <3>2 DEF SkipFor, Running, given
  <2> QED
    BY <2>2, <2>3
<1>7. CASE InsertEntry
  <2>0. at \in 1 .. Len(dump)
    BY <1>7 DEF InsertEntry, LoadType, Running
  <2> PICK k \in 1 .. Len(dump) : k = at
    BY <2>0
  <2>1. /\ stage = "list" /\ at = k
        /\ index' = [index EXCEPT ![dump[k].name] = TagsIn(index, dump[k].name)]
        /\ \/ dump[k].tags = {} /\ stage' = "check" /\ at' = k + 1
           \/ dump[k].tags # {} /\ stage' = "tag" /\ at' = k
        /\ UNCHANGED <<content, cut>>
    BY <1>7 DEF InsertEntry
  <2>2. CASE dump[k].name = n
    <3>1. LoadedFrom(n, k) /\ index[n] = before.index[n]
      BY <1>1, <2>1, <2>2 DEF SkipFor
    <3>2. index'[n] = TagsIn(before.index, n)
      BY <2>1, <2>2, <3>1 DEF LoadType, Listings, TagsIn
    <3>3. LoadedFrom(n, k)'
      BY <1>1, <2>1, <3>1, <3>2 DEF LoadedFrom, First, InHand, TagsIn, given
    <3>4. content'[n] # None
      BY <1>2, <2>1, <3>1, EntryAssumption DEF LoadedFrom, Entry
    <3> QED
      BY <1>1, <2>1, <3>3, <3>4 DEF SkipFor, given
  <2>3. CASE dump[k].name # n
    <3>1. index'[n] = index[n]
      BY <1>2, <2>1, <2>3 DEF LoadType, Listings, Entry
    <3>2. ASSUME NEW i \in 1 .. Len(dump), LoadedFrom(n, i) PROVE ~InHand(i)
      BY <2>1, <2>3, <3>2 DEF LoadedFrom, InHand
    <3>3. AsBefore(n)' \/ \E i \in 1 .. Len(dump) : LoadedFrom(n, i)'
      BY <1>1, <1>3, <2>1, <3>1, <3>2 DEF SkipFor, AsBefore, given
    <3>4. \A i \in EntriesOf(n) : i < at' => content'[n] # None
      BY <1>1, <2>1, <2>3 DEF SkipFor, Running, EntriesOf
    <3> QED
      BY <1>1, <2>1, <2>3, <3>3, <3>4 DEF SkipFor, given
  <2> QED
    BY <2>2, <2>3
<1>8. CASE SetTags
  <2>0. at \in 1 .. Len(dump)
    BY <1>8 DEF SetTags, LoadType, Running
  <2> PICK k \in 1 .. Len(dump) : k = at
    BY <2>0
  <2>1. /\ stage = "tag" /\ at = k /\ dump[k].tags # {}
        /\ UNCHANGED <<content, cut>>
        /\ \/ content[dump[k].name] = None /\ stage' = "failed" /\ at' = k /\ index' = index
           \/ /\ stage' = "check" /\ at' = k + 1
              /\ index' = [index EXCEPT ![dump[k].name] = dump[k].tags]
    BY <1>8 DEF SetTags, LoadType
  <2>2. CASE dump[k].name = n
    <3>1. LoadedFrom(n, k)
      BY <1>1, <2>1, <2>2 DEF SkipFor
    <3>2. content[n] # None
      BY <1>2, <3>1, EntryAssumption DEF LoadedFrom, Entry
    <3>3. stage' = "check" /\ at' = k + 1 /\ index'[n] = dump[k].tags
      BY <2>1, <2>2, <3>2 DEF LoadType, Listings
    <3>4. LoadedFrom(n, k)'
      BY <1>1, <2>1, <3>1, <3>3 DEF LoadedFrom, First, given
    <3> QED
      BY <1>1, <2>1, <3>2, <3>3, <3>4 DEF SkipFor, given
  <2>3. CASE dump[k].name # n
    <3>1. index'[n] = index[n]
      BY <1>2, <2>1, <2>3 DEF LoadType, Listings, Entry
    <3>2. ASSUME NEW i \in 1 .. Len(dump), LoadedFrom(n, i) PROVE ~InHand(i)
      BY <2>1, <2>3, <3>2 DEF LoadedFrom, InHand
    <3>3. AsBefore(n)' \/ \E i \in 1 .. Len(dump) : LoadedFrom(n, i)'
      BY <1>1, <1>3, <2>1, <3>1, <3>2 DEF SkipFor, AsBefore, given
    <3>4. stage' \in Running => \A i \in EntriesOf(n) : i < at' => content'[n] # None
      BY <1>1, <2>1, <2>3 DEF SkipFor, Running, EntriesOf
    <3> QED
      BY <1>1, <2>1, <2>3, <3>3, <3>4 DEF SkipFor, given
  <2> QED
    BY <2>2, <2>3
<1>9. CASE Fail
  <2>1. /\ UNCHANGED <<content, index>> /\ stage' = "failed" /\ cut \subseteq cut'
        /\ stage \in {"list", "tag"} => dump[at].name \in cut'
    BY <1>9 DEF Fail
  <2>2. ASSUME NEW i \in 1 .. Len(dump), LoadedFrom(n, i) PROVE LoadedFrom(n, i)'
    BY <1>3, <2>1, <2>2 DEF LoadedFrom, InHand
  <2> QED
    BY <1>1, <2>1, <2>2 DEF SkipFor, AsBefore, Running, given
<1>10. CASE Edit
  <2>1. UNCHANGED <<stage, at, cut>> /\ content'[n] = content[n] /\ index'[n] = index[n]
    BY <1>10, EditSpares DEF Edit
  <2>2. ASSUME NEW i \in 1 .. Len(dump), LoadedFrom(n, i) PROVE LoadedFrom(n, i)'
    BY <1>3, <2>1, <2>2 DEF InHand
  <2>3. LoadType /\ stage \in {"list", "tag"} => at \in 1 .. Len(dump)
    BY DEF LoadType, Running
  <2> QED
    BY <1>1, <2>1, <2>2, <2>3 DEF SkipFor, AsBefore, given
<1> QED
  BY <1>4, <1>5, <1>6, <1>7, <1>8, <1>9, <1>10 DEF Next

\* With --overwrite the last entry behind the run is in effect.
LEMMA NextOverwriteInv == LoadType /\ OverwriteInv /\ Next => OverwriteInv'
<1> SUFFICES ASSUME LoadType, OverwriteInv, Next, overwrite', NEW n \in Names \ edited'
             PROVE  OverwriteFor(n)'
  BY DEF OverwriteInv
<1>1. /\ overwrite /\ UNCHANGED given /\ n \in Names \ edited /\ OverwriteFor(n)
      /\ EntriesOf(n)' = EntriesOf(n) /\ TaggingsOf(n)' = TaggingsOf(n)
  BY GivenStays DEF OverwriteInv, EntriesOf, TaggingsOf, given
<1>2. \A i \in 1 .. Len(dump) : dump[i] \in Entry
  BY DEF LoadType
<1> DEFINE ValueIn(i) == \/ content[n] = dump[i].val
                         \/ \E j \in EntriesOf(n) : i < j /\ Written(j)
           TagsSet(i) == \/ index[n] = dump[i].tags
                         \/ \E j \in TaggingsOf(n) : i < j /\ j < at
           Behind == \A i \in EntriesOf(n) :
                        /\ Written(i) => ValueIn(i)
                        /\ i < at => index[n] # None
                        /\ i < at /\ dump[i].tags # {} => TagsSet(i)
<1>3. /\ EntriesOf(n) = {} => AsBefore(n)
      /\ TaggingsOf(n) = {} => TagsIn(index, n) = TagsIn(before.index, n)
      /\ stage \in Running => Behind
  BY <1>1 DEF OverwriteFor
<1>4. ASSUME content'[n] = content[n], index'[n] = index[n], stage' \in Running => Behind'
      PROVE  OverwriteFor(n)'
  BY <1>1, <1>3, <1>4 DEF OverwriteFor, AsBefore, TagsIn, given
<1>5. CASE Run
  <2>1. UNCHANGED <<content, index>> /\ stage' = "check" /\ at' = 1
    BY <1>5 DEF Run
  <2>2. Behind'
    BY <1>1, <2>1 DEF Written, InHand, EntriesOf, TaggingsOf
  <2> QED
    BY <1>4, <2>1, <2>2
<1>6. CASE Check
  <2>1. UNCHANGED <<content, index, at>> /\ stage = "check" /\ stage' \notin {"list", "tag"}
    BY <1>1, <1>6 DEF Check, AfterCheck
  <2>2. Behind'
    BY <1>1, <1>3, <2>1 DEF Written, InHand, Running, given
  <2> QED
    BY <1>4, <2>1, <2>2
<1>7. CASE InsertFile
  <2>0. at \in 1 .. Len(dump)
    BY <1>7 DEF InsertFile, LoadType, Running
  <2> PICK k \in 1 .. Len(dump) : k = at
    BY <2>0
  <2>1. /\ stage = "insert" /\ stage' = "list" /\ at = k /\ at' = k
        /\ content' = [content EXCEPT ![dump[k].name] = dump[k].val]
        /\ index' = index
    BY <1>7 DEF InsertFile
  <2>2. Behind /\ \A i \in EntriesOf(n) : Written(i)' <=> Written(i) \/ i = k
    BY <1>3, <2>1 DEF Running, Written, InHand, EntriesOf
  <2>3. ASSUME NEW i \in EntriesOf(n), Written(i)' PROVE ValueIn(i)'
    <3>1. CASE dump[k].name = n
      <4>1. content'[n] = dump[k].val
        BY <2>1, <3>1 DEF LoadType, Contents
      <4>2. i <= k /\ k \in EntriesOf(n) /\ Written(k)'
        BY <2>1, <2>3, <3>1 DEF Written, InHand, EntriesOf
      <4> QED
        BY <1>1, <2>1, <4>1, <4>2 DEF EntriesOf, given
    <3>2. CASE dump[k].name # n
      <4>1. i # k /\ content'[n] = content[n]
        BY <1>2, <2>1, <3>2 DEF LoadType, Contents, Entry, EntriesOf
      <4> QED
        BY <1>1, <2>2, <2>3, <4>1 DEF given
    <3> QED
      BY <3>1, <3>2
  <2>4. Behind'
    BY <1>1, <2>1, <2>2, <2>3 DEF given
  <2>5. EntriesOf(n) = {} => content'[n] = content[n]
    BY <1>2, <2>1 DEF EntriesOf, LoadType, Contents, Entry
  <2> HIDE DEF Behind
  <2> QED
    BY <1>1, <1>3, <2>1, <2>4, <2>5 DEF OverwriteFor, AsBefore, TagsIn, Behind, given
<1>8. CASE InsertEntry
  <2>0. at \in 1 .. Len(dump)
    BY <1>8 DEF InsertEntry, LoadType, Running
  <2> PICK k \in 1 .. Len(dump) : k = at
    BY <2>0
  <2>1. /\ stage = "list" /\ at = k
        /\ index' = [index EXCEPT ![dump[k].name] = TagsIn(index, dump[k].name)]
        /\ \/ dump[k].tags = {} /\ stage' = "check" /\ at' = k + 1
           \/ dump[k].tags # {} /\ stage' = "tag" /\ at' = k
        /\ UNCHANGED content
    BY <1>8 DEF InsertEntry
  <2>2. Behind /\ \A i \in EntriesOf(n) : Written(i)' <=> Written(i)
    BY <1>3, <2>1 DEF Running, Written, InHand, EntriesOf
  <2>3. TagsIn(index, n)' = TagsIn(index, n) /\ (index[n] # None => index'[n] = index[n])
    BY <1>2, <2>1, EntryAssumption DEF LoadType, Listings, TagsIn, Entry
  <2>4. dump[k].name = n => index'[n] # None
    BY <2>1, EntryAssumption, Listed DEF LoadType, Listings
  <2>5. ASSUME NEW i \in EntriesOf(n), i < at' PROVE index'[n] # None
    BY <2>1, <2>2, <2>3, <2>4, <2>5 DEF EntriesOf
  <2>6. ASSUME NEW i \in EntriesOf(n), i < at', dump[i].tags # {} PROVE TagsSet(i)'
    <3>1. i < at /\ TagsSet(i) /\ index'[n] = index[n]
      BY <2>1, <2>2, <2>3, <2>6 DEF EntriesOf
    <3>2. \A j \in TaggingsOf(n) : j < at => j < at'
      BY <2>1 DEF TaggingsOf, EntriesOf
    <3> QED
      BY <1>1, <3>1, <3>2 DEF given
  <2>7. Behind'
    BY <1>1, <2>1, <2>2, <2>5, <2>6 DEF given
  <2>8. EntriesOf(n) = {} => index'[n] = index[n]
    BY <1>2, <2>1 DEF EntriesOf, LoadType, Listings, Entry
  <2> HIDE DEF Behind
  <2> QED
    BY <1>1, <1>3, <2>1, <2>3, <2>7, <2>8 DEF OverwriteFor, AsBefore, TagsIn, Behind, given
<1>9. CASE SetTags
  <2>0. at \in 1 .. Len(dump)
    BY <1>9 DEF SetTags, LoadType, Running
  <2> PICK k \in 1 .. Len(dump) : k = at
    BY <2>0
  <2>1. /\ stage = "tag" /\ at = k /\ dump[k].tags # {}
        /\ UNCHANGED content
        /\ \/ stage' = "failed" /\ index' = index
           \/ /\ stage' = "check" /\ at' = k + 1
              /\ index' = [index EXCEPT ![dump[k].name] = dump[k].tags]
    BY <1>9 DEF SetTags, LoadType
  <2>2. CASE stage' = "failed"
    BY <1>4, <2>1, <2>2 DEF Running
  <2>3. CASE stage' = "check"
    <3>1. at' = k + 1 /\ index' = [index EXCEPT ![dump[k].name] = dump[k].tags]
      BY <2>1, <2>3
    <3>2. Behind /\ \A i \in EntriesOf(n) : Written(i)' <=> Written(i)
      BY <1>3, <2>1, <2>3, <3>1 DEF Running, Written, InHand, EntriesOf
    <3>3. CASE dump[k].name = n
      <4>1. /\ index'[n] = dump[k].tags /\ index'[n] # None
            /\ k \in TaggingsOf(n) /\ k < at'
        BY <1>2, <2>1, <3>1, <3>3, EntryAssumption
           DEF LoadType, Listings, Entry, TaggingsOf, EntriesOf
      <4>2. ASSUME NEW i \in EntriesOf(n), i < at' PROVE TagsSet(i)'
        BY <1>1, <3>1, <4>1, <4>2 DEF EntriesOf, given
      <4>3. Behind'
        BY <1>1, <2>1, <3>2, <4>1, <4>2 DEF given
      <4>4. TaggingsOf(n) # {} /\ EntriesOf(n) # {}
        BY <4>1 DEF TaggingsOf
      <4> HIDE DEF Behind
      <4> QED
        BY <1>1, <4>3, <4>4 DEF OverwriteFor, Behind
    <3>4. CASE dump[k].name # n
      <4>1. index'[n] = index[n]
        BY <1>2, <3>1, <3>4 DEF LoadType, Listings, Entry
      <4>2. \A i \in EntriesOf(n) : i < at' <=> i < at
        BY <2>1, <3>1, <3>4 DEF EntriesOf
      <4>3. \A j \in TaggingsOf(n) : j < at' <=> j < at
        BY <4>2 DEF TaggingsOf
      <4>4. Behind'
        BY <1>1, <2>1, <3>2, <4>1, <4>2, <4>3 DEF given
      <4> QED
        BY <1>4, <2>1, <4>1, <4>4
    <3> QED
      BY <3>3, <3>4
  <2> QED
    BY <2>1, <2>2, <2>3
<1>10. CASE Fail
  BY <1>4, <1>10 DEF Fail, Running
<1>11. CASE Edit
  <2>1. UNCHANGED <<stage, at>> /\ content'[n] = content[n] /\ index'[n] = index[n]
    BY <1>11, EditSpares DEF Edit
  <2>2. stage \in Running => Behind'
    BY <1>1, <1>3, <2>1 DEF Written, InHand, given
  <2> QED
    BY <1>4, <2>1, <2>2
<1> QED
  BY <1>5, <1>6, <1>7, <1>8, <1>9, <1>10, <1>11 DEF Next

-----------------------------------------------------------------------------
(* The first and the last entry of a name, and the entries of a dump *)

\* A set of positions has a least and a greatest one.
LEMMA MinIsLeast ==
    ASSUME NEW S, S \subseteq Nat, S # {}
    PROVE  Min(S) \in S /\ \A y \in S : Min(S) <= y
<1>1. PICK x \in S : \A y \in S : <<y, x>> \notin OpToRel(<, Nat)
  BY NatLessThanWellFounded, WFMin
<1>2. \A y \in S : ~(y < x)
  BY <1>1 DEF OpToRel
<1>3. \A y \in S : x <= y
  BY <1>2
<1>4. \E z \in S : \A y \in S : z <= y
  BY <1>3
<1> QED
  BY <1>4 DEF Min

\* What Max chooses among bounded numbers is the greatest of them.
LEMMA MaxIsGreatest ==
    ASSUME NEW S, NEW m \in Nat, S \subseteq 0 .. m, S # {}
    PROVE  Max(S) \in S /\ \A y \in S : y <= Max(S)
<1> DEFINE T == {m - x : x \in S}
<1>1. T \subseteq Nat /\ T # {}
  <2>1. \A x \in S : m - x \in Nat
    OBVIOUS
  <2> QED
    BY <2>1
<1>2. PICK d \in T : \A y \in T : <<y, d>> \notin OpToRel(<, Nat)
  BY <1>1, NatLessThanWellFounded, WFMin
<1>3. \A y \in T : ~(y < d)
  BY <1>1, <1>2 DEF OpToRel
<1>4. PICK x \in S : d = m - x
  OBVIOUS
<1>5. \A y \in S : x >= y
  <2> TAKE y \in S
  <2>1. m - y \in T /\ y \in Int /\ x \in Int
    OBVIOUS
  <2>2. ~(m - y < m - x)
    BY <1>3, <1>4, <2>1
  <2> QED
    BY <2>1, <2>2
<1>6. \E z \in S : \A y \in S : z >= y
  BY <1>5
<1>7. Max(S) \in S /\ \A y \in S : Max(S) >= y
  BY <1>6 DEF Max
<1>8. \A y \in S : y \in Int
  OBVIOUS
<1> QED
  BY <1>7, <1>8

\* Of one position there is one greatest.
LEMMA MaxOfOne == ASSUME NEW k \in Nat PROVE Max({k}) = k
<1>1. \E x \in {k} : \A y \in {k} : x >= y
  OBVIOUS
<1> QED
  BY <1>1 DEF Max

\* The elements of a finite set can be put in a sequence, each at some place.
LEMMA SetToSeqLists ==
    ASSUME NEW S, IsFiniteSet(S)
    PROVE  /\ SetToSeq(S) \in Seq(S)
           /\ S = {SetToSeq(S)[i] : i \in 1 .. Len(SetToSeq(S))}
<1> DEFINE c == Cardinality(S)
           f == SetToSeq(S)
<1>1. c \in Nat /\ ExistsBijection(1 .. c, S)
  BY FS_CardinalityType
<1>2. \E g \in [1 .. c -> S] : IsInjective(g)
  BY <1>1 DEF ExistsBijection, Bijection, Injection
<1>3. f \in [1 .. c -> S] /\ IsInjective(f)
  BY <1>2 DEF SetToSeq
<1>4. f \in Surjection(1 .. c, S)
  <2>1. f \in Injection(1 .. c, S)
    BY <1>3 DEF Injection
  <2>2. Cardinality(1 .. c) = c
    BY <1>1, FS_Interval
  <2> QED
    BY <2>1, <2>2, FS_Injection
<1>5. f \in Seq(S) /\ Len(f) = c
  BY <1>1, <1>3
<1> QED
  BY <1>3, <1>4, <1>5 DEF Surjection

-----------------------------------------------------------------------------
(* The invariant *)

\* Every step of a dump keeps the two in step.
LEMMA DumpHandInv ==
    ASSUME SelectInv, HandInv, DumpNext, UNCHANGED vars
    PROVE  HandInv'
<1>1. /\ dumping' # "none" => dumping # "none"
      /\ stage # "waiting" => got' = got /\ dumping' = dumping /\ output' = output
      /\ dumping' = "none" => output' = output /\ dumping = "none"
  BY DEF HandInv, DumpNext, OpenOutput, ListNames, FilterByTag, SelectedOrFail, ReadTags,
         ReadSecret, WriteDump, DumpDies, EditFile, EditManifest, dumpLocal
<1> QED
  BY <1>1 DEF HandInv, vars, given

\* Every step of a load does.
LEMMA LoadHandInv ==
    ASSUME HandInv, stage # "waiting", Next, UNCHANGED dumpVars
    PROVE  HandInv'
<1>1. stage' # "waiting" /\ UNCHANGED given
  BY DEF Next, Run, Check, AfterCheck, InsertFile, InsertEntry, SetTags, Fail, Edit, given
<1> QED
  BY <1>1 DEF HandInv, dumpVars, dumpLocal, given

\* Handing the dump over does: what a load begins with is an empty vault and the
\* entries of the dump.
LEMMA HandOverInv ==
    ASSUME TransferInv, HandOver
    PROVE  TransferInv'
<1>1. /\ stage = "waiting" /\ stage' = "idle" /\ dump' = SetToSeq(got)
      /\ UNCHANGED <<dumpVars, content, index, overwrite, before, at, others, cut>>
      /\ dumping = "written" /\ ~overwrite
  BY DEF HandOver, TransferInv, SelectInv, HandInv
<1>2. got \subseteq Entry /\ IsFiniteSet(got)
  BY DEF TransferInv, DumpType
<1>3. dump' \in Seq(got) /\ got = {dump'[i] : i \in 1 .. Len(dump')}
  BY <1>1, <1>2, SetToSeqLists
<1>4. dump' \in Seq(Entry)
  BY <1>2, <1>3
<1>5. DumpType' /\ EverInv' /\ SelectInv'
  BY <1>1 DEF TransferInv, DumpType, EverInv, DumpHoldsWhatWas, SelectInv, Selected, TagsIn,
              dumpVars, sourceVars, dumpLocal
<1>6. LoadType'
  BY <1>1, <1>4 DEF TransferInv, LoadType, Running
<1>7. SkipInv' /\ OverwriteInv'
  BY <1>1 DEF TransferInv, HandInv, SkipInv, OverwriteInv, SkipFor, AsBefore, Running, others
<1>8. HandInv'
  BY <1>1, <1>3 DEF TransferInv, HandInv, dumpVars, dumpLocal
<1> QED
  BY <1>5, <1>6, <1>7, <1>8 DEF TransferInv

\* A file of entries and any vault, or a vault to dump and an empty one.
LEMMA InitTransferInv == TransferInit => TransferInv
<1>1. ASSUME store \in Contents, listing \in Listings, pending = None,
             prefix \in SUBSET Names, wanted \in SUBSET Tags, left = {}, got = {},
             tagsRead = [n \in Names |-> {}], output = "none", touched = {},
             ever = Ever(store, listing), dumping \in {"none", "idle"}
      PROVE  DumpType /\ EverInv /\ SelectInv
  <2>1. DumpType
    <3>1. ever \in [Names -> [vals : SUBSET Values, tags : SUBSET SUBSET Tags]]
      BY <1>1, Listed DEF Ever, Contents
    <3> QED
      BY <1>1, <3>1, FS_EmptySet DEF DumpType
  <2>2. EverInv
    BY <1>1 DEF EverInv, DumpHoldsWhatWas, Ever
  <2>3. SelectInv
    BY <1>1 DEF SelectInv
  <2> QED
    BY <2>1, <2>2, <2>3
<1>2. ASSUME content \in Contents, index \in Listings,
             dump \in Seq(Entry), overwrite \in BOOLEAN,
             before = [content |-> content, index |-> index],
             stage \in {"idle", "waiting"}, at = 0
      PROVE  LoadType /\ SkipInv /\ OverwriteInv
  BY <1>2 DEF LoadType, SkipInv, OverwriteInv, SkipFor, OverwriteFor, Running, AsBefore
<1>3. CASE FileGiven
  <2>1. DumpType /\ EverInv /\ SelectInv
    BY <1>1, <1>3 DEF FileGiven, Contents, Listings
  <2>2. LoadType /\ SkipInv /\ OverwriteInv
    BY <1>2, <1>3, BulkAssumption DEF FileGiven, Init, Contents
  <2> QED
    BY <1>3, <2>1, <2>2 DEF FileGiven, Init, HandInv, TransferInv
<1>4. CASE VaultGiven
  <2>1. DumpType /\ EverInv /\ SelectInv
    BY <1>1, <1>4 DEF VaultGiven, DumpInit, Contents, Listings
  <2>2. content \in Contents /\ index \in Listings /\ dump \in Seq(Entry)
    BY <1>4 DEF VaultGiven, Contents, Listings
  <2>3. LoadType /\ SkipInv /\ OverwriteInv
    BY <1>2, <1>4, <2>2 DEF VaultGiven
  <2> QED
    BY <1>4, <2>1, <2>3 DEF VaultGiven, DumpInit, HandInv, TransferInv
<1> QED
  BY <1>3, <1>4 DEF TransferInit

\* Every step keeps the invariant: those of a dump do not touch what a load
\* relies on, nor the other way round.
LEMMA NextTransferInv == TransferInv /\ [TransferNext]_transferVars => TransferInv'
<1> SUFFICES ASSUME TransferInv, [TransferNext]_transferVars PROVE TransferInv'
  OBVIOUS
<1>1. ASSUME UNCHANGED vars PROVE LoadType' /\ SkipInv' /\ OverwriteInv'
  <2>1. /\ UNCHANGED <<content, index, dump, overwrite, before, stage, at, edited, cut>>
        /\ LoadType /\ SkipInv /\ OverwriteInv
    BY <1>1 DEF TransferInv, vars
  <2>2. LoadType'
    BY <2>1 DEF LoadType
  <2>3. ASSUME NEW n PROVE EntriesOf(n)' = EntriesOf(n) /\ TaggingsOf(n)' = TaggingsOf(n)
    BY <2>1 DEF EntriesOf, TaggingsOf
  <2>4. ASSUME NEW n, SkipFor(n) PROVE SkipFor(n)'
    BY <2>1, <2>3, <2>4 DEF SkipFor, AsBefore, LoadedFrom, First, InHand, TagsIn
  <2>5. ASSUME NEW n, OverwriteFor(n) PROVE OverwriteFor(n)'
    BY <2>1, <2>3, <2>5 DEF OverwriteFor, AsBefore, Written, InHand, TagsIn
  <2> QED
    BY <2>1, <2>2, <2>4, <2>5 DEF SkipInv, OverwriteInv
<1>2. ASSUME UNCHANGED dumpVars PROVE DumpType' /\ EverInv' /\ SelectInv'
  BY <1>2 DEF TransferInv, dumpVars, sourceVars, dumpLocal, DumpType, EverInv,
              DumpHoldsWhatWas, SelectInv, Selected, TagsIn
<1>3. CASE DumpNext /\ UNCHANGED vars
  BY <1>1, <1>3, NextDumpType, NextEverInv, NextSelectInv, DumpHandInv DEF TransferInv
<1>4. CASE stage # "waiting" /\ Next /\ UNCHANGED dumpVars
  BY <1>2, <1>4, NextLoadType, NextSkipInv, NextOverwriteInv, LoadHandInv DEF TransferInv
<1>5. CASE UNCHANGED transferVars
  <2>1. UNCHANGED vars /\ UNCHANGED dumpVars
    BY <1>5 DEF transferVars
  <2>2. HandInv'
    BY <2>1 DEF TransferInv, HandInv, vars, given, dumpVars, dumpLocal
  <2> QED
    BY <1>1, <1>2, <2>1, <2>2 DEF TransferInv
<1> QED
  BY <1>3, <1>4, <1>5, HandOverInv DEF TransferNext

\* The invariant holds in every reachable state.
LEMMA TransferInvariance == TransferSpec => []TransferInv
BY InitTransferInv, NextTransferInv, PTL DEF TransferSpec

-----------------------------------------------------------------------------
(* The theorems *)

\* Whatever is edited while a dump reads, each of its entries has a value that
\* was stored under that name and tags that were listed for it at some time
\* since the dump was asked for, however many edits there are.
THEOREM DumpsHoldWhatWas == TransferSpec => []DumpHoldsWhatWas
BY TransferInvariance, PTL DEF TransferInv, EverInv

\* Without --overwrite a load that is about to write a file finds none there,
\* unless another process has edited that name.
THEOREM ExistingStay == TransferSpec => ExistingAreSkipped
<1>1. TransferInv =>
         (InsertFile /\ ~overwrite => content[dump[at].name] = None \/ dump[at].name \in edited)
  <2> SUFFICES ASSUME TransferInv, InsertFile, ~overwrite, dump[at].name \notin edited
               PROVE  content[dump[at].name] = None
    OBVIOUS
  <2>1. stage = "insert" /\ at \in 1 .. Len(dump)
    BY DEF InsertFile, TransferInv, LoadType, Running
  <2>2. dump[at] \in Entry
    BY <2>1 DEF TransferInv, LoadType
  <2>3. dump[at].name \in Names
    BY <2>2 DEF Entry
  <2> QED
    BY <2>1, <2>3 DEF TransferInv, SkipInv, SkipFor
<1> QED
  BY <1>1, TransferInvariance, PTL DEF ExistingAreSkipped

\* The positions of the entries of a name have a first and a last one, and so
\* have those that bring tags.
LEMMA EntryPositions ==
    ASSUME LoadType, NEW n
    PROVE  /\ EntriesOf(n) \subseteq 0 .. Len(dump) /\ TaggingsOf(n) \subseteq EntriesOf(n)
           /\ EntriesOf(n) # {} =>
                 /\ Min(EntriesOf(n)) \in EntriesOf(n) /\ First(Min(EntriesOf(n)))
                 /\ Max(EntriesOf(n)) \in EntriesOf(n)
                 /\ \A j \in EntriesOf(n) : j <= Max(EntriesOf(n))
           /\ TaggingsOf(n) # {} =>
                 /\ Max(TaggingsOf(n)) \in TaggingsOf(n)
                 /\ \A j \in TaggingsOf(n) : j <= Max(TaggingsOf(n))
<1>1. Len(dump) \in Nat
  BY DEF LoadType
<1>2. EntriesOf(n) \subseteq 0 .. Len(dump) /\ TaggingsOf(n) \subseteq EntriesOf(n)
  BY <1>1 DEF EntriesOf, TaggingsOf
<1>3. EntriesOf(n) \subseteq Nat
  BY <1>1 DEF EntriesOf
<1>4. ASSUME EntriesOf(n) # {}
      PROVE  Min(EntriesOf(n)) \in EntriesOf(n) /\ First(Min(EntriesOf(n)))
  <2> DEFINE k == Min(EntriesOf(n))
  <2>1. k \in EntriesOf(n) /\ \A j \in EntriesOf(n) : k <= j
    BY <1>3, <1>4, MinIsLeast
  <2> HIDE DEF k
  <2>2. First(k)
    BY <1>1, <2>1 DEF First, EntriesOf
  <2> QED
    BY <2>1, <2>2 DEF k
<1> QED
  BY <1>1, <1>2, <1>4, MaxIsGreatest

\* A load without --overwrite that finishes has had its effect.
LEMMA SkippingLoadTookEffect ==
    ASSUME LoadType, SkipInv, stage = "done", ~overwrite, NEW n \in Names \ edited
    PROVE  /\ content[n] = Expected(n)
           /\ n \notin cut => index[n] = ExpectedEntry(n)
<1>1. /\ AsBefore(n) \/ \E i \in 1 .. Len(dump) : LoadedFrom(n, i)
      /\ \A i \in EntriesOf(n) : content[n] # None
  BY DEF SkipInv, SkipFor, Running, LoadType, EntriesOf
<1>2. CASE Loads(n)
  <2>1. EntriesOf(n) # {} /\ before.content[n] = None
    BY <1>2 DEF Loads
  <2> PICK k \in EntriesOf(n) : k = Min(EntriesOf(n)) /\ First(k)
    BY <2>1, EntryPositions
  <2>2. k \in 1 .. Len(dump) /\ dump[k].name = n
    BY DEF EntriesOf
  <2>3. PICK i \in 1 .. Len(dump) : LoadedFrom(n, i)
    BY <1>1, <2>1 DEF AsBefore
  <2>4. i = k
    BY <2>2, <2>3, FirstIsOne DEF LoadedFrom, LoadType
  <2>5. /\ content[n] = dump[k].val
        /\ n \notin cut =>
              index[n] = IF dump[k].tags = {} THEN TagsIn(before.index, n) ELSE dump[k].tags
    BY <2>3, <2>4 DEF LoadedFrom, InHand
  <2>6. content[n] = Expected(n)
    BY <1>2, <2>5 DEF Expected
  <2>7. CASE dump[k].tags = {}
    <3>1. TaggingsOf(n) \cap {k} = {}
      BY <2>7 DEF TaggingsOf
    <3> QED
      BY <1>2, <2>5, <2>6, <2>7, <3>1 DEF ExpectedEntry
  <2>8. CASE dump[k].tags # {}
    <3>1. TaggingsOf(n) \cap {k} = {k}
      BY <2>8 DEF TaggingsOf
    <3>2. Max({k}) = k
      BY <2>2, MaxOfOne
    <3> QED
      BY <1>2, <2>5, <2>6, <2>8, <3>1, <3>2 DEF ExpectedEntry
  <2> QED
    BY <2>7, <2>8
<1>3. CASE ~Loads(n)
  <2>1. \A i \in 1 .. Len(dump) : ~LoadedFrom(n, i)
    BY <1>3 DEF Loads, LoadedFrom, EntriesOf
  <2> QED
    BY <1>1, <1>3, <2>1 DEF AsBefore, Expected, ExpectedEntry
<1> QED
  BY <1>2, <1>3

\* A load with --overwrite that finishes has had its effect.
LEMMA OverwritingLoadTookEffect ==
    ASSUME LoadType, OverwriteInv, stage = "done", overwrite, NEW n \in Names \ edited
    PROVE  content[n] = Expected(n) /\ index[n] = ExpectedEntry(n)
<1>1. /\ EntriesOf(n) = {} => AsBefore(n)
      /\ TaggingsOf(n) = {} => TagsIn(index, n) = TagsIn(before.index, n)
      /\ \A i \in EntriesOf(n) :
            /\ \/ content[n] = dump[i].val
               \/ \E j \in EntriesOf(n) : i < j
            /\ index[n] # None
            /\ dump[i].tags # {} =>
                  \/ index[n] = dump[i].tags
                  \/ \E j \in TaggingsOf(n) : i < j
  BY DEF OverwriteInv, OverwriteFor, Running, LoadType, Written, EntriesOf
<1>2. CASE EntriesOf(n) = {}
  BY <1>1, <1>2 DEF AsBefore, Expected, ExpectedEntry, Loads
<1>3. CASE EntriesOf(n) # {}
  <2> PICK k \in EntriesOf(n) : k = Max(EntriesOf(n)) /\ \A j \in EntriesOf(n) : j <= k
    BY <1>3, EntryPositions
  <2>1. \A j \in EntriesOf(n) : j \in Int
    BY DEF EntriesOf
  <2>2. content[n] = dump[k].val
    BY <1>1, <2>1
  <2>3. content[n] = Expected(n)
    BY <1>3, <2>2 DEF Expected, Loads
  <2>4. CASE TaggingsOf(n) = {}
    <3>1. index[n] = TagsIn(before.index, n)
      BY <1>1, <1>3, <2>4 DEF TagsIn
    <3> QED
      BY <1>3, <2>3, <2>4, <3>1 DEF ExpectedEntry, Loads
  <2>5. CASE TaggingsOf(n) # {}
    <3> PICK m \in TaggingsOf(n) : m = Max(TaggingsOf(n)) /\ \A j \in TaggingsOf(n) : j <= m
      BY <2>5, EntryPositions
    <3>1. m \in EntriesOf(n) /\ dump[m].tags # {} /\ \A j \in TaggingsOf(n) : j \in Int
      BY <2>1 DEF TaggingsOf
    <3>2. index[n] = dump[m].tags
      BY <1>1, <3>1
    <3> QED
      BY <1>3, <2>3, <2>5, <3>2 DEF ExpectedEntry, Loads
  <2> QED
    BY <2>4, <2>5
<1> QED
  BY <1>2, <1>3

\* A load that finishes, at the first run or after any number of failed ones,
\* has had its effect on every name that nobody else edited, however many others
\* were.  Only the listing and the tags of a name may be missing, of one whose
\* run died after it had written the file, without --overwrite.
THEOREM LoadsTakeEffect == TransferSpec => []FinishedLoadTookEffect
<1>1. TransferInv => FinishedLoadTookEffect
  BY SkippingLoadTookEffect, OverwritingLoadTookEffect
     DEF TransferInv, LoadType, FinishedLoadTookEffect
<1> QED
  BY <1>1, TransferInvariance, PTL

\* A dump that was written and loaded into an empty vault restores every selected
\* secret nobody touched meanwhile in either vault, and its tags, and nothing that
\* was not selected.  Only the listing and the tags of a name may be missing, of
\* one whose load died after it had written the file.
THEOREM DumpAndLoadRestore == TransferSpec => []TransferRestores
<1>1. TransferInv => TransferRestores
  <2> SUFFICES ASSUME TransferInv, output = "whole", stage = "done",
                      NEW n \in Names \ (touched \cup edited)
               PROVE  /\ content[n] = IF Selected(n) THEN store[n] ELSE None
                      /\ n \notin cut => index[n] = IF Selected(n) THEN listing[n] ELSE None
    BY DEF TransferRestores
  <2>1. /\ dumping = "written" /\ left = {} /\ ~overwrite
        /\ before.content[n] = None /\ before.index[n] = None
        /\ got = {dump[i] : i \in 1 .. Len(dump)}
    BY DEF TransferInv, SelectInv, HandInv
  <2>2. content[n] = Expected(n) /\ (n \notin cut => index[n] = ExpectedEntry(n))
    BY <2>1, SkippingLoadTookEffect DEF TransferInv
  <2>3. EntriesOf(n) # {} <=> Selected(n)
    <3>1. Selected(n) <=> \E e \in got : e.name = n
      BY <2>1 DEF TransferInv, SelectInv
    <3> QED
      BY <2>1, <3>1 DEF EntriesOf
  <2>4. CASE ~Selected(n)
    BY <2>1, <2>2, <2>3, <2>4 DEF Expected, ExpectedEntry, Loads
  <2>5. CASE Selected(n)
    <3> PICK k \in EntriesOf(n) : k = Min(EntriesOf(n))
      BY <2>3, <2>5, EntryPositions DEF TransferInv
    <3>1. dump[k] \in got /\ dump[k].name = n /\ k \in 1 .. Len(dump)
      BY <2>1 DEF EntriesOf
    <3>2. dump[k].val = store[n] /\ dump[k].tags = listing[n]
      BY <2>5, <3>1 DEF TransferInv, SelectInv, Selected, TagsIn
    <3>3. Expected(n) = dump[k].val
      BY <2>1 DEF Expected, Loads
    <3>4. ExpectedEntry(n) = dump[k].tags
      <4>1. CASE dump[k].tags = {}
        <5>1. TaggingsOf(n) \cap {k} = {} /\ TagsIn(before.index, n) = {}
          BY <2>1, <4>1 DEF TaggingsOf, TagsIn
        <5> QED
          BY <2>1, <4>1, <5>1 DEF ExpectedEntry, Loads
      <4>2. CASE dump[k].tags # {}
        <5>1. TaggingsOf(n) \cap {k} = {k}
          BY <4>2 DEF TaggingsOf
        <5>2. Max({k}) = k
          BY <3>1, MaxOfOne
        <5> QED
          BY <2>1, <4>2, <5>1, <5>2 DEF ExpectedEntry, Loads
      <4> QED
        BY <4>1, <4>2
    <3> QED
      BY <2>2, <2>5, <3>2, <3>3, <3>4
  <2> QED
    BY <2>4, <2>5
<1> QED
  BY <1>1, TransferInvariance, PTL

=============================================================================
