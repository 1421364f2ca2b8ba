---------------------------- MODULE SecretIndex ----------------------------
(* What a vault promises its users: secrets with contents, and an index that *)
(* lists them with their tags.  A command is one atomic change of both,      *)
(* changes come one after the other, and each is saved before the next one.  *)
(* A command that is cut short may lapse: its content stays and the index    *)
(* stays as it was saved.                                                    *)
EXTENDS FiniteSets

CONSTANTS Names, Values, Tags, None

\* None is no value and no set of tags.
IndexAssumption == None \notin Values /\ \A ts \in SUBSET Tags : ts # None

VARIABLES content,  \* each name's value, or None
          index,    \* each name's tags, or None when it is not listed
          saved,    \* the index as last saved
          lapsed    \* some command's content and index came apart

vars == <<content, index, saved, lapsed>>

Listing(ix, c) == \A n \in Names : ix[n] = None <=> c[n] = None

Tagged(n) == IF index[n] = None THEN {} ELSE index[n]

Init ==
    /\ content = [n \in Names |-> None]
    /\ index = [n \in Names |-> None]
    /\ saved = index
    /\ lapsed = FALSE

\* A command changes content and index at once, when no change is unsaved.
Change(newContent, newIndex) ==
    /\ saved = index
    /\ content' = newContent
    /\ index' = newIndex
    /\ UNCHANGED <<saved, lapsed>>

Put(n) ==
    \E v \in Values :
        Change([content EXCEPT ![n] = v], [index EXCEPT ![n] = Tagged(n)])

Remove(n) ==
    /\ content[n] # None
    /\ Change([content EXCEPT ![n] = None], [index EXCEPT ![n] = None])

Move(n, m) ==
    /\ content[n] # None
    /\ Change([content EXCEPT ![n] = None, ![m] = content[n]],
              [index EXCEPT ![n] = None, ![m] = Tagged(n)])

SetTags(n) ==
    /\ content[n] # None
    /\ \E ts \in SUBSET Tags : Change(content, [index EXCEPT ![n] = ts])

\* Entries whose secret is gone are dropped; orphans stay unlisted.
Reindex ==
    Change(content, [n \in Names |-> IF content[n] = None THEN None ELSE index[n]])

Save == saved' = index /\ UNCHANGED <<content, index, lapsed>>

Lapse ==
    /\ index' = saved
    /\ lapsed' \in {lapsed, TRUE}
    /\ lapsed' \/ Listing(saved, content)
    /\ UNCHANGED <<content, saved>>

Next ==
    \/ \E n \in Names : Put(n) \/ Remove(n) \/ SetTags(n)
    \/ \E n, m \in Names : Move(n, m)
    \/ Reindex \/ Save \/ Lapse

Spec == Init /\ [][Next]_vars

-----------------------------------------------------------------------------
(* Properties *)

\* The index lists exactly the stored secrets, unless a command lapsed: no
\* sequence of insert, rm, mv, tag and reindex brings the two apart.
IndexIsExact == ~lapsed => Listing(index, content)

=============================================================================
