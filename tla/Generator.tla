----------------------------- MODULE Generator -----------------------------
(* generate_password: one character of each enabled class, the rest from all *)
(* of them, shuffled.  Every outcome of the random choices is a behaviour.   *)
EXTENDS Integers, Sequences, FiniteSets

CONSTANTS Classes,    \* the character classes: sets of characters
          Ambiguous,  \* AMBIGUOUS_CHARS
          Lengths     \* bound: the lengths users ask for

ASSUME GeneratorAssumption ==
    /\ Lengths \subseteq Int
    /\ IsFiniteSet(Classes) /\ {} \notin Classes
    /\ \A x, y \in Classes : x = y \/ x \cap y = {}

VARIABLES
    policy,   \* length, enabled classes, exclude_ambiguous
    step,     \* how far generate_password has got
    unpicked, \* pools whose guaranteed character is still to come
    chars     \* the characters chosen so far; at the end, the password

generatorVars == <<policy, step, unpicked, chars>>

Policy == [length : Lengths, classes : SUBSET Classes, exclude : BOOLEAN]

\* A class as the policy leaves it.
Pool(p, class) == IF p.exclude THEN class \ Ambiguous ELSE class

\* _pool_for: a class that is left empty is dropped.
PoolsFor(p) == {Pool(p, class) : class \in p.classes} \ {{}}

GeneratorInit ==
    /\ policy \in Policy
    /\ step = "check" /\ unpicked = {} /\ chars = <<>>

\* Mutant: the length may be short of the classes.
AcceptedShort(p) == p.length >= 1 /\ PoolsFor(p) # {}

Accepted(p) == /\ p.length >= 1 /\ PoolsFor(p) # {}
               /\ p.length >= Cardinality(PoolsFor(p))

CheckPolicy ==
    /\ step = "check"
    /\ IF Accepted(policy) THEN step' = "pick" /\ unpicked' = PoolsFor(policy)
                           ELSE step' = "refused" /\ UNCHANGED unpicked
    /\ UNCHANGED <<policy, chars>>

\* One character of each class...
PickGuaranteed ==
    /\ step = "pick" /\ unpicked # {}
    /\ LET pool == CHOOSE pool \in unpicked : TRUE IN
          /\ \E c \in pool : chars' = Append(chars, c)
          /\ unpicked' = unpicked \ {pool}
    /\ UNCHANGED <<policy, step>>

\* ...then the remainder from the full pool...
Fill ==
    /\ step = "pick" /\ unpicked = {}
    /\ Len(chars) < policy.length
    /\ \E c \in UNION PoolsFor(policy) : chars' = Append(chars, c)
    /\ UNCHANGED <<policy, step, unpicked>>

\* ...and any order of them.
Shuffle ==
    /\ step = "pick" /\ unpicked = {}
    /\ Len(chars) >= policy.length
    /\ \E order \in {f \in [1 .. Len(chars) -> 1 .. Len(chars)] :
                       \A i, j \in 1 .. Len(chars) : f[i] = f[j] => i = j} :
          chars' = [i \in 1 .. Len(chars) |-> chars[order[i]]]
    /\ step' = "done"
    /\ UNCHANGED <<policy, unpicked>>

GeneratorNext == CheckPolicy \/ PickGuaranteed \/ Fill \/ Shuffle

-----------------------------------------------------------------------------

\* What a password promises: its length, a character of every enabled class that
\* has one left, and none but of those classes (generator.py:5-8).
Meets(password, p) ==
    LET Usable(class) == {c \in class : ~(p.exclude /\ c \in Ambiguous)}
        Used == {password[i] : i \in 1 .. Len(password)}
    IN  /\ Len(password) = p.length
        /\ \A c \in Used : \E class \in p.classes : c \in Usable(class)
        /\ \A class \in p.classes : Usable(class) = {} \/ Used \cap Usable(class) # {}

\* A finished run has a password that meets its policy, and a policy with a
\* positive length is refused only when no password whatever meets it.
PolicyIsHonoured ==
    /\ step = "done" => Meets(chars, policy)
    /\ step = "refused" /\ policy.length > 0 =>
          \A password \in [1 .. policy.length -> UNION Classes] :
             ~Meets(password, policy)

=============================================================================
