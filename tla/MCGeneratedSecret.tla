------------------------- MODULE MCGeneratedSecret -------------------------
(* Plaintexts of up to four bytes with buckets of two and three, so that both  *)
(* and the rounding beyond them are met, full and one short; passwords of up   *)
(* to three characters from classes of one or two.                             *)
EXTENDS GeneratedSecret, TLC

SmallBytes == {"00", "80", "a", "l", "A", "2", "0"}

\* Zeros, padding markers and one other byte in every order.
SmallPlaintexts == UNION {[1 .. n -> {"00", "80", "a"}] : n \in 0 .. 4}

\* Lowercase, uppercase and digits.
SmallClasses == {{"a", "l"}, {"A"}, {"2", "0"}}

SmallBuckets == <<2, 3>>

KeySymmetry == Permutations(MasterKeys)

=============================================================================
