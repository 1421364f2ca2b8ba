---------------------------- MODULE SecretProofs ----------------------------
(* Padding loses nothing and shows no more than a bucket, a damaged file     *)
(* shows nothing it did not hold, and a password meets its policy: for       *)
(* plaintexts of every length, every list of buckets, any number of rewraps  *)
(* and damages, and any classes of characters.                               *)
EXTENDS GeneratedSecret, FiniteSetTheorems, WellFoundedInduction, SequenceTheorems, TLAPS

-----------------------------------------------------------------------------
(* Buckets *)

\* A non-empty set of naturals has a smallest member.
LEMMA SmallestMember ==
    ASSUME NEW T \in SUBSET Nat, T # {}
    PROVE  \E x \in T : \A y \in T : x <= y
<1>1. PICK x \in T : \A y \in T : <<y, x>> \notin OpToRel(<, Nat)
  BY NatLessThanWellFounded, WFMin
<1>2. \A y \in T : ~(y < x)
  BY <1>1 DEF OpToRel
<1> QED
  BY <1>2

\* The largest bucket is a size.
LEMMA LargestType == Largest \in Nat \ {0}
BY BlobAssumption DEF Largest

\* Rounding up to a multiple.
LEMMA RoundedUp ==
    ASSUME NEW n \in Nat, NEW m \in Nat \ {0}
    PROVE  LET r == ((n + m - 1) \div m) * m
           IN  /\ r \in Nat /\ r >= n /\ r < n + m /\ r % m = 0
<1> DEFINE q == (n + m - 1) \div m
<1> DEFINE e == (n + m - 1) % m
<1>1. n + m - 1 \in Nat
  OBVIOUS
<1>2. q \in Nat /\ e \in 0 .. m - 1
  BY <1>1, SMT
<1>3. n + m - 1 = (m * q) + e
  BY <1>1, SMT
<1> HIDE DEF q, e
<1>4. m * q \in Nat /\ m * q = q * m
  BY <1>2
<1>5. (q * m) % m = 0
  BY <1>2, SMT
<1> QED
  BY <1>2, <1>3, <1>4, <1>5 DEF q

\* Less than a multiple apart, only one of two numbers can be a multiple.
LEMMA OneMultiple ==
    ASSUME NEW m \in Nat \ {0}, NEW r \in Nat, NEW x \in Nat,
           r % m = 0, x < r, r < x + m
    PROVE  x % m # 0
<1> SUFFICES ASSUME x % m = 0 PROVE FALSE
  OBVIOUS
<1> DEFINE a == x \div m
           k == r \div m
<1>1. a \in Nat /\ k \in Nat
  BY SMT
<1>2. x = m * a /\ r = m * k
  BY SMT
<1> HIDE DEF a, k
<1>3. a < k
  <2> SUFFICES ASSUME k <= a PROVE FALSE
    BY <1>1
  <2>1. m * k <= m * a
    BY <1>1, SMT
  <2> QED
    BY <1>1, <1>2, <2>1
<1>4. m * (a + 1) <= m * k
  BY <1>1, <1>3, SMT
<1>5. m * (a + 1) = (m * a) + m
  BY <1>1, SMT
<1> QED
  BY <1>1, <1>2, <1>4, <1>5

\* A plaintext gets the smallest admissible size that has room for it and for
\* the byte 0x80.
LEMMA SmallestBucket ==
    ASSUME NEW n \in Nat
    PROVE  /\ BucketFor(n) \in Nat /\ n < BucketFor(n)
           /\ Admissible(BucketFor(n))
           /\ \A m \in n + 1 .. BucketFor(n) - 1 : ~Admissible(m)
<1> DEFINE fits == {i \in 1 .. Len(Buckets) : n + 1 <= Buckets[i]}
           first == CHOOSE i \in fits : \A j \in fits : i <= j
<1>1. /\ Len(Buckets) \in Nat \ {0}
      /\ \A i \in 1 .. Len(Buckets) : Buckets[i] \in Nat \ {0} /\ Buckets[i] <= Largest
  BY BlobAssumption DEF Largest
<1>2. CASE fits # {}
  <2>1. \E i \in fits : \A j \in fits : i <= j
    BY <1>2, SmallestMember, fits \subseteq Nat
  <2>2. first \in fits /\ \A j \in fits : first <= j
    BY <2>1
  <2> HIDE DEF first
  <2>3. BucketFor(n) = Buckets[first]
    BY <1>2 DEF BucketFor, first
  <2>4. Buckets[first] \in Nat /\ n < Buckets[first] /\ Buckets[first] <= Largest
    BY <1>1, <2>2
  <2>5. ASSUME NEW m \in n + 1 .. Buckets[first] - 1
        PROVE  ~Admissible(m)
    <3>1. ASSUME NEW i \in 1 .. Len(Buckets), m = Buckets[i] PROVE FALSE
      <4>1. i \in fits /\ first <= i
        BY <1>1, <2>2, <3>1
      <4>2. Buckets[first] <= Buckets[i]
        BY <1>1, <2>2, <4>1, BlobAssumption
      <4> QED
        BY <2>4, <3>1, <4>2
    <3>2. m % Largest # 0
      BY <2>4, <2>5, LargestType
    <3> QED
      BY <3>1, <3>2 DEF Admissible
  <2> QED
    BY <2>2, <2>3, <2>4, <2>5 DEF Admissible
<1>3. CASE fits = {}
  <2> DEFINE r == ((n + 1 + Largest - 1) \div Largest) * Largest
  <2>1. BucketFor(n) = r
    BY <1>3 DEF BucketFor
  <2>2. /\ r \in Nat /\ r >= n + 1 /\ r < n + 1 + Largest
        /\ r % Largest = 0
    <3>1. n + 1 \in Nat
      OBVIOUS
    <3> QED
      BY <3>1, RoundedUp, LargestType, Zenon
  <2> HIDE DEF r
  <2>3. \A i \in 1 .. Len(Buckets) : Buckets[i] < n + 1
    BY <1>1, <1>3
  <2>4. ASSUME NEW m \in n + 1 .. r - 1
        PROVE  ~Admissible(m)
    <3>1. m % Largest # 0
      <4>1. m \in Nat /\ m < r /\ r < m + Largest
        BY <2>2, <2>4, LargestType
      <4> QED
        BY <2>2, <4>1, LargestType, OneMultiple, Zenon
    <3> QED
      BY <1>1, <2>3, <2>4, <3>1 DEF Admissible
  <2> QED
    BY <2>1, <2>2, <2>4 DEF Admissible
<1> QED
  BY <1>2, <1>3

-----------------------------------------------------------------------------
(* Padding *)

\* Padding gives the plaintext, the byte 0x80, and zeros to fill the bucket.
LEMMA PadIsSeq ==
    ASSUME NEW p \in Seq(Bytes)
    PROVE  /\ Pad(p) \in Seq(Bytes)
           /\ Len(Pad(p)) = BucketFor(Len(p))
           /\ \A i \in 1 .. BucketFor(Len(p)) :
                 Pad(p)[i] = IF i <= Len(p) THEN p[i]
                             ELSE IF i = Len(p) + 1 THEN "80" ELSE "00"
<1> DEFINE b == BucketFor(Len(p))
<1>1. b \in Nat /\ Len(p) \in Nat /\ p \in [1 .. Len(p) -> Bytes]
  BY SmallestBucket, LenProperties
<1> HIDE DEF b
<1>2. \A i \in 1 .. b : (IF i <= Len(p) THEN p[i] ELSE IF i = Len(p) + 1 THEN "80" ELSE "00")
                         \in Bytes
  BY <1>1, BlobAssumption
<1>3. Pad(p) \in [1 .. b -> Bytes]
  BY <1>2 DEF Pad, b
<1>4. Pad(p) \in Seq(Bytes)
  BY <1>1, <1>3, SeqDef
<1>5. Len(Pad(p)) = b
  BY <1>1, <1>3, <1>4, LenProperties
<1> QED
  BY <1>4, <1>5 DEF Pad, b

\* What was padded comes back, whatever zeros and markers it ends in.
THEOREM UnpadUndoesPad ==
    ASSUME NEW p \in Seq(Bytes)
    PROVE  Unpad(Pad(p)) = p
<1> DEFINE s == Pad(p)
           others == {0} \cup {i \in 1 .. Len(s) : s[i] # "00"}
           end == CHOOSE i \in others : \A j \in others : j <= i
<1>1. /\ Len(p) \in Nat /\ BucketFor(Len(p)) \in Nat /\ Len(p) < BucketFor(Len(p))
      /\ p \in [1 .. Len(p) -> Bytes]
  BY SmallestBucket, LenProperties
<1>2. /\ s \in Seq(Bytes) /\ Len(s) = BucketFor(Len(p))
      /\ \A i \in 1 .. Len(s) : s[i] = IF i <= Len(p) THEN p[i]
                                       ELSE IF i = Len(p) + 1 THEN "80" ELSE "00"
  BY PadIsSeq
<1> HIDE DEF s
<1>3. "80" # "00"
  OBVIOUS
<1>4. Len(p) + 1 \in others /\ \A j \in others : j <= Len(p) + 1
  BY <1>1, <1>2, <1>3
<1>5. end \in others /\ \A j \in others : j <= end
  BY <1>4
<1>6. end = Len(p) + 1
  BY <1>1, <1>2, <1>4, <1>5
<1>7. Unpad(s) = SubSeq(s, 1, Len(p))
  <2>1. s[end] = "80" /\ end > 0 /\ end - 1 = Len(p)
    BY <1>1, <1>2, <1>6
  <2> QED
    BY <2>1 DEF Unpad
<1>8. SubSeq(s, 1, Len(p)) = p
  <2>1. /\ SubSeq(s, 1, Len(p)) \in Seq(Bytes)
        /\ Len(SubSeq(s, 1, Len(p))) = Len(p)
        /\ \A i \in 1 .. Len(p) : SubSeq(s, 1, Len(p))[i] = s[i]
    <3>1. \A i \in 1 .. Len(p) : s[i] \in Bytes
      BY <1>1, <1>2, ElementOfSeq
    <3> QED
      BY <1>1, <3>1, SubSeqProperties, SMT
  <2> QED
    BY <1>1, <1>2, <2>1, SeqEqual
<1> QED
  BY <1>7, <1>8 DEF s

-----------------------------------------------------------------------------
(* The layout *)

\* The cells a field of that kind can have.
Shape(kind, of) == {[kind |-> kind, of |-> of, at |-> i] : i \in Nat}

\* A field is as many of its cells as its length says.
LEMMA FieldIsSeq ==
    ASSUME NEW kind, NEW of, NEW len \in Nat
    PROVE  /\ Field(kind, of, len) \in Seq(Shape(kind, of))
           /\ Len(Field(kind, of, len)) = len
           /\ \A i \in 1 .. len : Field(kind, of, len)[i] = [kind |-> kind, of |-> of, at |-> i]
<1>1. Field(kind, of, len) \in [1 .. len -> Shape(kind, of)]
  BY DEF Field, Shape
<1>2. Field(kind, of, len) \in Seq(Shape(kind, of))
  BY <1>1, SeqDef
<1>3. Len(Field(kind, of, len)) = len
  BY <1>1, <1>2, LenProperties
<1> QED
  BY <1>2, <1>3 DEF Field

\* All of a sequence.
LEMMA WholeSubSeq ==
    ASSUME NEW S, NEW s \in Seq(S)
    PROVE  SubSeq(s, 1, Len(s)) = s
<1>1. /\ Len(s) \in Nat /\ \A i \in 1 .. Len(s) : s[i] \in S
  BY LenProperties, ElementOfSeq
<1>2. /\ SubSeq(s, 1, Len(s)) \in Seq(S) /\ Len(SubSeq(s, 1, Len(s))) = Len(s)
      /\ \A i \in 1 .. Len(s) : SubSeq(s, 1, Len(s))[i] = s[i]
  BY <1>1, SubSeqProperties, SMT
<1> QED
  BY <1>2, SeqEqual

\* What is before, in and after a part of a sequence.
LEMMA PartsOfConcat ==
    ASSUME NEW S, NEW s \in Seq(S), NEW t \in Seq(S)
    PROVE  /\ \A i \in 1 .. Len(s) + 1, j \in 0 .. Len(s) :
                 SubSeq(s \o t, i, j) = SubSeq(s, i, j)
           /\ \A i \in 1 .. Len(t) + 1, j \in 0 .. Len(t) :
                 SubSeq(s \o t, Len(s) + i, Len(s) + j) = SubSeq(t, i, j)
           /\ SubSeq(s \o t, Len(s) + 1, Len(s) + Len(t)) = t
<1> DEFINE u == s \o t
<1>1. /\ u \in Seq(S) /\ Len(u) = Len(s) + Len(t)
      /\ Len(s) \in Nat /\ Len(t) \in Nat
      /\ \A i \in 1 .. Len(s) : u[i] = s[i] /\ s[i] \in S
      /\ \A i \in 1 .. Len(t) : u[Len(s) + i] = t[i] /\ t[i] \in S
  BY ConcatProperties, LenProperties, ElementOfSeq
<1> HIDE DEF u
<1>2. ASSUME NEW i \in 1 .. Len(s) + 1, NEW j \in 0 .. Len(s)
      PROVE  SubSeq(u, i, j) = SubSeq(s, i, j)
  <2>1. /\ \A x \in i .. j : u[x] \in S /\ s[x] \in S /\ u[x] = s[x]
        /\ i \in Int /\ j \in Int
    <3>1. Len(s) \in Nat /\ i \in Nat \ {0} /\ j \in Nat /\ j <= Len(s)
      BY <1>1
    <3>2. \A x \in i .. j : x \in 1 .. Len(s)
      BY <3>1
    <3> QED
      BY <1>1, <3>1, <3>2
  <2>2. /\ SubSeq(u, i, j) \in Seq(S) /\ SubSeq(s, i, j) \in Seq(S)
        /\ Len(SubSeq(u, i, j)) = IF i <= j THEN j - i + 1 ELSE 0
        /\ Len(SubSeq(s, i, j)) = IF i <= j THEN j - i + 1 ELSE 0
        /\ \A x \in 1 .. j - i + 1 : SubSeq(u, i, j)[x] = u[i + x - 1]
        /\ \A x \in 1 .. j - i + 1 : SubSeq(s, i, j)[x] = s[i + x - 1]
    BY <2>1, SubSeqProperties
  <2>3. \A x \in 1 .. Len(SubSeq(u, i, j)) : SubSeq(u, i, j)[x] = SubSeq(s, i, j)[x]
    BY <2>1, <2>2
  <2> QED
    BY <2>2, <2>3, SeqEqual
<1>3. ASSUME NEW i \in 1 .. Len(t) + 1, NEW j \in 0 .. Len(t)
      PROVE  SubSeq(u, Len(s) + i, Len(s) + j) = SubSeq(t, i, j)
  <2> DEFINE a == Len(s) + i
             b == Len(s) + j
  <2>1. /\ \A x \in a .. b : u[x] \in S
        /\ \A x \in i .. j : t[x] \in S
        /\ i \in Int /\ j \in Int /\ a \in Int /\ b \in Int /\ b - a = j - i
        /\ a <= b <=> i <= j
    <3>1. \A x \in a .. b : x - Len(s) \in 1 .. Len(t) /\ u[Len(s) + (x - Len(s))] = u[x]
      BY <1>1
    <3> QED
      BY <1>1, <3>1
  <2>2. /\ SubSeq(u, a, b) \in Seq(S) /\ SubSeq(t, i, j) \in Seq(S)
        /\ Len(SubSeq(u, a, b)) = IF a <= b THEN b - a + 1 ELSE 0
        /\ Len(SubSeq(t, i, j)) = IF i <= j THEN j - i + 1 ELSE 0
        /\ \A x \in 1 .. b - a + 1 : SubSeq(u, a, b)[x] = u[a + x - 1]
        /\ \A x \in 1 .. j - i + 1 : SubSeq(t, i, j)[x] = t[i + x - 1]
    <3> HIDE DEF a, b
    <3> QED
      BY <2>1, SubSeqProperties
  <2>3. \A x \in 1 .. j - i + 1 : u[a + x - 1] = t[i + x - 1]
    <3>1. \A x \in 1 .. j - i + 1 : /\ i + x - 1 \in 1 .. Len(t)
                                    /\ Len(s) + (i + x - 1) = a + x - 1
      BY <1>1
    <3> QED
      BY <1>1, <3>1
  <2>4. /\ Len(SubSeq(u, a, b)) = Len(SubSeq(t, i, j))
        /\ \A x \in 1 .. Len(SubSeq(u, a, b)) : SubSeq(u, a, b)[x] = SubSeq(t, i, j)[x]
    <3> HIDE DEF a, b
    <3>1. Len(SubSeq(u, a, b)) = Len(SubSeq(t, i, j))
      BY <2>1, <2>2
    <3>2. \A x \in 1 .. Len(SubSeq(u, a, b)) : x \in 1 .. j - i + 1 /\ x \in 1 .. b - a + 1
      BY <2>1, <2>2
    <3> QED
      BY <2>2, <2>3, <3>1, <3>2
  <2> QED
    BY <2>2, <2>4, SeqEqual
<1>4. SubSeq(u, Len(s) + 1, Len(s) + Len(t)) = t
  <2>1. 1 \in 1 .. Len(t) + 1 /\ Len(t) \in 0 .. Len(t)
    BY <1>1
  <2>2. SubSeq(u, Len(s) + 1, Len(s) + Len(t)) = SubSeq(t, 1, Len(t))
    BY <1>3, <2>1
  <2> QED
    BY <2>2, WholeSubSeq
<1> QED
  BY <1>2, <1>3, <1>4 DEF u

\* Concatenation under a name of its own, for the provers to match.
Cat(r, s) == r \o s

\* How the parts of a file are grouped makes no difference.
LEMMA CatAssociative ==
    ASSUME NEW S, NEW r \in Seq(S), NEW c \in Seq(S), NEW z \in Seq(S)
    PROVE  Cat(Cat(r, c), z) = Cat(r, Cat(c, z))
BY ConcatAssociative DEF Cat

\* Concatenation stays within the sequences of a set.
LEMMA CatIsSeq ==
    ASSUME NEW S, NEW r \in Seq(S), NEW c \in Seq(S)
    PROVE  Cat(r, c) \in Seq(S)
BY ConcatProperties DEF Cat

\* A sequence put together from six: where each is, and what is after the third.
Placed(S, a, n, w, c, z, x) ==
    LET q2 == a \o n
        q3 == q2 \o w
        q4 == q3 \o c
        q5 == q4 \o z
        b  == q5 \o x
    IN
    /\ b \in Seq(S)
    /\ Len(q2) = Len(a) + Len(n) /\ Len(q3) = Len(q2) + Len(w)
    /\ Len(q4) = Len(q3) + Len(c) /\ Len(q5) = Len(q4) + Len(z)
    /\ Len(b) = Len(q5) + Len(x)
    /\ SubSeq(b, 1, Len(a)) = a
    /\ SubSeq(b, Len(a) + 1, Len(q2)) = n
    /\ SubSeq(b, Len(q2) + 1, Len(q3)) = w
    /\ SubSeq(b, Len(q3) + 1, Len(q4)) = c
    /\ \A i \in 1 .. Len(z) : b[Len(q4) + i] = z[i]
    /\ SubSeq(b, Len(q5) + 1, Len(b)) = x
    /\ b = q3 \o ((c \o z) \o x)
    /\ SubSeq(b, Len(q3) + 1, Len(b)) = (c \o z) \o x

\* Six sequences one after the other are found again at the sums of their lengths.
LEMMA SixParts ==
    ASSUME NEW S, NEW a \in Seq(S), NEW n \in Seq(S), NEW w \in Seq(S),
           NEW c \in Seq(S), NEW z \in Seq(S), NEW x \in Seq(S)
    PROVE  Placed(S, a, n, w, c, z, x)
<1> DEFINE q2 == a \o n
           q3 == q2 \o w
           q4 == q3 \o c
           q5 == q4 \o z
           b  == q5 \o x
<1>0. q2 = a \o n /\ q3 = q2 \o w /\ q4 = q3 \o c /\ q5 = q4 \o z /\ b = q5 \o x
  OBVIOUS
<1> HIDE DEF q2, q3, q4, q5, b
<1>1. /\ q2 \in Seq(S) /\ q3 \in Seq(S) /\ q4 \in Seq(S) /\ q5 \in Seq(S) /\ b \in Seq(S)
      /\ Len(q2) = Len(a) + Len(n) /\ Len(q3) = Len(q2) + Len(w)
      /\ Len(q4) = Len(q3) + Len(c) /\ Len(q5) = Len(q4) + Len(z)
      /\ Len(b) = Len(q5) + Len(x)
  BY <1>0, ConcatProperties
<1>2. /\ Len(a) \in Nat /\ Len(n) \in Nat /\ Len(w) \in Nat /\ Len(c) \in Nat
      /\ Len(z) \in Nat /\ Len(x) \in Nat
      /\ Len(q2) \in Nat /\ Len(q3) \in Nat /\ Len(q4) \in Nat /\ Len(q5) \in Nat
  BY <1>1, LenProperties
<1>3. ASSUME NEW s \in Seq(S), NEW t \in Seq(S)
      PROVE  /\ \A i \in 1 .. Len(s) + 1, j \in 0 .. Len(s) :
                   SubSeq(s \o t, i, j) = SubSeq(s, i, j)
             /\ SubSeq(s \o t, Len(s) + 1, Len(s) + Len(t)) = t
             /\ SubSeq(s, 1, Len(s)) = s
  BY PartsOfConcat, WholeSubSeq
<1>4. \A i \in 1 .. Len(q5) + 1, j \in 0 .. Len(q5) : SubSeq(b, i, j) = SubSeq(q5, i, j)
  BY <1>0, <1>1, <1>3
<1>5. ASSUME NEW i \in 1 .. Len(q4) + 1, NEW j \in 0 .. Len(q4)
      PROVE  SubSeq(b, i, j) = SubSeq(q4, i, j)
  <2>1. i \in 1 .. Len(q5) + 1 /\ j \in 0 .. Len(q5)
    BY <1>1, <1>2
  <2>2. SubSeq(q5, i, j) = SubSeq(q4, i, j)
    BY <1>0, <1>1, <1>3
  <2> QED
    BY <1>4, <2>1, <2>2, Zenon
<1>6. ASSUME NEW i \in 1 .. Len(q3) + 1, NEW j \in 0 .. Len(q3)
      PROVE  SubSeq(b, i, j) = SubSeq(q3, i, j)
  <2>1. i \in 1 .. Len(q4) + 1 /\ j \in 0 .. Len(q4)
    BY <1>1, <1>2
  <2>2. SubSeq(q4, i, j) = SubSeq(q3, i, j)
    BY <1>0, <1>1, <1>3
  <2> QED
    BY <1>5, <2>1, <2>2, Zenon
<1>7. ASSUME NEW i \in 1 .. Len(q2) + 1, NEW j \in 0 .. Len(q2)
      PROVE  SubSeq(b, i, j) = SubSeq(q2, i, j)
  <2>1. i \in 1 .. Len(q3) + 1 /\ j \in 0 .. Len(q3)
    BY <1>1, <1>2
  <2>2. SubSeq(q3, i, j) = SubSeq(q2, i, j)
    BY <1>0, <1>1, <1>3
  <2> QED
    BY <1>6, <2>1, <2>2, Zenon
<1>8. SubSeq(b, 1, Len(a)) = a
  <2>1. SubSeq(b, 1, Len(a)) = SubSeq(q2, 1, Len(a))
    <3>1. 1 \in 1 .. Len(q2) + 1 /\ Len(a) \in 0 .. Len(q2)
      BY <1>1, <1>2
    <3> QED
      BY <1>7, <3>1, Zenon
  <2>2. SubSeq(q2, 1, Len(a)) = SubSeq(a, 1, Len(a))
    <3>1. 1 \in 1 .. Len(a) + 1 /\ Len(a) \in 0 .. Len(a)
      BY <1>2
    <3> QED
      BY <1>0, <1>3, <3>1
  <2> QED
    BY <1>3, <2>1, <2>2
<1>9. SubSeq(b, Len(a) + 1, Len(q2)) = n
  <2>1. SubSeq(b, Len(a) + 1, Len(q2)) = SubSeq(q2, Len(a) + 1, Len(q2))
    <3>1. Len(a) + 1 \in 1 .. Len(q2) + 1 /\ Len(q2) \in 0 .. Len(q2)
      BY <1>1, <1>2
    <3> QED
      BY <1>7, <3>1, Zenon
  <2>2. SubSeq(q2, Len(a) + 1, Len(a) + Len(n)) = n
    BY <1>0, <1>3
  <2> QED
    BY <1>1, <2>1, <2>2
<1>10. SubSeq(b, Len(q2) + 1, Len(q3)) = w
  <2>1. SubSeq(b, Len(q2) + 1, Len(q3)) = SubSeq(q3, Len(q2) + 1, Len(q3))
    <3>1. Len(q2) + 1 \in 1 .. Len(q3) + 1 /\ Len(q3) \in 0 .. Len(q3)
      BY <1>1, <1>2
    <3> QED
      BY <1>6, <3>1, Zenon
  <2>2. SubSeq(q3, Len(q2) + 1, Len(q2) + Len(w)) = w
    BY <1>0, <1>1, <1>3
  <2> QED
    BY <1>1, <2>1, <2>2
<1>11. SubSeq(b, Len(q3) + 1, Len(q4)) = c
  <2>1. SubSeq(b, Len(q3) + 1, Len(q4)) = SubSeq(q4, Len(q3) + 1, Len(q4))
    <3>1. Len(q3) + 1 \in 1 .. Len(q4) + 1 /\ Len(q4) \in 0 .. Len(q4)
      BY <1>1, <1>2
    <3> QED
      BY <1>5, <3>1, Zenon
  <2>2. SubSeq(q4, Len(q3) + 1, Len(q3) + Len(c)) = c
    BY <1>0, <1>1, <1>3
  <2> QED
    BY <1>1, <2>1, <2>2
<1>12. ASSUME NEW i \in 1 .. Len(z) PROVE b[Len(q4) + i] = z[i]
  <2>1. q5[Len(q4) + i] = z[i]
    <3>1. /\ Len(q4) + i \in 1 .. Len(q4) + Len(z) /\ Len(q4) + i > Len(q4)
          /\ (Len(q4) + i) - Len(q4) = i
      BY <1>2
    <3>2. q5[Len(q4) + i] = IF Len(q4) + i <= Len(q4) THEN q4[Len(q4) + i]
                            ELSE z[(Len(q4) + i) - Len(q4)]
      BY <1>0, <1>1, <3>1, ConcatProperties
    <3> QED
      BY <1>2, <3>1, <3>2
  <2>2. b[Len(q4) + i] = q5[Len(q4) + i]
    <3>1. Len(q4) + i \in 1 .. Len(q5) + Len(x) /\ Len(q4) + i <= Len(q5)
      BY <1>1, <1>2
    <3> QED
      BY <1>0, <1>1, <3>1, ConcatProperties
  <2> QED
    BY <2>1, <2>2
<1>13. SubSeq(b, Len(q5) + 1, Len(b)) = x
  BY <1>0, <1>1, <1>3
<1>14. b = q3 \o ((c \o z) \o x)
  <2>1. q3 \in Seq(S) /\ Cat(c, z) \in Seq(S)
    BY <1>1, CatIsSeq
  <2>2. Cat(Cat(q3, c), z) = Cat(q3, Cat(c, z))
    BY <2>1, CatAssociative
  <2>3. Cat(Cat(q3, Cat(c, z)), x) = Cat(q3, Cat(Cat(c, z), x))
    BY <2>1, CatAssociative
  <2>4. b = Cat(Cat(Cat(q3, c), z), x)
    BY <1>0 DEF Cat
  <2>5. b = Cat(q3, Cat(Cat(c, z), x))
    BY <2>2, <2>3, <2>4, Zenon
  <2> QED
    BY <2>5 DEF Cat
<1>15. SubSeq(b, Len(q3) + 1, Len(b)) = (c \o z) \o x
  <2>1. (c \o z) \o x \in Seq(S)
    <3>1. c \o z \in Seq(S)
      BY ConcatProperties
    <3> QED
      BY <3>1, ConcatProperties
  <2>2. Len(b) = Len(q3) + Len((c \o z) \o x)
    BY <1>1, <1>14, <2>1, ConcatProperties
  <2>3. SubSeq(q3 \o ((c \o z) \o x), Len(q3) + 1, Len(q3) + Len((c \o z) \o x)) = (c \o z) \o x
    <3> DEFINE rest == (c \o z) \o x
    <3>1. rest \in Seq(S)
      BY <2>1
    <3> HIDE DEF rest
    <3>2. SubSeq(q3 \o rest, Len(q3) + 1, Len(q3) + Len(rest)) = rest
      BY <1>1, <1>3, <3>1
    <3> QED
      BY <3>2 DEF rest
  <2> QED
    BY <1>14, <2>2, <2>3, Zenon
<1> QED
  BY <1>1, <1>8, <1>9, <1>10, <1>11, <1>12, <1>13, <1>14, <1>15 DEF Placed, q2, q3, q4, q5, b

\* The file of p under the master key k; the draws m, j and c gave the nonce of
\* the wrapped DEK, the DEK, and the nonce of the content.
File(k, m, j, c, p) ==
    Prologue \o Nonce(m) \o Seal(k, Nonce(m), Dek(j))
             \o Nonce(c) \o Size(Len(Pad(p))) \o Seal(Dek(j), Nonce(c), Pad(p))

\* The cells of such a file.
Cells(k, m, j, c, p) ==
    UNION {Shape("magic", <<>>), Shape("version", <<1>>),
           Shape("nonce", <<m>>), Shape("sealed", <<k, Nonce(m), Dek(j)>>),
           Shape("nonce", <<c>>), Shape("size", <<Len(Pad(p))>>),
           Shape("sealed", <<Dek(j), Nonce(c), Pad(p)>>)}

\* Nonces, DEKs and tags have a length.
LEMMA Lengths3 ==
    /\ NonceLen \in Nat \ {0} /\ DekLen \in Nat \ {0} /\ TagLen \in Nat \ {0}
BY BlobAssumption

\* Each field as a sequence of such cells, and its length.
LEMMA FieldsAreSeqs ==
    ASSUME NEW k, NEW m \in Nat, NEW j \in Nat, NEW c \in Nat, NEW p \in Seq(Bytes)
    PROVE  LET S == Cells(k, m, j, c, p) IN
           /\ Prologue \in Seq(S) /\ Len(Prologue) = 2
           /\ Nonce(m) \in Seq(S) /\ Len(Nonce(m)) = NonceLen
           /\ Nonce(c) \in Seq(S) /\ Len(Nonce(c)) = NonceLen
           /\ Len(Dek(j)) = DekLen
           /\ Seal(k, Nonce(m), Dek(j)) \in Seq(S)
           /\ Len(Seal(k, Nonce(m), Dek(j))) = DekLen + TagLen
           /\ Size(Len(Pad(p))) \in Seq(S) /\ Len(Size(Len(Pad(p)))) = 1
           /\ Size(Len(Pad(p)))[1] = [kind |-> "size", of |-> <<Len(Pad(p))>>, at |-> 1]
           /\ Seal(Dek(j), Nonce(c), Pad(p)) \in Seq(S)
           /\ Len(Seal(Dek(j), Nonce(c), Pad(p))) = BucketFor(Len(p)) + TagLen
<1> DEFINE S == Cells(k, m, j, c, p)
           magic == Field("magic", <<>>, 1)
           version == Field("version", <<1>>, 1)
           size == Len(Pad(p))
<1>1. /\ Shape("magic", <<>>) \subseteq S /\ Shape("version", <<1>>) \subseteq S
      /\ Shape("nonce", <<m>>) \subseteq S /\ Shape("nonce", <<c>>) \subseteq S
      /\ Shape("size", <<size>>) \subseteq S
      /\ Shape("sealed", <<k, Nonce(m), Dek(j)>>) \subseteq S
      /\ Shape("sealed", <<Dek(j), Nonce(c), Pad(p)>>) \subseteq S
  BY Zenon DEF Cells
<1>2. size = BucketFor(Len(p)) /\ size \in Nat
  BY PadIsSeq, LenProperties
<1> HIDE DEF S, size
<1>3. ASSUME NEW kind, NEW of, NEW len \in Nat, Shape(kind, of) \subseteq S
      PROVE  Field(kind, of, len) \in Seq(S) /\ Len(Field(kind, of, len)) = len
  BY <1>3, FieldIsSeq, SeqMonotonic
<1>4. Prologue \in Seq(S) /\ Len(Prologue) = 2
  <2>1. magic \in Seq(S) /\ version \in Seq(S) /\ Len(magic) = 1 /\ Len(version) = 1
    BY <1>1, <1>3
  <2> HIDE DEF magic, version
  <2>2. magic \o version \in Seq(S) /\ Len(magic \o version) = 2
    BY <2>1, ConcatProperties
  <2> QED
    BY <2>2 DEF Prologue, magic, version
<1>5. /\ Nonce(m) \in Seq(S) /\ Len(Nonce(m)) = NonceLen
      /\ Nonce(c) \in Seq(S) /\ Len(Nonce(c)) = NonceLen
  BY <1>1, <1>3, Lengths3 DEF Nonce
<1>6. Len(Dek(j)) = DekLen
  BY FieldIsSeq, Lengths3 DEF Dek
<1>7. /\ Seal(k, Nonce(m), Dek(j)) \in Seq(S)
      /\ Len(Seal(k, Nonce(m), Dek(j))) = DekLen + TagLen
  <2>1. Len(Dek(j)) + TagLen = DekLen + TagLen /\ DekLen + TagLen \in Nat
    BY <1>6, Lengths3
  <2> QED
    BY <1>1, <1>3, <2>1 DEF Seal
<1>8. /\ Seal(Dek(j), Nonce(c), Pad(p)) \in Seq(S)
      /\ Len(Seal(Dek(j), Nonce(c), Pad(p))) = size + TagLen
  <2>1. size + TagLen \in Nat
    BY <1>2, Lengths3
  <2> QED
    BY <1>1, <1>3, <2>1 DEF Seal, size
<1>9. /\ Size(size) \in Seq(S) /\ Len(Size(size)) = 1
      /\ Size(size)[1] = [kind |-> "size", of |-> <<size>>, at |-> 1]
  BY <1>1, <1>3, FieldIsSeq DEF Size
<1> QED
  BY <1>2, <1>4, <1>5, <1>6, <1>7, <1>8, <1>9 DEF S, size

\* Where decrypt_secret and the rewrap find each field of a file.
HasParts(b, k, m, j, c, p) ==
    /\ b \in Seq(Cells(k, m, j, c, p))
    /\ Len(b) = HeaderLen + BucketFor(Len(p)) + TagLen
    /\ SubSeq(b, 1, Len(Prologue)) = Prologue
    /\ SubSeq(b, Len(Prologue) + 1, DekNonceEnd) = Nonce(m)
    /\ SubSeq(b, DekNonceEnd + 1, DekEnd) = Seal(k, Nonce(m), Dek(j))
    /\ SubSeq(b, DekEnd + 1, NonceEnd) = Nonce(c)
    /\ b[HeaderLen] = [kind |-> "size", of |-> <<BucketFor(Len(p))>>, at |-> 1]
    /\ SubSeq(b, HeaderLen + 1, Len(b)) = Seal(Dek(j), Nonce(c), Pad(p))
    /\ SubSeq(b, DekEnd + 1, Len(b)) =
          Nonce(c) \o Size(Len(Pad(p))) \o Seal(Dek(j), Nonce(c), Pad(p))
    /\ b = (Prologue \o Nonce(m) \o Seal(k, Nonce(m), Dek(j)))
              \o (Nonce(c) \o Size(Len(Pad(p))) \o Seal(Dek(j), Nonce(c), Pad(p)))

\* encrypt_secret puts every field where decrypt_secret looks for it.
LEMMA FileParts ==
    ASSUME NEW k, NEW m \in Nat, NEW j \in Nat, NEW c \in Nat, NEW p \in Seq(Bytes)
    PROVE  HasParts(File(k, m, j, c, p), k, m, j, c, p)
<1> DEFINE S == Cells(k, m, j, c, p)
           a == Prologue
           n == Nonce(m)
           w == Seal(k, Nonce(m), Dek(j))
           e == Nonce(c)
           z == Size(Len(Pad(p)))
           x == Seal(Dek(j), Nonce(c), Pad(p))
           q2 == a \o n
           q3 == q2 \o w
           q4 == q3 \o e
           q5 == q4 \o z
           b == q5 \o x
           size == BucketFor(Len(p))
<1>1. /\ a \in Seq(S) /\ Len(a) = 2
      /\ n \in Seq(S) /\ Len(n) = NonceLen
      /\ e \in Seq(S) /\ Len(e) = NonceLen
      /\ w \in Seq(S) /\ Len(w) = DekLen + TagLen
      /\ z \in Seq(S) /\ Len(z) = 1
      /\ z[1] = [kind |-> "size", of |-> <<Len(Pad(p))>>, at |-> 1]
      /\ x \in Seq(S) /\ Len(x) = size + TagLen
  <2>1. a \in Seq(S) /\ n \in Seq(S) /\ w \in Seq(S)
    BY FieldsAreSeqs, Zenon
  <2>2. e \in Seq(S) /\ z \in Seq(S) /\ x \in Seq(S)
    BY FieldsAreSeqs, Zenon
  <2>3. Len(a) = 2 /\ Len(n) = NonceLen /\ Len(e) = NonceLen /\ Len(z) = 1
    BY FieldsAreSeqs, Zenon
  <2>4. z[1] = [kind |-> "size", of |-> <<Len(Pad(p))>>, at |-> 1]
    BY FieldsAreSeqs, Zenon
  <2>5. Len(w) = DekLen + TagLen
    BY FieldsAreSeqs, Zenon
  <2>6. Len(x) = size + TagLen
    BY FieldsAreSeqs, Zenon
  <2> QED
    BY <2>1, <2>2, <2>3, <2>4, <2>5, <2>6, Zenon
<1>2. File(k, m, j, c, p) = b
  BY Zenon DEF File
<1>3. size \in Nat /\ Len(Pad(p)) = size
  BY PadIsSeq, LenProperties
<1> HIDE DEF S, a, n, w, e, z, x, size
<1>5. /\ b \in Seq(S)
      /\ Len(q2) = Len(a) + Len(n) /\ Len(q3) = Len(q2) + Len(w)
      /\ Len(q4) = Len(q3) + Len(e) /\ Len(q5) = Len(q4) + Len(z)
      /\ Len(b) = Len(q5) + Len(x)
      /\ SubSeq(b, 1, Len(a)) = a
      /\ SubSeq(b, Len(a) + 1, Len(q2)) = n
      /\ SubSeq(b, Len(q2) + 1, Len(q3)) = w
      /\ SubSeq(b, Len(q3) + 1, Len(q4)) = e
      /\ \A i \in 1 .. Len(z) : b[Len(q4) + i] = z[i]
      /\ SubSeq(b, Len(q5) + 1, Len(b)) = x
      /\ b = q3 \o ((e \o z) \o x)
      /\ SubSeq(b, Len(q3) + 1, Len(b)) = (e \o z) \o x
  <2>1. Placed(S, a, n, w, e, z, x)
    BY <1>1, SixParts, Zenon
  <2> QED
    BY <2>1, Zenon DEF Placed
<1> HIDE DEF q2, q3, q4, q5, b
<1>6. /\ Len(a) = Len(Prologue)
      /\ Len(q2) = DekNonceEnd /\ Len(q3) = DekEnd /\ Len(q4) = NonceEnd
      /\ Len(q5) = HeaderLen /\ Len(q4) + 1 = HeaderLen
      /\ Len(b) = HeaderLen + size + TagLen
  <2>1. NonceLen \in Nat /\ DekLen \in Nat /\ TagLen \in Nat
    BY Lengths3
  <2>2. Len(a) = Len(Prologue)
    BY DEF a
  <2>3. Len(Prologue) = 2
    BY <1>1, <2>2
  <2> QED
    BY <1>1, <1>3, <1>5, <2>1, <2>2, <2>3 DEF DekNonceEnd, DekEnd, NonceEnd, HeaderLen
<1>7. b[HeaderLen] = [kind |-> "size", of |-> <<size>>, at |-> 1]
  <2>1. 1 \in 1 .. Len(z)
    BY <1>1
  <2>2. b[Len(q4) + 1] = z[1]
    BY <1>5, <2>1
  <2> QED
    BY <1>1, <1>3, <1>6, <2>2
<1>8. /\ SubSeq(b, 1, Len(Prologue)) = a
      /\ SubSeq(b, Len(Prologue) + 1, DekNonceEnd) = n
      /\ SubSeq(b, DekNonceEnd + 1, DekEnd) = w
      /\ SubSeq(b, DekEnd + 1, NonceEnd) = e
      /\ SubSeq(b, HeaderLen + 1, Len(b)) = x
      /\ SubSeq(b, DekEnd + 1, Len(b)) = (e \o z) \o x
  BY <1>5, <1>6, Zenon
<1>9. b = (a \o n \o w) \o ((e \o z) \o x)
  BY <1>5 DEF q3, q2
<1> QED
  <2> HIDE DEF q2, q3, q4, q5, b
  <2> QED
    BY <1>2, <1>5, <1>6, <1>7, <1>8, <1>9, Zenon DEF HasParts, S, a, n, w, e, z, x, size

-----------------------------------------------------------------------------
(* What the operations make of a file *)

\* What was sealed opens under its key and nonce, and under no other key.
LEMMA OpenSeal ==
    ASSUME NEW k, NEW nonce, NEW text, Len(text) \in Nat, NEW k2
    PROVE  Open(k2, nonce, Seal(k, nonce, text)) = IF k2 = k THEN text ELSE Failed
<1> DEFINE s == Seal(k, nonce, text)
           of == <<k, nonce, text>>
<1>1. Len(text) + TagLen \in Nat \ {0}
  BY Lengths3
<1>2. /\ s \in Seq(Shape("sealed", of)) /\ Len(s) = Len(text) + TagLen
      /\ s[1] = [kind |-> "sealed", of |-> of, at |-> 1]
  <2> HIDE DEF of
  <2> QED
    BY <1>1, FieldIsSeq DEF Seal, of
<1>3. s # <<>>
  BY <1>1, <1>2
<1>4. s[1].kind = "sealed" /\ s[1].of[1] = k /\ s[1].of[2] = nonce /\ s[1].of[3] = text
  <2> HIDE DEF s
  <2> QED
    BY <1>2
<1> HIDE DEF s, of
<1>5. s = Seal(k, nonce, s[1].of[3])
  BY <1>4 DEF s
<1> QED
  BY <1>3, <1>4, <1>5 DEF Open, s

\* encrypt_secret makes such a file of three draws.
LEMMA EncryptedIsFile ==
    ASSUME NEW p, NEW k, NEW d
    PROVE  EncryptSecret(p, k, d) = File(k, d + 2, d + 1, d + 3, p)
BY DEF EncryptSecret, File

\* What a file shows to a reader with a key.
Opens(b, k, j) == /\ WellFormed(b) /\ LengthAnnounced(b)
                  /\ DekOf(b, k) = Dek(j)
                  /\ \A other : other # k => DekOf(b, other) = Failed

\* Such a file passes the checks, and its DEK opens with its key alone.
LEMMA FileOpens ==
    ASSUME NEW k, NEW m \in Nat, NEW j \in Nat, NEW c \in Nat, NEW p \in Seq(Bytes)
    PROVE  Opens(File(k, m, j, c, p), k, j)
<1> DEFINE b == File(k, m, j, c, p)
<1>1. HasParts(b, k, m, j, c, p)
  BY FileParts, Zenon
<1> HIDE DEF b
<1>2. HeaderLen \in Nat /\ TagLen \in Nat /\ BucketFor(Len(p)) \in Nat
  <2>1. Len(Prologue) \in Nat
    BY FieldsAreSeqs
  <2> QED
    BY <2>1, Lengths3, SmallestBucket, LenProperties DEF HeaderLen, NonceEnd, DekEnd, DekNonceEnd
<1>3. WellFormed(b) /\ LengthAnnounced(b)
  <2>1. /\ Len(b) = HeaderLen + BucketFor(Len(p)) + TagLen
        /\ SubSeq(b, 1, Len(Prologue)) = Prologue
        /\ b[HeaderLen] = [kind |-> "size", of |-> <<BucketFor(Len(p))>>, at |-> 1]
    BY <1>1 DEF HasParts
  <2> QED
    BY <1>2, <2>1 DEF WellFormed, LengthAnnounced
<1>4. Len(Dek(j)) \in Nat
  BY FieldsAreSeqs, Lengths3
<1>5. ASSUME NEW any PROVE DekOf(b, any) = Open(any, Nonce(m), Seal(k, Nonce(m), Dek(j)))
  BY <1>1, Zenon DEF DekOf, HasParts
<1>6. DekOf(b, k) = Dek(j)
  <2>1. Open(k, Nonce(m), Seal(k, Nonce(m), Dek(j))) = Dek(j)
    BY <1>4, OpenSeal, Zenon
  <2> QED
    BY <1>5, <2>1, Zenon
<1>7. ASSUME NEW other, other # k PROVE DekOf(b, other) = Failed
  <2>1. Open(other, Nonce(m), Seal(k, Nonce(m), Dek(j)))
          = IF other = k THEN Dek(j) ELSE Failed
    BY <1>4, OpenSeal
  <2>2. Open(other, Nonce(m), Seal(k, Nonce(m), Dek(j))) = Failed
    BY <1>7, <2>1, Zenon
  <2> QED
    BY <1>5, <2>2, Zenon
<1> QED
  BY <1>3, <1>6, <1>7 DEF b, Opens

\* decrypt_secret of what encrypt_secret wrote, or a rewrap.
LEMMA Decrypted ==
    ASSUME NEW k, NEW m \in Nat, NEW j \in Nat, NEW c \in Nat, NEW p \in Seq(Bytes),
           Dek(j) # Failed
    PROVE  /\ DecryptSecret(File(k, m, j, c, p), k) = p
           /\ \A other : other # k => DecryptSecret(File(k, m, j, c, p), other) = Failed
<1> DEFINE b == File(k, m, j, c, p)
<1>1. Opens(b, k, j)
  BY FileOpens, Zenon
<1>2. HasParts(b, k, m, j, c, p)
  BY FileParts, Zenon
<1> HIDE DEF b
<1>3. Pad(p) \in Seq(Bytes) /\ Len(Pad(p)) \in Nat /\ Pad(p) # Failed
  BY PadIsSeq, LenProperties, BlobAssumption
<1>4. Open(Dek(j), SubSeq(b, DekEnd + 1, NonceEnd), SubSeq(b, HeaderLen + 1, Len(b))) = Pad(p)
  <2>1. /\ SubSeq(b, DekEnd + 1, NonceEnd) = Nonce(c)
        /\ SubSeq(b, HeaderLen + 1, Len(b)) = Seal(Dek(j), Nonce(c), Pad(p))
    BY <1>2, Zenon DEF HasParts
  <2>2. Open(Dek(j), Nonce(c), Seal(Dek(j), Nonce(c), Pad(p))) = Pad(p)
    BY <1>3, OpenSeal, Zenon
  <2> QED
    BY <2>1, <2>2, Zenon
<1>5. DecryptSecret(b, k) = Unpad(Pad(p))
  BY <1>1, <1>3, <1>4, Zenon DEF DecryptSecret, Opens
<1>6. \A other : other # k => DecryptSecret(b, other) = Failed
  BY <1>1, Zenon DEF DecryptSecret, Opens
<1> QED
  BY <1>5, <1>6, UnpadUndoesPad DEF b

\* A rewrap makes of a file the file of the same plaintext and DEK.
LEMMA Rewrapped ==
    ASSUME NEW k, NEW m \in Nat, NEW j \in Nat, NEW c \in Nat, NEW p \in Seq(Bytes),
           NEW new, NEW d \in Nat, RewrapBlob(File(k, m, j, c, p), k, new, d) # Failed
    PROVE  RewrapBlob(File(k, m, j, c, p), k, new, d) = File(new, d + 1, j, c, p)
<1> DEFINE b == File(k, m, j, c, p)
           b2 == File(new, d + 1, j, c, p)
           tail == Nonce(c) \o Size(Len(Pad(p))) \o Seal(Dek(j), Nonce(c), Pad(p))
<1>1. Opens(b, k, j) /\ HasParts(b, k, m, j, c, p)
  BY FileOpens, FileParts, Zenon
<1>2. HasParts(b2, new, d + 1, j, c, p)
  <2>1. d + 1 \in Nat
    OBVIOUS
  <2> QED
    BY <2>1, FileParts, Zenon
<1> HIDE DEF b, b2
<1>3. SubSeq(b, 1, Len(Prologue)) = Prologue /\ SubSeq(b, DekEnd + 1, Len(b)) = tail
  BY <1>1, Zenon DEF HasParts
<1>4. b2 = (Prologue \o Nonce(d + 1) \o Seal(new, Nonce(d + 1), Dek(j))) \o tail
  BY <1>2, Zenon DEF HasParts
<1> HIDE DEF tail
<1>5. RewrapBlob(b, k, new, d) = Splice(b, Dek(j), new, d)
  <2>1. RewrapBlob(b, k, new, d) # Failed
    BY DEF b
  <2> QED
    BY <1>1, <2>1, Zenon DEF RewrapBlob, Opens
<1>6. Splice(b, Dek(j), new, d)
        = (Prologue \o Nonce(d + 1) \o Seal(new, Nonce(d + 1), Dek(j))) \o tail
  BY <1>3, Zenon DEF Splice
<1> QED
  BY <1>4, <1>5, <1>6, Zenon DEF b, b2

-----------------------------------------------------------------------------
(* generate or insert, and any rotations *)

\* As long as nothing damaged it, the file is one of the stored plaintext.
BlobInv ==
    /\ drawn \in Nat /\ rewraps \in Nat /\ damages \in Nat
    /\ blob # Failed =>
          /\ plain \in Seq(Bytes)
          /\ damages = 0 => \E m, j, c \in Nat : blob = File(key, m, j, c, plain)

\* generate picks bytes from the pools of its policy.
GeneratorInv ==
    /\ policy.classes \subseteq Classes
    /\ unpicked \subseteq PoolsFor(policy)
    /\ chars \in Seq(Bytes)

\* What generate and the file keep true together.
SecretInv == GeneratorInv /\ BlobInv

\* What generate can pick are bytes.
LEMMA PoolsOfBytes ==
    ASSUME policy.classes \subseteq Classes
    PROVE  UNION PoolsFor(policy) \subseteq Bytes
BY SecretAssumption DEF PoolsFor, Pool

\* There is no file at the start.
LEMMA SecretInvInit == SecretInit => SecretInv
<1> SUFFICES ASSUME SecretInit PROVE SecretInv
  OBVIOUS
<1>1. policy.classes \subseteq Classes
  BY DEF SecretInit, GeneratorInit, Policy
<1>2. unpicked = {} /\ chars = <<>> /\ <<>> \in Seq(Bytes)
  BY EmptySeq DEF SecretInit, GeneratorInit
<1> QED
  BY <1>1, <1>2 DEF SecretInv, GeneratorInv, BlobInv, SecretInit, BlobInit

\* The password grows and is shuffled, and the policy stays.
LEMMA GeneratorStep ==
    ASSUME GeneratorInv, GeneratorNext
    PROVE  GeneratorInv'
<1>1. /\ policy' = policy /\ policy.classes \subseteq Classes
      /\ UNION PoolsFor(policy) \subseteq Bytes
      /\ chars \in Seq(Bytes)
  BY PoolsOfBytes DEF GeneratorInv, GeneratorNext, CheckPolicy, PickGuaranteed, Fill, Shuffle
<1>2. unpicked' \subseteq PoolsFor(policy)
  BY DEF GeneratorInv, GeneratorNext, CheckPolicy, PickGuaranteed, Fill, Shuffle
<1>3. chars' \in Seq(Bytes)
  <2>1. CASE CheckPolicy
    BY <1>1, <2>1 DEF CheckPolicy
  <2>2. CASE PickGuaranteed
    <3>1. PICK c \in UNION PoolsFor(policy) : chars' = Append(chars, c)
      BY <2>2 DEF PickGuaranteed, GeneratorInv
    <3> QED
      BY <1>1, <3>1, AppendProperties
  <2>3. CASE Fill
    BY <1>1, <2>3, AppendProperties DEF Fill
  <2>4. CASE Shuffle
    <3>1. PICK order \in [1 .. Len(chars) -> 1 .. Len(chars)] :
             chars' = [i \in 1 .. Len(chars) |-> chars[order[i]]]
      BY <2>4 DEF Shuffle
    <3>2. Len(chars) \in Nat /\ \A i \in 1 .. Len(chars) : chars[i] \in Bytes
      BY <1>1, LenProperties, ElementOfSeq
    <3>3. chars' \in [1 .. Len(chars) -> Bytes]
      BY <3>1, <3>2
    <3> QED
      BY <3>2, <3>3, SeqDef
  <2> QED
    BY <2>1, <2>2, <2>3, <2>4 DEF GeneratorNext
<1> QED
  BY <1>1, <1>2, <1>3 DEF GeneratorInv, PoolsFor, Pool

\* insert and generate write a file of what they were given.
LEMMA EncryptStep ==
    ASSUME BlobInv, NEW p \in Seq(Bytes), Encrypt(p)
    PROVE  BlobInv'
<1>1. /\ drawn + 1 \in Nat /\ drawn + 2 \in Nat /\ drawn + 3 \in Nat
      /\ drawn' = drawn + 3 /\ rewraps' \in Nat /\ damages' \in Nat
  BY DEF BlobInv, Encrypt
<1>2. plain' = p /\ key' = key /\ blob' = File(key, drawn + 2, drawn + 1, drawn + 3, p)
  BY EncryptedIsFile DEF Encrypt
<1>3. \E m, j, c \in Nat : blob' = File(key', m, j, c, plain')
  BY <1>1, <1>2, Zenon
<1> QED
  BY <1>1, <1>2, <1>3 DEF BlobInv

\* A rotation rewrites the front of the file.
LEMMA RewrapStep ==
    ASSUME BlobInv, NEW new \in MasterKeys, Rewrap(new)
    PROVE  BlobInv'
<1>1. /\ drawn' \in Nat /\ rewraps' \in Nat /\ damages' \in Nat /\ drawn + 1 \in Nat
      /\ damages' = damages /\ plain' = plain /\ plain \in Seq(Bytes)
  BY DEF BlobInv, Rewrap
<1>2. ASSUME damages = 0 PROVE \E m, j, c \in Nat : blob' = File(key', m, j, c, plain')
  <2>1. PICK m \in Nat, j \in Nat, c \in Nat : blob = File(key, m, j, c, plain)
    BY <1>2 DEF BlobInv, Rewrap
  <2>2. /\ RewrapBlob(blob, key, new, drawn) # Failed /\ key' = new
        /\ blob' = RewrapBlob(blob, key, new, drawn)
    BY DEF Rewrap
  <2>3. drawn \in Nat
    BY DEF BlobInv
  <2>4. RewrapBlob(File(key, m, j, c, plain), key, new, drawn) # Failed
    BY <2>1, <2>2, Zenon
  <2>5. RewrapBlob(File(key, m, j, c, plain), key, new, drawn) = File(new, drawn + 1, j, c, plain)
    BY <1>1, <2>3, <2>4, Rewrapped, SMT
  <2> QED
    BY <1>1, <2>1, <2>2, <2>5, Zenon
<1> QED
  BY <1>1, <1>2 DEF BlobInv

\* Every step of generate, and every write, rewrap and damage of the file, keeps
\* the invariant.
LEMMA SecretInvStep == SecretInv /\ [SecretNext]_secretVars => SecretInv'
<1> SUFFICES ASSUME SecretInv, [SecretNext]_secretVars PROVE SecretInv'
  OBVIOUS
<1>1. CASE GeneratorNext /\ UNCHANGED vars
  BY <1>1, GeneratorStep DEF SecretInv, BlobInv, vars
<1>2. CASE StoreGenerated \/ StoreTyped
  <2>1. PICK p \in Seq(Bytes) : Encrypt(p) /\ UNCHANGED generatorVars
    BY <1>2, BlobAssumption DEF SecretInv, GeneratorInv, StoreGenerated, StoreTyped
  <2>2. BlobInv'
    BY <2>1, EncryptStep DEF SecretInv
  <2> QED
    BY <2>1, <2>2 DEF SecretInv, GeneratorInv, generatorVars, PoolsFor, Pool
<1>3. CASE (\E k \in MasterKeys : Rewrap(k)) /\ UNCHANGED generatorVars
  <2>1. BlobInv'
    BY <1>3, RewrapStep DEF SecretInv
  <2> QED
    BY <1>3, <2>1 DEF SecretInv, GeneratorInv, generatorVars, PoolsFor, Pool
<1>4. CASE (Resize \/ Alter) /\ UNCHANGED generatorVars
  <2>1. BlobInv'
    <3>1. /\ drawn' = drawn /\ rewraps' = rewraps /\ plain' = plain
          /\ damages' = damages + 1 /\ blob # Failed
      BY <1>4 DEF Resize, Alter
    <3> QED
      BY <3>1 DEF SecretInv, BlobInv
  <2> QED
    BY <1>4, <2>1 DEF SecretInv, GeneratorInv, generatorVars, PoolsFor, Pool
<1>5. CASE UNCHANGED secretVars
  BY <1>5 DEF SecretInv, GeneratorInv, BlobInv, secretVars, generatorVars, vars, PoolsFor, Pool
<1> QED
  BY <1>1, <1>2, <1>3, <1>4, <1>5 DEF SecretNext

\* Whatever is generated, typed, rotated and damaged, the invariant holds.
LEMMA SecretSpecInv == SecretSpec => []SecretInv
BY SecretInvInit, SecretInvStep, PTL DEF SecretSpec

\* Of every policy, plaintext, list of buckets and number of rewraps: the length
\* of an undamaged file tells of its plaintext only the bucket (_pad, and the
\* rewrap, which leaves the content as it is).
THEOREM BucketIsAllThatShows == SecretSpec => []SizeTellsBucket
<1>1. SecretInv => SizeTellsBucket
  <2> SUFFICES ASSUME SecretInv, blob # Failed, damages = 0
               PROVE  LET room == Len(blob) - HeaderLen - TagLen IN
                      /\ Admissible(room) /\ Len(plain) < room
                      /\ \A n \in Len(plain) + 1 .. room - 1 : ~Admissible(n)
    BY DEF SizeTellsBucket
  <2>1. PICK m \in Nat, j \in Nat, c \in Nat : blob = File(key, m, j, c, plain)
    BY DEF SecretInv, BlobInv
  <2>2. plain \in Seq(Bytes) /\ Len(plain) \in Nat
    BY LenProperties DEF SecretInv, BlobInv
  <2>3. HasParts(blob, key, m, j, c, plain)
    BY <2>1, <2>2, FileParts, Zenon
  <2>4. Len(blob) = HeaderLen + BucketFor(Len(plain)) + TagLen
    BY <2>3, Zenon DEF HasParts
  <2>5. HeaderLen \in Nat /\ TagLen \in Nat /\ BucketFor(Len(plain)) \in Nat
    <3>1. Len(Prologue) \in Nat
      BY FieldsAreSeqs
    <3> QED
      BY <2>2, <3>1, Lengths3, SmallestBucket DEF HeaderLen, NonceEnd, DekEnd, DekNonceEnd
  <2>6. Len(blob) - HeaderLen - TagLen = BucketFor(Len(plain))
    BY <2>4, <2>5
  <2> QED
    BY <2>2, <2>6, SmallestBucket
<1> QED
  BY <1>1, SecretSpecInv, PTL

\* What was stored opens with the file's master key, and with no other.
ReadsBack ==
    blob # Failed /\ damages = 0 =>
        \A k \in MasterKeys : DecryptSecret(blob, k) = IF k = key THEN plain ELSE Failed

\* However often rotations rewrap an undamaged file, decrypt_secret returns
\* exactly what was stored.
THEOREM StoredReadsBack ==
    ASSUME \A n \in Nat : Dek(n) # Failed
    PROVE  SecretSpec => []ReadsBack
<1>1. SecretInv => ReadsBack
  <2> SUFFICES ASSUME SecretInv, blob # Failed, damages = 0, NEW k \in MasterKeys
               PROVE  DecryptSecret(blob, k) = IF k = key THEN plain ELSE Failed
    BY DEF ReadsBack
  <2>1. PICK m \in Nat, j \in Nat, c \in Nat : blob = File(key, m, j, c, plain)
    BY DEF SecretInv, BlobInv
  <2>2. plain \in Seq(Bytes) /\ Dek(j) # Failed
    BY DEF SecretInv, BlobInv
  <2>3. /\ DecryptSecret(File(key, m, j, c, plain), key) = plain
        /\ \A other : other # key => DecryptSecret(File(key, m, j, c, plain), other) = Failed
    BY <2>2, Decrypted
  <2> QED
    BY <2>1, <2>3, Zenon
<1> QED
  BY <1>1, SecretSpecInv, PTL

-----------------------------------------------------------------------------
(* Damaged files *)

\* A cell that was altered: it is junk, or a size that says another number.
Altered(x, cell) ==
    \/ x = cell
    \/ x = Junk
    \/ cell.kind = "size" /\ \E n \in Nat : x = [kind |-> "size", of |-> <<n>>, at |-> cell.at]

\* b is the file f after any number of damages: shorter, longer, or altered, and
\* what is in a place was always there.
Patched(b, f) ==
    /\ \E S : b \in Seq(S)
    /\ \A i \in 1 .. Len(b) : b[i] = Junk \/ (i <= Len(f) /\ Altered(b[i], f[i]))

\* A part of a file has its cells, in their order.
LEMMA Slice ==
    ASSUME NEW S, NEW b \in Seq(S), NEW i \in Nat \ {0}, NEW e \in Nat, e <= Len(b)
    PROVE  /\ SubSeq(b, i, e) \in Seq(S)
           /\ Len(SubSeq(b, i, e)) = IF i <= e THEN e - i + 1 ELSE 0
           /\ \A x \in i .. e : SubSeq(b, i, e)[x - i + 1] = b[x]
<1>1. Len(b) \in Nat /\ \A x \in 1 .. Len(b) : b[x] \in S
  BY LenProperties, ElementOfSeq
<1>2. \A x \in i .. e : b[x] \in S
  BY <1>1
<1>3. /\ SubSeq(b, i, e) \in Seq(S)
      /\ Len(SubSeq(b, i, e)) = IF i <= e THEN e - i + 1 ELSE 0
      /\ \A y \in 1 .. e - i + 1 : SubSeq(b, i, e)[y] = b[i + y - 1]
  BY <1>2, SubSeqProperties
<1>4. ASSUME NEW x \in i .. e PROVE SubSeq(b, i, e)[x - i + 1] = b[x]
  <2>1. x - i + 1 \in 1 .. e - i + 1 /\ i + (x - i + 1) - 1 = x
    OBVIOUS
  <2> QED
    BY <1>3, <2>1
<1> QED
  BY <1>3, <1>4

\* Files with the same part have the same cells there.
LEMMA SamePart ==
    ASSUME NEW S, NEW b \in Seq(S), NEW T, NEW f \in Seq(T),
           NEW i \in Nat \ {0}, NEW e \in Nat, e <= Len(b), e <= Len(f),
           SubSeq(b, i, e) = SubSeq(f, i, e)
    PROVE  \A x \in i .. e : b[x] = f[x]
<1>1. /\ \A x \in i .. e : SubSeq(b, i, e)[x - i + 1] = b[x]
      /\ \A x \in i .. e : SubSeq(f, i, e)[x - i + 1] = f[x]
  BY Slice
<1> QED
  BY <1>1

\* Where the fields end.
LEMMA FieldEnds ==
    /\ Len(Prologue) \in Nat /\ DekNonceEnd \in Nat /\ DekEnd \in Nat
    /\ NonceEnd \in Nat /\ HeaderLen \in Nat
    /\ Len(Prologue) <= DekNonceEnd /\ DekNonceEnd < DekEnd /\ DekEnd <= NonceEnd
    /\ HeaderLen = NonceEnd + 1
<1>1. ASSUME NEW p \in Seq(Bytes), NEW m \in Nat PROVE Len(Prologue) = 2
  BY FieldsAreSeqs
<1>2. <<>> \in Seq(Bytes) /\ 0 \in Nat
  BY EmptySeq
<1>3. Len(Prologue) = 2
  BY <1>1, <1>2, Zenon
<1> QED
  BY <1>3, Lengths3 DEF HeaderLen, NonceEnd, DekEnd, DekNonceEnd

\* What opens is a whole ciphertext under that key and nonce.
LEMMA Opened ==
    ASSUME NEW k, NEW nonce, NEW cells, Open(k, nonce, cells) # Failed
    PROVE  /\ cells # <<>> /\ cells[1].kind = "sealed"
           /\ cells[1].of[1] = k /\ cells[1].of[2] = nonce
           /\ cells = Seal(k, nonce, cells[1].of[3])
           /\ Open(k, nonce, cells) = cells[1].of[3]
BY Zenon DEF Open

\* The first sealed cells of a file, and its size, in their places.
HasKeyCells(f, k, m, j, c, p) ==
    /\ Len(f) \in Nat /\ HeaderLen + 1 <= Len(f)
    /\ f[DekNonceEnd + 1] = [kind |-> "sealed", of |-> <<k, Nonce(m), Dek(j)>>, at |-> 1]
    /\ f[HeaderLen + 1] = [kind |-> "sealed", of |-> <<Dek(j), Nonce(c), Pad(p)>>, at |-> 1]
    /\ f[HeaderLen] = [kind |-> "size", of |-> <<Len(Pad(p))>>, at |-> 1]
    /\ Len(f) = HeaderLen + Len(Pad(p)) + TagLen
    /\ \A i \in 1 .. Len(f) :
          /\ f[i] = [kind |-> f[i].kind, of |-> f[i].of, at |-> f[i].at]
          /\ f[i].kind # "junk"
          /\ f[i].kind = "size" => \E n : f[i].of = <<n>>

\* A file has them there, and no junk.
LEMMA KeyCells ==
    ASSUME NEW k, NEW m \in Nat, NEW j \in Nat, NEW c \in Nat, NEW p \in Seq(Bytes),
           NEW f, HasParts(f, k, m, j, c, p)
    PROVE  HasKeyCells(f, k, m, j, c, p)
<1> DEFINE S == Cells(k, m, j, c, p)
<1>1. /\ f \in Seq(S)
      /\ SubSeq(f, DekNonceEnd + 1, DekEnd) = Seal(k, Nonce(m), Dek(j))
      /\ f[HeaderLen] = [kind |-> "size", of |-> <<BucketFor(Len(p))>>, at |-> 1]
      /\ SubSeq(f, HeaderLen + 1, Len(f)) = Seal(Dek(j), Nonce(c), Pad(p))
      /\ Len(f) = HeaderLen + BucketFor(Len(p)) + TagLen
  BY Zenon DEF HasParts
<1>2. Len(Pad(p)) = BucketFor(Len(p)) /\ Len(Pad(p)) \in Nat
  BY PadIsSeq, LenProperties
<1>3. Len(Dek(j)) = DekLen
  BY FieldsAreSeqs
<1>4. \A x \in S : /\ x = [kind |-> x.kind, of |-> x.of, at |-> x.at]
                   /\ x.kind # "junk"
                   /\ x.kind = "size" => \E n : x.of = <<n>>
  <2> SUFFICES ASSUME NEW x \in S
               PROVE  /\ x = [kind |-> x.kind, of |-> x.of, at |-> x.at]
                      /\ x.kind # "junk"
                      /\ x.kind = "size" => \E n : x.of = <<n>>
    OBVIOUS
  <2> DEFINE kinds == {"magic", "version", "nonce", "sealed"}
  <2>1. \/ \E kind \in kinds : \E of : x \in Shape(kind, of)
        \/ x \in Shape("size", <<Len(Pad(p))>>)
    BY DEF Cells
  <2>2. CASE \E kind \in kinds : \E of : x \in Shape(kind, of)
    BY <2>2 DEF Shape
  <2>3. CASE x \in Shape("size", <<Len(Pad(p))>>)
    BY <2>3 DEF Shape
  <2> QED
    BY <2>1, <2>2, <2>3
<1> HIDE DEF S
<1>5. Len(f) \in Nat /\ HeaderLen + 1 <= Len(f) /\ DekEnd <= Len(f)
  <2>1. Len(f) = HeaderLen + Len(Pad(p)) + TagLen /\ Len(Pad(p)) \in Nat
    BY <1>1, <1>2
  <2>2. TagLen \in Nat /\ TagLen >= 1
    BY Lengths3
  <2> QED
    BY <2>1, <2>2, FieldEnds
<1>6. /\ SubSeq(f, DekNonceEnd + 1, DekEnd)[1] = f[DekNonceEnd + 1]
      /\ SubSeq(f, HeaderLen + 1, Len(f))[1] = f[HeaderLen + 1]
  <2> /\ f \in Seq(S) /\ Len(f) <= Len(f) /\ DekEnd <= Len(f)
      /\ DekNonceEnd + 1 \in Nat \ {0} /\ HeaderLen + 1 \in Nat \ {0}
    BY <1>1, <1>5, FieldEnds
  <2>1. /\ \A x \in DekNonceEnd + 1 .. DekEnd :
              SubSeq(f, DekNonceEnd + 1, DekEnd)[x - (DekNonceEnd + 1) + 1] = f[x]
    BY FieldEnds, Slice
  <2>2. \A x \in HeaderLen + 1 .. Len(f) :
              SubSeq(f, HeaderLen + 1, Len(f))[x - (HeaderLen + 1) + 1] = f[x]
    BY <1>5, Slice
  <2>3. /\ DekNonceEnd + 1 \in DekNonceEnd + 1 .. DekEnd
        /\ (DekNonceEnd + 1) - (DekNonceEnd + 1) + 1 = 1
        /\ HeaderLen + 1 \in HeaderLen + 1 .. Len(f)
        /\ (HeaderLen + 1) - (HeaderLen + 1) + 1 = 1
    BY <1>5, FieldEnds
  <2> QED
    BY <2>1, <2>2, <2>3
<1>7. /\ Seal(k, Nonce(m), Dek(j))[1] =
            [kind |-> "sealed", of |-> <<k, Nonce(m), Dek(j)>>, at |-> 1]
      /\ Seal(Dek(j), Nonce(c), Pad(p))[1] =
            [kind |-> "sealed", of |-> <<Dek(j), Nonce(c), Pad(p)>>, at |-> 1]
  <2>1. ASSUME NEW of, NEW len \in Nat \ {0}
        PROVE  Field("sealed", of, len)[1] = [kind |-> "sealed", of |-> of, at |-> 1]
    BY FieldIsSeq
  <2>2. Len(Dek(j)) + TagLen \in Nat \ {0} /\ Len(Pad(p)) + TagLen \in Nat \ {0}
    BY <1>2, <1>3, Lengths3
  <2> QED
    BY <2>1, <2>2 DEF Seal
<1>8. \A i \in 1 .. Len(f) : f[i] \in S
  BY <1>1, ElementOfSeq
<1> QED
  BY <1>1, <1>2, <1>4, <1>5, <1>6, <1>7, <1>8 DEF HasKeyCells

\* A sealed cell of a patched file is the one that was written there.
LEMMA SealedCell ==
    ASSUME NEW b, NEW f, Patched(b, f), NEW i \in 1 .. Len(b), b[i].kind = "sealed"
    PROVE  i <= Len(f) /\ b[i] = f[i]
<1>1. b[i] # Junk
  BY DEF Junk
<1>2. i <= Len(f) /\ Altered(b[i], f[i])
  BY <1>1 DEF Patched
<1>3. ASSUME NEW n \in Nat, b[i] = [kind |-> "size", of |-> <<n>>, at |-> f[i].at]
      PROVE  FALSE
  BY <1>3
<1> QED
  BY <1>1, <1>2, <1>3 DEF Altered

\* Who has k2 opens the DEK j of b, k2 is the key k of the file f, and b is
\* untouched up to there.
FrontIntact(b, f, k, j, k2) ==
    /\ k2 = k /\ DekOf(b, k2) = Dek(j)
    /\ \A i \in 1 .. DekEnd : b[i] = f[i]
    /\ Len(b) \in Nat /\ HeaderLen <= Len(b)

\* Only the file's master key opens the DEK of a patched file, and only if the
\* front is intact.
LEMMA FrontOpens ==
    ASSUME NEW k, NEW m \in Nat, NEW j \in Nat, NEW c \in Nat, NEW p \in Seq(Bytes),
           NEW f, HasParts(f, k, m, j, c, p), NEW b, Patched(b, f), WellFormed(b),
           NEW k2, DekOf(b, k2) # Failed
    PROVE  FrontIntact(b, f, k, j, k2)
<1>1. PICK S : b \in Seq(S)
  BY DEF Patched
<1>2. Len(b) \in Nat /\ HeaderLen <= Len(b) /\ SubSeq(b, 1, Len(Prologue)) = Prologue
  BY <1>1, LenProperties, FieldEnds DEF WellFormed
<1> DEFINE nonce == SubSeq(b, Len(Prologue) + 1, DekNonceEnd)
           cells == SubSeq(b, DekNonceEnd + 1, DekEnd)
           T == Cells(k, m, j, c, p)
<1>3. /\ f \in Seq(T)
      /\ SubSeq(f, 1, Len(Prologue)) = Prologue
      /\ SubSeq(f, Len(Prologue) + 1, DekNonceEnd) = Nonce(m)
      /\ SubSeq(f, DekNonceEnd + 1, DekEnd) = Seal(k, Nonce(m), Dek(j))
  BY Zenon DEF HasParts
<1>4. /\ Len(f) \in Nat /\ HeaderLen + 1 <= Len(f)
      /\ f[DekNonceEnd + 1] = [kind |-> "sealed", of |-> <<k, Nonce(m), Dek(j)>>, at |-> 1]
  <2>1. HasKeyCells(f, k, m, j, c, p)
    BY KeyCells, Zenon
  <2> QED
    BY <2>1, Zenon DEF HasKeyCells
<1> HIDE DEF T
<1>5. DekOf(b, k2) = Open(k2, nonce, cells)
  BY DEF DekOf
<1>6. cells[1] = b[DekNonceEnd + 1]
  <2>1. \A x \in DekNonceEnd + 1 .. DekEnd : cells[x - (DekNonceEnd + 1) + 1] = b[x]
    BY <1>1, <1>2, FieldEnds, Slice
  <2>2. /\ DekNonceEnd + 1 \in DekNonceEnd + 1 .. DekEnd
        /\ (DekNonceEnd + 1) - (DekNonceEnd + 1) + 1 = 1
    BY FieldEnds
  <2> HIDE DEF cells
  <2> QED
    BY <2>1, <2>2
<1> HIDE DEF nonce, cells
<1>7. /\ cells[1].kind = "sealed" /\ cells[1].of[1] = k2 /\ cells[1].of[2] = nonce
      /\ cells = Seal(k2, nonce, cells[1].of[3])
      /\ Open(k2, nonce, cells) = cells[1].of[3]
  BY <1>5, Opened
<1>8. b[DekNonceEnd + 1] = f[DekNonceEnd + 1]
  <2>1. DekNonceEnd + 1 \in 1 .. Len(b)
    BY <1>2, FieldEnds
  <2> QED
    BY <1>6, <1>7, <2>1, SealedCell
<1>9. k2 = k /\ nonce = Nonce(m) /\ cells[1].of[3] = Dek(j)
  BY <1>4, <1>6, <1>7, <1>8
<1>10. cells = Seal(k, Nonce(m), Dek(j))
  BY <1>7, <1>9
<1>11. ASSUME NEW i \in 1 .. DekEnd PROVE b[i] = f[i]
  <2>1. /\ Len(Prologue) + 1 \in Nat \ {0} /\ DekNonceEnd + 1 \in Nat \ {0} /\ 1 \in Nat \ {0}
        /\ Len(Prologue) <= Len(b) /\ Len(Prologue) <= Len(f)
        /\ DekNonceEnd <= Len(b) /\ DekNonceEnd <= Len(f)
        /\ DekEnd <= Len(b) /\ DekEnd <= Len(f)
    BY <1>2, <1>4, FieldEnds
  <2>2. \A x \in 1 .. Len(Prologue) : b[x] = f[x]
    BY <1>1, <1>2, <1>3, <2>1, FieldEnds, SamePart
  <2>3. \A x \in Len(Prologue) + 1 .. DekNonceEnd : b[x] = f[x]
    <3>1. SubSeq(b, Len(Prologue) + 1, DekNonceEnd) = SubSeq(f, Len(Prologue) + 1, DekNonceEnd)
      BY <1>3, <1>9 DEF nonce
    <3> QED
      BY <1>1, <1>3, <2>1, <3>1, FieldEnds, SamePart
  <2>4. \A x \in DekNonceEnd + 1 .. DekEnd : b[x] = f[x]
    <3>1. SubSeq(b, DekNonceEnd + 1, DekEnd) = SubSeq(f, DekNonceEnd + 1, DekEnd)
      BY <1>3, <1>10 DEF cells
    <3> QED
      BY <1>1, <1>3, <2>1, <3>1, FieldEnds, SamePart
  <2>5. \/ i \in 1 .. Len(Prologue) \/ i \in Len(Prologue) + 1 .. DekNonceEnd
        \/ i \in DekNonceEnd + 1 .. DekEnd
    BY FieldEnds
  <2> QED
    BY <2>2, <2>3, <2>4, <2>5
<1> QED
  BY <1>2, <1>5, <1>7, <1>9, <1>11, Zenon DEF FrontIntact

\* Of a patched file only the whole one can be decrypted, with its master key.
LEMMA OnlyWholeFilesOpen ==
    ASSUME NEW k, NEW m \in Nat, NEW j \in Nat, NEW c \in Nat, NEW p \in Seq(Bytes),
           NEW f, HasParts(f, k, m, j, c, p), NEW b, Patched(b, f),
           NEW k2, k2 # k \/ b # f
    PROVE  DecryptSecret(b, k2) = Failed
<1> SUFFICES ASSUME DecryptSecret(b, k2) # Failed PROVE k2 = k /\ b = f
  OBVIOUS
<1> DEFINE nonce == SubSeq(b, DekEnd + 1, NonceEnd)
           cells == SubSeq(b, HeaderLen + 1, Len(b))
<1>1. /\ WellFormed(b) /\ LengthAnnounced(b) /\ DekOf(b, k2) # Failed
      /\ Open(DekOf(b, k2), nonce, cells) # Failed
  BY Zenon DEF DecryptSecret
<1>2. /\ k2 = k /\ DekOf(b, k2) = Dek(j)
      /\ \A i \in 1 .. DekEnd : b[i] = f[i]
      /\ Len(b) \in Nat /\ HeaderLen <= Len(b)
  <2>1. FrontIntact(b, f, k, j, k2)
    BY <1>1, FrontOpens, Zenon
  <2> QED
    BY <2>1, Zenon DEF FrontIntact
<1>3. PICK S : b \in Seq(S)
  BY DEF Patched
<1> DEFINE T == Cells(k, m, j, c, p)
<1>4. /\ f \in Seq(T)
      /\ SubSeq(f, DekEnd + 1, NonceEnd) = Nonce(c)
      /\ SubSeq(f, HeaderLen + 1, Len(f)) = Seal(Dek(j), Nonce(c), Pad(p))
  BY Zenon DEF HasParts
<1>5. /\ Len(f) \in Nat /\ HeaderLen + 1 <= Len(f)
      /\ f[HeaderLen + 1] = [kind |-> "sealed", of |-> <<Dek(j), Nonce(c), Pad(p)>>, at |-> 1]
      /\ f[HeaderLen] = [kind |-> "size", of |-> <<Len(Pad(p))>>, at |-> 1]
      /\ Len(f) = HeaderLen + Len(Pad(p)) + TagLen
  <2>1. HasKeyCells(f, k, m, j, c, p)
    BY KeyCells, Zenon
  <2> QED
    BY <2>1, Zenon DEF HasKeyCells
<1> HIDE DEF T
<1>6. /\ cells # <<>> /\ cells[1].kind = "sealed" /\ cells[1].of[2] = nonce
      /\ cells = Seal(Dek(j), nonce, cells[1].of[3])
  <2> HIDE DEF nonce, cells
  <2> QED
    BY <1>1, <1>2, Opened
<1>7. HeaderLen + 1 <= Len(b) /\ cells[1] = b[HeaderLen + 1]
  <2>1. /\ cells \in Seq(S)
        /\ Len(cells) = IF HeaderLen + 1 <= Len(b) THEN Len(b) - (HeaderLen + 1) + 1 ELSE 0
        /\ \A x \in HeaderLen + 1 .. Len(b) : cells[x - (HeaderLen + 1) + 1] = b[x]
    <3>1. HeaderLen + 1 \in Nat \ {0} /\ Len(b) <= Len(b)
      BY <1>2, FieldEnds
    <3> QED
      BY <1>2, <1>3, <3>1, Slice
  <2> HIDE DEF cells
  <2>2. Len(cells) \in Nat \ {0}
    BY <1>6, <2>1, EmptySeq
  <2>3. HeaderLen + 1 <= Len(b)
    BY <2>1, <2>2
  <2>4. /\ HeaderLen + 1 \in HeaderLen + 1 .. Len(b)
        /\ (HeaderLen + 1) - (HeaderLen + 1) + 1 = 1
    BY <1>2, <2>3, FieldEnds
  <2> QED
    BY <2>1, <2>3, <2>4
<1>8. b[HeaderLen + 1] = f[HeaderLen + 1]
  <2>1. HeaderLen + 1 \in 1 .. Len(b)
    BY <1>2, <1>7, FieldEnds
  <2> HIDE DEF cells
  <2> QED
    BY <1>6, <1>7, <2>1, SealedCell
<1>9. nonce = Nonce(c) /\ cells = Seal(Dek(j), Nonce(c), Pad(p))
  <2> HIDE DEF nonce, cells
  <2>1. cells[1].of[2] = Nonce(c) /\ cells[1].of[3] = Pad(p)
    BY <1>5, <1>7, <1>8
  <2> QED
    BY <1>6, <2>1
<1>10. Len(b) = Len(f)
  <2>1. Len(Pad(p)) \in Nat
    BY PadIsSeq, LenProperties
  <2>2. Len(Seal(Dek(j), Nonce(c), Pad(p))) = Len(Pad(p)) + TagLen
    BY <2>1, Lengths3, FieldIsSeq DEF Seal
  <2>3. Len(cells) = Len(b) - HeaderLen
    <3>1. HeaderLen + 1 \in Nat \ {0} /\ Len(b) <= Len(b)
      BY <1>2, FieldEnds
    <3>2. Len(cells) = IF HeaderLen + 1 <= Len(b) THEN Len(b) - (HeaderLen + 1) + 1 ELSE 0
      BY <1>2, <1>3, <3>1, Slice
    <3> HIDE DEF cells
    <3> QED
      BY <1>2, <1>7, <3>2, FieldEnds
  <2> HIDE DEF cells
  <2> QED
    <3>1. Len(Pad(p)) + TagLen = Len(b) - HeaderLen
      BY <1>9, <2>2, <2>3
    <3> QED
      BY <1>2, <1>5, <2>1, <3>1, Lengths3, FieldEnds
<1>11. b[HeaderLen] = f[HeaderLen]
  <2>1. b[HeaderLen].kind = "size" /\ Len(b) = HeaderLen + b[HeaderLen].of[1] + TagLen
    BY <1>1 DEF LengthAnnounced
  <2>2. HeaderLen \in 1 .. Len(b) /\ HeaderLen \in Nat
    BY <1>2, FieldEnds
  <2>3. b[HeaderLen] # Junk /\ Altered(b[HeaderLen], f[HeaderLen])
    BY <2>1, <2>2 DEF Patched, Junk
  <2>4. CASE \E n \in Nat : b[HeaderLen] = [kind |-> "size", of |-> <<n>>, at |-> f[HeaderLen].at]
    <3>1. PICK n \in Nat : b[HeaderLen] = [kind |-> "size", of |-> <<n>>, at |-> f[HeaderLen].at]
      BY <2>4
    <3>2. b[HeaderLen].of[1] = n /\ f[HeaderLen].at = 1
      BY <1>5, <3>1
    <3>3. n = Len(Pad(p))
      <4>1. Len(f) = HeaderLen + n + TagLen
        BY <1>10, <2>1, <3>2
      <4>2. Len(Pad(p)) \in Nat
        BY PadIsSeq, LenProperties
      <4> QED
        BY <1>5, <4>1, <4>2, Lengths3, FieldEnds
    <3> QED
      BY <1>5, <3>1, <3>2, <3>3
  <2> QED
    BY <2>3, <2>4 DEF Altered
<1>12. ASSUME NEW i \in 1 .. Len(b) PROVE b[i] = f[i]
  <2>1. /\ DekEnd + 1 \in Nat \ {0} /\ HeaderLen + 1 \in Nat \ {0}
        /\ NonceEnd <= Len(b) /\ NonceEnd <= Len(f) /\ Len(b) <= Len(f) /\ Len(b) <= Len(b)
    BY <1>2, <1>10, FieldEnds
  <2>2. \A x \in DekEnd + 1 .. NonceEnd : b[x] = f[x]
    <3>1. SubSeq(b, DekEnd + 1, NonceEnd) = SubSeq(f, DekEnd + 1, NonceEnd)
      BY <1>4, <1>9
    <3>2. f \in Seq(T) /\ NonceEnd \in Nat
      BY <1>4, FieldEnds
    <3> HIDE DEF nonce, cells
    <3> QED
      BY <1>3, <2>1, <3>1, <3>2, SamePart
  <2>3. \A x \in HeaderLen + 1 .. Len(b) : b[x] = f[x]
    <3>1. SubSeq(b, HeaderLen + 1, Len(b)) = SubSeq(f, HeaderLen + 1, Len(b))
      BY <1>4, <1>9, <1>10
    <3>2. f \in Seq(T) /\ Len(b) \in Nat
      BY <1>2, <1>4
    <3> HIDE DEF nonce, cells
    <3> QED
      BY <1>3, <2>1, <3>1, <3>2, SamePart
  <2>4. \/ i \in 1 .. DekEnd \/ i \in DekEnd + 1 .. NonceEnd
        \/ i = HeaderLen \/ i \in HeaderLen + 1 .. Len(b)
    BY <1>2, FieldEnds
  <2> QED
    BY <1>2, <1>11, <2>2, <2>3, <2>4
<1>13. b = f
  <2>1. b \in Seq(S \cup T) /\ f \in Seq(S \cup T)
    BY <1>3, <1>4, SeqMonotonic
  <2> QED
    BY <1>10, <1>12, <2>1, SeqEqual
<1> QED
  BY <1>2, <1>13

\* A sequence with one member more.
LEMMA OneMore ==
    ASSUME NEW S, NEW s \in Seq(S), NEW c \in S
    PROVE  /\ Append(s, c) \in Seq(S) /\ Len(Append(s, c)) = Len(s) + 1
           /\ \A i \in 1 .. Len(s) : Append(s, c)[i] = s[i]
           /\ Append(s, c)[Len(s) + 1] = c
           /\ Len(s) \in Nat
BY AppendProperties, LenProperties

\* A file is the one that was written for its master key, with the damages it had;
\* one damage leaves a mark.
DamageInv ==
    /\ blob = Failed => damages = 0
    /\ blob # Failed =>
          /\ plain \in Seq(Bytes)
          /\ \E m, j, c \in Nat :
                /\ Patched(blob, File(key, m, j, c, plain))
                /\ damages = 0 => blob = File(key, m, j, c, plain)
                /\ damages = 1 => blob # File(key, m, j, c, plain)

\* encrypt_secret writes a whole file.
LEMMA DamageEncrypt ==
    ASSUME DamageInv, drawn \in Nat, NEW p \in Seq(Bytes), Encrypt(p)
    PROVE  DamageInv'
<1> DEFINE f == File(key, drawn + 2, drawn + 1, drawn + 3, p)
<1>1. plain' = p /\ key' = key /\ blob' = f /\ damages' = damages /\ damages = 0
  BY EncryptedIsFile DEF Encrypt, DamageInv
<1>2. drawn + 1 \in Nat /\ drawn + 2 \in Nat /\ drawn + 3 \in Nat
  OBVIOUS
<1>3. Patched(f, f)
  <2>1. HasParts(f, key, drawn + 2, drawn + 1, drawn + 3, p)
    BY <1>2, FileParts, Zenon
  <2>2. f \in Seq(Cells(key, drawn + 2, drawn + 1, drawn + 3, p))
    BY <2>1, Zenon DEF HasParts
  <2> HIDE DEF f
  <2>3. Len(f) \in Nat
    BY <2>2, LenProperties
  <2> QED
    BY <2>2, <2>3 DEF Patched, Altered
<1>4. /\ Patched(blob', File(key', drawn + 2, drawn + 1, drawn + 3, plain'))
      /\ blob' = File(key', drawn + 2, drawn + 1, drawn + 3, plain')
      /\ damages' = 0
  BY <1>1, <1>3
<1> QED
  BY <1>1, <1>2, <1>4 DEF DamageInv

\* Another front, as long as that of a file, leaves the rest where it was.
NewFront(b2, q, b) ==
    /\ \E S : b2 \in Seq(S)
    /\ Len(b2) = Len(b)
    /\ \A i \in 1 .. Len(b) : b2[i] = IF i <= DekEnd THEN q[i] ELSE b[i]

\* That is what a splice makes.
LEMMA Respliced ==
    ASSUME NEW Q, NEW q \in Seq(Q), Len(q) = DekEnd,
           NEW S, NEW b \in Seq(S), DekEnd <= Len(b),
           NEW b2, b2 = q \o SubSeq(b, DekEnd + 1, Len(b))
    PROVE  NewFront(b2, q, b)
<1> DEFINE t == SubSeq(b, DekEnd + 1, Len(b))
<1>1. Len(b) \in Nat /\ DekEnd \in Nat /\ DekEnd + 1 \in Nat \ {0} /\ Len(b) <= Len(b)
  BY LenProperties, FieldEnds
<1>2. /\ t \in Seq(S)
      /\ Len(t) = IF DekEnd + 1 <= Len(b) THEN Len(b) - (DekEnd + 1) + 1 ELSE 0
      /\ \A x \in DekEnd + 1 .. Len(b) : t[x - (DekEnd + 1) + 1] = b[x]
  BY <1>1, Slice
<1> HIDE DEF t
<1>3. Len(t) = Len(b) - DekEnd
  BY <1>1, <1>2
<1>4. q \in Seq(Q \cup S) /\ t \in Seq(Q \cup S)
  BY <1>2, SeqMonotonic
<1>5. /\ q \o t \in Seq(Q \cup S) /\ Len(q \o t) = Len(q) + Len(t)
      /\ \A i \in 1 .. Len(q) + Len(t) :
            (q \o t)[i] = IF i <= Len(q) THEN q[i] ELSE t[i - Len(q)]
  BY <1>4, ConcatProperties
<1>6. \A i \in 1 .. Len(b) : i > DekEnd => t[i - DekEnd] = b[i]
  <2> SUFFICES ASSUME NEW i \in 1 .. Len(b), i > DekEnd PROVE t[i - DekEnd] = b[i]
    OBVIOUS
  <2>1. i \in DekEnd + 1 .. Len(b) /\ i - (DekEnd + 1) + 1 = i - DekEnd
    BY <1>1
  <2> QED
    BY <1>2, <2>1
<1>7. Len(q) + Len(t) = Len(b)
  BY <1>1, <1>3
<1>8. /\ q \o t \in Seq(Q \cup S) /\ Len(q \o t) = Len(b)
      /\ \A i \in 1 .. Len(b) : (q \o t)[i] = IF i <= DekEnd THEN q[i] ELSE b[i]
  <2>1. ASSUME NEW i \in 1 .. Len(b)
        PROVE  (q \o t)[i] = IF i <= DekEnd THEN q[i] ELSE b[i]
    <3>1. i \in 1 .. Len(q) + Len(t)
      BY <1>7
    <3>2. (q \o t)[i] = IF i <= Len(q) THEN q[i] ELSE t[i - Len(q)]
      BY <1>5, <3>1
    <3>3. CASE i <= DekEnd
      <4>1. i <= Len(q)
        BY <3>3
      <4> QED
        BY <3>2, <3>3, <4>1, Zenon
    <3>4. CASE ~(i <= DekEnd)
      <4>1. ~(i <= Len(q)) /\ i > DekEnd /\ i - Len(q) = i - DekEnd
        BY <1>1, <3>4
      <4>2. t[i - DekEnd] = b[i]
        BY <1>6, <4>1, Zenon
      <4>3. (q \o t)[i] = t[i - DekEnd]
        BY <3>2, <4>1, Zenon
      <4> QED
        BY <3>4, <4>2, <4>3, Zenon
    <3> QED
      BY <3>3, <3>4, Zenon
  <2> QED
    BY <1>5, <1>7, <2>1
<1> QED
  BY <1>8 DEF t, NewFront

\* Three sequences in a row.
LEMMA ThreeParts ==
    ASSUME NEW S, NEW a \in Seq(S), NEW n \in Seq(S), NEW w \in Seq(S)
    PROVE  (a \o n) \o w \in Seq(S) /\ Len((a \o n) \o w) = Len(a) + Len(n) + Len(w)
<1>1. a \o n \in Seq(S) /\ Len(a \o n) = Len(a) + Len(n)
  BY ConcatProperties
<1> QED
  BY <1>1, ConcatProperties

\* b2 is a patch of f2 that is whole just when b is the whole f.
SameMarks(b2, f2, b, f) == Patched(b2, f2) /\ (b2 = f2 <=> b = f)

\* A rewrap puts the same front before the content of a damaged file as before
\* that of the whole one, so the marks of the damage stay where they are.
LEMMA RewrapKeepsMarks ==
    ASSUME NEW k, NEW m \in Nat, NEW j \in Nat, NEW c \in Nat, NEW p \in Seq(Bytes),
           NEW f, HasParts(f, k, m, j, c, p), NEW b, Patched(b, f), WellFormed(b),
           DekOf(b, k) # Failed, NEW new, NEW d \in Nat,
           NEW f2, HasParts(f2, new, d + 1, j, c, p),
           NEW b2, b2 = Splice(b, DekOf(b, k), new, d)
    PROVE  SameMarks(b2, f2, b, f)
<1>1. /\ DekOf(b, k) = Dek(j)
      /\ \A i \in 1 .. DekEnd : b[i] = f[i]
      /\ Len(b) \in Nat /\ HeaderLen <= Len(b)
  <2>1. FrontIntact(b, f, k, j, k)
    BY FrontOpens, Zenon
  <2> QED
    BY <2>1, Zenon DEF FrontIntact
<1> DEFINE q == Prologue \o Nonce(d + 1) \o Seal(new, Nonce(d + 1), Dek(j))
           tail == Nonce(c) \o Size(Len(Pad(p))) \o Seal(Dek(j), Nonce(c), Pad(p))
           Q == Cells(new, d + 1, j, c, p)
           T == Cells(k, m, j, c, p)
<1>2. f2 = q \o tail /\ SubSeq(f, DekEnd + 1, Len(f)) = tail /\ f \in Seq(T)
  BY Zenon DEF HasParts
<1>3. PICK S : b \in Seq(S)
  BY DEF Patched
<1>4. q \in Seq(Q) /\ Len(q) = DekEnd
  <2> DEFINE n == Nonce(d + 1)
             w == Seal(new, Nonce(d + 1), Dek(j))
  <2>1. d + 1 \in Nat
    OBVIOUS
  <2>2. Prologue \in Seq(Q) /\ n \in Seq(Q) /\ w \in Seq(Q)
    BY <2>1, FieldsAreSeqs, Zenon
  <2>3. Len(Prologue) = 2 /\ Len(n) = NonceLen
    BY <2>1, FieldsAreSeqs, Zenon
  <2>4. Len(w) = DekLen + TagLen
    <3>1. Len(Dek(j)) + TagLen = DekLen + TagLen /\ DekLen + TagLen \in Nat
      BY Lengths3, FieldIsSeq DEF Dek
    <3> QED
      BY <3>1, FieldIsSeq DEF Seal
  <2> HIDE DEF n, w, Q
  <2>5. q \in Seq(Q) /\ Len(q) = Len(Prologue) + Len(n) + Len(w)
    <3>1. /\ (Prologue \o n) \o w \in Seq(Q)
          /\ Len((Prologue \o n) \o w) = Len(Prologue) + Len(n) + Len(w)
      BY <2>2, ThreeParts
    <3> QED
      BY <3>1 DEF n, w
  <2>6. DekEnd = Len(Prologue) + NonceLen + (DekLen + TagLen)
    BY <2>3, Lengths3 DEF DekEnd, DekNonceEnd
  <2> HIDE DEF q
  <2> QED
    BY <2>3, <2>4, <2>5, <2>6
<1>5. b2 = q \o SubSeq(b, DekEnd + 1, Len(b))
  BY <1>1, Zenon DEF Splice, WellFormed
<1>6. f2 = q \o SubSeq(f, DekEnd + 1, Len(f))
  BY <1>2
<1>7. Len(f) \in Nat /\ HeaderLen + 1 <= Len(f)
  <2>1. HasKeyCells(f, k, m, j, c, p)
    BY KeyCells, Zenon
  <2> QED
    BY <2>1, Zenon DEF HasKeyCells
<1>8. DekEnd <= Len(b) /\ DekEnd <= Len(f)
  BY <1>1, <1>7, FieldEnds
<1> HIDE DEF q, tail, Q, T
<1>9. /\ \E U : b2 \in Seq(U)
      /\ Len(b2) = Len(b)
      /\ \A i \in 1 .. Len(b) : b2[i] = IF i <= DekEnd THEN q[i] ELSE b[i]
  <2>1. NewFront(b2, q, b)
    BY <1>3, <1>4, <1>5, <1>8, Respliced, Zenon
  <2> QED
    BY <2>1 DEF NewFront
<1>10. /\ Len(f2) = Len(f)
       /\ \A i \in 1 .. Len(f) : f2[i] = IF i <= DekEnd THEN q[i] ELSE f[i]
  <2>1. NewFront(f2, q, f)
    BY <1>2, <1>4, <1>6, <1>8, Respliced, Zenon
  <2> QED
    BY <2>1 DEF NewFront
<1>11. Patched(b2, f2)
  <2>1. ASSUME NEW i \in 1 .. Len(b2)
        PROVE  b2[i] = Junk \/ (i <= Len(f2) /\ Altered(b2[i], f2[i]))
    <3>1. i \in 1 .. Len(b) /\ i \in Nat
      BY <1>9, <2>1
    <3>2. CASE i <= DekEnd
      <4>1. i \in 1 .. Len(f) /\ b2[i] = f2[i]
        BY <1>1, <1>7, <1>8, <1>9, <1>10, <3>1, <3>2, FieldEnds
      <4> QED
        BY <1>10, <4>1 DEF Altered
    <3>3. CASE ~(i <= DekEnd)
      <4>1. b2[i] = b[i] /\ (b[i] = Junk \/ (i <= Len(f) /\ Altered(b[i], f[i])))
        BY <1>9, <3>1, <3>3 DEF Patched
      <4>2. ASSUME i <= Len(f) PROVE f2[i] = f[i]
        BY <1>7, <1>10, <3>1, <3>3, <4>2
      <4> QED
        BY <1>10, <4>1, <4>2
    <3> QED
      BY <3>2, <3>3
  <2> QED
    BY <1>9, <2>1 DEF Patched
<1>12. ASSUME b = f PROVE b2 = f2
  BY <1>5, <1>6, <1>12
<1>13. ASSUME b2 = f2 PROVE b = f
  <2>1. Len(b) = Len(f)
    BY <1>9, <1>10, <1>13
  <2>2. \A i \in 1 .. Len(b) : b[i] = f[i]
    <3> SUFFICES ASSUME NEW i \in 1 .. Len(b) PROVE b[i] = f[i]
      OBVIOUS
    <3>1. CASE i <= DekEnd
      BY <1>1, <3>1
    <3>2. CASE ~(i <= DekEnd)
      BY <1>9, <1>10, <1>13, <2>1, <3>2
    <3> QED
      BY <3>1, <3>2
  <2>3. b \in Seq(S \cup T) /\ f \in Seq(S \cup T)
    BY <1>2, <1>3, SeqMonotonic
  <2> QED
    BY <2>1, <2>2, <2>3, SeqEqual
<1> QED
  BY <1>11, <1>12, <1>13 DEF SameMarks

\* A rotation that comes to a file, damaged or not.
LEMMA DamageRewrap ==
    ASSUME DamageInv, drawn \in Nat, NEW new \in MasterKeys, Rewrap(new)
    PROVE  DamageInv'
<1>1. /\ blob # Failed /\ plain \in Seq(Bytes)
      /\ WellFormed(blob) /\ DekOf(blob, key) # Failed
      /\ blob' = Splice(blob, DekOf(blob, key), new, drawn)
      /\ key' = new /\ plain' = plain /\ damages' = damages
      /\ blob' # Failed
  BY Zenon DEF Rewrap, RewrapBlob, DamageInv
<1>2. PICK m \in Nat, j \in Nat, c \in Nat :
         /\ Patched(blob, File(key, m, j, c, plain))
         /\ damages = 0 => blob = File(key, m, j, c, plain)
         /\ damages = 1 => blob # File(key, m, j, c, plain)
  BY <1>1 DEF DamageInv
<1>3. drawn + 1 \in Nat
  OBVIOUS
<1>4. /\ HasParts(File(key, m, j, c, plain), key, m, j, c, plain)
      /\ HasParts(File(new, drawn + 1, j, c, plain), new, drawn + 1, j, c, plain)
  BY <1>1, <1>3, FileParts, Zenon
<1>5. /\ Patched(blob', File(new, drawn + 1, j, c, plain))
      /\ blob' = File(new, drawn + 1, j, c, plain) <=> blob = File(key, m, j, c, plain)
  <2>1. SameMarks(blob', File(new, drawn + 1, j, c, plain),
                  blob, File(key, m, j, c, plain))
    BY <1>1, <1>2, <1>4, RewrapKeepsMarks, Zenon
  <2> QED
    BY <2>1, Zenon DEF SameMarks
<1>6. \E m2, j2, c2 \in Nat :
         /\ Patched(blob', File(key', m2, j2, c2, plain'))
         /\ damages' = 0 => blob' = File(key', m2, j2, c2, plain')
         /\ damages' = 1 => blob' # File(key', m2, j2, c2, plain')
  <2> WITNESS drawn + 1 \in Nat, j \in Nat, c \in Nat
  <2> QED
    BY <1>1, <1>2, <1>5, Zenon
<1> QED
  BY <1>1, <1>6, Zenon DEF DamageInv

\* A damage leaves a patched file, and is seen on one that was whole.
LEMMA OneDamage ==
    ASSUME NEW k, NEW m \in Nat, NEW j \in Nat, NEW c \in Nat, NEW p \in Seq(Bytes),
           NEW f, HasParts(f, k, m, j, c, p), Patched(blob, f), Resize \/ Alter
    PROVE  Patched(blob', f) /\ (blob = f => blob' # f)
<1>1. PICK S : blob \in Seq(S)
  BY DEF Patched
<1>2. /\ Len(blob) \in Nat /\ blob \in [1 .. Len(blob) -> S]
      /\ \A i \in 1 .. Len(blob) : blob[i] = Junk \/ (i <= Len(f) /\ Altered(blob[i], f[i]))
  BY <1>1, LenProperties DEF Patched
<1>3. /\ Len(f) \in Nat
      /\ \A i \in 1 .. Len(f) : /\ f[i] = [kind |-> f[i].kind, of |-> f[i].of, at |-> f[i].at]
                                /\ f[i].kind # "junk"
  <2>1. HasKeyCells(f, k, m, j, c, p)
    BY KeyCells, Zenon
  <2> QED
    BY <2>1, Zenon DEF HasKeyCells
<1>4. CASE \E n \in 0 .. Len(blob) - 1 : blob' = SubSeq(blob, 1, n)
  <2>1. PICK n \in 0 .. Len(blob) - 1 : blob' = SubSeq(blob, 1, n)
    BY <1>4
  <2>2. n \in Nat /\ n < Len(blob) /\ n <= Len(blob) /\ 1 \in Nat \ {0}
    BY <1>2
  <2>3. /\ blob' \in Seq(S) /\ Len(blob') = IF 1 <= n THEN n - 1 + 1 ELSE 0
        /\ \A x \in 1 .. n : blob'[x - 1 + 1] = blob[x]
    BY <1>1, <2>1, <2>2, Slice
  <2>4. Len(blob') = n /\ \A x \in 1 .. n : blob'[x] = blob[x]
    <3>1. \A x \in 1 .. n : x - 1 + 1 = x
      BY <2>2
    <3> QED
      BY <2>2, <2>3, <3>1
  <2> QED
    BY <1>2, <2>2, <2>3, <2>4 DEF Patched
<1>5. CASE blob' = Append(blob, Junk)
  <2>1. blob \in Seq(S \cup {Junk}) /\ Junk \in S \cup {Junk}
    BY <1>1, SeqMonotonic
  <2>2. /\ blob' \in Seq(S \cup {Junk}) /\ Len(blob') = Len(blob) + 1
        /\ \A i \in 1 .. Len(blob) : blob'[i] = blob[i]
        /\ blob'[Len(blob) + 1] = Junk
    BY <1>5, <2>1, OneMore
  <2>3. \A i \in 1 .. Len(blob') : i \in 1 .. Len(blob) \/ i = Len(blob) + 1
    BY <1>2, <2>2
  <2> QED
    BY <1>2, <2>2, <2>3 DEF Patched
<1>6. CASE Alter
  <2>1. PICK i \in 1 .. Len(blob) :
           \/ blob[i].kind \notin {"size", "junk"} /\ blob' = [blob EXCEPT ![i] = Junk]
           \/ /\ blob[i].kind = "size"
              /\ \E n \in 0 .. Len(blob) : /\ <<n>> # blob[i].of
                                           /\ blob' = [blob EXCEPT ![i].of = <<n>>]
    BY <1>6 DEF Alter
  <2>2. blob[i] # Junk => /\ i \in 1 .. Len(f) /\ f[i].kind = blob[i].kind
                          /\ blob[i] = [kind |-> f[i].kind, of |-> blob[i].of, at |-> f[i].at]
    <3> SUFFICES ASSUME blob[i] # Junk
                 PROVE  /\ i \in 1 .. Len(f) /\ f[i].kind = blob[i].kind
                        /\ blob[i] = [kind |-> f[i].kind, of |-> blob[i].of, at |-> f[i].at]
      OBVIOUS
    <3>1. i <= Len(f) /\ Altered(blob[i], f[i])
      BY <1>2
    <3>2. i \in 1 .. Len(f)
      BY <1>2, <1>3, <3>1
    <3>3. CASE blob[i] = f[i]
      BY <1>3, <3>2, <3>3
    <3>4. CASE /\ f[i].kind = "size"
               /\ \E n \in Nat : blob[i] = [kind |-> "size", of |-> <<n>>, at |-> f[i].at]
      BY <3>2, <3>4
    <3> QED
      BY <3>1, <3>3, <3>4 DEF Altered
  <2>3. PICK x : /\ blob' = [blob EXCEPT ![i] = x] /\ x # blob[i]
                 /\ x = Junk \/ (i <= Len(f) /\ Altered(x, f[i]))
    <3>1. CASE blob[i].kind \notin {"size", "junk"} /\ blob' = [blob EXCEPT ![i] = Junk]
      <4>1. blob[i] # Junk
        BY <3>1 DEF Junk
      <4> QED
        BY <3>1, <4>1
    <3>2. CASE /\ blob[i].kind = "size"
               /\ \E n \in 0 .. Len(blob) : /\ <<n>> # blob[i].of
                                            /\ blob' = [blob EXCEPT ![i].of = <<n>>]
      <4>1. PICK n \in 0 .. Len(blob) : /\ <<n>> # blob[i].of
                                        /\ blob' = [blob EXCEPT ![i] = [blob[i] EXCEPT !.of = <<n>>]]
        BY <3>2
      <4>2. blob[i] # Junk
        BY <3>2 DEF Junk
      <4>3. PICK of : /\ i \in 1 .. Len(f) /\ f[i].kind = "size"
                      /\ blob[i] = [kind |-> "size", of |-> of, at |-> f[i].at]
        BY <2>2, <3>2, <4>2
      <4> DEFINE x == [kind |-> "size", of |-> <<n>>, at |-> f[i].at]
      <4>4. [blob[i] EXCEPT !.of = <<n>>] = x /\ x # blob[i]
        BY <4>1, <4>3
      <4>5. n \in Nat /\ i <= Len(f)
        BY <1>2, <1>3, <4>3
      <4>6. Altered(x, f[i])
        BY <4>3, <4>5 DEF Altered
      <4> HIDE DEF x
      <4> QED
        BY <4>1, <4>4, <4>5, <4>6
    <3> QED
      BY <2>1, <3>1, <3>2
  <2>4. blob' \in [1 .. Len(blob) -> S \cup {x}]
    BY <1>2, <2>3
  <2>5. blob' \in Seq(S \cup {x}) /\ Len(blob') = Len(blob)
    <3>1. blob' \in Seq(S \cup {x})
      BY <1>2, <2>4, SeqDef
    <3> QED
      BY <1>2, <2>4, <3>1, LenProperties
  <2>6. /\ \A y \in 1 .. Len(blob) : blob'[y] = IF y = i THEN x ELSE blob[y]
        /\ blob' # blob
    BY <1>2, <2>3
  <2>7. Patched(blob', f)
    BY <1>2, <2>3, <2>5, <2>6 DEF Patched
  <2> QED
    BY <2>6, <2>7
<1> QED
  BY <1>4, <1>5, <1>6 DEF Resize

\* A damage is counted, and leaves its mark.
LEMMA DamageStep ==
    ASSUME \A S : Failed \notin Seq(S), DamageInv, damages \in Nat, Resize \/ Alter
    PROVE  DamageInv'
<1>1. /\ blob # Failed /\ plain \in Seq(Bytes)
      /\ plain' = plain /\ key' = key /\ damages' = damages + 1
  BY DEF DamageInv, Resize, Alter
<1>2. PICK m \in Nat, j \in Nat, c \in Nat :
         /\ Patched(blob, File(key, m, j, c, plain))
         /\ damages = 0 => blob = File(key, m, j, c, plain)
  BY <1>1 DEF DamageInv
<1>3. HasParts(File(key, m, j, c, plain), key, m, j, c, plain)
  BY <1>1, FileParts, Zenon
<1>4. /\ Patched(blob', File(key, m, j, c, plain))
      /\ blob = File(key, m, j, c, plain) => blob' # File(key, m, j, c, plain)
  BY <1>1, <1>2, <1>3, OneDamage, Zenon
<1>5. blob' # Failed
  BY <1>4, Zenon DEF Patched
<1>6. damages' # 0 /\ (damages' = 1 => damages = 0)
  BY <1>1
<1>7. \E m2, j2, c2 \in Nat :
         /\ Patched(blob', File(key', m2, j2, c2, plain'))
         /\ damages' = 0 => blob' = File(key', m2, j2, c2, plain')
         /\ damages' = 1 => blob' # File(key', m2, j2, c2, plain')
  <2> WITNESS m \in Nat, j \in Nat, c \in Nat
  <2> QED
    BY <1>1, <1>2, <1>4, <1>6, Zenon
<1> QED
  BY <1>1, <1>5, <1>7, Zenon DEF DamageInv

\* For every plaintext, list of buckets and field lengths, any number of rewraps
\* and of damages: a file opens with its master key to what was stored or to
\* nothing, with another key to nothing, and one that is damaged once never opens
\* (decrypt_secret, and the rewrap, which re-seals only a DEK that it could open).
\* The mark of a failure is not a byte string, so no DEK and no file.
THEOREM SecretsReadBackOrFail ==
    ASSUME \A S : Failed \notin Seq(S)
    PROVE  SecretSpec => []ReadsBackOrFails
<1>1. \A n \in Nat : Dek(n) # Failed
  BY Lengths3, FieldIsSeq DEF Dek
<1>2. SecretInit => DamageInv
  BY DEF SecretInit, BlobInit, DamageInv
<1>3. SecretInv /\ DamageInv /\ [SecretNext]_secretVars => DamageInv'
  <2> SUFFICES ASSUME SecretInv, DamageInv, [SecretNext]_secretVars PROVE DamageInv'
    OBVIOUS
  <2>1. drawn \in Nat /\ damages \in Nat /\ chars \in Seq(Bytes)
    BY DEF SecretInv, GeneratorInv, BlobInv
  <2>2. CASE StoreGenerated \/ StoreTyped
    <3>1. PICK p \in Seq(Bytes) : Encrypt(p)
      BY <2>1, <2>2, BlobAssumption DEF StoreGenerated, StoreTyped
    <3> QED
      BY <2>1, <3>1, DamageEncrypt
  <2>3. CASE \E k \in MasterKeys : Rewrap(k)
    BY <2>1, <2>3, DamageRewrap
  <2>4. CASE Resize \/ Alter
    BY <2>1, <2>4, DamageStep
  <2>5. CASE UNCHANGED vars
    BY <2>5 DEF DamageInv, vars
  <2> QED
    BY <2>2, <2>3, <2>4, <2>5 DEF SecretNext, secretVars
<1>4. SecretInv /\ DamageInv => ReadsBackOrFails
  <2> SUFFICES ASSUME SecretInv, DamageInv, blob # Failed, NEW k \in MasterKeys
               PROVE  \/ /\ DecryptSecret(blob, k) = plain
                         /\ k = key /\ damages # 1
                      \/ /\ DecryptSecret(blob, k) = Failed
                         /\ k # key \/ damages > 0
    BY DEF ReadsBackOrFails
  <2>1. PICK m \in Nat, j \in Nat, c \in Nat :
           /\ Patched(blob, File(key, m, j, c, plain))
           /\ damages = 0 => blob = File(key, m, j, c, plain)
           /\ damages = 1 => blob # File(key, m, j, c, plain)
    BY DEF DamageInv
  <2>2. damages \in Nat /\ plain \in Seq(Bytes)
    BY DEF SecretInv, BlobInv, DamageInv
  <2>3. HasParts(File(key, m, j, c, plain), key, m, j, c, plain)
    BY <2>2, FileParts, Zenon
  <2>4. k # key \/ blob # File(key, m, j, c, plain) => DecryptSecret(blob, k) = Failed
    <3> DEFINE f == File(key, m, j, c, plain)
    <3> SUFFICES ASSUME k # key \/ blob # f
                 PROVE  DecryptSecret(blob, k) = Failed
      OBVIOUS
    <3>1. HasParts(f, key, m, j, c, plain) /\ Patched(blob, f) /\ plain \in Seq(Bytes)
      BY <2>1, <2>2, <2>3
    <3> HIDE DEF f
    <3> QED
      BY <3>1, OnlyWholeFilesOpen
  <2>5. DecryptSecret(File(key, m, j, c, plain), key) = plain
    BY <1>1, <2>2, Decrypted
  <2>6. plain # Failed
    BY <2>2, BlobAssumption
  <2>7. CASE DecryptSecret(blob, k) # Failed
    BY <2>1, <2>4, <2>5, <2>7, Zenon
  <2>8. CASE DecryptSecret(blob, k) = Failed
    <3>1. k = key /\ damages = 0 => FALSE
      BY <2>1, <2>5, <2>6, <2>8, Zenon
    <3> QED
      BY <2>2, <2>8, <3>1
  <2> QED
    BY <2>7, <2>8
<1> QED
  BY <1>2, <1>3, <1>4, SecretSpecInv, PTL DEF SecretSpec

-----------------------------------------------------------------------------
(* Passwords *)

\* The usable part of a class is its pool.
LEMMA UsableIsPool ==
    ASSUME NEW p, p.exclude \in BOOLEAN, NEW class
    PROVE  {c \in class : ~(p.exclude /\ c \in Ambiguous)} = Pool(p, class)
BY DEF Pool

\* There are finitely many pools.
LEMMA PoolsAreFinite ==
    ASSUME NEW p, p.classes \subseteq Classes
    PROVE  IsFiniteSet(PoolsFor(p)) /\ Cardinality(PoolsFor(p)) \in Nat
<1> DEFINE images == {Pool(p, class) : class \in p.classes}
           f == [class \in p.classes |-> Pool(p, class)]
<1>1. IsFiniteSet(p.classes)
  BY FS_Subset, GeneratorAssumption
<1>2. f \in Surjection(p.classes, images)
  BY DEF Surjection
<1>3. IsFiniteSet(images)
  BY <1>1, <1>2, FS_Surjection
<1>4. PoolsFor(p) \in SUBSET images
  BY DEF PoolsFor
<1>5. IsFiniteSet(PoolsFor(p))
  BY <1>3, <1>4, FS_Subset
<1> QED
  BY <1>5, FS_CardinalityType

\* Different pools have no character in common.
LEMMA PoolsAreDisjoint ==
    ASSUME NEW p, p.classes \subseteq Classes,
           NEW x \in PoolsFor(p), NEW y \in PoolsFor(p), x # y
    PROVE  x \cap y = {}
<1>1. PICK class1 \in Classes, class2 \in Classes : x = Pool(p, class1) /\ y = Pool(p, class2)
  BY DEF PoolsFor
<1>2. class1 \cap class2 = {}
  BY <1>1, GeneratorAssumption
<1> QED
  BY <1>1, <1>2 DEF Pool

\* A policy that is refused although it asks for a character has no password:
\* no class has one left, or there are more classes than places.
LEMMA RefusedHasNone ==
    ASSUME NEW p, p.classes \subseteq Classes, p.exclude \in BOOLEAN, p.length \in Int,
           p.length > 0, ~Accepted(p),
           NEW password \in [1 .. p.length -> UNION Classes]
    PROVE  ~Meets(password, p)
<1> SUFFICES ASSUME Meets(password, p) PROVE FALSE
  OBVIOUS
<1> DEFINE Used == {password[i] : i \in 1 .. p.length}
<1>1. password \in Seq(UNION Classes) /\ Len(password) = p.length
  <2>1. p.length \in Nat
    OBVIOUS
  <2>2. password \in Seq(UNION Classes)
    BY <2>1, SeqDef
  <2> QED
    BY <2>1, <2>2, LenProperties
<1>2. /\ \A c \in Used : \E class \in p.classes : c \in Pool(p, class)
      /\ \A class \in p.classes : Pool(p, class) = {} \/ Used \cap Pool(p, class) # {}
  <2> DEFINE Usable(class) == {c \in class : ~(p.exclude /\ c \in Ambiguous)}
  <2>1. \A class : Usable(class) = Pool(p, class)
    BY UsableIsPool
  <2>2. /\ \A c \in Used : \E class \in p.classes : c \in Usable(class)
        /\ \A class \in p.classes : Usable(class) = {} \/ Used \cap Usable(class) # {}
    BY <1>1 DEF Meets
  <2> HIDE DEF Usable
  <2> QED
    BY <2>1, <2>2
<1>3. PoolsFor(p) # {}
  <2>1. password[1] \in Used
    OBVIOUS
  <2> QED
    BY <1>2, <2>1 DEF PoolsFor
<1>4. \A pool \in PoolsFor(p) : \E i \in 1 .. p.length : password[i] \in pool
  BY <1>2 DEF PoolsFor
<1> DEFINE f == [pool \in PoolsFor(p) |-> CHOOSE i \in 1 .. p.length : password[i] \in pool]
<1>5. /\ f \in [PoolsFor(p) -> 1 .. p.length]
      /\ \A pool \in PoolsFor(p) : password[f[pool]] \in pool
  BY <1>4
<1>6. Cardinality(1 .. p.length) < Cardinality(PoolsFor(p)) /\ IsFiniteSet(1 .. p.length)
  <2>1. IsFiniteSet(1 .. p.length) /\ Cardinality(1 .. p.length) = p.length
    BY FS_Interval
  <2>2. p.length < Cardinality(PoolsFor(p))
    BY <1>3, PoolsAreFinite DEF Accepted
  <2> QED
    BY <2>1, <2>2
<1> HIDE DEF f
<1>7. PICK x \in PoolsFor(p), y \in PoolsFor(p) : x # y /\ f[x] = f[y]
  BY <1>5, <1>6, PoolsAreFinite, FS_PigeonHole
<1>8. x \cap y = {}
  BY <1>7, PoolsAreDisjoint
<1> QED
  BY <1>5, <1>7, <1>8

\* As the password grows it has a character of each pool that is done with, none
\* but from the pools, and room for those to come.
PasswordInv ==
    /\ policy.length \in Int /\ policy.exclude \in BOOLEAN
    /\ step = "check" => chars = <<>>
    /\ step = "pick" =>
          /\ Accepted(policy)
          /\ chars \in Seq(UNION PoolsFor(policy))
          /\ Len(chars) + Cardinality(unpicked) <= policy.length
          /\ \A pool \in PoolsFor(policy) \ unpicked :
                \E i \in 1 .. Len(chars) : chars[i] \in pool
    /\ step = "refused" => ~Accepted(policy)
    /\ step = "done" => Meets(chars, policy)

\* The guaranteed character of a pool takes one place and one pool.
LEMMA PickStep ==
    ASSUME GeneratorInv, PasswordInv, PickGuaranteed
    PROVE  PasswordInv'
<1> DEFINE pool == CHOOSE pool \in unpicked : TRUE
<1>1. pool \in unpicked /\ pool \in PoolsFor(policy)
  BY DEF PickGuaranteed, GeneratorInv
<1>2. /\ policy' = policy /\ step' = step /\ step = "pick" /\ unpicked' = unpicked \ {pool}
      /\ \E c \in pool : chars' = Append(chars, c)
  BY DEF PickGuaranteed
<1>3. PICK c \in pool : chars' = Append(chars, c)
  BY <1>2
<1> HIDE DEF pool
<1>4. c \in UNION PoolsFor(policy) /\ chars \in Seq(UNION PoolsFor(policy))
  BY <1>1, <1>2 DEF PasswordInv
<1>5. /\ chars' \in Seq(UNION PoolsFor(policy)) /\ Len(chars') = Len(chars) + 1
      /\ \A i \in 1 .. Len(chars) : chars'[i] = chars[i]
      /\ chars'[Len(chars) + 1] = c /\ Len(chars) \in Nat
  BY <1>3, <1>4, OneMore
<1>6. /\ Cardinality(unpicked') = Cardinality(unpicked) - 1 /\ Cardinality(unpicked) \in Nat
  <2>1. IsFiniteSet(unpicked)
    BY PoolsAreFinite, FS_Subset DEF GeneratorInv
  <2> QED
    BY <1>1, <1>2, <2>1, FS_RemoveElement, FS_CardinalityType
<1>7. Len(chars') + Cardinality(unpicked') <= policy.length
  BY <1>2, <1>5, <1>6 DEF PasswordInv
<1>8. ASSUME NEW x \in PoolsFor(policy) \ unpicked'
      PROVE  \E i \in 1 .. Len(chars') : chars'[i] \in x
  <2>1. CASE x = pool
    BY <1>5, <2>1
  <2>2. CASE x # pool
    <3>1. PICK i \in 1 .. Len(chars) : chars[i] \in x
      BY <1>2, <2>2 DEF PasswordInv
    <3> QED
      BY <1>5, <3>1
  <2> QED
    BY <2>1, <2>2
<1>9. Accepted(policy) /\ policy.length \in Int /\ policy.exclude \in BOOLEAN
  BY <1>2 DEF PasswordInv
<1> QED
  BY <1>2, <1>5, <1>7, <1>8, <1>9 DEF PasswordInv

\* The rest comes from all pools, up to the length.
LEMMA FillStep ==
    ASSUME GeneratorInv, PasswordInv, Fill
    PROVE  PasswordInv'
<1>1. /\ policy' = policy /\ step' = step /\ step = "pick"
      /\ unpicked' = unpicked /\ unpicked = {} /\ Len(chars) < policy.length
  BY DEF Fill
<1>2. PICK c \in UNION PoolsFor(policy) : chars' = Append(chars, c)
  BY DEF Fill
<1>3. chars \in Seq(UNION PoolsFor(policy))
  BY <1>1 DEF PasswordInv
<1>4. /\ chars' \in Seq(UNION PoolsFor(policy)) /\ Len(chars') = Len(chars) + 1
      /\ \A i \in 1 .. Len(chars) : chars'[i] = chars[i]
      /\ Len(chars) \in Nat
  BY <1>2, <1>3, OneMore
<1>5. Len(chars') + Cardinality(unpicked') <= policy.length
  BY <1>1, <1>4, FS_EmptySet DEF PasswordInv
<1>6. ASSUME NEW x \in PoolsFor(policy) \ unpicked'
      PROVE  \E i \in 1 .. Len(chars') : chars'[i] \in x
  <2>1. PICK i \in 1 .. Len(chars) : chars[i] \in x
    BY <1>1 DEF PasswordInv
  <2> QED
    BY <1>4, <2>1
<1>7. Accepted(policy) /\ policy.length \in Int /\ policy.exclude \in BOOLEAN
  BY <1>1 DEF PasswordInv
<1> QED
  BY <1>1, <1>4, <1>5, <1>6, <1>7 DEF PasswordInv

\* Shuffling keeps the length and the characters there are.
LEMMA ShuffleStep ==
    ASSUME GeneratorInv, PasswordInv, Shuffle
    PROVE  PasswordInv'
<1> DEFINE n == Len(chars)
<1>1. /\ policy' = policy /\ step = "pick" /\ step' = "done" /\ unpicked = {}
      /\ n >= policy.length
  BY DEF Shuffle
<1>2. PICK order \in [1 .. n -> 1 .. n] :
         /\ \A i, j \in 1 .. n : order[i] = order[j] => i = j
         /\ chars' = [i \in 1 .. n |-> chars[order[i]]]
  BY DEF Shuffle
<1>3. /\ chars \in Seq(UNION PoolsFor(policy)) /\ n \in Nat
      /\ \A i \in 1 .. n : chars[i] \in UNION PoolsFor(policy)
      /\ policy.length \in Int /\ policy.exclude \in BOOLEAN
  <2>1. chars \in Seq(UNION PoolsFor(policy))
    BY <1>1 DEF PasswordInv
  <2> QED
    BY <2>1, LenProperties, ElementOfSeq DEF PasswordInv
<1>4. n = policy.length
  BY <1>1, <1>3, FS_EmptySet DEF PasswordInv
<1> HIDE DEF n
<1>5. \A i \in 1 .. n : \E j \in 1 .. n : order[j] = i
  <2>1. order \in Injection(1 .. n, 1 .. n)
    BY <1>2 DEF Injection, IsInjective
  <2>2. IsFiniteSet(1 .. n)
    BY <1>3, FS_Interval
  <2>3. order \in Surjection(1 .. n, 1 .. n)
    BY <2>1, <2>2, FS_Injection
  <2> QED
    BY <2>3 DEF Surjection
<1>6. /\ Len(chars') = n
      /\ \A i \in 1 .. n : chars'[i] \in UNION PoolsFor(policy)
      /\ \A i \in 1 .. n : \E j \in 1 .. n : chars'[j] = chars[i]
  <2>1. chars' \in [1 .. n -> UNION PoolsFor(policy)]
    BY <1>2, <1>3
  <2>2. chars' \in Seq(UNION PoolsFor(policy))
    BY <1>3, <2>1, SeqDef
  <2>3. Len(chars') = n
    BY <1>3, <2>1, <2>2, LenProperties
  <2> QED
    BY <1>2, <1>5, <2>1, <2>3
<1> DEFINE Used == {chars'[i] : i \in 1 .. Len(chars')}
<1>7. \A c \in Used : \E class \in policy.classes : c \in Pool(policy, class)
  BY <1>6 DEF PoolsFor
<1>8. ASSUME NEW class \in policy.classes
      PROVE  Pool(policy, class) = {} \/ Used \cap Pool(policy, class) # {}
  <2>1. CASE Pool(policy, class) # {}
    <3>1. Pool(policy, class) \in PoolsFor(policy) \ unpicked
      BY <1>1, <2>1 DEF PoolsFor
    <3>2. PICK i \in 1 .. n : chars[i] \in Pool(policy, class)
      BY <1>1, <3>1 DEF PasswordInv, n
    <3> QED
      BY <1>6, <3>2
  <2> QED
    BY <2>1
<1>9. Meets(chars', policy)
  <2> DEFINE Usable(class) == {c \in class : ~(policy.exclude /\ c \in Ambiguous)}
  <2>1. \A class \in policy.classes : Usable(class) = Pool(policy, class)
    BY <1>3, UsableIsPool
  <2> HIDE DEF Usable
  <2>2. /\ \A c \in Used : \E class \in policy.classes : c \in Usable(class)
        /\ \A class \in policy.classes : Usable(class) = {} \/ Used \cap Usable(class) # {}
    BY <1>7, <1>8, <2>1
  <2> QED
    BY <1>4, <1>6, <2>2 DEF Meets, Usable
<1> QED
  BY <1>1, <1>3, <1>9 DEF PasswordInv, Meets

\* Every step of generate, and all that is done with the file, keeps it.
LEMMA PasswordInvStep ==
    GeneratorInv /\ PasswordInv /\ [SecretNext]_secretVars => PasswordInv'
<1> SUFFICES ASSUME GeneratorInv, PasswordInv, [SecretNext]_secretVars PROVE PasswordInv'
  OBVIOUS
<1>1. CASE CheckPolicy
  <2>1. /\ policy' = policy /\ chars' = chars /\ chars = <<>>
        /\ policy.length \in Int /\ policy.exclude \in BOOLEAN
    BY <1>1 DEF CheckPolicy, PasswordInv
  <2>2. CASE Accepted(policy)
    <3>1. step' = "pick" /\ unpicked' = PoolsFor(policy)
      BY <1>1, <2>2 DEF CheckPolicy
    <3>2. <<>> \in Seq(UNION PoolsFor(policy)) /\ Len(<<>>) = 0
      BY EmptySeq
    <3>3. 0 + Cardinality(PoolsFor(policy)) <= policy.length
      BY <2>1, <2>2, PoolsAreFinite DEF Accepted, GeneratorInv
    <3> QED
      BY <2>1, <2>2, <3>1, <3>2, <3>3 DEF PasswordInv, Accepted, PoolsFor, Pool
  <2>3. CASE ~Accepted(policy)
    <3>1. step' = "refused"
      BY <1>1, <2>3 DEF CheckPolicy
    <3> QED
      BY <2>1, <2>3, <3>1 DEF PasswordInv, Accepted, PoolsFor, Pool
  <2> QED
    BY <2>2, <2>3
<1>2. CASE PickGuaranteed
  BY <1>2, PickStep
<1>3. CASE Fill
  BY <1>3, FillStep
<1>4. CASE Shuffle
  BY <1>4, ShuffleStep
<1>5. CASE UNCHANGED generatorVars
  BY <1>5 DEF PasswordInv, generatorVars
<1> QED
  BY <1>1, <1>2, <1>3, <1>4, <1>5
     DEF SecretNext, GeneratorNext, secretVars, StoreGenerated, StoreTyped

\* For every set of classes and every length: a password that is handed out has
\* its length, a character of each class that has one left and none but of them,
\* and a positive length is refused only when no password meets the policy
\* (generate_password and _pool_for).
THEOREM PoliciesAreHonoured == SecretSpec => []PolicyIsHonoured
<1>1. SecretInit => PasswordInv
  <2> SUFFICES ASSUME SecretInit PROVE PasswordInv
    OBVIOUS
  <2>1. policy.length \in Int /\ policy.exclude \in BOOLEAN
    <3>1. CASE GeneratorInit
      <4>1. policy.length \in Lengths /\ policy.exclude \in BOOLEAN
        BY <3>1 DEF GeneratorInit, Policy
      <4> QED
        BY <4>1, GeneratorAssumption
    <3>2. CASE policy = [length |-> 0, classes |-> {}, exclude |-> FALSE]
      BY <3>2
    <3> QED
      BY <3>1, <3>2 DEF SecretInit
  <2>2. step \in {"check", "typed"} /\ chars = <<>>
    BY DEF SecretInit, GeneratorInit
  <2> QED
    BY <2>1, <2>2 DEF PasswordInv
<1>2. GeneratorInv /\ PasswordInv => PolicyIsHonoured
  <2> SUFFICES ASSUME GeneratorInv, PasswordInv PROVE PolicyIsHonoured
    OBVIOUS
  <2>1. step = "done" => Meets(chars, policy)
    BY DEF PasswordInv
  <2>2. ASSUME step = "refused", policy.length > 0,
               NEW password \in [1 .. policy.length -> UNION Classes]
        PROVE  ~Meets(password, policy)
    BY <2>2, RefusedHasNone DEF GeneratorInv, PasswordInv
  <2> QED
    BY <2>1, <2>2 DEF PolicyIsHonoured
<1>3. SecretInv => GeneratorInv
  BY DEF SecretInv
<1> QED
  BY <1>1, <1>2, <1>3, PasswordInvStep, SecretSpecInv, PTL DEF SecretSpec

=============================================================================
