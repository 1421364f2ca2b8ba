----------------------------- MODULE SecretBlob -----------------------------
(* The file of one secret: padding, the layout encrypt_secret writes and     *)
(* decrypt_secret and rewrap_master_key_in_blob take apart, and what becomes *)
(* of a file that was cut short or altered.  A blob is a sequence of cells.  *)
(* AES-GCM is ideal: sealed cells open only whole, under their key and       *)
(* nonce; os.urandom draws what was not drawn before.                        *)
EXTENDS Integers, Sequences

CONSTANTS Bytes,       \* what plaintexts are made of; "00" and "80" among them
          Plaintexts,  \* what users store
          MasterKeys,
          Buckets,     \* _PADDING_BUCKETS, increasing
          NonceLen, DekLen, TagLen,  \* lengths in cells
          MaxRewraps,  \* bound: rotations
          MaxDamages,  \* bound: damages to the file
          Failed       \* CryptoError, and no file yet

ASSUME BlobAssumption ==
    /\ {"00", "80"} \subseteq Bytes /\ Plaintexts \subseteq Seq(Bytes)
    /\ Buckets \in Seq(Nat \ {0}) /\ Buckets # <<>>
    /\ \A i, j \in 1 .. Len(Buckets) : i < j => Buckets[i] < Buckets[j]
    /\ {NonceLen, DekLen, TagLen} \subseteq Nat \ {0}
    /\ MaxRewraps \in Nat /\ MaxDamages \in Nat
    /\ Failed \notin Seq(Bytes) \cup MasterKeys

VARIABLES
    plain,     \* what was stored, or Failed
    blob,      \* the file, or Failed
    key,       \* the master key it is under
    drawn,     \* calls of os.urandom so far
    rewraps,   \* rotations so far
    damages    \* damages to the file so far

vars == <<plain, blob, key, drawn, rewraps, damages>>

-----------------------------------------------------------------------------
(* Padding *)

Largest == Buckets[Len(Buckets)]

\* Mutant: the bucket is filled before the 0x80 byte is counted.
TightBucketFor(len) ==
    LET fits == {i \in 1 .. Len(Buckets) : len <= Buckets[i]}
    IN  IF fits # {} THEN Buckets[CHOOSE i \in fits : \A j \in fits : i <= j]
                     ELSE ((len + Largest - 1) \div Largest) * Largest

\* _bucket_for: the first bucket that takes the plaintext and one byte more.
BucketFor(len) ==
    LET needed == len + 1
        fits   == {i \in 1 .. Len(Buckets) : needed <= Buckets[i]}
    IN  IF fits # {} THEN Buckets[CHOOSE i \in fits : \A j \in fits : i <= j]
                     ELSE ((needed + Largest - 1) \div Largest) * Largest

\* _pad
Pad(p) == [i \in 1 .. BucketFor(Len(p)) |->
             IF i <= Len(p) THEN p[i] ELSE IF i = Len(p) + 1 THEN "80" ELSE "00"]

\* Mutant: every trailing 0x00 and 0x80 goes.
EagerUnpad(s) ==
    LET kept == {0} \cup {i \in 1 .. Len(s) : s[i] \notin {"00", "80"}}
        end  == CHOOSE i \in kept : \A j \in kept : j <= i
    IN  SubSeq(s, 1, end)

\* _unpad: back over the 0x00 bytes to the last other byte, which must be 0x80.
Unpad(s) ==
    LET others == {0} \cup {i \in 1 .. Len(s) : s[i] # "00"}
        end    == CHOOSE i \in others : \A j \in others : j <= i
    IN  IF end > 0 /\ s[end] = "80" THEN SubSeq(s, 1, end - 1) ELSE Failed

-----------------------------------------------------------------------------
(* AES-GCM and the layout *)

Field(kind, of, len) == [i \in 1 .. len |-> [kind |-> kind, of |-> of, at |-> i]]

Nonce(n) == Field("nonce", <<n>>, NonceLen)
Dek(n)   == Field("dek", <<n>>, DekLen)
Size(n)  == Field("size", <<n>>, 1)
Junk     == [kind |-> "junk", of |-> <<>>, at |-> 0]

\* AESGCM(k).encrypt: as many cells as the text has, and the tag.
Seal(k, nonce, text) == Field("sealed", <<k, nonce, text>>, Len(text) + TagLen)

\* AESGCM(k).decrypt, InvalidTag for anything but a whole ciphertext.
Open(k, nonce, cells) ==
    IF /\ cells # <<>> /\ cells[1].kind = "sealed"
       /\ cells[1].of[1] = k /\ cells[1].of[2] = nonce
       /\ cells = Seal(k, nonce, cells[1].of[3])
    THEN cells[1].of[3]
    ELSE Failed

\* FILE_MAGIC and FILE_VERSION
Prologue == Field("magic", <<>>, 1) \o Field("version", <<1>>, 1)

\* Where the fields end.
DekNonceEnd == Len(Prologue) + NonceLen
DekEnd      == DekNonceEnd + DekLen + TagLen
NonceEnd    == DekEnd + NonceLen
HeaderLen   == NonceEnd + 1

\* encrypt_secret, with the DEK and the nonces drawn after d draws.
EncryptSecret(p, k, d) ==
    LET padded == Pad(p) IN
    Prologue \o Nonce(d + 2) \o Seal(k, Nonce(d + 2), Dek(d + 1))
             \o Nonce(d + 3) \o Size(Len(padded))
             \o Seal(Dek(d + 1), Nonce(d + 3), padded)

\* What decrypt_secret and the rewrap check before they use a key.
WellFormed(b) == /\ Len(b) >= HeaderLen
                 /\ SubSeq(b, 1, Len(Prologue)) = Prologue

DekOf(b, k) == Open(k, SubSeq(b, Len(Prologue) + 1, DekNonceEnd),
                       SubSeq(b, DekNonceEnd + 1, DekEnd))

\* The length the header announces is the length there is.  A size field that
\* was altered announces another number.
LengthAnnounced(b) == b[HeaderLen].kind = "size"
                      /\ Len(b) = HeaderLen + b[HeaderLen].of[1] + TagLen

\* decrypt_secret
DecryptSecret(b, k) ==
    IF ~WellFormed(b) \/ ~LengthAnnounced(b) \/ DekOf(b, k) = Failed THEN Failed
    ELSE LET padded == Open(DekOf(b, k), SubSeq(b, DekEnd + 1, NonceEnd),
                            SubSeq(b, HeaderLen + 1, Len(b)))
         IN  IF padded = Failed THEN Failed ELSE Unpad(padded)

\* The new wrapped DEK goes where the old one was.
Splice(b, dek, new, d) ==
    SubSeq(b, 1, Len(Prologue)) \o Nonce(d + 1) \o Seal(new, Nonce(d + 1), dek)
        \o SubSeq(b, DekEnd + 1, Len(b))

\* rewrap_master_key_in_blob: of the content it looks at nothing.
RewrapBlob(b, old, new, d) ==
    IF ~WellFormed(b) \/ DekOf(b, old) = Failed THEN Failed
    ELSE Splice(b, DekOf(b, old), new, d)

-----------------------------------------------------------------------------

BlobInit ==
    /\ plain = Failed /\ blob = Failed
    /\ key \in MasterKeys
    /\ drawn = 0 /\ rewraps = 0 /\ damages = 0

\* insert of p.
Encrypt(p) ==
    /\ blob = Failed
    /\ plain' = p
    /\ blob' = EncryptSecret(p, key, drawn)
    /\ drawn' = drawn + 3
    /\ UNCHANGED <<key, rewraps, damages>>

\* A rotation that comes to this file.
Rewrap(new) ==
    LET rewrapped == RewrapBlob(blob, key, new, drawn) IN
    /\ blob # Failed /\ rewraps < MaxRewraps
    /\ rewrapped # Failed
    /\ blob' = rewrapped
    /\ key' = new
    /\ drawn' = drawn + 1
    /\ rewraps' = rewraps + 1
    /\ UNCHANGED <<plain, damages>>

\* The file is cut short, as a temporary file that a killed process left is, or
\* gets cells it did not have.
Resize ==
    /\ blob # Failed /\ damages < MaxDamages
    /\ damages' = damages + 1
    /\ \/ \E n \in 0 .. Len(blob) - 1 : blob' = SubSeq(blob, 1, n)
       \/ blob' = Append(blob, Junk)
    /\ UNCHANGED <<plain, key, drawn, rewraps>>

\* A cell of the file is altered; an altered size is another size.
Alter ==
    /\ blob # Failed /\ damages < MaxDamages
    /\ damages' = damages + 1
    /\ \E i \in 1 .. Len(blob) :
          \/ blob[i].kind \notin {"size", "junk"} /\ blob' = [blob EXCEPT ![i] = Junk]
          \/ /\ blob[i].kind = "size"
             /\ \E n \in 0 .. Len(blob) : /\ <<n>> # blob[i].of
                                          /\ blob' = [blob EXCEPT ![i].of = <<n>>]
    /\ UNCHANGED <<plain, key, drawn, rewraps>>

BlobNext == \/ \E p \in Plaintexts : Encrypt(p)
            \/ \E k \in MasterKeys : Rewrap(k)
            \/ Resize \/ Alter

-----------------------------------------------------------------------------
(* Properties *)

\* However often it was rewrapped, a file opens with its master key to exactly
\* what was stored, whatever zeros and padding markers that ends in, and with no
\* other key; one that was cut, lengthened or altered opens to nothing, a rewrap
\* that only looked at its header notwithstanding (a second damage can undo the
\* first).
ReadsBackOrFails ==
    blob # Failed =>
        \A k \in MasterKeys :
            \/ /\ DecryptSecret(blob, k) = plain
               /\ k = key /\ damages # 1
            \/ /\ DecryptSecret(blob, k) = Failed
               /\ k # key \/ damages > 0

\* The length of a file tells of its plaintext only the bucket (crypto.py:47-50):
\* it is that of the shortest admissible padding, the same before and after any
\* number of rewraps.
Admissible(n) == \/ \E i \in 1 .. Len(Buckets) : n = Buckets[i]
                 \/ n % Largest = 0

SizeTellsBucket ==
    blob # Failed /\ damages = 0 =>
        LET room == Len(blob) - HeaderLen - TagLen IN
        /\ Admissible(room) /\ Len(plain) < room
        /\ \A n \in Len(plain) + 1 .. room - 1 : ~Admissible(n)

=============================================================================
