SPECIFICATION SecretSpec
CONSTANTS
    Bytes <- SmallBytes
    Plaintexts <- SmallPlaintexts
    MasterKeys = {k0, k1, k2}
    Buckets <- SmallBuckets
    NonceLen = 1
    DekLen = 1
    TagLen = 1
    MaxRewraps = 2
    MaxDamages = 2
    Failed = Failed
    Classes <- SmallClasses
    Ambiguous = {"l", "0"}
    Lengths = {0, 1, 2, 3}
SYMMETRY KeySymmetry
CHECK_DEADLOCK FALSE
INVARIANTS
    ReadsBackOrFails
    SizeTellsBucket
    PolicyIsHonoured
