SPECIFICATION Spec
CONSTANTS
    c1 = c1
    c2 = c2
    c3 = c3
    s = s
    r = r
    Copies = {c1, c2, c3}
    Other = Other
    Empty = Empty
    TextOf <- Texts
CHECK_DEADLOCK FALSE
PROPERTY
    SecretIsWiped
