SPECIFICATION Spec

CONSTANTS
    a = a
    b = b
    none = none
    Data = {a, b}
    Cleared = none
    MaxNodes = 5

CHECK_DEADLOCK FALSE

INVARIANTS
    TypeOK
    LinksAgree
    DestroyFreesAll

PROPERTY IsSequence
