SPECIFICATION Spec

CONSTANTS
    a = a
    b = b
    none = none
    Data = {a, b}
    Cleared = none
    MaxNodes = 3

CHECK_DEADLOCK FALSE

INVARIANT MoreMeansElement
