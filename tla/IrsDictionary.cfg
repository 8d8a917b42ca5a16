SPECIFICATION Spec

CONSTANTS
    Keys <- MCKeys
    Probes <- MCProbes
    MaxAppends = 5

CHECK_DEADLOCK FALSE

INVARIANTS
    TypeOK
    WalkMeetsAll
    LookupExact
    LookupLaw
    TogetherOnce
