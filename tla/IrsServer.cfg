SPECIFICATION Spec

CONSTANTS
    c1 = c1
    c2 = c2
    Clients = {c1, c2}
    MaxRequests = 2

INVARIANTS
    TypeOK
    CoreOutlivesThreads
    KeepsWhatItAnswered
    AnswersInOrder

PROPERTIES
    StopEnds
    EveryMessageAnswered
