SPECIFICATION Spec

CONSTANTS
    c1 = c1
    c2 = c2
    Clients = {c1}
    MaxRequests = 1

PROPERTY InterruptEnds
