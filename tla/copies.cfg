SPECIFICATION Spec
CONSTANTS
    AvxBytes = 4
    SseBytes = 2
    Dsts <- MCPointers
    Srcs <- MCPointers
    CopySizes <- MCSizes
    Addrs <- MCAddrs
INVARIANTS
    CopyTypeOK
    CopyExact
    NoAlignmentFault
    FencedAtReturn
PROPERTIES
    CopyReturns
