CONSTANTS
    FifoBytes = 2
    HdrCycles = 3
    Results = 4
    Dest = {d1, d2}
    Data = {b1, b2}
    Buf = 3
    SpineReady = {TRUE}
SPECIFICATION TopFairSpec
INVARIANT TopTypeOK
INVARIANT ResultsReadOnce
INVARIANT AnswerIsOwn
INVARIANT PassedOnce
INVARIANT PacketAsRequested
PROPERTY NativeAnswered
PROPERTY TriggerAnswered
