CONSTANTS
    NL = 2
    Bx = 2
    By = 2
    Packet <- MCPackets
SPECIFICATION FairSpec
CHECK_DEADLOCK FALSE
INVARIANT TypeOK
INVARIANT ZeroMisroutes
INVARIANT UntornPackets
PROPERTY ByteExactDelivery
PROPERTY EveryPacketArrives
