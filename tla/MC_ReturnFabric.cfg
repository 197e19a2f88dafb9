CONSTANTS
    NL = 2
    Bx = 2
    By = 2
    EchoLen = 3
    Echoes <- MCEchoes
SPECIFICATION FairSpec
INVARIANT EchoBytesExact
INVARIANT BypassedOnce
PROPERTY RootSeesWholePackets
PROPERTY EchoReachesHost
