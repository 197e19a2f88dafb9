CONSTANTS
    Dest = {d1}
    Data = {b1, b2}
    Buf = 3
    SpineReady = {TRUE, FALSE}
SPECIFICATION BridgeSpec
INVARIANT PacketAsRequested
