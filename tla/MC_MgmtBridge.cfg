CONSTANTS
    INJ_BYTES = 2
    TAP_BYTES = 2
    RX_BYTES = 2
    Base = 4
    FrameLen = {3}
    Lens = {0, 5, 10}
SPECIFICATION MgmtSpec
INVARIANT MgmtTypeOK
INVARIANT InjectedInOrder
INVARIANT InStep
INVARIANT PayloadDelivered
