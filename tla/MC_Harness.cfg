CONSTANTS
    Base = 2
    LOCAL_MODULE = 1
    CrcInit = 3
    CrcStep <- MCCrcStep
    MaxBytes = 9
    Overlong = FALSE
    Crc16 <- MCCrc16
    Payloads <- MCPayloads
    HotPayload <- MCHotPayload
    KernelMenu <- MCKernelMenu
    KvEntryBytes = 3
    KvEntry <- MCKvEntry
    DesWatchdog = 2000
    Jobs <- MCJobs
    Decisions <- MCDecisions
    Plans <- MCPlans
    ExpertWeights <- MCExpertWeights
    Faulty = TRUE
    GateUnits = {1}
    NodeUnits = {7}
    SlowBoot = FALSE
    NumLayers = 2
    SlidingWindow = 2
    FullLayers = {1}
    Sessions <- MCSessions
    MaxTokens = 2
    MaxSessions = 2
    Vocab = {0, 5, 6, 7}
    StopTokens = {0}
    ChannelOpen = 5
    ChannelClose = 6
SPECIFICATION HarnessSpec
CHECK_DEADLOCK FALSE
INVARIANT HarnessTypeOK
INVARIANT VerdictsInSync
INVARIANT NeverWedged
INVARIANT OneHopPerCycle
INVARIANT VerdictSound
INVARIANT RoutedAsAsked
INVARIANT DecodeSeesPrefill
