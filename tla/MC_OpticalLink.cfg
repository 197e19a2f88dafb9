CONSTANTS
    Depth = 4
    Prop = 0
    Word = {w1, w2}
    NoWord = NoWord
    Bit <- MCBits
    Gray <- MCGray
SPECIFICATION FairSpec
INVARIANT CopiesLag
INVARIANT NoOverflow
PROPERTY NoUnreadOverwritten
PROPERTY ImplementsChannel
PROPERTY BacklogWorkedOff
