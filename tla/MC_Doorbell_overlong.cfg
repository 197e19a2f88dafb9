CONSTANTS
    Base = 2
    LOCAL_MODULE = 1
    CrcInit = 3
    CrcStep <- MCCrcStep
    MaxBytes = 9
    Overlong = TRUE
SPECIFICATION Spec
INVARIANT VerdictsInSync
