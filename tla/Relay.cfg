SPECIFICATION RelayFairSpec
CONSTANTS
    c1 = c1
    c2 = c2
    Caller <- MCCaller
    Wholes <- MCWholes
    NoOne = NoOne
    Texts = 2
    Attempts = 2
    ReplayCap = 1
    SubCap = 1
    ChanCap = 1
INVARIANTS
    RelayTypeOK
    NoSendOnClosed
    
PROPERTY
    StreamsEnd
CHECK_DEADLOCK FALSE
