SPECIFICATION FairSpec
CONSTANTS
    r1 = r1
    r2 = r2
    l1 = l1
    None = None
    Job = {1, 2}
    Local = {l1}
    Capacities = {1}
    IdOf <- TwoIds
    MaxConns = 1
    Features <- OldAndNew
    Casts <- JobsOrLocal
INVARIANTS
    TypeOK
PROPERTIES
    NoSilentDrop
    ShutdownEnds
