CONSTANTS
    KeepAlive = 3
    ReadTimeout = 2
    MaxTimeout = 5
    Rate = 1
    Chunks = {1, 2}
    Header = 2
    MaxBuf = 8
    Width = 64
    Events = {"full", "busy", "pool"}
SPECIFICATION FairSpec
INVARIANTS FlagsHaveTimer  MaxTimeoutKept
PROPERTIES SilentPeerEnds
CHECK_DEADLOCK FALSE
