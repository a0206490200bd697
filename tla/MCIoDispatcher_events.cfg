CONSTANTS
    Wrap = 4
    Results = {"some", "err", "bad"}
    Signals = {"stop", "timeout", "gone", "full", "notready", "svcerr", "decode", "pool"}
    MaxFrames = 1
    MaxQueue = 3
    MaxCalls = 3
    MaxEvents = 2
    MaxBad = 1
SPECIFICATION FairSpec
INVARIANTS IndexMatch DrainedAtShutdown BackpressureTold ErrorReported
PROPERTIES InOrder StopEnds
CHECK_DEADLOCK FALSE
