CONSTANTS
    Wrap = 12
    Results = {"some"}
    Signals = {"timeout", "full", "notready"}
    MaxFrames = 0
    MaxQueue = 3
    MaxCalls = 4
    MaxEvents = 3
    MaxBad = 0
SPECIFICATION Spec
PROPERTIES StopIsFinal
CHECK_DEADLOCK FALSE
