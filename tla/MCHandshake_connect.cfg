CONSTANTS
    ClientOptions <- MCClientOptions
    ServerOptions <- MCServerOptions
    Timeouts = {0, 3}
    Changes <- MCChanges
    MaxSends = {0, 1}
    DEFAULT_KEEPALIVE = 3
    DEFAULT_RECEIVE = 3
    U16_MAX = 7
    ConnectSize = 7
    AckSize = 3
SPECIFICATION Spec
INVARIANTS LimitsAgree AckBeforeCredit KeptAlive RefusalReported
PROPERTIES HandshakeEnds GoneClientDropped
CHECK_DEADLOCK FALSE
