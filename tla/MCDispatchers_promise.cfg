CONSTANTS
    Sides = {"ServerV5", "ServerV3", "ClientV5", "ClientV3"}
    Ids = {1, 2}
    Topics = {"t", "u"}
    Matched = {"t"}
    Wild = "wild"
    NoTopic = "none"
    Aliases = {1, 2}
    ReceiveMax = 2
    TopicAliasMax = 1
    MaxQos = 1
    RetainAvailable = FALSE
    HandleQos = 0
    Kinds = {"subscribe", "unsubscribe", "auth", "ping", "disconnect", "puback", "protocol", "peer_gone", "wr_backpressure", "unexpected"}
    Slots = {s1, s2}
SPECIFICATION Spec
SYMMETRY Symmetry
INVARIANTS OneCallPerId ReceiveMaximumKept NoLeakedIds RoutedAsMeant
PROPERTY PromiseKept
CHECK_DEADLOCK FALSE
