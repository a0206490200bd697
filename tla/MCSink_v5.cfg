CONSTANTS
    Version = 5
    Ops = {o1, o2}
    Dead = Dead
    NoTx = NoTx
    Cap = 1
    MaxId = 3
    MaxWaiters = 3
    UserIds = {2}
    Kinds = {"publish", "noblock", "subscribe", "ready"}
    FailKinds = {"publish", "noblock"}
    Events = {"cancel", "wrb", "close", "stop", "gone", "callback", "badack"}
SPECIFICATION Spec
SYMMETRY Symmetry
INVARIANTS UniqueIds ChannelsMatch AckOrder
PROPERTIES CallbackOwed
