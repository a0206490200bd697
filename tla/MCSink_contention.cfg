CONSTANTS
    Version = 3
    Ops = {o1, o2, o3}
    Dead = Dead
    NoTx = NoTx
    Cap = 2
    MaxId = 6
    MaxWaiters = 3
    UserIds = {}
    Kinds = {"publish", "unsubscribe"}
    FailKinds = {}
    Events = {"wrb"}
SPECIFICATION FairSpec
INVARIANTS WakeAccounting
PROPERTIES RequestsEnd
