CONSTANTS
    Version = 5
    Ops = {o1, o2}
    Dead = Dead
    NoTx = NoTx
    Cap = 1
    MaxId = 3
    MaxWaiters = 3
    UserIds = {}
    Kinds = {"publish"}
    FailKinds = {}
    Events = {"close"}
SPECIFICATION Spec
INVARIANT EndsWithConnection
