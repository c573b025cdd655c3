CONSTANTS
    Clients = {c1}
    MaxFd = 1
    TagMod = 3
    MaxSends = 2
    MaxPackets = 3
    Nil = Nil
SPECIFICATION Spec
INVARIANT HandledInOrder
PROPERTY GoodAreHandled
CHECK_DEADLOCK FALSE
