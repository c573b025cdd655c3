CONSTANTS
    Clients = {c1}
    MaxFd = 1
    TagMod = 4
    MaxSends = 1
    MaxPackets = 0
    Nil = Nil
SPECIFICATION Spec
INVARIANT SendsGoToRemote
CHECK_DEADLOCK FALSE
