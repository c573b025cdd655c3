CONSTANTS
    c1 = c1
    c2 = c2
    Clients = {c1, c2}
    Half = 5
    MaxBlock = 1
    MaxFaults = 2
SPECIFICATION Spec
INVARIANT OnlyHungKilled
PROPERTIES
    SignalsEnd
    StaysUp
