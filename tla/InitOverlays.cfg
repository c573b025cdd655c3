CONSTANTS
    etc = etc
    work = work
    logs = logs
    confd = confd
    other = other
    Dirs <- MCDirs
    EtcDirs <- MCEtcDirs
    Hooks <- MCHooks
    MaxFaults = 5
SPECIFICATION Spec
INVARIANTS
    NamedIsComplete
    UserDataIsKept
PROPERTY ComesUp
CHECK_DEADLOCK FALSE
