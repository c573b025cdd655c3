CONSTANTS
    c1 = c1
    c2 = c2
    t1 = t1
    t2 = t2
    k1 = k1
    int = int
    more = more
    str = str
    NoValue = NoValue
    Clients = {c1}
    Threads = {t1, t2}
    Home <- OneProcess
    Keys = {k1}
    Values = {int, str}
    TypeOf <- MCTypeOf
    TagMod = 4
    CloseAnytime = TRUE
    MaxConns = 1
    MaxCalls = 2
SPECIFICATION Spec
INVARIANT NoUseAfterClose
