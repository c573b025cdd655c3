CONSTANTS
    c1 = c1
    c2 = c2
    t1 = t1
    t2 = t2
    k1 = k1
    int = int
    more = more
    str = str
    NoValue = NoValue
    Clients = {c1, c2}
    Threads = {t1, t2}
    Home <- TwoProcesses
    Keys = {k1}
    Values = {int}
    TypeOf <- MCTypeOf
    TagMod = 2
    CloseAnytime = FALSE
    MaxConns = 2
    MaxCalls = 2
SPECIFICATION Spec
INVARIANT AnswersAreCurrent
