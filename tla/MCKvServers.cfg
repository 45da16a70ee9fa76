CONSTANTS
    a = a
    b = b
    s = s
    k = k
    v = v
    v2 = v2
    Client = {a, b}
    Server = {s}
    Failover = {a}
    Fd <- TwoFds
    Commands <- PutCas
    MaxCalls = 2
    MaxLines = 2
    Key = {k}
    Value = {v, v2}
    Null = Null
    Dash = Dash
    nobody = nobody
SPECIFICATION FairSpec
INVARIANTS
    AnswersAreTrue
    AnswersAreForTheCall
    FramesAreWhole
PROPERTIES
    RequestsGetThrough
CHECK_DEADLOCK FALSE
