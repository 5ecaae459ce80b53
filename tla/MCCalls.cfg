CONSTANTS
    Calls = {w1, w2, w3}
    MaxAttempts = 2
    q1 = q1
    q2 = q2
    q3 = q3
    key = key
    None = None
    Keys = {key}
    Requests <- MCRequests
    KeyOf <- MCKeyOf
    BodyOf <- MCBodyOf
    TTL = 2
    MaxTime = 3
    MaxRestarts = 1
    Models = {m1, m2}
    Threshold = 2
    MaxTries = 2
    Chats = {c1, c2}
    Tools = {t}
    Args = {a1, a2, a3}
    Window = 4
    WarnAt = 2
    StopAt = 3
    FreqWarnAt = 2
    FreqStopAt = 5
    MaxChats = 1
    Tasks = {t1, t2}
    Workers = 1
    MaxPolls = 1
    Threads = {k1}
    Recent = 2
    MaxTurns = 3
SPECIFICATION CallsSpec
CHECK_DEADLOCK FALSE
INVARIANTS
    CallsInvariant
    Linear
    TamperEvident
    RunsOnce
    TokensReachParent
PROPERTIES
    KeepsLog
    EveryCallEnds
    EveryoneAnswered
    LoopsEnd
    TaskSettles
    CorrectionReaches
