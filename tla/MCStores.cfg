CONSTANTS
    o1 = o1
    o2 = o2
    p1 = p1
    p2 = p2
    p3 = p3
    t1 = t1
    t2 = t2
    q1 = q1
    Orders <- MCOrders
    Balance <- MCBalance
    Keys <- MCKeys
    Amounts = {1, 2}
    Calls = {c1, c2}
    Scopes = {s1, s2}
    None = None
    MaxSessions = 1
    MaxCloses = 1
    Writers = {w1, w2}
    Facts = {f1, f2}
    MaxSaves = 2
    MaxFacts = 2
    Threshold = 2
    MaxStale = 1
    MinGroup = 2
    MaxGroups = 2
    MaxSources = 2
    Levels = {1, 2}
    MaxKnown = 2
    Acquisitions = {a1, a2}
    Threads = {t1, t2}
    Nobody = Nobody
    Replicas = 1
    MaxInfos = 2
    MaxFaults = 1
    Dossiers <- MCDossiers
    Covered = {"delivery_not_received", "damaged_item", "wrong_item", "quality_issue"}
    ManualReview = 6
    HighValue = 4
    DualApproval = 8
    RoleLimit <- MCRoleLimit
    Damages = {"minor", "destroyed"}
    Callers = {g1, g2}
    NoCaller = NoCaller
    Backends = {"sqlite", "postgres"}
    MaxCrashes = 2
    Agents = {l1, l2}
    MaxOps = 3
    Contents = {x1, x2}
    Missing = Missing
    Failed = Failed
    Chats = {h1, h2}
    Instruments = {j1}
    ToolCalls = {k1, k2}
    Nothing = Nothing
    Stagnation = 2
    Escalation = 1
    MaxTracked = 1
    MaxPending = 1
    MaxTurns = 2
    Replies <- MCReplies
    MaxReplies = 3
    MaxChatRuns = 2
    MaxCompacts = 1
    TokenLimit = 2
    MaxNudges = 1
    MaxTasks = 2
    Owners = {q1, q2}
    NoThread = NoThread
    Takers = {b1, b2}
    Releasers = {z1}
    Slots = 1
    MaxVms = 2
    MaxBlips = 2
SPECIFICATION StoresSpec
SYMMETRY MCSymmetry
CHECK_DEADLOCK FALSE
INVARIANTS
    StoresInvariant
    Conservation
    OverwritesWhatWasRead
    RequestAccepted
    NoLostOwner
    HitIsFresh
    NothingLeaks
    DecisionSound
    BootsToHead
PROPERTIES
    UpdateSound
    StaleProbeSpares
