SPECIFICATION LiveSpec
CONSTANTS
    Parts = {"recordings", "feed", "watch", "two watchers", "services"}
    Nobody = Nobody
    Rec = {r1}
    Segment = {s1}
    Thread = {t1}
    MaxQueue = 2
    MaxRestarts = 1
    Second = 6
    MinimumActivity = 2
    MinimumSilence = 2
    StartupGrace = 9
    ShutdownGrace = 6
    MaximumEvents = 2
    Duration = {0, 15, 23}
    MaxMarks = 4
    Key = {k1, k2}
    OtherKey = k0
    Checker = {c1, c2}
    Phone = {p1}
    FeedLimit = 1
    MaxEvents = 2
    MaxKills = 1
    FailureThreshold = 3
    MaxDisruptions = 2
    Watcher = {w1, w2}
    LateWatcher = w2
    Url = {u1, u2}
    OddUrl = {u2}
    Content = {a}
    Needle = {a}
    Runner = runner
    Request = {q1}
    Limit = 1
    Failures = 1
    Version = {v1, v2}
    Secret = {v2}
    Nothing = Nothing
    Empty = Empty
    Process = {s1, s2}
    Keep = 2
    Keeps = {1, 2}
    MaxArchives = 3
    MaxFailures = 1
    Contact = {m1, m2}
    MessageLimit = 1
    MaxMessages = 3
    MaxLosses = 1
    Service = {heavy}
    LastResort = {}
    OnDemand = {heavy}
    Patience = 2
    MaxFaults = 1
PROPERTIES
    Analysed
    Delivered
    OwnerIsTold
    EveryoneIsChecked
    ComesBack
CHECK_DEADLOCK FALSE
