\* The owner disarms and arms again at once.
SPECIFICATION FairSpec

CONSTANTS
    d1 = d1
    d2 = d2
    p1 = p1
    p2 = p2
    Device = {d1}
    Page = {}
    Operator = {}
    Viewer = {}
    Client = {d1}
    SourceId = {s1, s2}
    SessionId = {x1}
    RecMode = {}
    NoId = NoId
    MaxOrphans = 0
    MaxTasks = 1
    Events = {"disarm"}

PROPERTIES
    ArmingTakesEffect

\* Nobody has to press a button: the system may rest.
CHECK_DEADLOCK FALSE
