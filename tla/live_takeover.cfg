\* Two pages that watch one device, one of which orders, and two transmissions.
SPECIFICATION TakeoverSpec

CONSTANTS
    d1 = d1
    d2 = d2
    p1 = p1
    p2 = p2
    Device = {d1}
    Page = {p1, p2}
    Operator = {p1}
    Viewer = {p1, p2}
    Client = {d1, p1, p2}
    SourceId = {s1}
    SessionId = {x1, x2}
    RecMode = {}
    NoId = NoId
    MaxOrphans = 0
    MaxTasks = 1
    Events = {}

ACTION_CONSTRAINT Takeovers
PROPERTIES
    OutdatedViewerLetsGo

\* Nobody has to press a button: the system may rest.
CHECK_DEADLOCK FALSE
