\* One device, one operator, local recording, every event; a button may be
\* pressed ahead of the executor.
SPECIFICATION Spec

CONSTANTS
    d1 = d1
    d2 = d2
    p1 = p1
    p2 = p2
    Device = {d1}
    Page = {p1}
    Operator = {p1}
    Viewer = {}
    Client = {d1, p1}
    SourceId = {s1, s2}
    SessionId = {x1, x2}
    RecMode = {"video"}
    NoId = NoId
    MaxOrphans = 0
    MaxTasks = 2
    Events = {"disarm", "fail", "kill", "expire"}

SYMMETRY Ids
INVARIANTS
    TypeOK
    ArmedMeansCameraOff
    RecorderExcludesCapture
    DisarmedMeansOff
    GoodDevices
PROPERTIES
    ImplementsCameraControl

\* Nobody has to press a button: the system may rest.
CHECK_DEADLOCK FALSE
