\* One operator, and two devices that replace each other while leases expire, or
\* one whose failing requests may be served later.
SPECIFICATION TwoDevicesSpec

CONSTANTS
    d1 = d1
    d2 = d2
    p1 = p1
    p2 = p2
    Device = {d1, d2}
    Page = {p1}
    Operator = {p1}
    Viewer = {}
    Client = {d1, d2, p1}
    SourceId = {s1, s2, s3}
    SessionId = {x1, x2}
    RecMode = {}
    NoId = NoId
    MaxOrphans = 1
    MaxTasks = 1
    Events = {"fail", "expire"}

SYMMETRY IdsAndDevices
INVARIANTS
    OneSourceOneSession
PROPERTIES
    ImplementsCameraControl

\* Nobody has to press a button: the system may rest.
CHECK_DEADLOCK FALSE
