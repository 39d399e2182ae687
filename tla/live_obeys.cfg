\* Under fairness, the device obeys the dashboard although leases expire and a
\* page watches and vanishes, or requests fail.
SPECIFICATION ObeysSpec

CONSTANTS
    d1 = d1
    d2 = d2
    p1 = p1
    p2 = p2
    Device = {d1}
    Page = {p1}
    Operator = {p1}
    Viewer = {p1}
    Client = {d1, p1}
    SourceId = {s1, s2}
    SessionId = {x1}
    RecMode = {}
    NoId = NoId
    MaxOrphans = 0
    MaxTasks = 1
    Events = {"fail", "expire"}

PROPERTIES
    ImplementsCameraControl
    StopIsObeyed
    StartIsObeyed
    ArmingTakesEffect
    AbandonedCaptureEnds

\* Nobody has to press a button: the system may rest.
CHECK_DEADLOCK FALSE
