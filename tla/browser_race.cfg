\* One page that may be disarmed and armed again while everything is under way,
\* and a dashboard that keeps asking for the status.
SPECIFICATION WatchedSpec

CONSTANTS
  Client <- MCClient
  Tab = {t1}
  Beats = {"beat"}
  ArmThread = {a1}
  DisarmThread = {d1}
  Operator = {pc}
  Events = {"disarm", "status", "expire", "leave"}
  SourceId = {s1}
  SessionId = {x1, x2}
  RecMode = {}
  NoId = NoId
  MaxOrphans = 0

INVARIANT TypeOK
PROPERTIES NoCameraLost ImplementsCameraControl DisarmedCameraGoesOff

\* Nobody has to press a button: the system may rest.
CHECK_DEADLOCK FALSE
