\* A page that may be disarmed and armed again, under fairness.
SPECIFICATION FairSpec

CONSTANTS
  Client <- MCClient
  Tab = {t1}
  Beats = {"beat"}
  ArmThread = {a1}
  DisarmThread = {d1}
  Operator = {pc}
  Events = {"disarm"}
  SourceId = {s1, s2}
  SessionId = {x1, x2}
  RecMode = {}
  NoId = NoId
  MaxOrphans = 0

PROPERTY ArmedCameraGoesOff

\* Nobody has to press a button: the system may rest.
CHECK_DEADLOCK FALSE
