\* One page that may be closed, with failing requests, under fairness.
SPECIFICATION FairSpec

CONSTANTS
  Client <- MCClient
  Tab = {t1}
  Beats = {"answer"}
  ArmThread = {a1}
  DisarmThread = {}
  Operator = {pc}
  Events = {"fail", "leave", "answer"}
  SourceId = {s1}
  SessionId = {x1}
  RecMode = {}
  NoId = NoId
  MaxOrphans = 1

PROPERTIES ImplementsCameraControl StopIsObeyed

\* Nobody has to press a button: the system may rest.
CHECK_DEADLOCK FALSE
