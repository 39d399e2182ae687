--------------------------- MODULE MCMonitorBrowser ---------------------------
(***************************************************************************)
(* Instances of MonitorBrowser for TLC.                                    *)
(***************************************************************************)
EXTENDS MonitorBrowser, TLC

MCClient == (Tab \X Thread) \cup Operator

Ids == Permutations(SourceId) \cup Permutations(SessionId)
IdsAndTabs == Ids \cup Permutations(Tab)

=============================================================================
