---------------------------- MODULE MCMonitorLive ----------------------------
(***************************************************************************)
(* Instances of MonitorLive for TLC.                                       *)
(***************************************************************************)
EXTENDS MonitorLive, TLC

CONSTANTS d1, d2, p1, p2

Ids == Permutations(SourceId) \cup Permutations(SessionId)
IdsAndDevices == Ids \cup Permutations(Device)

\* Two pages that take a transmission over from one another.  Neither lets go
\* of its own accord: none is left or loses its connection.  The one that does
\* not order asks for the status only while it is not connected.
Takeovers ==
    /\ \A p \in Viewer : ~Leave(p) /\ ~Disconnect(p)
    /\ \A p \in Viewer \ Operator : AskStatus(p) => page[p].conn = NoId

\* Nothing is assumed of the device.
TakeoverSpec == Spec /\ PageFairness

=============================================================================
