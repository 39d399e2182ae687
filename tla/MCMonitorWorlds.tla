--------------------------- MODULE MCMonitorWorlds ---------------------------
(***************************************************************************)
(* Instances of MonitorLive that put two worlds in one run, so that its    *)
(* states stay few.                                                        *)
(***************************************************************************)
EXTENDS MCMonitorLive

VARIABLE world

-----------------------------------------------------------------------------
(* In one world a page watches and may vanish, in the other requests and   *)
(* the camera fail.  The leases expire in both.                            *)

Watched == INSTANCE MonitorLive WITH Events <- Events \ {"fail"}
Failing == INSTANCE MonitorLive WITH Viewer <- {}

\* Without a recorder, the recording buttons are orders not to transmit: they
\* are left to the other world.
WatchedWorld ==
    /\ world = "watched"
    /\ Watched!Next
    /\ \A p \in Page : ~AskRecord(p, "off")

FailingWorld == world = "failing" /\ Failing!Next

\* The failures are among the steps of TakeAnswer, and a page that watches
\* nothing has nothing to ask: MonitorLive's own fairness serves both worlds.
ObeysSpec ==
    /\ Init
    /\ world \in {"watched", "failing"}
    /\ [][(WatchedWorld \/ FailingWorld) /\ UNCHANGED world]_<<vars, world>>
    /\ DeviceFairness
    /\ PageFairness

-----------------------------------------------------------------------------
(* In one world two devices replace each other and the leases expire, in   *)
(* the other one device's requests fail, and may be served later.          *)

Replacing == INSTANCE MonitorLive WITH Events <- Events \ {"fail"}
Late      == INSTANCE MonitorLive WITH Events <- Events \ {"expire"}

ReplacingWorld == world = "replacing" /\ Replacing!Next

LateWorld ==
    /\ world = "late"
    /\ Late!Next
    /\ \E d \in Device : \A e \in Device \ {d} :
          dev'[e] = NoService(FALSE, "stopped", TRUE)

TwoDevicesSpec ==
    /\ Init
    /\ world \in {"replacing", "late"}
    /\ [][(ReplacingWorld \/ LateWorld) /\ UNCHANGED world]_<<vars, world>>

=============================================================================
