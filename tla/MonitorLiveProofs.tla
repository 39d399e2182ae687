-------------------------- MODULE MonitorLiveProofs --------------------------
(***************************************************************************)
(* Theorems of MonitorLive for any number of devices and pages, any ids,   *)
(* any bound on the queues and any selection of events: types, the single  *)
(* armed source, the three properties of the camera, the ownership of ids, *)
(* and that a camera obeys the dashboard as CameraControl says.            *)
(***************************************************************************)
EXTENDS MonitorLive, MonitorServerProofs

-----------------------------------------------------------------------------
(* The methods of MonitorService map service objects to service objects.   *)

LEMMA MethodTypes ==
    ASSUME NEW m \in DeviceState
    PROVE  /\ \A s \in Shown : Publish(m, s) \in DeviceState
           /\ CleanupCapture(m) \in DeviceState
           /\ StopLocalRecording(m) \in DeviceState
           /\ StopCapture(m) \in DeviceState
           /\ FailAndStop(m) \in DeviceState
           /\ Disarm(m) \in DeviceState
           /\ DisarmDone(m) \in DeviceState
           /\ CaptureFailed(m) \in DeviceState
           /\ TransientError(m) \in DeviceState
<1>1. \A n \in DeviceState, s \in Shown : Publish(n, s) \in DeviceState
  BY ZenonT(60) DEF Publish, DeviceState
<1>2. \A n \in DeviceState : CleanupCapture(n) \in DeviceState
  BY DEF CleanupCapture, DeviceState
<1>3. "armed" \in Shown /\ "error" \in Shown /\ "stopped" \in Shown
  BY DEF Shown, Actual
<1>4. \A n \in DeviceState : StopLocalRecording(n) \in DeviceState
  <2>1. \A n \in DeviceState : [n EXCEPT !.rec = "off"] \in DeviceState
    BY DEF DeviceState, Mode
  <2>2. QED
    BY <1>1, <1>3, <2>1 DEF StopLocalRecording
<1>5. StopCapture(m) \in DeviceState /\ CaptureFailed(m) \in DeviceState
  <2>1. \A n \in DeviceState : /\ [n EXCEPT !.st = "armed"] \in DeviceState
                               /\ [n EXCEPT !.st = "error"] \in DeviceState
    BY DEF DeviceState, Actual
  <2>2. QED
    BY <1>1, <1>2, <1>3, <2>1 DEF StopCapture, CaptureFailed
<1>6. FailAndStop(m) \in DeviceState
  <2>1. \A n \in DeviceState :
           [n EXCEPT !.kept = FALSE, !.st = "error", !.on = FALSE,
                     !.want = "off"] \in DeviceState
    BY ZenonT(60) DEF DeviceState, Actual, Mode
  <2>2. \A n \in DeviceState : [n EXCEPT !.life = "stopping"] \in DeviceState
    BY DEF DeviceState
  <2>3. QED
    BY <1>1, <1>2, <1>3, <1>4, <2>1, <2>2 DEF FailAndStop
<1>7. Disarm(m) \in DeviceState
  <2>1. [m EXCEPT !.kept = FALSE, !.on = FALSE, !.want = "off"] \in DeviceState
    BY DEF DeviceState, Mode
  <2>2. QED
    BY <1>2, <1>4, <2>1 DEF Disarm
<1>8. DisarmDone(m) \in DeviceState /\ TransientError(m) \in DeviceState
  <2>1. \A n \in DeviceState : /\ [n EXCEPT !.life = "stopping"] \in DeviceState
                               /\ [n EXCEPT !.armable = FALSE] \in DeviceState
    BY DEF DeviceState
  <2>2. QED
    BY <1>1, <1>3, <2>1 DEF DisarmDone, TransientError
<1>9. QED BY <1>1, <1>2, <1>4, <1>5, <1>6, <1>7, <1>8

LEMMA RecordingTypes ==
    ASSUME NEW m \in DeviceState
    PROVE  /\ \A mode \in Mode :
                 StartLocalRecording(m, mode) \subseteq DeviceState
           /\ Reconcile(m) \subseteq DeviceState
<1>1. \A n \in DeviceState, mode \in Mode :
         StartLocalRecording(n, mode) \subseteq DeviceState
  <2>1. \A n \in DeviceState, mode \in Mode :
           /\ [n EXCEPT !.rec = mode] \in DeviceState
           /\ [n EXCEPT !.rec = "off"] \in DeviceState
    BY DEF DeviceState, Mode
  <2>2. "armed" \in Shown
    BY DEF Shown, Actual
  <2>3. \A n \in DeviceState : /\ Publish(n, "armed") \in DeviceState
                               /\ TransientError(n) \in DeviceState
    BY <2>2, MethodTypes
  <2>4. QED
    BY <2>1, <2>3 DEF StartLocalRecording
<1>2. m.want \in Mode
  BY DEF DeviceState
<1>3. QED
  BY <1>1, <1>2, MethodTypes DEF Reconcile

LEMMA NoServiceType ==
    ASSUME NEW k \in BOOLEAN, NEW s \in Shown, NEW a \in BOOLEAN
    PROVE  NoService(k, s, a) \in DeviceState
BY DEF NoService, DeviceState, Actual, Mode

-----------------------------------------------------------------------------
(* Steps of the executor: what it becomes decides everything.              *)

LEMMA DeviceStep ==
    ASSUME TypeOK, GoodDevices,
           NEW d \in Device, NEW m \in DeviceState, NEW j \in Job,
           dev' = [dev EXCEPT ![d] = m],
           job' = [job EXCEPT ![d] = j],
           UNCHANGED <<tables, page>>,
           orphans' \in SUBSET {k \in Job : Pending(k)},
           GoodDevice(m, j.op)
    PROVE  TypeOK' /\ GoodDevices'
<1>1. d \in Client
  BY LiveAssumption
<1>2. TypeOK'
  BY <1>1 DEF TypeOK, ServerTypeOK, tables
<1>3. \A e \in Device : /\ dev'[e] = IF e = d THEN m ELSE dev[e]
                        /\ job'[e] = IF e = d THEN j ELSE job[e]
  BY <1>1, LiveAssumption DEF TypeOK, ServerTypeOK
<1>4. QED
  BY <1>2, <1>3 DEF GoodDevices

LEMMA BecomeGood ==
    ASSUME TypeOK, GoodDevices,
           NEW d \in Device, NEW m \in DeviceState, NEW j \in Job,
           Become(d, m, j), GoodDevice(m, j.op)
    PROVE  TypeOK' /\ GoodDevices'
BY DeviceStep DEF Become, TypeOK, ServerTypeOK

LEMMA TailType ==
    ASSUME NEW m \in DeviceState, NextTask(m) # "none"
    PROVE  [m EXCEPT !.tasks = Tail(@)] \in DeviceState
<1>1. m.tasks \in Seq({"arm", "disarm"}) /\ m.tasks # << >>
  BY DEF NextTask, DeviceState
<1>2. Tail(m.tasks) \in Seq({"arm", "disarm"})
  BY <1>1
<1>3. QED BY <1>2 DEF DeviceState

LEMMA TailOfTasks ==
    ASSUME NEW t \in Seq({"arm", "disarm"}), t # << >>, Head(t) = "arm",
           NEW i \in 1..Len(t), t[i] = "disarm"
    PROVE  i - 1 \in 1..Len(Tail(t)) /\ Tail(t)[i - 1] = "disarm"
<1>1. t[1] = "arm" /\ i # 1
  OBVIOUS
<1>2. Len(Tail(t)) = Len(t) - 1 /\ i - 1 \in 1..Len(Tail(t))
  BY <1>1
<1>3. Tail(t)[i - 1] = t[i]
  BY <1>2
<1>4. QED BY <1>2, <1>3

\* The executor goes on without a request, or with one that leaves the device
\* alone until it is answered.
LEMMA GoodStartArm ==
    ASSUME TypeOK, GoodDevices, NEW d \in Device, StartArm(d)
    PROVE  TypeOK' /\ GoodDevices'
<1>1. PICK s \in SourceId :
         Become(d, [dev[d] EXCEPT !.src = s, !.tasks = Tail(@)], ArmRequest(s))
  BY DEF StartArm
<1> DEFINE m == [dev[d] EXCEPT !.src = s, !.tasks = Tail(@)]
<1>2. /\ dev[d] \in DeviceState
      /\ GoodDevice(dev[d], job[d].op)
      /\ NextTask(dev[d]) = "arm"
  BY DEF TypeOK, GoodDevices, StartArm
<1>3. dev[d].tasks \in Seq({"arm", "disarm"}) /\ dev[d].tasks # << >>
      /\ Head(dev[d].tasks) = "arm"
  BY <1>2 DEF NextTask, DeviceState
<1>4. m \in DeviceState /\ ArmRequest(s) \in Job
  <2>1. [dev[d] EXCEPT !.tasks = Tail(@)] \in DeviceState
    BY <1>2, TailType
  <2>2. QED BY <1>2, <2>1, RequestTypes DEF DeviceState
<1>5. Quiet(m)
  BY <1>2 DEF GoodDevice, Quiet, DeviceState
<1>6. WillDisarm(dev[d]) => WillDisarm(m)
  <2>1. SUFFICES ASSUME NEW i \in 1..Len(dev[d].tasks),
                        dev[d].tasks[i] = "disarm"
                 PROVE  \E k \in 1..Len(m.tasks) : m.tasks[k] = "disarm"
    BY DEF WillDisarm
  <2>2. m.tasks = Tail(dev[d].tasks)
    BY <1>2 DEF DeviceState
  <2>3. i - 1 \in 1..Len(m.tasks) /\ m.tasks[i - 1] = "disarm"
    BY <1>3, <2>1, <2>2, TailOfTasks
  <2>4. QED BY <2>3
<1>7. GoodDevice(m, "arm")
  BY <1>2, <1>5, <1>6 DEF GoodDevice, Quiet, ArmedOps, NextTask, DeviceState
<1>8. QED
  BY <1>1, <1>4, <1>7, BecomeGood DEF ArmRequest, NoJob

\* Whatever failed, a device that gives up is quiet and disarmed.
LEMMA FailAndStopGood ==
    ASSUME NEW m \in DeviceState
    PROVE  FailAndStop(m) \in DeviceState /\ GoodDevice(FailAndStop(m), "none")
<1>1. FailAndStop(m) \in DeviceState
  BY MethodTypes
<1>2. LET n == FailAndStop(m) IN ~n.on /\ ~n.cap /\ n.rec = "off"
  BY DEF FailAndStop, StopLocalRecording, CleanupCapture, Publish, DeviceState
<1>3. QED BY <1>1, <1>2 DEF GoodDevice, Quiet, ArmedOps

LEMMA DisarmDoneGood ==
    ASSUME NEW m \in DeviceState, NEW op, GoodDevice(m, op), ~m.on
    PROVE  DisarmDone(m) \in DeviceState /\ GoodDevice(DisarmDone(m), "none")
<1>1. DisarmDone(m) \in DeviceState
  BY MethodTypes
<1>2. DisarmDone(m) = [m EXCEPT !.shown = "stopped", !.armable = TRUE,
                                !.life = "stopping"]
  BY DEF DisarmDone, Publish, DeviceState
<1>3. QED
  BY <1>1, <1>2 DEF GoodDevice, Quiet, ArmedOps, NextTask, DeviceState

LEMMA GoodStartDisarm ==
    ASSUME TypeOK, GoodDevices, NEW d \in Device, StartDisarm(d)
    PROVE  TypeOK' /\ GoodDevices'
<1> DEFINE n == [dev[d] EXCEPT !.tasks = Tail(@)]
           m == Disarm(n)
<1>1. dev[d] \in DeviceState /\ NextTask(dev[d]) = "disarm"
  BY DEF TypeOK, StartDisarm
<1>2. n \in DeviceState
  BY <1>1, TailType
<1>3. m \in DeviceState /\ DisarmDone(m) \in DeviceState
  BY <1>2, MethodTypes
<1>4. ~m.on /\ Quiet(m)
  BY <1>2 DEF Disarm, CleanupCapture, StopLocalRecording, Publish, Quiet,
     DeviceState
<1>5. \A op \in {"none", "disarm"} : GoodDevice(m, op)
  BY <1>3, <1>4 DEF GoodDevice, Quiet, ArmedOps
<1>6. GoodDevice(DisarmDone(m), "none")
  BY <1>3, <1>4, <1>5, DisarmDoneGood
<1>7. CASE m.src = NoId
  <2>1. Become(d, DisarmDone(m), NoJob)
    BY <1>7 DEF StartDisarm
  <2>2. QED
    BY <2>1, <1>3, <1>6, NoJobType, BecomeGood DEF NoJob
<1>8. CASE m.src # NoId
  <2>1. Become(d, m, DisarmRequest(m.src))
    BY <1>8 DEF StartDisarm
  <2>2. m.src \in SourceId
    BY <1>3, <1>8 DEF DeviceState
  <2>3. QED
    BY <2>1, <2>2, <1>3, <1>5, RequestTypes, BecomeGood
       DEF DisarmRequest, NoJob
<1>9. QED BY <1>7, <1>8

-----------------------------------------------------------------------------
(* An armed device whose executor may run a periodic task, and what its    *)
(* methods make of it.                                                     *)

Active(m) ==
    /\ m \in DeviceState
    /\ m.on
    /\ NextTask(m) # "arm"
    /\ m.shown # "stopped"
    /\ m.armable => WillDisarm(m)
    /\ m.cap => m.st \in {"starting", "live"}
    /\ m.rec # "off" => m.st = "armed"

LEMMA ActiveGood ==
    ASSUME NEW m \in DeviceState, NEW op,
           op = "stop" => m.st = "armed",
           op = "offer" => m.st = "starting",
           op = "heartbeat" => m.ses # NoId
    PROVE  /\ op \in ArmedOps /\ GoodDevice(m, op) => Active(m)
           /\ op \in ArmedOps \cup {"none"} /\ Active(m) => GoodDevice(m, op)
BY DEF Active, GoodDevice, ArmedOps, Quiet

\* What an active device must keep to stay active.
Keeps(m, n) ==
    /\ n \in DeviceState
    /\ n.on = m.on /\ n.tasks = m.tasks
    /\ n.shown # "stopped"
    /\ n.armable => m.armable
    /\ n.cap => n.st \in {"starting", "live"}
    /\ n.rec # "off" => n.st = "armed"

LEMMA KeepsActive ==
    ASSUME NEW m, Active(m), NEW n, Keeps(m, n)
    PROVE  Active(n)
BY DEF Active, Keeps, NextTask, WillDisarm

LEMMA ActiveMethods ==
    ASSUME NEW m, Active(m)
    PROVE  /\ \A s \in Actual : Active(Publish(m, s))
           /\ \A r \in Mode : Active([m EXCEPT !.want = r])
           /\ Active(CleanupCapture(m))
           /\ Active(StopLocalRecording(m))
           /\ Active(StopCapture(m))
           /\ m.rec = "off" => Active(CaptureFailed(m))
           /\ Active(TransientError(m))
<1>1. m \in DeviceState
  BY DEF Active
<1>2. ASSUME NEW s \in Actual PROVE Keeps(m, Publish(m, s))
  <2>1. Publish(m, s) \in DeviceState /\ s # "stopped"
    BY <1>1, MethodTypes DEF Shown, Actual
  <2>2. Publish(m, s) = [m EXCEPT !.shown = s, !.armable = FALSE]
    BY <2>1 DEF Publish
  <2>3. QED BY <1>1, <2>1, <2>2 DEF Keeps, Active, DeviceState
<1>3. \A r \in Mode : Active([m EXCEPT !.want = r])
  BY <1>1, KeepsActive DEF Keeps, Active, DeviceState
<1>4. Keeps(m, CleanupCapture(m))
  <2>1. CleanupCapture(m) \in DeviceState
    BY <1>1, MethodTypes
  <2>2. QED BY <1>1, <2>1 DEF Keeps, Active, CleanupCapture, DeviceState
<1>5. Keeps(m, StopLocalRecording(m))
  <2>1. StopLocalRecording(m) \in DeviceState
    BY <1>1, MethodTypes
  <2>2. StopLocalRecording(m) \in
           {[m EXCEPT !.rec = "off"],
            [m EXCEPT !.rec = "off", !.shown = "armed", !.armable = FALSE]}
    BY <1>1 DEF StopLocalRecording, Publish, DeviceState
  <2>3. QED BY ZenonT(60), <1>1, <2>1, <2>2 DEF Keeps, Active, DeviceState
<1>6. Keeps(m, StopCapture(m))
  <2>1. StopCapture(m) =
           [m EXCEPT !.cap = FALSE, !.ses = NoId, !.applied = FALSE,
                     !.st = "armed", !.shown = "armed", !.armable = FALSE]
    BY <1>1 DEF StopCapture, CleanupCapture, Publish, DeviceState
  <2>2. StopCapture(m) \in DeviceState
    BY <1>1, MethodTypes
  <2>3. QED BY ZenonT(60), <1>1, <2>1, <2>2 DEF Keeps, Active, DeviceState
<1>7. Keeps(m, TransientError(m))
  <2>1. TransientError(m) \in DeviceState
    BY <1>1, MethodTypes
  <2>2. QED BY <1>1, <2>1 DEF Keeps, Active, TransientError, DeviceState
<1>8. ASSUME m.rec = "off" PROVE Keeps(m, CaptureFailed(m))
  <2>1. CaptureFailed(m) \in DeviceState
    BY <1>1, MethodTypes
  <2>2. CaptureFailed(m) =
           [m EXCEPT !.cap = FALSE, !.ses = NoId, !.applied = FALSE,
                     !.st = "error", !.shown = "error", !.armable = FALSE]
    BY <1>1 DEF CaptureFailed, CleanupCapture, Publish, DeviceState
  <2>3. QED BY ZenonT(60), <1>1, <1>8, <2>1, <2>2 DEF Keeps, Active, DeviceState
<1>9. QED
  BY <1>2, <1>3, <1>4, <1>5, <1>6, <1>7, <1>8, KeepsActive

LEMMA ActiveRecorder ==
    ASSUME NEW m, Active(m), m.st = "armed"
    PROVE  /\ \A r \in Mode : \A n \in StartLocalRecording(m, r) : Active(n)
           /\ \A n \in Reconcile(m) : Active(n)
<1>1. \A q : Active(q) /\ q.st = "armed" =>
         \A r \in Mode : \A n \in StartLocalRecording(q, r) : Active(n)
  <2>1. SUFFICES ASSUME NEW q, Active(q), q.st = "armed", NEW r \in Mode,
                        NEW n \in StartLocalRecording(q, r)
                 PROVE  Keeps(q, n)
    BY KeepsActive
  <2>2. q \in DeviceState /\ n \in DeviceState
    BY <2>1, RecordingTypes DEF Active
  <2>3. n \in {[q EXCEPT !.rec = r, !.shown = "armed", !.armable = FALSE],
               [q EXCEPT !.rec = "off", !.armable = FALSE]}
    BY <2>1, <2>2 DEF StartLocalRecording, Publish, TransientError, DeviceState
  <2>4. QED
    BY ZenonT(60), <2>1, <2>2, <2>3 DEF Keeps, Active, DeviceState
<1>2. Active(StopLocalRecording(m)) /\ StopLocalRecording(m).st = "armed"
  <2>1. m \in DeviceState
    BY DEF Active
  <2>2. StopLocalRecording(m).st = m.st
    BY <2>1 DEF StopLocalRecording, Publish, DeviceState
  <2>3. QED BY <2>2, ActiveMethods
<1>3. m.want \in Mode
  BY DEF Active, DeviceState
<1>4. QED
  BY <1>1, <1>2, <1>3 DEF Reconcile

-----------------------------------------------------------------------------
(* Every action of a device.                                               *)

LEMMA DeviceFacts ==
    ASSUME TypeOK, GoodDevices, NEW d \in Device
    PROVE  /\ d \in Client
           /\ dev[d] \in DeviceState
           /\ job[d] \in Job /\ job[d] \in JobRecord
           /\ GoodDevice(dev[d], job[d].op)
BY LiveAssumption DEF TypeOK, ServerTypeOK, GoodDevices, Job

\* A device waiting for one of its periodic requests is active.
LEMMA WaitingActive ==
    ASSUME TypeOK, GoodDevices, NEW d \in Device, job[d].op \in ArmedOps
    PROVE  Active(dev[d])
BY DeviceFacts DEF Active, GoodDevice, ArmedOps

\* An active device may wait for any of the requests that ask for nothing more.
LEMMA ActiveWaits ==
    ASSUME TypeOK, GoodDevices, NEW d \in Device,
           NEW m, Active(m), NEW j \in Job, Become(d, m, j),
           j.op \in {"none", "poll", "heartbeat", "getAnswer"},
           j.op = "heartbeat" => m.ses # NoId
    PROVE  TypeOK' /\ GoodDevices'
<1>1. m \in DeviceState
  BY DEF Active
<1>2. GoodDevice(m, j.op)
  BY <1>1 DEF Active, GoodDevice, ArmedOps, Quiet
<1>3. QED BY <1>1, <1>2, BecomeGood

LEMMA ActiveIdles ==
    ASSUME TypeOK, GoodDevices, NEW d \in Device,
           NEW m, Active(m), Become(d, m, NoJob)
    PROVE  TypeOK' /\ GoodDevices'
BY ActiveWaits, NoJobType DEF NoJob

LEMMA GoodExecute ==
    ASSUME TypeOK, GoodDevices, NEW d \in Device, Execute(d)
    PROVE  TypeOK' /\ GoodDevices'
<1>1. CASE StartArm(d)
  BY <1>1, GoodStartArm
<1>2. CASE StartDisarm(d)
  BY <1>2, GoodStartDisarm
<1>3. ASSUME PeriodicMayRun(d) PROVE Active(dev[d])
  BY <1>3, DeviceFacts DEF PeriodicMayRun, Active, GoodDevice
<1>4. CASE StartPoll(d)
  <2>1. /\ dev[d].src \in SourceId \cup {NoId}
        /\ dev[d].st \in Actual /\ dev[d].rec \in Mode
    BY DeviceFacts DEF DeviceState
  <2>2. PollRequest(dev[d].src, dev[d].st, dev[d].rec) \in Job
    BY <2>1, RequestTypes
  <2>3. QED
    BY <1>3, <1>4, <2>2, ActiveWaits DEF StartPoll, PollRequest, NoJob
<1>5. CASE Rotate(d)
  <2> DEFINE stopped == StopLocalRecording(dev[d])
  <2>1. Active(stopped)
    BY <1>3, <1>5, ActiveMethods DEF Rotate
  <2>2. dev[d].rec \in Mode
    BY DeviceFacts DEF DeviceState
  <2>3. PICK m \in IF stopped.st = "armed" /\ dev[d].rec = stopped.want
                   THEN StartLocalRecording(stopped, dev[d].rec)
                   ELSE {stopped} :
           Become(d, m, NoJob)
    BY <1>5 DEF Rotate
  <2>4. Active(m)
    BY <2>1, <2>2, <2>3, ActiveRecorder
  <2>5. QED BY <2>3, <2>4, ActiveIdles
<1>6. QED BY <1>1, <1>2, <1>4, <1>5 DEF Execute

LEMMA GoodPollAnswer ==
    ASSUME TypeOK, GoodDevices, NEW d \in Device,
           \/ PollGone(d) \/ PollStartsCapture(d) \/ PollMaintains(d)
           \/ PollWaits(d) \/ PollStopsCapture(d) \/ PollReconciles(d)
    PROVE  TypeOK' /\ GoodDevices'
<1>1. Active(dev[d]) /\ job[d].rec \in Mode
  BY WaitingActive, DeviceFacts
     DEF PollGone, PollStartsCapture, PollMaintains, PollWaits,
         PollStopsCapture, PollReconciles, Polled, Answered, ArmedOps,
         JobRecord
<1>2. Active(Ordered(d)) /\ Ordered(d).st = dev[d].st
      /\ Ordered(d).ses = dev[d].ses
  BY ZenonT(60), <1>1, ActiveMethods DEF Ordered, Active, DeviceState
<1>3. CASE PollGone(d)
  <2>1. FailAndStop(dev[d]) \in DeviceState
        /\ GoodDevice(FailAndStop(dev[d]), "none")
    BY <1>1, FailAndStopGood DEF Active
  <2>2. QED BY <1>3, <2>1, BecomeGood, NoJobType DEF PollGone, NoJob
<1>4. CASE PollStartsCapture(d)
  <2> DEFINE r == StopLocalRecording(Ordered(d))
             m == [r EXCEPT !.st = "starting"]
  <2>1. Active(r) /\ r \in DeviceState
    BY <1>2, ActiveMethods DEF Active
  <2>2. r.rec = "off"
    BY <1>2 DEF StopLocalRecording, Publish, Active, DeviceState
  <2>3. m \in DeviceState /\ Keeps(r, m) /\ m.rec = "off"
    BY <2>1, <2>2 DEF Keeps, Active, DeviceState, Actual
  <2>4. Active(m)
    BY <2>1, <2>3, KeepsActive
  <2>5. CASE Become(d, CaptureFailed(m), NoJob)
    BY <2>3, <2>4, <2>5, ActiveMethods, ActiveIdles
  <2>6. CASE \E x \in SessionId :
                Become(d, Publish([m EXCEPT !.cap = TRUE, !.ses = x],
                                  "starting"),
                       OfferRequest(x))
    <3>1. PICK x \in SessionId :
             Become(d, Publish([m EXCEPT !.cap = TRUE, !.ses = x], "starting"),
                    OfferRequest(x))
      BY <2>6
    <3> DEFINE n == [m EXCEPT !.cap = TRUE, !.ses = x]
    <3>2. n \in DeviceState /\ Keeps(m, n) /\ n.st = "starting"
      BY <2>3, <2>4 DEF Keeps, Active, DeviceState
    <3>3. Active(Publish(n, "starting"))
      BY <2>4, <3>2, KeepsActive, ActiveMethods DEF Actual
    <3>4. Publish(n, "starting").st = "starting"
      BY <3>2 DEF Publish, DeviceState
    <3>5. Publish(n, "starting") \in DeviceState
          /\ GoodDevice(Publish(n, "starting"), "offer")
      BY <3>3, <3>4, ActiveGood DEF Active, ArmedOps
    <3>6. QED
      BY <3>1, <3>5, RequestTypes, BecomeGood DEF OfferRequest, NoJob
  <2>7. QED BY <1>4, <2>5, <2>6 DEF PollStartsCapture
<1>5. CASE PollMaintains(d)
  <2> DEFINE m == StopLocalRecording(Ordered(d))
  <2>1. Active(m) /\ m.ses \in SessionId \cup {NoId}
    BY <1>2, ActiveMethods DEF Active, DeviceState
  <2>2. \/ Become(d, m, NoJob)
        \/ m.ses # NoId /\ Become(d, m, HeartbeatRequest(m.ses))
        \/ m.ses # NoId /\ Become(d, m, GetAnswerRequest(m.ses))
    BY <1>5 DEF PollMaintains, AwaitAnswer
  <2>3. m.ses # NoId => /\ HeartbeatRequest(m.ses) \in Job
                        /\ GetAnswerRequest(m.ses) \in Job
    BY <2>1, RequestTypes
  <2>4. QED
    BY <2>1, <2>2, <2>3, ActiveIdles, ActiveWaits
       DEF HeartbeatRequest, GetAnswerRequest, NoJob
<1>6. CASE PollWaits(d)
  BY <1>2, <1>6, ActiveMethods, ActiveIdles DEF PollWaits
<1>7. CASE PollStopsCapture(d)
  <2> DEFINE m == StopCapture(Ordered(d))
  <2>1. Active(m) /\ m.st = "armed" /\ m \in DeviceState
    <3>1. Ordered(d) \in DeviceState /\ Active(m)
      BY <1>2, ActiveMethods DEF Active
    <3>2. m.st = "armed"
      BY <3>1 DEF StopCapture, CleanupCapture, Publish, DeviceState
    <3>3. QED BY <3>1, <3>2 DEF Active
  <2>2. CASE dev[d].ses = NoId
    BY <1>7, <2>1, <2>2, ActiveRecorder, ActiveIdles DEF PollStopsCapture
  <2>3. CASE dev[d].ses # NoId
    <3>1. Become(d, m, StopRequest(dev[d].ses))
      BY <1>7, <2>3 DEF PollStopsCapture
    <3>2. StopRequest(dev[d].ses) \in Job
      BY <2>3, DeviceFacts, RequestTypes DEF DeviceState
    <3>3. GoodDevice(m, "stop")
      BY <2>1, ActiveGood DEF ArmedOps
    <3>4. QED
      BY <2>1, <3>1, <3>2, <3>3, BecomeGood DEF StopRequest, NoJob
  <2>4. QED BY <2>2, <2>3
<1>8. CASE PollReconciles(d)
  BY <1>2, <1>8, ActiveRecorder, ActiveIdles DEF PollReconciles
<1>9. QED BY <1>3, <1>4, <1>5, <1>6, <1>7, <1>8

LEMMA GoodOtherAnswer ==
    ASSUME TypeOK, GoodDevices, NEW d \in Device,
           \/ ArmAnswer(d) \/ StopAnswer(d) \/ OfferAnswer(d)
           \/ HeartbeatAnswer(d) \/ ViewerAnswer(d) \/ DisarmAnswer(d)
    PROVE  TypeOK' /\ GoodDevices'
<1>1. /\ dev[d] \in DeviceState
      /\ GoodDevice(dev[d], job[d].op)
      /\ job[d].op \in ArmedOps => Active(dev[d])
  BY DeviceFacts, WaitingActive
<1>2. CASE ArmAnswer(d)
  <2> DEFINE m == Publish([dev[d] EXCEPT !.on = TRUE, !.st = "armed"], "armed")
  <2>1. m = [dev[d] EXCEPT !.on = TRUE, !.st = "armed", !.shown = "armed",
                           !.armable = FALSE]
    BY <1>1 DEF Publish, DeviceState
  <2>2. Quiet(dev[d])
    BY <1>1, <1>2 DEF ArmAnswer, Answered, GoodDevice
  <2>3. m \in DeviceState /\ GoodDevice(m, "none")
    BY <1>1, <2>1, <2>2
       DEF DeviceState, Actual, Shown, GoodDevice, Quiet, ArmedOps, NextTask
  <2>4. QED BY <1>2, <2>3, BecomeGood, NoJobType DEF ArmAnswer, NoJob
<1>3. CASE StopAnswer(d)
  <2>1. Active(dev[d]) /\ dev[d].st = "armed"
    BY <1>1, <1>3 DEF StopAnswer, Answered, ArmedOps, GoodDevice
  <2>2. QED BY <1>3, <2>1, ActiveRecorder, ActiveIdles DEF StopAnswer
<1>4. CASE OfferAnswer(d)
  <2> DEFINE n == [dev[d] EXCEPT !.applied = FALSE, !.st = "live"]
  <2>1. Active(dev[d]) /\ dev[d].st = "starting"
    BY <1>1, <1>4 DEF OfferAnswer, Answered, ArmedOps, GoodDevice
  <2>2. Keeps(dev[d], n)
    BY <1>1, <2>1 DEF Keeps, Active, DeviceState, Actual
  <2>3. Active(Publish(n, "live"))
    BY <2>1, <2>2, KeepsActive, ActiveMethods DEF Actual
  <2>4. QED BY <1>4, <2>3, ActiveIdles DEF OfferAnswer
<1>5. ASSUME job[d].op = "heartbeat", AwaitAnswer(d, dev[d])
      PROVE  TypeOK' /\ GoodDevices'
  <2>1. GetAnswerRequest(dev[d].ses) \in Job
    BY <1>1, <1>5, RequestTypes DEF DeviceState, GoodDevice
  <2>2. QED
    BY <1>1, <1>5, <2>1, ActiveWaits, ActiveIdles
       DEF AwaitAnswer, GetAnswerRequest, NoJob, ArmedOps
<1>6. CASE HeartbeatAnswer(d)
  BY <1>1, <1>5, <1>6, ActiveMethods, ActiveIdles
     DEF HeartbeatAnswer, Answered, ArmedOps
<1>7. CASE ViewerAnswer(d)
  <2>1. Active(dev[d])
    BY <1>1, <1>7 DEF ViewerAnswer, Answered, ArmedOps
  <2>2. Keeps(dev[d], [dev[d] EXCEPT !.applied = TRUE])
    BY <1>1, <2>1 DEF Keeps, Active, DeviceState
  <2>3. Active(Publish([dev[d] EXCEPT !.applied = TRUE], "live"))
    BY <2>1, <2>2, KeepsActive, ActiveMethods DEF Actual
  <2>4. QED
    BY <1>7, <2>1, <2>3, ActiveMethods, ActiveIdles DEF ViewerAnswer
<1>8. CASE DisarmAnswer(d)
  <2>1. ~dev[d].on
    BY <1>1, <1>8 DEF DisarmAnswer, Answered, GoodDevice
  <2>2. DisarmDone(dev[d]) \in DeviceState
        /\ GoodDevice(DisarmDone(dev[d]), "none")
    BY <1>1, <2>1, DisarmDoneGood
  <2>3. QED BY <1>8, <2>2, BecomeGood, NoJobType DEF DisarmAnswer, NoJob
<1>9. QED BY <1>2, <1>3, <1>4, <1>6, <1>7, <1>8

LEMMA GoodRequestFails ==
    ASSUME TypeOK, GoodDevices, NEW d \in Device, RequestFails(d)
    PROVE  TypeOK' /\ GoodDevices'
<1>1. /\ d \in Client /\ dev[d] \in DeviceState
      /\ GoodDevice(dev[d], job[d].op)
      /\ job[d].op \in ArmedOps => Active(dev[d])
  BY DeviceFacts, WaitingActive
<1>2. PICK m \in AfterFailure(d) :
         /\ dev' = [dev EXCEPT ![d] = m]
         /\ job' = [job EXCEPT ![d] = NoJob]
         /\ UNCHANGED <<tables, page>>
  BY DEF RequestFails
<1>3. m \in DeviceState /\ GoodDevice(m, "none")
  <2>1. CASE job[d].op = "arm"
    BY <1>1, <1>2, <2>1, FailAndStopGood DEF AfterFailure
  <2>2. CASE job[d].op = "offer"
    <3>1. Active(dev[d]) /\ dev[d].rec = "off" /\ m = CaptureFailed(dev[d])
      BY <1>1, <1>2, <2>2 DEF AfterFailure, GoodDevice, ArmedOps
    <3>2. QED
      BY <3>1, ActiveMethods, ActiveGood DEF Active
  <2>3. CASE job[d].op = "stop"
    <3>1. Active(dev[d]) /\ dev[d].st = "armed" /\ m \in Reconcile(dev[d])
      BY <1>1, <1>2, <2>3 DEF AfterFailure, GoodDevice, ArmedOps
    <3>2. QED
      BY <3>1, ActiveRecorder, ActiveGood DEF Active
  <2>4. CASE job[d].op = "disarm"
    <3>1. m = DisarmDone(dev[d]) /\ ~dev[d].on
      BY <1>1, <1>2, <2>4 DEF AfterFailure, GoodDevice
    <3>2. QED BY <1>1, <3>1, DisarmDoneGood
  <2>5. CASE job[d].op \notin {"arm", "offer", "stop", "disarm"}
    <3>1. m = TransientError(dev[d])
      BY <1>2, <2>5 DEF AfterFailure
    <3>2. m \in DeviceState
      BY <1>1, <3>1, MethodTypes
    <3>3. QED
      BY <1>1, <3>1, <3>2
         DEF TransientError, GoodDevice, Quiet, NextTask, ArmedOps, DeviceState
  <2>6. QED BY <2>1, <2>2, <2>3, <2>4, <2>5
<1>4. orphans' \in SUBSET {k \in Job : Pending(k)}
  BY <1>1, GiveUpType DEF RequestFails, TypeOK
<1>5. QED
  BY <1>2, <1>3, <1>4, NoJobType, DeviceStep DEF NoJob

LEMMA NoServiceGood ==
    ASSUME NEW k \in BOOLEAN, NEW s \in Shown, NEW a \in BOOLEAN
    PROVE  LET n == NoService(k, s, a)
               r == [n EXCEPT !.life = "started", !.tasks = <<"arm">>]
           IN  /\ n \in DeviceState /\ GoodDevice(n, "none")
               /\ r \in DeviceState /\ GoodDevice(r, "none")
<1> DEFINE n == NoService(k, s, a)
           r == [n EXCEPT !.life = "started", !.tasks = <<"arm">>]
<1>1. n \in DeviceState /\ ~n.on /\ Quiet(n) /\ n.tasks = << >>
  BY NoServiceType DEF NoService, Quiet
<1>2. <<"arm">> \in Seq({"arm", "disarm"})
  OBVIOUS
<1>3. r \in DeviceState
  BY <1>1, <1>2 DEF DeviceState
<1>4. ~r.on /\ Quiet(r)
  BY <1>1 DEF Quiet, DeviceState
<1>5. GoodDevice(n, "none")
  BY <1>1 DEF GoodDevice, Quiet, ArmedOps, NextTask
<1>6. GoodDevice(r, "none")
  BY <1>4 DEF GoodDevice, Quiet, ArmedOps
<1>7. QED BY <1>1, <1>3, <1>5, <1>6

LEMMA GoodSystem ==
    ASSUME TypeOK, GoodDevices, NEW d \in Device, System(d)
    PROVE  TypeOK' /\ GoodDevices'
<1>1. d \in Client /\ dev[d] \in DeviceState
  BY DeviceFacts
<1>2. orphans' \in SUBSET {k \in Job : Pending(k)}
  BY <1>1, GiveUpType DEF System, Destroy, Kill, TypeOK
<1>3. PICK m :
         /\ m \in DeviceState /\ GoodDevice(m, "none")
         /\ dev' = [dev EXCEPT ![d] = m]
         /\ job' = [job EXCEPT ![d] = NoJob]
         /\ UNCHANGED <<tables, page>>
  <2>1. CASE Destroy(d)
    <3>1. PICK s \in Shown :
             /\ dev' = [dev EXCEPT ![d] =
                           NoService(dev[d].kept /\ job[d].op # "arm", s,
                                     dev[d].st # "error")]
             /\ job' = [job EXCEPT ![d] = NoJob]
             /\ UNCHANGED <<tables, page>>
      BY <1>1, <2>1 DEF Destroy, Shown, Actual, DeviceState
    <3>2. QED BY <3>1, NoServiceGood
  <2>2. CASE Kill(d)
    <3> DEFINE none == NoService(dev[d].kept, "stopped", TRUE)
               again == [none EXCEPT !.life = "started", !.tasks = <<"arm">>]
    <3>1. dev[d].kept \in BOOLEAN /\ "stopped" \in Shown
      BY <1>1 DEF DeviceState, Shown
    <3>2. /\ none \in DeviceState /\ GoodDevice(none, "none")
          /\ again \in DeviceState /\ GoodDevice(again, "none")
      BY <3>1, NoServiceGood
    <3>3. /\ \/ dev' = [dev EXCEPT ![d] = none]
             \/ dev' = [dev EXCEPT ![d] = again]
          /\ job' = [job EXCEPT ![d] = NoJob]
          /\ UNCHANGED <<tables, page>>
      <4> HIDE DEF again
      <4>1. /\ dev' = [dev EXCEPT ![d] =
                           IF dev[d].life = "started" /\ dev[d].kept
                           THEN again ELSE none]
            /\ job' = [job EXCEPT ![d] = NoJob]
            /\ UNCHANGED <<tables, page>>
        BY <2>2 DEF Kill, again
      <4>2. QED BY <4>1
    <3>4. QED BY <3>2, <3>3
  <2>3. QED BY <2>1, <2>2 DEF System
<1>4. QED
  BY <1>2, <1>3, NoJobType, DeviceStep DEF NoJob

LEMMA GoodOwner ==
    ASSUME TypeOK, GoodDevices, NEW d \in Device, Owner(d)
    PROVE  TypeOK' /\ GoodDevices'
<1>1. /\ d \in Client /\ dev[d] \in DeviceState /\ job[d] \in Job
      /\ GoodDevice(dev[d], job[d].op)
  BY DeviceFacts
<1> DEFINE t == dev[d].tasks
<1>2. t \in Seq({"arm", "disarm"})
  BY <1>1 DEF DeviceState
<1>3. ASSUME NEW a \in {"arm", "disarm"}
      PROVE  Append(t, a) \in Seq({"arm", "disarm"})
  BY <1>2
<1>4. PICK m \in DeviceState :
         /\ GoodDevice(m, job[d].op)
         /\ dev' = [dev EXCEPT ![d] = m]
         /\ UNCHANGED <<tables, job, orphans, page>>
  <2>1. CASE PressArm(d)
    <3> DEFINE m == [dev[d] EXCEPT
                        !.kept = TRUE, !.armable = FALSE, !.life = "started",
                        !.tasks = Append(t, "arm")]
    <3>1. m \in DeviceState
      BY <1>1, <1>3 DEF DeviceState
    <3>2. NextTask(m) = "arm" => Quiet(dev[d]) /\ job[d].op \notin ArmedOps
      <4>1. CASE t = << >>
        <5>1. ~WillDisarm(dev[d])
          BY <4>1 DEF WillDisarm
        <5>2. ~dev[d].on
          BY <1>1, <2>1, <5>1 DEF PressArm, GoodDevice
        <5>3. QED
          BY <1>1, <5>2 DEF GoodDevice
      <4>2. CASE t # << >>
        <5>1. NextTask(m) = NextTask(dev[d])
          BY <1>1, <1>2, <4>2 DEF NextTask, DeviceState
        <5>2. QED
          BY <1>1, <5>1 DEF GoodDevice
      <4>3. QED BY <4>1, <4>2
    <3>3. GoodDevice(m, job[d].op)
      BY <1>1, <3>1, <3>2 DEF GoodDevice, Quiet, DeviceState
    <3>4. QED
      BY <2>1, <3>1, <3>3 DEF PressArm
  <2>2. CASE PressDisarm(d)
    <3> DEFINE m == [dev[d] EXCEPT
                        !.kept = FALSE, !.armable = TRUE, !.life = "started",
                        !.tasks = Append(t, "disarm")]
    <3>1. m \in DeviceState
      BY <1>1, <1>3 DEF DeviceState
    <3>2. WillDisarm(m)
      <4>1. m.tasks = Append(t, "disarm")
        BY <1>1 DEF DeviceState
      <4>2. Len(m.tasks) = Len(t) + 1 /\ m.tasks[Len(t) + 1] = "disarm"
        BY <1>2, <4>1
      <4>3. QED
        BY <1>2, <4>2 DEF WillDisarm
    <3>3. NextTask(m) = "arm" => NextTask(dev[d]) = "arm"
      BY <1>1, <1>2 DEF NextTask, DeviceState
    <3>4. GoodDevice(m, job[d].op)
      BY <1>1, <3>1, <3>2, <3>3 DEF GoodDevice, Quiet, DeviceState
    <3>5. QED
      BY <2>2, <3>1, <3>4 DEF PressDisarm
  <2>3. CASE ShowActivity(d)
    <3> DEFINE m == [dev[d] EXCEPT !.armable = (dev[d].shown = "stopped")]
    <3>1. m \in DeviceState
      BY <1>1 DEF DeviceState
    <3>2. GoodDevice(m, job[d].op)
      BY <1>1, <3>1
         DEF GoodDevice, Quiet, NextTask, WillDisarm, DeviceState
    <3>3. dev' = [dev EXCEPT ![d] = m]
      BY <1>1, <2>3 DEF ShowActivity
    <3>4. QED
      BY <2>3, <3>1, <3>2, <3>3 DEF ShowActivity
  <2>4. QED BY <2>1, <2>2, <2>3 DEF Owner
<1>5. job' = [job EXCEPT ![d] = job[d]] /\ UNCHANGED <<tables, page>>
  BY <1>1, <1>4 DEF TypeOK, ServerTypeOK
<1>6. QED
  BY <1>1, <1>4, <1>5, DeviceStep DEF TypeOK, ServerTypeOK

-----------------------------------------------------------------------------
(* The pages, and the whole next-state relation.                           *)

LEMMA PageStep ==
    ASSUME TypeOK, GoodDevices, NEW p \in Page, NEW j \in Job,
           job' = [job EXCEPT ![p] = j], page' \in [Page -> PageState],
           UNCHANGED <<tables, dev>>,
           orphans' \in SUBSET {k \in Job : Pending(k)}
    PROVE  TypeOK' /\ GoodDevices'
<1>1. p \in Client /\ \A d \in Device : d \in Client /\ d # p
  BY LiveAssumption
<1>2. TypeOK'
  BY <1>1 DEF TypeOK, ServerTypeOK, tables
<1>3. \A d \in Device : job'[d] = job[d]
  BY <1>1 DEF TypeOK, ServerTypeOK
<1>4. QED
  BY <1>2, <1>3 DEF GoodDevices

LEMMA GoodDashboard ==
    ASSUME TypeOK, GoodDevices, NEW p \in Page, Dashboard(p)
    PROVE  TypeOK' /\ GoodDevices'
<1>1. /\ p \in Client /\ job[p] \in Job /\ job[p] \in JobRecord
      /\ page[p] \in PageState
      /\ page \in [Page -> PageState]
      /\ orphans \in SUBSET {k \in Job : Pending(k)}
  BY LiveAssumption DEF TypeOK, ServerTypeOK, Job
<1>2. ASSUME NEW j \in Job, Ask(p, j), page' \in [Page -> PageState]
      PROVE  TypeOK' /\ GoodDevices'
  BY <1>1, <1>2, PageStep DEF Ask
<1>3. CASE AskStatus(p)
  BY <1>1, <1>2, <1>3, RequestTypes DEF AskStatus
<1>4. CASE \E w \in Desired : AskControl(p, w)
  BY <1>1, <1>2, <1>4, RequestTypes DEF AskControl
<1>5. CASE \E m \in Mode : AskRecord(p, m)
  BY <1>1, <1>2, <1>5, RequestTypes DEF AskRecord
<1>6. CASE Connect(p)
  <2>1. page[p].avail \in SessionId
    BY <1>1, <1>6 DEF Connect, PageState
  <2>2. page' \in [Page -> PageState]
    BY <1>1, <1>6, <2>1 DEF Connect, PageState
  <2>3. QED
    BY <1>1, <1>2, <1>6, <2>1, <2>2, RequestTypes DEF Connect
<1>7. CASE Watch(p)
  <2>1. page[p].conn \in SessionId
    BY <1>1, <1>7 DEF Watch, PageState
  <2>2. QED
    BY <1>1, <1>2, <1>7, <2>1, RequestTypes DEF Watch
<1>8. CASE Disconnect(p)
  <2>1. page' \in [Page -> PageState]
    BY <1>1, <1>8 DEF Disconnect, PageState
  <2>2. QED
    BY <1>1, <1>8, <2>1
       DEF Disconnect, TypeOK, ServerTypeOK, GoodDevices, tables
<1>9. CASE Leave(p)
  <2>1. page' \in [Page -> PageState]
    BY <1>1, <1>9 DEF Leave, PageState
  <2>2. ControlRequest("armed") \in Job
    BY RequestTypes DEF Desired
  <2>3. QED
    BY <1>2, <1>9, <2>1, <2>2 DEF Leave
<1>10. CASE PageAnswer(p)
  <2>1. AfterStatusAnswer(p) \in PageState
    BY <1>1 DEF AfterStatusAnswer, PageState, JobRecord
  <2>2. [avail |-> NoId, conn |-> NoId] \in PageState
        /\ [page[p] EXCEPT !.conn = NoId] \in PageState
    BY <1>1 DEF PageState
  <2>3. PICK q \in PageState : page' = [page EXCEPT ![p] = q]
    <3>1. PICK q : /\ page' = [page EXCEPT ![p] = q]
                   /\ q \in {AfterStatusAnswer(p), page[p],
                            [avail |-> NoId, conn |-> NoId],
                            [page[p] EXCEPT !.conn = NoId]}
      BY <1>10 DEF PageAnswer
    <3>2. QED BY <1>1, <2>1, <2>2, <3>1
  <2>4. page' \in [Page -> PageState]
    BY <1>1, <2>3
  <2>5. QED
    BY <1>1, <1>10, <2>4, PageStep, NoJobType DEF PageAnswer
<1>11. CASE PageRequestFails(p)
  <2>1. page' \in [Page -> PageState]
    BY <1>1, <1>11 DEF PageRequestFails, PageState
  <2>2. orphans' \in SUBSET {k \in Job : Pending(k)}
    BY <1>1, <1>11, GiveUpType DEF PageRequestFails, TypeOK
  <2>3. QED
    BY <1>1, <1>11, <2>1, <2>2, PageStep, NoJobType DEF PageRequestFails
<1>12. QED
  BY <1>3, <1>4, <1>5, <1>6, <1>7, <1>8, <1>9, <1>10, <1>11 DEF Dashboard

LEMMA GoodServerStep ==
    ASSUME TypeOK, GoodDevices, ServerStep \/ Age, UNCHANGED <<dev, page>>
    PROVE  TypeOK' /\ GoodDevices'
<1>1. ServerTypeOK' /\ \A c \in Client : job'[c].op = job[c].op
  BY ServerStepType, AgeType DEF TypeOK, Age, AgeSource, AgeSession
<1>2. QED
  BY <1>1, LiveAssumption DEF TypeOK, GoodDevices

LEMMA GoodInit == Init => TypeOK /\ GoodDevices
<1> SUFFICES ASSUME Init PROVE TypeOK /\ GoodDevices
  OBVIOUS
<1>1. \A d \in Device : dev[d] = NoService(FALSE, "stopped", TRUE)
                        /\ job[d].op = "none"
  BY LiveAssumption DEF Init, ServerInit, NoJob
<1>2. \A d \in Device : dev[d] \in DeviceState /\ GoodDevice(dev[d], "none")
  BY <1>1, NoServiceGood DEF Shown
<1>3. dev = [d \in Device |-> dev[d]] /\ page \in [Page -> PageState]
  BY DEF Init, PageState
<1>4. QED
  BY <1>1, <1>2, <1>3, ServerInitType DEF Init, TypeOK, GoodDevices

LEMMA GoodNext ==
    TypeOK /\ GoodDevices /\ [Next]_vars => TypeOK' /\ GoodDevices'
<1> SUFFICES ASSUME TypeOK, GoodDevices, [Next]_vars
             PROVE  TypeOK' /\ GoodDevices'
  OBVIOUS
<1>1. CASE ServerStep /\ UNCHANGED <<dev, page>>
  BY <1>1, GoodServerStep
<1>2. CASE Age /\ UNCHANGED <<dev, page>>
  BY <1>2, GoodServerStep
<1>3. ASSUME NEW d \in Device, Owner(d) PROVE TypeOK' /\ GoodDevices'
  BY <1>3, GoodOwner
<1>4. ASSUME NEW d \in Device, Execute(d) PROVE TypeOK' /\ GoodDevices'
  BY <1>4, GoodExecute
<1>5. ASSUME NEW d \in Device, TakeAnswer(d) PROVE TypeOK' /\ GoodDevices'
  BY <1>5, GoodPollAnswer, GoodOtherAnswer DEF TakeAnswer
<1>6. ASSUME NEW d \in Device, RequestFails(d) PROVE TypeOK' /\ GoodDevices'
  BY <1>6, GoodRequestFails
<1>7. ASSUME NEW d \in Device, System(d) PROVE TypeOK' /\ GoodDevices'
  BY <1>7, GoodSystem
<1>8. ASSUME NEW p \in Page, Dashboard(p) PROVE TypeOK' /\ GoodDevices'
  BY <1>8, GoodDashboard
<1>9. CASE UNCHANGED vars
  BY <1>9 DEF vars, TypeOK, ServerTypeOK, GoodDevices
<1>10. QED
  BY <1>1, <1>2, <1>3, <1>4, <1>5, <1>6, <1>7, <1>8, <1>9 DEF Next

-----------------------------------------------------------------------------
(* The theorems.                                                           *)

\* Every variable keeps its type.
THEOREM TypeCorrect == Spec => []TypeOK
<1>1. Spec => [](TypeOK /\ GoodDevices)
  BY GoodInit, GoodNext, PTL DEF Spec
<1>2. QED BY <1>1, PTL

\* What a service object may be, whatever its executor waits for: the inductive
\* invariant of the camera's safety.
THEOREM DevicesStayGood == Spec => []GoodDevices
<1>1. Spec => [](TypeOK /\ GoodDevices)
  BY GoodInit, GoodNext, PTL DEF Spec
<1>2. QED BY <1>1, PTL

\* An armed device never holds the camera for a transmission: "ARMED" always
\* means that camera and microphone are off.
THEOREM ArmedIsOff == Spec => []ArmedMeansCameraOff
<1>1. GoodDevices => ArmedMeansCameraOff
  BY DEF GoodDevices, GoodDevice, ArmedMeansCameraOff
<1>2. QED BY <1>1, DevicesStayGood, PTL

\* The recorder and the transmission never hold the camera together.
THEOREM RecorderAlone == Spec => []RecorderExcludesCapture
<1>1. GoodDevices => RecorderExcludesCapture
  BY DEF GoodDevices, GoodDevice, RecorderExcludesCapture
<1>2. QED BY <1>1, DevicesStayGood, PTL

\* A device that is disarmed, or says that it is, neither transmits nor records.
THEOREM DisarmedIsOff == Spec => []DisarmedMeansOff
<1>1. GoodDevices => DisarmedMeansOff
  BY DEF GoodDevices, GoodDevice, DisarmedMeansOff, Quiet
<1>2. QED BY <1>1, DevicesStayGood, PTL

\* At most one source is armed and at most one transmission offered, whatever
\* the interleaving of the requests and of those nobody waits for.
THEOREM SingleSource == Spec => []OneSourceOneSession
<1>1. Init => OneSourceOneSession
  BY ServerInitType DEF Init
<1>2. OneSourceOneSession /\ [Next]_vars => OneSourceOneSession'
  <2> SUFFICES ASSUME OneSourceOneSession, [Next]_vars
               PROVE  OneSourceOneSession'
    OBVIOUS
  <2>1. CASE ServerStep
    BY <2>1, ServerStepSingle
  <2>2. CASE Age
    BY <2>2, AgeSingle
  <2>3. CASE UNCHANGED <<sources, sessions>>
    BY <2>3 DEF OneSourceOneSession
  <2>4. ASSUME NEW d \in Device,
               Owner(d) \/ Execute(d) \/ TakeAnswer(d) \/ RequestFails(d)
                  \/ System(d)
        PROVE  UNCHANGED <<sources, sessions>>
    <3>1. CASE Owner(d)
      BY <3>1 DEF Owner, PressArm, PressDisarm, ShowActivity, tables
    <3>2. CASE Execute(d)
      BY <3>2 DEF Execute, StartArm, StartDisarm, StartPoll, Rotate, Become,
         tables
    <3>3. CASE TakeAnswer(d)
      BY <3>3 DEF TakeAnswer, ArmAnswer, PollGone, PollStartsCapture,
         PollMaintains, PollWaits, PollStopsCapture, PollReconciles,
         StopAnswer, OfferAnswer, HeartbeatAnswer, ViewerAnswer, DisarmAnswer,
         AwaitAnswer, Become, tables
    <3>4. CASE RequestFails(d) \/ System(d)
      BY <3>4 DEF RequestFails, System, Destroy, Kill, tables
    <3>5. QED BY <2>4, <3>1, <3>2, <3>3, <3>4
  <2>5. ASSUME NEW p \in Page, Dashboard(p)
        PROVE  UNCHANGED <<sources, sessions>>
    BY <2>5 DEF Dashboard, AskStatus, AskControl, AskRecord, Connect, Watch,
       Disconnect, Leave, Ask, PageAnswer, PageRequestFails, tables
  <2>6. QED
    BY <2>1, <2>2, <2>3, <2>4, <2>5 DEF Next, vars
<1>3. QED BY <1>1, <1>2, PTL DEF Spec

-----------------------------------------------------------------------------
(* The refinement of CameraControl.                                        *)
(*                                                                         *)
(* Who knows which source.  A row speaks of one device because two devices *)
(* never hold the same identifier, and a poll on its way asks for the row  *)
(* of the device that sent it.                                             *)

SourcesApart ==
    \A d, e \in Device : dev[d].src = dev[e].src /\ dev[d].src # NoId => d = e

PollsOwnSource ==
    \A d \in Device :
        job[d].op = "poll" /\ job[d].at = "run" => job[d].src = dev[d].src

Known == SourcesApart /\ PollsOwnSource

\* Request j told its device to be live.
GrantedJob(j) ==
    /\ j.op = "poll" /\ j.want = "live"
    /\ j.at = "settings" \/ (j.at = "done" /\ j.ans = "ok")

LEMMA GrantedForm == GrantedDevices = {d \in Device : GrantedJob(job[d])}
BY DEF GrantedDevices, GrantedJob

LEMMA GrantedFormNext == GrantedDevices' = {d \in Device : GrantedJob(job'[d])}
BY DEF GrantedDevices, GrantedJob

-----------------------------------------------------------------------------
(* A step of one device.                                                   *)

\* Device d becomes m and waits for request j: it keeps its source, forgets it
\* or draws one that nobody knows, and a poll that is new asks for its source.
Moves(d, m, j) ==
    /\ dev' = [dev EXCEPT ![d] = m]
    /\ job' = [job EXCEPT ![d] = j]
    /\ sources' = sources
    /\ \/ m.src \in {dev[d].src, NoId}
       \/ FreshSource(m.src)
    /\ \/ j.op # "poll"
       \/ j = job[d] /\ m.src = dev[d].src
       \/ j.at = "run" /\ j.src = m.src

LEMMA MovedDevices ==
    ASSUME TypeOK, NEW d \in Device, NEW m, NEW j, Moves(d, m, j)
    PROVE  \A e \in Device : /\ dev'[e] = IF e = d THEN m ELSE dev[e]
                             /\ job'[e] = IF e = d THEN j ELSE job[e]
BY LiveAssumption DEF Moves, TypeOK, ServerTypeOK

LEMMA MovesKeepKnown ==
    ASSUME TypeOK, Known, NEW d \in Device, NEW m, NEW j, Moves(d, m, j)
    PROVE  Known'
<1>1. \A e \in Device : /\ dev'[e] = IF e = d THEN m ELSE dev[e]
                        /\ job'[e] = IF e = d THEN j ELSE job[e]
  BY MovedDevices
<1>2. SourcesApart'
  <2>1. \A e \in Device : e # d /\ dev[e].src = m.src => m.src = NoId
    BY DEF Moves, FreshSource, Known, SourcesApart
  <2>2. QED
    BY <1>1, <2>1 DEF Known, SourcesApart
<1>3. PollsOwnSource'
  BY <1>1 DEF Moves, Known, PollsOwnSource
<1>4. QED BY <1>2, <1>3 DEF Known

\* The order of the dashboard is still for whom it was, or its device has
\* forgotten it.
LEMMA MovesOrder ==
    ASSUME TypeOK, NEW d \in Device, NEW m, NEW j, Moves(d, m, j)
    PROVE  /\ OrderedDevices' \in {OrderedDevices, OrderedDevices \ {d}}
           /\ m.src = dev[d].src => OrderedDevices' = OrderedDevices
<1> DEFINE Live(s) == \E r \in sources : r.id = s /\ r.desired = "live"
<1>1. \A e \in Device : dev'[e] = IF e = d THEN m ELSE dev[e]
  BY MovedDevices
<1>2. OrderedDevices = {e \in Device : Live(dev[e].src)}
  BY DEF OrderedDevices
<1>3. OrderedDevices' = {e \in Device : Live(dev'[e].src)}
  BY DEF OrderedDevices, Moves
<1>4. m.src = dev[d].src \/ ~Live(m.src)
  <2>1. ~Live(NoId)
    BY ServerAssumption DEF TypeOK, ServerTypeOK, SourceRow
  <2>2. ASSUME FreshSource(m.src) PROVE ~Live(m.src)
    BY <2>2 DEF FreshSource, KnownSources
  <2>3. QED BY <2>1, <2>2 DEF Moves
<1> HIDE DEF Live
<1>5. QED
  BY <1>1, <1>2, <1>3, <1>4

LEMMA MovesRelease ==
    ASSUME TypeOK, NEW d \in Device, NEW m, NEW j, Moves(d, m, j),
           m.cap => dev[d].cap
    PROVE  CC!Release(d)
<1>1. \A e \in Device : /\ dev'[e] = IF e = d THEN m ELSE dev[e]
                        /\ job'[e] = IF e = d THEN j ELSE job[e]
  BY MovedDevices
<1>2. GrantedJob(j) => GrantedJob(job[d])
  BY DEF Moves, GrantedJob
<1>3. GrantedDevices' \in {GrantedDevices, GrantedDevices \ {d}}
  BY <1>1, <1>2, GrantedForm, GrantedFormNext
<1>4. {e \in Device : dev'[e].cap} \in
         {{e \in Device : dev[e].cap}, {e \in Device : dev[e].cap} \ {d}}
  BY <1>1
<1>5. QED
  BY <1>3, <1>4, MovesOrder DEF CC!Release

LEMMA MovesTurnOn ==
    ASSUME TypeOK, NEW d \in Device, NEW m, NEW j, Moves(d, m, j),
           m.cap, m.src = dev[d].src, GrantedJob(job[d]), ~GrantedJob(j)
    PROVE  CC!TurnOn(d)
<1>1. \A e \in Device : /\ dev'[e] = IF e = d THEN m ELSE dev[e]
                        /\ job'[e] = IF e = d THEN j ELSE job[e]
  BY MovedDevices
<1>2. d \in GrantedDevices /\ GrantedDevices' = GrantedDevices \ {d}
  BY <1>1, GrantedForm, GrantedFormNext
<1>3. {e \in Device : dev'[e].cap} = {e \in Device : dev[e].cap} \cup {d}
  BY <1>1
<1>4. QED
  BY <1>2, <1>3, MovesOrder DEF CC!TurnOn

-----------------------------------------------------------------------------
(* What the methods of the service leave of source and camera.             *)

\* n has the source of m, and no camera that m had not.
Tame(m, n) == n \in DeviceState /\ n.src = m.src /\ (n.cap => m.cap)

LEMMA TameMethods ==
    ASSUME NEW m \in DeviceState
    PROVE  /\ \A s \in Shown : Tame(m, Publish(m, s))
           /\ \A r \in Mode : Tame(m, [m EXCEPT !.want = r])
           /\ Tame(m, CleanupCapture(m))
           /\ Tame(m, StopLocalRecording(m))
           /\ Tame(m, StopCapture(m))
           /\ Tame(m, FailAndStop(m))
           /\ Tame(m, Disarm(m))
           /\ Tame(m, DisarmDone(m))
           /\ Tame(m, CaptureFailed(m))
           /\ Tame(m, TransientError(m))
<1>1. \A n \in DeviceState : \A s \in Shown :
         Publish(n, s).src = n.src /\ Publish(n, s).cap = n.cap
  BY DEF Publish, DeviceState
<1>2. \A n \in DeviceState :
         CleanupCapture(n).src = n.src /\ ~CleanupCapture(n).cap
  BY DEF CleanupCapture, DeviceState
<1>3. \A n \in DeviceState : /\ StopLocalRecording(n).src = n.src
                             /\ StopLocalRecording(n).cap = n.cap
  BY DEF StopLocalRecording, Publish, DeviceState
<1>4. \A r \in Mode : [m EXCEPT !.want = r] \in DeviceState
  BY DEF DeviceState
<1>5. StopCapture(m).src = m.src /\ ~StopCapture(m).cap
  BY DEF StopCapture, CleanupCapture, Publish, DeviceState
<1>6. FailAndStop(m).src = m.src /\ ~FailAndStop(m).cap
  BY DEF FailAndStop, StopLocalRecording, CleanupCapture, Publish, DeviceState
<1>7. Disarm(m).src = m.src /\ ~Disarm(m).cap
  BY DEF Disarm, StopLocalRecording, CleanupCapture, Publish, DeviceState
<1>8. DisarmDone(m).src = m.src /\ DisarmDone(m).cap = m.cap
  BY DEF DisarmDone, Publish, DeviceState
<1>9. CaptureFailed(m).src = m.src /\ ~CaptureFailed(m).cap
  BY DEF CaptureFailed, CleanupCapture, Publish, DeviceState
<1>10. TransientError(m).src = m.src /\ TransientError(m).cap = m.cap
  BY DEF TransientError, DeviceState
<1>11. \A r \in Mode : [m EXCEPT !.want = r].src = m.src
                       /\ [m EXCEPT !.want = r].cap = m.cap
  BY DEF DeviceState
<1>12. QED
  BY <1>1, <1>2, <1>3, <1>4, <1>5, <1>6, <1>7, <1>8, <1>9, <1>10, <1>11,
     MethodTypes DEF Tame

LEMMA TameRecorder ==
    ASSUME NEW m \in DeviceState
    PROVE  /\ \A r \in Mode : \A n \in StartLocalRecording(m, r) : Tame(m, n)
           /\ \A n \in Reconcile(m) : Tame(m, n)
<1>1. \A q \in DeviceState : \A r \in Mode :
         \A n \in StartLocalRecording(q, r) : Tame(q, n)
  <2>1. SUFFICES ASSUME NEW q \in DeviceState, NEW r \in Mode,
                        NEW n \in StartLocalRecording(q, r)
                 PROVE  n.src = q.src /\ n.cap = q.cap
    BY RecordingTypes DEF Tame
  <2>2. QED
    BY <2>1 DEF StartLocalRecording, Publish, TransientError, DeviceState
<1>2. m.want \in Mode
  BY DEF DeviceState
<1>3. \A n \in Reconcile(m) : Tame(m, n)
  <2> DEFINE off == IF m.rec = "off" THEN m ELSE StopLocalRecording(m)
  <2>1. Tame(m, m) /\ Tame(m, off)
    BY TameMethods DEF Tame
  <2>2. off \in DeviceState
    BY <2>1 DEF Tame
  <2>3. Reconcile(m) = IF m.want = m.rec THEN {m}
                       ELSE IF m.want = "off" THEN {off}
                            ELSE StartLocalRecording(off, m.want)
    BY DEF Reconcile
  <2> HIDE DEF off
  <2>4. \A n \in StartLocalRecording(off, m.want) : Tame(m, n)
    <3>1. \A n \in StartLocalRecording(off, m.want) : Tame(off, n)
      BY <1>1, <1>2, <2>2
    <3>2. QED BY <2>1, <3>1 DEF Tame
  <2>5. QED BY <2>1, <2>3, <2>4
<1>4. QED BY <1>1, <1>3

-----------------------------------------------------------------------------
(* Every step of a device but the start of a capture only lets go.         *)

LetsGo(d) == \E m, j : Moves(d, m, j) /\ (m.cap => dev[d].cap)

LEMMA BecomeLetsGo ==
    ASSUME NEW d \in Device, NEW m, Tame(dev[d], m), NEW j, Become(d, m, j),
           j.op # "poll" \/ (j.at = "run" /\ j.src = m.src)
    PROVE  LetsGo(d)
BY DEF LetsGo, Become, Moves, Tame, tables

LEMMA OwnerLetsGo ==
    ASSUME TypeOK, NEW d \in Device, Owner(d)
    PROVE  LetsGo(d)
<1>1. dev[d] \in DeviceState /\ job = [job EXCEPT ![d] = job[d]]
  BY LiveAssumption DEF TypeOK, ServerTypeOK
<1>2. PICK m : /\ dev' = [dev EXCEPT ![d] = m]
               /\ m.src = dev[d].src /\ m.cap = dev[d].cap
               /\ UNCHANGED <<tables, job>>
  <2>1. CASE PressArm(d)
    BY <1>1, <2>1 DEF PressArm, DeviceState
  <2>2. CASE PressDisarm(d)
    BY <1>1, <2>2 DEF PressDisarm, DeviceState
  <2>3. CASE ShowActivity(d)
    <3>1. dev' = [dev EXCEPT ![d] =
                     [dev[d] EXCEPT !.armable = (dev[d].shown = "stopped")]]
      BY <1>1, <2>3 DEF ShowActivity
    <3>2. QED BY <1>1, <2>3, <3>1 DEF ShowActivity, DeviceState
  <2>4. QED BY <2>1, <2>2, <2>3 DEF Owner
<1>3. QED
  BY <1>1, <1>2 DEF LetsGo, Moves, tables

LEMMA ExecuteLetsGo ==
    ASSUME TypeOK, GoodDevices, NEW d \in Device, Execute(d)
    PROVE  LetsGo(d)
<1>1. dev[d] \in DeviceState
  BY DeviceFacts
<1>2. CASE StartArm(d)
  <2>1. PICK s \in SourceId :
           /\ FreshSource(s)
           /\ Become(d, [dev[d] EXCEPT !.src = s, !.tasks = Tail(@)],
                     ArmRequest(s))
    BY <1>2 DEF StartArm
  <2> DEFINE m == [dev[d] EXCEPT !.src = s, !.tasks = Tail(@)]
  <2>2. m.src = s /\ m.cap = dev[d].cap
    BY <1>1 DEF DeviceState
  <2>3. ArmRequest(s).op = "arm"
    BY DEF ArmRequest, NoJob
  <2>4. QED
    BY <2>1, <2>2, <2>3 DEF LetsGo, Moves, Become, tables
<1>3. CASE StartDisarm(d)
  <2> DEFINE n == [dev[d] EXCEPT !.tasks = Tail(@)]
             m == Disarm(n)
  <2>1. n \in DeviceState /\ n.src = dev[d].src /\ n.cap = dev[d].cap
    <3>1. NextTask(dev[d]) # "none"
      BY <1>3 DEF StartDisarm
    <3>2. QED BY <1>1, <3>1, TailType DEF DeviceState
  <2>2. Tame(dev[d], m) /\ Tame(dev[d], DisarmDone(m))
    <3>1. Tame(n, m)
      BY <2>1, TameMethods
    <3>2. m \in DeviceState
      BY <3>1 DEF Tame
    <3>3. Tame(m, DisarmDone(m))
      BY <3>2, TameMethods
    <3>4. QED BY <2>1, <3>1, <3>3 DEF Tame
  <2>3. \/ Become(d, DisarmDone(m), NoJob)
        \/ Become(d, m, DisarmRequest(m.src))
    BY <1>3 DEF StartDisarm
  <2>4. NoJob.op # "poll" /\ DisarmRequest(m.src).op # "poll"
    BY DEF NoJob, DisarmRequest
  <2>5. QED BY <2>2, <2>3, <2>4, BecomeLetsGo
<1>4. CASE StartPoll(d)
  <2> DEFINE j == PollRequest(dev[d].src, dev[d].st, dev[d].rec)
  <2>1. j.at = "run" /\ j.src = dev[d].src
    BY DEF PollRequest, NoJob
  <2>2. Tame(dev[d], dev[d])
    BY <1>1 DEF Tame
  <2>3. Become(d, dev[d], j)
    BY <1>4 DEF StartPoll
  <2>4. QED BY <2>1, <2>2, <2>3, BecomeLetsGo
<1>5. CASE Rotate(d)
  <2>1. /\ Tame(dev[d], StopLocalRecording(dev[d]))
        /\ dev[d].rec \in Mode
    BY <1>1, TameMethods DEF DeviceState
  <2>2. PICK m : Tame(dev[d], m) /\ Become(d, m, NoJob)
    BY <1>5, <2>1, TameRecorder DEF Rotate, Tame
  <2>3. QED BY <2>2, BecomeLetsGo DEF NoJob
<1>6. QED BY <1>2, <1>3, <1>4, <1>5 DEF Execute

\* An answer is taken: only the one that starts a capture opens the camera.
LEMMA PollAnswerLetsGo ==
    ASSUME TypeOK, GoodDevices, NEW d \in Device,
           \/ PollGone(d) \/ PollMaintains(d) \/ PollWaits(d)
           \/ PollStopsCapture(d) \/ PollReconciles(d)
    PROVE  LetsGo(d)
<1>1. dev[d] \in DeviceState /\ job[d].rec \in Mode
  BY DeviceFacts DEF JobRecord
<1>2. Tame(dev[d], Ordered(d)) /\ Ordered(d) \in DeviceState
  <2>1. Tame(dev[d], [dev[d] EXCEPT !.want = job[d].rec])
    BY <1>1, TameMethods
  <2>2. QED BY <2>1 DEF Ordered, Tame
<1>3. \A n \in DeviceState : Tame(Ordered(d), n) => Tame(dev[d], n)
  BY <1>2 DEF Tame
<1>4. CASE PollGone(d)
  <2>1. Tame(dev[d], FailAndStop(dev[d]))
    BY <1>1, TameMethods
  <2>2. QED
    BY <1>4, <2>1, BecomeLetsGo DEF PollGone, NoJob
<1>5. Tame(dev[d], StopLocalRecording(Ordered(d)))
  BY <1>2, <1>3, TameMethods DEF Tame
<1>6. CASE PollMaintains(d)
  <2> DEFINE m == StopLocalRecording(Ordered(d))
  <2>1. \/ Become(d, m, NoJob)
        \/ Become(d, m, HeartbeatRequest(m.ses))
        \/ Become(d, m, GetAnswerRequest(m.ses))
    BY <1>6 DEF PollMaintains, AwaitAnswer
  <2>2. /\ NoJob.op # "poll"
        /\ HeartbeatRequest(m.ses).op # "poll"
        /\ GetAnswerRequest(m.ses).op # "poll"
    BY DEF NoJob, HeartbeatRequest, GetAnswerRequest
  <2>3. QED BY <1>5, <2>1, <2>2, BecomeLetsGo
<1>7. CASE PollWaits(d)
  BY <1>5, <1>7, BecomeLetsGo DEF PollWaits, NoJob
<1>8. CASE PollStopsCapture(d)
  <2>1. /\ StopCapture(Ordered(d)) \in DeviceState
        /\ Tame(dev[d], StopCapture(Ordered(d)))
    BY <1>2, <1>3, TameMethods DEF Tame
  <2>2. \A n \in Reconcile(StopCapture(Ordered(d))) :
           Tame(StopCapture(Ordered(d)), n)
    BY <2>1, TameRecorder
  <2>3. PICK n, j : Become(d, n, j) /\ j.op # "poll" /\ Tame(dev[d], n)
    <3>1. CASE dev[d].ses = NoId
      <4>1. PICK n \in Reconcile(StopCapture(Ordered(d))) : Become(d, n, NoJob)
        BY <1>8, <3>1 DEF PollStopsCapture
      <4>2. Tame(dev[d], n)
        BY <2>1, <2>2 DEF Tame
      <4>3. QED BY <4>1, <4>2 DEF NoJob
    <3>2. CASE dev[d].ses # NoId
      <4>1. Become(d, StopCapture(Ordered(d)), StopRequest(dev[d].ses))
        BY <1>8, <3>2 DEF PollStopsCapture
      <4>2. StopRequest(dev[d].ses).op # "poll"
        BY DEF StopRequest, NoJob
      <4>3. QED BY <2>1, <4>1, <4>2
    <3>3. QED BY <3>1, <3>2
  <2>4. QED BY <2>3, BecomeLetsGo
<1>9. CASE PollReconciles(d)
  <2>1. PICK m \in Reconcile(Ordered(d)) : Become(d, m, NoJob)
    BY <1>9 DEF PollReconciles
  <2>2. Tame(dev[d], m)
    <3>1. Tame(Ordered(d), m)
      BY <1>2, <2>1, TameRecorder
    <3>2. QED BY <1>3, <3>1 DEF Tame
  <2>3. QED BY <2>1, <2>2, BecomeLetsGo DEF NoJob
<1>10. QED BY <1>4, <1>6, <1>7, <1>8, <1>9

LEMMA OtherAnswerLetsGo ==
    ASSUME TypeOK, GoodDevices, NEW d \in Device,
           \/ ArmAnswer(d) \/ StopAnswer(d) \/ OfferAnswer(d)
           \/ HeartbeatAnswer(d) \/ ViewerAnswer(d) \/ DisarmAnswer(d)
    PROVE  LetsGo(d)
<1>1. dev[d] \in DeviceState
  BY DeviceFacts
<1>2. Tame(dev[d], dev[d])
  BY <1>1 DEF Tame
<1>3. ASSUME NEW m, Tame(dev[d], m), Become(d, m, NoJob) PROVE LetsGo(d)
  BY <1>3, BecomeLetsGo DEF NoJob
<1>4. \A s \in {"armed", "live"}, n \in DeviceState :
         Tame(dev[d], n) => Tame(dev[d], Publish(n, s))
  BY TameMethods DEF Tame, Shown, Actual
<1>5. CASE ArmAnswer(d)
  <2>1. Tame(dev[d], [dev[d] EXCEPT !.on = TRUE, !.st = "armed"])
    BY <1>1 DEF Tame, DeviceState, Actual
  <2>2. QED BY <1>3, <1>4, <1>5, <2>1 DEF ArmAnswer, Tame
<1>6. CASE StopAnswer(d)
  BY <1>1, <1>3, <1>6, TameRecorder DEF StopAnswer
<1>7. CASE OfferAnswer(d)
  <2>1. Tame(dev[d], [dev[d] EXCEPT !.applied = FALSE, !.st = "live"])
    BY <1>1 DEF Tame, DeviceState, Actual
  <2>2. QED BY <1>3, <1>4, <1>7, <2>1 DEF OfferAnswer, Tame
<1>8. CASE HeartbeatAnswer(d)
  <2>1. \/ Become(d, StopCapture(dev[d]), NoJob)
        \/ Become(d, dev[d], NoJob)
        \/ Become(d, dev[d], GetAnswerRequest(dev[d].ses))
    BY <1>8 DEF HeartbeatAnswer, AwaitAnswer
  <2>2. GetAnswerRequest(dev[d].ses).op # "poll"
    BY DEF GetAnswerRequest, NoJob
  <2>3. QED
    BY <1>1, <1>2, <1>3, <2>1, <2>2, TameMethods, BecomeLetsGo
<1>9. CASE ViewerAnswer(d)
  <2>1. Tame(dev[d], [dev[d] EXCEPT !.applied = TRUE])
    BY <1>1 DEF Tame, DeviceState
  <2>2. /\ Tame(dev[d], StopCapture(dev[d]))
        /\ Tame(dev[d], TransientError(dev[d]))
        /\ Tame(dev[d], Publish([dev[d] EXCEPT !.applied = TRUE], "live"))
    BY <1>1, <1>4, <2>1, TameMethods DEF Tame
  <2>3. \/ Become(d, StopCapture(dev[d]), NoJob)
        \/ Become(d, Publish([dev[d] EXCEPT !.applied = TRUE], "live"), NoJob)
        \/ Become(d, TransientError(dev[d]), NoJob)
        \/ Become(d, dev[d], NoJob)
    BY <1>9 DEF ViewerAnswer
  <2>4. QED BY <1>2, <1>3, <2>2, <2>3
<1>10. CASE DisarmAnswer(d)
  BY <1>1, <1>3, <1>10, TameMethods DEF DisarmAnswer
<1>11. QED BY <1>5, <1>6, <1>7, <1>8, <1>9, <1>10

LEMMA FailureLetsGo ==
    ASSUME TypeOK, GoodDevices, NEW d \in Device, RequestFails(d)
    PROVE  LetsGo(d)
<1>1. dev[d] \in DeviceState
  BY DeviceFacts
<1>2. PICK m \in AfterFailure(d) :
         /\ dev' = [dev EXCEPT ![d] = m]
         /\ job' = [job EXCEPT ![d] = NoJob]
         /\ UNCHANGED tables
  BY DEF RequestFails
<1>3. /\ Tame(dev[d], FailAndStop(dev[d]))
      /\ Tame(dev[d], CaptureFailed(dev[d]))
      /\ Tame(dev[d], DisarmDone(dev[d]))
      /\ Tame(dev[d], TransientError(dev[d]))
      /\ \A n \in Reconcile(dev[d]) : Tame(dev[d], n)
  BY <1>1, TameMethods, TameRecorder
<1>4. m \in {FailAndStop(dev[d]), CaptureFailed(dev[d]), DisarmDone(dev[d]),
             TransientError(dev[d])} \cup Reconcile(dev[d])
  BY <1>2 DEF AfterFailure
<1>5. Tame(dev[d], m)
  BY <1>3, <1>4
<1>6. QED
  BY <1>2, <1>5 DEF LetsGo, Moves, Tame, NoJob, tables

LEMMA SystemLetsGo ==
    ASSUME TypeOK, NEW d \in Device, System(d)
    PROVE  LetsGo(d)
<1>1. PICK m : /\ dev' = [dev EXCEPT ![d] = m]
               /\ job' = [job EXCEPT ![d] = NoJob]
               /\ UNCHANGED tables
               /\ m.src = NoId /\ ~m.cap
  <2>1. CASE Destroy(d)
    <3>1. PICK s : /\ dev' = [dev EXCEPT ![d] =
                                 NoService(dev[d].kept /\ job[d].op # "arm", s,
                                           dev[d].st # "error")]
                   /\ job' = [job EXCEPT ![d] = NoJob]
                   /\ UNCHANGED tables
      BY <2>1 DEF Destroy
    <3>2. \A k, a : NoService(k, s, a).src = NoId /\ ~NoService(k, s, a).cap
      BY DEF NoService
    <3>3. QED BY <3>1, <3>2
  <2>2. CASE Kill(d)
    <3> DEFINE none == NoService(dev[d].kept, "stopped", TRUE)
               again == [none EXCEPT !.life = "started", !.tasks = <<"arm">>]
    <3>1. none.src = NoId /\ ~none.cap /\ again.src = NoId /\ ~again.cap
      BY DEF NoService
    <3>2. PICK m \in {none, again} :
             /\ dev' = [dev EXCEPT ![d] = m]
             /\ job' = [job EXCEPT ![d] = NoJob]
             /\ UNCHANGED tables
      <4> HIDE DEF again
      <4>1. /\ dev' = [dev EXCEPT ![d] =
                          IF dev[d].life = "started" /\ dev[d].kept
                          THEN again ELSE none]
            /\ job' = [job EXCEPT ![d] = NoJob]
            /\ UNCHANGED tables
        BY <2>2 DEF Kill, again
      <4>2. QED BY <4>1
    <3>3. QED BY <3>1, <3>2
  <2>3. QED BY <2>1, <2>2 DEF System
<1>2. QED
  BY <1>1 DEF LetsGo, Moves, NoJob, tables

\* The start of a capture uses up what the poll was told.
LEMMA CaptureStarts ==
    ASSUME TypeOK, GoodDevices, NEW d \in Device, PollStartsCapture(d)
    PROVE  \/ LetsGo(d)
           \/ \E m, j : /\ Moves(d, m, j)
                        /\ m.cap /\ m.src = dev[d].src
                        /\ GrantedJob(job[d]) /\ ~GrantedJob(j)
<1>1. dev[d] \in DeviceState /\ job[d].rec \in Mode
  BY DeviceFacts DEF JobRecord
<1> DEFINE m == [StopLocalRecording(Ordered(d)) EXCEPT !.st = "starting"]
<1>2. Tame(dev[d], m)
  <2>1. Tame(dev[d], [dev[d] EXCEPT !.want = job[d].rec])
    BY <1>1, TameMethods
  <2>2. Ordered(d) \in DeviceState
    BY <2>1 DEF Ordered, Tame
  <2>3. Tame(Ordered(d), StopLocalRecording(Ordered(d)))
    BY <2>2, TameMethods
  <2>4. Tame(StopLocalRecording(Ordered(d)), m)
    BY <2>3 DEF Tame, DeviceState, Actual
  <2>5. QED BY <2>1, <2>3, <2>4 DEF Tame, Ordered
<1>3. CASE Become(d, CaptureFailed(m), NoJob)
  <2>1. Tame(dev[d], CaptureFailed(m))
    <3>1. Tame(m, CaptureFailed(m))
      BY <1>2, TameMethods DEF Tame
    <3>2. QED BY <1>2, <3>1 DEF Tame
  <2>2. QED BY <1>3, <2>1, BecomeLetsGo DEF NoJob
<1>4. ASSUME NEW x \in SessionId,
             Become(d, Publish([m EXCEPT !.cap = TRUE, !.ses = x], "starting"),
                    OfferRequest(x))
      PROVE  \E n, j : /\ Moves(d, n, j)
                       /\ n.cap /\ n.src = dev[d].src
                       /\ GrantedJob(job[d]) /\ ~GrantedJob(j)
  <2> DEFINE n == Publish([m EXCEPT !.cap = TRUE, !.ses = x], "starting")
  <2>1. n.cap /\ n.src = dev[d].src
    <3>1. m \in DeviceState /\ m.src = dev[d].src
      BY <1>2 DEF Tame
    <3> HIDE DEF m
    <3>2. QED BY <3>1 DEF Publish, DeviceState
  <2>2. GrantedJob(job[d])
    BY DEF PollStartsCapture, Polled, Answered, GrantedJob
  <2>3. OfferRequest(x).op = "offer"
    BY DEF OfferRequest, NoJob
  <2> HIDE DEF m
  <2>4. Moves(d, n, OfferRequest(x))
    BY <1>4, <2>1, <2>3 DEF Moves, Become, tables
  <2>5. QED BY <2>1, <2>2, <2>3, <2>4 DEF GrantedJob
<1>5. QED
  BY <1>3, <1>4 DEF PollStartsCapture

\* So every step of a device is a step of the contract.
LEMMA DeviceRefines ==
    ASSUME TypeOK, GoodDevices, Known, NEW d \in Device,
           \/ Owner(d) \/ Execute(d) \/ TakeAnswer(d)
           \/ RequestFails(d) \/ System(d)
    PROVE  Known' /\ CC!Next
<1>1. \/ LetsGo(d)
      \/ \E m, j : /\ Moves(d, m, j)
                   /\ m.cap /\ m.src = dev[d].src
                   /\ GrantedJob(job[d]) /\ ~GrantedJob(j)
  BY OwnerLetsGo, ExecuteLetsGo, PollAnswerLetsGo, OtherAnswerLetsGo,
     FailureLetsGo, SystemLetsGo, CaptureStarts DEF TakeAnswer
<1>2. CASE LetsGo(d)
  <2>1. PICK m, j : Moves(d, m, j) /\ (m.cap => dev[d].cap)
    BY <1>2 DEF LetsGo
  <2>2. QED BY <2>1, MovesKeepKnown, MovesRelease DEF CC!Next
<1>3. ASSUME NEW m, NEW j, Moves(d, m, j), m.cap, m.src = dev[d].src,
             GrantedJob(job[d]), ~GrantedJob(j)
      PROVE  Known' /\ CC!Next
  BY <1>3, MovesKeepKnown, MovesTurnOn DEF CC!Next
<1>4. QED BY <1>1, <1>2, <1>3

-----------------------------------------------------------------------------
(* A step of a page, of the server and of time.                            *)

LEMMA PageRefines ==
    ASSUME TypeOK, Known, NEW p \in Page, Dashboard(p)
    PROVE  Known' /\ UNCHANGED CC!vars
<1>1. UNCHANGED <<sources, dev>>
  BY DEF Dashboard, AskStatus, AskControl, AskRecord, Connect, Watch,
     Disconnect, Leave, Ask, PageAnswer, PageRequestFails, tables
<1>2. job' = job \/ \E j : job' = [job EXCEPT ![p] = j]
  BY DEF Dashboard, AskStatus, AskControl, AskRecord, Connect, Watch,
     Disconnect, Leave, Ask, PageAnswer, PageRequestFails
<1>3. \A d \in Device : job'[d] = job[d]
  BY <1>2, LiveAssumption DEF TypeOK, ServerTypeOK
<1>4. Known'
  BY <1>1, <1>3 DEF Known, SourcesApart, PollsOwnSource
<1>5. OrderedDevices' = OrderedDevices
  BY <1>1 DEF OrderedDevices
<1>6. GrantedDevices' = GrantedDevices
  BY <1>3, GrantedForm, GrantedFormNext
<1>7. QED BY <1>1, <1>4, <1>5, <1>6 DEF CC!vars

\* What the order may become, whoever changes the rows: there is one row, and
\* one device that holds its identifier.
LEMMA OneOrder ==
    ASSUME TypeOK', OneSourceOneSession', SourcesApart'
    PROVE  /\ OrderedDevices' \in SUBSET Device
           /\ \A d, e \in OrderedDevices' : d = e
<1>1. \A r \in sources' : r.id # NoId
  BY ServerAssumption DEF TypeOK, ServerTypeOK, SourceRow
<1>2. OrderedDevices' = {d \in Device :
         \E r \in sources' : r.id = dev'[d].src /\ r.desired = "live"}
  BY DEF OrderedDevices
<1>3. \A q, r \in sources' : q = r
  BY DEF OneSourceOneSession
<1>4. QED
  BY <1>1, <1>2, <1>3 DEF SourcesApart

LEMMA AgeRefines ==
    ASSUME TypeOK', OneSourceOneSession', Known, Age, UNCHANGED <<dev, page>>
    PROVE  Known' /\ CC!Next
<1>1. job' = job
  BY DEF Age, AgeSource, AgeSession
<1>2. Known'
  BY <1>1 DEF Known, SourcesApart, PollsOwnSource
<1>3. CC!Order
  BY <1>1, <1>2, OneOrder, GrantedForm, GrantedFormNext DEF CC!Order, Known
<1>4. QED BY <1>2, <1>3 DEF CC!Next

\* What a handler makes of a poll: an answered one is not asked again, and only
\* its first transaction tells the device.
LEMMA PollAfter ==
    ASSUME ServerTypeOK, NEW j \in Job, Transaction(j)
    PROVE  LET k == After(j) IN
           /\ k.op = "poll" => k.at # "run"
           /\ GrantedJob(j) => GrantedJob(k)
           /\ GrantedJob(k) =>
                 \/ GrantedJob(j)
                 \/ /\ j.op = "poll" /\ j.at = "run"
                    /\ \E r \in sources : r.id = j.src /\ r.desired = "live"
<1>1. After(j).op = j.op /\ j \in JobRecord
  BY AfterType DEF Job
<1>2. CASE j.op # "poll"
  BY <1>1, <1>2 DEF GrantedJob
<1>3. CASE j.op = "poll" /\ j.at = "run"
  <2>1. After(j) = AfterUpdate(j) /\ ~GrantedJob(j)
    BY <1>3 DEF After, GrantedJob
  <2>2. CASE SourceWith(j.src) = {}
    <3>1. After(j).at = "done" /\ After(j).ans = "gone"
      BY <2>1, <2>2 DEF AfterUpdate, Reply, NoJob
    <3>2. QED BY <2>1, <3>1 DEF GrantedJob
  <2>3. CASE SourceWith(j.src) # {}
    <3>1. PICK r \in SourceWith(j.src) :
             r = CHOOSE q \in SourceWith(j.src) : TRUE
      BY <2>3
    <3>2. After(j).at = "settings" /\ After(j).want = r.desired
      BY <1>1, <2>1, <2>3, <3>1 DEF AfterUpdate, JobRecord
    <3>3. r \in sources /\ r.id = j.src
      BY <3>1 DEF SourceWith
    <3>4. QED BY <1>3, <2>1, <3>2, <3>3 DEF GrantedJob
  <2>4. QED BY <2>2, <2>3
<1>4. CASE j.op = "poll" /\ j.at = "settings"
  <2>1. After(j) = [Reply(j, "ok") EXCEPT !.rec = recording.desired]
    BY <1>4 DEF After
  <2>2. After(j).at = "done" /\ After(j).ans = "ok" /\ After(j).want = j.want
    BY <2>1 DEF Reply, NoJob
  <2>3. QED BY <1>1, <1>4, <2>2 DEF GrantedJob
<1>5. j.op = "poll" => j.at \in {"run", "settings"}
  BY DEF Transaction
<1>6. QED BY <1>2, <1>3, <1>4, <1>5

LEMMA ServeRefines ==
    ASSUME TypeOK, TypeOK', OneSourceOneSession', Known,
           NEW c \in Client, Serve(c), UNCHANGED <<dev, page>>
    PROVE  Known' /\ CC!Next
<1> DEFINE j == job[c]
<1>1. /\ j \in Job /\ Transaction(j) /\ ServerTypeOK
      /\ \A d \in Device : job'[d] = IF d = c THEN After(j) ELSE job[d]
  BY LiveAssumption DEF Serve, TypeOK, ServerTypeOK
<1>2. /\ After(j).op = "poll" => After(j).at # "run"
      /\ GrantedJob(j) => GrantedJob(After(j))
      /\ GrantedJob(After(j)) =>
            \/ GrantedJob(j)
            \/ /\ j.op = "poll" /\ j.at = "run"
               /\ \E r \in sources : r.id = j.src /\ r.desired = "live"
  BY <1>1, PollAfter
<1>3. Known'
  BY <1>1, <1>2 DEF Known, SourcesApart, PollsOwnSource
<1>4. UNCHANGED {d \in Device : dev[d].cap}
  OBVIOUS
<1>5. CASE c \in Device /\ GrantedJob(After(j)) /\ ~GrantedJob(j)
  <2>1. c \in OrderedDevices
    BY <1>2, <1>5 DEF OrderedDevices, Known, PollsOwnSource
  <2>2. UpdateSource(j.src, j.st)
    BY <1>1, <1>2, <1>5 DEF Transaction
  <2>3. OrderedDevices' = OrderedDevices
    <3> DEFINE New(r) ==
                  IF r.id = j.src /\ (r.actual # j.st \/ r.seen # "fresh")
                  THEN [r EXCEPT !.actual = j.st, !.seen = "fresh"] ELSE r
    <3>1. \A r \in sources : New(r).id = r.id /\ New(r).desired = r.desired
      BY DEF TypeOK, ServerTypeOK, SourceRow
    <3>2. sources' = {New(r) : r \in sources}
      BY <2>2 DEF UpdateSource
    <3> HIDE DEF New
    <3>3. \A s : (\E r \in sources' : r.id = s /\ r.desired = "live")
                   <=> (\E r \in sources : r.id = s /\ r.desired = "live")
      BY <3>1, <3>2
    <3>4. QED BY <3>3 DEF OrderedDevices
  <2>4. GrantedDevices' = GrantedDevices \cup {c}
    BY <1>1, <1>5, GrantedForm, GrantedFormNext
  <2>5. CC!Grant(c)
    BY <1>4, <2>1, <2>3, <2>4 DEF CC!Grant
  <2>6. QED BY <1>3, <1>5, <2>5 DEF CC!Next
<1>6. CASE ~(c \in Device /\ GrantedJob(After(j)) /\ ~GrantedJob(j))
  <2>1. GrantedDevices' = GrantedDevices
    BY <1>1, <1>2, <1>6, GrantedForm, GrantedFormNext
  <2>2. CC!Order
    BY <1>3, <1>4, <2>1, OneOrder DEF CC!Order, Known
  <2>3. QED BY <1>3, <2>2 DEF CC!Next
<1>7. QED BY <1>5, <1>6

LEMMA ServerRefines ==
    ASSUME TypeOK, TypeOK', OneSourceOneSession', Known,
           ServerStep, UNCHANGED <<dev, page>>
    PROVE  Known' /\ CC!Next
<1>1. CASE \E c \in Client : Serve(c)
  BY <1>1, ServeRefines
<1>2. CASE \E j \in orphans : ServeOrphan(j)
  <2>1. job' = job
    BY <1>2 DEF ServeOrphan
  <2>2. Known'
    BY <2>1 DEF Known, SourcesApart, PollsOwnSource
  <2>3. CC!Order
    BY <2>1, <2>2, OneOrder, GrantedForm, GrantedFormNext DEF CC!Order, Known
  <2>4. QED BY <2>2, <2>3 DEF CC!Next
<1>3. QED BY <1>1, <1>2 DEF ServerStep

-----------------------------------------------------------------------------
(* The theorem.                                                            *)

LEMMA InitRefines == Init => Known /\ CC!Init
<1> SUFFICES ASSUME Init PROVE Known /\ CC!Init
  OBVIOUS
<1>1. \A d \in Device : /\ dev[d].src = NoId /\ ~dev[d].cap
                        /\ job[d].op = "none"
  BY LiveAssumption DEF Init, ServerInit, NoService, NoJob
<1>2. sources = {}
  BY DEF Init, ServerInit
<1>3. Known
  BY <1>1 DEF Known, SourcesApart, PollsOwnSource
<1>4. OrderedDevices = {} /\ GrantedDevices = {}
  BY <1>1, <1>2 DEF OrderedDevices, GrantedDevices
<1>5. QED BY <1>1, <1>3, <1>4 DEF CC!Init

LEMMA NextRefines ==
    /\ TypeOK /\ GoodDevices /\ Known /\ [Next]_vars
    /\ TypeOK' /\ OneSourceOneSession'
    => Known' /\ [CC!Next]_(CC!vars)
<1> SUFFICES ASSUME TypeOK, GoodDevices, Known, [Next]_vars,
                    TypeOK', OneSourceOneSession'
             PROVE  Known' /\ [CC!Next]_(CC!vars)
  OBVIOUS
<1>1. CASE ServerStep /\ UNCHANGED <<dev, page>>
  BY <1>1, ServerRefines
<1>2. CASE Age /\ UNCHANGED <<dev, page>>
  BY <1>2, AgeRefines
<1>3. ASSUME NEW d \in Device,
             \/ Owner(d) \/ Execute(d) \/ TakeAnswer(d)
             \/ RequestFails(d) \/ System(d)
      PROVE  Known' /\ CC!Next
  BY <1>3, DeviceRefines
<1>4. ASSUME NEW p \in Page, Dashboard(p)
      PROVE  Known' /\ UNCHANGED CC!vars
  BY <1>4, PageRefines
<1>5. CASE UNCHANGED vars
  <2>1. Known'
    BY <1>5 DEF vars, Known, SourcesApart, PollsOwnSource
  <2>2. UNCHANGED CC!vars
    BY <1>5 DEF vars, CC!vars, OrderedDevices, GrantedDevices
  <2>3. QED BY <2>1, <2>2
<1>6. QED BY <1>1, <1>2, <1>3, <1>4, <1>5 DEF Next

\* The cameras of the devices obey the dashboard as CameraControl says, whatever
\* requests of the device, of pages and of abandoned calls the server serves in
\* between, however often a device is disarmed, armed again, killed or started.
THEOREM CameraObeys == Spec => ImplementsCameraControl
<1>1. Spec => [](TypeOK /\ GoodDevices /\ OneSourceOneSession)
  BY TypeCorrect, DevicesStayGood, SingleSource, PTL
<1>2. Init => Known /\ CC!Init
  BY InitRefines
<1>3. /\ TypeOK /\ GoodDevices /\ Known /\ [Next]_vars
      /\ TypeOK' /\ OneSourceOneSession'
      => Known' /\ [CC!Next]_(CC!vars)
  BY NextRefines
<1>4. QED
  BY <1>1, <1>2, <1>3, PTL DEF Spec, ImplementsCameraControl, CC!Spec

=============================================================================
