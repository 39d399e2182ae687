----------------------------- MODULE MonitorLive -----------------------------
(***************************************************************************)
(* The live monitor with its Android companion: MonitorService.java on     *)
(* each device, the arm and disarm buttons of MainActivity.java, and the   *)
(* dashboard pages of app/static/js/monitor.js, all talking to the server  *)
(* of MonitorServer.                                                       *)
(*                                                                         *)
(* dev[d] is the service object of device d, its preferences and the       *)
(* activity's buttons.  All work of the service runs on one executor       *)
(* thread, which waits for every HTTP answer: it is busy exactly while     *)
(* job[d] is not idle.  page[p] is what a dashboard page remembers.        *)
(***************************************************************************)
EXTENDS MonitorServer, Sequences

CONSTANTS
    Device,      \* phones with a paired companion application
    Page,        \* dashboard pages, one administrator each
    Operator,    \* the pages whose administrator uses the control buttons
    Viewer,      \* the pages that load the status and connect to what it
                 \* offers (the other pages' status requests do nothing that
                 \* their commands do not do to the server)
    MaxTasks,    \* bound on the one-shot tasks queued on an executor
    Events       \* what may happen besides arming and orders: "disarm" by
                 \* the owner, "fail" of a request or of the camera, "kill"
                 \* of the application's process, "expire" of a lease

ASSUME LiveAssumption ==
    /\ Client = Device \cup Page
    /\ Device \cap Page = {}
    /\ Operator \subseteq Page /\ Viewer \subseteq Page
    /\ MaxTasks \in Nat
    /\ Events \subseteq {"disarm", "fail", "kill", "expire"}

VARIABLES dev, page

vars == <<sources, sessions, recording, job, orphans, dev, page>>

-----------------------------------------------------------------------------
(* The state of a device.                                                  *)

Shown == Actual \cup {"stopped"}

DeviceState ==
    [on      : BOOLEAN,                  \* armed
     st      : Actual,                   \* state
     shown   : Shown,                    \* the static currentState
     armable : BOOLEAN,                  \* the arm button is enabled
     cap     : BOOLEAN,                  \* WebRTC holds camera and microphone
     rec     : Mode,                     \* actualRecordingMode
     want    : Mode,                     \* desiredRecordingMode
     src     : SourceId \cup {NoId},     \* sourceId
     ses     : SessionId \cup {NoId},    \* monitorSessionId
     applied : BOOLEAN,                  \* answerApplied
     tasks   : Seq({"arm", "disarm"}),   \* one-shot tasks not yet started
     kept    : BOOLEAN,                  \* MonitorStateStore.isArmed
     life    : {"none", "started", "stopping"}]   \* stopping: after stopSelf

\* No service object, or a new one with nothing to do.
NoService(kept, shown, armable) ==
    [on |-> FALSE, st |-> "armed", shown |-> shown, armable |-> armable,
     cap |-> FALSE, rec |-> "off", want |-> "off", src |-> NoId,
     ses |-> NoId, applied |-> FALSE, tasks |-> << >>, kept |-> kept,
     life |-> "none"]

PageState == [avail : SessionId \cup {NoId},     \* availableSession
              conn  : SessionId \cup {NoId}]     \* connectedSessionId

TypeOK ==
    /\ ServerTypeOK
    /\ dev \in [Device -> DeviceState]
    /\ page \in [Page -> PageState]

-----------------------------------------------------------------------------
(* The methods of MonitorService as functions of the service object m.     *)

\* (Forms ending in _Wrong are not the code: they are plausible slips in the
\* definition that follows, which the properties are tested against.)
Publish_Wrong(m, s) ==
    [m EXCEPT !.shown = s, !.st = s, !.armable = (s = "stopped")]
Publish_WrongButton(m, s) ==
    [m EXCEPT !.shown = s, !.armable = (s \in {"stopped", "error"})]

\* publishState: the static fields, the notification and a broadcast that
\* the activity turns into the state of its buttons.
Publish(m, s) == [m EXCEPT !.shown = s, !.armable = (s = "stopped")]

CleanupCapture(m) == [m EXCEPT !.cap = FALSE, !.ses = NoId, !.applied = FALSE]

StopLocalRecording_Wrong(m) == Publish(m, "armed")

StopLocalRecording(m) ==
    LET r == [m EXCEPT !.rec = "off"] IN
    IF m.on /\ m.st = "armed" THEN Publish(r, "armed") ELSE r

StopCapture_Wrong(m) == Publish([m EXCEPT !.st = "armed"], "armed")

StopCapture(m) == Publish([CleanupCapture(m) EXCEPT !.st = "armed"], "armed")

FailAndStop_Wrong(m) ==
    [CleanupCapture(StopLocalRecording([Publish(m, "error") EXCEPT
        !.st = "error", !.on = FALSE, !.want = "off"]))
     EXCEPT !.life = "stopping"]

FailAndStop(m) ==
    [CleanupCapture(StopLocalRecording([Publish(m, "error") EXCEPT
        !.kept = FALSE, !.st = "error", !.on = FALSE, !.want = "off"]))
     EXCEPT !.life = "stopping"]

\* disarmAndStop up to its request to the server, and the rest of it.
Disarm(m) ==
    CleanupCapture(StopLocalRecording([m EXCEPT
        !.kept = FALSE, !.on = FALSE, !.want = "off"]))
DisarmDone(m) == [Publish(m, "stopped") EXCEPT !.life = "stopping"]

CaptureFailed_Wrong(m) == Publish(CleanupCapture(m), "starting")

CaptureFailed(m) ==
    Publish([CleanupCapture(m) EXCEPT !.st = "error"], "error")

\* publishTransientError broadcasts the state, which is never "stopped".
TransientError(m) == [m EXCEPT !.armable = FALSE]

\* The recorder starts, or an exception leaves it off.
StartLocalRecording(m, mode) ==
    LET started == Publish([m EXCEPT !.rec = mode], "armed")
        failed  == TransientError([m EXCEPT !.rec = "off"])
    IN  IF "fail" \in Events THEN {started, failed} ELSE {started}

\* reconcileLocalRecording(desiredRecordingMode)
Reconcile(m) ==
    IF m.want = m.rec THEN {m}
    ELSE LET off == IF m.rec = "off" THEN m ELSE StopLocalRecording(m) IN
         IF m.want = "off" THEN {off} ELSE StartLocalRecording(off, m.want)

-----------------------------------------------------------------------------
Init ==
    /\ ServerInit
    /\ dev = [d \in Device |-> NoService(FALSE, "stopped", TRUE)]
    /\ page = [p \in Page |-> [avail |-> NoId, conn |-> NoId]]

tables == <<sources, sessions, recording>>

FreshSource(s) ==
    /\ s \notin KnownSources
    /\ \A d \in Device : dev[d].src # s
FreshSession(x) ==
    /\ x \notin KnownSessions
    /\ \A d \in Device : dev[d].ses # x
    /\ \A p \in Page : x \notin {page[p].avail, page[p].conn}

\* Device d becomes m, and its executor goes on to request j (NoJob: it is
\* free again).
Become(d, m, j) ==
    /\ dev' = [dev EXCEPT ![d] = m]
    /\ job' = [job EXCEPT ![d] = j]
    /\ UNCHANGED <<tables, orphans, page>>

Free(c) == job[c].at = "idle"

-----------------------------------------------------------------------------
(* The owner of the phone.                                                 *)

\* A button sends an intent, which starts the service.  stopSelf() is not
\* undone by an intent delivered before it; one sent after it is delivered to a
\* new service object, once the old one is destroyed.
PressArm(d) ==
    LET m == dev[d] IN
    /\ m.armable
    /\ m.life # "stopping"
    /\ Len(m.tasks) < MaxTasks
    /\ dev' = [dev EXCEPT ![d] = [m EXCEPT
                  !.kept = TRUE, !.armable = FALSE, !.life = "started",
                  !.tasks = Append(m.tasks, "arm")]]
    /\ UNCHANGED <<tables, job, orphans, page>>

PressDisarm(d) ==
    LET m == dev[d] IN
    /\ "disarm" \in Events
    /\ ~m.armable
    /\ m.life # "stopping"
    /\ Len(m.tasks) < MaxTasks
    /\ dev' = [dev EXCEPT ![d] = [m EXCEPT
                  !.kept = FALSE, !.armable = TRUE, !.life = "started",
                  !.tasks = Append(m.tasks, "disarm")]]
    /\ UNCHANGED <<tables, job, orphans, page>>

\* The activity is shown again: MainActivity.onStart.
ShowActivity(d) ==
    /\ dev[d].armable # (dev[d].shown = "stopped")
    /\ dev' = [dev EXCEPT ![d].armable = (dev[d].shown = "stopped")]
    /\ UNCHANGED <<tables, job, orphans, page>>

-----------------------------------------------------------------------------
(* The executor starts a task.                                             *)

NextTask(m) == IF m.tasks = << >> THEN "none" ELSE Head(m.tasks)

StartArm(d) ==
    /\ Free(d)
    /\ NextTask(dev[d]) = "arm"
    /\ \E s \in SourceId :
          /\ FreshSource(s)
          /\ Become(d, [dev[d] EXCEPT !.src = s, !.tasks = Tail(@)],
                    ArmRequest(s))

StartDisarm(d) ==
    LET m == Disarm([dev[d] EXCEPT !.tasks = Tail(@)]) IN
    /\ Free(d)
    /\ NextTask(dev[d]) = "disarm"
    /\ IF m.src = NoId
       THEN Become(d, DisarmDone(m), NoJob)
       ELSE Become(d, m, DisarmRequest(m.src))

\* Tasks run in the order of their trigger times.  A queued "arm" is older
\* than any due poll: the arm button is enabled only while nothing polls.
PeriodicMayRun(d) ==
    /\ Free(d)
    /\ dev[d].on
    /\ NextTask(dev[d]) # "arm"

StartPoll(d) ==
    /\ PeriodicMayRun(d)
    /\ Become(d, dev[d], PollRequest(dev[d].src, dev[d].st, dev[d].rec))

\* rotateLocalRecording, every ten minutes.
Rotate(d) ==
    LET stopped == StopLocalRecording(dev[d]) IN
    /\ PeriodicMayRun(d)
    /\ dev[d].rec # "off"
    /\ \E m \in IF stopped.st = "armed" /\ dev[d].rec = stopped.want
                THEN StartLocalRecording(stopped, dev[d].rec)
                ELSE {stopped} :
          Become(d, m, NoJob)

-----------------------------------------------------------------------------
(* The executor takes an answer.                                           *)

Answered(d, op) == job[d].op = op /\ job[d].at = "done"

ArmAnswer(d) ==
    /\ Answered(d, "arm")
    /\ Become(d, Publish([dev[d] EXCEPT !.on = TRUE, !.st = "armed"], "armed"),
              NoJob)

\* 404: the source expired or another one was armed.
PollGone(d) ==
    /\ Answered(d, "poll")
    /\ job[d].ans = "gone"
    /\ Become(d, FailAndStop(dev[d]), NoJob)

Polled_Wrong(d, w) ==
    /\ Answered(d, "poll")
    /\ job[d].ans = "ok"
    /\ w \in Desired

\* What every answered poll does first.
Polled(d, w) ==
    /\ Answered(d, "poll")
    /\ job[d].ans = "ok"
    /\ job[d].want = w

Ordered(d) == [dev[d] EXCEPT !.want = job[d].rec]

\* startCapture: the recorder is stopped first, then the camera opens and the
\* offer is sent, or opening fails.
PollStartsCapture(d) ==
    LET m == [StopLocalRecording(Ordered(d)) EXCEPT !.st = "starting"] IN
    /\ Polled(d, "live")
    /\ dev[d].st = "armed"
    /\ \/ "fail" \in Events /\ Become(d, CaptureFailed(m), NoJob)
       \/ \E x \in SessionId :
             /\ FreshSession(x)
             /\ Become(d, Publish([m EXCEPT !.cap = TRUE, !.ses = x],
                                  "starting"),
                       OfferRequest(x))

\* maintainLiveSession: a heartbeat every four seconds, and the answer of a
\* viewer until there is one.
AwaitAnswer(d, m) ==
    Become(d, m, IF m.applied THEN NoJob ELSE GetAnswerRequest(m.ses))

PollMaintains(d) ==
    LET m == StopLocalRecording(Ordered(d)) IN
    /\ Polled(d, "live")
    /\ dev[d].st = "live"
    /\ IF m.ses = NoId
       THEN Become(d, m, NoJob)
       ELSE \/ Become(d, m, HeartbeatRequest(m.ses))
            \/ AwaitAnswer(d, m)

PollWaits(d) ==
    /\ Polled(d, "live")
    /\ dev[d].st \in {"starting", "error"}
    /\ Become(d, StopLocalRecording(Ordered(d)), NoJob)

PollStopsCapture(d) ==
    LET m == StopCapture(Ordered(d)) IN
    /\ Polled(d, "armed")
    /\ dev[d].st # "armed"
    /\ IF dev[d].ses = NoId
       THEN \E n \in Reconcile(m) : Become(d, n, NoJob)
       ELSE Become(d, m, StopRequest(dev[d].ses))

PollReconciles(d) ==
    /\ Polled(d, "armed")
    /\ dev[d].st = "armed"
    /\ \E m \in Reconcile(Ordered(d)) : Become(d, m, NoJob)

\* The answer to stopSession is ignored, and so is its failure.
StopAnswer(d) ==
    /\ Answered(d, "stop")
    /\ \E m \in Reconcile(dev[d]) : Become(d, m, NoJob)

OfferAnswer(d) ==
    /\ Answered(d, "offer")
    /\ Become(d, Publish([dev[d] EXCEPT !.applied = FALSE, !.st = "live"],
                         "live"), NoJob)

HeartbeatAnswer(d) ==
    /\ Answered(d, "heartbeat")
    /\ IF job[d].ans = "active"
       THEN AwaitAnswer(d, dev[d])
       ELSE Become(d, StopCapture(dev[d]), NoJob)

\* Applying the answer of the viewer may fail: it is asked for again.
ViewerAnswer(d) ==
    /\ Answered(d, "getAnswer")
    /\ CASE job[d].ans = "inactive" ->
                Become(d, StopCapture(dev[d]), NoJob)
         [] job[d].ans = "answer" ->
                \/ Become(d, Publish([dev[d] EXCEPT !.applied = TRUE], "live"),
                          NoJob)
                \/ /\ "fail" \in Events
                   /\ Become(d, TransientError(dev[d]), NoJob)
         [] OTHER -> Become(d, dev[d], NoJob)

DisarmAnswer(d) ==
    /\ Answered(d, "disarm")
    /\ Become(d, DisarmDone(dev[d]), NoJob)

\* A request fails: refused, timed out, or its answer lost.
AfterFailure(d) ==
    LET m == dev[d] IN
    CASE job[d].op = "arm"    -> {FailAndStop(m)}
      [] job[d].op = "offer"  -> {CaptureFailed(m)}
      [] job[d].op = "stop"   -> Reconcile(m)
      [] job[d].op = "disarm" -> {DisarmDone(m)}
      [] OTHER                -> {TransientError(m)}

RequestFails(d) ==
    /\ "fail" \in Events
    /\ ~Free(d)
    /\ GiveUp(job[d])
    /\ \E m \in AfterFailure(d) : dev' = [dev EXCEPT ![d] = m]
    /\ job' = [job EXCEPT ![d] = NoJob]
    /\ UNCHANGED <<tables, page>>

-----------------------------------------------------------------------------
(* The Android system.                                                     *)

\* onDestroy, on the main thread: it releases what the service holds and shuts
\* the executor down.  The task in progress is interrupted; what it can still
\* do is publish a state, and disarm the preferences when it was arming.
Destroy(d) ==
    LET m == dev[d] IN
    /\ m.life = "stopping"
    /\ \E s \in CASE job[d].op = "arm"    -> {"error"}
                  [] job[d].op = "poll"   -> {m.shown, "error"}
                  [] job[d].op = "offer"  -> {"live", "error"}
                  [] job[d].op = "disarm" -> {"stopped"}
                  [] OTHER                -> {m.shown} :
          dev' = [dev EXCEPT ![d] =
                     NoService(m.kept /\ job[d].op # "arm", s, m.st # "error")]
    /\ GiveUp(job[d])
    /\ job' = [job EXCEPT ![d] = NoJob]
    /\ UNCHANGED <<tables, page>>

\* The process is killed: the preferences are all that survives.  A service
\* that was armed is sticky, and started again to arm itself.
Kill(d) ==
    LET m == dev[d]
        none == NoService(m.kept, "stopped", TRUE)
    IN  /\ "kill" \in Events
        /\ MaxTasks > 0
        /\ dev' = [dev EXCEPT ![d] =
                      IF m.life = "started" /\ m.kept
                      THEN [none EXCEPT !.life = "started", !.tasks = <<"arm">>]
                      ELSE none]
        /\ dev' # dev
        /\ GiveUp(job[d])
        /\ job' = [job EXCEPT ![d] = NoJob]
        /\ UNCHANGED <<tables, page>>

-----------------------------------------------------------------------------
(* A dashboard page.                                                       *)

Ask(p, j) ==
    /\ Free(p)
    /\ job' = [job EXCEPT ![p] = j]
    /\ UNCHANGED <<tables, orphans, dev>>

AskStatus(p)     == Ask(p, StatusRequest) /\ UNCHANGED page
AskControl(p, w) == Ask(p, ControlRequest(w)) /\ UNCHANGED page
AskRecord(p, m)  == Ask(p, RecordRequest(m)) /\ UNCHANGED page

\* connectToSource, when a session is available and none is connected.
Connect(p) ==
    /\ page[p].avail # NoId
    /\ page[p].conn = NoId
    /\ Ask(p, PostAnswerRequest(page[p].avail, p))
    /\ page' = [page EXCEPT ![p].conn = page[p].avail]

Watch(p) ==
    /\ page[p].conn # NoId
    /\ Ask(p, WatchRequest(page[p].conn, p))
    /\ UNCHANGED page

\* The peer connection ends.
Disconnect(p) ==
    /\ page[p].conn # NoId
    /\ page' = [page EXCEPT ![p].conn = NoId]
    /\ UNCHANGED <<tables, job, orphans, dev>>

\* pagehide: the capture is stopped by a request nobody waits for, and the page
\* is opened afresh.
Leave(p) ==
    /\ page[p].avail # NoId \/ page[p].conn # NoId
    /\ page' = [page EXCEPT ![p] = [avail |-> NoId, conn |-> NoId]]
    /\ Ask(p, ControlRequest("armed"))

\* loadMonitorStatus
AfterStatusAnswer(p) ==
    LET j == job[p]
        keeps == IF j.ses = NoId THEN j.ans = "active" ELSE page[p].conn = j.ses
    IN  IF j.ans = "gone" THEN [avail |-> NoId, conn |-> NoId]
        ELSE [avail |-> j.ses, conn |-> IF keeps THEN page[p].conn ELSE NoId]

PageAnswer(p) ==
    LET j == job[p] IN
    /\ j.at = "done"
    /\ page' = [page EXCEPT ![p] =
          CASE j.op = "status" -> AfterStatusAnswer(p)
            [] j.op = "control" /\ j.ans = "ok" /\ j.want = "armed" ->
                  [avail |-> NoId, conn |-> NoId]
            [] j.op = "postAnswer" /\ j.ans = "gone" -> [@ EXCEPT !.conn = NoId]
            [] j.op = "watch" /\ j.ans = "inactive" -> [@ EXCEPT !.conn = NoId]
            [] OTHER -> @]
    /\ job' = [job EXCEPT ![p] = NoJob]
    /\ UNCHANGED <<tables, orphans, dev>>

PageRequestFails(p) ==
    /\ "fail" \in Events
    /\ ~Free(p)
    /\ GiveUp(job[p])
    /\ page' = [page EXCEPT ![p].conn = IF job[p].op = "postAnswer"
                                        THEN NoId ELSE @]
    /\ job' = [job EXCEPT ![p] = NoJob]
    /\ UNCHANGED <<tables, dev>>

-----------------------------------------------------------------------------
TakeAnswer(d) ==
    \/ ArmAnswer(d) \/ PollGone(d) \/ PollStartsCapture(d) \/ PollMaintains(d)
    \/ PollWaits(d) \/ PollStopsCapture(d) \/ PollReconciles(d) \/ StopAnswer(d)
    \/ OfferAnswer(d) \/ HeartbeatAnswer(d) \/ ViewerAnswer(d) \/ DisarmAnswer(d)

Execute(d) == StartArm(d) \/ StartDisarm(d) \/ StartPoll(d) \/ Rotate(d)

Owner(d) == PressArm(d) \/ PressDisarm(d) \/ ShowActivity(d)

System(d) == Destroy(d) \/ Kill(d)

Dashboard(p) ==
    \/ /\ p \in Operator
       /\ \/ \E w \in Desired : AskControl(p, w)
          \/ \E m \in Mode : AskRecord(p, m)
    \/ /\ p \in Viewer
       /\ \/ AskStatus(p) \/ Connect(p) \/ Watch(p)
          \/ Disconnect(p) \/ Leave(p)
    \/ PageAnswer(p)
    \/ PageRequestFails(p)

Next ==
    \/ ServerStep /\ UNCHANGED <<dev, page>>
    \/ "expire" \in Events /\ Age /\ UNCHANGED <<dev, page>>
    \/ \E d \in Device : \/ Owner(d) \/ Execute(d) \/ TakeAnswer(d)
                         \/ RequestFails(d) \/ System(d)
    \/ \E p \in Page : Dashboard(p)

Spec == Init /\ [][Next]_vars

-----------------------------------------------------------------------------
(* Safety.                                                                 *)

\* The notification and the label of an armed device say that camera and
\* microphone are off (publishState("armed", ...), MainActivity's "ARMAT"):
\* whatever is armed again, interrupted or failing, they are.
ArmedMeansCameraOff ==
    \A d \in Device : dev[d].st = "armed" => ~dev[d].cap

\* The local recorder and the live transmission never hold the camera together.
RecorderExcludesCapture ==
    \A d \in Device : dev[d].rec # "off" => ~dev[d].cap

\* A device that is not armed, and one that tells its owner so, neither
\* transmits nor records.
DisarmedMeansOff ==
    \A d \in Device :
        ~dev[d].on \/ dev[d].shown = "stopped" =>
            ~dev[d].cap /\ dev[d].rec = "off"

\* The inductive invariant behind the three properties of the camera: what the
\* service object m may be while its executor waits for a request of kind op.
\* An "arm" may only run on a quiet device, for it declares the device armed
\* without stopping anything: whatever enables the arm button (a state
\* broadcast, the activity shown again, the disarm button itself) implies that
\* the device is disarmed or that a "disarm" is queued before the "arm".
Quiet(m) == ~m.cap /\ m.rec = "off"

WillDisarm(m) == \E i \in 1..Len(m.tasks) : m.tasks[i] = "disarm"

ArmedOps == {"poll", "offer", "heartbeat", "getAnswer", "stop"}

GoodDevice(m, op) ==
    /\ m.cap => m.st \in {"starting", "live"}
    /\ m.rec # "off" => m.st = "armed"
    /\ ~m.on => Quiet(m)
    /\ m.shown = "stopped" => ~m.on
    /\ m.armable => ~m.on \/ WillDisarm(m)
    /\ NextTask(m) = "arm" => Quiet(m) /\ op \notin ArmedOps
    /\ op \in ArmedOps => m.on
    /\ op = "arm" => Quiet(m)
    /\ op = "disarm" => ~m.on
    /\ op = "stop" => m.st = "armed"
    /\ op = "offer" => m.st = "starting"
    /\ op = "heartbeat" => m.ses # NoId

GoodDevices == \A d \in Device : GoodDevice(dev[d], job[d].op)

-----------------------------------------------------------------------------
(* The camera obeys the dashboard: CameraControl.                          *)

\* The device whose source the server wants live, if it still holds that source.
OrderedDevices ==
    {d \in Device : \E r \in sources : r.id = dev[d].src /\ r.desired = "live"}

\* The devices that a poll told to be live and that have not acted on it.
GrantedDevices ==
    {d \in Device : /\ job[d].op = "poll" /\ job[d].want = "live"
                    /\ \/ job[d].at = "settings"
                       \/ job[d].at = "done" /\ job[d].ans = "ok"}

CC == INSTANCE CameraControl WITH
          order  <- OrderedDevices,
          grant  <- GrantedDevices,
          camera <- {d \in Device : dev[d].cap}

ImplementsCameraControl == CC!Spec

-----------------------------------------------------------------------------
(* Liveness.                                                               *)

\* The executor runs what is queued and polls every second, the server's
\* threads run, and the network does not lose every exchange.  Nothing is
\* assumed of the owner, of the dashboard or of the Android system, except
\* that a stopped service is destroyed.
Serves(c)  == Serve(c) /\ UNCHANGED <<dev, page>>
Answers(c) == Serves(c) /\ job'[c].at = "done"
Beats(d)   == PollMaintains(d) /\ job'[d].op = "heartbeat"

DeviceFairness ==
    \A d \in Device :
        /\ SF_vars(StartArm(d)) /\ SF_vars(StartDisarm(d))
        /\ WF_vars(StartPoll(d))
        /\ SF_vars(Serves(d)) /\ SF_vars(Answers(d))
        /\ SF_vars(TakeAnswer(d)) /\ SF_vars(Beats(d))
        /\ WF_vars(Destroy(d))

PageFairness ==
    /\ \A p \in Page : WF_vars(Serves(p)) /\ WF_vars(PageAnswer(p))
    /\ \A p \in Viewer : SF_vars(Watch(p))

FairSpec == Spec /\ DeviceFairness /\ PageFairness

\* A camera that is on without an order from the dashboard - stopped, expired,
\* or replaced by another device - goes off.
StopIsObeyed ==
    \A d \in Device :
        dev[d].cap /\ d \notin OrderedDevices
            ~> ~dev[d].cap \/ d \in OrderedDevices

\* An armed device that is ordered live transmits, or says why it does not.
StartIsObeyed ==
    \A d \in Device :
        d \in OrderedDevices
            ~> dev[d].cap \/ dev[d].st = "error" \/ d \notin OrderedDevices

\* The devices whose transmission was answered by a viewer not heard of for
\* twelve seconds.
UnwatchedDevices ==
    {d \in Device : \E r \in sessions :
        r.id = dev[d].ses /\ r.answered /\ r.watched # "fresh"}

\* A viewer that vanishes without a word does not leave the camera on: its
\* lease ends, the next heartbeat is told so, and the capture stops.
AbandonedCaptureEnds ==
    \A d \in Device :
        dev[d].cap /\ d \in UnwatchedDevices
            ~> ~dev[d].cap \/ d \notin UnwatchedDevices

\* A page that believes in a transmission which ended, or which another page has
\* taken over.
Outdated(p) ==
    /\ page[p].conn # NoId
    /\ ~\E r \in sessions : r.id = page[p].conn /\ r.viewer \in {p, NoId}

\* A page never shows a transmission for ever that is not, or no longer, its own:
\* a second viewer may have answered it, or the operator or the device ended it
\* and another one be offered.
OutdatedViewerLetsGo == \A p \in Page : Outdated(p) ~> ~Outdated(p)

\* Once the owner has armed the device it becomes armed, or it shows an error
\* or was disarmed.
ArmingTakesEffect ==
    \A d \in Device : dev[d].kept ~> dev[d].on \/ ~dev[d].kept

=============================================================================
