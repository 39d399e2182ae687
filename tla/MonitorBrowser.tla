---------------------------- MODULE MonitorBrowser ----------------------------
(***************************************************************************)
(* The browser source of the live monitor (app/static/js/                  *)
(* monitor-source.js): a page that lends its camera like the Android       *)
(* companion does, talking to the server of MonitorServer.                 *)
(*                                                                         *)
(* The page has no executor.  Each of its asynchronous functions runs up   *)
(* to its next await (the camera, a request) and the others run in         *)
(* between: a thread of the model is one call of such a function.  What a  *)
(* function reads before an await may no longer hold after it.             *)
(***************************************************************************)
EXTENDS MonitorServer

CONSTANTS
    Tab,            \* the source pages
    Beats,          \* which of sendSessionHeartbeat ("beat") and pollForAnswer
                    \* ("answer") run
    ArmThread,      \* the calls of armSource that may overlap
    DisarmThread,   \* the calls of disarmSource that may overlap
    Operator,       \* the dashboard pages
    Events          \* what may happen besides arming and orders: "disarm",
                    \* "fail" of a request or of the camera, "leave" of the
                    \* page, "expire" of a lease, "status" and "answer" of
                    \* a dashboard

\* pollRemoteControl with all it awaits, pollForAnswer, sendSessionHeartbeat.
Thread == {"poll"} \cup Beats \cup ArmThread \cup DisarmThread

ASSUME BrowserAssumption ==
    /\ Client = (Tab \X Thread) \cup Operator
    /\ Operator \cap (Tab \X Thread) = {}
    /\ Beats \subseteq {"beat", "answer"}
    /\ ArmThread \cap DisarmThread = {}
    /\ (ArmThread \cup DisarmThread) \cap {"poll", "answer", "beat"} = {}
    /\ Events \subseteq 
           {"disarm", "fail", "leave", "expire", "status", "answer"}

VARIABLE web

vars == <<sources, sessions, recording, job, orphans, web>>

tables == <<sources, sessions, recording>>

-----------------------------------------------------------------------------
(* What a thread waits for: the camera (getUserMedia, to arm or to         *)
(* capture), the connection (createOffer to the end of ICE gathering), a   *)
(* request, the request that ends a failed start, or the one that stops    *)
(* the transmission of a page being disarmed.                              *)
Waits == {"idle", "permit", "camera", "connect", "request", "failing",
          "disarming"}

TabState ==
    [armed     : BOOLEAN,                \* sourceIsArmed
     state     : Actual,                 \* sourceState
     startable : BOOLEAN,                \* startButton is enabled
     cam       : BOOLEAN,                \* localStream
     peer      : BOOLEAN,                \* peerConnection
     src       : SourceId \cup {NoId},   \* sourceId
     ses       : SessionId \cup {NoId},  \* monitorSessionId
     applied   : BOOLEAN,                \* answerWasApplied
     at        : [Thread -> Waits],
     local     : [Thread -> SourceId \cup SessionId \cup {NoId}]]
                                         \* newSourceId, currentSourceId,
                                         \* sessionId

TypeOK ==
    /\ ServerTypeOK
    /\ web \in [Tab -> TabState]

NewPage_Wrong ==
    [armed |-> FALSE, state |-> "idle", startable |-> TRUE, cam |-> FALSE,
     peer |-> FALSE, src |-> NoId, ses |-> NoId, applied |-> FALSE,
     at |-> [th \in Thread |-> "idle"], local |-> [th \in Thread |-> NoId]]

NewPage ==
    [armed |-> FALSE, state |-> "armed", startable |-> TRUE, cam |-> FALSE,
     peer |-> FALSE, src |-> NoId, ses |-> NoId, applied |-> FALSE,
     at |-> [th \in Thread |-> "idle"], local |-> [th \in Thread |-> NoId]]

Init ==
    /\ ServerInit
    /\ web = [t \in Tab |-> NewPage]

-----------------------------------------------------------------------------
(* The functions of the page, up to their first await.                     *)

\* The stop button needs no variable: it is enabled exactly while armed.
UpdateButtons(w) == [w EXCEPT !.startable = ~w.armed]

StopCapture(w) ==
    UpdateButtons([w EXCEPT !.ses = NoId, !.applied = FALSE, !.peer = FALSE,
                            !.cam = FALSE, !.state = "armed"])

Disarm(w) == StopCapture([w EXCEPT !.armed = FALSE, !.src = NoId])

ArmFails(w) == UpdateButtons([w EXCEPT !.armed = FALSE, !.src = NoId])

\* Thread th of page t makes the page w, and then waits for what.
Wait(t, th, w, what, j) ==
    /\ web' = [web EXCEPT ![t] = [w EXCEPT !.at[th] = what]]
    /\ job' = [job EXCEPT ![<<t, th>>] = j]

Finish(t, th, w) == Wait(t, th, [w EXCEPT !.local[th] = NoId], "idle", NoJob)

\* What thread th does once the stopCapture it waited for is over: set the
\* error of startCapture; delete the source of disarmSource, unless the server
\* has forgotten it; or nothing.
Stopped(t, th, w, what) ==
    CASE what = "failing" -> Finish(t, th, [w EXCEPT !.state = "error"])
      [] what = "disarming" /\ w.local[th] # NoId ->
            Wait(t, th, UpdateButtons(w), "request",
                 DisarmRequest(w.local[th]))
      [] what = "disarming" /\ w.local[th] = NoId ->
            Finish(t, th, UpdateButtons(w))
      [] OTHER -> Finish(t, th, w)

\* stopCapture({notifyServer: true}) made the page w.
Notify(t, th, w, what) ==
    IF web[t].ses = NoId THEN Stopped(t, th, w, what)
    ELSE Wait(t, th, w, what, StopRequest(web[t].ses))

CaptureFails_Wrong(t) ==
    Wait(t, "poll", [StopCapture(web[t]) EXCEPT !.state = "starting"],
         "camera", NoJob)

CaptureFails(t) == Notify(t, "poll", StopCapture(web[t]), "failing")

Local == UNCHANGED <<tables, orphans>>

\* The UUIDs page t still holds.
Remembered(t) == {web[t].src, web[t].ses} \cup {web[t].local[th] : th \in Thread}

Idle(t, th) == web[t].at[th] = "idle"

-----------------------------------------------------------------------------
(* Arming and disarming.                                                   *)

ClickArm(t, th) ==
    /\ Idle(t, th)
    /\ web[t].startable /\ ~web[t].armed
    /\ Wait(t, th, [web[t] EXCEPT !.startable = FALSE], "permit", NoJob)
    /\ Local

\* The permission was granted (the stream is closed again at once), or not.
PermissionAnswered(t, th) ==
    /\ web[t].at[th] = "permit"
    /\ \/ \E s \in SourceId \ KnownSources :
             /\ \A u \in Tab : s \notin Remembered(u)
             /\ Wait(t, th, [web[t] EXCEPT !.local[th] = s], "request",
                     ArmRequest(s))
       \/ "fail" \in Events /\ Finish(t, th, ArmFails(web[t]))
    /\ Local

ClickDisarm(t, th) ==
    LET w == [Disarm(web[t]) EXCEPT !.local[th] = web[t].src] IN
    /\ "disarm" \in Events
    /\ Idle(t, th)
    /\ web[t].armed
    /\ Notify(t, th, w, "disarming")
    /\ Local

-----------------------------------------------------------------------------
(* The timers start their functions.                                       *)

StartPoll(t) ==
    /\ Idle(t, "poll")                  \* ~controlPollIsRunning
    /\ web[t].armed /\ web[t].src # NoId
    /\ Wait(t, "poll", web[t], "request",
            PollRequest(web[t].src, web[t].state, "off"))
    /\ Local

StartAnswer(t) ==
    /\ "answer" \in Beats
    /\ Idle(t, "answer")
    /\ web[t].ses # NoId /\ ~web[t].applied
    /\ Wait(t, "answer", web[t], "request", GetAnswerRequest(web[t].ses))
    /\ Local

StartBeat(t) ==
    /\ "beat" \in Beats
    /\ Idle(t, "beat")
    /\ web[t].ses # NoId
    /\ Wait(t, "beat", web[t], "request", HeartbeatRequest(web[t].ses))
    /\ Local

-----------------------------------------------------------------------------
(* startCapture, in the thread of pollRemoteControl.                       *)

CameraAnswered(t) ==
    /\ web[t].at["poll"] = "camera"
    /\ \/ Wait(t, "poll",
               UpdateButtons([web[t] EXCEPT !.cam = TRUE, !.peer = TRUE]),
               "connect", NoJob)
       \/ "fail" \in Events /\ CaptureFails(t)
    /\ Local

\* A connection that stopCapture closed fails, unless its description was set.
Connected(t) ==
    /\ web[t].at["poll"] = "connect"
    /\ \/ \E x \in SessionId \ KnownSessions :
             /\ \A u \in Tab : x \notin Remembered(u)
             /\ Wait(t, "poll", [web[t] EXCEPT !.local["poll"] = x], "request",
                     OfferRequest(x))
       \/ ("fail" \in Events \/ ~web[t].peer) /\ CaptureFails(t)
    /\ Local

-----------------------------------------------------------------------------
(* The requests are answered.                                              *)

Answered(t, th, op) ==
    /\ job[<<t, th>>].at = "done"
    /\ job[<<t, th>>].op = op

Startable_Wrong(w) == w.armed /\ w.state = "armed"

\* pollRemoteControl and startCapture both check.
Startable(w) == w.armed /\ w.state = "armed" /\ ~w.cam

Stoppable_Wrong(w) == w.state = "starting"

Stoppable(w) == w.state # "armed"

PollAnswered(t) ==
    LET w == web[t]
        j == job[<<t, "poll">>]
    IN  /\ Answered(t, "poll", "poll")
        /\ CASE j.ans = "gone" -> Notify(t, "poll", Disarm(w), "disarming")
             [] j.ans = "ok" /\ j.want = "live" /\ Startable(w) ->
                    Wait(t, "poll", [w EXCEPT !.state = "starting"],
                         "camera", NoJob)
             [] j.ans = "ok" /\ j.want = "armed" /\ Stoppable(w) ->
                    Notify(t, "poll", StopCapture(w), "request")
             [] OTHER -> Finish(t, "poll", w)
        /\ Local

OfferAnswered(t) ==
    /\ Answered(t, "poll", "offer")
    /\ Finish(t, "poll", [web[t] EXCEPT !.ses = web[t].local["poll"],
                                        !.state = "live"])
    /\ Local

ArmAnswered(t, th) ==
    /\ Answered(t, th, "arm")
    /\ Finish(t, th, UpdateButtons([web[t] EXCEPT !.src = web[t].local[th],
                                                  !.armed = TRUE,
                                                  !.state = "armed"]))
    /\ Local

\* A heartbeat and a question for the answer that were about another session
\* are taken for the present one.
BeatAnswered(t) ==
    /\ Answered(t, "beat", "heartbeat")
    /\ Finish(t, "beat", IF job[<<t, "beat">>].ans = "active" THEN web[t]
                         ELSE StopCapture(web[t]))
    /\ Local

AnswerAnswered(t) ==
    LET w == web[t] IN
    /\ Answered(t, "answer", "getAnswer")
    /\ CASE job[<<t, "answer">>].ans = "inactive" ->
                Finish(t, "answer", StopCapture(w))
         [] job[<<t, "answer">>].ans = "answer" /\ w.peer ->
                Finish(t, "answer", [w EXCEPT !.applied = TRUE])
         [] OTHER -> Finish(t, "answer", w)
    /\ Local

OtherAnswered(t, th) ==
    /\ \E op \in {"stop", "disarm"} : Answered(t, th, op)
    /\ Stopped(t, th, web[t], web[t].at[th])
    /\ Local

RequestFails(t, th) ==
    LET op == job[<<t, th>>].op IN
    /\ "fail" \in Events
    /\ job[<<t, th>>].at # "idle"
    /\ GiveUp(job[<<t, th>>])
    /\ CASE op = "arm" -> Finish(t, th, ArmFails(web[t]))
         [] op = "offer" -> CaptureFails(t)
         [] OTHER -> Stopped(t, th, web[t], web[t].at[th])
    /\ UNCHANGED tables

-----------------------------------------------------------------------------
\* The page is closed: pagehide deletes the source without waiting, and what
\* its requests would have returned is lost.
Leave(t) ==
    LET lost == {job[<<t, th>>] : th \in Thread}
        bye  == IF web[t].src = NoId THEN NoJob ELSE DisarmRequest(web[t].src)
    IN  /\ "leave" \in Events
        /\ web[t].armed \/ web[t].cam
        /\ web' = [web EXCEPT ![t] = NewPage]
        /\ \E sent \in SUBSET {j \in lost \cup {bye} : Pending(j)} :
              /\ Cardinality(orphans \cup sent) <= MaxOrphans
              /\ orphans' = orphans \cup sent
        /\ job' = [c \in Client |->
                      IF c \in {t} \X Thread THEN NoJob ELSE job[c]]
        /\ UNCHANGED tables

\* A dashboard gives orders, and shows the status once a second.
Ask(o, j) ==
    /\ job[o].at = "idle"
    /\ job' = [job EXCEPT ![o] = j]
    /\ UNCHANGED <<tables, orphans, web>>

AskControl(o) == \E w \in Desired : Ask(o, ControlRequest(w))
AskStatus(o)  == "status" \in Events /\ Ask(o, StatusRequest)
AskAnswer(o)  == /\ "answer" \in Events
                 /\ \E r \in sessions : Ask(o, PostAnswerRequest(r.id, o))

OperatorAnswered(o) ==
    /\ job[o].at = "done"
    /\ job' = [job EXCEPT ![o] = NoJob]
    /\ UNCHANGED <<tables, orphans, web>>

-----------------------------------------------------------------------------
Owner(t) ==
    \/ \E th \in ArmThread : ClickArm(t, th)
    \/ \E th \in DisarmThread : ClickDisarm(t, th)
    \/ Leave(t)

Timer(t) == StartPoll(t) \/ StartAnswer(t) \/ StartBeat(t)

\* What thread th waits for happens.
Resolves(t, th) ==
    \/ th \in ArmThread /\ (PermissionAnswered(t, th) \/ ArmAnswered(t, th))
    \/ th = "poll" /\ (CameraAnswered(t) \/ Connected(t))
    \/ th = "poll" /\ (PollAnswered(t) \/ OfferAnswered(t))
    \/ th = "answer" /\ AnswerAnswered(t)
    \/ th = "beat" /\ BeatAnswered(t)
    \/ th \in {"poll"} \cup DisarmThread /\ OtherAnswered(t, th)

Next ==
    \/ ServerStep /\ UNCHANGED web
    \/ "expire" \in Events /\ Age /\ UNCHANGED web
    \/ \E t \in Tab : Owner(t) \/ Timer(t)
    \/ \E t \in Tab, th \in Thread : Resolves(t, th) \/ RequestFails(t, th)
    \/ \E o \in Operator : AskControl(o) \/ AskStatus(o) \/ AskAnswer(o)
    \/ \E o \in Operator : OperatorAnswered(o)

Spec == Init /\ [][Next]_vars

-----------------------------------------------------------------------------
(* Properties.                                                             *)

\* The page never opens a camera while it holds another one, whose tracks
\* nothing could stop any more: polls that overlap, a source that is armed
\* again while its camera is being opened, and starts that were answered late
\* come together only in the one thread of pollRemoteControl.
NoCameraLost ==
    [][\A t \in Tab : CameraAnswered(t) => ~web[t].cam]_vars

\* The tab is the holder of source s, or asked for its orders.
Holds(t, s) == s # NoId /\ s \in {web[t].src, job[<<t, "poll">>].src}

Granted(t) ==
    \/ web[t].at["poll"] = "camera"
    \/ /\ job[<<t, "poll">>].op = "poll"
       /\ job[<<t, "poll">>].want = "live"
       /\ \/ job[<<t, "poll">>].at = "settings"
          \/ job[<<t, "poll">>].at = "done" /\ job[<<t, "poll">>].ans = "ok"

OrderedTabs ==
    {t \in Tab : \E q \in sources : q.desired = "live" /\ Holds(t, q.id)}

GrantedTabs == {t \in Tab : Granted(t)}

Control == INSTANCE CameraControl WITH
    Device <- Tab,
    order  <- OrderedTabs,
    grant  <- GrantedTabs,
    camera <- {t \in Tab : web[t].cam}

\* A page turns its camera on only in answer to an order that named its own
\* source, once for each time it learnt of one, whatever is armed, disarmed,
\* stopped, closed or answered late meanwhile.
ImplementsCameraControl == Control!Spec

-----------------------------------------------------------------------------
(* Fairness: the server answers, the browser resolves what it promised, the *)
(* timers of an armed or transmitting page fire, and the network does not   *)
(* lose every poll.  Nothing is assumed of the owner.                       *)

Serves(c)  == Serve(c) /\ UNCHANGED web
Answers(c) == Serves(c) /\ job'[c].at = "done"

FairSpec ==
    /\ Spec
    /\ \A c \in Client : WF_vars(Serves(c))
    /\ \A t \in Tab :
          /\ \A th \in Thread : WF_vars(Resolves(t, th))
          /\ WF_vars(StartPoll(t)) /\ WF_vars(StartBeat(t))
          /\ SF_vars(Serves(<<t, "poll">>)) /\ SF_vars(Answers(<<t, "poll">>))
          /\ SF_vars(PollAnswered(t))

\* A dashboard that shows the status keeps asking for it.
WatchedSpec ==
    /\ FairSpec
    /\ \A o \in Operator : /\ WF_vars(OperatorAnswered(o))
                           /\ SF_vars(AskStatus(o))

OrderedOff(t) ==
    web[t].armed /\ \E q \in SourceWith(web[t].src) : q.desired = "armed"

\* A page that was disarmed does not keep its camera on, as long as a dashboard
\* shows the status: that is what drops a transmission without a source.
DisarmedCameraGoesOff ==
    \A t \in Tab : ~<>[](~web[t].armed /\ web[t].cam)

\* A stop ordered from the dashboard is obeyed: the camera of an armed page
\* does not stay on while its row says that it should be off.
StopIsObeyed ==
    \A t \in Tab : ~<>[](OrderedOff(t) /\ web[t].cam)

\* "While the source is only armed, the camera and the microphone are off"
\* (the note of app/templates/monitor_source.html): a page that says that it is
\* only armed, and was ordered nothing else, does not keep its camera on.
ArmedCameraGoesOff ==
    \A t \in Tab :
        ~<>[](OrderedOff(t) /\ web[t].state = "armed" /\ web[t].cam)

=============================================================================
