------------------------- MODULE MonitorBrowserProofs -------------------------
(***************************************************************************)
(* Theorems of MonitorBrowser for any number of pages, threads and         *)
(* dashboards, any ids and any selection of events: types, the camera that *)
(* is never opened over another one, and that a page's camera obeys the    *)
(* dashboard as CameraControl says.                                        *)
(***************************************************************************)
EXTENDS MonitorBrowser, MonitorServerProofs

-----------------------------------------------------------------------------
(* What holds of page w and of the request j of its pollRemoteControl.     *)

GoodPage(w, j) ==
    /\ \A th \in Thread \ {"poll"} : w.local[th] \in SourceId \cup {NoId}
    /\ w.local["poll"] \in SessionId \cup {NoId}
    /\ w.at["poll"] \in {"idle", "disarming"} \/ j.op = "poll" =>
           w.local["poll"] = NoId
    /\ w.at["poll"] = "camera" => ~w.cam /\ j = NoJob
    /\ j.op \in {"none", "poll", "offer", "stop"}
    /\ j.op = "poll" /\ j.at = "done" => j.src = NoId

PollJob(t) == job[<<t, "poll">>]

GoodTabs == \A t \in Tab : GoodPage(web[t], PollJob(t))

\* Thread th becomes something that keeps the page good and opens the camera
\* only when startCapture was waiting for it.
PollMove(t, w, what, j) ==
    /\ w.local["poll"] \in SessionId \cup {NoId}
    /\ what \in {"idle", "disarming"} \/ j.op = "poll" => w.local["poll"] = NoId
    /\ what = "camera" => ~w.cam /\ j = NoJob
    /\ j.op \in {"none", "poll", "offer", "stop"}
    /\ j.op = "poll" => j.at = "run"
    /\ w.src \in {web[t].src, NoId}
    /\ j.src \in {web[t].src, NoId}
    /\ what = "camera" => Granted(t)
    /\ w.cam => \/ web[t].cam
                \/ /\ Granted(t) /\ what # "camera"
                   /\ j = NoJob /\ PollJob(t) = NoJob
                   /\ w.src = web[t].src

Fresh(s) ==
    /\ s \notin KnownSources
    /\ \A u \in Tab : s \notin Remembered(u)

SideMove(t, th, w) ==
    /\ w.local[th] \in SourceId \cup {NoId}
    /\ th \in ArmThread => \/ w.local[th] \in {web[t].local[th], NoId}
                           \/ Fresh(w.local[th])
    /\ w.cam => web[t].cam
    /\ \/ w.src \in {web[t].src, NoId}
       \/ /\ th \in ArmThread /\ w.src = web[t].local[th]
          /\ w.cam = web[t].cam

Others(t, th, w) ==
    /\ w.at = web[t].at
    /\ \A o \in Thread \ {th} : w.local[o] = web[t].local[o]

Frame ==
    /\ UNCHANGED tables
    /\ orphans' \in SUBSET {k \in Job : Pending(k)}

Moves(t, th, w, what, j) ==
    /\ Wait(t, th, w, what, j)
    /\ Frame
    /\ Others(t, th, w)
    /\ IF th = "poll" THEN PollMove(t, w, what, j) ELSE SideMove(t, th, w)

Moved(t) ==
    \E th \in Thread, w \in TabState, what \in Waits, j \in Job :
       Moves(t, th, w, what, j)

LEMMA TabFacts ==
    ASSUME TypeOK, NEW t \in Tab
    PROVE  /\ web[t] \in TabState
           /\ "poll" \in Thread
           /\ \A th \in Thread : <<t, th>> \in Client /\ job[<<t, th>>] \in Job
           /\ NoId \notin SourceId \cup SessionId
BY ServerAssumption, BrowserAssumption
   DEF TypeOK, ServerTypeOK, Thread

LEMMA MovedTabs ==
    ASSUME TypeOK, NEW t \in Tab, NEW th \in Thread, NEW w \in TabState,
           NEW what \in Waits, NEW j \in Job, Wait(t, th, w, what, j)
    PROVE  /\ \A u \in Tab : u # t => web'[u] = web[u]
           /\ web'[t] = [w EXCEPT !.at[th] = what]
           /\ \A c \in Client : c # <<t, th>> => job'[c] = job[c]
           /\ job'[<<t, th>>] = j
<1>1. <<t, th>> \in Client
  BY TabFacts
<1>2. QED BY <1>1 DEF Wait, TypeOK, ServerTypeOK

LEMMA NewPageParts ==
    ASSUME NEW w \in TabState, NEW th \in Thread, NEW what \in Waits
    PROVE  LET n == [w EXCEPT !.at[th] = what] IN
           /\ n \in TabState
           /\ n.at = [w.at EXCEPT ![th] = what]
           /\ n.local = w.local /\ n.cam = w.cam /\ n.src = w.src
BY DEF TabState

LEMMA MovesGood ==
    ASSUME TypeOK, GoodTabs, NEW t \in Tab, Moved(t)
    PROVE  TypeOK' /\ GoodTabs'
<1>1. PICK th \in Thread, w \in TabState, what \in Waits, j \in Job :
           Moves(t, th, w, what, j)
  BY DEF Moved
<1>2. Wait(t, th, w, what, j)
  BY <1>1 DEF Moves
<1> DEFINE n == [w EXCEPT !.at[th] = what]
<1>3. /\ \A u \in Tab : u # t => web'[u] = web[u]
      /\ web'[t] = n
      /\ \A c \in Client : c # <<t, th>> => job'[c] = job[c]
      /\ job'[<<t, th>>] = j
  BY <1>2, MovedTabs
<1>4. /\ n \in TabState
      /\ n.at = [w.at EXCEPT ![th] = what]
      /\ n.local = w.local /\ n.cam = w.cam /\ n.src = w.src
  BY NewPageParts
<1>5. web[t] \in TabState /\ "poll" \in Thread
      /\ \A u \in Tab : <<u, "poll">> \in Client
  BY TabFacts
<1> HIDE DEF n
<1>6. TypeOK'
  <2>1. web' \in [Tab -> TabState]
    BY <1>2, <1>3, <1>4 DEF Wait, TypeOK
  <2>2. job' \in [Client -> Job]
    BY <1>2 DEF Wait, TypeOK, ServerTypeOK
  <2>3. ServerTypeOK'
    BY <1>1, <2>2 DEF Moves, Frame, tables, TypeOK, ServerTypeOK
  <2>4. QED BY <2>1, <2>3 DEF TypeOK
<1>7. \A u \in Tab : u # t => GoodPage(web'[u], job'[<<u, "poll">>])
  BY <1>3, <1>5 DEF GoodTabs, PollJob
<1>8. GoodPage(web'[t], job'[<<t, "poll">>])
  <2>1. GoodPage(web[t], PollJob(t))
    BY DEF GoodTabs
  <2>2. w.at \in [Thread -> Waits] /\ web[t].at \in [Thread -> Waits]
    BY <1>5 DEF TabState
  <2>3. CASE th = "poll"
    <3>1. PollMove(t, w, what, j) /\ Others(t, th, w)
      BY <1>1, <2>3 DEF Moves
    <3>2. n.at["poll"] = what /\ job'[<<t, "poll">>] = j
      BY <1>3, <1>4, <2>2, <2>3
    <3>3. \A o \in Thread \ {"poll"} : w.local[o] = web[t].local[o]
      BY <3>1, <2>3 DEF Others
    <3>4. j.op = "poll" => j.at # "done"
      BY <3>1 DEF PollMove
    <3>5. QED
      BY <1>3, <1>4, <2>1, <3>1, <3>2, <3>3, <3>4 DEF PollMove, GoodPage
  <2>4. CASE th # "poll"
    <3>1. SideMove(t, th, w) /\ Others(t, th, w)
      BY <1>1, <2>4 DEF Moves
    <3>2. job'[<<t, "poll">>] = PollJob(t)
      BY <1>3, <1>5, <2>4 DEF PollJob
    <3>3. n.at["poll"] = web[t].at["poll"]
      BY <1>4, <1>5, <2>2, <2>4, <3>1 DEF Others
    <3>4. /\ w.local["poll"] = web[t].local["poll"]
          /\ \A o \in Thread \ {"poll"} : w.local[o] \in SourceId \cup {NoId}
          /\ w.cam => web[t].cam
      BY <1>5, <2>1, <2>4, <3>1 DEF Others, SideMove, GoodPage
    <3>5. QED
      BY <1>3, <1>4, <2>1, <3>2, <3>3, <3>4 DEF GoodPage
  <2>5. QED BY <2>3, <2>4
<1>9. QED BY <1>6, <1>7, <1>8 DEF GoodTabs, PollJob

-----------------------------------------------------------------------------
(* The functions of the page.                                              *)

\* w became n, with no camera that it had not.
Quiet(w, n) ==
    /\ n \in TabState
    /\ n.at = w.at /\ n.local = w.local
    /\ n.cam => w.cam
    /\ n.src \in {w.src, NoId}

LEMMA QuietFunctions ==
    ASSUME NEW w \in TabState
    PROVE  /\ Quiet(w, w)
           /\ \A a \in Actual : Quiet(w, [w EXCEPT !.state = a])
           /\ Quiet(w, [w EXCEPT !.startable = FALSE])
           /\ Quiet(w, [w EXCEPT !.applied = TRUE])
           /\ Quiet(w, UpdateButtons(w))
           /\ Quiet(w, StopCapture(w)) /\ ~StopCapture(w).cam
           /\ Quiet(w, Disarm(w)) /\ ~Disarm(w).cam
           /\ Quiet(w, ArmFails(w))
<1>1. \A n \in TabState :
         /\ UpdateButtons(n) \in TabState
         /\ UpdateButtons(n).at = n.at /\ UpdateButtons(n).local = n.local
         /\ UpdateButtons(n).cam = n.cam /\ UpdateButtons(n).src = n.src
  BY ZenonT(60) DEF UpdateButtons, TabState
<1>2. \A n \in TabState :
         /\ StopCapture(n) \in TabState /\ ~StopCapture(n).cam
         /\ StopCapture(n).at = n.at /\ StopCapture(n).local = n.local
         /\ StopCapture(n).src = n.src
  <2> SUFFICES ASSUME NEW n \in TabState
               PROVE  /\ StopCapture(n) \in TabState /\ ~StopCapture(n).cam
                      /\ StopCapture(n).at = n.at
                      /\ StopCapture(n).local = n.local
                      /\ StopCapture(n).src = n.src
    OBVIOUS
  <2> DEFINE q == [n EXCEPT !.ses = NoId, !.applied = FALSE, !.peer = FALSE,
                            !.cam = FALSE, !.state = "armed"]
  <2>1. q \in TabState /\ ~q.cam /\ q.at = n.at /\ q.local = n.local
        /\ q.src = n.src
    BY DEF TabState, Actual
  <2>2. StopCapture(n) = UpdateButtons(q)
    BY DEF StopCapture
  <2> HIDE DEF q
  <2>3. QED BY <1>1, <2>1, <2>2
<1>3. Quiet(w, Disarm(w)) /\ ~Disarm(w).cam
  <2> DEFINE q == [w EXCEPT !.armed = FALSE, !.src = NoId]
  <2>1. q \in TabState /\ q.at = w.at /\ q.local = w.local /\ q.src = NoId
    BY DEF TabState
  <2>2. Disarm(w) = StopCapture(q)
    BY DEF Disarm
  <2> HIDE DEF q
  <2>3. QED BY <1>2, <2>1, <2>2 DEF Quiet
<1>4. Quiet(w, ArmFails(w))
  <2> DEFINE q == [w EXCEPT !.armed = FALSE, !.src = NoId]
  <2>1. q \in TabState /\ q.at = w.at /\ q.local = w.local /\ q.src = NoId
        /\ q.cam = w.cam
    BY DEF TabState
  <2>2. ArmFails(w) = UpdateButtons(q)
    BY DEF ArmFails
  <2> HIDE DEF q
  <2>3. QED BY <1>1, <2>1, <2>2 DEF Quiet
<1>5. /\ \A a \in Actual : Quiet(w, [w EXCEPT !.state = a])
      /\ Quiet(w, [w EXCEPT !.startable = FALSE])
      /\ Quiet(w, [w EXCEPT !.applied = TRUE])
  BY DEF Quiet, TabState
<1>6. QED BY <1>1, <1>2, <1>3, <1>4, <1>5 DEF Quiet

\* The page a thread th makes: it has no new camera and no new source, and only
\* th's own variable differs.
Tame(t, th, w) ==
    /\ w \in TabState
    /\ Others(t, th, w)
    /\ w.cam => web[t].cam
    /\ w.src \in {web[t].src, NoId}
    /\ IF th = "poll" THEN w.local[th] = web[t].local[th]
       ELSE /\ w.local[th] \in SourceId \cup {NoId}
            /\ th \in ArmThread => w.local[th] \in {web[t].local[th], NoId}

LEMMA QuietIsTame ==
    ASSUME TypeOK, GoodTabs, NEW t \in Tab, NEW th \in Thread, NEW w,
           Quiet(web[t], w)
    PROVE  Tame(t, th, w)
BY DEF Quiet, Tame, Others, GoodTabs, GoodPage

LEMMA QuietKeepsTame ==
    ASSUME NEW t \in Tab, NEW th \in Thread, NEW w, Tame(t, th, w),
           NEW n, Quiet(w, n)
    PROVE  Tame(t, th, n)
BY DEF Quiet, Tame, Others

\* What the thread of pollRemoteControl may wait for next.
PollWaits(w, what, j) ==
    /\ what \in {"idle", "disarming"} \/ j.op = "poll" => w.local["poll"] = NoId
    /\ what # "camera"
    /\ j.op \in {"none", "poll", "offer", "stop"}
    /\ j.op = "poll" => j.at = "run" /\ j.src = w.src
    /\ j.op # "poll" => j.src = NoId

LEMMA TameMoves ==
    ASSUME TypeOK, GoodTabs, NEW t \in Tab, NEW th \in Thread, NEW w,
           Tame(t, th, w), NEW what \in Waits, NEW j \in Job, Frame,
           th = "poll" => PollWaits(w, what, j),
           Wait(t, th, w, what, j)
    PROVE  Moved(t)
<1>1. w \in TabState /\ Others(t, th, w)
  BY DEF Tame
<1>2. CASE th = "poll"
  <2>1. PollMove(t, w, what, j)
    BY <1>2 DEF PollMove, PollWaits, Tame, GoodTabs, GoodPage
  <2>2. Moves(t, th, w, what, j)
    BY <1>1, <1>2, <2>1 DEF Moves
  <2>3. QED BY <1>1, <2>2 DEF Moved
<1>3. CASE th # "poll"
  <2>1. SideMove(t, th, w)
    BY <1>3 DEF SideMove, Tame
  <2>2. Moves(t, th, w, what, j)
    BY <1>1, <1>3, <2>1 DEF Moves
  <2>3. QED BY <1>1, <2>2 DEF Moved
<1>4. QED BY <1>2, <1>3

LEMMA FinishMoves ==
    ASSUME TypeOK, GoodTabs, NEW t \in Tab, NEW th \in Thread, NEW w,
           Tame(t, th, w), Frame, Finish(t, th, w)
    PROVE  Moved(t)
<1> DEFINE n == [w EXCEPT !.local[th] = NoId]
<1>1. /\ n \in TabState /\ n.at = w.at /\ n.cam = w.cam /\ n.src = w.src
      /\ n.local = [w.local EXCEPT ![th] = NoId]
  BY DEF Tame, TabState
<1>2. w.local \in [Thread -> SourceId \cup SessionId \cup {NoId}]
  BY DEF Tame, TabState
<1>3. Wait(t, th, n, "idle", NoJob)
  BY DEF Finish
<1> HIDE DEF n
<1>4. n.local[th] = NoId /\ Others(t, th, n)
  BY <1>1, <1>2 DEF Tame, Others
<1>5. "idle" \in Waits /\ NoJob \in Job /\ NoJob.op = "none" /\ NoJob.src = NoId
  BY NoJobType DEF Waits, NoJob
<1>6. CASE th # "poll"
  <2>1. Tame(t, th, n)
    BY <1>1, <1>4, <1>6 DEF Tame
  <2>2. QED BY <1>3, <1>5, <1>6, <2>1, TameMoves
<1>7. CASE th = "poll"
  <2>1. PollMove(t, n, "idle", NoJob)
    BY <1>1, <1>4, <1>5, <1>7 DEF PollMove, Tame
  <2>2. Moves(t, th, n, "idle", NoJob)
    BY <1>3, <1>4, <1>7, <2>1 DEF Moves
  <2>3. QED BY <1>1, <1>5, <2>2 DEF Moved
<1>8. QED BY <1>6, <1>7

\* What a thread waits for while stopCapture or disarmSource ends.
Ends == {"request", "failing", "disarming"}

LEMMA StoppedMoves ==
    ASSUME TypeOK, GoodTabs, NEW t \in Tab, NEW th \in Thread, NEW w,
           Tame(t, th, w), NEW what, Frame, Stopped(t, th, w, what),
           th = "poll" /\ what = "disarming" => w.local[th] = NoId
    PROVE  Moved(t)
<1>1. w \in TabState /\ "error" \in Actual /\ "request" \in Waits
  BY DEF Tame, Actual, Waits
<1>2. /\ Tame(t, th, [w EXCEPT !.state = "error"])
      /\ Tame(t, th, UpdateButtons(w))
  <2>1. Quiet(w, [w EXCEPT !.state = "error"]) /\ Quiet(w, UpdateButtons(w))
    BY <1>1, QuietFunctions
  <2>2. QED BY <2>1, QuietKeepsTame
<1>3. CASE what = "disarming" /\ w.local[th] # NoId
  <2>1. w.local[th] \in SourceId /\ th # "poll"
    BY <1>3 DEF Tame
  <2>2. DisarmRequest(w.local[th]) \in Job
    BY <2>1, RequestTypes
  <2>3. Wait(t, th, UpdateButtons(w), "request", DisarmRequest(w.local[th]))
    BY <1>3 DEF Stopped
  <2>4. QED BY <1>1, <1>2, <2>1, <2>2, <2>3, TameMoves
<1>4. CASE ~(what = "disarming" /\ w.local[th] # NoId)
  <2>1. \/ Finish(t, th, [w EXCEPT !.state = "error"])
        \/ Finish(t, th, UpdateButtons(w))
        \/ Finish(t, th, w)
    BY <1>4 DEF Stopped
  <2>2. QED BY <1>2, <2>1, FinishMoves
<1>5. QED BY <1>3, <1>4

LEMMA NotifyMoves ==
    ASSUME TypeOK, GoodTabs, NEW t \in Tab, NEW th \in Thread, NEW w,
           Tame(t, th, w), NEW what \in Ends, Frame, Notify(t, th, w, what),
           th = "poll" /\ what = "disarming" => w.local[th] = NoId
    PROVE  Moved(t)
<1>1. CASE web[t].ses = NoId
  BY <1>1, StoppedMoves DEF Notify
<1>2. CASE web[t].ses # NoId
  <2> DEFINE j == StopRequest(web[t].ses)
  <2>1. web[t].ses \in SessionId
    BY <1>2, TabFacts DEF TabState
  <2>2. j \in Job
    BY <2>1, RequestTypes
  <2>3. j.op = "stop" /\ j.src = NoId
    BY DEF StopRequest, NoJob
  <2>4. Wait(t, th, w, what, j)
    BY <1>2 DEF Notify
  <2>5. what \in Waits
    BY DEF Ends, Waits
  <2> HIDE DEF j
  <2>6. th = "poll" => PollWaits(w, what, j)
    BY <2>3 DEF PollWaits, Ends
  <2>7. QED BY <2>2, <2>4, <2>5, <2>6, TameMoves
<1>3. QED BY <1>1, <1>2

-----------------------------------------------------------------------------
(* Every step of a page but closing it moves one of its threads.           *)

LEMMA LocalFrame == ASSUME TypeOK, Local PROVE Frame
BY DEF TypeOK, ServerTypeOK, Local, Frame

LEMMA CaptureFailsMoves ==
    ASSUME TypeOK, GoodTabs, NEW t \in Tab, Frame, CaptureFails(t)
    PROVE  Moved(t)
<1>1. web[t] \in TabState /\ "poll" \in Thread
  BY TabFacts
<1>2. Tame(t, "poll", StopCapture(web[t]))
  BY <1>1, QuietFunctions, QuietIsTame
<1>3. QED
  BY <1>1, <1>2, NotifyMoves DEF CaptureFails, Ends

LEMMA OwnerMoves ==
    ASSUME TypeOK, GoodTabs, NEW t \in Tab,
           \/ \E th \in ArmThread : ClickArm(t, th)
           \/ \E th \in DisarmThread : ClickDisarm(t, th)
    PROVE  Moved(t)
<1>1. web[t] \in TabState /\ (ArmThread \cup DisarmThread) \subseteq Thread
  BY TabFacts DEF Thread
<1>2. "poll" \notin ArmThread \cup DisarmThread /\ ArmThread \cap DisarmThread = {}
  BY BrowserAssumption
<1>3. ASSUME NEW th \in ArmThread, ClickArm(t, th) PROVE Moved(t)
  <2> DEFINE w == [web[t] EXCEPT !.startable = FALSE]
  <2>1. Tame(t, th, w)
    BY <1>1, QuietFunctions, QuietIsTame
  <2>2. Frame /\ Wait(t, th, w, "permit", NoJob)
    BY <1>3, LocalFrame DEF ClickArm
  <2>3. "permit" \in Waits /\ NoJob \in Job
    BY NoJobType DEF Waits
  <2>4. QED BY <1>1, <1>2, <2>1, <2>2, <2>3, TameMoves
<1>4. ASSUME NEW th \in DisarmThread, ClickDisarm(t, th) PROVE Moved(t)
  <2> DEFINE m == Disarm(web[t])
             w == [m EXCEPT !.local[th] = web[t].src]
  <2>1. Quiet(web[t], m)
    BY <1>1, QuietFunctions
  <2>2. web[t].src \in SourceId \cup {NoId}
    BY <1>1 DEF TabState
  <2>3. m \in TabState
    BY <2>1 DEF Quiet
  <2> HIDE DEF m
  <2>4. /\ w \in TabState /\ w.at = m.at /\ w.cam = m.cam /\ w.src = m.src
        /\ w.local = [m.local EXCEPT ![th] = web[t].src]
    BY <2>2, <2>3 DEF TabState
  <2>5. m.local \in [Thread -> SourceId \cup SessionId \cup {NoId}]
    BY <2>3 DEF TabState
  <2> HIDE DEF w
  <2>6. Tame(t, th, w)
    BY <1>1, <1>2, <2>1, <2>2, <2>4, <2>5 DEF Tame, Quiet, Others
  <2>7. Frame /\ Notify(t, th, w, "disarming")
    BY <1>4, LocalFrame DEF ClickDisarm, m, w
  <2>8. QED BY <1>1, <1>2, <2>6, <2>7, NotifyMoves DEF Ends
<1>5. QED BY <1>3, <1>4

LEMMA TimerMoves ==
    ASSUME TypeOK, GoodTabs, NEW t \in Tab, Timer(t)
    PROVE  Moved(t)
<1>1. web[t] \in TabState /\ Beats \subseteq Thread /\ "poll" \notin Beats
      /\ "poll" \in Thread /\ "request" \in Waits
  BY TabFacts, BrowserAssumption DEF Thread, Waits
<1>2. \A th \in Thread : Tame(t, th, web[t])
  BY <1>1, QuietFunctions, QuietIsTame
<1>3. Frame
  BY LocalFrame DEF Timer, StartPoll, StartAnswer, StartBeat
<1>4. CASE StartPoll(t)
  <2> DEFINE j == PollRequest(web[t].src, web[t].state, "off")
  <2>1. web[t].src \in SourceId \cup {NoId} /\ web[t].state \in Actual
        /\ "off" \in Mode
    BY <1>1 DEF TabState, Mode
  <2>2. j \in Job
    BY <2>1, RequestTypes
  <2>3. j.op = "poll" /\ j.at = "run" /\ j.src = web[t].src
    BY DEF PollRequest, NoJob
  <2>4. web[t].local["poll"] = NoId
    BY <1>4 DEF StartPoll, Idle, GoodTabs, GoodPage
  <2>5. Wait(t, "poll", web[t], "request", j)
    BY <1>4 DEF StartPoll
  <2> HIDE DEF j
  <2>6. PollWaits(web[t], "request", j)
    BY <2>3, <2>4 DEF PollWaits
  <2>7. QED BY <1>1, <1>2, <1>3, <2>2, <2>5, <2>6, TameMoves
<1>5. CASE StartAnswer(t)
  <2>1. web[t].ses \in SessionId
    BY <1>1, <1>5 DEF TabState, StartAnswer
  <2>2. GetAnswerRequest(web[t].ses) \in Job
    BY <2>1, RequestTypes
  <2>3. "answer" \in Thread /\ "answer" # "poll"
    BY <1>1, <1>5 DEF StartAnswer
  <2>4. QED
    BY <1>1, <1>2, <1>3, <1>5, <2>2, <2>3, TameMoves DEF StartAnswer
<1>6. CASE StartBeat(t)
  <2>1. web[t].ses \in SessionId
    BY <1>1, <1>6 DEF TabState, StartBeat
  <2>2. HeartbeatRequest(web[t].ses) \in Job
    BY <2>1, RequestTypes
  <2>3. "beat" \in Thread /\ "beat" # "poll"
    BY <1>1, <1>6 DEF StartBeat
  <2>4. QED
    BY <1>1, <1>2, <1>3, <1>6, <2>2, <2>3, TameMoves DEF StartBeat
<1>7. QED BY <1>4, <1>5, <1>6 DEF Timer

LEMMA PermissionMoves ==
    ASSUME TypeOK, GoodTabs, NEW t \in Tab, NEW th \in ArmThread,
           PermissionAnswered(t, th)
    PROVE  Moved(t)
<1>1. web[t] \in TabState /\ th \in Thread /\ th # "poll" /\ "request" \in Waits
  BY TabFacts, BrowserAssumption DEF Thread, Waits
<1>2. Frame
  BY LocalFrame DEF PermissionAnswered
<1>3. CASE Finish(t, th, ArmFails(web[t]))
  <2>1. Tame(t, th, ArmFails(web[t]))
    BY <1>1, QuietFunctions, QuietIsTame
  <2>2. QED BY <1>1, <1>2, <1>3, <2>1, FinishMoves
<1>4. ASSUME NEW s \in SourceId \ KnownSources,
             \A u \in Tab : s \notin Remembered(u),
             Wait(t, th, [web[t] EXCEPT !.local[th] = s], "request",
                  ArmRequest(s))
      PROVE  Moved(t)
  <2> DEFINE w == [web[t] EXCEPT !.local[th] = s]
  <2>1. /\ w \in TabState /\ w.at = web[t].at /\ w.cam = web[t].cam
        /\ w.src = web[t].src
        /\ w.local = [web[t].local EXCEPT ![th] = s]
    BY <1>1 DEF TabState
  <2>2. web[t].local \in [Thread -> SourceId \cup SessionId \cup {NoId}]
    BY <1>1 DEF TabState
  <2>3. Wait(t, th, w, "request", ArmRequest(s)) /\ ArmRequest(s) \in Job
    BY <1>4, RequestTypes
  <2> HIDE DEF w
  <2>4. SideMove(t, th, w) /\ Others(t, th, w)
    BY <1>1, <1>4, <2>1, <2>2 DEF SideMove, Fresh, Others
  <2>5. Moves(t, th, w, "request", ArmRequest(s))
    BY <1>1, <1>2, <2>3, <2>4 DEF Moves
  <2>6. QED BY <1>1, <2>1, <2>3, <2>5 DEF Moved
<1>5. QED BY <1>3, <1>4 DEF PermissionAnswered

LEMMA ArmAnsweredMoves ==
    ASSUME TypeOK, GoodTabs, NEW t \in Tab, NEW th \in ArmThread,
           ArmAnswered(t, th)
    PROVE  Moved(t)
<1>1. web[t] \in TabState /\ th \in Thread /\ th # "poll" /\ "idle" \in Waits
      /\ NoJob \in Job
  BY TabFacts, BrowserAssumption, NoJobType DEF Thread, Waits
<1>2. web[t].local[th] \in SourceId \cup {NoId}
  BY <1>1 DEF GoodTabs, GoodPage
<1> DEFINE m == [web[t] EXCEPT !.src = web[t].local[th], !.armed = TRUE,
                               !.state = "armed"]
           n == UpdateButtons(m)
           w == [n EXCEPT !.local[th] = NoId]
<1>3. /\ m \in TabState /\ m.at = web[t].at /\ m.local = web[t].local
      /\ m.cam = web[t].cam /\ m.src = web[t].local[th]
  BY <1>1, <1>2 DEF TabState, Actual
<1>4. Wait(t, th, w, "idle", NoJob)
  BY DEF ArmAnswered, Finish
<1> HIDE DEF m
<1>5. /\ n \in TabState /\ n.at = m.at /\ n.local = m.local
      /\ n.cam = m.cam /\ n.src = m.src
  BY <1>3 DEF UpdateButtons, TabState
<1> HIDE DEF n
<1>6. /\ w \in TabState /\ w.at = n.at /\ w.cam = n.cam /\ w.src = n.src
      /\ w.local = [n.local EXCEPT ![th] = NoId]
  BY <1>5 DEF TabState
<1>7. n.local \in [Thread -> SourceId \cup SessionId \cup {NoId}]
  BY <1>5 DEF TabState
<1> HIDE DEF w
<1>8. SideMove(t, th, w) /\ Others(t, th, w)
  BY <1>1, <1>3, <1>5, <1>6, <1>7 DEF SideMove, Others
<1>9. Frame
  BY LocalFrame DEF ArmAnswered
<1>10. Moves(t, th, w, "idle", NoJob)
  BY <1>1, <1>4, <1>8, <1>9 DEF Moves
<1>11. QED BY <1>1, <1>6, <1>10 DEF Moved

LEMMA CameraAnsweredMoves ==
    ASSUME TypeOK, GoodTabs, NEW t \in Tab, CameraAnswered(t)
    PROVE  Moved(t)
<1>1. web[t] \in TabState /\ "poll" \in Thread /\ "connect" \in Waits
      /\ NoJob \in Job
  BY TabFacts, NoJobType DEF Waits
<1>2. Frame
  BY LocalFrame DEF CameraAnswered
<1>3. CASE Wait(t, "poll",
                UpdateButtons([web[t] EXCEPT !.cam = TRUE, !.peer = TRUE]),
                "connect", NoJob)
  <2> DEFINE m == [web[t] EXCEPT !.cam = TRUE, !.peer = TRUE]
             w == UpdateButtons(m)
  <2>1. /\ m \in TabState /\ m.at = web[t].at /\ m.local = web[t].local
        /\ m.src = web[t].src
    BY <1>1 DEF TabState
  <2>2. Wait(t, "poll", w, "connect", NoJob)
    BY <1>3
  <2> HIDE DEF m
  <2>3. /\ w \in TabState /\ w.at = web[t].at /\ w.local = web[t].local
        /\ w.src = web[t].src
    BY <2>1 DEF UpdateButtons, TabState
  <2> HIDE DEF w
  <2>4. Granted(t)
    BY DEF CameraAnswered, Granted
  <2>5. PollJob(t) = NoJob
    BY DEF CameraAnswered, GoodTabs, GoodPage
  <2>6. PollMove(t, w, "connect", NoJob)
    BY <2>3, <2>4, <2>5 DEF PollMove, GoodTabs, GoodPage, NoJob
  <2>7. Moves(t, "poll", w, "connect", NoJob)
    BY <1>2, <2>2, <2>3, <2>6 DEF Moves, Others
  <2>8. QED BY <1>1, <2>3, <2>7 DEF Moved
<1>4. CASE CaptureFails(t)
  BY <1>2, <1>4, CaptureFailsMoves
<1>5. QED BY <1>3, <1>4 DEF CameraAnswered

LEMMA ConnectedMoves ==
    ASSUME TypeOK, GoodTabs, NEW t \in Tab, Connected(t)
    PROVE  Moved(t)
<1>1. web[t] \in TabState /\ "poll" \in Thread /\ "request" \in Waits
  BY TabFacts DEF Waits
<1>2. Frame
  BY LocalFrame DEF Connected
<1>3. ASSUME NEW x \in SessionId,
             Wait(t, "poll", [web[t] EXCEPT !.local["poll"] = x], "request",
                  OfferRequest(x))
      PROVE  Moved(t)
  <2> DEFINE w == [web[t] EXCEPT !.local["poll"] = x]
  <2>1. /\ w \in TabState /\ w.at = web[t].at /\ w.cam = web[t].cam
        /\ w.src = web[t].src
        /\ w.local = [web[t].local EXCEPT !["poll"] = x]
    BY <1>1 DEF TabState
  <2>2. web[t].local \in [Thread -> SourceId \cup SessionId \cup {NoId}]
    BY <1>1 DEF TabState
  <2>3. OfferRequest(x) \in Job /\ OfferRequest(x).op = "offer"
        /\ OfferRequest(x).src = NoId
    BY RequestTypes DEF OfferRequest, NoJob
  <2>4. Wait(t, "poll", w, "request", OfferRequest(x))
    BY <1>3
  <2> HIDE DEF w
  <2>5. PollMove(t, w, "request", OfferRequest(x)) /\ Others(t, "poll", w)
    BY <1>1, <2>1, <2>2, <2>3 DEF PollMove, Others
  <2>6. Moves(t, "poll", w, "request", OfferRequest(x))
    BY <1>2, <2>4, <2>5 DEF Moves
  <2>7. QED BY <1>1, <2>1, <2>3, <2>6 DEF Moved
<1>4. CASE CaptureFails(t)
  BY <1>2, <1>4, CaptureFailsMoves
<1>5. QED BY <1>3, <1>4 DEF Connected

LEMMA PollAnsweredMoves ==
    ASSUME TypeOK, GoodTabs, NEW t \in Tab, PollAnswered(t)
    PROVE  Moved(t)
<1> DEFINE w == web[t]
           j == PollJob(t)
<1>1. w \in TabState /\ "poll" \in Thread /\ "camera" \in Waits /\ NoJob \in Job
  BY TabFacts, NoJobType DEF Waits
<1>2. Frame
  BY LocalFrame DEF PollAnswered
<1>3. j.op = "poll" /\ j.at = "done" /\ w.local["poll"] = NoId
  BY DEF PollAnswered, Answered, PollJob, GoodTabs, GoodPage
<1>4. /\ Quiet(w, w) /\ Quiet(w, Disarm(w)) /\ Quiet(w, StopCapture(w))
      /\ Tame(t, "poll", w) /\ Tame(t, "poll", Disarm(w))
      /\ Tame(t, "poll", StopCapture(w))
  BY <1>1, QuietFunctions, QuietIsTame
<1>5. CASE Notify(t, "poll", Disarm(w), "disarming")
  <2>1. Disarm(w).local["poll"] = NoId
    BY <1>3, <1>4 DEF Quiet
  <2>2. QED BY <1>1, <1>2, <1>4, <1>5, <2>1, NotifyMoves DEF Ends
<1>6. CASE /\ j.ans = "ok" /\ j.want = "live" /\ Startable(w)
           /\ Wait(t, "poll", [w EXCEPT !.state = "starting"], "camera", NoJob)
  <2> DEFINE n == [w EXCEPT !.state = "starting"]
  <2>1. /\ n \in TabState /\ n.at = w.at /\ n.local = w.local
        /\ n.cam = w.cam /\ n.src = w.src
    BY <1>1 DEF TabState, Actual
  <2> HIDE DEF n
  <2>2. Granted(t)
    BY <1>3, <1>6 DEF Granted, PollJob
  <2>3. ~n.cam
    BY <1>6, <2>1 DEF Startable
  <2>4. PollMove(t, n, "camera", NoJob)
    BY <1>3, <2>1, <2>2, <2>3 DEF PollMove, NoJob
  <2>5. Others(t, "poll", n)
    BY <2>1 DEF Others
  <2>6. Moves(t, "poll", n, "camera", NoJob)
    BY <1>2, <1>6, <2>4, <2>5 DEF Moves, n
  <2>7. QED BY <1>1, <2>1, <2>6 DEF Moved
<1>7. CASE Notify(t, "poll", StopCapture(w), "request")
  BY <1>1, <1>2, <1>4, <1>7, NotifyMoves DEF Ends
<1>8. CASE Finish(t, "poll", w)
  BY <1>1, <1>2, <1>4, <1>8, FinishMoves
<1>9. \/ Notify(t, "poll", Disarm(w), "disarming")
      \/ /\ j.ans = "ok" /\ j.want = "live" /\ Startable(w)
         /\ Wait(t, "poll", [w EXCEPT !.state = "starting"], "camera", NoJob)
      \/ Notify(t, "poll", StopCapture(w), "request")
      \/ Finish(t, "poll", w)
  <2>1. CASE j.ans = "gone"
    BY <2>1 DEF PollAnswered, PollJob
  <2>2. CASE j.ans = "ok" /\ j.want = "live" /\ Startable(w)
    BY <2>2 DEF PollAnswered, PollJob
  <2>3. CASE j.ans = "ok" /\ j.want = "armed" /\ Stoppable(w)
    BY <2>3 DEF PollAnswered, PollJob
  <2>4. CASE /\ j.ans # "gone"
             /\ ~(j.ans = "ok" /\ j.want = "live" /\ Startable(w))
             /\ ~(j.ans = "ok" /\ j.want = "armed" /\ Stoppable(w))
    BY <2>4 DEF PollAnswered, PollJob
  <2>5. QED BY <2>1, <2>2, <2>3, <2>4
<1>10. QED BY <1>5, <1>6, <1>7, <1>8, <1>9

LEMMA OfferAnsweredMoves ==
    ASSUME TypeOK, GoodTabs, NEW t \in Tab, OfferAnswered(t)
    PROVE  Moved(t)
<1>1. web[t] \in TabState /\ "poll" \in Thread
  BY TabFacts
<1>2. Frame
  BY LocalFrame DEF OfferAnswered
<1> DEFINE n == [web[t] EXCEPT !.ses = web[t].local["poll"], !.state = "live"]
<1>3. web[t].local["poll"] \in SessionId \cup {NoId}
  BY DEF GoodTabs, GoodPage
<1>4. Quiet(web[t], n)
  BY <1>1, <1>3 DEF Quiet, TabState, Actual
<1>5. Tame(t, "poll", n)
  BY <1>1, <1>4, QuietIsTame
<1>6. Finish(t, "poll", n)
  BY DEF OfferAnswered
<1>7. QED BY <1>1, <1>2, <1>5, <1>6, FinishMoves

LEMMA SideAnsweredMoves ==
    ASSUME TypeOK, GoodTabs, NEW t \in Tab,
           NEW th \in Thread,
           \/ th = "answer" /\ AnswerAnswered(t)
           \/ th = "beat" /\ BeatAnswered(t)
    PROVE  Moved(t)
<1>1. web[t] \in TabState
  BY TabFacts
<1>2. Frame
  BY LocalFrame DEF AnswerAnswered, BeatAnswered
<1>3. /\ Tame(t, th, web[t])
      /\ Tame(t, th, StopCapture(web[t]))
      /\ Tame(t, th, [web[t] EXCEPT !.applied = TRUE])
  BY <1>1, QuietFunctions, QuietIsTame
<1>4. \/ Finish(t, th, web[t])
      \/ Finish(t, th, StopCapture(web[t]))
      \/ Finish(t, th, [web[t] EXCEPT !.applied = TRUE])
  BY DEF AnswerAnswered, BeatAnswered
<1>5. QED BY <1>2, <1>3, <1>4, FinishMoves

LEMMA OtherAnsweredMoves ==
    ASSUME TypeOK, GoodTabs, NEW t \in Tab, NEW th \in Thread,
           OtherAnswered(t, th)
    PROVE  Moved(t)
<1>1. Tame(t, th, web[t]) /\ Frame
  BY TabFacts, QuietFunctions, QuietIsTame, LocalFrame DEF OtherAnswered
<1>2. th = "poll" /\ web[t].at[th] = "disarming" => web[t].local[th] = NoId
  BY DEF GoodTabs, GoodPage
<1>3. QED BY <1>1, <1>2, StoppedMoves DEF OtherAnswered

LEMMA RequestFailsMoves ==
    ASSUME TypeOK, GoodTabs, NEW t \in Tab, NEW th \in Thread,
           RequestFails(t, th)
    PROVE  Moved(t)
<1>1. /\ web[t] \in TabState /\ <<t, th>> \in Client
  BY TabFacts
<1>2. Frame
  BY <1>1, GiveUpType DEF RequestFails, Frame, TypeOK
<1>3. Tame(t, th, web[t]) /\ Tame(t, th, ArmFails(web[t]))
  BY <1>1, QuietFunctions, QuietIsTame
<1>4. th = "poll" /\ web[t].at[th] = "disarming" => web[t].local[th] = NoId
  BY DEF GoodTabs, GoodPage
<1>5. \/ Finish(t, th, ArmFails(web[t]))
      \/ CaptureFails(t)
      \/ Stopped(t, th, web[t], web[t].at[th])
  BY DEF RequestFails
<1>6. QED
  BY <1>2, <1>3, <1>4, <1>5, FinishMoves, CaptureFailsMoves, StoppedMoves

LEMMA ResolvesMoves ==
    ASSUME TypeOK, GoodTabs, NEW t \in Tab, NEW th \in Thread, Resolves(t, th)
    PROVE  Moved(t)
BY PermissionMoves, ArmAnsweredMoves, CameraAnsweredMoves, ConnectedMoves,
   PollAnsweredMoves, OfferAnsweredMoves, SideAnsweredMoves,
   OtherAnsweredMoves DEF Resolves

-----------------------------------------------------------------------------
(* The other steps.                                                        *)

LEMMA NewPageGood == NewPage \in TabState /\ GoodPage(NewPage, NoJob)
BY DEF NewPage, TabState, Actual, Waits, GoodPage, Thread, NoJob

LEMMA LeaveJobs ==
    ASSUME TypeOK, NEW t \in Tab, Leave(t)
    PROVE  /\ job' \in [Client -> Job]
           /\ job'[<<t, "poll">>] = NoJob
           /\ \A u \in Tab : u # t => job'[<<u, "poll">>] = PollJob(u)
<1>1. job' = [c \in Client |-> IF c \in {t} \X Thread THEN NoJob ELSE job[c]]
  BY DEF Leave
<1>2. \A u \in Tab : <<u, "poll">> \in Client /\ "poll" \in Thread
  BY TabFacts
<1>3. \A u \in Tab : <<u, "poll">> \in {t} \X Thread <=> u = t
  BY <1>2
<1>4. QED
  BY <1>1, <1>2, <1>3, NoJobType DEF TypeOK, ServerTypeOK, PollJob

LEMMA LeaveGood ==
    ASSUME TypeOK, GoodTabs, NEW t \in Tab, Leave(t)
    PROVE  TypeOK' /\ GoodTabs'
<1>1. web' = [web EXCEPT ![t] = NewPage] /\ UNCHANGED tables
  BY DEF Leave
<1>2. orphans' \in SUBSET {k \in Job : Pending(k)}
  <2> DEFINE lost == {job[<<t, th>>] : th \in Thread}
             bye  == IF web[t].src = NoId THEN NoJob
                     ELSE DisarmRequest(web[t].src)
  <2>1. web[t].src \in SourceId \cup {NoId} /\ lost \subseteq Job
    BY TabFacts DEF TabState
  <2>2. bye \in Job
    BY <2>1, NoJobType, RequestTypes
  <2>3. PICK sent \in SUBSET {j \in lost \cup {bye} : Pending(j)} :
              orphans' = orphans \cup sent
    BY DEF Leave
  <2> HIDE DEF lost, bye
  <2>4. QED BY <2>1, <2>2, <2>3 DEF TypeOK, ServerTypeOK
<1>3. TypeOK'
  BY <1>1, <1>2, LeaveJobs, NewPageGood DEF TypeOK, ServerTypeOK, tables
<1>4. GoodTabs'
  BY <1>1, LeaveJobs, NewPageGood DEF TypeOK, GoodTabs, PollJob
<1>5. QED BY <1>3, <1>4

\* The server leaves the request of pollRemoteControl what GoodPage says.
LEMMA AfterPoll ==
    ASSUME TypeOK, NEW j \in Job, j.op = "poll"
    PROVE  /\ After(j).op = "poll"
           /\ After(j).src \in {j.src, NoId}
           /\ After(j).at = "done" => After(j).src = NoId
<1>1. After(j).op = "poll"
  BY AfterType DEF TypeOK
<1>2. j \in JobRecord
  BY DEF Job
<1>3. \A a \in Answer : /\ Reply(j, a) \in JobRecord
                        /\ Reply(j, a).src = NoId
  BY <1>2, ReplyType DEF Reply, NoJob, Job
<1>4. CASE j.at = "run"
  <2>1. After(j) = AfterUpdate(j)
    BY <1>4 DEF After
  <2>2. CASE SourceWith(j.src) = {}
    <3>1. After(j) = Reply(j, "gone")
      BY <2>1, <2>2 DEF AfterUpdate
    <3>2. QED BY <1>1, <1>3, <3>1 DEF Answer
  <2>3. CASE SourceWith(j.src) # {}
    <3> DEFINE d == (CHOOSE r \in SourceWith(j.src) : TRUE).desired
    <3>1. After(j) = [j EXCEPT !.at = "settings", !.want = d]
      BY <2>1, <2>3 DEF AfterUpdate
    <3> HIDE DEF d
    <3>2. QED BY <1>1, <1>2, <3>1 DEF JobRecord
  <2>4. QED BY <2>2, <2>3
<1>5. CASE j.at = "settings"
  <2>1. After(j) = [Reply(j, "ok") EXCEPT !.rec = recording.desired]
    BY <1>5 DEF After
  <2>2. Reply(j, "ok") \in JobRecord /\ Reply(j, "ok").src = NoId
    BY <1>3 DEF Answer
  <2>3. QED BY <1>1, <2>1, <2>2 DEF JobRecord
<1>6. CASE j.at \notin {"run", "settings"}
  <2>1. After(j) = Reply(j, "ok")
    BY <1>6 DEF After
  <2>2. QED BY <1>1, <1>3, <2>1 DEF Answer
<1>7. QED BY <1>4, <1>5, <1>6

LEMMA ServerJobs ==
    ASSUME TypeOK, ServerStep, NEW t \in Tab
    PROVE  \/ job'[<<t, "poll">>] = PollJob(t)
           \/ /\ Pending(PollJob(t)) /\ PollJob(t) \in Job
              /\ job'[<<t, "poll">>] = After(PollJob(t))
              /\ After(PollJob(t)).op = PollJob(t).op
<1>1. <<t, "poll">> \in Client /\ PollJob(t) \in Job
  BY TabFacts DEF PollJob
<1>2. CASE \E c \in Client : Serve(c)
  <2>1. PICK c \in Client : Serve(c)
    BY <1>2
  <2>2. After(PollJob(t)).op = PollJob(t).op
    BY <1>1, AfterType DEF TypeOK
  <2>3. QED
    BY <1>1, <2>1, <2>2 DEF Serve, TypeOK, ServerTypeOK, PollJob
<1>3. CASE \E j \in orphans : ServeOrphan(j)
  BY <1>3 DEF ServeOrphan, PollJob
<1>4. QED BY <1>2, <1>3 DEF ServerStep

LEMMA ServerGood ==
    ASSUME TypeOK, GoodTabs, ServerStep, UNCHANGED web
    PROVE  TypeOK' /\ GoodTabs'
<1>1. TypeOK'
  BY ServerStepType DEF TypeOK
<1>2. ASSUME NEW t \in Tab PROVE GoodPage(web'[t], job'[<<t, "poll">>])
  <2>1. GoodPage(web[t], PollJob(t))
    BY DEF GoodTabs
  <2>2. CASE job'[<<t, "poll">>] = PollJob(t)
    BY <2>1, <2>2
  <2>3. CASE /\ Pending(PollJob(t)) /\ PollJob(t) \in Job
             /\ job'[<<t, "poll">>] = After(PollJob(t))
             /\ After(PollJob(t)).op = PollJob(t).op
    <3>1. PollJob(t) # NoJob
      BY <2>3 DEF Pending, NoJob
    <3>2. PollJob(t).op = "poll" => /\ After(PollJob(t)).at = "done" =>
                                          After(PollJob(t)).src = NoId
      BY <2>3, AfterPoll
    <3>3. QED BY <2>1, <2>3, <3>1, <3>2 DEF GoodPage
  <2>4. QED BY <2>2, <2>3, ServerJobs
<1>3. QED BY <1>1, <1>2 DEF GoodTabs, PollJob

\* The dashboards and the leases touch nothing of a page.
LEMMA DashboardJobs ==
    ASSUME TypeOK, NEW o \in Operator,
           AskControl(o) \/ AskStatus(o) \/ AskAnswer(o) \/ OperatorAnswered(o)
    PROVE  /\ TypeOK'
           /\ UNCHANGED <<tables, orphans, web>>
           /\ \A t \in Tab : job'[<<t, "poll">>] = PollJob(t)
<1>1. o \in Client /\ \A t \in Tab : <<t, "poll">> \in Client /\ o # <<t, "poll">>
  BY BrowserAssumption DEF Thread
<1>2. PICK j \in Job : /\ job' = [job EXCEPT ![o] = j]
                       /\ UNCHANGED <<tables, orphans, web>>
  <2>1. CASE AskControl(o)
    BY <2>1, RequestTypes DEF AskControl, Ask
  <2>2. CASE AskStatus(o)
    BY <2>2, RequestTypes DEF AskStatus, Ask
  <2>3. CASE AskAnswer(o)
    <3>1. PICK r \in sessions : Ask(o, PostAnswerRequest(r.id, o))
      BY <2>3 DEF AskAnswer
    <3>2. r.id \in SessionId
      BY DEF TypeOK, ServerTypeOK, SessionRow
    <3>3. PostAnswerRequest(r.id, o) \in Job
      BY <1>1, <3>2, RequestTypes
    <3>4. QED BY <3>1, <3>3 DEF Ask
  <2>4. CASE OperatorAnswered(o)
    BY <2>4, NoJobType DEF OperatorAnswered
  <2>5. QED BY <2>1, <2>2, <2>3, <2>4
<1>3. job' \in [Client -> Job]
  BY <1>2 DEF TypeOK, ServerTypeOK
<1>4. QED
  BY <1>1, <1>2, <1>3 DEF TypeOK, ServerTypeOK, tables, PollJob

LEMMA DashboardGood ==
    ASSUME TypeOK, GoodTabs, NEW o \in Operator,
           AskControl(o) \/ AskStatus(o) \/ AskAnswer(o) \/ OperatorAnswered(o)
    PROVE  TypeOK' /\ GoodTabs'
BY DashboardJobs DEF GoodTabs, PollJob

LEMMA AgeGood ==
    ASSUME TypeOK, GoodTabs, Age, UNCHANGED web
    PROVE  TypeOK' /\ GoodTabs'
<1>1. job' = job
  BY DEF Age, AgeSource, AgeSession
<1>2. QED
  BY <1>1, AgeType DEF TypeOK, GoodTabs, PollJob

\* What a step of the system is.
LEMMA StepKinds ==
    ASSUME TypeOK, GoodTabs, Next
    PROVE  \/ ServerStep /\ UNCHANGED web
           \/ Age /\ UNCHANGED web
           \/ \E t \in Tab : Moved(t) \/ Leave(t)
           \/ \E o \in Operator : \/ AskControl(o) \/ AskStatus(o)
                                  \/ AskAnswer(o) \/ OperatorAnswered(o)
BY OwnerMoves, TimerMoves, ResolvesMoves, RequestFailsMoves DEF Next, Owner

LEMMA GoodInit == Init => TypeOK /\ GoodTabs
<1> SUFFICES ASSUME Init PROVE TypeOK /\ GoodTabs
  OBVIOUS
<1>1. ServerTypeOK /\ web = [t \in Tab |-> NewPage]
  BY ServerInitType DEF Init
<1>2. \A t \in Tab : PollJob(t) = NoJob
  BY BrowserAssumption DEF Init, ServerInit, PollJob, Thread
<1>3. QED BY <1>1, <1>2, NewPageGood DEF TypeOK, GoodTabs

LEMMA GoodNext == TypeOK /\ GoodTabs /\ [Next]_vars => TypeOK' /\ GoodTabs'
<1> SUFFICES ASSUME TypeOK, GoodTabs, [Next]_vars PROVE TypeOK' /\ GoodTabs'
  OBVIOUS
<1>1. CASE Next
  BY <1>1, StepKinds, ServerGood, AgeGood, MovesGood, LeaveGood, DashboardGood
<1>2. CASE UNCHANGED vars
  BY <1>2 DEF vars, TypeOK, ServerTypeOK, GoodTabs, PollJob
<1>3. QED BY <1>1, <1>2

-----------------------------------------------------------------------------
(* Theorems.                                                               *)

\* The pages, the rows and the requests keep their shape: what an interrupted
\* function finds in its variables after an await is of the kind it left there.
THEOREM TypeCorrect == Spec => []TypeOK
<1>1. TypeOK /\ GoodTabs /\ [Next]_vars => TypeOK' /\ GoodTabs'
  BY GoodNext
<1>2. QED BY <1>1, GoodInit, PTL DEF Spec

\* A page never opens a camera over another one, however many armings,
\* disarmings, polls and answers of any number of pages overlap (startCapture).
THEOREM CameraIsKept == Spec => NoCameraLost
<1>1. TypeOK /\ GoodTabs /\ [Next]_vars => TypeOK' /\ GoodTabs'
  BY GoodNext
<1>2. GoodTabs => [\A t \in Tab : CameraAnswered(t) => ~web[t].cam]_vars
  BY DEF GoodTabs, GoodPage, CameraAnswered
<1>3. QED BY <1>1, <1>2, GoodInit, PTL DEF Spec, NoCameraLost

-----------------------------------------------------------------------------
(* The refinement of CameraControl.                                        *)
(*                                                                         *)
(* The sources that page t may still hold or ask for.  No two pages share   *)
(* one, so that a row speaks of one page.                                  *)

Names(t) ==
    {web[t].src, PollJob(t).src} \cup {web[t].local[th] : th \in ArmThread}

Apart ==
    \A t, u \in Tab : \A s : s \in Names(t) /\ s \in Names(u) /\ s # NoId => t = u

Known == OneSourceOneSession /\ Apart

\* Request j told its page to be live.
GrantedJob(j) ==
    /\ j.op = "poll" /\ j.want = "live"
    /\ j.at = "settings" \/ (j.at = "done" /\ j.ans = "ok")

LEMMA GrantedForm ==
    \A t \in Tab : t \in GrantedTabs <=>
        web[t].at["poll"] = "camera" \/ GrantedJob(PollJob(t))
BY DEF GrantedTabs, Granted, GrantedJob, PollJob

LEMMA GrantedFormNext ==
    \A t \in Tab : t \in GrantedTabs' <=>
        web'[t].at["poll"] = "camera" \/ GrantedJob(job'[<<t, "poll">>])
BY DEF GrantedTabs, Granted, GrantedJob

LEMMA NamesNext ==
    \A t \in Tab :
        Names(t)' = {web'[t].src, job'[<<t, "poll">>].src}
                    \cup {web'[t].local[th] : th \in ArmThread}
BY DEF Names, PollJob

\* Whether page t is ordered to transmit, whatever the rows are.
Live(s) == s # NoId /\ \E q \in sources : q.desired = "live" /\ q.id = s

LEMMA OrderedForm ==
    \A t \in Tab : t \in OrderedTabs <=> Live(web[t].src) \/ Live(PollJob(t).src)
BY DEF OrderedTabs, Holds, Live, PollJob

LEMMA OrderedFormNext ==
    ASSUME sources' = sources
    PROVE  \A t \in Tab : t \in OrderedTabs' <=>
              Live(web'[t].src) \/ Live(job'[<<t, "poll">>].src)
BY DEF OrderedTabs, Holds, Live

-----------------------------------------------------------------------------
(* Whoever changes the rows or the sources of the pages, there is one row,  *)
(* and one page that holds its identifier: the order goes to one page.      *)

LEMMA OrderChanges ==
    ASSUME Known', GrantedTabs' = GrantedTabs,
           \A t \in Tab : web'[t].cam = web[t].cam
    PROVE  Control!Next
<1>1. OrderedTabs' \in SUBSET Tab
  BY DEF OrderedTabs
<1>2. ASSUME NEW d \in OrderedTabs', NEW e \in OrderedTabs' PROVE d = e
  <2>1. \A t \in OrderedTabs' : \E q \in sources' :
           q.id # NoId /\ q.id \in {web'[t].src, job'[<<t, "poll">>].src}
    BY DEF OrderedTabs, Holds
  <2>2. PICK q \in sources' :
           q.id # NoId /\ q.id \in {web'[d].src, job'[<<d, "poll">>].src}
    BY <2>1
  <2>3. PICK r \in sources' :
           r.id # NoId /\ r.id \in {web'[e].src, job'[<<e, "poll">>].src}
    BY <2>1
  <2>4. q = r
    BY DEF Known, OneSourceOneSession
  <2>5. d \in Tab /\ e \in Tab
    BY <1>1
  <2>6. q.id \in Names(d)' /\ q.id \in Names(e)'
    BY <2>2, <2>3, <2>4, <2>5, NamesNext
  <2>7. QED
    BY <2>2, <2>5, <2>6 DEF Known, Apart
<1>3. {t \in Tab : web'[t].cam} = {t \in Tab : web[t].cam}
  OBVIOUS
<1>4. Control!Order
  BY <1>1, <1>2, <1>3 DEF Control!Order
<1>5. QED BY <1>4 DEF Control!Next

\* A page that opens no camera and learns of no source only lets go.
LEMMA LetsGo ==
    ASSUME NEW t \in Tab, sources' = sources,
           \A u \in Tab : u # t => /\ web'[u] = web[u]
                                   /\ job'[<<u, "poll">>] = PollJob(u),
           web'[t].cam => web[t].cam,
           t \in GrantedTabs' => t \in GrantedTabs,
           web'[t].src \in {web[t].src, NoId},
           job'[<<t, "poll">>].src \in {web[t].src, PollJob(t).src, NoId}
    PROVE  Control!Next
<1>1. \A u \in Tab : u # t => (u \in GrantedTabs' <=> u \in GrantedTabs)
  BY GrantedForm, GrantedFormNext
<1>2. GrantedTabs \subseteq Tab /\ GrantedTabs' \subseteq Tab
  BY DEF GrantedTabs
<1>3. GrantedTabs' \in {GrantedTabs, GrantedTabs \ {t}}
  <2>1. CASE t \in GrantedTabs'
    BY <1>1, <1>2, <2>1
  <2>2. CASE t \notin GrantedTabs'
    BY <1>1, <1>2, <2>2
  <2>3. QED BY <2>1, <2>2
<1>4. \A u \in Tab : u # t => (u \in OrderedTabs' <=> u \in OrderedTabs)
  BY OrderedForm, OrderedFormNext
<1>5. t \in OrderedTabs' => t \in OrderedTabs
  BY OrderedForm, OrderedFormNext DEF Live
<1>6. OrderedTabs \subseteq Tab /\ OrderedTabs' \subseteq Tab
  BY DEF OrderedTabs
<1>7. OrderedTabs' \in {OrderedTabs, OrderedTabs \ {t}}
  <2>1. CASE t \in OrderedTabs'
    BY <1>4, <1>5, <1>6, <2>1
  <2>2. CASE t \notin OrderedTabs'
    BY <1>4, <1>6, <2>2
  <2>3. QED BY <2>1, <2>2
<1>8. {u \in Tab : web'[u].cam} \in
         {{u \in Tab : web[u].cam}, {u \in Tab : web[u].cam} \ {t}}
  <2>1. CASE web'[t].cam
    BY <2>1
  <2>2. CASE ~web'[t].cam
    BY <2>2
  <2>3. QED BY <2>1, <2>2
<1>9. Control!Release(t)
  BY <1>3, <1>7, <1>8 DEF Control!Release
<1>10. QED BY <1>9 DEF Control!Next

-----------------------------------------------------------------------------
(* A step of a page.                                                       *)

\* What a thread's step says of its page, and of the others.
LEMMA MovedFacts ==
    ASSUME TypeOK, NEW t \in Tab, NEW th \in Thread, NEW w \in TabState,
           NEW what \in Waits, NEW j \in Job, Moves(t, th, w, what, j)
    PROVE  /\ sources' = sources /\ sessions' = sessions
           /\ \A u \in Tab : u # t => /\ web'[u] = web[u]
                                      /\ job'[<<u, "poll">>] = PollJob(u)
           /\ web'[t].src = w.src /\ web'[t].cam = w.cam
           /\ web'[t].local = w.local
           /\ \A o \in Thread \ {th} : w.local[o] = web[t].local[o]
           /\ th = "poll" => /\ web'[t].at["poll"] = what
                             /\ job'[<<t, "poll">>] = j
           /\ th # "poll" => /\ web'[t].at["poll"] = web[t].at["poll"]
                             /\ job'[<<t, "poll">>] = PollJob(t)
<1>1. Wait(t, th, w, what, j) /\ Others(t, th, w) /\ UNCHANGED tables
  BY DEF Moves, Frame
<1>2. /\ \A u \in Tab : u # t => web'[u] = web[u]
      /\ web'[t] = [w EXCEPT !.at[th] = what]
      /\ \A c \in Client : c # <<t, th>> => job'[c] = job[c]
      /\ job'[<<t, th>>] = j
  BY <1>1, MovedTabs
<1>3. /\ web'[t].at = [w.at EXCEPT ![th] = what]
      /\ web'[t].local = w.local /\ web'[t].cam = w.cam /\ web'[t].src = w.src
  BY <1>2, NewPageParts
<1>4. w.at \in [Thread -> Waits] /\ "poll" \in Thread
      /\ \A u \in Tab : <<u, "poll">> \in Client
  BY TabFacts DEF TabState
<1>5. QED
  BY <1>1, <1>2, <1>3, <1>4 DEF Others, tables, PollJob

LEMMA MovesApart ==
    ASSUME TypeOK, GoodTabs, Known, NEW t \in Tab, Moved(t)
    PROVE  Known'
<1>1. PICK th \in Thread, w \in TabState, what \in Waits, j \in Job :
           Moves(t, th, w, what, j)
  BY DEF Moved
<1> DEFINE F == /\ sources' = sources /\ sessions' = sessions
                /\ \A u \in Tab : u # t => /\ web'[u] = web[u]
                                      /\ job'[<<u, "poll">>] = PollJob(u)
                /\ web'[t].src = w.src /\ web'[t].local = w.local
                /\ \A o \in Thread \ {th} : w.local[o] = web[t].local[o]
                /\ th = "poll" => job'[<<t, "poll">>] = j
                /\ th # "poll" => job'[<<t, "poll">>] = PollJob(t)
<1>2. F
  BY <1>1, MovedFacts
<1>3. ArmThread \subseteq Thread /\ "poll" \notin ArmThread
  BY BrowserAssumption DEF Thread
<1>4. ASSUME NEW u \in Tab, u # t PROVE Names(u)' = Names(u)
  <2>1. web'[u] = web[u] /\ job'[<<u, "poll">>] = PollJob(u)
    BY <1>2, <1>4
  <2>2. QED BY <2>1, NamesNext DEF Names
<1>5. \A s : Fresh(s) => \A u \in Tab : s \notin Names(u)
  <2>1. \A u \in Tab : PollJob(u).src \in KnownSources
    BY TabFacts DEF KnownSources, PollJob
  <2>2. \A u \in Tab : /\ web[u].src \in Remembered(u)
                       /\ \A o \in ArmThread : web[u].local[o] \in Remembered(u)
    BY <1>3 DEF Remembered
  <2>3. QED BY <2>1, <2>2 DEF Fresh, Names
<1>6. \A s \in Names(t)' : s \in Names(t) \cup {NoId} \/ Fresh(s)
  <2>1. CASE th = "poll"
    <3>1. PollMove(t, w, what, j)
      BY <1>1, <2>1 DEF Moves
    <3>2. \A o \in ArmThread : web'[t].local[o] = web[t].local[o]
      BY <1>2, <1>3, <2>1
    <3>3. QED
      BY <1>2, <2>1, <3>1, <3>2, NamesNext DEF PollMove, Names
  <2>2. CASE th # "poll"
    <3>1. SideMove(t, th, w)
      BY <1>1, <2>2 DEF Moves
    <3>2. \A o \in ArmThread : o # th => web'[t].local[o] = web[t].local[o]
      BY <1>2, <1>3
    <3>3. th \in ArmThread =>
             \/ web'[t].local[th] \in {web[t].local[th], NoId}
             \/ Fresh(web'[t].local[th])
      BY <1>2, <3>1 DEF SideMove
    <3>4. \A o \in ArmThread : web'[t].local[o] \in Names(t) \cup {NoId}
                               \/ Fresh(web'[t].local[o])
      BY <3>2, <3>3 DEF Names
    <3>5. web'[t].src \in Names(t) \cup {NoId}
      BY <1>2, <3>1 DEF SideMove, Names
    <3>6. job'[<<t, "poll">>].src \in Names(t)
      BY <1>2, <2>2 DEF Names
    <3>7. QED BY <3>4, <3>5, <3>6, NamesNext
  <2>3. QED BY <2>1, <2>2
<1>7. Apart'
  <2> SUFFICES ASSUME NEW d \in Tab, NEW e \in Tab, NEW s,
                      s \in Names(d)', s \in Names(e)', s # NoId
               PROVE  d = e
    BY DEF Apart
  <2>1. CASE d # t /\ e # t
    BY <1>4, <2>1 DEF Known, Apart
  <2>2. CASE d = t /\ e # t
    BY <1>4, <1>5, <1>6, <2>2 DEF Known, Apart
  <2>3. CASE d # t /\ e = t
    BY <1>4, <1>5, <1>6, <2>3 DEF Known, Apart
  <2>4. QED BY <2>1, <2>2, <2>3
<1>8. OneSourceOneSession'
  BY <1>2 DEF Known, OneSourceOneSession
<1>9. QED BY <1>7, <1>8 DEF Known

LEMMA MovesRefine ==
    ASSUME TypeOK, GoodTabs, Known, NEW t \in Tab, Moved(t)
    PROVE  Known' /\ Control!Next
<1>1. Known'
  BY MovesApart
<1> SUFFICES Control!Next
  BY <1>1
<1>2. PICK th \in Thread, w \in TabState, what \in Waits, j \in Job :
           Moves(t, th, w, what, j)
  BY DEF Moved
<1>3. /\ sources' = sources
      /\ \A u \in Tab : u # t => /\ web'[u] = web[u]
                                 /\ job'[<<u, "poll">>] = PollJob(u)
      /\ web'[t].src = w.src /\ web'[t].cam = w.cam
      /\ th = "poll" => /\ web'[t].at["poll"] = what
                        /\ job'[<<t, "poll">>] = j
      /\ th # "poll" => /\ web'[t].at["poll"] = web[t].at["poll"]
                        /\ job'[<<t, "poll">>] = PollJob(t)
  BY <1>2, MovedFacts
<1>4. CASE th = "poll"
  <2>1. PollMove(t, w, what, j)
    BY <1>2, <1>4 DEF Moves
  <2>2. t \in GrantedTabs' => what = "camera"
    BY <1>3, <1>4, <2>1, GrantedFormNext DEF GrantedJob, PollMove
  <2>3. what = "camera" \/ (w.cam /\ ~web[t].cam) => t \in GrantedTabs
    BY <2>1 DEF PollMove, GrantedTabs
  <2>4. CASE w.cam => web[t].cam
    <3>1. /\ web'[t].cam => web[t].cam
          /\ t \in GrantedTabs' => t \in GrantedTabs
          /\ web'[t].src \in {web[t].src, NoId}
          /\ job'[<<t, "poll">>].src \in {web[t].src, NoId}
      BY <1>3, <1>4, <2>1, <2>2, <2>3, <2>4 DEF PollMove
    <3>2. QED BY <1>3, <3>1, LetsGo
  <2>5. CASE w.cam /\ ~web[t].cam
    <3>1. t \in GrantedTabs /\ t \notin GrantedTabs'
      BY <2>1, <2>2, <2>3, <2>5 DEF PollMove
    <3>2. \A u \in Tab : u # t => (u \in GrantedTabs' <=> u \in GrantedTabs)
      BY <1>3, GrantedForm, GrantedFormNext
    <3>3. GrantedTabs' = GrantedTabs \ {t}
      BY <3>1, <3>2 DEF GrantedTabs
    <3>4. {u \in Tab : web'[u].cam} = {u \in Tab : web[u].cam} \cup {t}
      BY <1>3, <2>5
    <3>5. web'[t].src = web[t].src /\ job'[<<t, "poll">>].src = NoId
      BY <1>3, <1>4, <2>1, <2>5 DEF PollMove, NoJob
    <3>6. OrderedTabs' = OrderedTabs
      <4>1. PollJob(t).src = NoId
        BY <2>1, <2>5 DEF PollMove, NoJob
      <4>2. \A u \in Tab : u \in OrderedTabs' <=> u \in OrderedTabs
        BY ZenonT(60), <1>3, <3>5, <4>1, OrderedForm, OrderedFormNext DEF Live
      <4>3. QED BY <4>2 DEF OrderedTabs
    <3>7. QED BY <3>1, <3>3, <3>4, <3>6 DEF Control!TurnOn, Control!Next
  <2>6. QED BY <2>4, <2>5
<1>5. CASE th # "poll"
  <2>1. SideMove(t, th, w)
    BY <1>2, <1>5 DEF Moves
  <2>2. \A u \in Tab : u \in GrantedTabs' <=> u \in GrantedTabs
    BY <1>3, <1>5, GrantedForm, GrantedFormNext
  <2>3. CASE w.src \in {web[t].src, NoId}
    <3>1. /\ web'[t].cam => web[t].cam
          /\ t \in GrantedTabs' => t \in GrantedTabs
          /\ web'[t].src \in {web[t].src, NoId}
          /\ job'[<<t, "poll">>].src = PollJob(t).src
      BY <1>3, <1>5, <2>1, <2>2, <2>3 DEF SideMove
    <3>2. QED BY <1>3, <3>1, LetsGo
  <2>4. CASE w.cam = web[t].cam
    <3>1. GrantedTabs' = GrantedTabs
      BY <2>2 DEF GrantedTabs
    <3>2. QED BY <1>1, <1>3, <2>4, <3>1, OrderChanges
  <2>5. QED BY <2>1, <2>3, <2>4 DEF SideMove
<1>6. QED BY <1>1, <1>4, <1>5

LEMMA LeaveRefines ==
    ASSUME TypeOK, Known, NEW t \in Tab, Leave(t)
    PROVE  Known' /\ Control!Next
<1>1. /\ sources' = sources /\ sessions' = sessions
      /\ web' = [web EXCEPT ![t] = NewPage]
  BY DEF Leave, tables
<1>2. /\ web'[t] = NewPage /\ job'[<<t, "poll">>] = NoJob
      /\ \A u \in Tab : u # t => /\ web'[u] = web[u]
                                 /\ job'[<<u, "poll">>] = PollJob(u)
  BY <1>1, LeaveJobs DEF TypeOK
<1>3. /\ NewPage.src = NoId /\ ~NewPage.cam /\ NoJob.src = NoId
      /\ NewPage.at["poll"] = "idle" /\ NoJob.op = "none"
      /\ \A th \in ArmThread : NewPage.local[th] = NoId
  BY DEF NewPage, NoJob, Thread
<1>4. Names(t)' \subseteq {NoId}
  BY <1>2, <1>3, NamesNext
<1>5. ASSUME NEW u \in Tab, u # t PROVE Names(u)' = Names(u)
  <2>1. web'[u] = web[u] /\ job'[<<u, "poll">>] = PollJob(u)
    BY <1>2, <1>5
  <2>2. QED BY <2>1, NamesNext DEF Names
<1>6. Apart'
  <2> SUFFICES ASSUME NEW d \in Tab, NEW e \in Tab, NEW s,
                      s \in Names(d)', s \in Names(e)', s # NoId
               PROVE  d = e
    BY DEF Apart
  <2>1. d # t /\ e # t
    BY <1>4
  <2>2. QED BY <1>5, <2>1 DEF Known, Apart
<1>7. t \notin GrantedTabs'
  BY <1>2, <1>3, GrantedFormNext DEF GrantedJob
<1>8. Control!Next
  BY <1>1, <1>2, <1>3, <1>7, LetsGo
<1>9. QED
  BY <1>1, <1>6, <1>8 DEF Known, OneSourceOneSession

-----------------------------------------------------------------------------
(* A step of the server, of time and of a dashboard.                       *)

\* The pages and their requests know no source that they did not know.
LEMMA NothingLearnt ==
    ASSUME Apart, UNCHANGED web,
           \A t \in Tab : job'[<<t, "poll">>].src \in {PollJob(t).src, NoId}
    PROVE  Apart'
<1>1. ASSUME NEW t \in Tab PROVE Names(t)' \subseteq Names(t) \cup {NoId}
  <2>1. Names(t)' = {web[t].src, job'[<<t, "poll">>].src}
                    \cup {web[t].local[th] : th \in ArmThread}
    BY NamesNext
  <2>2. job'[<<t, "poll">>].src \in {PollJob(t).src, NoId}
    OBVIOUS
  <2>3. QED BY <2>1, <2>2 DEF Names
<1>2. QED BY <1>1 DEF Apart

\* What a handler makes of a poll: only its first transaction tells the page.
LEMMA PollAfter ==
    ASSUME TypeOK, NEW j \in Job, Transaction(j), Pending(j)
    PROVE  LET k == After(j) IN
           /\ GrantedJob(j) => GrantedJob(k)
           /\ GrantedJob(k) => \/ GrantedJob(j)
                               \/ /\ j.op = "poll" /\ j.at = "run"
                                  /\ Live(j.src) /\ k.src = j.src
<1>1. After(j).op = j.op /\ j \in JobRecord
  BY AfterType DEF Job, TypeOK
<1>2. CASE j.op # "poll"
  BY <1>1, <1>2 DEF GrantedJob
<1>3. CASE j.op = "poll" /\ j.at = "run"
  <2>1. After(j) = AfterUpdate(j) /\ ~GrantedJob(j)
    BY <1>3 DEF After, GrantedJob
  <2>2. CASE SourceWith(j.src) = {}
    <3>1. After(j).at = "done" /\ After(j).ans = "gone"
      BY <2>1, <2>2 DEF AfterUpdate, Reply, NoJob
    <3>2. QED BY <2>1, <3>1 DEF GrantedJob
  <2>3. CASE SourceWith(j.src) # {}
    <3>1. PICK r \in SourceWith(j.src) :
             r = CHOOSE q \in SourceWith(j.src) : TRUE
      BY <2>3
    <3>2. /\ After(j).at = "settings" /\ After(j).want = r.desired
          /\ After(j).src = j.src
      BY <1>1, <2>1, <2>3, <3>1 DEF AfterUpdate, JobRecord
    <3>3. r \in sources /\ r.id = j.src /\ r.id # NoId
      BY <3>1, ServerAssumption
         DEF SourceWith, TypeOK, ServerTypeOK, SourceRow
    <3>4. QED BY <1>3, <2>1, <3>2, <3>3 DEF GrantedJob, Live
  <2>4. QED BY <2>2, <2>3
<1>4. CASE j.op = "poll" /\ j.at = "settings"
  <2>1. After(j) = [Reply(j, "ok") EXCEPT !.rec = recording.desired]
    BY <1>4 DEF After
  <2>2. After(j).at = "done" /\ After(j).ans = "ok" /\ After(j).want = j.want
    BY <2>1 DEF Reply, NoJob
  <2>3. QED BY <1>1, <1>4, <2>2 DEF GrantedJob
<1>5. j.op = "poll" => j.at \in {"run", "settings"}
  BY DEF Transaction
<1>6. QED BY <1>2, <1>3, <1>4, <1>5

LEMMA AfterSource ==
    ASSUME TypeOK, NEW j \in Job, j.op \in {"none", "poll", "offer", "stop"}
    PROVE  After(j).src \in {j.src, NoId}
<1>1. CASE j.op = "poll"
  BY <1>1, AfterPoll
<1>2. CASE j.op # "poll"
  BY <1>2 DEF After, Reply, NoJob
<1>3. QED BY <1>1, <1>2

\* The first transaction of a poll gives no order and takes none.
LEMMA UpdateKeepsOrder ==
    ASSUME TypeOK, NEW s, NEW a, UpdateSource(s, a), UNCHANGED web,
           \A t \in Tab : job'[<<t, "poll">>].src = PollJob(t).src
    PROVE  OrderedTabs' = OrderedTabs
<1>1. sources' = {IF r.id = s /\ (r.actual # a \/ r.seen # "fresh")
                  THEN [r EXCEPT !.actual = a, !.seen = "fresh"]
                  ELSE r : r \in sources}
  BY DEF UpdateSource
<1>2. \A r \in sources : /\ [r EXCEPT !.actual = a, !.seen = "fresh"].id = r.id
                         /\ [r EXCEPT !.actual = a, !.seen = "fresh"].desired
                               = r.desired
  BY DEF TypeOK, ServerTypeOK, SourceRow
<1>3. \A x : (\E r \in sources' : r.desired = "live" /\ r.id = x)
             <=> (\E r \in sources : r.desired = "live" /\ r.id = x)
  <2> DEFINE g(r) == IF r.id = s /\ (r.actual # a \/ r.seen # "fresh")
                     THEN [r EXCEPT !.actual = a, !.seen = "fresh"] ELSE r
  <2>1. \A r \in sources : g(r).id = r.id /\ g(r).desired = r.desired
    BY <1>2
  <2>2. sources' = {g(r) : r \in sources}
    BY <1>1
  <2> HIDE DEF g
  <2>3. QED BY <2>1, <2>2
<1>4. \A t \in Tab : t \in OrderedTabs' <=> t \in OrderedTabs
  BY ZenonT(60), <1>3 DEF OrderedTabs, Holds, PollJob
<1>5. QED BY <1>4 DEF OrderedTabs

LEMMA ServerRefines ==
    ASSUME TypeOK, GoodTabs, Known, ServerStep, UNCHANGED web
    PROVE  Known' /\ Control!Next
<1>1. ASSUME NEW t \in Tab
      PROVE  /\ job'[<<t, "poll">>].src \in {PollJob(t).src, NoId}
             /\ PollJob(t).op \in {"none", "poll", "offer", "stop"}
  <2>1. PollJob(t).op \in {"none", "poll", "offer", "stop"}
    BY DEF GoodTabs, GoodPage
  <2>2. QED BY <2>1, ServerJobs, AfterSource
<1>2. Known'
  BY <1>1, ServerStepSingle, NothingLearnt DEF Known
<1>3. \A t \in Tab : web'[t].cam = web[t].cam
  OBVIOUS
<1>4. CASE GrantedTabs' = GrantedTabs
  BY <1>2, <1>3, <1>4, OrderChanges
<1>5. CASE GrantedTabs' # GrantedTabs
  <2>1. PICK t \in Tab : ~(t \in GrantedTabs' <=> t \in GrantedTabs)
    BY <1>5 DEF GrantedTabs
  <2>2. job'[<<t, "poll">>] # PollJob(t)
    BY <2>1, GrantedForm, GrantedFormNext
  <2>3. \A j \in orphans : ~ServeOrphan(j)
    BY <2>2 DEF ServeOrphan, PollJob
  <2>4. PICK c \in Client : Serve(c)
    BY <2>3 DEF ServerStep
  <2>5. /\ <<t, "poll">> \in Client /\ PollJob(t) \in Job
        /\ job' = [job EXCEPT ![c] = After(job[c])]
        /\ \A u \in Tab : <<u, "poll">> \in Client
    BY <2>4, TabFacts DEF Serve, PollJob
  <2>6. c = <<t, "poll">>
    BY <2>2, <2>5 DEF TypeOK, ServerTypeOK, PollJob
  <2>7. /\ Pending(PollJob(t)) /\ Transaction(PollJob(t))
        /\ job'[<<t, "poll">>] = After(PollJob(t))
        /\ \A u \in Tab : u # t => job'[<<u, "poll">>] = PollJob(u)
    BY <2>4, <2>5, <2>6 DEF Serve, TypeOK, ServerTypeOK, PollJob
  <2>8. /\ t \in GrantedTabs' /\ t \notin GrantedTabs
        /\ PollJob(t).op = "poll" /\ PollJob(t).at = "run"
        /\ Live(PollJob(t).src) /\ After(PollJob(t)).src = PollJob(t).src
    BY <2>1, <2>5, <2>7, PollAfter, GrantedForm, GrantedFormNext
  <2>9. GrantedTabs' = GrantedTabs \cup {t}
    <3>1. \A u \in Tab : u # t => (u \in GrantedTabs' <=> u \in GrantedTabs)
      BY <2>7, GrantedForm, GrantedFormNext
    <3>2. QED BY <2>8, <3>1 DEF GrantedTabs
  <2>10. t \in OrderedTabs
    BY <2>8, OrderedForm
  <2>11. UpdateSource(PollJob(t).src, PollJob(t).st)
    BY <2>7, <2>8 DEF Transaction
  <2>12. OrderedTabs' = OrderedTabs
    BY <2>7, <2>8, <2>11, UpdateKeepsOrder
  <2>13. {u \in Tab : web'[u].cam} = {u \in Tab : web[u].cam}
    OBVIOUS
  <2>14. Control!Grant(t)
    BY <2>9, <2>10, <2>12, <2>13 DEF Control!Grant
  <2>15. QED BY <1>2, <2>14 DEF Control!Next
<1>6. QED BY <1>4, <1>5

\* A step that is of no page and of no request of one.
LEMMA ElsewhereRefines ==
    ASSUME Known, OneSourceOneSession', UNCHANGED web,
           \A t \in Tab : job'[<<t, "poll">>] = PollJob(t)
    PROVE  Known' /\ Control!Next
<1>1. Known'
  BY NothingLearnt DEF Known
<1>2. \A t \in Tab : t \in GrantedTabs' <=> t \in GrantedTabs
  BY GrantedForm, GrantedFormNext
<1>3. GrantedTabs' = GrantedTabs
  BY <1>2 DEF GrantedTabs
<1>4. QED BY <1>1, <1>3, OrderChanges

LEMMA AgeRefines ==
    ASSUME Known, Age, UNCHANGED web
    PROVE  Known' /\ Control!Next
<1>1. job' = job
  BY DEF Age, AgeSource, AgeSession
<1>2. QED BY <1>1, AgeSingle, ElsewhereRefines DEF Known, PollJob

LEMMA DashboardRefines ==
    ASSUME TypeOK, Known, NEW o \in Operator,
           AskControl(o) \/ AskStatus(o) \/ AskAnswer(o) \/ OperatorAnswered(o)
    PROVE  Known' /\ Control!Next
<1>1. /\ UNCHANGED <<tables, orphans, web>>
      /\ \A t \in Tab : job'[<<t, "poll">>] = PollJob(t)
  BY DashboardJobs
<1>2. OneSourceOneSession'
  BY <1>1 DEF Known, OneSourceOneSession, tables
<1>3. QED BY <1>1, <1>2, ElsewhereRefines

-----------------------------------------------------------------------------
(* The refinement.                                                         *)

LEMMA InitRefines == Init => Known /\ Control!Init
<1> SUFFICES ASSUME Init PROVE Known /\ Control!Init
  OBVIOUS
<1>1. /\ web = [t \in Tab |-> NewPage] /\ sources = {} /\ OneSourceOneSession
      /\ \A t \in Tab : PollJob(t) = NoJob
  BY BrowserAssumption, ServerInitType
     DEF Init, ServerInit, PollJob, Thread
<1>2. /\ NewPage.src = NoId /\ ~NewPage.cam /\ NoJob.src = NoId
      /\ NewPage.at["poll"] = "idle" /\ NoJob.op = "none"
      /\ \A th \in ArmThread : NewPage.local[th] = NoId
  BY DEF NewPage, NoJob, Thread
<1>3. Apart
  BY <1>1, <1>2 DEF Apart, Names
<1>4. OrderedTabs = {}
  BY <1>1 DEF OrderedTabs
<1>5. GrantedTabs = {}
  BY <1>1, <1>2, GrantedForm DEF GrantedJob, GrantedTabs
<1>6. {t \in Tab : web[t].cam} = {}
  BY <1>1, <1>2
<1>7. QED BY <1>1, <1>3, <1>4, <1>5, <1>6 DEF Known, Control!Init

LEMMA StepRefines ==
    TypeOK /\ GoodTabs /\ Known /\ [Next]_vars
        => Known' /\ [Control!Next]_Control!vars
<1> SUFFICES ASSUME TypeOK, GoodTabs, Known, [Next]_vars
             PROVE  Known' /\ [Control!Next]_Control!vars
  OBVIOUS
<1>1. CASE Next
  BY <1>1, StepKinds, ServerRefines, AgeRefines, MovesRefine, LeaveRefines,
     DashboardRefines
<1>2. CASE UNCHANGED vars
  <2>1. UNCHANGED <<sources, sessions, job, web>>
    BY <1>2 DEF vars
  <2>2. Known'
    BY <2>1 DEF Known, OneSourceOneSession, Apart, Names, PollJob
  <2>3. UNCHANGED Control!vars
    BY <2>1 DEF Control!vars, OrderedTabs, GrantedTabs, Granted, Holds
  <2>4. QED BY <2>2, <2>3
<1>3. QED BY <1>1, <1>2

\* A page turns its camera on only in answer to an order that named its own
\* source, once for each time it learnt of one: whatever is armed, disarmed,
\* stopped, closed, lost or answered late in the functions of monitor-source.js.
THEOREM PagesObey == Spec => ImplementsCameraControl
<1>1. TypeOK /\ GoodTabs /\ [Next]_vars => TypeOK' /\ GoodTabs'
  BY GoodNext
<1>2. QED
  BY <1>1, GoodInit, InitRefines, StepRefines, PTL
     DEF Spec, ImplementsCameraControl, Control!Spec

=============================================================================
