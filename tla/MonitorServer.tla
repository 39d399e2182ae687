---------------------------- MODULE MonitorServer ----------------------------
(***************************************************************************)
(* The signalling server of the live monitor: the rows of the SQLite       *)
(* tables monitor_sources, monitor_sessions and                            *)
(* monitor_recording_settings, and the HTTP handlers of app/monitor.py     *)
(* that read and write them.                                               *)
(*                                                                         *)
(* A client has at most one request outstanding, kept in job[c].  A        *)
(* handler is a sequence of SQLite transactions, each on a connection of   *)
(* its own (app/database.py): one step of the model is one transaction,    *)
(* and the steps of different requests interleave, as the four threads of  *)
(* the gunicorn worker do.  A request its client gave up on still runs on  *)
(* the server: it moves to orphans.                                        *)
(*                                                                         *)
(* Time is abstracted to the thresholds the code compares with.  Every     *)
(* lease only says on which side of its thresholds it is, and Age moves    *)
(* one lease over one threshold.                                           *)
(***************************************************************************)
EXTENDS Naturals, FiniteSets

CONSTANTS
    Client,      \* the source devices and the dashboard pages
    SourceId,    \* the UUIDs a device can draw when it is armed
    SessionId,   \* the UUIDs it can draw when it starts a transmission
    RecMode,     \* the modes of local recording besides "off"
    NoId,        \* SQL NULL, Java null
    MaxOrphans   \* bound on the abandoned requests still running

ASSUME ServerAssumption ==
    /\ NoId \notin Client \cup SourceId \cup SessionId
    /\ "off" \notin RecMode
    /\ MaxOrphans \in Nat

VARIABLES
    sources,     \* monitor_sources
    sessions,    \* monitor_sessions
    recording,   \* the row of monitor_recording_settings
    job,         \* the request each client waits for
    orphans      \* requests whose client no longer waits

serverVars == <<sources, sessions, recording, job, orphans>>

-----------------------------------------------------------------------------
Desired == {"armed", "live"}
Actual  == {"armed", "starting", "live", "error"}
Mode    == RecMode \cup {"off"}

\* last_seen_at: younger than 10 s, younger than 30 s, older.
Seen == {"fresh", "aging", "expired"}

SourceRow == [id : SourceId, desired : Desired, actual : Actual, seen : Seen]

\* source_updated_at has one threshold (15 s) and viewer_updated_at another
\* (12 s); answer_json is NULL exactly when the viewer is.
SessionRow == [id       : SessionId,
               viewer   : Client \cup {NoId},
               answered : BOOLEAN,
               fed      : {"fresh", "expired"},
               watched  : {"never", "fresh", "expired"}]

Op == {"arm", "poll", "disarm", "offer", "heartbeat", "getAnswer", "stop",
       "status", "control", "record", "postAnswer", "watch"}

Stage == {"idle", "run", "find", "check", "set", "settings", "read", "done"}

Answer == {"none", "ok", "gone", "conflict", "active", "inactive", "answer"}

JobRecord ==
       [op   : Op \cup {"none"},
        at   : Stage,
        by   : Client \cup {NoId},      \* the user of the request
        src  : SourceId \cup {NoId},
        ses  : SessionId \cup {NoId},
        want : Desired,                 \* desired_state, in or out
        st   : Actual,                  \* actual_state, in or out
        rec  : Mode,                    \* recording mode, in or out
        ans  : Answer]

Pending(j) == j.at \notin {"idle", "done"}

\* An arming and an offer on their way always carry the UUID they create.
Job == {j \in JobRecord :
           Pending(j) => /\ j.op = "arm" => j.src \in SourceId
                         /\ j.op = "offer" => j.ses \in SessionId}

NoJob == [op |-> "none", at |-> "idle", by |-> NoId, src |-> NoId,
          ses |-> NoId, want |-> "armed", st |-> "armed", rec |-> "off",
          ans |-> "none"]

ServerTypeOK ==
    /\ sources \in SUBSET SourceRow
    /\ sessions \in SUBSET SessionRow
    /\ recording \in [desired : Mode, actual : Mode]
    /\ job \in [Client -> Job]
    /\ orphans \in SUBSET {j \in Job : Pending(j)}

-----------------------------------------------------------------------------
(* Requests.                                                               *)

ArmRequest(s)       == [NoJob EXCEPT !.op = "arm", !.at = "run", !.src = s]
PollRequest(s, a, m) ==
    [NoJob EXCEPT !.op = "poll", !.at = "run", !.src = s, !.st = a, !.rec = m]
DisarmRequest(s)    == [NoJob EXCEPT !.op = "disarm", !.at = "run", !.src = s]
OfferRequest(x)     == [NoJob EXCEPT !.op = "offer", !.at = "run", !.ses = x]
HeartbeatRequest(x) == [NoJob EXCEPT !.op = "heartbeat", !.at = "run", !.ses = x]
GetAnswerRequest(x) == [NoJob EXCEPT !.op = "getAnswer", !.at = "run", !.ses = x]
StopRequest(x)      == [NoJob EXCEPT !.op = "stop", !.at = "run", !.ses = x]
StatusRequest       == [NoJob EXCEPT !.op = "status", !.at = "find"]
ControlRequest(w)   == [NoJob EXCEPT !.op = "control", !.at = "find", !.want = w]
RecordRequest(m)    == [NoJob EXCEPT !.op = "record", !.at = "check", !.rec = m]
PostAnswerRequest(x, v) ==
    [NoJob EXCEPT !.op = "postAnswer", !.at = "run", !.ses = x, !.by = v]
WatchRequest(x, v) ==
    [NoJob EXCEPT !.op = "watch", !.at = "run", !.ses = x, !.by = v]

\* What the client is told.
Reply(j, a) ==
    [NoJob EXCEPT !.op = j.op, !.at = "done", !.want = j.want, !.ans = a]

-----------------------------------------------------------------------------
(* The queries.                                                            *)

SourceWith(s)  == {r \in sources : r.id = s}
SessionWith(x) == {r \in sessions : r.id = x}

\* What get_active_monitor_source leaves, and the row it returns.
LiveSources  == {r \in sources : r.seen # "expired"}
\* What get_active_monitor_session leaves.
FedSessions  == {r \in sessions : r.fed # "expired"}

\* (Forms ending in _Wrong are not the code: they are plausible slips in the
\* definition that follows, which the properties are tested against.)
Abandoned_Wrong(r) == r.answered /\ r.watched = "never"

\* The session touch_monitor_session drops although its source is alive: a
\* viewer answered and has not been seen for twelve seconds.
Abandoned(r) == r.answered /\ r.watched # "fresh"

-----------------------------------------------------------------------------
(* The transactions of app/database.py.  Each leaves orphans and job to    *)
(* the step that runs it.                                                  *)

ArmSource_Wrong(s) ==
    /\ sources' = sources \cup {[id |-> s, desired |-> "armed",
                                 actual |-> "armed", seen |-> "fresh"]}
    /\ sessions' = {}
    /\ UNCHANGED recording

ArmSource(s) ==
    /\ sources' = {[id |-> s, desired |-> "armed", actual |-> "armed",
                    seen |-> "fresh"]}
    /\ sessions' = {}
    /\ UNCHANGED recording

GetActiveSource_Wrong ==
    /\ sources' = LiveSources
    /\ UNCHANGED <<sessions, recording>>

GetActiveSource ==
    /\ sources' = LiveSources
    /\ sessions' = IF LiveSources = {} THEN {} ELSE sessions
    /\ UNCHANGED recording

\* The heartbeat is throttled: a row that says the same and is younger than
\* ten seconds is not written.
UpdateSource(s, a) ==
    /\ sources' = {IF r.id = s /\ (r.actual # a \/ r.seen # "fresh")
                   THEN [r EXCEPT !.actual = a, !.seen = "fresh"]
                   ELSE r : r \in sources}
    /\ UNCHANGED <<sessions, recording>>

SetRecordingActual(m) ==
    /\ recording' = [recording EXCEPT !.actual = m]
    /\ UNCHANGED <<sources, sessions>>

SetDesired(s, w) ==
    /\ sources' = {IF r.id = s THEN [r EXCEPT !.desired = w] ELSE r
                   : r \in sources}
    /\ sessions' = IF w = "armed" THEN {} ELSE sessions
    /\ UNCHANGED recording

SetRecordingDesired(m) ==
    /\ recording' = [recording EXCEPT !.desired = m]
    /\ UNCHANGED <<sources, sessions>>

ClearSource(s) ==
    IF SourceWith(s) = {}
    THEN UNCHANGED <<sources, sessions, recording>>
    ELSE /\ sources' = sources \ SourceWith(s)
         /\ sessions' = {}
         /\ recording' = [desired |-> "off", actual |-> "off"]

CreateSession_Wrong(x) ==
    /\ sessions' = sessions \cup {[id |-> x, viewer |-> NoId,
                                   answered |-> FALSE, fed |-> "fresh",
                                   watched |-> "never"]}
    /\ UNCHANGED <<sources, recording>>

CreateSession(x) ==
    /\ sessions' = {[id |-> x, viewer |-> NoId, answered |-> FALSE,
                     fed |-> "fresh", watched |-> "never"]}
    /\ UNCHANGED <<sources, recording>>

GetActiveSession ==
    /\ sessions' = FedSessions
    /\ UNCHANGED <<sources, recording>>

TouchSession(x) ==
    /\ sessions' = {IF r.id = x THEN [r EXCEPT !.fed = "fresh"] ELSE r
                    : r \in {q \in sessions : ~(q.id = x /\ Abandoned(q))}}
    /\ UNCHANGED <<sources, recording>>

\* Any administrator's answer replaces the one before it.
SetAnswer(x, v) ==
    /\ sessions' = {IF r.id = x
                    THEN [r EXCEPT !.viewer = v, !.answered = TRUE,
                                   !.watched = "fresh"]
                    ELSE r : r \in sessions}
    /\ UNCHANGED <<sources, recording>>

TouchViewer(x, v) ==
    /\ sessions' = {IF r.id = x /\ r.viewer = v /\ r.answered
                    THEN [r EXCEPT !.watched = "fresh"]
                    ELSE r : r \in sessions}
    /\ UNCHANGED <<sources, recording>>

ClearSession(x) ==
    /\ sessions' = sessions \ SessionWith(x)
    /\ UNCHANGED <<sources, recording>>

-----------------------------------------------------------------------------
(* The handlers of app/monitor.py: the transaction request j runs next,    *)
(* and what j is once it has run.                                          *)

Transaction(j) ==
    \/ j.op = "arm" /\ ArmSource(j.src)
    \/ j.op = "poll" /\ j.at = "run" /\ UpdateSource(j.src, j.st)
    \/ j.op = "poll" /\ j.at = "settings" /\ SetRecordingActual(j.rec)
    \/ j.op = "disarm" /\ ClearSource(j.src)
    \/ j.op = "offer" /\ CreateSession(j.ses)
    \/ j.op = "heartbeat" /\ TouchSession(j.ses)
    \/ j.op = "getAnswer" /\ GetActiveSession
    \/ j.op = "stop" /\ ClearSession(j.ses)
    \/ j.op = "postAnswer" /\ SetAnswer(j.ses, j.by)
    \/ j.op = "watch" /\ TouchViewer(j.ses, j.by)
    \/ j.op = "status" /\ j.at = "find" /\ GetActiveSource
    \/ j.op = "status" /\ j.at = "read" /\ GetActiveSession
    \/ j.op \in {"control", "record"} /\ j.at \in {"check", "find"}
       /\ GetActiveSource
    \/ j.op = "control" /\ j.at = "set" /\ SetDesired(j.src, j.want)
    \/ j.op = "record" /\ j.at = "set" /\ SetDesired(j.src, "armed")
    \/ j.op = "record" /\ j.at = "settings" /\ SetRecordingDesired(j.rec)

AfterUpdate_Wrong(j) ==
    IF sources = {} THEN Reply(j, "gone")
    ELSE [j EXCEPT !.at = "settings",
                   !.want = (CHOOSE r \in sources : TRUE).desired]

\* update_monitor_source selects the row back: no row is 404.
AfterUpdate(j) ==
    IF SourceWith(j.src) = {} THEN Reply(j, "gone")
    ELSE [j EXCEPT !.at = "settings",
                   !.want = (CHOOSE r \in SourceWith(j.src) : TRUE).desired]

AfterTouch(j) ==
    Reply(j, IF \E r \in SessionWith(j.ses) : ~Abandoned(r)
             THEN "active" ELSE "inactive")

AfterGetAnswer(j) ==
    Reply(j, IF \E r \in FedSessions : r.id = j.ses /\ r.answered
             THEN "answer"
             ELSE IF \E r \in FedSessions : r.id = j.ses
                  THEN "active" ELSE "inactive")

AfterWatch_Wrong(j) ==     \* whoever has answered
    Reply(j, IF \E r \in SessionWith(j.ses) : r.answered
             THEN "active" ELSE "inactive")

AfterWatch(j) ==
    Reply(j, IF \E r \in SessionWith(j.ses) : r.viewer = j.by /\ r.answered
             THEN "active" ELSE "inactive")

\* monitor_status: the source first, then the session.  Of the source the page
\* only needs whether there is one ("gone") and whether its camera is off
\* ("inactive"): the three branches of loadMonitorStatus.
AfterStatus(j) ==
    IF j.at = "find"
    THEN [j EXCEPT !.at = "read",
             !.ans = IF LiveSources = {} THEN "gone"
                     ELSE IF \E r \in LiveSources :
                                /\ r.actual \notin {"error", "starting"}
                                /\ r.desired = "armed"
                          THEN "inactive" ELSE "active"]
    ELSE [Reply(j, j.ans) EXCEPT
             !.ses = IF FedSessions = {} THEN NoId
                     ELSE (CHOOSE q \in FedSessions : TRUE).id]

\* set_monitor_source_desired_state: find the source, then update it by id
\* on another connection; an update of no row is 404.
AfterControl(j) ==
    IF j.at = "find"
    THEN IF LiveSources = {} THEN Reply(j, "gone")
         ELSE [j EXCEPT !.at = "set",
                        !.src = (CHOOSE q \in LiveSources : TRUE).id]
    ELSE Reply(j, IF SourceWith(j.src) = {} THEN "gone" ELSE "ok")

\* monitor_recording_control: check the source, order it armed whatever that
\* returns, then store the mode.
AfterRecord(j) ==
    CASE j.at = "check" ->
            IF LiveSources = {} THEN Reply(j, "gone")
            ELSE LET r == CHOOSE q \in LiveSources : TRUE IN
                 IF j.rec # "off" /\ (\/ r.desired = "live"
                                      \/ r.actual \in {"starting", "live"})
                 THEN Reply(j, "conflict")
                 ELSE [j EXCEPT !.at = "find"]
      [] j.at = "find" ->
            IF LiveSources = {} THEN [j EXCEPT !.at = "settings"]
            ELSE [j EXCEPT !.at = "set",
                           !.src = (CHOOSE q \in LiveSources : TRUE).id]
      [] j.at = "set" -> [j EXCEPT !.at = "settings"]
      [] OTHER -> Reply(j, "ok")

After(j) ==
    CASE j.op = "poll" /\ j.at = "run" -> AfterUpdate(j)
      [] j.op = "poll" /\ j.at = "settings" ->
            [Reply(j, "ok") EXCEPT !.rec = recording.desired]
      [] j.op = "heartbeat" -> AfterTouch(j)
      [] j.op = "getAnswer" -> AfterGetAnswer(j)
      [] j.op = "watch" -> AfterWatch(j)
      [] j.op = "postAnswer" ->
            Reply(j, IF SessionWith(j.ses) = {} THEN "gone" ELSE "ok")
      [] j.op = "status" -> AfterStatus(j)
      [] j.op = "control" -> AfterControl(j)
      [] j.op = "record" -> AfterRecord(j)
      [] OTHER -> Reply(j, "ok")

-----------------------------------------------------------------------------
(* Steps of the server and of the network.                                 *)

ServerInit ==
    /\ sources = {}
    /\ sessions = {}
    /\ recording = [desired |-> "off", actual |-> "off"]
    /\ job = [c \in Client |-> NoJob]
    /\ orphans = {}

\* A worker thread runs the next transaction of the request of c.
Serve(c) ==
    /\ Pending(job[c])
    /\ Transaction(job[c])
    /\ job' = [job EXCEPT ![c] = After(job[c])]
    /\ UNCHANGED orphans

ServeOrphan(j) ==
    /\ Transaction(j)
    /\ orphans' = (orphans \ {j}) \cup {k \in {After(j)} : Pending(k)}
    /\ UNCHANGED job

\* The client of request j stops waiting.  A request that has not been
\* answered was lost on its way, or goes on as an orphan.
GiveUp(j) ==
    \/ UNCHANGED orphans
    \/ /\ Pending(j)
       /\ Cardinality(orphans) < MaxOrphans
       /\ orphans' = orphans \cup {j}

Older(seen) == IF seen = "fresh" THEN "aging" ELSE "expired"

AgeSource(r) ==
    /\ r.seen # "expired"
    /\ sources' = (sources \ {r}) \cup {[r EXCEPT !.seen = Older(r.seen)]}
    /\ UNCHANGED <<sessions, recording, job, orphans>>

AgeSession(r) ==
    /\ \/ /\ r.fed = "fresh"
          /\ sessions' = (sessions \ {r}) \cup {[r EXCEPT !.fed = "expired"]}
       \/ /\ r.watched = "fresh"
          /\ sessions' = (sessions \ {r}) \cup {[r EXCEPT !.watched = "expired"]}
    /\ UNCHANGED <<sources, recording, job, orphans>>

ServerStep ==
    \/ \E c \in Client : Serve(c)
    \/ \E j \in orphans : ServeOrphan(j)

Age ==
    \/ \E r \in sources : AgeSource(r)
    \/ \E r \in sessions : AgeSession(r)

\* The UUIDs nothing remembers: a drawn UUID never collides with a known one.
KnownSources ==
    {r.id : r \in sources} \cup {job[c].src : c \in Client}
    \cup {j.src : j \in orphans}
KnownSessions ==
    {r.id : r \in sessions} \cup {job[c].ses : c \in Client}
    \cup {j.ses : j \in orphans}

-----------------------------------------------------------------------------
\* At most one source is armed and at most one transmission is offered: every
\* arming and every offer replaces what was there, whatever request of another
\* device or of an abandoned call runs in between.
OneSourceOneSession ==
    /\ \A q, r \in sources : q = r
    /\ \A q, r \in sessions : q = r

=============================================================================
