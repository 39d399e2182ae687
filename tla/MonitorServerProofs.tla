------------------------- MODULE MonitorServerProofs -------------------------
(***************************************************************************)
(* What every transaction and every handler of MonitorServer preserves.    *)
(***************************************************************************)
EXTENDS MonitorServer, TLAPS

LEMMA NoJobType == NoJob \in Job
<1>1. NoJob \in JobRecord
  BY DEF NoJob, JobRecord, Stage, Desired, Actual, Mode, Answer
<1>2. QED
  BY <1>1 DEF NoJob, Job, Pending

LEMMA ReplyType ==
    ASSUME NEW j \in JobRecord, NEW a \in Answer
    PROVE  /\ Reply(j, a) \in Job
           /\ Reply(j, a).op = j.op
           /\ ~Pending(Reply(j, a))
<1>1. NoJob \in JobRecord
  BY NoJobType DEF Job
<1>2. "done" \in Stage
  BY DEF Stage
<1>3. Reply(j, a) \in JobRecord /\ Reply(j, a).op = j.op
      /\ Reply(j, a).at = "done"
  BY <1>1, <1>2 DEF Reply, JobRecord
<1>4. QED
  BY <1>3 DEF Job, Pending

\* The operations whose handler goes on after its first transaction.
Longer == {"poll", "status", "control", "record"}

\* A handler never changes which request it is answering: its reply reaches the
\* code that waits for it.
LEMMA AfterType ==
    ASSUME ServerTypeOK, NEW j \in Job
    PROVE  After(j) \in Job /\ After(j).op = j.op
<1>1. j \in JobRecord
  BY DEF Job
<1>2. SUFFICES /\ After(j) \in JobRecord
               /\ After(j).op = j.op
               /\ j.op \notin Longer => After(j) \in Job
  BY DEF Job, Longer
<1>3. \A a \in Answer : /\ Reply(j, a) \in JobRecord
                        /\ Reply(j, a) \in Job
                        /\ Reply(j, a).op = j.op
  BY <1>1, ReplyType DEF Job
<1>4. CASE j.op = "poll" /\ j.at = "run"
  <2>1. CASE SourceWith(j.src) = {}
    BY <1>3, <1>4, <2>1 DEF After, AfterUpdate, Answer, Longer
  <2>2. CASE SourceWith(j.src) # {}
    <3>1. PICK r \in SourceWith(j.src) :
             r = CHOOSE q \in SourceWith(j.src) : TRUE
      BY <2>2
    <3>2. r.desired \in Desired
      BY <3>1 DEF SourceWith, ServerTypeOK, SourceRow
    <3>3. QED
      BY <1>1, <1>4, <2>2, <3>1, <3>2
         DEF After, AfterUpdate, JobRecord, Stage, Longer
  <2>3. QED BY <2>1, <2>2
<1>5. CASE j.op \in {"heartbeat", "getAnswer", "watch", "postAnswer"}
  BY <1>3, <1>5 DEF After, AfterTouch, AfterGetAnswer, AfterWatch, Answer
<1>6. CASE j.op = "status"
  <2>1. CASE j.at = "find"
    BY <1>1, <1>6, <2>1 DEF After, AfterStatus, JobRecord, Answer, Stage, Longer
  <2>2. CASE j.at # "find"
    <3>1. Reply(j, j.ans) \in JobRecord /\ Reply(j, j.ans).op = j.op
      BY <1>1, <1>3 DEF JobRecord
    <3>2. FedSessions # {} =>
             (CHOOSE q \in FedSessions : TRUE).id \in SessionId
      BY DEF FedSessions, ServerTypeOK, SessionRow
    <3>3. QED
      BY <1>6, <2>2, <3>1, <3>2 DEF After, AfterStatus, JobRecord, Longer
  <2>3. QED BY <2>1, <2>2
<1>7. LiveSources # {} => (CHOOSE q \in LiveSources : TRUE).id \in SourceId
  BY DEF LiveSources, ServerTypeOK, SourceRow
<1>8. \A s \in SourceId :
         LET k == [j EXCEPT !.at = "set", !.src = s] IN
         k \in JobRecord /\ k.op = j.op
  BY <1>1 DEF JobRecord, Stage
<1>9. CASE j.op \in {"control", "record"}
  <2>1. After(j) = IF j.op = "control" THEN AfterControl(j)
                                       ELSE AfterRecord(j)
    BY <1>9 DEF After
  <2>2. \A st \in {"find", "settings"} :
           LET k == [j EXCEPT !.at = st] IN k \in JobRecord /\ k.op = j.op
    BY <1>1 DEF JobRecord, Stage
  <2>3. CASE j.op = "control"
    BY <1>3, <1>7, <1>8, <2>1, <2>3 DEF AfterControl, Answer, Longer
  <2>4. CASE j.op = "record"
    BY <1>3, <1>7, <1>8, <2>1, <2>2, <2>4 DEF AfterRecord, Answer, Longer
  <2>5. QED BY <1>9, <2>3, <2>4
<1>10. CASE j.op = "poll" /\ j.at = "settings"
  BY <1>1, <1>3, <1>10 DEF After, ServerTypeOK, JobRecord, Answer, Longer
<1>11. CASE j.op \notin {"heartbeat", "getAnswer", "watch", "postAnswer",
                         "status", "control", "record"}
            /\ ~(j.op = "poll" /\ j.at \in {"run", "settings"})
  BY <1>3, <1>11 DEF After, Answer
<1>12. QED
  BY <1>4, <1>5, <1>6, <1>9, <1>10, <1>11

\* Every transaction a request on its way can run leaves well-formed tables.
LEMMA TransactionType ==
    ASSUME ServerTypeOK, NEW j \in Job, Pending(j), Transaction(j)
    PROVE  /\ sources' \in SUBSET SourceRow
           /\ sessions' \in SUBSET SessionRow
           /\ recording' \in [desired : Mode, actual : Mode]
<1> USE DEF ServerTypeOK
<1>1. CASE j.op = "arm" /\ ArmSource(j.src)
  BY <1>1 DEF Job, ArmSource, SourceRow, Desired, Actual, Seen
<1>2. CASE GetActiveSource
  BY <1>2 DEF GetActiveSource, LiveSources
<1>3. CASE UpdateSource(j.src, j.st)
  <2>1. \A r \in SourceRow :
           [r EXCEPT !.actual = j.st, !.seen = "fresh"] \in SourceRow
    BY DEF SourceRow, Seen, Job, JobRecord
  <2>2. QED
    BY <1>3, <2>1 DEF UpdateSource
<1>4. CASE SetRecordingActual(j.rec)
  BY <1>4 DEF SetRecordingActual, Job, JobRecord
<1>5. CASE ClearSource(j.src)
  BY <1>5 DEF ClearSource, SourceWith, Mode
<1>6. CASE j.op = "offer" /\ CreateSession(j.ses)
  BY <1>6 DEF CreateSession, SessionRow, Job
<1>7. CASE TouchSession(j.ses)
  BY <1>7 DEF TouchSession, SessionRow
<1>8. CASE GetActiveSession
  BY <1>8 DEF GetActiveSession, FedSessions
<1>9. CASE ClearSession(j.ses)
  BY <1>9 DEF ClearSession, SessionWith
<1>10. CASE SetAnswer(j.ses, j.by)
  <2>1. \A r \in SessionRow :
           [r EXCEPT !.viewer = j.by, !.answered = TRUE, !.watched = "fresh"]
              \in SessionRow
    BY DEF SessionRow, Job, JobRecord
  <2>2. QED
    BY <1>10, <2>1 DEF SetAnswer
<1>11. CASE TouchViewer(j.ses, j.by)
  BY <1>11 DEF TouchViewer, SessionRow
<1>12. CASE SetDesired(j.src, j.want)
  BY <1>12 DEF SetDesired, SourceRow, Job, JobRecord
<1>13. CASE SetDesired(j.src, "armed")
  BY <1>13 DEF SetDesired, SourceRow, Desired
<1>14. CASE SetRecordingDesired(j.rec)
  BY <1>14 DEF SetRecordingDesired, Job, JobRecord
<1>15. QED
  BY <1>1, <1>2, <1>3, <1>4, <1>5, <1>6, <1>7, <1>8, <1>9, <1>10, <1>11,
     <1>12, <1>13, <1>14 DEF Transaction

\* The two tables keep at most one row whatever transaction runs.
LEMMA TransactionSingle ==
    ASSUME OneSourceOneSession, NEW j, Transaction(j)
    PROVE  OneSourceOneSession'
<1> USE DEF OneSourceOneSession
<1>1. CASE ArmSource(j.src) \/ ClearSource(j.src)
  BY <1>1 DEF ArmSource, ClearSource, SourceWith
<1>2. CASE GetActiveSource
  BY <1>2 DEF GetActiveSource, LiveSources
<1>3. CASE UpdateSource(j.src, j.st)
  BY ZenonT(60), <1>3 DEF UpdateSource
<1>4. CASE SetRecordingActual(j.rec) \/ SetRecordingDesired(j.rec)
  BY <1>4 DEF SetRecordingActual, SetRecordingDesired
<1>5. CASE CreateSession(j.ses)
  BY <1>5 DEF CreateSession
<1>6. CASE TouchSession(j.ses)
  BY <1>6 DEF TouchSession
<1>7. CASE GetActiveSession
  BY <1>7 DEF GetActiveSession, FedSessions
<1>8. CASE ClearSession(j.ses)
  BY <1>8 DEF ClearSession, SessionWith
<1>9. CASE SetAnswer(j.ses, j.by)
  BY <1>9 DEF SetAnswer
<1>10. CASE TouchViewer(j.ses, j.by)
  BY <1>10 DEF TouchViewer
<1>11. CASE SetDesired(j.src, j.want)
  BY <1>11 DEF SetDesired
<1>12. CASE SetDesired(j.src, "armed")
  BY <1>12 DEF SetDesired
<1>13. QED
  BY <1>1, <1>2, <1>3, <1>4, <1>5, <1>6, <1>7, <1>8, <1>9, <1>10, <1>11,
     <1>12 DEF Transaction

\* So do the steps of time.
LEMMA AgeSingle ==
    ASSUME OneSourceOneSession, Age PROVE OneSourceOneSession'
BY DEF OneSourceOneSession, Age, AgeSource, AgeSession

LEMMA AgeType ==
    ASSUME ServerTypeOK, Age PROVE ServerTypeOK'
<1>1. CASE \E r \in sources : AgeSource(r)
  <2>1. PICK r \in sources : AgeSource(r)
    BY <1>1
  <2>2. [r EXCEPT !.seen = Older(r.seen)] \in SourceRow
    BY <2>1 DEF ServerTypeOK, SourceRow, Older, Seen
  <2>3. QED
    BY <2>1, <2>2 DEF AgeSource, ServerTypeOK
<1>2. CASE \E r \in sessions : AgeSession(r)
  <2>1. PICK r \in sessions : AgeSession(r)
    BY <1>2
  <2>2. /\ [r EXCEPT !.fed = "expired"] \in SessionRow
        /\ [r EXCEPT !.watched = "expired"] \in SessionRow
    BY <2>1 DEF ServerTypeOK, SessionRow
  <2>3. QED
    BY <2>1, <2>2 DEF AgeSession, ServerTypeOK
<1>3. QED BY <1>1, <1>2 DEF Age

\* A step of a worker thread keeps the types, and the kind of the request of
\* every client.
LEMMA ServerStepType ==
    ASSUME ServerTypeOK, ServerStep
    PROVE  ServerTypeOK' /\ \A c \in Client : job'[c].op = job[c].op
<1>1. CASE \E c \in Client : Serve(c)
  <2>1. PICK c \in Client : Serve(c)
    BY <1>1
  <2>2. job[c] \in Job /\ Pending(job[c]) /\ Transaction(job[c])
    BY <2>1 DEF Serve, ServerTypeOK
  <2>3. After(job[c]) \in Job /\ After(job[c]).op = job[c].op
    BY <2>2, AfterType
  <2>4. QED
    BY <2>1, <2>2, <2>3, TransactionType DEF Serve, ServerTypeOK
<1>2. CASE \E j \in orphans : ServeOrphan(j)
  <2>1. PICK j \in orphans : ServeOrphan(j)
    BY <1>2
  <2>2. j \in Job /\ Pending(j) /\ Transaction(j)
    BY <2>1 DEF ServeOrphan, ServerTypeOK
  <2>3. After(j) \in Job
    BY <2>2, AfterType
  <2>4. QED
    BY <2>1, <2>2, <2>3, TransactionType DEF ServeOrphan, ServerTypeOK
<1>3. QED BY <1>1, <1>2 DEF ServerStep

LEMMA ServerStepSingle ==
    ASSUME OneSourceOneSession, ServerStep PROVE OneSourceOneSession'
BY TransactionSingle DEF ServerStep, Serve, ServeOrphan

LEMMA ServerInitType == ServerInit => ServerTypeOK /\ OneSourceOneSession
BY NoJobType DEF ServerInit, ServerTypeOK, OneSourceOneSession, Mode

-----------------------------------------------------------------------------
(* What the clients send, and what they leave behind.                      *)

LEMMA RequestTypes ==
    /\ \A s \in SourceId : ArmRequest(s) \in Job
    /\ \A s \in SourceId \cup {NoId}, a \in Actual, r \in Mode :
          PollRequest(s, a, r) \in Job
    /\ \A s \in SourceId : DisarmRequest(s) \in Job
    /\ \A x \in SessionId : /\ OfferRequest(x) \in Job
                            /\ HeartbeatRequest(x) \in Job
                            /\ GetAnswerRequest(x) \in Job
                            /\ StopRequest(x) \in Job
    /\ StatusRequest \in Job
    /\ \A w \in Desired : ControlRequest(w) \in Job
    /\ \A r \in Mode : RecordRequest(r) \in Job
    /\ \A x \in SessionId, c \in Client : /\ PostAnswerRequest(x, c) \in Job
                                         /\ WatchRequest(x, c) \in Job
<1>1. NoJob \in JobRecord
  BY NoJobType DEF Job
<1>2. {"run", "find", "check"} \subseteq Stage /\ Op \subseteq Op \cup {"none"}
  BY DEF Stage
<1>3. \A s \in SourceId : ArmRequest(s) \in Job /\ DisarmRequest(s) \in Job
  BY <1>1, <1>2 DEF ArmRequest, DisarmRequest, Job, JobRecord, Op
<1>4. \A s \in SourceId \cup {NoId}, a \in Actual, r \in Mode :
         PollRequest(s, a, r) \in Job
  BY <1>1, <1>2 DEF PollRequest, Job, JobRecord, Op
<1>5. \A x \in SessionId : /\ OfferRequest(x) \in Job
                          /\ HeartbeatRequest(x) \in Job
                          /\ GetAnswerRequest(x) \in Job
                          /\ StopRequest(x) \in Job
  BY ZenonT(60), <1>1, <1>2 DEF OfferRequest, HeartbeatRequest, GetAnswerRequest,
     StopRequest, Job, JobRecord, Op
<1>6. /\ StatusRequest \in Job
      /\ \A w \in Desired : ControlRequest(w) \in Job
      /\ \A r \in Mode : RecordRequest(r) \in Job
  BY ZenonT(60), <1>1, <1>2 DEF StatusRequest, ControlRequest, RecordRequest, Job,
     JobRecord, Op
<1>7. \A x \in SessionId, c \in Client : /\ PostAnswerRequest(x, c) \in Job
                                       /\ WatchRequest(x, c) \in Job
  BY <1>1, <1>2 DEF PostAnswerRequest, WatchRequest, Job, JobRecord, Op
<1>8. QED BY <1>3, <1>4, <1>5, <1>6, <1>7

LEMMA GiveUpType ==
    ASSUME ServerTypeOK, NEW c \in Client, GiveUp(job[c])
    PROVE  orphans' \in SUBSET {j \in Job : Pending(j)}
BY DEF GiveUp, ServerTypeOK

=============================================================================
