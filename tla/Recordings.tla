------------------------------ MODULE Recordings ------------------------------
(***************************************************************************)
(* The recordings of the live monitor: the device that uploads segments    *)
(* and retries (MonitorService.java), the handlers that store, list, play, *)
(* delete and expire them, and the thread that looks for speech in them    *)
(* (app/monitor.py, app/database.py, app/speech_activity.py).              *)
(*                                                                         *)
(* A row, its file and the copy prepared for browsers live in three        *)
(* places, and a handler changes them one after the other while the other  *)
(* threads of the server run.  The queue of analyses is in memory.  The    *)
(* watchdog's helper processes call initialize_database on the same        *)
(* database, at any moment.                                                *)
(***************************************************************************)
EXTENDS Naturals, Sequences, FiniteSets

CONSTANTS
    Rec,          \* the names an upload can draw; one is drawn once
    Segment,      \* what the device has recorded
    Thread,       \* the threads that serve requests
    Nobody,       \* no recording, no row
    MaxQueue,     \* bound: analyses waiting at the same time
    MaxRestarts   \* bound: restarts of the server

VARIABLES
    row,          \* monitor_recordings
    file,         \* MONITOR_RECORDING_DIR
    copies,       \* MONITOR_BROWSER_AUDIO_DIR
    aged,         \* recordings that ended before the retention's cutoff
    drawn,        \* names drawn so far
    queue,        \* SPEECH_ANALYSIS_QUEUE
    worker,       \* run_speech_analysis_worker
    ffmpeg,       \* shutil.which("ffmpeg") finds it
    serving,      \* the request each thread serves
    kept,         \* segments in the device's recording-queue directory
    stored,       \* segments that have had a row
    restarts

diskVars   == <<row, file, copies, aged, drawn, stored>>
workerVars == <<queue, worker, ffmpeg>>
recordingVars == <<row, file, copies, aged, drawn, queue, worker, ffmpeg,
                   serving, kept, stored, restarts>>

-----------------------------------------------------------------------------
Status == {"pending", "processing", "complete", "unavailable", "failed"}

\* Browsers need a copy of an audio recording in an mp4 container.
Row == [segment : Segment, audio : BOOLEAN, speech : Status]

Step == {"save", "row", "find", "prune", "unlink", "list", "schedule",
         "play", "convert", "check", "reset"}

Idle == [op |-> "none", at |-> "none", rec |-> Nobody, todo |-> {},
         segment |-> Nobody]
Resting == [at |-> "get", rec |-> Nobody, result |-> "pending"]

TypeOK ==
    /\ row \in [Rec -> Row \cup {Nobody}]
    /\ file \in [Rec -> {"absent", "part", "final"}]
    /\ copies \subseteq Rec
    /\ aged \subseteq Rec
    /\ drawn \subseteq Rec
    /\ queue \in Seq(Rec)
    /\ worker \in [at : {"get", "claim", "detect", "write", "dead"},
                   rec : Rec \cup {Nobody}, result : Status]
    /\ ffmpeg \in BOOLEAN
    /\ serving \in [Thread ->
          [op   : {"none", "upload", "list", "play", "reanalyze", "delete"},
           at   : Step \cup {"none"}, rec : Rec \cup {Nobody},
           todo : SUBSET Rec, segment : Segment \cup {Nobody}]]
    /\ kept \subseteq Segment
    /\ stored \subseteq Segment
    /\ restarts \in Nat

Init ==
    /\ row = [r \in Rec |-> Nobody]
    /\ file = [r \in Rec |-> "absent"]
    /\ copies = {} /\ aged = {} /\ drawn = {} /\ stored = {}
    /\ queue = <<>>
    /\ worker = Resting
    /\ ffmpeg \in BOOLEAN
    /\ serving = [t \in Thread |-> Idle]
    /\ kept = Segment
    /\ restarts = 0

-----------------------------------------------------------------------------
At(t, op, at) == serving[t].op = op /\ serving[t].at = at

Ask(t, s) == serving[t] = Idle /\ serving' = [serving EXCEPT ![t] = s]
Go(t, at) == serving' = [serving EXCEPT ![t].at = at]
Answer(t) == serving' = [serving EXCEPT ![t] = Idle]

Exists(r) == row[r] # Nobody
SetSpeech(r, status) ==
    row' = IF Exists(r) THEN [row EXCEPT ![r].speech = status] ELSE row

\* schedule_speech_analysis, with the row as the handler read it.
Schedules(speech) == speech = "pending" \/ (speech = "unavailable" /\ ffmpeg)
Enqueue(r, wanted) ==
    /\ queue' = IF wanted THEN Append(queue, r) ELSE queue
    /\ Len(queue') <= MaxQueue
    /\ UNCHANGED <<worker, ffmpeg>>

-----------------------------------------------------------------------------
(* monitor_upload_recording.  The device sends a segment until it hears    *)
(* that it was stored, and may do so while an earlier request, for whose   *)
(* answer it no longer waits, is served.                                   *)

\* Wrong: the device deletes its file when it sends it.
Upload_Wrong(t) ==
    \E s \in kept, r \in Rec \ drawn :
        /\ Ask(t, [Idle EXCEPT !.op = "upload", !.at = "save", !.rec = r,
                               !.segment = s])
        /\ drawn' = drawn \cup {r}
        /\ file' = [file EXCEPT ![r] = "part"]
        /\ kept' = kept \ {s}
        /\ UNCHANGED <<row, copies, aged, stored, workerVars, restarts>>

Upload(t) ==
    \E s \in kept, r \in Rec \ drawn :
        /\ Ask(t, [Idle EXCEPT !.op = "upload", !.at = "save", !.rec = r,
                               !.segment = s])
        /\ drawn' = drawn \cup {r}
        /\ file' = [file EXCEPT ![r] = "part"]
        /\ UNCHANGED <<row, copies, aged, stored, workerVars, kept, restarts>>

\* Wrong: what could not be saved is recorded all the same.
UploadSave_Wrong(t) ==
    LET r == serving[t].rec IN
    /\ At(t, "upload", "save")
    /\ file' \in {[file EXCEPT ![r] = "final"], [file EXCEPT ![r] = "absent"]}
    /\ Go(t, "row")
    /\ UNCHANGED <<row, copies, aged, drawn, stored, workerVars, kept, restarts>>

\* An empty file and a full disk leave nothing.
UploadSave(t) ==
    LET r == serving[t].rec IN
    /\ At(t, "upload", "save")
    /\ \/ file' = [file EXCEPT ![r] = "final"] /\ Go(t, "row")
       \/ file' = [file EXCEPT ![r] = "absent"] /\ Answer(t)
    /\ UNCHANGED <<row, copies, aged, drawn, stored, workerVars, kept, restarts>>

\* create_monitor_recording; a database that is locked raises what the
\* handler does not catch, and the file stays.
UploadRow(t) ==
    LET r == serving[t].rec
        s == serving[t].segment IN
    /\ At(t, "upload", "row")
    /\ \/ /\ \E audio \in BOOLEAN :
                row' = [row EXCEPT ![r] = [segment |-> s, audio |-> audio,
                                           speech |-> "pending"]]
          /\ stored' = stored \cup {s}
          /\ Go(t, "find")
       \/ UNCHANGED <<row, stored>> /\ Answer(t)
    /\ UNCHANGED <<file, copies, aged, drawn, workerVars, kept, restarts>>

\* find_monitor_recording and schedule_speech_analysis.  A row that is gone
\* already ends the request with an error.
Schedule(t) ==
    LET r == serving[t].rec IN
    /\ serving[t].op \in {"upload", "reanalyze"} /\ serving[t].at = "find"
    /\ Enqueue(r, Exists(r) /\ Schedules(row[r].speech))
    /\ IF Exists(r) /\ serving[t].op = "upload" THEN Go(t, "prune") ELSE Answer(t)
    /\ UNCHANGED <<diskVars, kept, restarts>>

-----------------------------------------------------------------------------
(* prune_monitor_recordings, from an upload and from the list.             *)

List(t) == /\ Ask(t, [Idle EXCEPT !.op = "list", !.at = "prune"])
           /\ UNCHANGED <<diskVars, workerVars, kept, restarts>>

PruneRows(t) ==
    LET expired == {r \in aged : Exists(r)} IN
    /\ serving[t].at = "prune"
    /\ row' = [r \in Rec |-> IF r \in expired THEN Nobody ELSE row[r]]
    /\ serving' = [serving EXCEPT ![t].at = "unlink", ![t].todo = expired]
    /\ UNCHANGED <<file, copies, aged, drawn, stored, workerVars, kept, restarts>>

\* Also the end of monitor_delete_recording.
Unlink(t) ==
    /\ serving[t].at = "unlink"
    /\ \E r \in serving[t].todo :
          /\ file' = [file EXCEPT ![r] = "absent"]
          /\ copies' = copies \ {r}
          /\ serving' = [serving EXCEPT ![t].todo = @ \ {r}]
    /\ UNCHANGED <<row, aged, drawn, stored, workerVars, kept, restarts>>

\* The device deletes its file when the answer arrives, and only then.
Unlinked(t) ==
    /\ serving[t].at = "unlink" /\ serving[t].todo = {}
    /\ \/ serving[t].op = "list" /\ Go(t, "list") /\ UNCHANGED kept
       \/ serving[t].op = "delete" /\ Answer(t) /\ UNCHANGED kept
       \/ /\ serving[t].op = "upload" /\ Answer(t)
          /\ kept' \in {kept, kept \ {serving[t].segment}}
    /\ UNCHANGED <<diskVars, workerVars, restarts>>

\* list_monitor_recordings: what is scheduled is decided from these rows.
ListRows(t) ==
    /\ At(t, "list", "list")
    /\ serving' = [serving EXCEPT
          ![t].at = "schedule",
          ![t].todo = {r \in Rec : Exists(r) /\ Schedules(row[r].speech)}]
    /\ UNCHANGED <<diskVars, workerVars, kept, restarts>>

ScheduleListed(t) ==
    /\ At(t, "list", "schedule")
    /\ \/ \E r \in serving[t].todo :
             /\ Enqueue(r, TRUE)
             /\ serving' = [serving EXCEPT ![t].todo = @ \ {r}]
       \/ serving[t].todo = {} /\ Answer(t) /\ UNCHANGED workerVars
    /\ UNCHANGED <<diskVars, kept, restarts>>

-----------------------------------------------------------------------------
(* monitor_play_recording for a browser, monitor_reanalyze_recording and   *)
(* monitor_delete_recording.                                               *)

Play(t) ==
    \E r \in drawn : /\ Ask(t, [Idle EXCEPT !.op = "play", !.at = "play", !.rec = r])
                     /\ UNCHANGED <<diskVars, workerVars, kept, restarts>>

PlayFind(t) ==
    LET r == serving[t].rec
        converts == /\ Exists(r) /\ row[r].audio
                    /\ file[r] = "final" /\ ffmpeg /\ r \notin copies IN
    /\ At(t, "play", "play")
    /\ IF converts THEN Go(t, "convert") ELSE Answer(t)
    /\ UNCHANGED <<diskVars, workerVars, kept, restarts>>

\* browser_audio_path: FFmpeg runs for up to three minutes, and the file it
\* writes is renamed to the copy's name.
Convert(t) ==
    /\ At(t, "play", "convert")
    /\ copies' \in {copies, copies \cup {serving[t].rec}}
    /\ Answer(t)
    /\ UNCHANGED <<row, file, aged, drawn, stored, workerVars, kept, restarts>>

Reanalyze(t) ==
    \E r \in drawn :
        /\ ffmpeg
        /\ Ask(t, [Idle EXCEPT !.op = "reanalyze", !.at = "check", !.rec = r])
        /\ UNCHANGED <<diskVars, workerVars, kept, restarts>>

ReanalyzeCheck(t) ==
    LET r == serving[t].rec IN
    /\ At(t, "reanalyze", "check")
    /\ IF Exists(r) /\ file[r] = "final" THEN Go(t, "reset") ELSE Answer(t)
    /\ UNCHANGED <<diskVars, workerVars, kept, restarts>>

ReanalyzeReset(t) ==
    /\ At(t, "reanalyze", "reset")
    /\ SetSpeech(serving[t].rec, "pending")
    /\ Go(t, "find")
    /\ UNCHANGED <<file, copies, aged, drawn, stored, workerVars, kept, restarts>>

\* delete_monitor_recording; the two unlinks follow.
Delete(t) ==
    \E r \in drawn :
        /\ Exists(r)
        /\ row' = [row EXCEPT ![r] = Nobody]
        /\ Ask(t, [Idle EXCEPT !.op = "delete", !.at = "unlink", !.todo = {r}])
        /\ UNCHANGED <<file, copies, aged, drawn, stored, workerVars, kept, restarts>>

-----------------------------------------------------------------------------
(* run_speech_analysis_worker.                                             *)

WorkerGet ==
    /\ worker.at = "get" /\ queue # <<>>
    /\ worker' = [worker EXCEPT !.at = "claim", !.rec = Head(queue)]
    /\ queue' = Tail(queue)
    /\ UNCHANGED <<diskVars, ffmpeg, serving, kept, restarts>>

WorkerClaim ==
    LET r == worker.rec
        claimed == Exists(r) /\ row[r].speech \in {"pending", "unavailable"} IN
    /\ worker.at = "claim"
    /\ row' = IF claimed THEN [row EXCEPT ![r].speech = "processing"] ELSE row
    /\ worker' = IF claimed THEN [worker EXCEPT !.at = "detect"] ELSE Resting
    /\ UNCHANGED <<file, copies, aged, drawn, stored, queue, ffmpeg, serving,
                   kept, restarts>>

\* detect_speech_activity
WorkerDetect ==
    /\ worker.at = "detect"
    /\ \E result \in IF ffmpeg THEN {"complete", "failed"} ELSE {"unavailable"} :
          worker' = [worker EXCEPT !.at = "write", !.result = result]
    /\ UNCHANGED <<diskVars, queue, ffmpeg, serving, kept, restarts>>

\* set_monitor_recording_speech_analysis, whatever the status has become.
WorkerWrite ==
    /\ worker.at = "write"
    /\ SetSpeech(worker.rec, worker.result)
    /\ worker' = Resting
    /\ UNCHANGED <<file, copies, aged, drawn, stored, queue, ffmpeg, serving,
                   kept, restarts>>

\* Wrong: an error leaves the row as it is.
WorkerFails_Wrong ==
    /\ worker.at \in {"claim", "detect", "write"}
    /\ worker' = Resting
    /\ UNCHANGED <<diskVars, queue, ffmpeg, serving, kept, restarts>>

\* An error on the way is recorded as a failure; an error in recording that
\* ends the thread.
WorkerFails ==
    /\ worker.at \in {"claim", "detect", "write"}
    /\ SetSpeech(worker.rec, "failed")
    /\ worker' = Resting
    /\ UNCHANGED <<file, copies, aged, drawn, stored, queue, ffmpeg, serving,
                   kept, restarts>>

WorkerDies ==
    /\ worker.at \in {"claim", "detect", "write"}
    /\ worker' = [worker EXCEPT !.at = "dead"]
    /\ UNCHANGED <<diskVars, queue, ffmpeg, serving, kept, restarts>>

-----------------------------------------------------------------------------
(* The world around.                                                       *)

Age(r) ==
    /\ Exists(r) /\ r \notin aged
    /\ aged' = aged \cup {r}
    /\ UNCHANGED <<row, file, copies, drawn, stored, workerVars, serving, kept,
                   restarts>>

InstallFfmpeg ==
    /\ ~ffmpeg
    /\ ffmpeg' = TRUE
    /\ UNCHANGED <<diskVars, queue, worker, serving, kept, restarts>>

\* Wrong: what was "processing" stays so.
Reset_Wrong(r) == row[r]

\* initialize_database: no analysis survives the process that ran it.
Reset(r) == IF Exists(r) /\ row[r].speech = "processing"
            THEN [row[r] EXCEPT !.speech = "pending"] ELSE row[r]
Initialized == [r \in Rec |-> Reset(r)]

\* The watchers and the alerts start with it too, in their own processes.
InitializeElsewhere ==
    /\ row' = Initialized /\ row' # row
    /\ UNCHANGED <<file, copies, aged, drawn, stored, workerVars, serving, kept,
                   restarts>>

\* The server is killed and started again.
Restart ==
    /\ restarts < MaxRestarts
    /\ restarts' = restarts + 1
    /\ row' = Initialized
    /\ queue' = <<>> /\ worker' = Resting
    /\ serving' = [t \in Thread |-> Idle]
    /\ UNCHANGED <<file, copies, aged, drawn, stored, ffmpeg, kept>>

Serve(t) == \/ UploadSave(t) \/ UploadRow(t) \/ Schedule(t)
            \/ PruneRows(t) \/ Unlink(t) \/ Unlinked(t)
            \/ ListRows(t) \/ ScheduleListed(t)
            \/ PlayFind(t) \/ Convert(t)
            \/ ReanalyzeCheck(t) \/ ReanalyzeReset(t)

Work == WorkerGet \/ WorkerClaim \/ WorkerDetect \/ WorkerWrite \/ WorkerFails

Next ==
    \/ \E t \in Thread : \/ Upload(t) \/ List(t) \/ Play(t) \/ Reanalyze(t)
                         \/ Delete(t) \/ Serve(t)
    \/ Work \/ WorkerDies
    \/ \E r \in Rec : Age(r)
    \/ InstallFfmpeg \/ InitializeElsewhere \/ Restart

\* The worker's thread runs until it dies.
Fairness == WF_recordingVars(Work)

Spec == Init /\ [][Next]_recordingVars /\ Fairness

-----------------------------------------------------------------------------
(* A row never names a file that is not there: whatever the handlers that  *)
(* upload, expire and delete do between each other's steps, the file comes *)
(* before the row and goes after it (monitor_upload_recording,             *)
(* monitor_delete_recording, prune_monitor_recordings).                    *)
RowHasFile == \A r \in Rec : Exists(r) => file[r] = "final"

(* A recording that is said to be analysed is the one the worker has: a    *)
(* kill leaves none behind, because initialize_database resets them, and   *)
(* no reset, new request or deletion in between leaves one either.         *)
ProcessingIsWorked ==
    \A r \in Rec : Exists(r) /\ row[r].speech = "processing" =>
        worker.rec = r /\ worker.at \in {"detect", "write", "dead"}

(* The device lets go of a segment only when the server has had a row for  *)
(* it, however many answers, uploads and servers are lost                  *)
(* (uploadRecordingFile, monitor_upload_recording).                        *)
SegmentsKept == Segment \subseteq kept \cup stored

(* What waits in the queue is analysed, and its row says so, unless the    *)
(* recording goes or the thread has died: after the last kill of the       *)
(* server no reset and no other process loses it                           *)
(* (run_speech_analysis_worker).                                           *)
Analysed ==
    \A r \in Rec :
        (/\ Exists(r) /\ row[r].speech = "pending"
         /\ \E i \in DOMAIN queue : queue[i] = r
         /\ restarts = MaxRestarts)
        ~> \/ ~Exists(r) \/ row[r].speech \in {"complete", "failed", "unavailable"}
           \/ worker.at = "dead"

=============================================================================
