------------------------------- MODULE MCServer -------------------------------
(***************************************************************************)
(* The subsystems of the server that share no state: the recordings, whose *)
(* module is extended, and an instance of the module of each other one, or *)
(* of the module of its theorems, which then hold here too.  A behaviour   *)
(* exercises one part of one subsystem, chosen at the start among Parts;   *)
(* the others rest in their initial states.  What a part leaves out is a   *)
(* restriction on the world, never on the code.                            *)
(***************************************************************************)
EXTENDS Recordings

CONSTANTS
    Parts,
    Second, MinimumActivity, MinimumSilence, StartupGrace, ShutdownGrace,
    MaximumEvents, Duration, MaxMarks,
    Key, OtherKey, Checker, Phone, FeedLimit, MaxEvents, MaxKills,
    FailureThreshold, MaxDisruptions,
    Watcher, LateWatcher, Url, OddUrl, Content, Needle, Runner, Request, Limit,
    Failures,
    Version, Secret, Nothing, Empty, Process, Keep, Keeps, MaxArchives, MaxFailures,
    Contact, MessageLimit, MaxMessages, MaxLosses,
    Service, LastResort, OnDemand, Patience, MaxFaults

VARIABLES
    part,
    duration, marks, stage, at, opened, silences, cursor, activities, starts, unique,
    problems, watched, active, cooled, events, old, pruned, acked, check, poll,
    shown, kills,
    reachable, tracker, settings, phase, event, alarm, disruptions,
    watcher, ready, waiting, job, todo, told, repeated, mixed, abandoned,
    live, archives, made, portable, lock, busy, task, stolen, wreck,
    pushed, torn, failures,
    box, accounts, page, request, post, passed, losses,
    enabled, running, suspended, guarded, heat, loop, missed, change, faults

S == INSTANCE SpeechActivity
A == INSTANCE AlertsProofs
P == INSTANCE ServerWatch
W == INSTANCE WebWatchersProofs WITH kills <- abandoned, Unknown <- Nobody
B == INSTANCE BackupProofs WITH job <- task
M == INSTANCE Messages WITH active <- accounts, Limit <- MessageLimit
V == INSTANCE Services

\* What the theorems of the modules assume of the constants.
ASSUME ServerAssumption ==
    /\ S!TicksAssumption
    /\ A!KeysAssumption /\ W!ValuesAssumption /\ B!NetAssumption
    /\ Nobody \notin Contact
    /\ {MessageLimit, MaxMessages, MaxLosses, MaxDisruptions, Patience, MaxFaults} \subseteq Nat
    /\ FailureThreshold \in Nat \ {0}
    /\ OnDemand \subseteq Service

speechVars    == <<duration, marks, stage, at, opened, silences, cursor, activities,
                   starts, unique>>
alertVars     == <<problems, watched, active, cooled, events, old, pruned, acked,
                   check, poll, shown, kills>>
watchVars     == <<reachable, tracker, settings, phase, event, alarm, disruptions>>
watcherVars   == <<watcher, ready, waiting, job, todo, told, repeated, mixed,
                   abandoned>>
backupVars    == <<live, archives, made, portable, lock, busy, task, stolen, wreck,
                   pushed, torn, failures>>
messageVars   == <<box, accounts, page, request, post, passed, losses>>
serviceVars   == <<enabled, running, suspended, guarded, heat, loop, missed, change,
                   faults>>

vars == <<part, recordingVars, speechVars, alertVars, watchVars, watcherVars,
          backupVars, messageVars, serviceVars>>

-----------------------------------------------------------------------------
First(set) == CHOOSE x \in set : TRUE

\* One recording, of which the server is killed after FFmpeg was found; then as
\* many as there are retries of the device, with the analyses still to begin.
Recorder == /\ Next
            /\ drawn' \subseteq {First(Rec)}
            /\ restarts' # restarts => ffmpeg
Retries  == /\ Next
            /\ UNCHANGED <<worker, ffmpeg, restarts>>
            /\ \A t \in Thread : serving'[t].op \in {"none", "upload", "list", "delete"}

\* The checks without the phones, one key repeating; the phones with one
\* checker of one key.
Checks == /\ A!Next
          /\ UNCHANGED <<poll, old>>
          /\ cooled' \subseteq {First(Key)} /\ ~A!Record
Feed   == /\ A!Next
          /\ UNCHANGED watched /\ cooled' = {}
          /\ \A c \in Checker \ {First(Checker)} : check'[c] = A!NoCheck
          /\ problems' \subseteq {First(Key)}

\* One watcher and the owner's requests; then two, of which the late one may
\* be odd and stays enabled, and the other one can be switched off and on.
OneWatcher ==
    /\ W!Next
    /\ watcher'[LateWatcher] = Nobody
    /\ UNCHANGED abandoned
    /\ \A w \in Watcher : watcher'[w] # Nobody =>
          /\ watcher'[w].url \notin OddUrl /\ watcher'[w].mode = "contains"
TwoWatchers ==
    /\ W!Next
    /\ \A q \in Request : job'[q] = W!NoJob
    /\ mixed' # mixed => job' # job
    /\ \A w \in Watcher :
          /\ watcher'[w] # Nobody =>
                /\ watcher'[w].mode = "change"
                /\ w = LateWatcher => watcher'[w].enabled
                /\ w # LateWatcher => watcher'[w].url \notin OddUrl
          /\ watcher[w] # Nobody =>
                watcher'[w] # Nobody /\ watcher'[w].url = watcher[w].url
    /\ ready' # ready => waiting' # waiting \/ Len(ready') # Len(ready)

\* One process restores, another one makes a backup or restores as well, from
\* the archive that was there or from one that has no checksum; users write
\* while the files are away.
Restores ==
    /\ B!Next
    /\ portable' = {}
    /\ task'[First(Process)].task \in {"none", "restore"}
    /\ \A p \in Process : task[p].task = "none" /\ task'[p] # task[p] =>
          \/ made = 1
          \/ task'[p].from = 2 /\ \A i \in B!Named(2) : ~archives[i].checked
RestoreAndBackup ==
    /\ Restores
    /\ \A p \in Process \ {First(Process)} : task'[p].task \in {"none", "backup"}
    /\ B!Change => live.uploads = Nothing
TwoRestores ==
    /\ Restores
    /\ \A p \in Process \ {First(Process)} : task'[p].task \in {"none", "restore"}
    /\ ~B!Change
    /\ failures' # failures => \E p \in Process \ {First(Process)} : task'[p] = task[p]

\* One process exports and imports.
Migration ==
    /\ B!Next
    /\ task'[First(Process)].task \in {"none", "export", "import"}
    /\ \A p \in Process \ {First(Process)} : task'[p] = B!NoJob
    /\ ~B!Change

\* What the installation and its only archive hold at the start.
Earlier(core, media) ==
    /\ Len(archives) = 1 /\ \A i \in DOMAIN archives : archives[i].core \in core
    /\ live.db = First(Version)
    /\ media <=> portable # {}

\* One contact writes, whose account may be deactivated while nothing is lost.
Conversation ==
    /\ M!Next
    /\ Contact \ {First(Contact)} \subseteq accounts'
    /\ M!Hear => box'[Len(box')].with = First(Contact)
    /\ M!Activate => losses = 0 /\ Len(box) <= 1

-----------------------------------------------------------------------------
\* What a part does to its subsystem; the other subsystems rest.
Subsystem == [recordings |-> {"recordings", "retries"}, speech |-> {"speech"},
              alerts |-> {"checks", "feed"}, watch |-> {"watch"},
              watchers |-> {"one watcher", "two watchers"},
              backup |-> {"restore and backup", "two restores", "migration"},
              messages |-> {"messages"}, services |-> {"services"}]

Rests == /\ IF part \in Subsystem.recordings THEN TRUE ELSE UNCHANGED recordingVars
         /\ IF part \in Subsystem.speech THEN TRUE ELSE UNCHANGED speechVars
         /\ IF part \in Subsystem.alerts THEN TRUE ELSE UNCHANGED alertVars
         /\ IF part \in Subsystem.watch THEN TRUE ELSE UNCHANGED watchVars
         /\ IF part \in Subsystem.watchers THEN TRUE ELSE UNCHANGED watcherVars
         /\ IF part \in Subsystem.backup THEN TRUE ELSE UNCHANGED backupVars
         /\ IF part \in Subsystem.messages THEN TRUE ELSE UNCHANGED messageVars
         /\ IF part \in Subsystem.services THEN TRUE ELSE UNCHANGED serviceVars
         /\ UNCHANGED part

Together == /\ part \in Parts
            /\ Init /\ S!Init /\ A!Init /\ P!Init /\ W!Init
            /\ B!Init /\ M!Init /\ V!Init

\* Where a part starts, and what the others start with.
Start == /\ part # "recordings" => ffmpeg
         /\ part # "speech" => \A d \in Duration : duration <= d
         /\ part # "watch" => reachable
         /\ IF part = "migration"
            THEN Earlier({B!CoreOf(live)}, TRUE) /\ live.uploads # Nothing
            ELSE Earlier({B!Fresh(v, u) : v \in Version \ {First(Version)},
                                          u \in Version \union {Nothing}}, FALSE)
         /\ part \notin Subsystem.backup =>
               live.uploads = Nothing /\ archives[1].core.uploads = Nothing
         /\ part = "restore and backup" =>
               /\ archives[1].core.uploads \in {archives[1].core.db, Nothing}
               /\ live.uploads = Nothing => archives[1].core.uploads # Nothing
         /\ part = "two restores" =>
               live.uploads # Nothing /\ archives[1].core.uploads = archives[1].core.db
         /\ part \notin Subsystem.services => enabled = {} /\ guarded /\ heat = "cool"

MCInit == Together /\ Start

MCNext == \/ part = "recordings" /\ Recorder /\ Rests
          \/ part = "retries" /\ Retries /\ Rests
          \/ part = "speech" /\ S!Next /\ Rests
          \/ part = "checks" /\ Checks /\ Rests
          \/ part = "feed" /\ Feed /\ Rests
          \/ part = "watch" /\ P!Next /\ Rests
          \/ part = "one watcher" /\ OneWatcher /\ Rests
          \/ part = "two watchers" /\ TwoWatchers /\ Rests
          \/ part = "restore and backup" /\ RestoreAndBackup /\ Rests
          \/ part = "two restores" /\ TwoRestores /\ Rests
          \/ part = "migration" /\ Migration /\ Rests
          \/ part = "messages" /\ Conversation /\ Rests
          \/ part = "services" /\ V!Next /\ Rests

\* The fairness of each module, for the behaviours that exercise it.
PartsFairness ==
    /\ WF_vars(part = "recordings" /\ Work /\ Rests)
    /\ WF_vars(part = "watch" /\ P!Turns /\ Rests)
    /\ SF_vars(part = "watch" /\ P!Succeed /\ Rests)
    /\ \A p \in Phone : /\ WF_vars(part = "feed" /\ A!Polls(p) /\ Rests)
                        /\ SF_vars(part = "feed" /\ A!Acknowledge(p) /\ Rests)
    /\ WF_vars(part = "one watcher" /\ W!Run /\ Rests)
    /\ WF_vars(part = "two watchers" /\ W!Run /\ Rests)
    /\ WF_vars(part = "services" /\ V!Loop /\ Rests)

SafetySpec == MCInit /\ [][MCNext]_vars
LiveSpec   == SafetySpec /\ PartsFairness

-----------------------------------------------------------------------------
(* The properties of the modules, under one name each: those of Recordings *)
(* are here already.                                                       *)

(* Every variable of the subsystem that is exercised has its type.         *)
TypesOK == /\ part \in Subsystem.recordings => TypeOK
           /\ part \in Subsystem.speech => S!TypeOK
           /\ part \in Subsystem.alerts => A!TypeOK
           /\ part \in Subsystem.watch => P!TypeOK
           /\ part \in Subsystem.watchers => W!TypeOK
           /\ part \in Subsystem.backup => B!TypeOK
           /\ part \in Subsystem.messages => M!TypeOK
           /\ part \in Subsystem.services => V!TypeOK

(* The marked seconds are those in which sound begins (SpeechActivity).    *)
MarkersAreSpeech == S!MarkersAreSpeech

(* One incident, one alert (Alerts).                                       *)
OneIncident == A!OneIncident

(* Every event reaches every owner (Alerts).                               *)
Delivered == A!Delivered

(* An undisturbed watch tells its owner (ServerWatch).                     *)
OwnerIsTold == P!OwnerIsTold

(* A watcher is scheduled exactly while enabled (WebWatchers).             *)
ScheduledWhileEnabled == W!ScheduledWhileEnabled

(* One alert for each turn of a page (WebWatchers).                        *)
OneAlertPerTurn == W!OneAlertPerTurn

(* Every watcher that is due is checked (WebWatchers).                     *)
EveryoneIsChecked == W!EveryoneIsChecked

(* A restoration is whole or is undone (Backup).                           *)
RestoreIsAtomic == B!RestoreIsAtomic

(* What a restoration replaces is in an archive (Backup).                  *)
SafetyNet == B!SafetyNet

(* The page's cursor hides no message (Messages).                          *)
NothingHidden == M!NothingHidden

(* A suspended service runs again when the phone is cool (Services).       *)
ComesBack == V!ComesBack

=============================================================================
