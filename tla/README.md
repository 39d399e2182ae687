# TLA+ for CloudInBuzunar

Formal models of CloudInBuzunar, a home server that runs on a rooted phone: a
Flask application (one gunicorn worker with four threads, SQLite), a bash
watchdog, and an Android companion that watches the server and lends it a
camera. Modules are checked with TLC; the theorems are checked with TLAPS.

## 1. Inventory

| Component | State it keeps | Operations | Talks to | What is hard |
|---|---|---|---|---|
| Live monitor, server (`app/monitor.py`, `app/database.py`) | tables `monitor_sources`, `monitor_sessions`, `monitor_recording_settings` | arm, poll, disarm, offer, heartbeat, answer, stop, status, control, recording control, viewer heartbeat | devices and dashboard pages, by HTTP | handlers are several transactions; leases; late requests |
| Live monitor, Android source (`MonitorService.java`, `MainActivity.java`) | service object, executor queue, preferences, buttons | arm, disarm, poll, start / maintain / stop capture, recorder, fail and stop | server; Android system | polling with stale answers; sticky restart; `stopSelf`; half-failed starts |
| Live monitor, dashboard (`monitor.js`) | session on offer, session connected to | status, control, connect, heartbeat, leave | server | a second viewer; vanishing |
| Live monitor, browser source (`monitor-source.js`) | the same as the Android source, in a page | arm, disarm, poll, start / stop capture | server | timers interleave at every `await` |
| Recordings and speech analysis | `monitor_recordings`, files, in-memory queue | upload, list, play, reanalyze, delete, prune, analyse | device, analysis thread | retried uploads; a claim that outlives its worker |
| Pairing | `monitor_pairing_codes`, `monitor_devices` | create code, pair, authenticate | companion | one-time use under concurrency |
| Reliability alerts (`reliability_alerts.py`) | alert states, events, deliveries | synchronise, feed, acknowledge, prune | watchdog, dashboard, companion | cooldown; at-least-once delivery |
| Server watch (`ServerWatchService.java`) | failure counter and offline flag in the preferences | poll, notify, consume the feed | server | process death between persisting and notifying |
| Motion detection (`MotionDetector.java`) | baseline, cooldown | sample | live monitor | confirmation and cooldown |
| Thermal guardian (`thermal_guardian.py`) | policy, markers of suspended services, history | check, suspend, recover | managed services | hysteresis; half-done suspensions |
| Services and watchdog (`cloud-services.sh`, `service_control.py`) | processes, pid files, lock directories, markers | start, stop, restart, watch | everything | races on pid files; stale locks |
| AI runtime (`ai_runtime.py`) | server process, selected model, activity file | start, switch with rollback, idle stop | web worker, watchdog | a lock of one process only |
| Backup, restore, migration (`backup.py`, `migration_admin.py`, `cloud-migrate.py`) | archives, checksums, lock, database, key, uploads | create, verify, prune, restore, export | everything | three-part restore with rollback; crash anywhere |
| Share links (`share_links.py`) | `file_shares` | create, claim, revoke | public downloads | limited claims under concurrency |
| Web watchers (`web_watchers.py`) | `web_watchers` | create, edit, enable, check, delete | alerts | write-back of a result that is stale |
| Media (`media.py`) | partial uploads, library, quota | initialise, chunk, complete, clean up | page | resumption; quota |
| Messages (`messaging.py`, `message_crypto.py`) | `private_messages`, master key | send, read, list | pages | unread marks; key creation |
| Accounts (`main.py`, `database.py`) | users, attempts, requests | login, register, approve, role changes | everything | lockout windows; the last administrator |
| Downloads, status, resources, front end, installers | none of their own | proxies, measurements, presentation | aria2, Transmission, the system | - |

What makes the components correct is listed as hazards, each at its line, in
`PROJECT.json`; a hazard without a property says why, or which module is meant
to cover it.

## 2. Modules

| Module | Models |
|---|---|
| `MonitorServer` | the signalling server: tables, transactions, handlers, requests in flight |
| `MonitorLive` (extends `MonitorServer`) | Android devices and dashboard pages around it |
| `MonitorBrowser` (extends `MonitorServer`) | browser sources and dashboard pages around it |
| `CameraControl` | the contract of both: who may turn a camera on, and when |
| `Accounts` | signing in, registrations, pairing codes, share links, the account command line |
| `Recordings` | uploads and retries, list, playback, deletion, retention, the analysis queue and its worker |
| `SpeechActivity` | what the worker makes of FFmpeg's output: four loops over its marks |
| `Alerts` | reliability checks, the log of events, its pruning, the phones that fetch and acknowledge |
| `ServerWatch` | the watch a phone keeps on the server: counting, persisting, telling |
| `WebWatchers` | watched pages: the owner's requests, the checks, the process that runs what is due |
| `Backup` | backups, restorations with their rollback, portable exports and imports |
| `Messages` | private messages, and the page with its cursor and two requests |
| `Services` | heavy services under the owner, the watchdog and the thermal guardian |
| `MCMonitorLive`, `MCMonitorWorlds`, `MCMonitorBrowser`, `MCAccounts`, `MCServer` | the instances for TLC |
| `MonitorServerProofs`, `MonitorLiveProofs`, `MonitorBrowserProofs`, `AccountsProofs`, `AlertsProofs`, `WebWatchersProofs`, `BackupProofs`, `ServerProofs` | the theorems |

Definitions whose name ends in `_Wrong` are not the code: they are plausible
slips in the definition that follows, which the properties are tested against.

### How the live monitor is modelled

*Requests.* A device has one executor thread that waits for every HTTP answer,
and a page is given one request at a time, so a client has one request,
`job[c]`: `op` is the endpoint, `at` the transaction it runs next ("done": the
answer is on its way back). `Serve(c)` runs one transaction: every function of
`app/database.py` opens a connection of its own, and the four threads of the
worker may interleave between two of them. `After(j)` is what the handler does
with the transaction's result.

*Lost messages.* `GiveUp(j)` is a client that stops waiting (a refused
connection, a read timeout, a process that dies). The request was lost, or it
was executed and only its answer was lost (give up after "done"), or it is still
on its way: then it moves to `orphans` and may run at any later time.

*Time* is reduced to the thresholds the code compares with: a source row is
younger than 10 s (its heartbeat is throttled), younger than 30 s, or expired; a
session is fed or not (15 s) and watched or not (12 s). `AgeSource` and
`AgeSession` move one row over one threshold. Nothing bounds how slow a client
is, so every race of a lease with a request is a behaviour of the model.

*Devices.* `dev[d]` holds the fields of the service object (`on` is `armed`,
`st` is `state`, `cap` stands for the WebRTC objects that hold camera and
microphone, `rec` and `want` are the recording modes), the static
`currentState` (`shown`), the activity's buttons (`armable`), the preferences
(`kept`) and the life of the service object. The methods are functions from a
service object to a service object (`StopCapture`, `FailAndStop`, ...), so that
an action is the composition of calls that the handler makes. `tasks` holds the
one-shot tasks of the executor; the periodic ones (poll, rotation) are enabled
when the executor is free. A poll is cut at its requests: `StartPoll` sends it,
and one action for each branch takes its answer (`PollGone`,
`PollStartsCapture`, ...).

*Android.* `stopSelf()` leads to `Destroy`, on the main thread, whatever the
executor is doing; an intent delivered before it dies with the service, one sent
after it reaches a new service object. `Kill` leaves only the preferences and,
because `onStartCommand` returned `START_STICKY`, a new service that arms itself
if the preferences say so.

*Pages.* A page of `Operator` sends orders, one of `Viewer` loads the status and
connects. Control requests that `pagehide` sends with `keepalive` take the
page's one request slot.

*Left out.* `user_id` conditions (a client only sends ids it made), the status
401 (revoked tokens), `camera_facing`, error texts, the segment files and their
upload (a slow upload shows as an expired lease), the browser recorder of the
page, and a page that runs a status request and an order at once. The
transaction that stores the actual recording mode and the one that reads the
settings back are one step: nothing the device reads there is written by it.
Double arming starts a second periodic poll on the same executor; as polls run
one after another and each acts on the current fields, one stands for both.

### Properties of the live monitor

Safety: `OneSourceOneSession`, `ArmedMeansCameraOff`,
`RecorderExcludesCapture`, `DisarmedMeansOff`, and `ImplementsCameraControl`:
MonitorLive refines `CameraControl` under the mapping order = devices whose
source the server wants live, grant = devices whose poll was answered "live" and
that have not acted on it, camera = devices that hold one. A stale answer may
thus turn a camera on once, for an order that was withdrawn meanwhile, and never
twice; nothing else turns one on. `GoodDevices` is the inductive form that the
proofs use; the run `live_device` checks it with the presses of two buttons
queued.

Liveness: `StopIsObeyed`, `StartIsObeyed`, `ArmingTakesEffect`,
`AbandonedCaptureEnds`, and `OutdatedViewerLetsGo`: a page whose transmission
ended, or was answered by another page, does not hold on to it.

*Fairness* (`FairSpec`). Weak fairness of the poll (`scheduleWithFixedDelay`,
one second), of the server's threads for the pages, and of the destruction of a
stopped service. Strong fairness of the steps a failing request may disable
again and again: the server runs, and answers, a request that is sent again and
again (`Serves`, `Answers`), the executor takes one answer among many
(`TakeAnswer`), the heartbeat comes among the polls every four seconds
(`Beats`), and a queued task runs among the polls. Nothing is assumed of the
owner, of the operator, or of Android's kills. Pages keep sending heartbeats
(`setInterval`, three seconds), so `Watch` is strongly fair. `TakeoverSpec` needs
only the part about the pages and the server (`PageFairness`): it says nothing of
the device, which may never poll again.

### How the browser source is modelled

A page has no executor: each asynchronous function of `monitor-source.js` runs
until its next `await`, and timers and buttons start others in between. A
*thread* of a tab is one call of such a function: the poll with everything it
awaits (`controlPollIsRunning` lets only one run), the heartbeat, the question
for the answer, and as many calls of `armSource` and `disarmSource` as the
instance allows. `web[t]` holds the module-level variables of the script
(`localStream` is `cam`, `peerConnection` is `peer`) and, for each thread, what
it waits for; each (tab, thread) pair is a client of `MonitorServer` with a
request of its own. `Leave` is `pagehide`: the page is gone, its requests are
not. The camera and the negotiation answer at any time, or fail.

Properties: the same refinement of `CameraControl` (the grant is the poll's
answer, until the camera opens), `NoCameraLost` (no camera is opened over
another, whose tracks nothing could stop), `StopIsObeyed` and
`DisarmedCameraGoesOff`. The last one needs a dashboard that keeps asking for the
status, because a source that opened its camera after it was disarmed is known
to nobody: the status request is what drops the session. `WatchedSpec` adds that
fairness (`loadMonitorStatus`, every second on an open dashboard). `FairSpec` here
is weak fairness of the server, of every awaited answer and of the timers, and
strong fairness of the poll's request, which may fail again and again.

Left out: the wake lock, the track toggles, `visibilitychange` (one more way to
start a poll), and the negotiation's content.

### How the accounts are modelled

`Accounts` cuts the handlers of `main.py`, `monitor.py` and `share_links.py` at
their SQLite transactions. A client has one request `job[c]`, whose `at` names
the transaction that comes next: requests of a session begin with `Authenticate`
(`get_session_user` and `require_admin`), signing in is `LoginCount`,
`LoginFind`, `LoginRecord`, registering is `RegisterCount`, `RegisterRecord`,
`Register`. What a transaction read is kept in the request (`right` is the result
of the password check, or the administrator's role) and used later although the
rows may have changed. `approve_registration_request`,
`create_registration_request` and `claim_file_share_download` begin with
`BEGIN IMMEDIATE` and are one step; `consume_monitor_pairing_code` does not and
is two (`PairFind`, `PairWrite`). `Elapse` ages attempts, codes and links over
their thresholds; `Manage` is `manage_users.py` in its own process: it creates accounts and
changes roles. Its commands `activate` and `deactivate` raise `NameError`
(manage_users.py:109 calls `set_user_active`, which the file does not import) and
change nothing, so an account that is disabled is so from the start.

Properties: `AttemptsBounded` (the limit of five failed attempts is checked and
recorded in two transactions: it is passed by the requests already past the
check, at most one of each client, and by no other), `ApprovalIsExact` (an
approval creates the account whose row the page showed, or none, and changes no
account that exists), `DownloadsWithinLimit`, and `SingleUseCode`, which the
code does not have.

Left out: passwords and their change, the list of accounts, names that differ
only in case, the file behind a link (it is there or not). All clients have one
address, which is the case in which they share limits. A pairing code that is
stored or has paired a device is not drawn again (eight characters at random).

### How the recordings are modelled

A recording lives in three places that no transaction spans: its row, its file
(`part` while it is written, then `final`) and the copy for browsers. A thread
of the server serves one request, `serving[t]`, whose `at` is the next step that
touches one of the places; the handlers of two threads interleave between them.
`Upload` is enabled for every segment in `kept`, also while an earlier upload of
it is served: the device stops waiting whenever it likes, and its file goes only
with an answer (`Unlinked`). The queue and the worker are in memory: `Restart`
loses them and resets the rows; `InitializeElsewhere` resets the rows alone,
because the watchdog's processes call `initialize_database` too. An analysis
fails (`WorkerFails`), or its thread dies when even the failure cannot be
written (`WorkerDies`), after which nothing is analysed until a restart.

`RowHasFile`, `ProcessingIsWorked` and `SegmentsKept` are safety, `Analysed` is
liveness: what waits in the queue after the last restart is analysed.

`SpeechActivity` is `detect_speech_activity`, each iteration of its loops a step:
`AddMark` adds a mark in the forms FFmpeg prints (starts and ends in turn, the
first perhaps before the recording, the last after it), `Pair` makes silences of
them, `Invert` takes what lies between, `Select` leaves out what is short or the
recorder's own noise, and `Unite` drops what falls into the same second, up to
`MAXIMUM_EVENTS`. `opened`, `silences`, `cursor`, `activities`, `starts` and
`unique` are the function's local variables. `MarkersAreSpeech` compares the result
with a definition over single ticks that knows none of them: the marked seconds
are the first ones, in order and each once, of those in which a stretch of sound
begins. A start is rounded (halves to the even second), and the code then clips it
to `int(duration)`, the last whole second; the statement says so (`Safe`), because
in a recording of 2½ s and more a start may round to the second after it.

### How the alerts and the server watch are modelled

A check (`check[c]`) measures, reads the settings and synchronises in three
steps, so that two checks may write in the opposite order of their measurements;
`sync_system_alert_conditions` and the pruning are transactions. `events` is the
log, `old` and `pruned` are prefixes of it. Phones fetch the newest `FeedLimit`
events they have not acknowledged (`feed`, a set: its least member is notified
next), notify one after the other and acknowledge only what they notified; answers and acknowledgements are lost, the application
is killed between any two steps. `OneIncident`: "triggered" and "resolved"
alternate, and what is active is what the last event says. `Delivered`: every
event reaches the owner of every phone or is pruned by age.

`ServerWatch` is the other half of the same service: one thread that counts,
writes the count to the preferences (`Persist`) and then tells the owner
(`Tell`). `Kill` and `StartAgain` make a new tracker from the preferences between
any two steps. `OwnerIsTold` is stated of the time after the last disturbance,
for states in which the tracker does not believe that it told already: a kill
between `Persist` and `Tell` swallows the notification of that one outage.

### How the web watchers are modelled

A check keeps the row it read (`job[q].row`), fetches, records alerts and saves
its result by number, four steps between which the owner edits, disables, deletes
or checks the same watcher. The schedule is `ready` (due, in the order of
`next_check_at`) and `waiting`. `save_web_watcher_result` is defined twice in
`database.py`; Python keeps the second, which is the one modelled, and
the first is its mutant. `ScheduledWhileEnabled` holds whatever is late;
`OneAlertPerTurn` is stated of watchers whose checks did not overlap (`mixed`):
two checks at once do miscount the three failures in a row and may repeat an
alert. `EveryoneIsChecked` assumes that no due page ends the process
(`OddUrl`: an answer that raises what `fetch_page` does not turn into an error).

### How backup, restoration and migration are modelled

A content is identified by the version it comes from. `live` is the installation,
`archives` the directory of backups with their checksums, `portable` the exports.
A process (web worker, command line, watchdog) carries one task through the steps
that touch the disk: a backup is `snap`, `say`, `pack`, `publish`, `sum`, `prune`;
a restoration takes the lock (created empty and filled later, and taken over when
its owner is dead or it says nothing), extracts, verifies, makes its safety
backup, replaces database, key and files (two renames), initialises, and walks
back over what it did when a step fails. An import adds configuration and media.
`Fail(p)` lets the step fail, `Kill(p)` ends the process with whatever is on the
disk; users write meanwhile (`Change`).

`RestoreIsAtomic`: what answers "restored" has all three parts of the archive,
what answers "undone" all three of before. It is conditional on what the code
leaves open and the model reaches: no user wrote meanwhile (`alone`), no lock was
taken from its owner (`stolen`).

`SafetyNet` needs neither: from its first change, and forever if it was killed,
what a restoration replaced is in a verified archive, also when a user's write
makes the rollback fail, and when a second process stole the lock and restores at
the same time. Two things it cannot promise, and names: an installation that was
written to between the snapshot of the safety backup and the first replacement is
not what is in that backup (`torn`, which is over when the replacement begins: what
is written later is no excuse); and a job told to keep no more archives than there
are newer ones removes it (`pushed`). The dashboard's restorations and exports keep
`DEFAULT_KEEP` = 7 (`Keep`), the watchdog's backup keeps `BACKUP_KEEP` = 3
(cloud-services.sh:37,627), the command line what `--keep` says (`Keeps`): a safety
backup that the watchdog prunes with three newer ones is in `pushed` like any other.

### How the messages are modelled

`box` is the table; the page has a list, a cursor `last` and two requests, a poll
and a send, whose answers arrive in any order or not at all. `NothingHidden`:
what the contact wrote before the cursor is on the page, except for what `passed`
records, the two ways in which the code itself goes over messages.

### How the services are modelled

The owner, the watchdog and the guardian each run shell commands that fail,
hang or are killed at a timeout; `running`, the settings, the markers and the
counters are what they share. The watchdog's loop is one process, cut where it
calls the guardian and where a command changes something. `ComesBack`: once the
phone stays cool and the owner changes nothing, an enabled service runs for good.

## 3. Runs

Runs of the monitor set `CHECK_DEADLOCK FALSE` because the system rests while
nobody presses a button. The identifiers a device draws are UUIDs; two or three
values are enough because a value that nothing remembers is drawn again.

| Run | Shows | Bounds |
|---|---|---|
| `live_device` | what a device says of its camera is true, and the refinement, with every event | 1 device, 1 operator, recording mode video, two queued tasks |
| `live_two_devices` | one source, one session, one order, with two devices that replace each other, and with requests that are served late | 2 devices while leases expire; or 1 device whose requests fail, 1 of them on its way |
| `live_obeys` | the device follows the orders in the end, the capture of a vanished viewer ends, and the refinement with a page that answers, heartbeats and leaves | 1 device, 1 page, leases expire; requests fail or the page watches |
| `live_takeover` | a page lets go of a transmission that ended or that another page took over | 1 device, 2 pages that watch and stay (the action constraint `Takeovers`), of which one orders, 2 sessions |
| `live_rearm` (violated) | an "arm" pressed behind a "disarm" is lost | 1 device, disarm |
| `browser_race` | no camera is lost or opens unasked, a late one goes off | 1 page, one arm and one disarm call at a time, heartbeat, leases expire, a dashboard asks for the status |
| `browser_page` | the same contract when requests fail and the page is left | 1 page, the question for an answer, one orphaned request |
| `browser_rearm` (violated) | a page that says "armed" keeps its camera on | 1 page, disarm |
| `accounts` | limits, approvals and counters under concurrency | 2 clients, 3 users, 1 link of at most 2 downloads, a limit of 2 attempts, 1 waiting registration, 2 registrations in all |
| `accounts_single_use` (violated) | one code pairs two devices | as `accounts` |
| `server_safety` | files, rows and segments agree; the marks are speech; one incident, one alert; schedules, restorations, safety backups, the message cursor | see below |
| `server_live` | what is queued is analysed, every event and outage is told, every due watcher is checked, suspended services come back | see below |

Every constant that bounds something is declared with its meaning:
`MaxOrphans` (requests in flight without a client), `MaxTasks` (presses ahead of
the executor), `Events` (which of the disturbances a run allows), `MaxId` and
`MaxCount` (registrations and unlimited downloads of a behaviour). Two devices
with every event at once are beyond a five-minute run; the proofs cover them.
`MCMonitorWorlds` puts two worlds in one run, chosen at the start: a page that
watches or requests that fail, two devices or late requests. Each is an instance
of `MonitorLive` with fewer events or viewers, so that the product of both is never
built; what needs both at once is left to the theorems, and liveness that needs
both is not checked.
`MCAccounts` lets each behaviour exercise one of the four parts of `Accounts`,
which share only accounts and sessions. One about registrations has three users,
an administrator and two that register, because a wrong approval needs a second
name, and there accounts are only created, by `Manage` too; in the other parts
two accounts, enabled or not from the start, are created and given other roles at any
moment. Two clients suffice for its races, which are between one handler that read
and one that writes; the limits are lowered to two so that they are reached, and
the theorems hold for every limit.

`MCServer` holds the subsystems that share no state, so that their product is
never built: each behaviour exercises one of `Parts`, and the others rest. A part
restricts what the world does (how many requests, which failures), never what the
code does with it; its comment says how. The bounds, part by part:

| Part | Bounds | Why enough |
|---|---|---|
| recordings | 1 recording, 2 threads (1 in `server_live`), a queue of 2, 1 restart | rows of different recordings meet only in the queue and the pruning; the theorems have any number |
| retries | 2 recordings of one segment, 2 threads, the worker slow | a retry under way with the upload it repeats |
| speech | recordings of 0, 2½ and 3⅚ s, 4 marks, 6 ticks a second, activities of 2 ticks or more, 2 events | every case of clamping, rounding (a half, more, less), noise, too short and limit |
| checks | 2 conditions of which one cools down, 2 checkers, 3 events | two checks that cross, and the incident after |
| feed | 1 phone, 1 kill, 2 events, 1 event per answer | the answer that holds less than there is |
| watch | threshold 3, 2 disturbances | one during the count, one after it |
| one watcher, two watchers | 1 watcher with 1 request beside the process; 2 watchers, 1 checked at a time | one overlap; one that could starve the other |
| restore and backup, two restores | 2 processes, 2 versions, 1 failure or kill, 3 archives; `Keep` = 2, `Keeps` = {1, 2} | a failure at each step; the pruning reaches the safety backup |
| migration | 1 process, one portable archive | export, import and restoration in sequence |
| messages | 2 contacts, 3 messages, answers of 1, 1 loss | a message between a send and its answer |
| services | 1 service, patience 2, 1 fault | services do not touch each other's markers |

Each module states its fairness, `MCServer` the same for the parts that
`server_live` exercises: weak fairness of the worker's thread, of a phone's loop,
of the watch's loop, of the watchers' process that the watchdog starts every five
minutes and of the watchdog's loop itself, because each is a `while True` with a
sleep; strong fairness of a check that finds the reachable server (`Succeed`) and
of an acknowledgement that gets through (`Acknowledge`), because the network
fails again and again but not for ever.

*What `live_rearm` shows.* `disarmAndStop` ends with `stopSelf()`
(MonitorService.java:843). The buttons do not wait for it: "Disarm" enables "Arm"
at once. An "arm" pressed while the disarm waits for the server (up to the
read timeout when the network is bad) writes the preferences, is queued behind
it, and is destroyed with the service: the preferences say armed and nothing
arms. `docs/OPERATIONS.md` promises that after "Arm" the phone is controlled from
the PC. `stopSelf(startId)` would not stop a service that was started again.

*What `browser_rearm` shows.* `startCapture` awaits the camera
(monitor-source.js:442) and does not look again whether the page is still armed.
Disarmed meanwhile and armed again before its offer is answered, the page says
"armed" over a running capture: a poll that says "armed" stops only a state of
"live", and the page's own heartbeats feed the session. The note on the page
(monitor_source.html:135) says that camera and microphone are off while the
source is only armed. Looking at `sourceIsArmed` and `sourceId` after each
`await`, and stopping the stream if they changed, would do.

*What `accounts_single_use` shows.* `consume_monitor_pairing_code` reads the code
before its transaction begins (database.py:3152; sqlite3 opens one at the
`DELETE`) and ignores how many rows the `DELETE` removed: two requests that both
read the code each get a device and a token. `docs/OPERATIONS.md` calls the code
single-use. `BEGIN IMMEDIATE` before the `SELECT`, as in
`claim_file_share_download`, or a look at `rowcount`, would make it so.

## 4. Proofs

`MonitorLiveProofs` proves for every value of the constants:

- `TypeCorrect`: `Spec => []TypeOK`;
- `DevicesStayGood`: `Spec => []GoodDevices`;
- `ArmedIsOff`, `RecorderAlone`, `DisarmedIsOff`: the three properties of the
  camera;
- `SingleSource`: `Spec => []OneSourceOneSession`;
- `CameraObeys`: `Spec => ImplementsCameraControl`, the refinement.

*The argument.* None of the three camera properties is inductive: an executor
that waits for "arm" will declare the device armed without stopping anything, so
the device must already be quiet, and it is quiet because the arm button was
enabled, which happens only in a device that is disarmed or has a "disarm"
queued. `GoodDevice(m, op)` says that, for each kind of request the executor may
wait for. It is proved inductive together with `TypeOK`: a lemma for each method
of the service says what it preserves, a lemma for each action applies
`DeviceStep` (the step replaces one device and its request), and the server's
steps leave devices alone and never change the kind of a request. The three
properties are conjuncts of it, or follow from them.
`OneSourceOneSession` is inductive with `TypeOK`, transaction by transaction.

*The argument of the refinement.* `Known` is added to the invariants above: two
devices never hold the same source (`SourcesApart`: a drawn UUID is new), and a
poll on its way asks for the source its device holds (`PollsOwnSource`). The executor's steps are
reduced to one form, `Moves(d, m, j)` (device `d` becomes `m` and waits for `j`); all
of them only let go (`LetsGo`: `Release` in the contract), except the start of a
capture, which uses up a grant (`TurnOn`). A poll that is told "live" finds the
row of its own device (`Grant`). Any other step of the server changes the order
at most, to at most one device by `OneSourceOneSession` and `SourcesApart`
(`Order`).

`MonitorBrowserProofs` proves `TypeCorrect` (`Spec => []TypeOK`), `CameraIsKept`
(`Spec => NoCameraLost`) and `PagesObey` (`Spec => ImplementsCameraControl`) for
any pages and calls that overlap.

*The argument.* Types alone are not inductive: `disarmSource` deletes the source
in its local variable, and `startCapture` keeps a session in its own, so
`GoodPage(w, j)` says which kind of identifier each thread holds, when the thread
of `pollRemoteControl` holds none, and that the camera is off and no request is
out while it waits for `getUserMedia`. Every step of a page but closing it moves
one thread: `Moves(t, th, w, what, j)` is the form, with what it may do to camera
and source (`PollMove`, `SideMove`), and a lemma per action shows that the action
has it (`StepKinds`). For the refinement, `Apart` says that no two pages hold or
ask for the same source, the ones still being armed included (`Names`). A move
then only lets go (`Release`), or uses up a grant (`TurnOn`), or, when an arming is
answered, passes the order to the page that holds the row (`Order`); the first
transaction of a poll that is told "live" is `Grant`.

`AccountsProofs` proves for any clients, users, codes, links and limits:

- `TypeCorrect`: `Spec => []TypeOK`, with `TypeInv`: a request carries what its
  handler will read, and a revocation a link that exists;
- `ApprovalCorrect`: `Spec => ApprovalIsExact`;
- `AttemptsCorrect`: `Spec => []AttemptsBounded`;
- `DownloadsCorrect`: `Spec => []DownloadsWithinLimit`.

*The argument.* An approval names its row by a number, so `IdsInv` says of every
row that is shown or being approved that its number was drawn and that a waiting
registration with this number is this row; new numbers exceed the counter, which
is never reset (AUTOINCREMENT). For the two limits, what is still under way is
counted with what is recorded: `failed[u]` plus the clients past the check
(`Signing(u)`) stays within the bound although the check looks at `failed[u]`
alone, because whoever passes the check finds `failed[u] < MaxFailed` and at most
all clients are past it; the downloads sent plus those claimed (`Sending(s)`) stay
within `download_count`, which stays within the limit. `ServeForm` and `AskForm`
reduce each handler to what it does with the one request it serves.

`AlertsProofs` proves for any finitely many keys, any checkers and phones:
`AlertsAlternate` (`Spec => []OneIncident`), `AcknowledgedWasShown` (no phone
acknowledges what its owner was not shown) and `AlertsTypes`.

*The argument.* `OneIncident` is about a whole log, so it is first restated for any
sequence (`Alternating(s, act)`), with lemmas that say what is open after a log
that got longer: events of other keys neither open nor close, and a block in
which every key occurs once decides for its keys. The block a check appends is one
such (`LogFacts`: `SetToSeq` lists a finite set without repetition). The condition
`active` is in the invariant with the log, because the transaction reads it where
it would have to read the log; that it is the *same* transaction that reads
`active` and appends is what makes any order of two checks harmless.

`WebWatchersProofs` proves for any watchers, pages, requests and limits:
`EnabledIsScheduled` (`Spec => []ScheduledWhileEnabled`), `TurnsAreToldOnce`
(`Spec => []OneAlertPerTurn`) and `WatchersTypes`.

*The argument.* The schedule is one sequence without repetitions, and the lemmas on
`RemoveFirst`, `Append` and the batch that becomes due say whom they add or take.
`OneAlertPerTurn` says nothing of a check under way; `Follows(j, row, told)` does:
stage by stage, which of the alerts of this check the owner has heard already and
which are still in `note`, when the row it read is still that of the watcher but
for the switch. `Heard` demands it of the only check of a watcher, and of a
watcher without one that its row and the owner agree. A watcher that is edited or
checked twice at once joins `mixed`, for which nothing is claimed.

`BackupProofs` proves for any processes, versions, archives and bounds:
`RestoreCorrect` (`Spec => []RestoreIsAtomic`), `NetCorrect` (`Spec => []SafetyNet`)
and `BackupTypes`.

*The argument.* While no lock was stolen, a process between `hold` and the end of
its task is the one named in the lock, so at most one touches the content
(`Holding`). `Progress` says, stage by stage, which of the three parts are the
archive's and which are still those of before, on the way forward and on the way
back; a step of another process either is not on content at all or falsifies
`alone`. The safety net is proved without either condition, because it is only
about archives, which the lock does not guard: `Caught` says how far the safety backup of a
restoration has come: its pack is the installation's content, then it is in an
archive, then it has a checksum, and from the first replacement on what is installed
no longer matters. Until then a write would break the link between the two; it puts
the process in `torn` (`TornFacts`), whoever made it. `Grows` is the one fact needed of all the other
processes: what is in an archive stays there unless it is in `pushed`. Every step
that writes the directory (publish, sum, prune, install) is shown to grow it.
`pushed` (the archives that a pruning removed while as many newer ones stayed as
its job was told to keep) replaces what an
earlier form of `SafetyNet` read off the directory, the number of newer archives
there: an import may install an archive again under its old name, and the number
of those that are newer is no longer what it was at the pruning, so the earlier
form was not inductive.

`ServerProofs` extends `MCServer` and proves of the recordings `TypeCorrect`,
`RowsHaveFiles`, `ProcessingCorrect` and `SegmentsCorrect`, of the messages
`CursorHidesNothing` (`M!Spec => []M!NothingHidden`), and of the server watch, the
services and the analysis of speech what is listed below, for any recordings,
segments, threads, contacts, messages, marks, durations and bounds.

*The argument.* `RowHasFile` is not inductive: a thread may be about to unlink or
to insert. `ThreadsInv` says that the name of an upload is its own until its row
exists, and that what waits to be unlinked was drawn, has no row and can get
none; `WorkerInv` says what the worker's step implies of its row.
`NothingHidden` speaks of the page alone; what makes it inductive is what the
answers on their way may do to the page (`Hidden`): up to the cursor a request was
sent with, everything is shown, and its answer has no gap between that cursor and
its last message (`NoGap`). The cursor is a `Max`, of which nothing is known until
a finite set of numbers is shown to have a greatest member; `GreatestExists` gets
it from the well-foundedness of strict inclusion on finite sets, without
induction. `First(set, n)` has no gap because no more members are before an
earlier one than before a later one, and the rest is cardinality.

*The composition.* A step of `MCServer` is, for each subsystem, a step of its module
or leaves its variables alone (`RecordingsStep`, `AlertsStep`, `WatchersStep`,
`BackupStep`, `ConversationStep`, `WatchIsStep`, `ServicesIsStep`,
`AnalysisIsStep`), and a start is
a start of each (`InitialParts`). So each inductive invariant above is one of
`SafetySpec`, and the properties that `server_safety` checks are theorems of the
specification it runs, under the names it checks: `ServerTypes`,
`ServerKeepsRecordings`, `ServerAlertsAlternate`, `ServerSchedulesEnabled`,
`ServerTellsTurnsOnce`, `ServerRestoresWhole`, `ServerKeepsSafetyNet`,
`ServerHidesNothing`; `ServerTypes` is the type invariant of all eight. Three more are
proved here from the start:

- `ServerAlarmIsTrue`: undisturbed, the alarm of the server watch is on the screen
  between two checks exactly while the tracker says offline. The invariant carries
  it through the phases with what the pending event will do to the screen
  (`Announced`), and says that a tracker is offline exactly at the threshold
  (`Settled`), of the settings too, from which a killed watch starts again.
- `ServerMarksFirst`: the guardian marks a service before its command stops it,
  and what a recovery has left to start is still marked, through every kill of
  the check, failure, reboot and change by the owner.
- `ServerMarksSpeech`: the complete analysis of any recording, of any length and with
  any marks, marks the seconds in which speech begins.

*The argument about speech.* Each loop has an invariant that says what it has
computed of the items it has seen, in terms of the recording and not of its own
variables, and its last step hands that to the next loop. The marks are in the
order of their times and alternate (`MarksInv`); the k-th silence is from one of
them to the next (`PairInv`). From this alone the second loop is handed `Quiet`: the
silences are in order, and a tick is in one exactly if it is silent
(`PairedSilences`). Only one at the very start or end may be empty, which is where
the minimum silence is needed: otherwise two stretches of sound would touch and the
second would not begin with a silence before it. `Sound(list, c)` says that the
activities are exactly what is loud before the cursor, and that none of them
reaches it unless the recording ends there; so at the end they are the stretches
(`SoundStretches`). The starts are the rounded seconds of the chosen ones
(`Chosen`), still in order because rounding, with halves to the even second, is
monotone (`RoundKeepsOrder`), and so is clipping; comparing each with the last one
is then enough to have each once, in strict order (`Merged`). When the limit ends
the loop early, what it has seen is smaller than what it has not, so that the
result is the first of them, counted by cardinality (`FirstOfThem`).

*Assumptions*: `ServerAssumption` of `MonitorServer` and that of `MCServer`,
`LiveAssumption`, `BrowserAssumption` and `AccountsAssumption`, which TLC
evaluates in every run of the module. That of `MCServer` collects what the proof
modules assume: a second, the minimum silence and the number of events are at least
one, and the other times and the durations are numbers (`TicksAssumption`), the keys
are finitely many and a single event's key is none of them (`KeysAssumption`), NULL is no row, watcher or content, and limits are
numbers, the failures before an alert at least one (`ValuesAssumption`), `Nothing`
is no process and no lock, and the bounds are numbers (`NetAssumption`), no
contact is nobody (`MessagesAssumption`), and what a request starts on demand is a
service (`BoundsAssumption`).

*Model-checked only*: all liveness (TLAPS has no ENABLED), and the counterexamples.
Every invariant, every action property and both refinements of the passing runs
are theorems, of the specification that the run checks; an invariant of a module
that `MCServer` instantiates is checked under the name that `MCServer` gives it.

## 5. Plan

Done: the live monitor with both kinds of source, accounts, recordings, alerts,
server watch, watchers, backup and migration, messages, services. Left, in order:

1. Services: the scheduled backup's lock directory and the watchdog's own start.
2. The AI runtime, once what it promises can be stated without a condition for
   each of its races (below).

## 6. Not modelled

- *AI runtime* (`ai_runtime.py`). `start_selected_model` takes no `SWITCH_LOCK`,
  and the lock is of one process only; two chats can end each other's
  loading model, a chat during a switch starts the old model and the switch
  reports success on it, a rollback may see the server it has just terminated
  answer, and an idle stop reads an activity that is marked only at the start and
  the end of an answer. Every statement about the running model would exclude all
  of these. Its start on demand and its suspension are in `Services`.
- *Chunked media uploads* (`media.py`). `initialize_large_media_upload` uses `user`
  at line 332 before it is assigned, so no upload session is ever created, although
  `docs/OPERATIONS.md:91` describes resumable uploads; the code behind it cannot be
  reached. The rest is single requests on files.
- *Motion detection*: arithmetic on frames in one thread; what it reports is the
  single event of `Alerts`.
- *Downloads*, *system status and resources*, *file vault*: proxies, measurements
  and file operations without a state of their own.
- *Front end, installers, HTTPS, Vaultwarden, AdGuard Home*: presentation and
  one-shot scripts.
- *Watchdog's start and the scheduled backup's lock directory*: the shell against
  the process table.

Noticed on the way, in parts that are modelled but where no run states it:

- A user's request recreates `UPLOAD_DIR` between the two renames of a restoration
  (backup.py:677): the second rename fails, the rollback cannot put the old files
  back, and they are deleted with the working directory; `docs/OPERATIONS.md:136`
  speaks of a rollback to the previous state. They survive in the safety backup.
- An import that fails after `restore_backup` leaves a new core with the old
  configuration and media (cloud-migrate.py:500).
- A message sent from the page moves its cursor over one that came meanwhile and was
  not fetched (`passed` in `Messages`); when another contact was selected before the
  answer came, over what that one wrote (messages.js:223).
- An answer about an ended session stops the next capture of the browser source
  (monitor-source.js:424), until the next poll starts it again.
- A copy converted for browsers while its recording is deleted stays behind
  (`Convert` after `Unlink`).
- The worker of the analyses ends for good when writing "failed" raises.
- `fetch_page` turns network errors into `ValueError`, and `check_watcher` counts
  every `ValueError` as a failure (web_watchers.py:354), also that of a
  `Content-Length` that is no number. A charset that Python does not know
  (`LookupError`, web_watchers.py:177) or a malformed answer
  (`http.client.HTTPException`) passes both, and ends the process before the other
  due watchers.
- `activate` and `deactivate` of `manage_users.py` raise `NameError` (:109).
