----------------------------- MODULE WebWatchers -----------------------------
(***************************************************************************)
(* The pages the owner has watched (app/web_watchers.py, app/database.py). *)
(* A check reads the watcher's row, fetches the page for up to some        *)
(* seconds, records alerts and writes its result to the row by number,     *)
(* each in a transaction of its own, while the owner edits, disables,      *)
(* deletes or checks the same watcher.  The watchdog's process checks the  *)
(* watchers that are due, a few at a time, with the rows it read at its    *)
(* start.                                                                  *)
(***************************************************************************)
EXTENDS Naturals, Sequences, SequencesExt

CONSTANTS
    Watcher,      \* numbers of watchers
    Url,          \* pages
    OddUrl,       \* pages whose answer raises what no handler expects
    Content,      \* what a page can say
    Needle,       \* the contents in which the text that is looked for occurs
    Runner,       \* the process of the watchdog
    Request,      \* the owner's "check now"
    Unknown,      \* SQL NULL
    Limit,        \* --limit
    Failures,     \* FAILURES_BEFORE_ALERT
    MaxKills      \* bound: checks that are killed

VARIABLES
    watcher,      \* web_watchers
    ready,        \* the watchers whose next_check_at has passed, in its order
    waiting,      \* those whose next_check_at is still to come
    job,          \* the check of the process and of each request
    todo,         \* rows the process has read and not checked yet
    told,         \* what each watcher's alerts said last of its condition and
                  \* of its page, while it is not mixed
    repeated,     \* watchers whose alerts said one thing twice in a row
    mixed,        \* watchers that were edited, or had a check killed or mixed
                  \* with another
    kills

rowVars == <<watcher, ready, waiting>>
watcherVars == <<watcher, ready, waiting, job, todo, told,
                 repeated, mixed, kills>>

-----------------------------------------------------------------------------
\* seen stands for last_hash and last_match, which are of the same fetch.
Row == [url      : Url,
        mode     : {"change", "contains", "missing"},
        enabled  : BOOLEAN,
        seen     : Content \cup {Unknown},
        failures : 0..Failures]

NoJob == [at |-> "idle", id |-> Unknown, row |-> Unknown, got |-> Unknown,
          note |-> <<>>]

TypeOK ==
    /\ watcher \in [Watcher -> Row \cup {Unknown}]
    /\ ready \in Seq(Watcher) /\ IsInjective(ready)
    /\ waiting \subseteq Watcher
    /\ job \in [{Runner} \cup Request ->
                   [at   : {"idle", "fetch", "note", "save", "notelost"},
                    id   : Watcher \cup {Unknown},
                    row  : Row \cup {Unknown},
                    got  : Content \cup {Unknown},
                    note : Seq({"changed", "active", "inactive", "lost", "back"})]]
    /\ todo \in Seq([id : Watcher, row : Row])
    /\ told \in [Watcher -> [turn : {"active", "inactive"}, reach : {"lost", "back"}]]
    /\ repeated \subseteq Watcher
    /\ mixed \subseteq Watcher
    /\ kills \in 0..MaxKills

Init ==
    /\ watcher = [w \in Watcher |-> Unknown]
    /\ ready = <<>> /\ waiting = {}
    /\ job = [c \in {Runner} \cup Request |-> NoJob]
    /\ todo = <<>>
    /\ told = [w \in Watcher |-> [turn |-> "inactive", reach |-> "back"]]
    /\ repeated = {}
    /\ mixed = {}
    /\ kills = 0

Exists(w) == watcher[w] # Unknown
Checked(w) == {c \in {Runner} \cup Request : job[c].at # "idle" /\ job[c].id = w}

-----------------------------------------------------------------------------
(* The owner's requests.                                                   *)

\* next_check_at = now, or NULL
Schedule(w, enabled) ==
    /\ ready' = IF enabled THEN Append(RemoveFirst(ready, w), w) ELSE RemoveFirst(ready, w)
    /\ waiting' = waiting \ {w}

\* create_web_watcher and update_web_watcher: nothing of the past stays.
Fresh(u, m, enabled) == [url |-> u, mode |-> m, enabled |-> enabled,
                         seen |-> Unknown, failures |-> 0]

Create(w) ==
    /\ ~Exists(w) /\ w \notin mixed
    /\ \E u \in Url, m \in {"change", "contains", "missing"}, e \in BOOLEAN :
          watcher' = [watcher EXCEPT ![w] = Fresh(u, m, e)] /\ Schedule(w, e)
    /\ UNCHANGED <<job, todo, told, repeated, mixed, kills>>

Update(w) ==
    /\ Exists(w)
    /\ \E u \in Url, m \in {"change", "contains", "missing"}, e \in BOOLEAN :
          watcher' = [watcher EXCEPT ![w] = Fresh(u, m, e)] /\ Schedule(w, e)
    /\ mixed' = mixed \cup {w}
    /\ UNCHANGED <<job, todo, told, repeated, kills>>

\* set_web_watcher_enabled
Enable(w) ==
    /\ Exists(w)
    /\ \E e \in BOOLEAN : watcher' = [watcher EXCEPT ![w].enabled = e] /\ Schedule(w, e)
    /\ UNCHANGED <<job, todo, told, repeated, mixed, kills>>

\* AUTOINCREMENT: a number is not given again.
Delete(w) ==
    /\ Exists(w)
    /\ watcher' = [watcher EXCEPT ![w] = Unknown]
    /\ Schedule(w, FALSE)
    /\ mixed' = mixed \cup {w}
    /\ UNCHANGED <<job, todo, told, repeated, kills>>

-----------------------------------------------------------------------------
(* A check: check_web_watcher.                                             *)

Begin(c, w, row) ==
    /\ job' = [job EXCEPT ![c] = [NoJob EXCEPT !.at = "fetch", !.id = w, !.row = row]]
    /\ mixed' = IF Checked(w) = {} /\ row = watcher[w] THEN mixed ELSE mixed \cup {w}

CheckNow(c, w) ==
    /\ c \in Request /\ job[c].at = "idle" /\ Exists(w)
    /\ Begin(c, w, watcher[w])
    /\ UNCHANGED <<rowVars, todo, told, repeated, kills>>

\* list_due_web_watchers
ListDue ==
    LET due == SubSeq(ready, 1, IF Len(ready) < Limit THEN Len(ready) ELSE Limit) IN
    /\ job[Runner].at = "idle" /\ todo = <<>> /\ ready # <<>>
    /\ todo' = [i \in DOMAIN due |-> [id |-> due[i], row |-> watcher[due[i]]]]
    /\ UNCHANGED <<rowVars, job, told, repeated, mixed, kills>>

CheckDue ==
    /\ job[Runner].at = "idle" /\ todo # <<>>
    /\ Begin(Runner, Head(todo).id, Head(todo).row)
    /\ todo' = Tail(todo)
    /\ UNCHANGED <<rowVars, told, repeated, kills>>

\* What a success tells the owner, from the row as it was read.
Holds(row, content) == (row.mode = "contains") = (content \in Needle)

PageNote(row, got) ==
    LET was == row.seen # Unknown /\ Holds(row, row.seen) IN
    CASE row.mode = "change" ->
            IF row.seen \notin {Unknown, got} THEN <<"changed">> ELSE <<>>
      [] row.mode # "change" /\ Holds(row, got) ->
            IF was THEN <<>> ELSE <<"active">>
      [] row.mode # "change" /\ ~Holds(row, got) ->
            IF was THEN <<"inactive">> ELSE <<>>

\* Wrong: a page is back after any failure.
BackNote_Wrong(row) == IF row.failures > 0 THEN <<"back">> ELSE <<>>

BackNote(row) == IF row.failures >= Failures THEN <<"back">> ELSE <<>>

Fetch(c) ==
    LET row == job[c].row IN
    /\ job[c].at = "fetch" /\ row.url \notin OddUrl
    /\ \E content \in Content :
          LET note == PageNote(row, content) \o BackNote(row) IN
          job' = [job EXCEPT ![c] = [@ EXCEPT !.at = IF note = <<>> THEN "save" ELSE "note",
                                              !.got = content, !.note = note]]
    /\ UNCHANGED <<rowVars, todo, told, repeated, mixed, kills>>

FetchFails(c) ==
    /\ job[c].at = "fetch"
    /\ job' = [job EXCEPT ![c].at = "save"]
    /\ UNCHANGED <<rowVars, todo, told, repeated, mixed, kills>>

\* What fetch_page does not turn into a ValueError ends the process.
Break(c) ==
    /\ job[c].at = "fetch" /\ job[c].row.url \in OddUrl
    /\ job' = [job EXCEPT ![c] = NoJob]
    /\ todo' = IF c = Runner THEN <<>> ELSE todo
    /\ UNCHANGED <<rowVars, told, repeated, mixed, kills>>

\* watcher_alert
Tell(w, a) ==
    LET new == CASE a = "changed" -> told[w]
                 [] a \in {"active", "inactive"} -> [told[w] EXCEPT !.turn = a]
                 [] a \in {"lost", "back"} -> [told[w] EXCEPT !.reach = a]
    IN  /\ told' = IF w \in mixed THEN told ELSE [told EXCEPT ![w] = new]
        /\ repeated' = IF w \in mixed \/ a = "changed" \/ new # told[w] THEN repeated
                       ELSE repeated \cup {w}

\* The save follows the alerts of a success; that of a failure is behind it.
Alert(c) ==
    LET rest == Tail(job[c].note) IN
    /\ job[c].at \in {"note", "notelost"}
    /\ Tell(job[c].id, Head(job[c].note))
    /\ job' = [job EXCEPT ![c] =
          IF rest # <<>> THEN [@ EXCEPT !.note = rest]
          ELSE IF @.at = "note" THEN [@ EXCEPT !.at = "save", !.note = <<>>]
          ELSE NoJob]
    /\ UNCHANGED <<rowVars, todo, mixed, kills>>

\* Wrong: the first of two definitions of save_web_watcher_result.
Reschedules_Wrong(w) == TRUE

\* save_web_watcher_result, the definition that counts: the second of two.
\* The failures are counted from the row as it was read.
Reschedules(w) == watcher[w].enabled
NewFailures(row) == IF row.failures < Failures THEN row.failures + 1 ELSE Failures

Save(c) ==
    LET w      == job[c].id
        row    == job[c].row
        failed == job[c].got = Unknown
        lost   == failed /\ row.failures + 1 = Failures
    IN
    /\ job[c].at = "save"
    /\ IF Exists(w)
       THEN /\ watcher' = [watcher EXCEPT
                  ![w].seen = IF failed THEN row.seen ELSE job[c].got,
                  ![w].failures = IF failed THEN NewFailures(row) ELSE 0]
            /\ ready' = RemoveFirst(ready, w)
            /\ waiting' = IF Reschedules(w) THEN waiting \cup {w} ELSE waiting \ {w}
       ELSE UNCHANGED rowVars
    /\ job' = [job EXCEPT ![c] = IF lost THEN [@ EXCEPT !.at = "notelost",
                                                       !.note = <<"lost">>]
                                 ELSE NoJob]
    /\ UNCHANGED <<todo, told, repeated, mixed, kills>>

\* The process or the server is killed.
Kill(c) ==
    /\ job[c].at # "idle" /\ kills < MaxKills
    /\ kills' = kills + 1
    /\ mixed' = mixed \cup {job[c].id}
    /\ job' = [job EXCEPT ![c] = NoJob]
    /\ todo' = IF c = Runner THEN <<>> ELSE todo
    /\ UNCHANGED <<rowVars, told, repeated>>

-----------------------------------------------------------------------------
\* Wrong: the latest comes first.
Ripen_Wrong(w) ==
    /\ w \in waiting
    /\ waiting' = waiting \ {w}
    /\ ready' = <<w>> \o ready
    /\ UNCHANGED <<watcher, job, todo, told, repeated, mixed, kills>>

\* next_check_at passes.
Ripen(w) ==
    /\ w \in waiting
    /\ waiting' = waiting \ {w}
    /\ ready' = Append(ready, w)
    /\ UNCHANGED <<watcher, job, todo, told, repeated, mixed, kills>>

Run == ListDue \/ CheckDue \/ Fetch(Runner) \/ FetchFails(Runner) \/ Break(Runner)
       \/ Alert(Runner) \/ Save(Runner)

Next ==
    \/ Run
    \/ \E w \in Watcher : Create(w) \/ Update(w) \/ Enable(w) \/ Delete(w) \/ Ripen(w)
    \/ \E c \in Request : \/ \E w \in Watcher : CheckNow(c, w)
                          \/ Fetch(c) \/ FetchFails(c) \/ Break(c)
                          \/ Alert(c) \/ Save(c)
    \/ \E c \in {Runner} \cup Request : Kill(c)

\* The watchdog starts the process every five minutes.
Fairness == WF_watcherVars(Run)

Spec == Init /\ [][Next]_watcherVars /\ Fairness

-----------------------------------------------------------------------------
(* A watcher is in the schedule exactly while it is enabled: no late       *)
(* result of a check puts a disabled or deleted one back, and none takes   *)
(* an enabled one out (save_web_watcher_result).                           *)
ScheduledWhileEnabled ==
    /\ waiting \cap ToSet(ready) = {}
    /\ \A w \in Watcher :
          (Exists(w) /\ watcher[w].enabled) <=> w \in waiting \cup ToSet(ready)

(* While checks of a watcher come one at a time and nobody edits it, its   *)
(* owner hears of every turn once: "active" and "inactive" alternate, and  *)
(* so do "lost" and "back", however failures and successes mix             *)
(* (check_web_watcher; tests/test_web_watchers.py:136 and :156).           *)
OneAlertPerTurn == repeated \subseteq mixed

(* Every watcher that is due is checked or taken from the schedule, unless *)
(* a page that breaks the process is due as well: what cannot be reached   *)
(* and what is checked often keep no other watcher waiting                 *)
(* (list_due_web_watchers, run_due_web_watchers).  It is stated of owners  *)
(* that do not save a due watcher again and again: each time it goes to    *)
(* the end of the line.                                                    *)
OddDue == \E i \in DOMAIN ready : watcher[ready[i]].url \in OddUrl

EveryoneIsChecked ==
    \A w \in Watcher : w \in ToSet(ready) ~> w \notin ToSet(ready) \/ OddDue

=============================================================================
