-------------------------------- MODULE Alerts --------------------------------
(***************************************************************************)
(* The reliability alerts: checks that compare the state of the server     *)
(* with what was wrong at the last one (app/reliability_alerts.py,         *)
(* app/database.py), the log of events they write, and the phones that     *)
(* fetch the events, show them and acknowledge them                        *)
(* (ServerWatchService.consumeAlertFeed).                                  *)
(*                                                                         *)
(* A check measures first, reads the settings then, and writes last; the   *)
(* watchdog's process and the administrators' requests check at the same   *)
(* time.  A phone can lose any request or answer and be killed at any      *)
(* point.                                                                  *)
(***************************************************************************)
EXTENDS Naturals, Sequences, SequencesExt

CONSTANTS
    Key,         \* what can be wrong: the keys of alert conditions
    OtherKey,    \* a key that only single events carry: a test, a movement,
                 \* a watched page
    Checker,     \* the watchdog's process and administrators' requests
    Phone,       \* paired phones that watch the server
    FeedLimit,   \* MAX_ALERTS_PER_POLL
    MaxEvents,   \* bound: events in a behaviour
    MaxKills     \* bound: kills of each phone's application

VARIABLES
    problems,    \* what is wrong with the server
    watched,     \* the conditions the settings ask for
    active,      \* system_alert_states with is_active = 1
    cooled,      \* active ones last alerted more than the cooldown ago
    events,      \* system_alert_events: its n-th member has the id n
    old,         \* the events up to this one are older than 30 days
    pruned,      \* the events up to this one are deleted
    acked,       \* system_alert_deliveries: the events of each phone
    check,       \* what each checker is doing
    poll,        \* what each phone is doing
    shown,       \* events each phone has notified its owner of
    kills

serverVars == <<problems, watched, active, cooled, events, old, pruned>>
alertVars == <<problems, watched, active, cooled, events, old, pruned, acked,
               check, poll, shown, kills>>

-----------------------------------------------------------------------------
Event == [key : Key \cup {OtherKey},
          type : {"triggered", "repeated", "resolved", "single"}]

NoCheck == [at |-> "idle", found |-> {}]
NoPoll  == [at |-> "idle", feed |-> {}, done |-> {}]

TypeOK ==
    /\ problems \subseteq Key
    /\ watched \subseteq Key
    /\ active \subseteq Key
    /\ cooled \subseteq active
    /\ events \in Seq(Event)
    /\ old \in 0..Len(events)
    /\ pruned \in 0..old
    /\ acked \in [Phone -> SUBSET (1..Len(events))]
    /\ check \in [Checker -> [at : {"idle", "settings", "sync", "prune"},
                              found : SUBSET Key]]
    /\ poll \in [Phone -> [at : {"idle", "notify", "ack"},
                           feed : SUBSET (1..Len(events)),
                           done : SUBSET (1..Len(events))]]
    /\ shown \in [Phone -> SUBSET (1..Len(events))]
    /\ kills \in [Phone -> 0..MaxKills]

Init ==
    /\ problems = {} /\ watched = Key
    /\ active = {} /\ cooled = {}
    /\ events = <<>> /\ old = 0 /\ pruned = 0
    /\ acked = [p \in Phone |-> {}]
    /\ check = [c \in Checker |-> NoCheck]
    /\ poll = [p \in Phone |-> NoPoll]
    /\ shown = [p \in Phone |-> {}]
    /\ kills = [p \in Phone |-> 0]

-----------------------------------------------------------------------------
(* A check: run_reliability_check.                                         *)

\* collect_system_status and the other measurements.
Measure(c) ==
    /\ check[c].at = "idle"
    /\ check' = [check EXCEPT ![c] = [at |-> "settings", found |-> problems]]
    /\ UNCHANGED <<serverVars, acked, poll, shown, kills>>

\* get_system_alert_settings and build_alert_conditions
Conditions(c) ==
    /\ check[c].at = "settings"
    /\ check' = [check EXCEPT ![c] = [at |-> "sync", found |-> @.found \cap watched]]
    /\ UNCHANGED <<serverVars, acked, poll, shown, kills>>

Log(keys, type) ==
    [i \in DOMAIN SetToSeq(keys) |-> [key |-> SetToSeq(keys)[i], type |-> type]]

\* sync_system_alert_conditions, one immediate transaction.
\* Wrong: what is wrong still is an incident of its own.
Triggered_Wrong(found) == found
Triggered(found) == found \ active

Repeated(found) == found \cap cooled

\* Wrong: a condition that is gone stays.
Resolved_Wrong(found) == {}
Resolved(found) == active \ found

Sync(c) ==
    LET found == check[c].found IN
    /\ check[c].at = "sync"
    /\ events' = events \o Log(Triggered(found), "triggered")
                        \o Log(Repeated(found), "repeated")
                        \o Log(Resolved(found), "resolved")
    /\ Len(events') <= MaxEvents
    /\ active' = found
    /\ cooled' = cooled \ (Repeated(found) \cup Resolved(found))
    /\ check' = [check EXCEPT ![c] = [NoCheck EXCEPT !.at = "prune"]]
    /\ UNCHANGED <<problems, watched, old, pruned, acked, poll, shown, kills>>

\* prune_system_alert_events; the deliveries go with the events.
Prune(c) ==
    /\ check[c].at = "prune"
    /\ pruned' = old
    /\ acked' = [p \in Phone |-> acked[p] \ 1..old]
    /\ check' = [check EXCEPT ![c] = NoCheck]
    /\ UNCHANGED <<problems, watched, active, cooled, events, old, poll, shown, kills>>

\* The process is killed, or an exception ends the check.
Abandon(c) ==
    /\ check[c].at # "idle"
    /\ check' = [check EXCEPT ![c] = NoCheck]
    /\ UNCHANGED <<serverVars, acked, poll, shown, kills>>

\* record_system_alert_event
Record ==
    /\ Len(events) < MaxEvents
    /\ events' = Append(events, [key |-> OtherKey, type |-> "single"])
    /\ UNCHANGED <<problems, watched, active, cooled, old, pruned, acked, check,
                   poll, shown, kills>>

-----------------------------------------------------------------------------
(* The world, the settings and time.                                       *)

Change(k) ==
    /\ problems' \in {problems \cup {k}, problems \ {k}}
    /\ problems' # problems
    /\ UNCHANGED <<watched, active, cooled, events, old, pruned, acked, check,
                   poll, shown, kills>>

\* update_system_alert_settings
SaveSettings ==
    /\ \E w \in SUBSET Key : watched' = w
    /\ watched' # watched
    /\ UNCHANGED <<problems, active, cooled, events, old, pruned, acked, check,
                   poll, shown, kills>>

Cool(k) ==
    /\ k \in active \ cooled
    /\ cooled' = cooled \cup {k}
    /\ UNCHANGED <<problems, watched, active, events, old, pruned, acked, check,
                   poll, shown, kills>>

GrowOld ==
    /\ old < Len(events)
    /\ old' = old + 1
    /\ UNCHANGED <<problems, watched, active, cooled, events, pruned, acked, check,
                   poll, shown, kills>>

-----------------------------------------------------------------------------
(* The phones: consumeAlertFeed.                                           *)

\* list_system_alert_events: the newest that the phone has not acknowledged.
Unacked(p) == {e \in 1..Len(events) : e > pruned /\ e \notin acked[p]}
Feed(p) == {e \in Unacked(p) : Cardinality({f \in Unacked(p) : f > e}) < FeedLimit}

Fetch(p) ==
    /\ poll[p].at = "idle" /\ Unacked(p) # {}
    /\ poll' = [poll EXCEPT ![p] = [at |-> "notify", feed |-> Feed(p), done |-> {}]]
    /\ UNCHANGED <<serverVars, acked, check, shown, kills>>

\* The oldest first.
Notify(p) ==
    /\ poll[p].at = "notify"
    /\ \E e \in poll[p].feed :
          /\ \A f \in poll[p].feed : e <= f
          /\ shown' = [shown EXCEPT ![p] = @ \cup {e}]
          /\ poll' = [poll EXCEPT ![p].feed = @ \ {e}, ![p].done = @ \cup {e}]
    /\ UNCHANGED <<serverVars, acked, check, kills>>

SendAck(p) ==
    /\ poll[p].at = "notify" /\ poll[p].feed = {}
    /\ poll' = [poll EXCEPT ![p].at = "ack"]
    /\ UNCHANGED <<serverVars, acked, check, shown, kills>>

\* Wrong: whatever has come meanwhile is acknowledged with the rest.
Acknowledge_Wrong(p) ==
    /\ poll[p].at = "ack"
    /\ acked' = [acked EXCEPT ![p] = @ \cup Unacked(p)]
    /\ poll' = [poll EXCEPT ![p] = NoPoll]
    /\ UNCHANGED <<serverVars, check, shown, kills>>

\* acknowledge_system_alert_events, of the events that are still there.
Acknowledge(p) ==
    /\ poll[p].at = "ack"
    /\ acked' = [acked EXCEPT ![p] = @ \cup {e \in poll[p].done : e > pruned}]
    /\ poll' = [poll EXCEPT ![p] = NoPoll]
    /\ UNCHANGED <<serverVars, check, shown, kills>>

\* The request is lost.
AckLost(p) ==
    /\ poll[p].at = "ack"
    /\ poll' = [poll EXCEPT ![p] = NoPoll]
    /\ UNCHANGED <<serverVars, acked, check, shown, kills>>

Kill(p) ==
    /\ poll[p].at # "idle" /\ kills[p] < MaxKills
    /\ poll' = [poll EXCEPT ![p] = NoPoll]
    /\ kills' = [kills EXCEPT ![p] = @ + 1]
    /\ UNCHANGED <<serverVars, acked, check, shown>>

Next ==
    \/ \E c \in Checker : Measure(c) \/ Conditions(c) \/ Sync(c) \/ Prune(c) \/ Abandon(c)
    \/ \E k \in Key : Change(k) \/ Cool(k)
    \/ Record \/ SaveSettings \/ GrowOld
    \/ \E p \in Phone : \/ Fetch(p) \/ Notify(p) \/ SendAck(p)
                        \/ Acknowledge(p) \/ AckLost(p) \/ Kill(p)

\* A phone polls forever and its thread goes on; the network lets an
\* acknowledgement through now and then.
Polls(p) == Fetch(p) \/ Notify(p) \/ SendAck(p)
Fairness ==
    \A p \in Phone : /\ WF_alertVars(Polls(p))
                     /\ SF_alertVars(Acknowledge(p))

Spec == Init /\ [][Next]_alertVars /\ Fairness

-----------------------------------------------------------------------------
(* One incident, one alert (docs/OPERATIONS.md:610): of the events of a    *)
(* condition the first is "triggered", and "triggered" comes again only    *)
(* after "resolved", whichever checks overlap and however stale what they  *)
(* measured; and the condition is active exactly when its last event did   *)
(* not resolve it.                                                         *)
Before(i) == {j \in 1..(i - 1) : events[j].key = events[i].key}
LastBefore(i, k) == {j \in 1..(i - 1) : /\ events[j].key = k
                                        /\ \A m \in (j + 1)..(i - 1) : events[m].key # k}
Open(i, k) == \E j \in LastBefore(i, k) : events[j].type # "resolved"

OneIncident ==
    /\ \A i \in DOMAIN events :
          events[i].key \in Key =>
              (events[i].type = "triggered" <=> ~Open(i, events[i].key))
    /\ \A k \in Key : k \in active <=> Open(Len(events) + 1, k)

(* Every event reaches the owner of every phone, or grows too old to be    *)
(* kept.                                                                   *)
Delivered ==
    \A p \in Phone, e \in 1..MaxEvents :
        e \in DOMAIN events ~> e \in shown[p] \/ e <= pruned

=============================================================================
