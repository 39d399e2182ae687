------------------------------ MODULE ServerWatch ------------------------------
(***************************************************************************)
(* The watch a phone keeps on the server (ServerWatchService.java,         *)
(* ServerHealthTracker.java): one thread checks the server again and       *)
(* again, counts failures, writes the count to the settings and then tells *)
(* the owner that the server went down or came back.  The process can be   *)
(* killed between any two of these steps, and the user can start the watch *)
(* again while it runs; both make a new tracker from the settings.         *)
(***************************************************************************)
EXTENDS Naturals

CONSTANTS
    FailureThreshold,   \* failureThreshold of the settings
    MaxDisruptions      \* bound: kills and new starts

VARIABLES
    reachable,          \* the server can be reached and says "online"
    tracker,            \* healthTracker: consecutiveFailures and offline
    settings,           \* the same two in ServerMonitorSettingsStore
    phase,              \* where pollSafely is
    event,              \* what the tracker returned
    alarm,              \* SERVER_DOWN_NOTIFICATION_ID is on the screen
    disruptions

watchVars == <<reachable, tracker, settings, phase, event, alarm, disruptions>>

-----------------------------------------------------------------------------
Health == [failures : 0..FailureThreshold, offline : BOOLEAN]

TypeOK ==
    /\ reachable \in BOOLEAN
    /\ tracker \in Health /\ settings \in Health
    /\ phase \in {"wait", "persist", "notify"}
    /\ event \in {"none", "down", "recovered"}
    /\ alarm \in BOOLEAN
    /\ disruptions \in 0..MaxDisruptions

Init ==
    /\ reachable \in BOOLEAN
    /\ tracker = [failures |-> 0, offline |-> FALSE]
    /\ settings = tracker
    /\ phase = "wait" /\ event = "none"
    /\ alarm = FALSE
    /\ disruptions = 0

\* recordSuccess
Succeed ==
    /\ phase = "wait" /\ reachable
    /\ event' = IF tracker.offline THEN "recovered" ELSE "none"
    /\ tracker' = [failures |-> 0, offline |-> FALSE]
    /\ phase' = "persist"
    /\ UNCHANGED <<reachable, settings, alarm, disruptions>>

\* Wrong: the failures before this one are forgotten.
Counted_Wrong(n) == 1

\* recordFailure: nothing asks how far the count is beyond the threshold.
Counted(n) == IF n < FailureThreshold THEN n + 1 ELSE n
Fail ==
    LET down == ~tracker.offline /\ tracker.failures + 1 >= FailureThreshold IN
    /\ phase = "wait"
    /\ event' = IF down THEN "down" ELSE "none"
    /\ tracker' = [failures |-> Counted(tracker.failures),
                   offline  |-> tracker.offline \/ down]
    /\ phase' = "persist"
    /\ UNCHANGED <<reachable, settings, alarm, disruptions>>

\* persistHealthState writes what the present tracker says.
Persist ==
    /\ phase = "persist"
    /\ settings' = tracker
    /\ phase' = "notify"
    /\ UNCHANGED <<reachable, tracker, event, alarm, disruptions>>

\* notifyServerDown and notifyRecovery
Tell ==
    /\ phase = "notify"
    /\ alarm' = (event = "down" \/ (alarm /\ event # "recovered"))
    /\ phase' = "wait" /\ event' = "none"
    /\ UNCHANGED <<reachable, tracker, settings, disruptions>>

Turn == /\ reachable' = ~reachable
        /\ UNCHANGED <<tracker, settings, phase, event, alarm, disruptions>>

\* The process is killed; START_STICKY brings the service back.
Kill ==
    /\ disruptions < MaxDisruptions
    /\ disruptions' = disruptions + 1
    /\ tracker' = settings
    /\ phase' = "wait" /\ event' = "none"
    /\ UNCHANGED <<reachable, settings, alarm>>

\* schedulePolling with a check under way, which goes on with the new tracker.
StartAgain ==
    /\ disruptions < MaxDisruptions
    /\ disruptions' = disruptions + 1
    /\ tracker' = settings
    /\ UNCHANGED <<reachable, settings, phase, event, alarm>>

Next == Succeed \/ Fail \/ Persist \/ Tell \/ Turn \/ Kill \/ StartAgain

\* The executor checks at a fixed delay, and a reachable server answers now
\* and then.
Turns == Fail \/ Persist \/ Tell
Fairness == WF_watchVars(Turns) /\ SF_watchVars(Succeed)

Spec == Init /\ [][Next]_watchVars /\ Fairness

-----------------------------------------------------------------------------
(* The owner is told: of a server that goes down and stays down, and of    *)
(* one that comes back and stays - from any state the last disturbance can *)
(* leave in which the tracker does not believe that it has told already    *)
(* (docs/OPERATIONS.md:613).                                               *)
OwnerIsTold ==
    LET quiet == phase = "wait" /\ disruptions = MaxDisruptions IN
    /\ (quiet /\ ~reachable /\ ~tracker.offline) ~> (alarm \/ reachable)
    /\ (quiet /\ reachable /\ tracker.offline /\ alarm) ~> (~alarm \/ ~reachable)

=============================================================================
