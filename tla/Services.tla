------------------------------- MODULE Services -------------------------------
(***************************************************************************)
(* The heavy services of the phone (scripts/cloud-services.sh), which      *)
(* three hands start and stop: the owner on the status page                *)
(* (app/service_control.py), the watchdog, and in its loop the guardian    *)
(* that suspends them while the phone is hot (app/thermal_guardian.py).    *)
(*                                                                         *)
(* A suspended service has a marker, which keeps the watchdog from         *)
(* starting it.  The guardian is killed when a check takes too long, the   *)
(* commands fail, services die, and the phone restarts.                    *)
(***************************************************************************)
EXTENDS Naturals, FiniteSets

CONSTANTS
    Service,
    LastResort,     \* the services that only a critical temperature stops
    OnDemand,       \* the services a user's request starts, whatever is set
    Nobody,         \* no service
    Patience,       \* missed answers after which the watchdog restarts
    MaxFaults       \* bound: failures of the world in a behaviour

VARIABLES
    enabled,        \* autostart.conf: START_...
    running,        \* the services that answer
    suspended,      \* SUSPENDED_DIR: the markers
    guarded,        \* thermal-policy.json: enabled
    heat,           \* what the sensors say
    loop,           \* the watchdog: [stage, todo, at, goes, loaded]
    missed,         \* its counters
    change,         \* the owner's request: [service, on, previous]
    faults

vars == <<enabled, running, suspended, guarded, heat, loop, missed, change, faults>>

Heat  == {"unknown", "cool", "mild", "warm", "critical"}
Stage == {"start", "suspend", "stopping", "recover", "starting", "decide"}

Resting == [stage |-> "start", todo |-> {}, at |-> Nobody, goes |-> FALSE, loaded |-> {}]

Init ==
    /\ enabled \in SUBSET Service
    /\ running = enabled
    /\ suspended = {}
    /\ guarded \in BOOLEAN
    /\ heat \in Heat
    /\ loop = Resting
    /\ missed = [s \in Service |-> 0]
    /\ change = Nobody
    /\ faults = 0

Fault == faults < MaxFaults /\ faults' = faults + 1

-----------------------------------------------------------------------------
(* run_guardian_check, in the watchdog's loop.                             *)

\* "disabled" when the policy is off; "mild" is normal, not yet recovered.
Level   == IF guarded THEN heat ELSE "disabled"
Targets == CASE Level = "critical" -> running
             [] Level = "warm" -> running \ LastResort
             [] OTHER -> {}

Recovers_Wrong == Level = "cool"     \* not when the guardian is turned off
Recovers == Level \in {"disabled", "cool"}

\* load_config, and the readings the check acts on.
Begin ==
    /\ loop.stage = "start"
    /\ loop' = [loop EXCEPT
                  !.stage = IF Recovers THEN "recover" ELSE "suspend",
                  !.todo = IF Recovers THEN suspended ELSE Targets,
                  !.loaded = enabled]
    /\ UNCHANGED <<enabled, running, suspended, guarded, heat, missed, change, faults>>

\* suspend_service: the marker, then the command, which fails with the
\* service stopped or not; then the marker goes.
Suspend ==
    /\ loop.stage = "suspend"
    /\ \E s \in loop.todo :
          /\ suspended' = suspended \union {s}
          /\ loop' = [loop EXCEPT !.stage = "stopping", !.at = s]
    /\ UNCHANGED <<enabled, running, guarded, heat, missed, change, faults>>

Stopped ==
    /\ loop.stage = "stopping"
    /\ \/ /\ running' = running \ {loop.at}
          /\ UNCHANGED <<suspended, faults>>
       \/ /\ Fault
          /\ running' \in {running, running \ {loop.at}}
          /\ suspended' = suspended \ {loop.at}
    /\ loop' = [loop EXCEPT !.stage = "suspend", !.todo = @ \ {loop.at}, !.at = Nobody]
    /\ UNCHANGED <<enabled, guarded, heat, missed, change>>

\* recover_suspended_services: the command starts nothing that is disabled
\* when it reads the configuration.
Recover ==
    /\ loop.stage = "recover"
    /\ \E s \in loop.todo :
          loop' = [loop EXCEPT !.stage = "starting", !.at = s, !.goes = (s \in enabled)]
    /\ UNCHANGED <<enabled, running, suspended, guarded, heat, missed, change, faults>>

Started ==
    /\ loop.stage = "starting"
    /\ \/ /\ running' = IF loop.goes THEN running \union {loop.at} ELSE running
          /\ suspended' = suspended \ {loop.at}
          /\ faults' = faults
       \/ /\ loop.goes /\ Fault
          /\ UNCHANGED <<running, suspended>>
    /\ loop' = [loop EXCEPT !.stage = "recover", !.todo = @ \ {loop.at}, !.at = Nobody,
                            !.goes = FALSE]
    /\ UNCHANGED <<enabled, guarded, heat, missed, change>>

Checked ==
    /\ loop.stage \in {"suspend", "recover"} /\ loop.todo = {}
    /\ loop' = [loop EXCEPT !.stage = "decide"]
    /\ UNCHANGED <<enabled, running, suspended, guarded, heat, missed, change, faults>>

\* THERMAL_CHECK_TIMEOUT_SECONDS: the check is killed, its command is not.
TimeOut ==
    /\ loop.stage \in Stage \ {"start", "decide"}
    /\ Fault
    /\ \/ running' = running
       \/ loop.stage = "stopping" /\ running' = running \ {loop.at}
       \/ loop.stage = "starting" /\ loop.goes /\ running' = running \union {loop.at}
    /\ loop' = [Resting EXCEPT !.stage = "decide", !.loaded = loop.loaded]
    /\ UNCHANGED <<enabled, suspended, guarded, heat, missed, change>>

-----------------------------------------------------------------------------
(* The rest of the watchdog's loop.                                        *)

Watched == loop.loaded \ suspended
Due     == {s \in Watched \ running : missed[s] + 1 >= Patience}

\* A service that is enabled and not suspended is restarted when it has not
\* answered for a while; one on demand that is disabled stops when idle.
Decide ==
    /\ loop.stage = "decide"
    /\ \E failed \in SUBSET Due, idle \in SUBSET ((OnDemand \ loop.loaded) \cap running) :
          /\ IF failed = {} THEN faults' = faults ELSE Fault
          /\ running' = (running \union (Due \ failed)) \ idle
    /\ missed' = [s \in Service |->
                    IF s \notin Watched THEN missed[s]
                    ELSE IF s \in running \union Due THEN 0 ELSE missed[s] + 1]
    /\ loop' = Resting
    /\ UNCHANGED <<enabled, suspended, guarded, heat, change>>

-----------------------------------------------------------------------------
(* The owner: set_managed_service_enabled, set_transmission_enabled.       *)

Set ==
    /\ change = Nobody
    /\ \E s \in Service, on \in BOOLEAN :
          /\ change' = [service |-> s, on |-> on, previous |-> (s \in enabled)]
          /\ enabled' = IF on THEN enabled \union {s} ELSE enabled \ {s}
    /\ UNCHANGED <<running, suspended, guarded, heat, loop, missed, faults>>

\* A failed start takes the setting back, a failed stop does not.
Apply ==
    /\ change # Nobody
    /\ LET s == change.service
       IN  \/ /\ running' = IF change.on THEN running \union {s} ELSE running \ {s}
              /\ UNCHANGED <<enabled, faults>>
           \/ /\ change.on /\ Fault
              /\ enabled' = IF change.previous THEN enabled ELSE enabled \ {s}
              /\ running' = running
           \/ /\ ~change.on /\ Fault
              /\ running' \in {running, running \ {s}}
              /\ enabled' = enabled
    /\ change' = Nobody
    /\ UNCHANGED <<suspended, guarded, heat, loop, missed>>

SetPolicy ==
    /\ guarded' = ~guarded
    /\ UNCHANGED <<enabled, running, suspended, heat, loop, missed, change, faults>>

-----------------------------------------------------------------------------
(* The world.                                                              *)

Warm ==
    /\ heat' \in Heat
    /\ UNCHANGED <<enabled, running, suspended, guarded, loop, missed, change, faults>>

OnRequest ==
    /\ \E s \in OnDemand : running' = running \union {s}
    /\ UNCHANGED <<enabled, suspended, guarded, heat, loop, missed, change, faults>>

Crash ==
    /\ Fault
    /\ \E s \in running : running' = running \ {s}
    /\ UNCHANGED <<enabled, suspended, guarded, heat, loop, missed, change>>

\* start_all starts what is enabled, suspended or not; the markers stay.
Reboot ==
    /\ Fault
    /\ running' = enabled
    /\ loop' = Resting
    /\ missed' = [s \in Service |-> 0]
    /\ change' = Nobody
    /\ UNCHANGED <<enabled, suspended, guarded, heat>>

Loop == Begin \/ Suspend \/ Stopped \/ Recover \/ Started \/ Checked \/ Decide
Next == Loop \/ TimeOut \/ Set \/ Apply \/ SetPolicy \/ Warm \/ OnRequest \/ Crash \/ Reboot

Spec == Init /\ [][Next]_vars /\ WF_vars(Loop)

-----------------------------------------------------------------------------
(* The properties.                                                         *)

(* Every variable has its type.                                            *)
TypeOK ==
    /\ enabled \subseteq Service /\ running \subseteq Service /\ suspended \subseteq Service
    /\ guarded \in BOOLEAN
    /\ heat \in Heat
    /\ loop \in [stage : Stage, todo : SUBSET Service, at : Service \union {Nobody},
                 goes : BOOLEAN, loaded : SUBSET Service]
    /\ missed \in [Service -> 0..Patience]
    /\ change = Nobody \/ change \in [service : Service, on : BOOLEAN, previous : BOOLEAN]
    /\ faults \in 0..MaxFaults

(* A suspension ends: a service the owner leaves enabled runs, and goes on *)
(* running, once the phone stays cool, whoever stopped it and whatever     *)
(* failed before, also when the guardian was turned off meanwhile.         *)
ComesBack == \A s \in Service :
    <>[](s \in enabled /\ heat = "cool" /\ change = Nobody) => <>[](s \in running)

=============================================================================
