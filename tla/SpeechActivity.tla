---------------------------- MODULE SpeechActivity ----------------------------
(***************************************************************************)
(* Where a recording probably has speech (app/speech_activity.py).  FFmpeg *)
(* prints a mark whenever a silence starts or ends; detect_speech_activity *)
(* pairs the marks, takes what lies between the silences, leaves out what  *)
(* is short or is the noise of the recorder's start and end, and returns   *)
(* the second in which each of the others begins.  Each iteration of its   *)
(* four loops is a step, so that what a loop has done so far is a state.   *)
(*                                                                         *)
(* Time is counted in ticks, of which Second make a second; a recording    *)
(* lasts a whole number of them, and the tolerance of 0.05 s is less than  *)
(* one.                                                                    *)
(***************************************************************************)
EXTENDS Integers, Sequences, FiniteSets

CONSTANTS
    Second,           \* ticks in a second
    MinimumActivity,  \* MINIMUM_ACTIVITY_SECONDS
    MinimumSilence,   \* MINIMUM_SILENCE_SECONDS, which FFmpeg observes
    StartupGrace,     \* STARTUP_NOISE_GRACE_SECONDS
    ShutdownGrace,    \* SHUTDOWN_NOISE_GRACE_SECONDS
    MaximumEvents,    \* MAXIMUM_EVENTS
    Duration,         \* the durations of recordings, in ticks
    MaxMarks          \* bound: marks in FFmpeg's output

TicksAssumption ==
    /\ {Second, MinimumSilence, MaximumEvents} \subseteq Nat \ {0}
    /\ {MinimumActivity, StartupGrace, ShutdownGrace, MaxMarks} \subseteq Nat
    /\ Duration \subseteq Nat

VARIABLES
    duration,         \* of the recording
    marks,            \* what FFmpeg has printed
    stage,            \* the loop under way, "complete" after the last one
    at,               \* how many items this loop has seen
    opened,           \* silence_started_at, or NoStart
    silences,         \* silence_intervals
    cursor,           \* activity_cursor
    activities,       \* activity_intervals
    starts,           \* activity_starts
    unique            \* unique_starts, which the analysis returns

speechVars == <<duration, marks, stage, at, opened, silences, cursor, activities,
                starts, unique>>

NoStart == -1

TypeOK ==
    /\ duration \in Duration
    /\ marks \in Seq([start : BOOLEAN, time : Int])
    /\ stage \in {"listen", "pair", "invert", "select", "unite", "complete"}
    /\ at \in Nat /\ cursor \in Nat /\ opened \in Nat \cup {NoStart}
    /\ silences \in Seq(Nat \X Nat) /\ activities \in Seq(Nat \X Nat)
    /\ starts \in Seq(Nat) /\ unique \in Seq(Nat)

Clamp(t) == IF t < 0 THEN 0 ELSE IF t > duration THEN duration ELSE t
Later(a, b) == IF a > b THEN a ELSE b

\* Python's round: half a second goes to the even neighbour.
Round(t) ==
    LET whole == t \div Second
        rest  == 2 * (t % Second) IN
    IF rest > Second \/ (rest = Second /\ whole % 2 = 1) THEN whole + 1 ELSE whole

\* A second of the recording: none is after its last whole one.
Safe(s) == IF s > duration \div Second THEN duration \div Second ELSE s

IsSpeech(a) ==
    /\ a[2] - a[1] >= MinimumActivity
    /\ ~(a[1] = 0 /\ a[2] <= StartupGrace)
    /\ ~(a[2] = duration /\ a[1] >= duration - ShutdownGrace)

-----------------------------------------------------------------------------
Init ==
    /\ duration \in Duration /\ marks = <<>>
    /\ stage = "listen" /\ at = 0 /\ opened = NoStart /\ cursor = 0
    /\ silences = <<>> /\ activities = <<>> /\ starts = <<>> /\ unique = <<>>

\* FFmpeg's filter marks the start and the end of silences in turn; the first
\* may be before the recording and the last after it.
AddMark ==
    /\ stage = "listen" /\ Len(marks) < MaxMarks
    /\ \E t \in -1..(duration + 1) :
          /\ marks # <<>> => t >= marks[Len(marks)].time +
                                    (IF marks[Len(marks)].start THEN MinimumSilence ELSE 1)
          /\ marks' = Append(marks, [start |-> Len(marks) % 2 = 0, time |-> t])
    /\ UNCHANGED <<duration, stage, at, opened, silences, cursor, activities, starts,
                   unique>>

\* FFmpeg is done.
Listened ==
    /\ stage = "listen" /\ stage' = "pair"
    /\ UNCHANGED <<duration, marks, at, opened, silences, cursor, activities, starts,
                   unique>>

-----------------------------------------------------------------------------
\* An iteration of a loop over a list, and the end of one before the next.
Item(loop, list) == stage = loop /\ at < Len(list) /\ at' = at + 1
Over(loop, list, next) == stage = loop /\ at = Len(list) /\ at' = 0 /\ stage' = next

(* The silences: a start waits for an end; the last may last to the end of *)
(* the recording.                                                          *)

\* Wrong: the end of a silence does not close it.
Pair_Wrong ==
    /\ Item("pair", marks)
    /\ LET mark == marks[at + 1]
           t    == Clamp(mark.time) IN
       /\ opened' = IF mark.start THEN t ELSE opened
       /\ silences' = IF mark.start \/ opened = NoStart THEN silences
                      ELSE Append(silences, <<opened, Later(opened, t)>>)
    /\ UNCHANGED <<duration, marks, stage, cursor, activities, starts, unique>>

Pair ==
    /\ Item("pair", marks)
    /\ LET mark == marks[at + 1]
           t    == Clamp(mark.time) IN
       /\ opened' = IF mark.start THEN t ELSE NoStart
       /\ silences' = IF mark.start \/ opened = NoStart THEN silences
                      ELSE Append(silences, <<opened, Later(opened, t)>>)
    /\ UNCHANGED <<duration, marks, stage, cursor, activities, starts, unique>>

Paired ==
    /\ Over("pair", marks, "invert")
    /\ silences' = IF opened = NoStart THEN silences
                   ELSE Append(silences, <<opened, duration>>)
    /\ UNCHANGED <<duration, marks, opened, cursor, activities, starts, unique>>

(* What lies between them.                                                 *)
Invert ==
    /\ Item("invert", silences)
    /\ LET silence == silences[at + 1] IN
       /\ activities' = IF silence[1] > cursor
                        THEN Append(activities, <<cursor, silence[1]>>) ELSE activities
       /\ cursor' = Later(cursor, silence[2])
    /\ UNCHANGED <<duration, marks, stage, opened, silences, starts, unique>>

Inverted ==
    /\ Over("invert", silences, "select")
    /\ activities' = IF duration > cursor
                     THEN Append(activities, <<cursor, duration>>) ELSE activities
    /\ UNCHANGED <<duration, marks, opened, silences, cursor, starts, unique>>

(* The seconds in which what may be speech begins.                         *)
Select ==
    /\ Item("select", activities)
    /\ LET activity == activities[at + 1] IN
       starts' = IF IsSpeech(activity) THEN Append(starts, Round(activity[1])) ELSE starts
    /\ UNCHANGED <<duration, marks, stage, opened, silences, cursor, activities, unique>>

Selected ==
    /\ Over("select", activities, "unite")
    /\ UNCHANGED <<duration, marks, opened, silences, cursor, activities, starts, unique>>

(* Each once, and no more than MAXIMUM_EVENTS.                             *)
Unite ==
    /\ Item("unite", starts)
    /\ LET s == Safe(starts[at + 1]) IN
       unique' = IF unique = <<>> \/ s # unique[Len(unique)]
                 THEN Append(unique, s) ELSE unique
    /\ stage' = IF Len(unique') >= MaximumEvents THEN "complete" ELSE stage
    /\ UNCHANGED <<duration, marks, opened, silences, cursor, activities, starts>>

United ==
    /\ Over("unite", starts, "complete")
    /\ UNCHANGED <<duration, marks, opened, silences, cursor, activities, starts, unique>>

Next == \/ AddMark \/ Listened \/ Pair \/ Paired \/ Invert \/ Inverted
        \/ Select \/ Selected \/ Unite \/ United

Spec == Init /\ [][Next]_speechVars

-----------------------------------------------------------------------------
(* The marked seconds are those, and only those, in which a stretch of     *)
(* sound begins: stated of the single ticks, without the intervals, the    *)
(* cursor and the clamping that detect_speech_activity works with.         *)
Silent(tick) ==
    \E i \in DOMAIN marks :
        /\ marks[i].start /\ marks[i].time <= tick
        /\ i + 1 \in DOMAIN marks => tick < marks[i + 1].time

Loud(tick) == tick \in 0..(duration - 1) /\ ~Silent(tick)

Stretch(a, b) == /\ a < b /\ \A tick \in a..(b - 1) : Loud(tick)
                 /\ ~Loud(a - 1) /\ ~Loud(b)

MarkersAreSpeech ==
    stage = "complete" =>
        LET speech == {s \in (0..duration) \X (0..duration) :
                          Stretch(s[1], s[2]) /\ IsSpeech(s)}
            wanted == {Safe(Round(s[1])) : s \in speech}
        IN  /\ Len(unique) =
                  IF Cardinality(wanted) < MaximumEvents THEN Cardinality(wanted)
                                                         ELSE MaximumEvents
            /\ \A i \in DOMAIN unique :
                  /\ unique[i] \in wanted
                  /\ Cardinality({s \in wanted : s < unique[i]}) = i - 1

=============================================================================
