----------------------------- MODULE AlertsProofs -----------------------------
(***************************************************************************)
(* What TLAPS proves of Alerts for any number of keys, checkers and        *)
(* phones: types, every incident has one "triggered" event, and no phone   *)
(* acknowledges what its owner was not shown.                              *)
(***************************************************************************)
EXTENDS Alerts, FiniteSetTheorems, SequenceTheorems, TLAPS

\* The conditions that are compiled into build_alert_conditions are finitely
\* many, and the keys of single events are others; a bound is a number.
KeysAssumption == IsFiniteSet(Key) /\ OtherKey \notin Key /\ MaxKills \in Nat

-----------------------------------------------------------------------------
(* Sequences of the members of a finite set.                               *)

(* SetToSeq has every member of a finite set at one position.              *)
LEMMA SeqOfSet ==
  ASSUME NEW S, IsFiniteSet(S)
  PROVE  /\ Cardinality(S) \in Nat
         /\ SetToSeq(S) \in [1..Cardinality(S) -> S]
         /\ \A i, j \in 1..Cardinality(S) : SetToSeq(S)[i] = SetToSeq(S)[j] => i = j
         /\ \A x \in S : \E i \in 1..Cardinality(S) : SetToSeq(S)[i] = x
<1> DEFINE n == Cardinality(S)
<1>1. n \in Nat /\ ExistsBijection(1..n, S)
  BY FS_CardinalityType
<1>2. PICK f \in Bijection(1..n, S) : TRUE
  BY <1>1 DEF ExistsBijection
<1>3. f \in [1..n -> S] /\ IsInjective(f)
  BY <1>2 DEF Bijection, Injection, IsInjective
<1>4. SetToSeq(S) \in [1..n -> S] /\ IsInjective(SetToSeq(S))
  BY <1>3 DEF SetToSeq
<1>5. SetToSeq(S) \in Surjection(1..n, S)
  <2>1. SetToSeq(S) \in Injection(1..n, S)
    BY <1>4 DEF Injection
  <2>2. IsFiniteSet(1..n) /\ Cardinality(1..n) = n
    BY <1>1, FS_Interval
  <2> QED BY <2>1, <2>2, FS_Injection
<1> QED BY <1>1, <1>4, <1>5 DEF IsInjective, Surjection

(* What a check logs of a set of keys: one event of the type for each.     *)
LEMMA LogFacts ==
  ASSUME KeysAssumption, NEW keys \in SUBSET Key,
         NEW type \in {"triggered", "repeated", "resolved"}
  PROVE  /\ Log(keys, type) \in Seq(Event)
         /\ \A i \in 1..Len(Log(keys, type)) :
               Log(keys, type)[i].key \in keys /\ Log(keys, type)[i].type = type
         /\ \A i, j \in 1..Len(Log(keys, type)) :
               Log(keys, type)[i].key = Log(keys, type)[j].key => i = j
         /\ \A k \in keys : \E i \in 1..Len(Log(keys, type)) : Log(keys, type)[i].key = k
<1>1. IsFiniteSet(keys)
  BY FS_Subset DEF KeysAssumption
<1> DEFINE n == Cardinality(keys)
           q == SetToSeq(keys)
<1>2. /\ n \in Nat /\ q \in [1..n -> keys]
      /\ \A i, j \in 1..n : q[i] = q[j] => i = j
      /\ \A x \in keys : \E i \in 1..n : q[i] = x
  BY <1>1, SeqOfSet
<1> HIDE DEF n, q
<1>3. Log(keys, type) = [i \in 1..n |-> [key |-> q[i], type |-> type]]
  BY <1>2 DEF Log, q
<1>4. \A i \in 1..n : [key |-> q[i], type |-> type] \in Event
  BY <1>2 DEF Event
<1>5. Log(keys, type) \in Seq(Event) /\ Len(Log(keys, type)) = n
  BY <1>2, <1>3, <1>4
<1>6. \A i \in 1..n : /\ Log(keys, type)[i].key = q[i]
                      /\ Log(keys, type)[i].type = type
  BY <1>3
<1> QED BY <1>2, <1>5, <1>6

\* Log has every key of the set, with the type.
LEMMA LogCovers ==
  ASSUME KeysAssumption, NEW keys \in SUBSET Key,
         NEW type \in {"triggered", "repeated", "resolved"}, NEW k \in keys
  PROVE  \E i \in 1..Len(Log(keys, type)) : Log(keys, type)[i].key = k
BY LogFacts

-----------------------------------------------------------------------------
(* The property of a log, for any sequence of events.                      *)

\* The last event of a key before a position did not resolve it.
OpenIn(s, i, k) ==
    \E j \in 1..(i - 1) : /\ s[j].key = k /\ s[j].type # "resolved"
                          /\ \A m \in (j + 1)..(i - 1) : s[m].key # k

\* Alternating(s, act): every "triggered" opens, and act is what is open.
Alternating(s, act) ==
    /\ \A i \in 1..Len(s) :
          s[i].key \in Key => (s[i].type = "triggered" <=> ~OpenIn(s, i, s[i].key))
    /\ \A k \in Key : k \in act <=> OpenIn(s, Len(s) + 1, k)

(* OneIncident is that of the events and of what is active.                *)
LEMMA OneIncidentMeans ==
  ASSUME events \in Seq(Event)
  PROVE  OneIncident <=> Alternating(events, active)
<1>1. \A i \in 1..(Len(events) + 1), k \in Key : Open(i, k) <=> OpenIn(events, i, k)
  BY DEF Open, LastBefore, OpenIn
<1>2. DOMAIN events = 1..Len(events) /\ Len(events) \in Nat
  OBVIOUS
<1> QED BY <1>1, <1>2 DEF OneIncident, Alternating

(* What is open at a position depends on the events before it.             *)
LEMMA OpenPrefix ==
  ASSUME NEW s, NEW t, NEW n \in Nat, NEW i \in 1..(n + 1), NEW k,
         \A j \in 1..n : t[j] = s[j]
  PROVE  OpenIn(t, i, k) <=> OpenIn(s, i, k)
BY DEF OpenIn

(* Events of other keys neither open nor close.                            *)
LEMMA OpenSkips ==
  ASSUME NEW t, NEW n \in Nat, NEW i \in Nat, n < i, NEW k,
         \A j \in (n + 1)..(i - 1) : t[j].key # k
  PROVE  OpenIn(t, i, k) <=> OpenIn(t, n + 1, k)
<1>1. ASSUME OpenIn(t, i, k) PROVE OpenIn(t, n + 1, k)
  <2>1. PICK j \in 1..(i - 1) : /\ t[j].key = k /\ t[j].type # "resolved"
                                /\ \A m \in (j + 1)..(i - 1) : t[m].key # k
    BY <1>1 DEF OpenIn
  <2>2. j \in 1..n
    BY <2>1
  <2> QED BY <2>1, <2>2 DEF OpenIn
<1>2. ASSUME OpenIn(t, n + 1, k) PROVE OpenIn(t, i, k)
  <2>1. PICK j \in 1..n : /\ t[j].key = k /\ t[j].type # "resolved"
                          /\ \A m \in (j + 1)..n : t[m].key # k
    BY <1>2 DEF OpenIn
  <2>2. \A m \in (j + 1)..(i - 1) : t[m].key # k
    BY <2>1
  <2> QED BY <2>1, <2>2 DEF OpenIn
<1> QED BY <1>1, <1>2

(* A block of events of different keys, the "triggered" ones of what is    *)
(* not open and the others of what is, keeps the alternation.              *)
LEMMA BlockKeepsAlternation ==
  ASSUME NEW s \in Seq(Event), NEW b \in Seq(Event), NEW act, NEW next,
         Alternating(s, act),
         \A i, j \in 1..Len(b) : b[i].key = b[j].key => i = j,
         \A i \in 1..Len(b) :
            b[i].key \in Key => (b[i].type = "triggered" <=> b[i].key \notin act),
         \A k \in Key :
            k \in next <=> \/ \E i \in 1..Len(b) : b[i].key = k /\ b[i].type # "resolved"
                           \/ k \in act /\ \A i \in 1..Len(b) : b[i].key # k
  PROVE  s \o b \in Seq(Event) /\ Alternating(s \o b, next)
<1> DEFINE t == s \o b
           n == Len(s)
           c == Len(b)
<1>1. /\ n \in Nat /\ c \in Nat
      /\ t \in Seq(Event) /\ Len(t) = n + c
      /\ \A j \in 1..n : t[j] = s[j]
      /\ \A j \in 1..c : t[n + j] = b[j]
      /\ \A m \in (n + 1)..(n + c) : m - n \in 1..c /\ t[m] = b[m - n]
  OBVIOUS
<1> HIDE DEF t, n, c
<1>2. \A i \in 1..(n + 1), k \in Key : OpenIn(t, i, k) <=> OpenIn(s, i, k)
  BY <1>1, OpenPrefix
<1>3. \A k \in Key : OpenIn(t, n + 1, k) <=> k \in act
  BY <1>1, <1>2 DEF Alternating, n
<1>4. ASSUME NEW i \in 1..(n + c), t[i].key \in Key
      PROVE  t[i].type = "triggered" <=> ~OpenIn(t, i, t[i].key)
  <2>1. CASE i \in 1..n
    <3>1. t[i] = s[i] /\ i \in 1..(n + 1)
      BY <1>1, <2>1
    <3>2. OpenIn(t, i, t[i].key) <=> OpenIn(s, i, s[i].key)
      BY <1>2, <1>4, <3>1
    <3> QED BY <1>4, <2>1, <3>1, <3>2 DEF Alternating, n
  <2>2. CASE i \notin 1..n
    <3> DEFINE j == i - n
    <3>1. j \in 1..c /\ i = n + j /\ t[i] = b[j]
      BY <1>1, <2>2
    <3> HIDE DEF j
    <3>2. t[i] = b[j]
      BY <3>1
    <3>3. \A m \in (n + 1)..(i - 1) : t[m].key # t[i].key
      <4> SUFFICES ASSUME NEW m \in (n + 1)..(i - 1) PROVE t[m].key # t[i].key
        OBVIOUS
      <4>1. m - n \in 1..c /\ m - n # j /\ t[m] = b[m - n]
        BY <1>1, <3>1
      <4> QED BY <3>1, <3>2, <4>1 DEF c
    <3>4. OpenIn(t, i, t[i].key) <=> OpenIn(t, n + 1, t[i].key)
      <4>1. n \in Nat /\ i \in Nat /\ n < i
        BY <1>1, <3>1
      <4> QED BY <3>3, <4>1, OpenSkips
    <3>5. b[j].type = "triggered" <=> b[j].key \notin act
      BY <1>4, <3>1 DEF c
    <3> QED BY <1>3, <1>4, <3>2, <3>4, <3>5
  <2> QED BY <2>1, <2>2
<1>5. ASSUME NEW k \in Key
      PROVE  k \in next <=> OpenIn(t, n + c + 1, k)
  <2>1. CASE \A i \in 1..c : b[i].key # k
    <3>1. \A m \in (n + 1)..((n + c + 1) - 1) : t[m].key # k
      <4> SUFFICES ASSUME NEW m \in (n + 1)..(n + c) PROVE t[m].key # k
        BY <1>1
      <4>1. m - n \in 1..c /\ t[m] = b[m - n]
        BY <1>1
      <4> QED BY <2>1, <4>1
    <3>2. OpenIn(t, n + c + 1, k) <=> OpenIn(t, n + 1, k)
      <4>1. n \in Nat /\ n + c + 1 \in Nat /\ n < n + c + 1
        BY <1>1
      <4> HIDE DEF OpenIn
      <4> QED BY <3>1, <4>1, OpenSkips
    <3> QED BY <1>3, <2>1, <3>2 DEF c
  <2>2. CASE \E i \in 1..c : b[i].key = k
    <3>1. PICK i \in 1..c : b[i].key = k
      BY <2>2
    <3>2. k \in next <=> b[i].type # "resolved"
      BY <3>1 DEF c
    <3>3. n + i \in 1..(n + c) /\ t[n + i] = b[i]
      BY <1>1
    <3>4. \A m \in 1..(n + c) : m > n /\ m # n + i => t[m].key # k
      <4> SUFFICES ASSUME NEW m \in 1..(n + c), m > n, m # n + i PROVE t[m].key # k
        OBVIOUS
      <4>1. m \in (n + 1)..(n + c) /\ m - n # i
        BY <1>1
      <4>2. m - n \in 1..c /\ t[m] = b[m - n]
        BY <1>1, <4>1
      <4> QED BY <3>1, <4>1, <4>2 DEF c
    <3>5. ASSUME b[i].type # "resolved" PROVE OpenIn(t, n + c + 1, k)
      <4>1. \A m \in (n + i + 1)..((n + c + 1) - 1) : t[m].key # k
        <5> SUFFICES ASSUME NEW m \in (n + i + 1)..((n + c + 1) - 1)
                     PROVE  m \in 1..(n + c) /\ m > n /\ m # n + i
          BY <3>4
        <5> QED BY <1>1
      <4>2. n + i \in 1..((n + c + 1) - 1)
        BY <1>1
      <4> QED BY <3>1, <3>3, <3>5, <4>1, <4>2 DEF OpenIn
    <3>6. ASSUME OpenIn(t, n + c + 1, k) PROVE b[i].type # "resolved"
      <4>1. PICK j \in 1..((n + c + 1) - 1) :
               /\ t[j].key = k /\ t[j].type # "resolved"
               /\ \A m \in (j + 1)..((n + c + 1) - 1) : t[m].key # k
        BY <3>6 DEF OpenIn
      <4>2. ~(j < n + i)
        BY <1>1, <3>1, <3>3, <4>1
      <4>3. j = n + i
        BY <1>1, <3>4, <4>1, <4>2
      <4> QED BY <3>3, <4>1, <4>3
    <3> QED BY <3>2, <3>5, <3>6
  <2> QED BY <2>1, <2>2
<1>6. Alternating(t, next)
  BY <1>1, <1>4, <1>5 DEF Alternating
<1> QED BY <1>1, <1>6 DEF t

(* What a check logs of one kind keeps it.                                 *)
LEMMA LogKeepsAlternation ==
  ASSUME KeysAssumption, NEW s \in Seq(Event), NEW act, NEW next,
         NEW keys \in SUBSET Key, NEW type \in {"triggered", "repeated", "resolved"},
         Alternating(s, act), act \subseteq Key,
         type = "triggered" => keys \cap act = {},
         type # "triggered" => keys \subseteq act,
         next = IF type = "resolved" THEN act \ keys ELSE act \cup keys
  PROVE  s \o Log(keys, type) \in Seq(Event) /\ Alternating(s \o Log(keys, type), next)
<1> DEFINE b == Log(keys, type)
<1>1. /\ b \in Seq(Event)
      /\ \A i \in 1..Len(b) : b[i].key \in keys /\ b[i].type = type
      /\ \A i, j \in 1..Len(b) : b[i].key = b[j].key => i = j
      /\ \A k \in keys : \E i \in 1..Len(b) : b[i].key = k
  <2>1. b \in Seq(Event)
    BY LogFacts
  <2>2. \A i \in 1..Len(b) : b[i].key \in keys /\ b[i].type = type
    BY LogFacts
  <2>3. \A i, j \in 1..Len(b) : b[i].key = b[j].key => i = j
    BY LogFacts
  <2>4. ASSUME NEW k \in keys PROVE \E i \in 1..Len(b) : b[i].key = k
    <3> HIDE DEF b
    <3>1. \E i \in 1..Len(Log(keys, type)) : Log(keys, type)[i].key = k
      BY LogCovers
    <3> QED BY <3>1 DEF b
  <2> QED BY <2>1, <2>2, <2>3, <2>4
<1> HIDE DEF b
<1>2. \A i \in 1..Len(b) :
         b[i].key \in Key => (b[i].type = "triggered" <=> b[i].key \notin act)
  BY <1>1
<1>3. \A k \in Key :
         k \in next <=> \/ \E i \in 1..Len(b) : b[i].key = k /\ b[i].type # "resolved"
                        \/ k \in act /\ \A i \in 1..Len(b) : b[i].key # k
  BY <1>1
<1>4. s \o b \in Seq(Event) /\ Alternating(s \o b, next)
  BY <1>1, <1>2, <1>3, BlockKeepsAlternation
<1> QED BY <1>4 DEF b

-----------------------------------------------------------------------------
(* The invariant: the log alternates, and what is open is active.          *)

Shape ==
    /\ problems \subseteq Key /\ watched \subseteq Key
    /\ active \subseteq Key /\ cooled \subseteq active
    /\ events \in Seq(Event)
    /\ \A c \in Checker : check[c].found \subseteq Key
    /\ DOMAIN check = Checker

Inv == Shape /\ Alternating(events, active)

\* Nothing has happened.
LEMMA InvInit == ASSUME Init PROVE Inv
<1>1. Shape
  BY DEF Init, Shape, NoCheck
<1>2. Alternating(events, active)
  <2>1. events = <<>> /\ active = {}
    BY DEF Init
  <2>2. Len(<<>>) = 0
    OBVIOUS
  <2>3. \A k : ~OpenIn(<<>>, 1, k)
    BY DEF OpenIn
  <2> QED BY <2>1, <2>2, <2>3 DEF Alternating
<1> QED BY <1>1, <1>2 DEF Inv

\* The actions that neither log nor change what is active.
Silent == /\ events' = events /\ active' = active
          /\ problems' \subseteq Key /\ watched' \subseteq Key
          /\ cooled' \subseteq active
          /\ \A c \in Checker : check'[c].found \subseteq Key
          /\ DOMAIN check' = Checker

\* The steps that log nothing.
LEMMA SilentKeepsInv == ASSUME Inv, Silent PROVE Inv'
<1>1. Alternating(events, active)'
  BY SMTT(60) DEF Inv, Silent, Alternating, OpenIn
<1> QED BY <1>1 DEF Inv, Silent, Shape

(* A check logs the triggered, the repeated and the resolved, in blocks.   *)
LEMMA SyncKeepsInv ==
  ASSUME KeysAssumption, Inv, NEW c \in Checker, Sync(c)
  PROVE  Inv'
<1> DEFINE found == check[c].found
           logged == Log(Triggered(found), "triggered")
           again == Log(Repeated(found), "repeated")
           over == Log(Resolved(found), "resolved")
<1>1. found \subseteq Key /\ active \subseteq Key /\ cooled \subseteq active
      /\ events \in Seq(Event) /\ Alternating(events, active)
  BY DEF Inv, Shape
<1>2. /\ events' = events \o logged \o again \o over
      /\ active' = found
      /\ cooled' = cooled \ (Repeated(found) \cup Resolved(found))
      /\ check' = [check EXCEPT ![c] = [NoCheck EXCEPT !.at = "prune"]]
      /\ problems' = problems /\ watched' = watched
  BY DEF Sync
<1>3. /\ Triggered(found) = found \ active /\ Repeated(found) = found \cap cooled
      /\ Resolved(found) = active \ found
  BY DEF Triggered, Repeated, Resolved
<1> HIDE DEF found
<1>4. /\ events \o logged \in Seq(Event)
      /\ Alternating(events \o logged, active \cup found)
  <2>1. /\ Triggered(found) \subseteq Key /\ Triggered(found) \cap active = {}
        /\ active \cup found = active \cup Triggered(found)
    BY <1>1, <1>3
  <2> QED BY <1>1, <2>1, LogKeepsAlternation
<1>5. /\ events \o logged \o again \in Seq(Event)
      /\ Alternating(events \o logged \o again, active \cup found)
  <2>1. /\ Repeated(found) \subseteq Key /\ Repeated(found) \subseteq active \cup found
        /\ active \cup found \subseteq Key
        /\ active \cup found = (active \cup found) \cup Repeated(found)
    BY <1>1, <1>3
  <2> HIDE DEF logged
  <2> QED BY <1>4, <2>1, LogKeepsAlternation
<1>6. /\ events \o logged \o again \o over \in Seq(Event)
      /\ Alternating(events \o logged \o again \o over, found)
  <2>1. /\ Resolved(found) \subseteq Key /\ Resolved(found) \subseteq active \cup found
        /\ active \cup found \subseteq Key
        /\ found = (active \cup found) \ Resolved(found)
    BY <1>1, <1>3
  <2> HIDE DEF logged, again
  <2> QED BY <1>5, <2>1, LogKeepsAlternation
<1>7. Alternating(events, active)'
  <2> HIDE DEF logged, again, over
  <2>1. Alternating(events', active')
    BY <1>2, <1>6
  <2> QED BY <2>1 DEF Alternating, OpenIn
<1>8. Shape'
  <2>1. cooled' \subseteq active'
    BY <1>1, <1>2, <1>3
  <2>2. \A d \in Checker : check'[d].found \subseteq Key
    BY <1>2 DEF NoCheck, Inv, Shape
  <2> QED BY <1>1, <1>2, <1>6, <2>1, <2>2 DEF Inv, Shape, found
<1> QED BY <1>7, <1>8 DEF Inv

(* A single event is of a key that is no condition's.                      *)
LEMMA RecordKeepsInv ==
  ASSUME KeysAssumption, Inv, Record
  PROVE  Inv'
<1> DEFINE e == [key |-> OtherKey, type |-> "single"]
           b == <<e>>
<1>1. events \in Seq(Event) /\ Alternating(events, active)
  BY DEF Inv, Shape
<1>2. b \in Seq(Event) /\ Len(b) = 1 /\ b[1].key = OtherKey /\ b[1].key \notin Key
  BY DEF Event, KeysAssumption
<1>3. events' = events \o b /\ active' = active
  BY <1>1 DEF Record
<1> HIDE DEF b
<1>4. \A i, j \in 1..Len(b) : b[i].key = b[j].key => i = j
  BY <1>2
<1>5. \A i \in 1..Len(b) : b[i].key \notin Key
  BY <1>2
<1>6. \A k \in Key :
         k \in active <=> \/ \E i \in 1..Len(b) : b[i].key = k /\ b[i].type # "resolved"
                          \/ k \in active /\ \A i \in 1..Len(b) : b[i].key # k
  BY <1>5
<1>7. events \o b \in Seq(Event) /\ Alternating(events \o b, active)
  BY <1>1, <1>2, <1>4, <1>5, <1>6, BlockKeepsAlternation
<1>8. Alternating(events', active')
  BY <1>3, <1>7
<1>9. Alternating(events, active)'
  BY <1>8 DEF Alternating, OpenIn
<1> QED BY <1>3, <1>7, <1>9 DEF Inv, Shape, Record

\* Every step of the checks, the world and the phones.
LEMMA InvStep ==
  ASSUME KeysAssumption, Inv, [Next]_alertVars
  PROVE  Inv'
<1> USE DEF Inv, Shape, Silent
<1>1. ASSUME NEW c \in Checker, Measure(c) \/ Conditions(c) \/ Prune(c) \/ Abandon(c)
      PROVE  Silent
  BY <1>1 DEF Measure, Conditions, Prune, Abandon, serverVars, NoCheck
<1>2. ASSUME NEW k \in Key, Change(k) \/ Cool(k)
      PROVE  Silent
  BY <1>2 DEF Change, Cool
<1>3. ASSUME SaveSettings \/ GrowOld
      PROVE  Silent
  BY <1>3 DEF SaveSettings, GrowOld
<1>4. ASSUME NEW p \in Phone, \/ Fetch(p) \/ Notify(p) \/ SendAck(p)
                              \/ Acknowledge(p) \/ AckLost(p) \/ Kill(p)
      PROVE  Silent
  BY <1>4 DEF Fetch, Notify, SendAck, Acknowledge, AckLost, Kill, serverVars
<1>5. ASSUME UNCHANGED alertVars
      PROVE  Silent
  BY <1>5 DEF alertVars
<1> QED
  BY <1>1, <1>2, <1>3, <1>4, <1>5, SilentKeepsInv, SyncKeepsInv, RecordKeepsInv DEF Next

(* One incident, one alert: for any number of conditions, checks that      *)
(* overlap, and phones.                                                    *)
THEOREM AlertsAlternate ==
  ASSUME KeysAssumption
  PROVE  Spec => []OneIncident
<1>1. Init => Inv
  BY InvInit
<1>2. Inv /\ [Next]_alertVars => Inv'
  BY InvStep
<1>3. Inv => OneIncident
  BY OneIncidentMeans DEF Inv, Shape
<1> QED BY <1>1, <1>2, <1>3, PTL DEF Spec

-----------------------------------------------------------------------------
(* Types, and what the phones have shown.                                  *)

\* What a phone has acknowledged, or is about to, its owner was shown.
ShownFirst == \A p \in Phone : acked[p] \subseteq shown[p] /\ poll[p].done \subseteq shown[p]

Phones == TypeOK /\ ShownFirst

\* The ids of the events so far are among those of a longer log.
LEMMA LongerLog ==
  ASSUME TypeOK, events' \in Seq(Event), Len(events) <= Len(events'),
         UNCHANGED <<old, pruned, acked, poll, shown, kills>>,
         problems' \subseteq Key, watched' \subseteq Key, active' \subseteq Key,
         cooled' \subseteq active',
         check' \in [Checker -> [at : {"idle", "settings", "sync", "prune"},
                                found : SUBSET Key]]
  PROVE  TypeOK'
<1>1. Len(events) \in Nat /\ Len(events') \in Nat
  BY DEF TypeOK
<1>2. 1..Len(events) \subseteq 1..Len(events') /\ 0..Len(events) \subseteq 0..Len(events')
  BY <1>1
<1> HIDE <1>1
<1> QED BY <1>2 DEF TypeOK

\* A checker goes on, and the world or the settings change.
LEMMA ChecksTypes ==
  ASSUME KeysAssumption, Phones, NEW c \in Checker,
         Measure(c) \/ Conditions(c) \/ Sync(c) \/ Prune(c) \/ Abandon(c)
  PROVE  Phones'
<1> DEFINE Checks == [at : {"idle", "settings", "sync", "prune"}, found : SUBSET Key]
<1>1. TypeOK /\ check \in [Checker -> Checks] /\ check[c] \in Checks /\ NoCheck \in Checks
      /\ events \in Seq(Event) /\ Len(events) \in Nat
  BY DEF Phones, TypeOK, NoCheck
<1>2. CASE Measure(c) \/ Conditions(c) \/ Abandon(c)
  <2>1. PICK j \in Checks : check' = [check EXCEPT ![c] = j]
    <3>1. [at |-> "settings", found |-> problems] \in Checks
      BY DEF Phones, TypeOK
    <3>2. [at |-> "sync", found |-> check[c].found \cap watched] \in Checks
      BY <1>1
    <3> QED BY <1>1, <1>2, <3>1, <3>2 DEF Measure, Conditions, Abandon
  <2>2. check' \in [Checker -> Checks]
    BY <1>1, <2>1
  <2>3. UNCHANGED <<problems, watched, active, cooled, events, old, pruned, acked, poll,
                    shown, kills>>
    BY <1>2 DEF Measure, Conditions, Abandon, serverVars
  <2>4. TypeOK'
    BY <1>1, <2>2, <2>3, LongerLog DEF TypeOK
  <2> QED BY <2>3, <2>4 DEF Phones, ShownFirst
<1>3. CASE Sync(c)
  <2> DEFINE found == check[c].found
             logged == Log(Triggered(found), "triggered")
             again == Log(Repeated(found), "repeated")
             over == Log(Resolved(found), "resolved")
  <2>1. found \subseteq Key /\ active \subseteq Key /\ cooled \subseteq active
    BY <1>1 DEF TypeOK
  <2>2. logged \in Seq(Event) /\ again \in Seq(Event) /\ over \in Seq(Event)
    <3>1. /\ Triggered(found) \in SUBSET Key /\ Repeated(found) \in SUBSET Key
          /\ Resolved(found) \in SUBSET Key
      BY <2>1 DEF Triggered, Repeated, Resolved
    <3> HIDE DEF found
    <3> QED BY <3>1, LogFacts
  <2>3. /\ events' = events \o logged \o again \o over
        /\ active' = found
        /\ cooled' = cooled \ (Repeated(found) \cup Resolved(found))
        /\ check' = [check EXCEPT ![c] = [NoCheck EXCEPT !.at = "prune"]]
        /\ UNCHANGED <<problems, watched, old, pruned, acked, poll, shown, kills>>
    BY <1>3 DEF Sync
  <2>4. events' \in Seq(Event) /\ Len(events) <= Len(events')
    <3> HIDE DEF logged, again, over
    <3> QED BY <1>1, <2>2, <2>3
  <2>5. cooled' \subseteq active'
    BY <2>1, <2>3 DEF Repeated, Resolved
  <2>6. check' \in [Checker -> Checks]
    BY <1>1, <2>3 DEF NoCheck
  <2> HIDE DEF found
  <2>7. TypeOK'
    BY <1>1, <2>1, <2>3, <2>4, <2>5, <2>6, LongerLog DEF TypeOK
  <2> QED BY <2>3, <2>7 DEF Phones, ShownFirst
<1>4. CASE Prune(c)
  <2>1. /\ pruned' = old /\ acked' = [p \in Phone |-> acked[p] \ 1..old]
        /\ check' = [check EXCEPT ![c] = NoCheck]
        /\ UNCHANGED <<problems, watched, active, cooled, events, old, poll, shown, kills>>
    BY <1>4 DEF Prune
  <2>2. check' \in [Checker -> Checks] /\ old \in 0..old
    BY <1>1, <2>1 DEF TypeOK
  <2>3. TypeOK'
    BY <1>1, <2>1, <2>2 DEF TypeOK
  <2> QED BY <2>1, <2>3 DEF Phones, ShownFirst
<1> QED BY <1>2, <1>3, <1>4

\* A phone goes on.
LEMMA PhonesTypes ==
  ASSUME KeysAssumption, Phones, NEW p \in Phone,
         \/ Fetch(p) \/ Notify(p) \/ SendAck(p)
         \/ Acknowledge(p) \/ AckLost(p) \/ Kill(p)
  PROVE  Phones'
<1> DEFINE Ids == 1..Len(events)
           Polling == [at : {"idle", "notify", "ack"}, feed : SUBSET Ids, done : SUBSET Ids]
<1>1. /\ TypeOK /\ poll \in [Phone -> Polling] /\ poll[p] \in Polling /\ NoPoll \in Polling
      /\ acked \in [Phone -> SUBSET Ids] /\ shown \in [Phone -> SUBSET Ids]
      /\ acked[p] \subseteq shown[p] /\ poll[p].done \subseteq shown[p]
  BY DEF Phones, TypeOK, NoPoll, ShownFirst
<1>2. UNCHANGED <<problems, watched, active, cooled, events, old, pruned, check>>
  BY DEF Fetch, Notify, SendAck, Acknowledge, AckLost, Kill, serverVars
<1>3. ASSUME NEW j \in Polling, poll' = [poll EXCEPT ![p] = j],
             NEW a \in SUBSET Ids, acked' = [acked EXCEPT ![p] = a],
             NEW s \in SUBSET Ids, shown' = [shown EXCEPT ![p] = s],
             a \subseteq s, j.done \subseteq s, kills' \in [Phone -> 0..MaxKills]
      PROVE  Phones'
  <2>1. /\ poll' \in [Phone -> Polling] /\ acked' \in [Phone -> SUBSET Ids]
        /\ shown' \in [Phone -> SUBSET Ids]
    BY <1>1, <1>3
  <2>2. TypeOK'
    BY <1>1, <1>2, <1>3, <2>1 DEF TypeOK
  <2>3. \A q \in Phone : acked'[q] \subseteq shown'[q] /\ poll'[q].done \subseteq shown'[q]
    BY <1>1, <1>3 DEF Phones, ShownFirst
  <2> QED BY <2>2, <2>3 DEF Phones, ShownFirst
<1>4. /\ kills \in [Phone -> 0..MaxKills]
      /\ acked = [acked EXCEPT ![p] = acked[p]] /\ acked[p] \in SUBSET Ids
      /\ shown = [shown EXCEPT ![p] = shown[p]] /\ shown[p] \in SUBSET Ids
  BY <1>1 DEF TypeOK
<1> HIDE DEF Polling, Ids
<1>5. CASE Fetch(p)
  <2>1. Feed(p) \subseteq Ids
    BY DEF Feed, Unacked, Ids
  <2> DEFINE j == [at |-> "notify", feed |-> Feed(p), done |-> {}]
  <2>2. poll' = [poll EXCEPT ![p] = j] /\ acked' = acked /\ shown' = shown /\ kills' = kills
    BY <1>5 DEF Fetch
  <2>3. j \in Polling /\ j.done \subseteq shown[p]
    BY <2>1 DEF Polling
  <2> HIDE DEF j
  <2> QED BY ZenonT(60), <1>1, <1>3, <1>4, <2>2, <2>3
<1>6. CASE Notify(p)
  <2>1. PICK e \in poll[p].feed :
           /\ shown' = [shown EXCEPT ![p] = @ \cup {e}]
           /\ poll' = [poll EXCEPT ![p].feed = @ \ {e}, ![p].done = @ \cup {e}]
    BY <1>6 DEF Notify
  <2>2. e \in Ids /\ acked' = acked /\ kills' = kills
    BY <1>1, <1>6 DEF Notify, Polling
  <2> DEFINE j == [poll[p] EXCEPT !.feed = @ \ {e}, !.done = @ \cup {e}]
             s == shown[p] \cup {e}
  <2>3. poll' = [poll EXCEPT ![p] = j] /\ shown' = [shown EXCEPT ![p] = s]
    BY <1>1, <2>1 DEF Polling
  <2>4. j \in Polling /\ j.done \subseteq s /\ s \in SUBSET Ids /\ acked[p] \subseteq s
    BY <1>1, <1>4, <2>2 DEF Polling
  <2>5. acked' = [acked EXCEPT ![p] = acked[p]] /\ kills' \in [Phone -> 0..MaxKills]
    BY <1>4, <2>2
  <2> HIDE DEF j, s
  <2> QED BY <1>3, <1>4, <2>3, <2>4, <2>5
<1>7. CASE SendAck(p)
  <2> DEFINE j == [poll[p] EXCEPT !.at = "ack"]
  <2>1. poll' = [poll EXCEPT ![p] = j] /\ acked' = acked /\ shown' = shown /\ kills' = kills
    BY <1>1, <1>7 DEF SendAck, Polling
  <2>2. j \in Polling /\ j.done = poll[p].done
    BY <1>1 DEF Polling
  <2> HIDE DEF j
  <2> QED BY ZenonT(60), <1>1, <1>3, <1>4, <2>1, <2>2
<1>8. CASE Acknowledge(p)
  <2> DEFINE a == acked[p] \cup {e \in poll[p].done : e > pruned}
  <2>1. /\ poll' = [poll EXCEPT ![p] = NoPoll] /\ acked' = [acked EXCEPT ![p] = a]
        /\ shown' = shown /\ kills' = kills
    BY <1>1, <1>8 DEF Acknowledge
  <2>2. a \subseteq shown[p] /\ a \in SUBSET Ids /\ NoPoll.done = {}
    BY <1>1 DEF NoPoll
  <2> HIDE DEF a
  <2> QED BY <1>1, <1>3, <1>4, <2>1, <2>2
<1>9. CASE AckLost(p) \/ Kill(p)
  <2>1. /\ poll' = [poll EXCEPT ![p] = NoPoll] /\ acked' = acked /\ shown' = shown
        /\ NoPoll.done = {}
    BY <1>9 DEF AckLost, Kill, NoPoll
  <2>2. kills' \in [Phone -> 0..MaxKills]
    BY <1>4, <1>9 DEF AckLost, Kill, KeysAssumption
  <2> QED BY ZenonT(60), <1>1, <1>3, <1>4, <2>1, <2>2
<1> QED BY <1>5, <1>6, <1>7, <1>8, <1>9

\* Nothing is shown or acknowledged at the start.
LEMMA PhonesInit == ASSUME KeysAssumption, Init PROVE Phones
<1>1. TypeOK
  BY DEF Init, TypeOK, NoCheck, NoPoll, KeysAssumption
<1> QED BY <1>1 DEF Phones, ShownFirst, Init, NoPoll

\* Every step keeps the types, and what is acknowledged was shown.
LEMMA PhonesStep ==
  ASSUME KeysAssumption, Phones, [Next]_alertVars
  PROVE  Phones'
<1>1. TypeOK /\ events \in Seq(Event) /\ Len(events) \in Nat
  BY DEF Phones, TypeOK
<1>2. CASE Record
  <2>1. events' \in Seq(Event) /\ Len(events) <= Len(events')
    BY <1>1, <1>2 DEF Record, Event
  <2>2. TypeOK'
    BY <1>1, <1>2, <2>1, LongerLog DEF Record, TypeOK
  <2> QED BY <1>2, <2>2 DEF Record, Phones, ShownFirst
<1>3. ASSUME NEW k \in Key, Change(k) \/ Cool(k) PROVE Phones'
  <2>1. TypeOK'
    BY <1>1, <1>3, LongerLog DEF Change, Cool, TypeOK
  <2> QED BY <1>3, <2>1 DEF Change, Cool, Phones, ShownFirst
<1>4. CASE SaveSettings
  <2>1. TypeOK'
    BY <1>1, <1>4, LongerLog DEF SaveSettings, TypeOK
  <2> QED BY <1>4, <2>1 DEF SaveSettings, Phones, ShownFirst
<1>5. CASE GrowOld
  <2>1. old' \in 0..Len(events) /\ pruned \in 0..old'
    BY <1>1, <1>5 DEF GrowOld, TypeOK
  <2>2. TypeOK'
    BY <1>1, <1>5, <2>1 DEF GrowOld, TypeOK
  <2> QED BY <1>5, <2>2 DEF GrowOld, Phones, ShownFirst
<1>6. CASE UNCHANGED alertVars
  BY <1>1, <1>6 DEF alertVars, Phones, TypeOK, ShownFirst
<1> QED BY <1>2, <1>3, <1>4, <1>5, <1>6, ChecksTypes, PhonesTypes DEF Next

(* Every variable has its type.                                            *)
THEOREM AlertsTypes == ASSUME KeysAssumption PROVE Spec => []TypeOK
<1>1. Init => Phones
  BY PhonesInit
<1>2. Phones /\ [Next]_alertVars => Phones'
  BY PhonesStep
<1>3. Phones => TypeOK
  BY DEF Phones
<1> QED BY <1>1, <1>2, <1>3, PTL DEF Spec

(* A phone acknowledges only what its owner was shown, whatever requests,  *)
(* answers and applications are lost (consumeAlertFeed).                   *)
THEOREM AcknowledgedWasShown == ASSUME KeysAssumption PROVE Spec => []ShownFirst
<1>1. Init => Phones
  BY PhonesInit
<1>2. Phones /\ [Next]_alertVars => Phones'
  BY PhonesStep
<1>3. Phones => ShownFirst
  BY DEF Phones
<1> QED BY <1>1, <1>2, <1>3, PTL DEF Spec

=============================================================================
