--------------------------- MODULE WebWatchersProofs ---------------------------
(***************************************************************************)
(* What TLAPS proves of WebWatchers for any number of watchers, pages and  *)
(* checks at the same time: types, the schedule has exactly the enabled    *)
(* watchers, and every turn of a page is told once.                        *)
(***************************************************************************)
EXTENDS WebWatchers, SequenceTheorems, TLAPS

\* NULL is no row, no number and no content, and an alert needs a failure.
ValuesAssumption ==
    /\ Unknown \notin Row /\ Unknown \notin Watcher /\ Unknown \notin Content
    /\ Failures \in Nat \ {0} /\ Limit \in Nat /\ MaxKills \in Nat

-----------------------------------------------------------------------------
(* The line of the watchers that are due.                                  *)

(* Taking a member at a position out leaves the others in their order.     *)
LEMMA RemoveAtFacts ==
  ASSUME NEW S, NEW s \in Seq(S), NEW i \in 1..Len(s)
  PROVE  /\ RemoveAt(s, i) \in Seq(S)
         /\ Len(RemoveAt(s, i)) = Len(s) - 1
         /\ \A j \in 1..(Len(s) - 1) :
               RemoveAt(s, i)[j] = IF j < i THEN s[j] ELSE s[j + 1]
<1> DEFINE l == SubSeq(s, 1, i - 1)
           r == SubSeq(s, i + 1, Len(s))
<1>1. /\ l \in Seq(S) /\ Len(l) = i - 1 /\ \A j \in 1..(i - 1) : l[j] = s[j]
  <2>1. \A j \in 1..(i - 1) : s[j] \in S
    OBVIOUS
  <2>2. /\ l \in Seq(S) /\ Len(l) = IF 1 <= i - 1 THEN i - 1 - 1 + 1 ELSE 0
        /\ \A j \in 1..(i - 1 - 1 + 1) : l[j] = s[1 + j - 1]
    BY <2>1, SubSeqProperties
  <2> QED BY <2>2
<1>2. /\ r \in Seq(S) /\ Len(r) = Len(s) - i
      /\ \A j \in 1..(Len(s) - i) : r[j] = s[i + j]
  <2>1. \A j \in (i + 1)..Len(s) : s[j] \in S
    OBVIOUS
  <2>2. /\ r \in Seq(S) /\ Len(r) = IF i + 1 <= Len(s) THEN Len(s) - (i + 1) + 1 ELSE 0
        /\ \A j \in 1..(Len(s) - (i + 1) + 1) : r[j] = s[i + 1 + j - 1]
    <3>1. i + 1 \in Int /\ Len(s) \in Int
      OBVIOUS
    <3> HIDE DEF r
    <3> QED BY <2>1, <3>1, SubSeqProperties DEF r
  <2> QED BY <2>2
<1> HIDE DEF l, r
<1>3. /\ l \o r \in Seq(S) /\ Len(l \o r) = Len(s) - 1
      /\ \A j \in 1..(Len(s) - 1) : (l \o r)[j] = IF j < i THEN s[j] ELSE s[j + 1]
  <2>1. l \o r \in Seq(S) /\ Len(l \o r) = Len(s) - 1
    <3>1. l \o r \in Seq(S) /\ Len(l \o r) = Len(l) + Len(r)
      BY <1>1, <1>2, ConcatProperties
    <3>2. Len(s) \in Nat
      OBVIOUS
    <3> QED BY <1>1, <1>2, <3>1, <3>2
  <2>2. ASSUME NEW j \in 1..(Len(s) - 1) PROVE (l \o r)[j] = IF j < i THEN s[j] ELSE s[j + 1]
    <3>1. CASE j < i
      BY <1>1, <1>2, <3>1
    <3>2. CASE ~(j < i)
      <4>1. j - (i - 1) \in 1..(Len(s) - i) /\ i + (j - (i - 1)) = j + 1
        BY <3>2
      <4>2. r[j - (i - 1)] = s[j + 1]
        BY <1>2, <4>1
      <4>3. (l \o r)[j] = r[j - (i - 1)]
        BY <1>1, <1>2, <3>2
      <4> QED BY <3>2, <4>2, <4>3
    <3> QED BY <3>1, <3>2
  <2> QED BY <2>1, <2>2
<1> QED BY <1>3 DEF RemoveAt, l, r

(* A watcher leaves the line, and nobody else.                             *)
LEMMA RemoveFirstFacts ==
  ASSUME NEW S, NEW s \in Seq(S), IsInjective(s), NEW e
  PROVE  /\ RemoveFirst(s, e) \in Seq(S)
         /\ IsInjective(RemoveFirst(s, e))
         /\ ToSet(RemoveFirst(s, e)) = ToSet(s) \ {e}
<1>1. CASE \A i \in 1..Len(s) : s[i] # e
  <2>1. RemoveFirst(s, e) = s
    BY <1>1 DEF RemoveFirst
  <2>2. e \notin ToSet(s)
    BY <1>1 DEF ToSet
  <2> QED BY <2>1, <2>2
<1>2. CASE \E i \in 1..Len(s) : s[i] = e
  <2>1. PICK i \in 1..Len(s) : s[i] = e
    BY <1>2
  <2>2. {j \in 1..Len(s) : s[j] = e} = {i}
    BY <2>1 DEF IsInjective
  <2>3. SelectInSeq(s, LAMBDA v : v = e) = i
    <3>1. Min({i}) = i
      BY DEF Min
    <3> QED BY <2>2, <3>1 DEF SelectInSeq
  <2>4. RemoveFirst(s, e) = RemoveAt(s, i)
    BY <1>2, <2>3 DEF RemoveFirst
  <2> DEFINE r == RemoveAt(s, i)
  <2>5. /\ r \in Seq(S) /\ Len(r) = Len(s) - 1
        /\ \A j \in 1..(Len(s) - 1) : r[j] = IF j < i THEN s[j] ELSE s[j + 1]
    BY RemoveAtFacts
  <2> HIDE DEF r
  <2>6. IsInjective(r)
    BY SMTT(60), <2>5 DEF IsInjective
  <2>7. ASSUME NEW x \in ToSet(r) PROVE x \in ToSet(s) \ {e}
    <3>1. PICK j \in 1..(Len(s) - 1) : x = r[j]
      BY <2>5, <2>7 DEF ToSet
    <3> QED BY SMTT(60), <2>1, <2>5, <3>1 DEF ToSet, IsInjective
  <2>8. ASSUME NEW x \in ToSet(s) \ {e} PROVE x \in ToSet(r)
    <3>1. PICK j \in 1..Len(s) : x = s[j] /\ j # i
      BY <2>1, <2>8 DEF ToSet
    <3>2. CASE j < i
      <4>1. j \in 1..(Len(s) - 1) /\ r[j] = x
        BY <2>5, <3>1, <3>2
      <4> QED BY <2>5, <4>1 DEF ToSet
    <3>3. CASE j > i
      <4>1. j - 1 \in 1..(Len(s) - 1) /\ r[j - 1] = x
        BY <2>5, <3>1, <3>3
      <4> QED BY <2>5, <4>1 DEF ToSet
    <3> QED BY <3>1, <3>2, <3>3
  <2> QED BY <2>4, <2>5, <2>6, <2>7, <2>8 DEF r
<1> QED BY <1>1, <1>2

(* A watcher that is not in the line goes to its end.                      *)
LEMMA AppendFacts ==
  ASSUME NEW S, NEW s \in Seq(S), IsInjective(s), NEW e \in S, e \notin ToSet(s)
  PROVE  /\ Append(s, e) \in Seq(S)
         /\ IsInjective(Append(s, e))
         /\ ToSet(Append(s, e)) = ToSet(s) \cup {e}
<1> DEFINE r == Append(s, e)
<1>1. /\ r \in Seq(S) /\ Len(r) = Len(s) + 1
      /\ \A i \in 1..Len(s) : r[i] = s[i]
      /\ r[Len(s) + 1] = e
  BY AppendProperties
<1> HIDE DEF r
<1>2. \A i \in 1..Len(s) : s[i] # e
  BY DEF ToSet
<1>3. \A i \in 1..(Len(s) + 1) : i \in 1..Len(s) \/ i = Len(s) + 1
  OBVIOUS
<1>4. IsInjective(r)
  BY <1>1, <1>2, <1>3 DEF IsInjective
<1>5. ToSet(r) = ToSet(s) \cup {e}
  <2>1. ASSUME NEW x \in ToSet(r) PROVE x \in ToSet(s) \cup {e}
    BY <1>1, <1>3, <2>1 DEF ToSet
  <2>2. ASSUME NEW x \in ToSet(s) \cup {e} PROVE x \in ToSet(r)
    <3>1. Len(s) + 1 \in 1..(Len(s) + 1) /\ 1..Len(s) \subseteq 1..(Len(s) + 1)
      OBVIOUS
    <3> QED BY <1>1, <2>2, <3>1 DEF ToSet
  <2> QED BY <2>1, <2>2
<1> QED BY <1>1, <1>4, <1>5 DEF r

-----------------------------------------------------------------------------
(* The invariant.                                                          *)

Caller == {Runner} \cup Request
Note   == {"changed", "active", "inactive", "lost", "back"}

On(j, w) == j.at # "idle" /\ j.id = w

\* Every check has the number of a watcher and a row.
JobOK(j) ==
    /\ j \in [at   : {"idle", "fetch", "note", "save", "notelost"},
              id   : Watcher \cup {Unknown},
              row  : Row \cup {Unknown},
              got  : Content \cup {Unknown},
              note : Seq(Note)]
    /\ j.at # "idle" => j.id \in Watcher /\ j.row \in Row
    /\ j.at \in {"note", "notelost"} => j.note # <<>>

Shape ==
    /\ watcher \in [Watcher -> Row \cup {Unknown}]
    /\ ready \in Seq(Watcher) /\ IsInjective(ready)
    /\ waiting \subseteq Watcher
    /\ DOMAIN job = Caller /\ \A c \in Caller : JobOK(job[c])
    /\ todo \in Seq([id : Watcher, row : Row])
    /\ told \in [Watcher -> [turn : {"active", "inactive"}, reach : {"lost", "back"}]]
    /\ repeated \subseteq Watcher
    /\ mixed \subseteq Watcher

\* What the owner should have heard of a row that has seen a content and
\* failed so often.
Turn(x, seen) == IF x.mode # "change" /\ seen # Unknown /\ Holds(x, seen)
                 THEN "active" ELSE "inactive"
Reach(n) == IF n >= Failures THEN "lost" ELSE "back"
Hears(t, x, seen, n) == t.turn = Turn(x, seen) /\ t.reach = Reach(n)

\* A row as it was read is still that of the watcher, but for the switch.
SameRow(r, x) == r.mode = x.mode /\ r.seen = x.seen /\ r.failures = x.failures

\* Where the alerts of the only check of a watcher are.
Follows(j, x, t) ==
    /\ x # Unknown
    /\ j.at # "notelost" => SameRow(j.row, x)
    /\ j.at = "fetch" => j.got = Unknown /\ Hears(t, x, x.seen, x.failures)
    /\ j.at = "note" =>
          /\ j.got # Unknown
          /\ \/ /\ PageNote(x, j.got) # <<>>
                /\ j.note = PageNote(x, j.got) \o BackNote(x)
                /\ Hears(t, x, x.seen, x.failures)
             \/ /\ BackNote(x) # <<>> /\ j.note = <<"back">>
                /\ Hears(t, x, j.got, x.failures)
    /\ j.at = "save" => IF j.got = Unknown THEN Hears(t, x, x.seen, x.failures)
                        ELSE Hears(t, x, j.got, 0)
    /\ j.at = "notelost" => /\ j.note = <<"lost">>
                            /\ x.failures = Failures
                            /\ Hears(t, x, x.seen, 0)

\* A watcher with this row and these alerts, among these checks.
Heard(w, jobs, x, t) ==
    /\ \A c, d \in Caller : On(jobs[c], w) /\ On(jobs[d], w) => c = d
    /\ \A c \in Caller : On(jobs[c], w) => Follows(jobs[c], x, t)
    /\ (\A c \in Caller : ~On(jobs[c], w)) =>
          IF x # Unknown THEN Hears(t, x, x.seen, x.failures)
          ELSE t = [turn |-> "inactive", reach |-> "back"]

AlertsInv == \A w \in Watcher \ mixed :
    Heard(w, job, watcher[w], told[w]) /\ w \notin repeated

Inv == Shape /\ ScheduledWhileEnabled /\ AlertsInv

\* No watcher, no check.
LEMMA InvInit == ASSUME ValuesAssumption, Init PROVE Inv
<1>1. Shape
  <2>1. <<>> \in Seq(Watcher) /\ IsInjective(<<>>) /\ <<>> \in Seq(Note)
        /\ <<>> \in Seq([id : Watcher, row : Row])
    BY DEF IsInjective
  <2>2. JobOK(NoJob)
    BY <2>1 DEF JobOK, NoJob
  <2> QED BY <2>1, <2>2 DEF Init, Shape, Caller
<1>2. ScheduledWhileEnabled
  BY DEF Init, ScheduledWhileEnabled, Exists, ToSet
<1>3. AlertsInv
  BY DEF Init, AlertsInv, Heard, On, NoJob, Caller
<1> QED BY <1>1, <1>2, <1>3 DEF Inv

-----------------------------------------------------------------------------
(* The owner's requests.                                                   *)

(* What a request does to the schedule.                                    *)
LEMMA ScheduleFacts ==
  ASSUME Shape, NEW w \in Watcher, NEW e \in BOOLEAN, Schedule(w, e)
  PROVE  /\ ready' \in Seq(Watcher) /\ IsInjective(ready')
         /\ ToSet(ready') = IF e THEN ToSet(ready) \cup {w} ELSE ToSet(ready) \ {w}
         /\ waiting' = waiting \ {w}
<1> DEFINE rest == RemoveFirst(ready, w)
<1>1. rest \in Seq(Watcher) /\ IsInjective(rest) /\ ToSet(rest) = ToSet(ready) \ {w}
  BY RemoveFirstFacts DEF Shape
<1> HIDE DEF rest
<1>2. /\ Append(rest, w) \in Seq(Watcher) /\ IsInjective(Append(rest, w))
      /\ ToSet(Append(rest, w)) = ToSet(rest) \cup {w}
  BY <1>1, AppendFacts
<1>3. ready' = (IF e THEN Append(rest, w) ELSE rest) /\ waiting' = waiting \ {w}
  BY DEF Schedule, rest
<1>4. CASE e
  BY <1>1, <1>2, <1>3, <1>4
<1>5. CASE ~e
  BY <1>1, <1>3, <1>5
<1> QED BY <1>4, <1>5

\* A request gives a watcher a row, or takes it, and schedules what is enabled.
Owns(w, x, e) == /\ watcher' = [watcher EXCEPT ![w] = x]
                 /\ x \in Row \cup {Unknown}
                 /\ (x # Unknown /\ x.enabled) <=> e
                 /\ Schedule(w, e)
                 /\ mixed \subseteq mixed' /\ mixed' \subseteq mixed \cup {w}
                 /\ UNCHANGED <<job, todo, told, repeated>>

\* A new row is a row.
LEMMA FreshIsRow ==
  ASSUME ValuesAssumption, NEW u \in Url, NEW m \in {"change", "contains", "missing"},
         NEW e \in BOOLEAN
  PROVE  /\ Fresh(u, m, e) \in Row /\ Fresh(u, m, e) # Unknown
         /\ Fresh(u, m, e).enabled = e
         /\ Fresh(u, m, e).seen = Unknown /\ Fresh(u, m, e).failures = 0
BY DEF Fresh, Row, ValuesAssumption

\* What the owner asks for is of one watcher.
LEMMA OwnerOwns ==
  ASSUME ValuesAssumption, Shape, NEW w \in Watcher,
         Create(w) \/ Update(w) \/ Enable(w) \/ Delete(w)
  PROVE  \E x \in Row \cup {Unknown}, e \in BOOLEAN : Owns(w, x, e)
<1>1. CASE Create(w)
  <2>1. PICK u \in Url, m \in {"change", "contains", "missing"}, e \in BOOLEAN :
           watcher' = [watcher EXCEPT ![w] = Fresh(u, m, e)] /\ Schedule(w, e)
    BY <1>1 DEF Create
  <2>2. Owns(w, Fresh(u, m, e), e)
    BY <1>1, <2>1, FreshIsRow DEF Create, Owns
  <2> QED BY <2>2 DEF Owns
<1>2. CASE Update(w)
  <2>1. PICK u \in Url, m \in {"change", "contains", "missing"}, e \in BOOLEAN :
           watcher' = [watcher EXCEPT ![w] = Fresh(u, m, e)] /\ Schedule(w, e)
    BY <1>2 DEF Update
  <2>2. Owns(w, Fresh(u, m, e), e)
    BY <1>2, <2>1, FreshIsRow DEF Update, Owns
  <2> QED BY <2>2 DEF Owns
<1>3. CASE Enable(w)
  <2>1. PICK e \in BOOLEAN : watcher' = [watcher EXCEPT ![w].enabled = e] /\ Schedule(w, e)
    BY <1>3 DEF Enable
  <2> DEFINE x == [watcher[w] EXCEPT !.enabled = e]
  <2>2. x \in Row /\ x.enabled = e /\ x # Unknown
    <3>1. watcher[w] \in Row
      BY <1>3 DEF Enable, Exists, Shape
    <3>2. x \in Row /\ x.enabled = e
      BY <3>1 DEF Row
    <3> QED BY <3>2 DEF ValuesAssumption
  <2>3. Owns(w, x, e)
    BY <1>3, <2>1, <2>2 DEF Enable, Owns
  <2> QED BY <2>3 DEF Owns
<1>4. CASE Delete(w)
  <2>1. Owns(w, Unknown, FALSE)
    BY <1>4 DEF Delete, Owns
  <2> QED BY <2>1
<1> QED BY <1>1, <1>2, <1>3, <1>4

(* The requests keep the types and the schedule.                           *)
LEMMA OwnerKeepsSchedule ==
  ASSUME Shape, ScheduledWhileEnabled, NEW w \in Watcher,
         NEW x, NEW e \in BOOLEAN, Owns(w, x, e)
  PROVE  Shape' /\ ScheduledWhileEnabled'
<1>1. /\ ready' \in Seq(Watcher) /\ IsInjective(ready')
      /\ ToSet(ready') = IF e THEN ToSet(ready) \cup {w} ELSE ToSet(ready) \ {w}
      /\ waiting' = waiting \ {w}
  BY ScheduleFacts DEF Owns
<1>2. watcher' \in [Watcher -> Row \cup {Unknown}]
      /\ watcher'[w] = x /\ \A v \in Watcher \ {w} : watcher'[v] = watcher[v]
  BY DEF Owns, Shape
<1>3. (x # Unknown /\ x.enabled) <=> e
  BY DEF Owns
<1>4. Shape'
  <2>1. IsInjective(ready)'
    BY <1>1 DEF IsInjective
  <2>2. UNCHANGED <<job, todo, told, repeated>> /\ mixed' \subseteq Watcher
    BY DEF Owns, Shape
  <2> QED BY <1>1, <1>2, <2>1, <2>2 DEF Shape, JobOK
<1>5. (waiting \cap ToSet(ready) = {})'
  BY <1>1 DEF ScheduledWhileEnabled
<1>6. ASSUME NEW v \in Watcher
      PROVE  (watcher'[v] # Unknown /\ watcher'[v].enabled)
                <=> v \in waiting' \cup ToSet(ready')
  BY <1>1, <1>2, <1>3, <1>6 DEF ScheduledWhileEnabled, Exists
<1> QED BY <1>4, <1>5, <1>6 DEF ScheduledWhileEnabled, Exists

-----------------------------------------------------------------------------
(* What the owner hears.                                                   *)

(* What a row has to tell depends on its mode, what it saw and its         *)
(* failures.                                                               *)
LEMMA SameRowTellsTheSame ==
  ASSUME NEW x, NEW y, SameRow(x, y)
  PROVE  /\ \A g : Turn(x, g) = Turn(y, g)
         /\ \A g : PageNote(x, g) = PageNote(y, g)
         /\ BackNote(x) = BackNote(y)
         /\ \A t, g, n : Hears(t, x, g, n) <=> Hears(t, y, g, n)
<1>1. \A g : Holds(x, g) <=> Holds(y, g)
  BY DEF SameRow, Holds
<1>2. x.mode = y.mode /\ x.seen = y.seen /\ x.failures = y.failures
  BY DEF SameRow
<1>3. \A g : Turn(x, g) = Turn(y, g)
  BY <1>1, <1>2 DEF Turn
<1>4. \A g : PageNote(x, g) = PageNote(y, g)
  BY <1>1, <1>2 DEF PageNote
<1>5. BackNote(x) = BackNote(y)
  BY <1>2 DEF BackNote
<1> QED BY <1>3, <1>4, <1>5 DEF Hears

(* A step that leaves a watcher's row, its alerts and its check alone,     *)
(* apart from the switch.                                                  *)
LEMMA HeardKept ==
  ASSUME NEW v, NEW J, NEW K, NEW x, NEW y, NEW t, Heard(v, J, x, t),
         y = x \/ (x # Unknown /\ y # Unknown /\ SameRow(x, y)),
         \A c \in Caller : K[c] = J[c] \/ (~On(J[c], v) /\ ~On(K[c], v))
  PROVE  Heard(v, K, y, t)
<1>1. \A c \in Caller : On(K[c], v) <=> On(J[c], v)
  OBVIOUS
<1>2. \A c \in Caller : On(J[c], v) => K[c] = J[c]
  OBVIOUS
<1>3. CASE y = x
  BY <1>1, <1>2, <1>3 DEF Heard
<1>4. CASE x # Unknown /\ y # Unknown /\ SameRow(x, y)
  <2>1. \A j : Follows(j, x, t) => Follows(j, y, t)
    <3> SUFFICES ASSUME NEW j, Follows(j, x, t) PROVE Follows(j, y, t)
      OBVIOUS
    <3>1. /\ x.seen = y.seen /\ x.failures = y.failures /\ x.mode = y.mode
          /\ \A g : PageNote(x, g) = PageNote(y, g)
          /\ BackNote(x) = BackNote(y)
          /\ \A g, n : Hears(t, x, g, n) <=> Hears(t, y, g, n)
      BY <1>4, SameRowTellsTheSame DEF SameRow
    <3>2. SameRow(j.row, x) => SameRow(j.row, y)
      BY <3>1 DEF SameRow
    <3> QED BY <1>4, <3>1, <3>2 DEF Follows
  <2>2. Hears(t, x, x.seen, x.failures) => Hears(t, y, y.seen, y.failures)
    BY <1>4, SameRowTellsTheSame DEF SameRow
  <2> QED BY <1>1, <1>2, <1>4, <2>1, <2>2 DEF Heard
<1> QED BY <1>3, <1>4

(* The step of a watcher's only check that goes on.                        *)
LEMMA HeardByOne ==
  ASSUME NEW w, NEW c \in Caller, NEW J, NEW K, NEW x, NEW y, NEW t, NEW u,
         Heard(w, J, x, t), On(J[c], w), On(K[c], w),
         \A d \in Caller \ {c} : K[d] = J[d],
         Follows(K[c], y, u)
  PROVE  Heard(w, K, y, u)
<1>1. \A d \in Caller : On(K[d], w) => d = c
  BY DEF Heard
<1> QED BY <1>1 DEF Heard

(* The step that ends it.                                                  *)
LEMMA HeardAtEnd ==
  ASSUME NEW w, NEW c \in Caller, NEW J, NEW K, NEW x, NEW y, NEW t, NEW u,
         Heard(w, J, x, t), On(J[c], w), ~On(K[c], w),
         \A d \in Caller \ {c} : K[d] = J[d],
         y # Unknown, Hears(u, y, y.seen, y.failures)
  PROVE  Heard(w, K, y, u)
<1>1. \A d \in Caller : ~On(K[d], w)
  BY DEF Heard
<1> QED BY <1>1 DEF Heard

(* The step that begins one.                                               *)
LEMMA HeardFromNow ==
  ASSUME NEW w, NEW c \in Caller, NEW J, NEW K, NEW x, NEW t,
         Heard(w, J, x, t), \A d \in Caller : ~On(J[d], w),
         \A d \in Caller \ {c} : K[d] = J[d],
         x # Unknown, On(K[c], w),
         K[c].at = "fetch", K[c].got = Unknown, K[c].row = x
  PROVE  Heard(w, K, x, t)
<1>1. \A d \in Caller : On(K[d], w) => d = c
  OBVIOUS
<1>2. Hears(t, x, x.seen, x.failures)
  BY DEF Heard
<1>3. Follows(K[c], x, t)
  BY <1>2 DEF Follows, SameRow
<1> QED BY <1>1, <1>3 DEF Heard

-----------------------------------------------------------------------------
(* The owner's requests, and what the owner hears.                         *)

(* An edited watcher is mixed; a new one has said nothing; the switch is   *)
(* nothing that an alert speaks of.                                        *)
LEMMA OwnerKeepsAlerts ==
  ASSUME ValuesAssumption, Shape, AlertsInv, NEW w \in Watcher,
         Create(w) \/ Update(w) \/ Enable(w) \/ Delete(w)
  PROVE  AlertsInv'
<1>1. /\ \A v \in Watcher \ {w} : watcher'[v] = watcher[v]
      /\ job' = job /\ told' = told /\ repeated' = repeated /\ mixed \subseteq mixed'
  BY OwnerOwns DEF Owns, Shape
<1>2. ASSUME NEW v \in Watcher \ mixed', v # w
      PROVE  Heard(v, job', watcher'[v], told'[v]) /\ v \notin repeated'
  BY <1>1, <1>2 DEF AlertsInv
<1>3. ASSUME w \notin mixed'
      PROVE  Heard(w, job', watcher'[w], told'[w]) /\ w \notin repeated'
  <2>1. Heard(w, job, watcher[w], told[w]) /\ w \notin repeated
    BY <1>1, <1>3 DEF AlertsInv
  <2>2. CASE Create(w)
    <3>1. PICK u \in Url, m \in {"change", "contains", "missing"}, e \in BOOLEAN :
             watcher' = [watcher EXCEPT ![w] = Fresh(u, m, e)]
      BY <2>2 DEF Create
    <3>2. watcher'[w] # Unknown /\ watcher'[w].seen = Unknown /\ watcher'[w].failures = 0
      BY <3>1, FreshIsRow DEF Shape
    <3>3. \A c \in Caller : ~On(job[c], w)
      BY <2>1, <2>2 DEF Create, Exists, Heard, Follows
    <3>4. told[w] = [turn |-> "inactive", reach |-> "back"]
      BY <2>1, <2>2, <3>3 DEF Create, Exists, Heard
    <3>5. Hears(told'[w], watcher'[w], watcher'[w].seen, watcher'[w].failures)
      BY <1>1, <3>2, <3>4 DEF Hears, Turn, Reach, ValuesAssumption
    <3>6. Heard(w, job', watcher'[w], told'[w])
      BY <1>1, <3>2, <3>3, <3>5 DEF Heard
    <3> QED BY <1>1, <2>1, <3>6
  <2>3. CASE Update(w) \/ Delete(w)
    BY <1>3, <2>3 DEF Update, Delete
  <2>4. CASE Enable(w)
    <3>1. PICK e \in BOOLEAN : watcher' = [watcher EXCEPT ![w].enabled = e]
      BY <2>4 DEF Enable
    <3>2. watcher[w] \in Row /\ watcher[w] # Unknown
      BY <2>4 DEF Enable, Exists, Shape
    <3>3. watcher'[w] = [watcher[w] EXCEPT !.enabled = e]
      BY <3>1 DEF Shape
    <3>4. watcher'[w] \in Row /\ SameRow(watcher[w], watcher'[w])
      BY <3>2, <3>3 DEF Row, SameRow
    <3>5. watcher'[w] # Unknown
      BY <3>4 DEF ValuesAssumption
    <3>6. Heard(w, job, watcher'[w], told[w])
      <4>1. \A c \in Caller : job[c] = job[c] \/ (~On(job[c], w) /\ ~On(job[c], w))
        OBVIOUS
      <4> QED BY <2>1, <3>2, <3>4, <3>5, <4>1, HeardKept
    <3> QED BY <1>1, <2>1, <3>6
  <2> QED BY <2>2, <2>3, <2>4
<1> QED BY <1>2, <1>3 DEF AlertsInv

-----------------------------------------------------------------------------
(* The checks keep the types.                                              *)

\* One check steps, and the rows and their schedule stay.
Moves(c, j) == job' = [job EXCEPT ![c] = j]

\* One check changes, the others keep what they have.
LEMMA MoveFacts ==
  ASSUME Shape, NEW c \in Caller, NEW j, Moves(c, j)
  PROVE  /\ DOMAIN job' = Caller /\ job'[c] = j
         /\ \A d \in Caller \ {c} : job'[d] = job[d]
BY DEF Moves, Shape

\* A check that is not under way.
LEMMA IdleJob ==
  ASSUME ValuesAssumption
  PROVE  JobOK(NoJob) /\ NoJob.at = "idle" /\ NoJob.got = Unknown /\ NoJob.note = <<>>
<1>1. <<>> \in Seq(Note)
  OBVIOUS
<1> QED BY <1>1 DEF JobOK, NoJob

(* What a success has to tell: nothing, a turn, or that the page is back.  *)
LEMMA NoteFacts ==
  ASSUME NEW row, NEW got
  PROVE  /\ PageNote(row, got) \in {<<>>, <<"changed">>, <<"active">>, <<"inactive">>}
         /\ BackNote(row) \in {<<>>, <<"back">>}
         /\ PageNote(row, got) \in Seq(Note) /\ BackNote(row) \in Seq(Note)
         /\ PageNote(row, got) \o BackNote(row) \in Seq(Note)
<1>1. PageNote(row, got) \in {<<>>, <<"changed">>, <<"active">>, <<"inactive">>}
  <2>1. CASE row.mode = "change"
    BY <2>1 DEF PageNote
  <2>2. CASE row.mode # "change" /\ Holds(row, got)
    BY <2>2 DEF PageNote
  <2>3. CASE row.mode # "change" /\ ~Holds(row, got)
    BY <2>3 DEF PageNote
  <2> QED BY <2>1, <2>2, <2>3
<1>2. BackNote(row) \in {<<>>, <<"back">>}
  BY DEF BackNote
<1>3. /\ <<>> \in Seq(Note) /\ <<"changed">> \in Seq(Note) /\ <<"active">> \in Seq(Note)
      /\ <<"inactive">> \in Seq(Note) /\ <<"back">> \in Seq(Note)
  BY DEF Note
<1>4. PageNote(row, got) \in Seq(Note) /\ BackNote(row) \in Seq(Note)
  BY <1>1, <1>2, <1>3
<1>5. PageNote(row, got) \o BackNote(row) \in Seq(Note)
  BY <1>4
<1> QED BY <1>1, <1>2, <1>4, <1>5

-----------------------------------------------------------------------------
(* The steps of a check.                                                   *)

(* A step of the checks of one watcher concerns no other one.              *)
LEMMA StepOfOne ==
  ASSUME Shape, AlertsInv, NEW c \in Caller, NEW w \in Watcher, NEW j, Moves(c, j),
         On(job[c], w) \/ job[c].at = "idle",
         On(j, w) \/ j.at = "idle",
         \A v \in Watcher \ {w} : watcher'[v] = watcher[v] /\ told'[v] = told[v],
         repeated' \subseteq repeated \cup {w},
         mixed \subseteq mixed',
         w \notin mixed' => Heard(w, job', watcher'[w], told'[w]) /\ w \notin repeated'
  PROVE  AlertsInv'
<1>1. job'[c] = j /\ \A d \in Caller \ {c} : job'[d] = job[d]
  BY MoveFacts
<1>2. ASSUME NEW v \in Watcher \ mixed', v # w
      PROVE  Heard(v, job', watcher'[v], told'[v]) /\ v \notin repeated'
  <2>1. Heard(v, job, watcher[v], told[v]) /\ v \notin repeated
    BY <1>2 DEF AlertsInv
  <2>2. ~On(job[c], v) /\ ~On(job'[c], v)
    BY <1>1, <1>2 DEF On
  <2>3. \A d \in Caller : job'[d] = job[d] \/ (~On(job[d], v) /\ ~On(job'[d], v))
    BY <1>1, <2>2
  <2>4. Heard(v, job', watcher[v], told[v])
    BY <2>1, <2>3, HeardKept
  <2> QED BY <1>2, <2>1, <2>4
<1> QED BY <1>2 DEF AlertsInv

(* The types, where the rows stay.                                         *)
LEMMA MoveKeepsShape ==
  ASSUME Shape, ScheduledWhileEnabled, NEW c \in Caller, NEW j, Moves(c, j), JobOK(j),
         UNCHANGED rowVars,
         todo' \in Seq([id : Watcher, row : Row]),
         told' \in [Watcher -> [turn : {"active", "inactive"}, reach : {"lost", "back"}]],
         repeated' \subseteq Watcher, mixed' \subseteq Watcher
  PROVE  Shape' /\ ScheduledWhileEnabled'
<1>1. DOMAIN job' = Caller /\ job'[c] = j /\ \A d \in Caller \ {c} : job'[d] = job[d]
  BY MoveFacts
<1>2. \A d \in Caller : JobOK(job'[d])
  BY <1>1 DEF Shape
<1>3. watcher' = watcher /\ ready' = ready /\ waiting' = waiting
  BY DEF rowVars
<1>4. Shape'
  BY <1>1, <1>2, <1>3 DEF Shape, IsInjective, JobOK
<1> QED BY <1>3, <1>4 DEF ScheduledWhileEnabled, Exists, ToSet

(* A check begins: it is the only one of its watcher, with the row of the  *)
(* moment, or the watcher is mixed.                                        *)
LEMMA BeginKeepsInv ==
  ASSUME ValuesAssumption, Inv, NEW c \in Caller, job[c].at = "idle",
         NEW w \in Watcher, NEW row \in Row, Begin(c, w, row),
         todo' \in Seq([id : Watcher, row : Row]),
         UNCHANGED <<rowVars, told, repeated>>
  PROVE  Inv'
<1> DEFINE j == [NoJob EXCEPT !.at = "fetch", !.id = w, !.row = row]
<1>1. /\ Moves(c, j) /\ JobOK(j)
      /\ j.at = "fetch" /\ j.id = w /\ j.row = row /\ j.got = Unknown
  <2>1. <<>> \in Seq(Note)
    OBVIOUS
  <2> QED BY <2>1 DEF Begin, Moves, JobOK, NoJob
<1>2. mixed' = IF Checked(w) = {} /\ row = watcher[w] THEN mixed ELSE mixed \cup {w}
  BY DEF Begin
<1> HIDE DEF j
<1>3. Shape' /\ ScheduledWhileEnabled'
  BY <1>1, <1>2, MoveKeepsShape DEF Inv, Shape
<1>4. job'[c] = j /\ \A d \in Caller \ {c} : job'[d] = job[d]
  BY <1>1, MoveFacts DEF Inv
<1>5. watcher' = watcher /\ told' = told /\ repeated' = repeated
  BY DEF rowVars
<1>6. ASSUME w \notin mixed'
      PROVE  Heard(w, job', watcher'[w], told'[w]) /\ w \notin repeated'
  <2>1. Checked(w) = {} /\ row = watcher[w] /\ w \notin mixed
    BY <1>2, <1>6
  <2>2. \A d \in Caller : ~On(job[d], w)
    BY <2>1 DEF Checked, On, Caller
  <2>3. Heard(w, job, watcher[w], told[w]) /\ w \notin repeated
    BY <2>1 DEF Inv, AlertsInv
  <2>4. watcher[w] # Unknown /\ On(job'[c], w)
    BY <1>1, <1>4, <2>1 DEF On, ValuesAssumption
  <2>5. Heard(w, job', watcher[w], told[w])
    <3>1. job'[c].at = "fetch" /\ job'[c].got = Unknown /\ job'[c].row = watcher[w]
      BY <1>1, <1>4, <2>1
    <3> QED BY <1>4, <2>2, <2>3, <2>4, <3>1, HeardFromNow
  <2> QED BY <1>5, <2>3, <2>5
<1>7. AlertsInv'
  <2>1. On(j, w) /\ mixed \subseteq mixed'
    BY <1>1, <1>2 DEF On
  <2> QED BY <1>1, <1>5, <1>6, <2>1, StepOfOne DEF Inv
<1> QED BY <1>3, <1>7 DEF Inv

\* The owner asks for a check.
LEMMA CheckNowKeepsInv ==
  ASSUME ValuesAssumption, Inv, NEW c \in Request, NEW w \in Watcher, CheckNow(c, w)
  PROVE  Inv'
<1>1. c \in Caller /\ watcher[w] \in Row /\ todo \in Seq([id : Watcher, row : Row])
  BY DEF CheckNow, Caller, Inv, Shape, Exists
<1> QED BY <1>1, BeginKeepsInv DEF CheckNow, Inv, Shape

\* The process takes the next one of its list.
LEMMA CheckDueKeepsInv ==
  ASSUME ValuesAssumption, Inv, CheckDue
  PROVE  Inv'
<1>1. todo \in Seq([id : Watcher, row : Row]) /\ todo # <<>>
  BY DEF CheckDue, Inv, Shape
<1>2. /\ Head(todo) \in [id : Watcher, row : Row]
      /\ Tail(todo) \in Seq([id : Watcher, row : Row])
  BY <1>1, HeadTailProperties
<1>3. Head(todo).id \in Watcher /\ Head(todo).row \in Row /\ Runner \in Caller
  BY <1>2 DEF Caller
<1> QED BY <1>2, <1>3, BeginKeepsInv DEF CheckDue

(* The process reads rows that exist: what is in line is enabled.          *)
LEMMA ListDueKeepsInv ==
  ASSUME ValuesAssumption, Inv, ListDue
  PROVE  Inv'
<1> DEFINE n == IF Len(ready) < Limit THEN Len(ready) ELSE Limit
           due == SubSeq(ready, 1, n)
<1>1. ready \in Seq(Watcher) /\ n \in 0..Len(ready)
  BY DEF Inv, Shape, ValuesAssumption
<1>2. due \in Seq(Watcher) /\ Len(due) = n /\ \A i \in 1..n : due[i] = ready[i]
  BY <1>1
<1>3. \A i \in 1..n : watcher[due[i]] \in Row /\ due[i] \in Watcher
  <2>1. ASSUME NEW i \in 1..n PROVE due[i] \in ToSet(ready) /\ due[i] \in Watcher
    BY <1>1, <1>2 DEF ToSet
  <2> QED BY <2>1 DEF Inv, Shape, ScheduledWhileEnabled, Exists
<1>4. todo' = [i \in 1..n |-> [id |-> due[i], row |-> watcher[due[i]]]]
  BY <1>2 DEF ListDue
<1> HIDE DEF due, n
<1>5. todo' \in Seq([id : Watcher, row : Row])
  BY <1>1, <1>3, <1>4
<1>6. UNCHANGED <<rowVars, job, told, repeated, mixed>>
  BY DEF ListDue
<1>7. Shape'
  BY <1>5, <1>6 DEF Inv, Shape, rowVars, IsInjective, JobOK
<1>8. ScheduledWhileEnabled'
  BY <1>6 DEF Inv, ScheduledWhileEnabled, rowVars, Exists, ToSet
<1>9. AlertsInv'
  BY <1>6 DEF Inv, AlertsInv, rowVars
<1> QED BY <1>7, <1>8, <1>9 DEF Inv

\* A watcher becomes due.
LEMMA RipenKeepsInv ==
  ASSUME Inv, NEW w \in Watcher, Ripen(w)
  PROVE  Inv'
<1>1. w \in waiting /\ w \notin ToSet(ready)
  BY DEF Ripen, Inv, ScheduledWhileEnabled
<1>2. /\ Append(ready, w) \in Seq(Watcher) /\ IsInjective(Append(ready, w))
      /\ ToSet(Append(ready, w)) = ToSet(ready) \cup {w}
  BY <1>1, AppendFacts DEF Inv, Shape
<1>3. /\ ready' = Append(ready, w) /\ waiting' = waiting \ {w}
      /\ UNCHANGED <<watcher, job, todo, told, repeated, mixed>>
  BY DEF Ripen
<1>4. Shape'
  <2>1. IsInjective(ready)'
    BY <1>2, <1>3 DEF IsInjective
  <2> QED BY <1>2, <1>3, <2>1 DEF Inv, Shape, JobOK
<1>5. ScheduledWhileEnabled'
  <2>1. ToSet(ready') = ToSet(ready) \cup {w}
    BY <1>2, <1>3
  <2>2. (waiting' \cap ToSet(ready') = {})
        /\ waiting' \cup ToSet(ready') = waiting \cup ToSet(ready)
    BY <1>1, <1>3, <2>1 DEF Inv, ScheduledWhileEnabled
  <2> QED BY <1>3, <2>2 DEF Inv, ScheduledWhileEnabled, Exists
<1>6. AlertsInv'
  BY <1>3 DEF Inv, AlertsInv
<1> QED BY <1>4, <1>5, <1>6 DEF Inv

(* The page is there: what there is to tell waits, nothing is told yet.    *)
LEMMA FetchKeepsInv ==
  ASSUME ValuesAssumption, Inv, NEW c \in Caller, Fetch(c)
  PROVE  Inv'
<1> DEFINE w == job[c].id
           row == job[c].row
<1>1. job[c].at = "fetch" /\ JobOK(job[c]) /\ w \in Watcher /\ row \in Row
  BY DEF Fetch, Inv, Shape, JobOK
<1>2. PICK content \in Content :
         job' = [job EXCEPT ![c] =
            [@ EXCEPT !.at = IF PageNote(row, content) \o BackNote(row) = <<>>
                             THEN "save" ELSE "note",
                      !.got = content, !.note = PageNote(row, content) \o BackNote(row)]]
  BY DEF Fetch
<1> DEFINE note == PageNote(row, content) \o BackNote(row)
           j == [job[c] EXCEPT !.at = IF note = <<>> THEN "save" ELSE "note",
                               !.got = content, !.note = note]
<1>3. Moves(c, j)
  BY <1>2 DEF Moves
<1>4. note \in Seq(Note) /\ content # Unknown
  BY NoteFacts DEF ValuesAssumption
<1>5. /\ JobOK(j) /\ j.id = w /\ j.row = row /\ j.got = content /\ j.note = note
      /\ j.at = IF note = <<>> THEN "save" ELSE "note"
  <2> HIDE DEF note
  <2> QED BY <1>1, <1>4 DEF JobOK
<1> HIDE DEF j, note, w, row
<1>6. UNCHANGED <<rowVars, todo, told, repeated, mixed>>
  BY DEF Fetch
<1>7. Shape' /\ ScheduledWhileEnabled'
  BY <1>3, <1>5, <1>6, MoveKeepsShape DEF Inv, Shape
<1>8. job'[c] = j /\ \A d \in Caller \ {c} : job'[d] = job[d]
  BY <1>3, MoveFacts DEF Inv
<1>9. watcher' = watcher /\ told' = told /\ repeated' = repeated /\ mixed' = mixed
  BY <1>6 DEF rowVars
<1>10. ASSUME w \notin mixed'
       PROVE  Heard(w, job', watcher'[w], told'[w]) /\ w \notin repeated'
  <2> DEFINE x == watcher[w]
             t == told[w]
  <2>1. Heard(w, job, x, t) /\ w \notin repeated
    BY <1>1, <1>9, <1>10 DEF Inv, AlertsInv
  <2>2. On(job[c], w) /\ On(j, w)
    BY <1>1, <1>5 DEF On, w
  <2>3. Follows(job[c], x, t)
    BY <2>1, <2>2 DEF Heard
  <2> HIDE DEF x, t
  <2>4. /\ x # Unknown /\ SameRow(row, x)
        /\ Hears(t, x, x.seen, x.failures)
    BY <1>1, <2>3 DEF Follows, row
  <2>5. note = PageNote(x, content) \o BackNote(x)
    BY <2>4, SameRowTellsTheSame DEF note
  <2>6. /\ PageNote(x, content) \in {<<>>, <<"changed">>, <<"active">>, <<"inactive">>}
        /\ BackNote(x) \in {<<>>, <<"back">>}
    BY NoteFacts
  <2>7. PageNote(x, content) = <<>> => t.turn = Turn(x, content)
    BY <1>4, <2>4 DEF PageNote, Turn, Hears
  <2>8. BackNote(x) = <<>> => t.reach = Reach(0)
    BY <2>4 DEF BackNote, Reach, Hears, ValuesAssumption
  <2>9. Follows(j, x, t)
    <3>1. CASE PageNote(x, content) # <<>>
      <4>1. note # <<>>
        BY <2>5, <2>6, <3>1
      <4> QED BY <1>4, <1>5, <2>4, <2>5, <3>1, <4>1 DEF Follows
    <3>2. CASE PageNote(x, content) = <<>> /\ BackNote(x) # <<>>
      <4>1. note = <<"back">>
        BY <2>5, <2>6, <3>2
      <4>2. note # <<>>
        BY <4>1
      <4>3. Hears(t, x, content, x.failures)
        BY <2>4, <2>7, <3>2 DEF Hears
      <4> QED BY <1>4, <1>5, <2>4, <3>2, <4>1, <4>2, <4>3 DEF Follows
    <3>3. CASE PageNote(x, content) = <<>> /\ BackNote(x) = <<>>
      <4>1. note = <<>>
        BY <2>5, <3>3
      <4>2. Hears(t, x, content, 0)
        BY <2>7, <2>8, <3>3 DEF Hears
      <4> QED BY <1>4, <1>5, <2>4, <4>1, <4>2 DEF Follows
    <3> QED BY <3>1, <3>2, <3>3
  <2>10. Heard(w, job', x, t)
    BY <1>8, <2>1, <2>2, <2>9, HeardByOne
  <2> QED BY <1>9, <2>1, <2>10 DEF x, t
<1>11. AlertsInv'
  <2>1. On(job[c], w) /\ On(j, w)
    BY <1>1, <1>5 DEF On, w
  <2> QED BY <1>1, <1>3, <1>9, <1>10, <2>1, StepOfOne DEF Inv
<1> QED BY <1>7, <1>11 DEF Inv

(* The page is not there: the failure is counted by the save.              *)
LEMMA FetchFailsKeepsInv ==
  ASSUME ValuesAssumption, Inv, NEW c \in Caller, FetchFails(c)
  PROVE  Inv'
<1> DEFINE w == job[c].id
           j == [job[c] EXCEPT !.at = "save"]
<1>1. job[c].at = "fetch" /\ JobOK(job[c]) /\ w \in Watcher
  BY DEF FetchFails, Inv, Shape, JobOK
<1>2. Moves(c, j)
  BY DEF FetchFails, Moves
<1>3. /\ JobOK(j) /\ j.id = w /\ j.row = job[c].row /\ j.got = job[c].got
      /\ j.at = "save"
  BY <1>1 DEF JobOK
<1> HIDE DEF j, w
<1>4. UNCHANGED <<rowVars, todo, told, repeated, mixed>>
  BY DEF FetchFails
<1>5. Shape' /\ ScheduledWhileEnabled'
  BY <1>2, <1>3, <1>4, MoveKeepsShape DEF Inv, Shape
<1>6. job'[c] = j /\ \A d \in Caller \ {c} : job'[d] = job[d]
  BY <1>2, MoveFacts DEF Inv
<1>7. watcher' = watcher /\ told' = told /\ repeated' = repeated /\ mixed' = mixed
  BY <1>4 DEF rowVars
<1>8. On(job[c], w) /\ On(j, w)
  BY <1>1, <1>3 DEF On, w
<1>9. ASSUME w \notin mixed'
      PROVE  Heard(w, job', watcher'[w], told'[w]) /\ w \notin repeated'
  <2>1. Heard(w, job, watcher[w], told[w]) /\ w \notin repeated
    BY <1>1, <1>7, <1>9 DEF Inv, AlertsInv
  <2>2. Follows(job[c], watcher[w], told[w])
    BY <1>8, <2>1 DEF Heard
  <2>3. Follows(j, watcher[w], told[w])
    BY <1>1, <1>3, <2>2 DEF Follows
  <2>4. Heard(w, job', watcher[w], told[w])
    BY <1>6, <1>8, <2>1, <2>3, HeardByOne
  <2> QED BY <1>7, <2>1, <2>4
<1>10. AlertsInv'
  BY <1>1, <1>2, <1>7, <1>8, <1>9, StepOfOne DEF Inv
<1> QED BY <1>5, <1>10 DEF Inv

(* A check that a page breaks is over before it told or saved anything; a  *)
(* killed one leaves its watcher mixed.                                    *)
LEMMA StopKeepsInv ==
  ASSUME ValuesAssumption, Inv, NEW c \in Caller, Break(c) \/ Kill(c)
  PROVE  Inv'
<1> DEFINE w == job[c].id
<1>1. job[c].at # "idle" /\ w \in Watcher /\ Moves(c, NoJob)
  BY DEF Break, Kill, Moves, Inv, Shape, JobOK
<1>2. /\ UNCHANGED <<rowVars, told, repeated>>
      /\ todo' = IF c = Runner THEN <<>> ELSE todo
      /\ mixed' = mixed \/ mixed' = mixed \cup {w}
  BY DEF Break, Kill
<1>3. JobOK(NoJob) /\ NoJob.at = "idle"
  BY IdleJob
<1>4. On(job[c], w) /\ ~On(NoJob, w)
  BY <1>1, <1>3 DEF On
<1>5. w \notin mixed' => Break(c)
  BY DEF Kill
<1> HIDE DEF w
<1>6. Shape' /\ ScheduledWhileEnabled'
  <2>1. todo' \in Seq([id : Watcher, row : Row])
    <3>1. <<>> \in Seq([id : Watcher, row : Row])
      OBVIOUS
    <3> QED BY <1>2, <3>1 DEF Inv, Shape
  <2> QED BY <1>1, <1>2, <1>3, <2>1, MoveKeepsShape DEF Inv, Shape
<1>7. job'[c] = NoJob /\ \A d \in Caller \ {c} : job'[d] = job[d]
  BY <1>1, MoveFacts DEF Inv
<1>8. watcher' = watcher /\ told' = told /\ repeated' = repeated /\ mixed \subseteq mixed'
  BY <1>2 DEF rowVars
<1>9. ASSUME w \notin mixed'
      PROVE  Heard(w, job', watcher'[w], told'[w]) /\ w \notin repeated'
  <2>1. Heard(w, job, watcher[w], told[w]) /\ w \notin repeated
    BY <1>1, <1>8, <1>9 DEF Inv, AlertsInv
  <2>2. Follows(job[c], watcher[w], told[w]) /\ job[c].at = "fetch"
    BY <1>4, <1>5, <1>9, <2>1 DEF Heard, Break
  <2>3. watcher[w] # Unknown
        /\ Hears(told[w], watcher[w], watcher[w].seen, watcher[w].failures)
    BY <2>2 DEF Follows
  <2>4. Heard(w, job', watcher[w], told[w])
    BY <1>4, <1>7, <2>1, <2>3, HeardAtEnd
  <2> QED BY <1>8, <2>1, <2>4
<1>10. AlertsInv'
  BY <1>1, <1>3, <1>4, <1>8, <1>9, StepOfOne DEF Inv
<1> QED BY <1>6, <1>10 DEF Inv

-----------------------------------------------------------------------------
(* An alert.                                                               *)

(* It concerns its watcher only.                                           *)
LEMMA TellTouchesOne ==
  ASSUME Shape, NEW w \in Watcher, NEW a \in Note, Tell(w, a)
  PROVE  /\ told' \in [Watcher -> [turn : {"active", "inactive"}, reach : {"lost", "back"}]]
         /\ \A v \in Watcher \ {w} : told'[v] = told[v]
         /\ repeated' \subseteq repeated \cup {w}
<1> DEFINE Said == [turn : {"active", "inactive"}, reach : {"lost", "back"}]
           new == CASE a = "changed" -> told[w]
                    [] a \in {"active", "inactive"} -> [told[w] EXCEPT !.turn = a]
                    [] a \in {"lost", "back"} -> [told[w] EXCEPT !.reach = a]
<1>1. told \in [Watcher -> Said] /\ told[w] \in Said
  BY DEF Shape
<1>2. new \in Said
  <2>1. CASE a = "changed"
    BY <1>1, <2>1
  <2>2. CASE a \in {"active", "inactive"}
    <3>1. new = [told[w] EXCEPT !.turn = a]
      BY <2>2
    <3> QED BY <1>1, <2>2, <3>1
  <2>3. CASE a \in {"lost", "back"}
    <3>1. new = [told[w] EXCEPT !.reach = a]
      BY <2>3
    <3> QED BY <1>1, <2>3, <3>1
  <2> QED BY <2>1, <2>2, <2>3 DEF Note
<1>3. /\ told' = IF w \in mixed THEN told ELSE [told EXCEPT ![w] = new]
      /\ repeated' = IF w \in mixed \/ a = "changed" \/ new # told[w] THEN repeated
                     ELSE repeated \cup {w}
  BY DEF Tell
<1> HIDE DEF Said, new
<1>4. told' \in [Watcher -> Said] /\ \A v \in Watcher \ {w} : told'[v] = told[v]
  BY <1>1, <1>2, <1>3
<1> QED BY <1>3, <1>4 DEF Said

(* What is new to the owner of a watcher that is not mixed repeats         *)
(* nothing.                                                                *)
LEMMA TellIsNew ==
  ASSUME Shape, NEW w \in Watcher, NEW a, Tell(w, a), w \notin mixed
  PROVE  /\ a = "changed" => told'[w] = told[w] /\ repeated' = repeated
         /\ a \in {"active", "inactive"} /\ told[w].turn # a =>
               /\ told'[w].turn = a /\ told'[w].reach = told[w].reach
               /\ repeated' = repeated
         /\ a \in {"lost", "back"} /\ told[w].reach # a =>
               /\ told'[w].reach = a /\ told'[w].turn = told[w].turn
               /\ repeated' = repeated
<1> DEFINE new == CASE a = "changed" -> told[w]
                    [] a \in {"active", "inactive"} -> [told[w] EXCEPT !.turn = a]
                    [] a \in {"lost", "back"} -> [told[w] EXCEPT !.reach = a]
<1>1. told[w] \in [turn : {"active", "inactive"}, reach : {"lost", "back"}]
  BY DEF Shape
<1>2. /\ told' = [told EXCEPT ![w] = new] /\ told'[w] = new
      /\ repeated' = IF a = "changed" \/ new # told[w] THEN repeated
                     ELSE repeated \cup {w}
  BY DEF Tell, Shape
<1>3. CASE a = "changed"
  <2>1. new = told[w]
    BY <1>3
  <2> HIDE DEF new
  <2> QED BY <1>2, <1>3, <2>1
<1>4. CASE a \in {"active", "inactive"} /\ told[w].turn # a
  <2>1. new = [told[w] EXCEPT !.turn = a]
    BY <1>4
  <2>2. new.turn = a /\ new.reach = told[w].reach
    BY <1>1, <2>1
  <2> HIDE DEF new
  <2>3. new # told[w]
    BY <1>4, <2>2
  <2> QED BY <1>2, <1>4, <2>2, <2>3
<1>5. CASE a \in {"lost", "back"} /\ told[w].reach # a
  <2>1. new = [told[w] EXCEPT !.reach = a]
    BY <1>5
  <2>2. new.reach = a /\ new.turn = told[w].turn
    BY <1>1, <2>1
  <2> HIDE DEF new
  <2>3. new # told[w]
    BY <1>5, <2>2
  <2> QED BY <1>2, <1>5, <2>2, <2>3
<1> QED BY <1>3, <1>4, <1>5

(* Two alerts, one after the other.                                        *)
LEMMA OneAndAnother ==
  ASSUME NEW S, NEW m \in S, NEW b \in S
  PROVE  Head(<<m>> \o <<b>>) = m /\ Tail(<<m>> \o <<b>>) = <<b>>
<1> DEFINE s == <<m>> \o <<b>>
           r == Tail(s)
<1>1. s \in Seq(S) /\ Len(s) = 2 /\ s[1] = m /\ s[2] = b
  OBVIOUS
<1> HIDE DEF s
<1>2. Head(s) = m
  BY <1>1
<1>3. r \in Seq(S) /\ Len(r) = 1 /\ r[1] = b
  BY SMTT(60), <1>1
<1> HIDE DEF r
<1>4. r = <<b>>
  BY <1>3
<1> QED BY <1>2, <1>4 DEF s, r

(* The alerts of a check, one after the other, say what is new.            *)
LEMMA AlertKeepsInv ==
  ASSUME ValuesAssumption, Inv, NEW c \in Caller, Alert(c)
  PROVE  Inv'
<1> DEFINE w == job[c].id
           note == job[c].note
           j == IF Tail(note) # <<>> THEN [job[c] EXCEPT !.note = Tail(note)]
                ELSE IF job[c].at = "note"
                     THEN [job[c] EXCEPT !.at = "save", !.note = <<>>]
                ELSE NoJob
<1>1. /\ job[c].at \in {"note", "notelost"} /\ JobOK(job[c]) /\ w \in Watcher
      /\ note \in Seq(Note) /\ note # <<>>
  BY DEF Alert, Inv, Shape, JobOK
<1>2. Head(note) \in Note /\ Tail(note) \in Seq(Note)
  BY <1>1, HeadTailProperties
<1>3. Moves(c, j) /\ Tell(w, Head(note))
      /\ UNCHANGED <<rowVars, todo, mixed, kills>>
  BY DEF Alert, Moves
<1>4. /\ Tail(note) # <<>> => /\ j.at = job[c].at /\ j.note = Tail(note) /\ j.id = w
                              /\ j.row = job[c].row /\ j.got = job[c].got
      /\ Tail(note) = <<>> /\ job[c].at = "note" =>
            /\ j.at = "save" /\ j.id = w /\ j.row = job[c].row /\ j.got = job[c].got
      /\ Tail(note) = <<>> /\ job[c].at # "note" => j = NoJob
      /\ JobOK(j)
  <2>1. CASE Tail(note) # <<>>
    <3>1. j = [job[c] EXCEPT !.note = Tail(note)]
      BY <2>1
    <3> HIDE DEF j, w, note
    <3>2. /\ j.at = job[c].at /\ j.note = Tail(note) /\ j.id = w
          /\ j.row = job[c].row /\ j.got = job[c].got
      BY <1>1, <3>1 DEF JobOK, w
    <3>3. JobOK(j)
      BY <1>1, <1>2, <2>1, <3>1 DEF JobOK
    <3> QED BY <2>1, <3>2, <3>3
  <2>2. CASE Tail(note) = <<>> /\ job[c].at = "note"
    <3>1. j = [job[c] EXCEPT !.at = "save", !.note = <<>>] /\ <<>> \in Seq(Note)
      BY <2>2
    <3> HIDE DEF j, w, note
    <3>2. j.at = "save" /\ j.id = w /\ j.row = job[c].row /\ j.got = job[c].got
      BY <1>1, <3>1 DEF JobOK, w
    <3>3. JobOK(j)
      BY <1>1, <3>1 DEF JobOK, w
    <3> QED BY <2>2, <3>2, <3>3
  <2>3. CASE Tail(note) = <<>> /\ job[c].at # "note"
    BY <2>3, IdleJob
  <2> QED BY <2>1, <2>2, <2>3
<1> HIDE DEF w, note, j
<1>5. /\ told' \in [Watcher -> [turn : {"active", "inactive"}, reach : {"lost", "back"}]]
      /\ \A v \in Watcher \ {w} : told'[v] = told[v]
      /\ repeated' \subseteq repeated \cup {w}
  BY <1>1, <1>2, <1>3, TellTouchesOne DEF Inv
<1>6. Shape' /\ ScheduledWhileEnabled'
  <2>1. repeated' \subseteq Watcher /\ mixed' \subseteq Watcher
        /\ todo' \in Seq([id : Watcher, row : Row])
    BY <1>1, <1>3, <1>5 DEF Inv, Shape
  <2> QED BY <1>3, <1>4, <1>5, <2>1, MoveKeepsShape DEF Inv
<1>7. job'[c] = j /\ \A d \in Caller \ {c} : job'[d] = job[d]
  BY <1>3, MoveFacts DEF Inv
<1>8. watcher' = watcher /\ mixed' = mixed
  BY <1>3 DEF rowVars
<1>9. On(job[c], w)
  BY <1>1 DEF On, w
<1>10. On(j, w) \/ j = NoJob
  BY <1>1, <1>4 DEF On
<1>11. ASSUME w \notin mixed'
       PROVE  Heard(w, job', watcher'[w], told'[w]) /\ w \notin repeated'
  <2> DEFINE x == watcher[w]
             t == told[w]
             u == told'[w]
             got == job[c].got
             a == Head(note)
  <2>1. Heard(w, job, x, t) /\ w \notin repeated /\ w \notin mixed
    BY <1>1, <1>8, <1>11 DEF Inv, AlertsInv
  <2>2. Follows(job[c], x, t)
    BY <1>9, <2>1 DEF Heard
  <2>3. /\ a = "changed" => u = t /\ repeated' = repeated
        /\ a \in {"active", "inactive"} /\ t.turn # a =>
              u.turn = a /\ u.reach = t.reach /\ repeated' = repeated
        /\ a \in {"lost", "back"} /\ t.reach # a =>
              u.reach = a /\ u.turn = t.turn /\ repeated' = repeated
    BY <1>1, <1>3, <2>1, TellIsNew DEF Inv
  <2> HIDE DEF x, t, u, got, a
  <2>4. CASE job[c].at = "notelost"
    <3>1. note = <<"lost">> /\ x # Unknown /\ x.failures = Failures
          /\ t.turn = Turn(x, x.seen) /\ t.reach = "back"
      BY <2>2, <2>4 DEF Follows, Hears, Reach, note, ValuesAssumption
    <3>2. a = "lost" /\ Tail(note) = <<>>
      BY <3>1 DEF a
    <3>3. Hears(u, x, x.seen, x.failures) /\ repeated' = repeated
      BY <2>3, <3>1, <3>2 DEF Hears, Reach, ValuesAssumption
    <3>4. ~On(j, w)
      BY <1>4, <2>4, <3>2, IdleJob DEF On
    <3>5. Heard(w, job', x, u)
      BY <1>7, <1>9, <2>1, <3>1, <3>3, <3>4, HeardAtEnd
    <3> QED BY <1>8, <2>1, <3>3, <3>5 DEF x, u
  <2>5. CASE job[c].at = "note"
    <3>1. x # Unknown /\ SameRow(job[c].row, x) /\ got # Unknown
          /\ \/ /\ PageNote(x, got) # <<>>
                /\ note = PageNote(x, got) \o BackNote(x)
                /\ Hears(t, x, x.seen, x.failures)
             \/ /\ BackNote(x) # <<>> /\ note = <<"back">>
                /\ Hears(t, x, got, x.failures)
      BY <2>2, <2>5 DEF Follows, note, got
    <3>2. /\ PageNote(x, got) \in {<<>>, <<"changed">>, <<"active">>, <<"inactive">>}
          /\ BackNote(x) \in {<<>>, <<"back">>}
      BY NoteFacts
    <3>3. \/ /\ PageNote(x, got) = <<a>> /\ Tail(note) = BackNote(x)
             /\ Hears(t, x, x.seen, x.failures)
          \/ /\ BackNote(x) # <<>> /\ a = "back" /\ Tail(note) = <<>>
             /\ Hears(t, x, got, x.failures)
      <4>1. \A m : /\ <<m>> \o <<>> = <<m>>
                  /\ Head(<<m>>) = m /\ Tail(<<m>>) = <<>>
        OBVIOUS
      <4>2. CASE /\ PageNote(x, got) # <<>>
                 /\ note = PageNote(x, got) \o BackNote(x)
                 /\ Hears(t, x, x.seen, x.failures)
        <5>1. PICK m \in Note : PageNote(x, got) = <<m>>
          BY <3>2, <4>2 DEF Note
        <5>2. a = m /\ Tail(note) = BackNote(x)
          <6>1. CASE BackNote(x) = <<>>
            BY <4>1, <4>2, <5>1, <6>1 DEF a
          <6>2. CASE BackNote(x) = <<"back">>
            <7>1. "back" \in Note
              BY DEF Note
            <7> QED BY <4>2, <5>1, <6>2, <7>1, OneAndAnother DEF a
          <6> QED BY <3>2, <6>1, <6>2
        <5> QED BY <4>2, <5>1, <5>2
      <4>3. CASE BackNote(x) # <<>> /\ note = <<"back">> /\ Hears(t, x, got, x.failures)
        BY <4>1, <4>3 DEF a, Note
      <4> QED BY <3>1, <4>2, <4>3
    <3>4. CASE /\ PageNote(x, got) = <<a>> /\ Tail(note) = BackNote(x)
               /\ Hears(t, x, x.seen, x.failures)
      <4>1. Hears(u, x, got, x.failures) /\ repeated' = repeated
        <5>1. CASE x.mode = "change"
          <6>1. a = "changed"
            BY <3>4, <5>1 DEF PageNote
          <6> QED BY <2>3, <3>4, <5>1, <6>1 DEF Hears, Turn
        <5>2. CASE x.mode # "change" /\ Holds(x, got)
          <6>1. a = "active" /\ Turn(x, got) = "active" /\ Turn(x, x.seen) = "inactive"
            BY <3>1, <3>4, <5>2 DEF PageNote, Turn
          <6> QED BY <2>3, <3>4, <6>1 DEF Hears
        <5>3. CASE x.mode # "change" /\ ~Holds(x, got)
          <6>1. a = "inactive" /\ Turn(x, got) = "inactive" /\ Turn(x, x.seen) = "active"
            BY <3>1, <3>4, <5>3 DEF PageNote, Turn
          <6> QED BY <2>3, <3>4, <6>1 DEF Hears
        <5> QED BY <5>1, <5>2, <5>3
      <4>2. CASE BackNote(x) = <<>>
        <5>1. Reach(x.failures) = Reach(0)
          BY <4>2 DEF BackNote, Reach, ValuesAssumption
        <5>2. j.at = "save" /\ j.id = w /\ j.row = job[c].row /\ j.got = got
          BY <1>4, <2>5, <3>4, <4>2 DEF got
        <5>3. Follows(j, x, u) /\ On(j, w)
          BY <3>1, <4>1, <5>1, <5>2 DEF Follows, Hears, On
        <5>4. Heard(w, job', x, u)
          BY <1>7, <1>9, <2>1, <5>3, HeardByOne
        <5> QED BY <1>8, <2>1, <4>1, <5>4 DEF x, u
      <4>3. CASE BackNote(x) # <<>>
        <5>1. /\ j.at = "note" /\ j.id = w /\ j.row = job[c].row /\ j.got = got
              /\ j.note = <<"back">>
          BY <1>4, <2>5, <3>2, <3>4, <4>3 DEF got
        <5>2. Follows(j, x, u) /\ On(j, w)
          BY <3>1, <4>1, <4>3, <5>1 DEF Follows, On
        <5>3. Heard(w, job', x, u)
          BY <1>7, <1>9, <2>1, <5>2, HeardByOne
        <5> QED BY <1>8, <2>1, <4>1, <5>3 DEF x, u
      <4> QED BY <4>2, <4>3
    <3>5. CASE /\ BackNote(x) # <<>> /\ a = "back" /\ Tail(note) = <<>>
               /\ Hears(t, x, got, x.failures)
      <4>1. t.reach = "lost" /\ t.turn = Turn(x, got) /\ Reach(0) = "back"
        BY <3>5 DEF BackNote, Hears, Reach, ValuesAssumption
      <4>2. Hears(u, x, got, 0) /\ repeated' = repeated
        BY <2>3, <3>5, <4>1 DEF Hears
      <4>3. j.at = "save" /\ j.id = w /\ j.row = job[c].row /\ j.got = got
        BY <1>4, <2>5, <3>5 DEF got
      <4>4. Follows(j, x, u) /\ On(j, w)
        BY <3>1, <4>2, <4>3 DEF Follows, On
      <4>5. Heard(w, job', x, u)
        BY <1>7, <1>9, <2>1, <4>4, HeardByOne
      <4> QED BY <1>8, <2>1, <4>2, <4>5 DEF x, u
    <3> QED BY <3>3, <3>4, <3>5
  <2> QED BY <1>1, <2>4, <2>5
<1>12. AlertsInv'
  <2>1. j.at = "idle" \/ On(j, w)
    BY <1>10, IdleJob
  <2> QED BY <1>1, <1>3, <1>5, <1>8, <1>9, <1>11, <2>1, StepOfOne DEF Inv
<1> QED BY <1>6, <1>12 DEF Inv

-----------------------------------------------------------------------------
(* The result of a check.                                                  *)

\* A result of a watcher that is still there: its row keeps its switch.
Saved(c) == LET w == job[c].id  row == job[c].row  got == job[c].got IN
    [watcher[w] EXCEPT !.seen = IF got = Unknown THEN row.seen ELSE got,
                       !.failures = IF got = Unknown THEN NewFailures(row) ELSE 0]

\* What save_web_watcher_result leaves in the row.
LEMMA SavedFacts ==
  ASSUME ValuesAssumption, Shape, NEW c \in Caller, job[c].at = "save",
         Exists(job[c].id)
  PROVE  /\ Saved(c) \in Row /\ Saved(c) # Unknown
         /\ Saved(c).enabled = watcher[job[c].id].enabled
         /\ Saved(c).mode = watcher[job[c].id].mode
         /\ Saved(c).seen = IF job[c].got = Unknown THEN job[c].row.seen ELSE job[c].got
         /\ Saved(c).failures = IF job[c].got = Unknown THEN NewFailures(job[c].row) ELSE 0
<1>1. /\ job[c].row \in Row /\ job[c].got \in Content \cup {Unknown}
      /\ watcher[job[c].id] \in Row
  BY DEF Shape, JobOK, Exists
<1>2. /\ job[c].row.seen \in Content \cup {Unknown}
      /\ NewFailures(job[c].row) \in 0..Failures /\ 0 \in 0..Failures
  BY <1>1 DEF Row, NewFailures, ValuesAssumption
<1>3. /\ Saved(c) \in Row
      /\ Saved(c).enabled = watcher[job[c].id].enabled
      /\ Saved(c).mode = watcher[job[c].id].mode
      /\ Saved(c).seen = IF job[c].got = Unknown THEN job[c].row.seen ELSE job[c].got
      /\ Saved(c).failures = IF job[c].got = Unknown THEN NewFailures(job[c].row) ELSE 0
  BY <1>1, <1>2 DEF Saved, Row
<1> QED BY <1>3 DEF ValuesAssumption

(* A result puts the watcher off while it is enabled, whatever the check   *)
(* read.                                                                   *)
LEMMA SaveKeepsSchedule ==
  ASSUME ValuesAssumption, Shape, ScheduledWhileEnabled, NEW c \in Caller, Save(c),
         Exists(job[c].id)
  PROVE  /\ watcher' = [watcher EXCEPT ![job[c].id] = Saved(c)]
         /\ ready' \in Seq(Watcher) /\ IsInjective(ready') /\ waiting' \subseteq Watcher
         /\ ScheduledWhileEnabled'
<1> DEFINE w == job[c].id
           y == Saved(c)
<1>1. job[c].at = "save" /\ w \in Watcher /\ watcher[w] \in Row
  BY DEF Save, Shape, JobOK, Exists
<1>2. /\ ready' = RemoveFirst(ready, w)
      /\ waiting' = IF watcher[w].enabled THEN waiting \cup {w} ELSE waiting \ {w}
      /\ watcher' = [watcher EXCEPT ![w] = y]
  BY <1>1 DEF Save, Reschedules, Saved
<1>3. y # Unknown /\ y.enabled = watcher[w].enabled
  BY <1>1, SavedFacts
<1> HIDE DEF w, y
<1>4. ready' \in Seq(Watcher) /\ IsInjective(ready') /\ ToSet(ready') = ToSet(ready) \ {w}
  BY <1>2, RemoveFirstFacts DEF Shape
<1>5. waiting' \subseteq Watcher
  BY <1>1, <1>2 DEF Shape
<1>6. watcher'[w] = y /\ \A v \in Watcher \ {w} : watcher'[v] = watcher[v]
  BY <1>1, <1>2 DEF Shape
<1>7. watcher[w] # Unknown
  BY DEF Exists, w
<1>8. waiting' \cap ToSet(ready') = {}
  BY <1>2, <1>4 DEF ScheduledWhileEnabled
<1>9. ASSUME NEW v \in Watcher
      PROVE  (watcher'[v] # Unknown /\ watcher'[v].enabled)
                <=> v \in waiting' \cup ToSet(ready')
  <2>1. (watcher[v] # Unknown /\ watcher[v].enabled) <=> v \in waiting \cup ToSet(ready)
    BY DEF ScheduledWhileEnabled, Exists
  <2>2. CASE v = w
    BY <1>2, <1>3, <1>4, <1>6, <1>7, <2>1, <2>2
  <2>3. CASE v # w
    BY <1>2, <1>4, <1>6, <2>1, <2>3
  <2> QED BY <2>2, <2>3
<1> QED BY <1>2, <1>4, <1>5, <1>8, <1>9 DEF ScheduledWhileEnabled, Exists, w, y

(* A check that saves has the row of the moment and is alone, while its    *)
(* watcher is not mixed: what it writes is what the owner has heard, or    *)
(* hears next.                                                             *)
LEMMA SaveKeepsInv ==
  ASSUME ValuesAssumption, Inv, NEW c \in Caller, Save(c)
  PROVE  Inv'
<1> DEFINE w == job[c].id
           row == job[c].row
           lost == job[c].got = Unknown /\ row.failures + 1 = Failures
           j == IF lost THEN [job[c] EXCEPT !.at = "notelost", !.note = <<"lost">>]
                ELSE NoJob
<1>1. job[c].at = "save" /\ JobOK(job[c]) /\ w \in Watcher /\ row \in Row
  BY DEF Save, Inv, Shape, JobOK
<1>2. Moves(c, j) /\ UNCHANGED <<todo, told, repeated, mixed>>
  BY DEF Save, Moves
<1>3. /\ lost => j.at = "notelost" /\ j.id = w /\ j.note = <<"lost">>
      /\ ~lost => j = NoJob
      /\ JobOK(j)
  <2>1. CASE lost
    <3>1. <<"lost">> \in Seq(Note) /\ <<"lost">> # <<>>
      BY DEF Note
    <3>2. j = [job[c] EXCEPT !.at = "notelost", !.note = <<"lost">>]
      BY <2>1
    <3> HIDE DEF j, w, row
    <3> QED BY <1>1, <2>1, <3>1, <3>2 DEF JobOK, w
  <2>2. CASE ~lost
    BY <2>2, IdleJob
  <2> QED BY <2>1, <2>2
<1> HIDE DEF j, lost, row, w
<1>4. /\ DOMAIN job' = Caller /\ job'[c] = j
      /\ \A d \in Caller \ {c} : job'[d] = job[d]
  BY <1>2, MoveFacts DEF Inv
<1>5. /\ \A v \in Watcher \ {w} : watcher'[v] = watcher[v]
      /\ Exists(w) => watcher'[w] = Saved(c)
      /\ Shape' /\ ScheduledWhileEnabled'
  <2>1. \A d \in Caller : JobOK(job'[d])
    BY <1>3, <1>4 DEF Inv, Shape
  <2>2. CASE Exists(w)
    <3>1. /\ watcher' = [watcher EXCEPT ![w] = Saved(c)]
          /\ ready' \in Seq(Watcher) /\ IsInjective(ready') /\ waiting' \subseteq Watcher
          /\ ScheduledWhileEnabled'
      BY <2>2, SaveKeepsSchedule DEF Inv, w
    <3>2. Saved(c) \in Row
      BY <1>1, <2>2, SavedFacts DEF Inv, w
    <3>3. /\ watcher' \in [Watcher -> Row \cup {Unknown}]
          /\ watcher'[w] = Saved(c)
          /\ \A v \in Watcher \ {w} : watcher'[v] = watcher[v]
      BY <1>1, <3>1, <3>2 DEF Inv, Shape
    <3>4. IsInjective(ready)'
      BY <3>1 DEF IsInjective
    <3>5. Shape'
      BY <1>2, <1>4, <2>1, <3>1, <3>3, <3>4 DEF Inv, Shape, JobOK
    <3> QED BY <3>1, <3>3, <3>5
  <2>3. CASE ~Exists(w)
    <3>1. watcher' = watcher /\ ready' = ready /\ waiting' = waiting
      BY <2>3 DEF Save, rowVars, w
    <3>2. Shape'
      BY <1>2, <1>4, <2>1, <3>1 DEF Inv, Shape, JobOK, IsInjective
    <3>3. ScheduledWhileEnabled'
      BY <3>1 DEF Inv, ScheduledWhileEnabled, Exists, ToSet
    <3> QED BY <2>3, <3>1, <3>2, <3>3
  <2> QED BY <2>2, <2>3
<1>6. On(job[c], w) /\ (On(j, w) \/ j = NoJob)
  BY <1>1, <1>3 DEF On, w
<1>7. ASSUME w \notin mixed'
      PROVE  Heard(w, job', watcher'[w], told'[w]) /\ w \notin repeated'
  <2> DEFINE x == watcher[w]
             y == watcher'[w]
             t == told[w]
             got == job[c].got
  <2>1. Heard(w, job, x, t) /\ w \notin repeated
    BY <1>1, <1>2, <1>7 DEF Inv, AlertsInv
  <2>2. Follows(job[c], x, t)
    BY <1>6, <2>1 DEF Heard
  <2>3. /\ x # Unknown /\ row.mode = x.mode /\ row.seen = x.seen
        /\ row.failures = x.failures
        /\ IF got = Unknown THEN Hears(t, x, x.seen, x.failures) ELSE Hears(t, x, got, 0)
    BY <1>1, <2>2 DEF Follows, SameRow, row
  <2>4. /\ y # Unknown /\ y.mode = x.mode
        /\ y.seen = IF got = Unknown THEN row.seen ELSE got
        /\ y.failures = IF got = Unknown THEN NewFailures(row) ELSE 0
    BY <1>1, <1>5, <2>3, SavedFacts DEF Exists, Inv, w, row
  <2>5. row.failures \in 0..Failures
    BY <1>1 DEF Row
  <2> HIDE DEF x, y, t, got
  <2>6. \A g : Turn(y, g) = Turn(x, g)
    BY <2>4 DEF Turn, Holds
  <2>7. CASE lost
    <3>1. got = Unknown /\ row.failures + 1 = Failures
      BY <2>7 DEF lost, got
    <3>2. y.failures = Failures /\ y.seen = x.seen /\ Reach(x.failures) = Reach(0)
      BY <2>3, <2>4, <2>5, <3>1 DEF NewFailures, Reach, ValuesAssumption
    <3>3. Hears(t, y, y.seen, 0)
      BY <2>3, <2>6, <3>1, <3>2 DEF Hears
    <3>4. Follows(j, y, t) /\ On(j, w)
      BY <1>3, <2>4, <2>7, <3>2, <3>3 DEF Follows, On
    <3>5. Heard(w, job', y, t)
      BY <1>4, <1>6, <2>1, <3>4, HeardByOne
    <3> QED BY <1>2, <2>1, <3>5 DEF y, t
  <2>8. CASE ~lost
    <3>1. Hears(t, y, y.seen, y.failures)
      <4>1. CASE got = Unknown
        <5>1. row.failures + 1 # Failures
          BY <2>8, <4>1 DEF lost, got
        <5>2. Reach(NewFailures(row)) = Reach(row.failures)
          BY <2>5, <5>1 DEF NewFailures, Reach, ValuesAssumption
        <5> QED BY <2>3, <2>4, <2>6, <4>1, <5>2 DEF Hears
      <4>2. CASE got # Unknown
        BY <2>3, <2>4, <2>6, <4>2 DEF Hears
      <4> QED BY <4>1, <4>2
    <3>2. ~On(j, w)
      BY <1>3, <2>8, IdleJob DEF On
    <3>3. Heard(w, job', y, t)
      BY <1>4, <1>6, <2>1, <2>4, <3>1, <3>2, HeardAtEnd
    <3> QED BY <1>2, <2>1, <3>3 DEF y, t
  <2> QED BY <2>7, <2>8
<1>8. AlertsInv'
  <2>1. On(j, w) \/ j.at = "idle"
    BY <1>6, IdleJob
  <2> QED BY <1>1, <1>2, <1>5, <1>6, <1>7, <2>1, StepOfOne DEF Inv
<1> QED BY <1>5, <1>8 DEF Inv

-----------------------------------------------------------------------------
(* Every step, and the theorems.                                           *)

\* The owner's requests.
LEMMA OwnerKeepsInv ==
  ASSUME ValuesAssumption, Inv, NEW w \in Watcher,
         Create(w) \/ Update(w) \/ Enable(w) \/ Delete(w)
  PROVE  Inv'
<1>1. PICK x \in Row \cup {Unknown}, e \in BOOLEAN : Owns(w, x, e)
  BY OwnerOwns DEF Inv
<1>2. Shape' /\ ScheduledWhileEnabled'
  BY <1>1, OwnerKeepsSchedule DEF Inv
<1>3. AlertsInv'
  BY OwnerKeepsAlerts DEF Inv
<1> QED BY <1>2, <1>3 DEF Inv

\* The steps of a check.
LEMMA CheckKeepsInv ==
  ASSUME ValuesAssumption, Inv, NEW c \in Caller,
         Fetch(c) \/ FetchFails(c) \/ Break(c) \/ Alert(c) \/ Save(c) \/ Kill(c)
  PROVE  Inv'
BY FetchKeepsInv, FetchFailsKeepsInv, StopKeepsInv, AlertKeepsInv, SaveKeepsInv

\* Every step of the owner, the process and the world.
LEMMA InvStep == ASSUME ValuesAssumption, Inv, [Next]_watcherVars PROVE Inv'
<1>1. CASE Run
  <2>1. Runner \in Caller
    BY DEF Caller
  <2> QED BY <1>1, <2>1, ListDueKeepsInv, CheckDueKeepsInv, CheckKeepsInv DEF Run
<1>2. ASSUME NEW w \in Watcher, Create(w) \/ Update(w) \/ Enable(w) \/ Delete(w) \/ Ripen(w)
      PROVE  Inv'
  BY <1>2, OwnerKeepsInv, RipenKeepsInv
<1>3. ASSUME NEW c \in Request,
             \/ \E w \in Watcher : CheckNow(c, w)
             \/ Fetch(c) \/ FetchFails(c) \/ Break(c) \/ Alert(c) \/ Save(c)
      PROVE  Inv'
  <2>1. c \in Caller
    BY DEF Caller
  <2> QED BY <1>3, <2>1, CheckNowKeepsInv, CheckKeepsInv
<1>4. ASSUME NEW c \in {Runner} \cup Request, Kill(c) PROVE Inv'
  BY <1>4, CheckKeepsInv DEF Caller
<1>5. CASE UNCHANGED watcherVars
  <2>1. /\ watcher' = watcher /\ ready' = ready /\ waiting' = waiting /\ job' = job
        /\ todo' = todo /\ told' = told /\ repeated' = repeated /\ mixed' = mixed
    BY <1>5 DEF watcherVars
  <2>2. Shape' /\ ScheduledWhileEnabled'
    BY <2>1 DEF Inv, Shape, JobOK, IsInjective, ScheduledWhileEnabled, Exists, ToSet
  <2>3. AlertsInv'
    BY <2>1 DEF Inv, AlertsInv
  <2> QED BY <2>2, <2>3 DEF Inv
<1> QED BY <1>1, <1>2, <1>3, <1>4, <1>5 DEF Next

(* A watcher is in the schedule exactly while it is enabled, however many  *)
(* checks of it end late.                                                  *)
THEOREM EnabledIsScheduled ==
  ASSUME ValuesAssumption PROVE Spec => []ScheduledWhileEnabled
<1>1. Init => Inv
  BY InvInit
<1>2. Inv /\ [Next]_watcherVars => Inv'
  BY InvStep
<1>3. Inv => ScheduledWhileEnabled
  BY DEF Inv
<1> QED BY <1>1, <1>2, <1>3, PTL DEF Spec

(* A watcher whose checks come one at a time and that nobody edits tells   *)
(* its owner every turn once.                                              *)
THEOREM TurnsAreToldOnce ==
  ASSUME ValuesAssumption PROVE Spec => []OneAlertPerTurn
<1>1. Init => Inv
  BY InvInit
<1>2. Inv /\ [Next]_watcherVars => Inv'
  BY InvStep
<1>3. Inv => OneAlertPerTurn
  BY DEF Inv, Shape, AlertsInv, OneAlertPerTurn
<1> QED BY <1>1, <1>2, <1>3, PTL DEF Spec

-----------------------------------------------------------------------------
(* Types: what the invariant leaves out.                                   *)

Bounds == kills \in 0..MaxKills /\ job = [c \in Caller |-> job[c]]

\* A check changes, and the others are still checks of their callers.
LEMMA MoveKeepsFunction ==
  ASSUME Bounds, NEW c, NEW j, Moves(c, j)
  PROVE  job' = [d \in Caller |-> job'[d]]
BY DEF Bounds, Moves

\* Every step of a check is a step of one check.
LEMMA ChecksMove ==
  ASSUME NEW c, \/ \E w \in Watcher : CheckNow(c, w)
                \/ c = Runner /\ CheckDue
                \/ Fetch(c) \/ FetchFails(c) \/ Break(c) \/ Alert(c) \/ Save(c) \/ Kill(c)
  PROVE  \E j : Moves(c, j)
<1>1. CASE \/ \E w \in Watcher : CheckNow(c, w)
           \/ c = Runner /\ CheckDue
  BY <1>1 DEF CheckNow, CheckDue, Begin, Moves
<1>2. CASE Fetch(c) \/ FetchFails(c) \/ Break(c)
  BY <1>2 DEF Fetch, FetchFails, Break, Moves
<1>3. CASE Alert(c) \/ Save(c) \/ Kill(c)
  BY <1>3 DEF Alert, Save, Kill, Moves
<1> QED BY <1>1, <1>2, <1>3

\* Only a kill counts.
LEMMA BoundsStep == ASSUME ValuesAssumption, Bounds, [Next]_watcherVars PROVE Bounds'
<1>1. ASSUME NEW c \in Caller,
             \/ \E w \in Watcher : CheckNow(c, w)
             \/ c = Runner /\ CheckDue
             \/ Fetch(c) \/ FetchFails(c) \/ Break(c) \/ Alert(c) \/ Save(c) \/ Kill(c)
      PROVE  Bounds'
  <2>1. kills' = kills \/ (kills < MaxKills /\ kills' = kills + 1)
    <3>1. CASE (\E w \in Watcher : CheckNow(c, w)) \/ CheckDue
      BY <3>1 DEF CheckNow, CheckDue
    <3>2. CASE Fetch(c) \/ FetchFails(c) \/ Break(c)
      BY <3>2 DEF Fetch, FetchFails, Break
    <3>3. CASE Alert(c) \/ Save(c) \/ Kill(c)
      BY <3>3 DEF Alert, Save, Kill
    <3> QED BY <1>1, <3>1, <3>2, <3>3
  <2>2. kills' \in 0..MaxKills
    BY <2>1 DEF Bounds, ValuesAssumption
  <2> QED BY <1>1, <2>2, ChecksMove, MoveKeepsFunction DEF Bounds
<1>2. CASE ListDue
  BY <1>2 DEF ListDue, Bounds
<1>3. ASSUME NEW w \in Watcher, Create(w) \/ Update(w) \/ Enable(w) \/ Delete(w) \/ Ripen(w)
      PROVE  Bounds'
  BY <1>3 DEF Create, Update, Enable, Delete, Ripen, Bounds
<1>4. CASE UNCHANGED watcherVars
  BY <1>4 DEF watcherVars, Bounds
<1> QED BY <1>1, <1>2, <1>3, <1>4 DEF Next, Run, Caller

\* The type of the module follows.
LEMMA WatchersTyped == ASSUME Inv, Bounds PROVE TypeOK
<1> DEFINE Checks == [at   : {"idle", "fetch", "note", "save", "notelost"},
                      id   : Watcher \cup {Unknown},
                      row  : Row \cup {Unknown},
                      got  : Content \cup {Unknown},
                      note : Seq(Note)]
<1>1. \A c \in Caller : job[c] \in Checks
  BY DEF Inv, Shape, JobOK
<1> HIDE DEF Checks
<1>2. job \in [Caller -> Checks]
  BY <1>1 DEF Bounds
<1> USE DEF Checks
<1> QED BY <1>2 DEF Inv, Shape, Bounds, TypeOK, Caller, Note

(* Every variable has its type.                                            *)
THEOREM WatchersTypes == ASSUME ValuesAssumption PROVE Spec => []TypeOK
<1>1. Init => Inv /\ Bounds
  <2>1. Init => Bounds
    BY DEF Init, Bounds, Caller, ValuesAssumption
  <2> QED BY <2>1, InvInit
<1>2. Inv /\ Bounds /\ [Next]_watcherVars => Inv' /\ Bounds'
  BY InvStep, BoundsStep
<1>3. Inv /\ Bounds => TypeOK
  BY WatchersTyped
<1> QED BY <1>1, <1>2, <1>3, PTL DEF Spec

=============================================================================
