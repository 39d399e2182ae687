----------------------------- MODULE BackupProofs -----------------------------
(***************************************************************************)
(* Theorems of module Backup, for any processes, versions, archives and    *)
(* failures: a restoration is whole or undone, and what it replaces is in  *)
(* an archive.                                                             *)
(***************************************************************************)
EXTENDS Backup, SequenceTheorems, TLAPS

\* What the model values must be: a lock is something, and someone's.
Distinct == /\ Nothing \notin Process
            /\ \A p \in Process \union {Nothing}, b \in BOOLEAN :
                  [by |-> p, filled |-> b] # Nothing

-----------------------------------------------------------------------------
(* The shapes of the records that EXCEPT changes.                          *)

JobField  == {"task", "stage", "admin", "locked", "import", "from", "core", "pack",
              "says", "id", "keep", "before", "old", "swapped", "alone"}
LiveField == {"db", "key", "uploads", "config", "media"}

Shaped(j) == j = [f \in JobField |-> j[f]]

ShapeInv == /\ job = [p \in Process |-> job[p]]
            /\ \A p \in Process : Shaped(job[p])
            /\ live = [f \in LiveField |-> live[f]]
            /\ lock # Nothing => lock = [by |-> lock.by, filled |-> lock.filled]

-----------------------------------------------------------------------------
(* The inductive invariant.                                                *)

Touching == Forward \union Backward             \* the content is half-way
Guarded  == Touching \union {"hold", "restored", "undone"}
After    == Touching \union Carrying \union {"undone", "quit"}

Whole(j) == j.old = Nothing /\ ~j.swapped       \* no directory was moved

\* Who touches the content has the lock; before that nothing was moved.
Staged(j) == /\ j.task = "none" => j.stage = "idle"
             /\ j.stage \in Guarded => j.locked
             /\ j.stage \notin After => Whole(j)

\* Who has the lock is the one that the lock file names.
Holding(p) == job[p].locked => lock # Nothing /\ lock.by = p

\* Where the files of x are while a rollback has not come to them: in place,
\* away, or replaced.
InPlace(j, x) == x.uploads = j.before.uploads /\ Whole(j)
Away(j, x)    == x.uploads = Nothing /\ j.old = j.before.uploads
Replaced(j)   == j.swapped /\ j.old = j.before.uploads
Files(j, x)   == InPlace(j, x) \/ (Away(j, x) /\ ~j.swapped) \/ Replaced(j)

\* What the installation x holds at each stage of the restoration j.
Progress(j, x) ==
    LET new == j.core
        was == j.before
    IN  /\ j.stage = "db" => x.db = was.db /\ x.key = was.key /\ InPlace(j, x)
        /\ j.stage = "key" => x.db = new.db /\ x.key = was.key /\ InPlace(j, x)
        /\ j.stage = "away" => x.db = new.db /\ x.key = new.key /\ InPlace(j, x)
        /\ j.stage = "in" => /\ x.db = new.db /\ x.key = new.key
                             /\ Away(j, x) /\ ~j.swapped
        /\ j.stage = "init" => Holds(x, new.db, new.key, Placed(new.uploads)) /\ Replaced(j)
        /\ j.stage = "restored" => Holds(x, new.db, new.key, Placed(new.uploads))
        /\ j.stage = "undo db" => Files(j, x)
        /\ j.stage = "undo key" => Files(j, x) /\ x.db = was.db
        /\ j.stage = "undo in" => Files(j, x) /\ x.db = was.db /\ x.key = was.key
        /\ j.stage = "undo away" => /\ x.db = was.db /\ x.key = was.key
                                    /\ \/ x.uploads = was.uploads /\ j.old = Nothing
                                       \/ Away(j, x)
        /\ j.stage = "undone" => Holds(x, was.db, was.key, was.uploads)

Good(p) == /\ Staged(job[p])
           /\ ~stolen => Holding(p) /\ (job[p].alone => Progress(job[p], live))

IInv == ShapeInv /\ stolen \in BOOLEAN /\ \A p \in Process : Good(p)

-----------------------------------------------------------------------------
\* A process without a task.
LEMMA NoJobGood == Shaped(NoJob) /\ Staged(NoJob) /\ ~NoJob.locked /\ NoJob.stage = "idle"
BY DEF Shaped, Staged, NoJob, JobField, Guarded, Touching, Forward, Backward, Whole

-----------------------------------------------------------------------------
(* One process takes a step.                                               *)

SameContent == /\ live'.db = live.db /\ live'.key = live.key
               /\ live'.uploads = live.uploads

\* One process changes, the others keep what they have.
LEMMA Frame ==
    ASSUME IInv, NEW q \in Process, NEW n, Shaped(n),
           job' = [job EXCEPT ![q] = n],
           live' = [f \in LiveField |-> live'[f]],
           lock' # Nothing => lock' = [by |-> lock'.by, filled |-> lock'.filled],
           stolen' \in BOOLEAN, stolen => stolen',
           \A p \in Process \ {q} : ~stolen' /\ job[p].locked => lock' # Nothing /\ lock'.by = p,
           ~stolen' /\ n.locked => lock' # Nothing /\ lock'.by = q,
           Staged(n), ~stolen' /\ n.alone => Progress(n, live'),
           SameContent \/ job[q].locked
    PROVE  IInv'
<1>1. /\ DOMAIN job = Process /\ job'[q] = n
      /\ \A p \in Process \ {q} : job'[p] = job[p]
      /\ job' = [p \in Process |-> job'[p]]
  BY DEF IInv, ShapeInv
<1>2. ShapeInv'
  BY <1>1 DEF IInv, ShapeInv
<1>3. Good(q)'
  BY <1>1 DEF Good, Staged, Holding, Whole, Progress, InPlace, Away, Replaced, Files, Holds
<1>4. ASSUME NEW p \in Process \ {q} PROVE Good(p)'
  <2>1. job'[p] = job[p] /\ Good(p)
    BY <1>1 DEF IInv
  <2>2. Staged(job[p])'
    BY <2>1 DEF Good, Staged, Whole
  <2>3. ~stolen' => Holding(p)'
    BY <2>1 DEF Holding
  <2>4. ASSUME ~stolen', job[p].alone PROVE Progress(job[p], live')
    <3>1. Progress(job[p], live) /\ Holding(p) /\ Holding(q) /\ Staged(job[p])
      BY <2>1, <2>4 DEF Good, IInv
    <3>2. CASE SameContent
      BY <2>1, <3>1, <3>2 DEF SameContent, Progress, InPlace, Away, Replaced, Files, Holds
    <3>3. CASE job[q].locked
      <4>1. ~job[p].locked
        BY <3>1, <3>3 DEF Holding
      <4>2. job[p].stage \notin Guarded
        BY <3>1, <4>1 DEF Staged
      <4>. QED
        BY <2>1, <4>2 DEF Progress, Guarded, Touching, Forward, Backward
    <3>. QED
      BY <3>2, <3>3
  <2>. QED
    BY <2>1, <2>2, <2>3, <2>4 DEF Good
<1>. QED
  BY <1>2, <1>3, <1>4 DEF IInv

(* A step that leaves the content, the lock and its own place in the line  *)
(* alone.                                                                  *)
LEMMA Quiet ==
    ASSUME IInv, NEW q \in Process, NEW n, Shaped(n),
           job' = [job EXCEPT ![q] = n],
           live' = [f \in LiveField |-> live'[f]], SameContent,
           UNCHANGED <<lock, stolen>>,
           n.locked => job[q].locked, Staged(n),
           n.stage \notin Guarded \ {"hold"}
    PROVE  IInv'
<1>1. /\ \A p \in Process : ~stolen /\ job[p].locked => lock # Nothing /\ lock.by = p
      /\ stolen \in BOOLEAN
      /\ lock # Nothing => lock = [by |-> lock.by, filled |-> lock.filled]
  BY DEF IInv, ShapeInv, Good, Holding
<1>2. Progress(n, live')
  BY DEF Progress, Guarded, Touching, Forward, Backward
<1>. QED
  BY <1>1, <1>2, Frame

\* The same with job' as Goes gives it.
LEMMA Moves ==
    ASSUME IInv, NEW q \in Process, NEW s, Goes(q, s)
    PROVE  /\ job' = [job EXCEPT ![q] = [job[q] EXCEPT !.stage = s]]
           /\ Shaped([job[q] EXCEPT !.stage = s])
           /\ [job[q] EXCEPT !.stage = s].stage = s
           /\ \A f \in JobField \ {"stage"} : [job[q] EXCEPT !.stage = s][f] = job[q][f]
BY DEF IInv, ShapeInv, Shaped, Goes, JobField

-----------------------------------------------------------------------------
(* The steps before the content is touched.                                *)

\* A task starts, and one that has no lock is over.
LEMMA StartsInv ==
    ASSUME IInv, NEW p \in Process, NEW n, Shaped(n), job' = [job EXCEPT ![p] = n],
           ~n.locked, n.stage \in {"idle", "snap", "look"}, Whole(n),
           n.task = "none" => n.stage = "idle",
           live' = live, UNCHANGED <<lock, stolen>>
    PROVE  IInv'
<1>1. Staged(n) /\ n.stage \notin Guarded
  BY DEF Staged, Guarded, Touching, Forward, Backward
<1>2. live' = [f \in LiveField |-> live'[f]] /\ SameContent
  BY DEF IInv, ShapeInv, SameContent
<1>. QED
  BY <1>1, <1>2, Quiet

\* A task starts.
LEMMA NewTask ==
    ASSUME IInv, NEW p \in Process,
           StartBackup(p) \/ StartRestore(p) \/ StartExport(p) \/ StartImport(p)
    PROVE  IInv'
<1>1. CASE StartBackup(p)
  <2>0. PICK keep \in Keeps :
            job' = [job EXCEPT ![p] = [NoJob EXCEPT !.task = "backup", !.stage = "snap",
                                                    !.keep = keep]]
    BY <1>1 DEF StartBackup
  <2> DEFINE n == [NoJob EXCEPT !.task = "backup", !.stage = "snap", !.keep = keep]
  <2>1. Shaped(n) /\ ~n.locked /\ n.stage = "snap" /\ Whole(n) /\ n.task # "none"
    BY DEF NoJob, Shaped, JobField, Whole
  <2>2. job' = [job EXCEPT ![p] = n] /\ live' = live /\ UNCHANGED <<lock, stolen>>
    BY <1>1, <2>0 DEF StartBackup
  <2> HIDE DEF n
  <2>. QED
    BY <2>1, <2>2, StartsInv
<1>2. CASE StartRestore(p)
  <2>1. PICK i \in DOMAIN archives :
            job' = [job EXCEPT ![p] = [NoJob EXCEPT !.task = "restore", !.stage = "look",
                                                    !.from = archives[i].id]]
    BY <1>2 DEF StartRestore
  <2> DEFINE n == [NoJob EXCEPT !.task = "restore", !.stage = "look",
                                !.from = archives[i].id]
  <2>2. Shaped(n) /\ ~n.locked /\ n.stage = "look" /\ Whole(n) /\ n.task # "none"
    BY DEF NoJob, Shaped, JobField, Whole
  <2>3. job' = [job EXCEPT ![p] = n] /\ live' = live /\ UNCHANGED <<lock, stolen>>
    BY <1>2, <2>1 DEF StartRestore
  <2> HIDE DEF n
  <2>. QED
    BY <2>2, <2>3, StartsInv
<1>3. ASSUME NEW task \in {"export", "import"}, NEW x, NEW admin, Migrates(p, task, x, admin)
      PROVE  IInv'
  <2> DEFINE n == [NoJob EXCEPT !.task = task, !.stage = "snap", !.admin = admin,
                                !.import = x, !.keep = Greater(Keep, Len(archives) + 1)]
  <2>1. Shaped(n) /\ ~n.locked /\ n.stage = "snap" /\ Whole(n) /\ n.task # "none"
    BY ZenonT(60) DEF NoJob, Shaped, JobField, Whole
  <2>2. job' = [job EXCEPT ![p] = n] /\ live' = live /\ UNCHANGED <<lock, stolen>>
    BY <1>3 DEF Migrates
  <2> HIDE DEF n
  <2>. QED
    BY <2>1, <2>2, StartsInv
<1>. QED
  BY <1>1, <1>2, <1>3 DEF StartExport, StartImport

\* A step on the disk: from a stage to the next.
LEMMA DiskInv ==
    ASSUME IInv, NEW p \in Process, NEW n, Shaped(n), job' = [job EXCEPT ![p] = n],
           n.locked = job[p].locked, n.task = job[p].task,
           n.old = job[p].old, n.swapped = job[p].swapped,
           job[p].stage # "idle", job[p].stage \notin After,
           n.stage \notin Guarded \ {"hold"}, n.stage = "hold" => n.locked,
           live' = live, UNCHANGED <<lock, stolen>>
    PROVE  IInv'
<1>1. Staged(job[p])
  BY DEF IInv, Good
<1>2. Staged(n)
  BY <1>1 DEF Staged, Whole
<1>3. live' = [f \in LiveField |-> live'[f]] /\ SameContent
  BY DEF IInv, ShapeInv, SameContent
<1>. QED
  BY <1>2, <1>3, Quiet

\* A backup makes its archive.
LEMMA MakesBackup ==
    ASSUME IInv, NEW p \in Process,
           Snap(p) \/ Say(p) \/ Pack(p) \/ Publish(p) \/ Sum(p) \/ Prune(p)
    PROVE  IInv'
<1> USE DEF Shaped, JobField, At, Guarded, After, Touching, Forward, Backward, Carrying
<1>0. Shaped(job[p]) /\ job = [q \in Process |-> job[q]]
  BY DEF IInv, ShapeInv
<1>1. CASE Snap(p)
  BY ZenonT(60), <1>0, <1>1, DiskInv DEF Snap
<1>2. CASE Say(p)
  <2> DEFINE n == [job[p] EXCEPT !.says = [key |-> live.key # Nothing,
                                           uploads |-> live.uploads # Nothing],
                                 !.stage = "pack"]
  <2>1. /\ Shaped(n) /\ n.stage = "pack"
        /\ \A f \in JobField \ {"says", "stage"} : n[f] = job[p][f]
    BY <1>0
  <2>2. /\ job' = [job EXCEPT ![p] = n] /\ job[p].stage = "say"
        /\ live' = live /\ UNCHANGED <<lock, stolen>>
    BY <1>2 DEF Say
  <2> HIDE DEF n
  <2>. QED
    BY <2>1, <2>2, DiskInv
<1>3. CASE Pack(p)
  BY ZenonT(60), <1>0, <1>3, DiskInv DEF Pack
<1>4. CASE Publish(p)
  BY ZenonT(60), <1>0, <1>4, DiskInv DEF Publish
<1>5. CASE Sum(p)
  BY <1>0, <1>5, DiskInv DEF Sum, Goes
<1>6. CASE Prune(p)
  <2>1. CASE job[p].task = "backup"
    BY <1>6, <2>1, StartsInv, NoJobGood DEF Prune, Staged, NoJob, Whole
  <2>2. CASE job[p].task # "backup"
    BY <1>0, <1>6, <2>2, DiskInv DEF Prune
  <2>. QED
    BY <2>1, <2>2
<1>. QED
  BY <1>1, <1>2, <1>3, <1>4, <1>5, <1>6

\* A restoration that has touched nothing yet.
LEMMA PreparesInv ==
    ASSUME IInv, NEW p \in Process,
           \/ Look(p) \/ Verify(p) \/ Invalid(p)
           \/ Gather(p) \/ Install(p) \/ InstallSum(p)
    PROVE  IInv'
<1> USE DEF Shaped, JobField, At, Guarded, After, Touching, Forward, Backward, Carrying, Goes
<1>0. Shaped(job[p]) /\ job = [q \in Process |-> job[q]]
  BY DEF IInv, ShapeInv
<1>1. CASE Look(p)
  BY <1>0, <1>1, DiskInv DEF Look
<1>2. CASE Verify(p)
  <2>1. PICK core, keep : job' = [job EXCEPT ![p].core = core, ![p].stage = "snap",
                                             ![p].keep = keep]
    BY <1>2 DEF Verify
  <2> DEFINE n == [job[p] EXCEPT !.core = core, !.stage = "snap", !.keep = keep]
  <2>2. /\ Shaped(n) /\ n.stage = "snap"
        /\ \A f \in JobField \ {"core", "stage", "keep"} : n[f] = job[p][f]
    BY <1>0
  <2>3. /\ job' = [job EXCEPT ![p] = n] /\ job[p].stage = "verify"
        /\ live' = live /\ UNCHANGED <<lock, stolen>>
    BY <1>2, <2>1 DEF Verify
  <2> HIDE DEF n
  <2>. QED
    BY <2>2, <2>3, DiskInv
<1>3. CASE Invalid(p)
  BY <1>0, <1>3, DiskInv DEF Invalid
<1>4. CASE Gather(p)
  <2>1. CASE job[p].task = "import"
    <3>1. /\ Goes(p, "install") /\ job[p].stage = "gather"
          /\ live' = live /\ UNCHANGED <<lock, stolen>>
      BY <1>4, <2>1 DEF Gather
    <3>. QED
      BY <1>0, <3>1, DiskInv
  <2>2. CASE job[p].task # "import"
    BY <1>4, <2>2, StartsInv, NoJobGood DEF Gather, NoJob, Whole
  <2>. QED
    BY <2>1, <2>2
<1>5. CASE Install(p)
  BY <1>0, <1>5, DiskInv DEF Install
<1>6. CASE InstallSum(p)
  <2> DEFINE n == [job[p] EXCEPT !.from = job[p].import.archive.id, !.stage = "look"]
  <2>1. /\ Shaped(n) /\ n.stage = "look"
        /\ \A f \in JobField \ {"from", "stage"} : n[f] = job[p][f]
    BY <1>0
  <2>2. /\ job' = [job EXCEPT ![p] = n] /\ job[p].stage = "install sum"
        /\ live' = live /\ UNCHANGED <<lock, stolen>>
    BY <1>6 DEF InstallSum
  <2> HIDE DEF n
  <2>. QED
    BY <2>1, <2>2, DiskInv
<1>. QED
  BY <1>1, <1>2, <1>3, <1>4, <1>5, <1>6

-----------------------------------------------------------------------------
(* The restoration.                                                        *)

Now(p) == ~stolen /\ job[p].alone => Progress(job[p], live)

\* A restoration goes from one file to the next.
LEMMA TouchInv ==
    ASSUME IInv, NEW p \in Process, NEW n, Shaped(n), job' = [job EXCEPT ![p] = n],
           n.locked = job[p].locked, n.task = job[p].task,
           job[p].stage \in Guarded,
           n.stage \in Touching \union {"restored", "undone"},
           live' = [f \in LiveField |-> live'[f]], UNCHANGED <<lock, stolen>>,
           ~stolen /\ n.alone => Progress(n, live')
    PROVE  IInv'
<1>1. Staged(job[p]) /\ stolen \in BOOLEAN
  BY DEF IInv, Good
<1>2. Staged(n) /\ job[p].locked
  BY <1>1 DEF Staged, Whole, After, Guarded, Touching, Forward, Backward, Carrying
<1>3. /\ \A q \in Process : ~stolen /\ job[q].locked => lock # Nothing /\ lock.by = q
      /\ lock # Nothing => lock = [by |-> lock.by, filled |-> lock.filled]
  BY DEF IInv, ShapeInv, Good, Holding
<1>. QED
  BY <1>1, <1>2, <1>3, Frame

\* The safety backup is made, and the files are there as they were.
LEMMA HoldInv == ASSUME IInv, NEW p \in Process, Hold(p) PROVE IInv'
<1> DEFINE n == [job[p] EXCEPT !.before = CoreOf(live), !.stage = "db",
                               !.pack = SomeCore, !.says = NoSays]
<1>1. Shaped(job[p]) /\ Staged(job[p]) /\ job = [q \in Process |-> job[q]]
      /\ live = [f \in LiveField |-> live[f]]
  BY DEF IInv, ShapeInv, Good
<1>2. /\ Shaped(n) /\ n.stage = "db" /\ n.before = CoreOf(live)
      /\ \A f \in JobField \ {"before", "stage", "pack", "says"} : n[f] = job[p][f]
  BY <1>1 DEF Shaped, JobField
<1>3. /\ job' = [job EXCEPT ![p] = n] /\ job[p].stage = "hold"
      /\ live' = live /\ UNCHANGED <<lock, stolen>>
  BY <1>1 DEF Hold, At
<1> HIDE DEF n
<1>4. Whole(n)
  BY <1>1, <1>2, <1>3
     DEF Staged, Whole, After, Touching, Forward, Backward, Carrying, JobField
<1>5. Progress(n, live')
  BY <1>2, <1>3, <1>4 DEF Progress, InPlace, CoreOf, Whole
<1>. QED
  BY <1>1, <1>2, <1>3, <1>5, TouchInv DEF Guarded, Touching, Forward, Backward, JobField

\* A step that Puts takes: from a stage to the next, with what else a
\* restoration remembers.
Follows(n, j, s) == /\ n.stage = s /\ n.core = j.core /\ n.before = j.before
                    /\ n.old = j.old /\ n.swapped = j.swapped

\* One file is replaced, whole.
LEMMA PutsInv ==
    ASSUME IInv, NEW p \in Process, NEW s, Goes(p, s),
           job[p].stage \in Touching, s \in Touching \union {"restored", "undone"},
           live' = [f \in LiveField |-> live'[f]], UNCHANGED <<lock, stolen>>,
           \A n : Follows(n, job[p], s) /\ Progress(job[p], live) => Progress(n, live')
    PROVE  IInv'
<1> DEFINE n == [job[p] EXCEPT !.stage = s]
<1>1. /\ job' = [job EXCEPT ![p] = n] /\ Shaped(n) /\ n.stage = s
      /\ \A f \in JobField \ {"stage"} : n[f] = job[p][f]
  BY Moves
<1>2. Now(p)
  BY DEF IInv, Good, Now
<1>3. Follows(n, job[p], s)
  BY <1>1 DEF Follows, JobField
<1>4. ~stolen /\ n.alone => Progress(n, live')
  BY <1>1, <1>2, <1>3 DEF JobField, Now
<1> HIDE DEF n
<1>. QED
  BY <1>1, <1>4, TouchInv DEF Guarded, JobField

\* The database and the key come in.
LEMMA RestoresInv ==
    ASSUME IInv, NEW p \in Process,
           \/ TakeDatabase(p) \/ TakeKey(p) \/ Obstructed(p) \/ Initialize(p)
    PROVE  IInv'
<1> USE DEF Touching, Forward, Backward, LiveField, Progress, Follows
<1>0. live = [f \in LiveField |-> live[f]]
  BY DEF IInv, ShapeInv
<1>1. CASE TakeDatabase(p)
  <2>1. /\ Goes(p, "key") /\ UNCHANGED <<lock, stolen>>
        /\ live' = [f \in LiveField |-> live'[f]]
    BY <1>0, <1>1 DEF TakeDatabase, Puts
  <2>2. \A n : Follows(n, job[p], "key") /\ Progress(job[p], live) => Progress(n, live')
    BY <1>0, <1>1 DEF TakeDatabase, Puts, At, InPlace, Whole
  <2>. QED
    BY <1>1, <2>1, <2>2, PutsInv DEF TakeDatabase, Puts, At
<1>2. CASE TakeKey(p)
  <2>1. /\ Goes(p, "away") /\ UNCHANGED <<lock, stolen>>
        /\ live' = [f \in LiveField |-> live'[f]]
    BY <1>0, <1>2 DEF TakeKey, Puts
  <2>2. \A n : Follows(n, job[p], "away") /\ Progress(job[p], live) => Progress(n, live')
    BY <1>0, <1>2 DEF TakeKey, Puts, At, InPlace, Whole
  <2>. QED
    BY <1>2, <2>1, <2>2, PutsInv DEF TakeKey, Puts, At
<1>3. CASE Obstructed(p)
  <2>1. /\ Goes(p, "undo db") /\ UNCHANGED <<lock, stolen>>
        /\ live' = [f \in LiveField |-> live'[f]]
    BY <1>0, <1>3 DEF Obstructed, Puts
  <2>2. \A n : Follows(n, job[p], "undo db") /\ Progress(job[p], live) => Progress(n, live')
    BY <1>0, <1>3 DEF Obstructed, Puts, At, Files, Away
  <2>. QED
    BY <1>3, <2>1, <2>2, PutsInv DEF Obstructed, Puts, At
<1>4. CASE Initialize(p)
  <2>1. /\ Goes(p, "restored") /\ UNCHANGED <<lock, stolen>>
        /\ live' = [f \in LiveField |-> live'[f]]
    BY <1>0, <1>4 DEF Initialize, Puts
  <2>2. \A n : Follows(n, job[p], "restored") /\ Progress(job[p], live) => Progress(n, live')
    BY <1>0, <1>4 DEF Initialize, Puts, At, Holds
  <2>. QED
    BY <1>4, <2>1, <2>2, PutsInv DEF Initialize, Puts, At
<1>. QED
  BY <1>1, <1>2, <1>3, <1>4

\* The rollback puts them back.
LEMMA UndoesInv ==
    ASSUME IInv, NEW p \in Process,
           UndoDatabase(p) \/ UndoKey(p) \/ UndoIn(p) \/ UndoAway(p)
    PROVE  IInv'
<1> USE DEF Touching, Forward, Backward, LiveField, Progress, Follows,
            Files, InPlace, Away, Replaced, Whole
<1>0. live = [f \in LiveField |-> live[f]]
  BY DEF IInv, ShapeInv
<1>1. CASE UndoDatabase(p)
  <2>1. /\ Goes(p, "undo key") /\ UNCHANGED <<lock, stolen>>
        /\ live' = [f \in LiveField |-> live'[f]]
    BY <1>0, <1>1 DEF UndoDatabase, Puts
  <2>2. \A n : Follows(n, job[p], "undo key") /\ Progress(job[p], live) => Progress(n, live')
    BY ZenonT(60), <1>0, <1>1 DEF UndoDatabase, Puts, At
  <2>. QED
    BY <1>1, <2>1, <2>2, PutsInv DEF UndoDatabase, Puts, At
<1>2. CASE UndoKey(p)
  <2>1. /\ Goes(p, "undo in") /\ UNCHANGED <<lock, stolen>>
        /\ live' = [f \in LiveField |-> live'[f]]
    BY <1>0, <1>2 DEF UndoKey, Puts
  <2>2. \A n : Follows(n, job[p], "undo in") /\ Progress(job[p], live) => Progress(n, live')
    BY ZenonT(60), <1>0, <1>2 DEF UndoKey, Puts, At
  <2>. QED
    BY <1>2, <2>1, <2>2, PutsInv DEF UndoKey, Puts, At
<1>3. CASE UndoIn(p)
  <2>1. /\ Goes(p, "undo away") /\ UNCHANGED <<lock, stolen>>
        /\ live' = [f \in LiveField |-> live'[f]]
    BY <1>0, <1>3 DEF UndoIn, Puts
  <2>2. \A n : Follows(n, job[p], "undo away") /\ Progress(job[p], live) => Progress(n, live')
    BY ZenonT(60), <1>0, <1>3 DEF UndoIn, Puts, At
  <2>. QED
    BY <1>3, <2>1, <2>2, PutsInv DEF UndoIn, Puts, At
<1>4. CASE UndoAway(p)
  <2>1. /\ Goes(p, "undone") /\ UNCHANGED <<lock, stolen>>
        /\ live' = [f \in LiveField |-> live'[f]]
    BY <1>0, <1>4 DEF UndoAway, Puts
  <2>2. \A n : Follows(n, job[p], "undone") /\ Progress(job[p], live) => Progress(n, live')
    BY ZenonT(60), <1>0, <1>4 DEF UndoAway, Puts, At, Free, Holds
  <2>. QED
    BY <1>4, <2>1, <2>2, PutsInv DEF UndoAway, Puts, At
<1>. QED
  BY <1>1, <1>2, <1>3, <1>4

\* The two renames of the files.
LEMMA MovesInv ==
    ASSUME IInv, NEW p \in Process, MoveAway(p) \/ MoveIn(p)
    PROVE  IInv'
<1> USE DEF Touching, Forward, Backward, Guarded
<1>0. /\ live = [f \in LiveField |-> live[f]] /\ Shaped(job[p]) /\ Now(p)
      /\ job = [q \in Process |-> job[q]]
  BY DEF IInv, ShapeInv, Good, Now
<1>1. CASE MoveAway(p)
  <2> DEFINE n == [job[p] EXCEPT !.old = live.uploads, !.stage = "in"]
  <2>1. /\ Shaped(n) /\ n.stage = "in" /\ n.old = live.uploads
        /\ \A f \in JobField \ {"old", "stage"} : n[f] = job[p][f]
    BY <1>0 DEF Shaped, JobField
  <2>2. /\ job' = [job EXCEPT ![p] = n] /\ job[p].stage = "away"
        /\ live' = [live EXCEPT !.uploads = Nothing] /\ UNCHANGED <<lock, stolen>>
    BY <1>1 DEF MoveAway, At
  <2> HIDE DEF n
  <2>3. /\ live' = [f \in LiveField |-> live'[f]]
        /\ live'.db = live.db /\ live'.key = live.key /\ live'.uploads = Nothing
    BY <1>0, <2>2 DEF LiveField
  <2>4. ~stolen /\ n.alone => Progress(n, live')
    BY ZenonT(60), <1>0, <2>1, <2>2, <2>3 DEF Now, Progress, InPlace, Away, Whole, JobField
  <2>. QED
    BY <2>1, <2>2, <2>3, <2>4, TouchInv DEF JobField
<1>2. CASE MoveIn(p)
  <2> DEFINE n == [job[p] EXCEPT !.swapped = TRUE, !.stage = "init"]
  <2>1. /\ Shaped(n) /\ n.stage = "init" /\ n.swapped
        /\ \A f \in JobField \ {"swapped", "stage"} : n[f] = job[p][f]
    BY <1>0 DEF Shaped, JobField
  <2>2. /\ job' = [job EXCEPT ![p] = n] /\ job[p].stage = "in"
        /\ live' = [live EXCEPT !.uploads = Placed(job[p].core.uploads)]
        /\ UNCHANGED <<lock, stolen>>
    BY <1>2 DEF MoveIn, At
  <2> HIDE DEF n
  <2>3. /\ live' = [f \in LiveField |-> live'[f]]
        /\ live'.db = live.db /\ live'.key = live.key
        /\ live'.uploads = Placed(job[p].core.uploads)
    BY <1>0, <2>2 DEF LiveField
  <2>4. ~stolen /\ n.alone => Progress(n, live')
    BY ZenonT(60), <1>0, <2>1, <2>2, <2>3 DEF Now, Progress, Away, Replaced, Holds, JobField
  <2>. QED
    BY <2>1, <2>2, <2>3, <2>4, TouchInv DEF JobField
<1>. QED
  BY <1>1, <1>2

\* An import goes on after restore_backup.
LEMMA ImportGoesOn ==
    ASSUME IInv, NEW p \in Process, TakeConfig(p) \/ TakeMedia(p)
    PROVE  IInv'
<1> USE DEF Guarded, Touching, Forward, Backward
<1>0. /\ live = [f \in LiveField |-> live[f]] /\ Shaped(job[p]) /\ Staged(job[p])
      /\ job = [q \in Process |-> job[q]]
  BY DEF IInv, ShapeInv, Good
<1>1. live' = [f \in LiveField |-> live'[f]] /\ SameContent
  BY <1>0 DEF TakeConfig, TakeMedia, Puts, LiveField, SameContent
<1>2. CASE TakeConfig(p)
  <2> DEFINE n == [job[p] EXCEPT !.stage = "media"]
  <2>1. /\ job' = [job EXCEPT ![p] = n] /\ Shaped(n) /\ n.stage = "media"
        /\ \A f \in JobField \ {"stage"} : n[f] = job[p][f]
    BY <1>2, Moves DEF TakeConfig, Puts
  <2>2. UNCHANGED <<lock, stolen>> /\ job[p].stage = "config"
    BY <1>2 DEF TakeConfig, Puts, At
  <2> HIDE DEF n
  <2>3. Staged(n) /\ (n.locked => job[p].locked)
    BY <1>0, <2>1, <2>2 DEF Staged, After, Carrying, JobField
  <2>. QED
    BY <1>1, <2>1, <2>2, <2>3, Quiet
<1>3. CASE TakeMedia(p)
  BY <1>1, <1>3, Quiet, NoJobGood DEF TakeMedia
<1>. QED
  BY <1>2, <1>3

-----------------------------------------------------------------------------
(* The lock.                                                               *)

\* Who has the lock, unless one was taken away.
LEMMA LockFacts ==
    ASSUME IInv
    PROVE  /\ stolen \in BOOLEAN /\ job = [q \in Process |-> job[q]]
           /\ live = [f \in LiveField |-> live[f]]
           /\ lock # Nothing => lock = [by |-> lock.by, filled |-> lock.filled]
           /\ \A q \in Process : /\ Shaped(job[q]) /\ Staged(job[q])
                                 /\ ~stolen /\ job[q].locked => lock # Nothing /\ lock.by = q
BY DEF IInv, ShapeInv, Good, Holding

\* A task ends with the lock file, or leaves one that is nobody's.
LEMMA EndsInv == ASSUME IInv, NEW p \in Process, Ends(p) PROVE IInv'
<1>1. /\ job' = [job EXCEPT ![p] = NoJob] /\ live' = live /\ stolen' = stolen
      /\ lock' = IF job[p].locked THEN Nothing ELSE lock
  BY DEF Ends
<1>2. \A q \in Process \ {p} : ~stolen' /\ job[q].locked => lock' # Nothing /\ lock'.by = q
  BY <1>1, LockFacts
<1>3. Progress(NoJob, live') /\ SameContent
  BY <1>1, NoJobGood DEF Progress, SameContent
<1>. QED
  BY <1>1, <1>2, <1>3, LockFacts, NoJobGood, Frame

\* A killed process leaves its lock file.
LEMMA KillInv == ASSUME Distinct, IInv, NEW p \in Process, Kill(p) PROVE IInv'
<1>1. /\ job' = [job EXCEPT ![p] = NoJob] /\ live' = live /\ stolen' = stolen
      /\ lock' = IF lock # Nothing /\ lock.by = p THEN [lock EXCEPT !.by = Nothing] ELSE lock
  BY DEF Kill
<1>2. \A q \in Process \ {p} : ~stolen' /\ job[q].locked => lock' # Nothing /\ lock'.by = q
  BY <1>1, LockFacts
<1>3. Progress(NoJob, live') /\ SameContent
  BY <1>1, NoJobGood DEF Progress, SameContent
<1>4. lock' # Nothing => lock' = [by |-> lock'.by, filled |-> lock'.filled]
  BY <1>1, LockFacts
<1>. QED
  BY <1>1, <1>2, <1>3, <1>4, LockFacts, NoJobGood, Frame

\* Before its content is touched, a process may have taken the lock.
LEMMA LockStep ==
    ASSUME IInv, NEW p \in Process, NEW n, Shaped(n), job' = [job EXCEPT ![p] = n],
           live' = live, n.task = job[p].task, n.old = job[p].old,
           n.swapped = job[p].swapped, job[p].stage \in {"remove", "open", "fill"},
           n.stage \in {"open", "fill", "verify"},
           lock' # Nothing => lock' = [by |-> lock'.by, filled |-> lock'.filled],
           stolen' \in BOOLEAN, stolen => stolen',
           \A q \in Process \ {p} : ~stolen' /\ job[q].locked => lock' # Nothing /\ lock'.by = q,
           ~stolen' /\ n.locked => lock' # Nothing /\ lock'.by = p
    PROVE  IInv'
<1> USE DEF Guarded, After, Touching, Forward, Backward, Carrying
<1>1. Staged(n)
  BY LockFacts DEF Staged, Whole
<1>2. Progress(n, live') /\ SameContent
  BY DEF Progress, SameContent
<1>. QED
  BY <1>1, <1>2, LockFacts, Frame

\* The lock is taken, or a stale one removed.
LEMMA LocksInv ==
    ASSUME Distinct, IInv, NEW p \in Process, RemoveStale(p) \/ Open(p) \/ Fill(p)
    PROVE  IInv'
<1>0. Shaped(job[p]) /\ job = [q \in Process |-> job[q]]
  BY LockFacts
<1>1. CASE RemoveStale(p)
  <2> DEFINE n == [job[p] EXCEPT !.stage = "open"]
  <2>1. /\ job' = [job EXCEPT ![p] = n] /\ Shaped(n) /\ n.stage = "open"
        /\ \A f \in JobField \ {"stage"} : n[f] = job[p][f]
    BY <1>1, Moves DEF RemoveStale
  <2>2. /\ live' = live /\ lock' = Nothing /\ job[p].stage = "remove"
        /\ stolen' = (stolen \/ (lock # Nothing /\ lock.by # Nothing))
    BY <1>1 DEF RemoveStale, At
  <2> HIDE DEF n
  <2>3. ~stolen' => \A q \in Process : ~job[q].locked
    BY <2>2, LockFacts DEF Distinct
  <2>. QED
    BY <2>1, <2>2, <2>3, LockFacts, LockStep DEF JobField
<1>2. CASE Open(p)
  <2> DEFINE n == [job[p] EXCEPT !.locked = TRUE, !.stage = "fill"]
  <2>1. /\ job' = [job EXCEPT ![p] = n] /\ Shaped(n) /\ n.stage = "fill"
        /\ \A f \in JobField \ {"locked", "stage"} : n[f] = job[p][f]
    BY <1>0, <1>2 DEF Open, Shaped, JobField
  <2>2. /\ live' = live /\ lock = Nothing /\ lock' = [by |-> p, filled |-> FALSE]
        /\ stolen' = stolen /\ job[p].stage = "open"
    BY <1>2 DEF Open, At
  <2> HIDE DEF n
  <2>3. lock' # Nothing /\ lock'.by = p /\ lock' = [by |-> lock'.by, filled |-> lock'.filled]
    BY <2>2 DEF Distinct
  <2>4. ~stolen' => \A q \in Process : ~job[q].locked
    BY <2>2, LockFacts
  <2>. QED
    BY <2>1, <2>2, <2>3, <2>4, LockFacts, LockStep DEF JobField
<1>3. CASE Fill(p)
  <2> DEFINE n == [job[p] EXCEPT !.stage = "verify"]
  <2>1. /\ job' = [job EXCEPT ![p] = n] /\ Shaped(n) /\ n.stage = "verify"
        /\ \A f \in JobField \ {"stage"} : n[f] = job[p][f]
    BY <1>3, Moves DEF Fill
  <2>2. /\ live' = live /\ stolen' = stolen /\ job[p].stage = "fill"
        /\ lock' = IF lock # Nothing /\ lock.by = p THEN [lock EXCEPT !.filled = TRUE] ELSE lock
    BY <1>3 DEF Fill, At
  <2> HIDE DEF n
  <2>3. lock # Nothing =>
           lock' # Nothing /\ lock'.by = lock.by /\ lock' = [by |-> lock'.by, filled |-> lock'.filled]
    BY <2>2, LockFacts DEF Distinct
  <2>4. lock = Nothing => lock' = Nothing
    BY <2>2
  <2>. QED
    BY <2>1, <2>2, <2>3, <2>4, LockFacts, LockStep DEF JobField
<1>. QED
  BY <1>1, <1>2, <1>3

\* The lock is given back.
LEMMA ReleasesInv ==
    ASSUME IInv, NEW p \in Process, Refuse(p) \/ Quit(p) \/ Restored(p)
    PROVE  IInv'
<1>1. CASE Ends(p)
  BY <1>1, EndsInv
<1>2. CASE Restored(p) /\ job[p].task # "restore"
  <2> DEFINE n == [job[p] EXCEPT !.locked = FALSE, !.stage = "config"]
  <2>1. /\ job' = [job EXCEPT ![p] = n] /\ Shaped(n) /\ n.stage = "config" /\ ~n.locked
        /\ \A f \in JobField \ {"locked", "stage"} : n[f] = job[p][f]
    <3>1. /\ job' = [job EXCEPT ![p].locked = FALSE, ![p].stage = "config"]
          /\ Shaped(job[p])
      BY <1>2, LockFacts DEF Restored
    <3>. QED
      BY <3>1 DEF Shaped, JobField
  <2>2. /\ live' = live /\ stolen' = stolen /\ lock' = Nothing /\ job[p].stage = "restored"
    BY <1>2 DEF Restored, At
  <2> HIDE DEF n
  <2>3. Staged(job[p]) /\ job[p].locked
    BY <2>2, LockFacts DEF Staged, Guarded
  <2>4. \A q \in Process \ {p} : ~(~stolen /\ job[q].locked)
    BY <2>3, LockFacts
  <2>5. Staged(n) /\ Progress(n, live') /\ SameContent
    BY <2>1, <2>2, <2>3 DEF Staged, Progress, SameContent, JobField, Guarded, After,
                            Touching, Forward, Backward, Carrying
  <2>. QED
    BY <2>1, <2>2, <2>4, <2>5, LockFacts, Frame
<1>. QED
  BY <1>1, <1>2 DEF Refuse, Quit, Restored

-----------------------------------------------------------------------------
(* Failures and users.                                                     *)

\* A step fails.
LEMMA FailInv == ASSUME IInv, NEW p \in Process, Fail(p) PROVE IInv'
<1>0. /\ live' = live /\ UNCHANGED <<lock, stolen>>
      /\ live' = [f \in LiveField |-> live'[f]] /\ SameContent
  BY LockFacts DEF Fail, SameContent
<1>1. CASE job[p].stage \in Forward
  <2>1. Goes(p, "undo db")
    BY <1>1 DEF Fail
  <2>2. \A n : Follows(n, job[p], "undo db") /\ Progress(job[p], live) => Progress(n, live')
    BY ZenonT(60), <1>0, <1>1 DEF Follows, Progress, Forward, Files, InPlace, Away, Replaced, Whole
  <2>. QED
    BY <1>0, <1>1, <2>1, <2>2, PutsInv DEF Touching, Backward
<1>2. CASE job[p].stage \notin Forward
  <2> DEFINE n == [job[p] EXCEPT !.stage = "quit"]
  <2>1. /\ job' = [job EXCEPT ![p] = n] /\ Shaped(n) /\ n.stage = "quit"
        /\ \A f \in JobField \ {"stage"} : n[f] = job[p][f]
    BY <1>2, Moves DEF Fail
  <2>2. job[p].task # "none"
    BY DEF Fail, Idle
  <2> HIDE DEF n
  <2>3. Staged(n) /\ n.stage \notin Guarded
    BY <2>1, <2>2 DEF Staged, Guarded, After, Touching, Forward, Backward, JobField
  <2>. QED
    BY <1>0, <2>1, <2>3, Quiet DEF JobField
<1>. QED
  BY <1>1, <1>2

\* A user writes.
LEMMA ChangeInv == ASSUME IInv, Change PROVE IInv'
<1>1. /\ job' = [p \in Process |-> IF job[p].task = "none" THEN job[p]
                                   ELSE [job[p] EXCEPT !.alone = FALSE]]
      /\ UNCHANGED <<lock, stolen>>
  BY DEF Change, Idle
<1>2. live' = [f \in LiveField |-> live'[f]]
  BY LockFacts DEF Change, LiveField
<1>3. ASSUME NEW p \in Process PROVE Good(p)' /\ Shaped(job'[p])
  <2>1. Good(p) /\ Shaped(job[p]) /\ Staged(job[p])
    BY <1>3, LockFacts DEF IInv
  <2>2. CASE job[p].task = "none"
    <3>1. job'[p] = job[p] /\ job[p].stage = "idle"
      BY <1>1, <2>1, <2>2 DEF Staged
    <3>2. Progress(job'[p], live')
      BY <3>1 DEF Progress
    <3>. QED
      BY <1>1, <2>1, <3>1, <3>2 DEF Good, Holding, Staged, Whole
  <2>3. CASE job[p].task # "none"
    <3>1. /\ Shaped(job'[p]) /\ ~job'[p].alone
          /\ \A f \in JobField \ {"alone"} : job'[p][f] = job[p][f]
      BY <1>1, <2>1, <2>3 DEF Shaped, JobField
    <3>2. Staged(job[p])'
      BY <2>1, <3>1 DEF Staged, Whole, JobField
    <3>. QED
      BY <1>1, <2>1, <3>1, <3>2 DEF Good, Holding, JobField
  <2>. QED
    BY <2>2, <2>3
<1>. QED
  BY <1>1, <1>2, <1>3, LockFacts DEF IInv, ShapeInv

-----------------------------------------------------------------------------
(* No process has a task, and nobody has the lock.                         *)
THEOREM InitIInv == Init => IInv
<1> SUFFICES ASSUME Init PROVE IInv
  OBVIOUS
<1>1. ShapeInv /\ stolen = FALSE /\ job = [p \in Process |-> NoJob]
  BY NoJobGood DEF Init, ShapeInv, LiveField
<1>2. \A p \in Process : Good(p)
  BY <1>1, NoJobGood DEF Good, Holding, Progress
<1>. QED
  BY <1>1, <1>2 DEF IInv

(* Every step of the processes and of the users keeps the invariant.       *)
THEOREM NextIInv == ASSUME Distinct PROVE IInv /\ [Next]_vars => IInv'
<1> SUFFICES ASSUME IInv, [Next]_vars PROVE IInv'
  OBVIOUS
<1>1. CASE Change
  BY <1>1, ChangeInv
<1>2. CASE Receive \/ UNCHANGED vars
  <2>1. UNCHANGED <<live, job, lock, stolen>>
    BY <1>2 DEF Receive, vars
  <2>2. ShapeInv'
    BY <2>1 DEF IInv, ShapeInv, Shaped
  <2>3. ASSUME NEW p \in Process PROVE Good(p)'
    <3>1. Staged(job[p])' /\ (Holding(p) => Holding(p)')
      BY <2>1, LockFacts DEF Staged, Whole, Holding
    <3>2. Progress(job[p], live) => Progress(job'[p], live')
      BY <2>1
    <3>. QED
      BY <2>1, <3>1, <3>2 DEF IInv, Good
  <2>. QED
    BY <2>1, <2>2, <2>3 DEF IInv
<1>3. ASSUME NEW p \in Process, Step(p) PROVE IInv'
  <2>1. CASE StartBackup(p) \/ StartRestore(p) \/ StartExport(p) \/ StartImport(p)
    BY <2>1, NewTask
  <2>2. CASE Snap(p) \/ Say(p) \/ Pack(p) \/ Publish(p) \/ Sum(p) \/ Prune(p)
    BY <2>2, MakesBackup
  <2>3. CASE Look(p) \/ Verify(p) \/ Invalid(p) \/ Gather(p) \/ Install(p) \/ InstallSum(p)
    BY <2>3, PreparesInv
  <2>4. CASE RemoveStale(p) \/ Open(p) \/ Fill(p)
    BY <2>4, LocksInv
  <2>5. CASE Refuse(p) \/ Quit(p) \/ Restored(p)
    BY <2>5, ReleasesInv
  <2>6. CASE Hold(p)
    BY <2>6, HoldInv
  <2>7. CASE TakeDatabase(p) \/ TakeKey(p) \/ Obstructed(p) \/ Initialize(p)
    BY <2>7, RestoresInv
  <2>8. CASE MoveAway(p) \/ MoveIn(p)
    BY <2>8, MovesInv
  <2>9. CASE UndoDatabase(p) \/ UndoKey(p) \/ UndoIn(p) \/ UndoAway(p)
    BY <2>9, UndoesInv
  <2>10. CASE TakeConfig(p) \/ TakeMedia(p)
    BY <2>10, ImportGoesOn
  <2>11. CASE Fail(p)
    BY <2>11, FailInv
  <2>12. CASE Kill(p)
    BY <2>12, KillInv
  <2>. QED
    BY <1>3, <2>1, <2>2, <2>3, <2>4, <2>5, <2>6, <2>7, <2>8, <2>9, <2>10, <2>11, <2>12
       DEF Step
<1>. QED
  BY <1>1, <1>2, <1>3 DEF Next

(* A restoration is whole when it says so, and undone when it says that,   *)
(* whatever fails, is killed or runs at the same time (restore_backup).    *)
THEOREM RestoreCorrect == ASSUME Distinct PROVE Spec => []RestoreIsAtomic
<1>1. IInv => RestoreIsAtomic
  BY DEF IInv, Good, Progress, RestoreIsAtomic, At, Holds
<1>. QED
  BY <1>1, InitIInv, NextIInv, PTL DEF Spec

-----------------------------------------------------------------------------
(* The types, for the safety net.                                          *)

\* At least one backup is kept, an archive can be made, and a task can fail.
NetAssumption == /\ Distinct
                 /\ Keep \in Nat /\ Keeps \subseteq Nat \ {0}
                 /\ MaxArchives \in Nat \ {0} /\ MaxFailures \in Nat

Restoring == Touching \union {"look", "remove", "open", "fill", "verify", "hold",
                              "restored", "undone"}

\* Which task a stage belongs to, and what a task remembers, when m archives
\* were made.
JobOK(j, m) ==
    /\ j \in Job
    /\ j.task = "import" => j.import \in Portable /\ j.import.archive.id <= m
    /\ j.stage \in {"install", "install sum", "config", "media"} => j.task = "import"
    /\ j.stage \in Restoring => j.task \in {"restore", "import"}
    /\ j.stage = "gather" => j.task \in {"export", "import"}
    /\ j.stage \in {"fill", "verify"} => j.locked
    /\ j.stage \in Making => /\ j.task # "none"
                             /\ j.locked => j.task \in {"restore", "import"}
                             /\ j.task = "restore" => j.locked

\* The archives a, the portable ones e and the pushed ones o, of which no name
\* is later than m.
Store(a, e, o, m) ==
    /\ m \in 0..MaxArchives
    /\ a \in Seq(Archive) /\ \A i \in DOMAIN a : a[i].id <= m
    /\ e \subseteq Portable /\ \A x \in e : x.archive.id <= m
    /\ o \subseteq 0..m

Rest == /\ live \in [db : Version, key : Version \union {Nothing}, uploads : Tree,
                     config : Version, media : Version]
        /\ lock = Nothing \/ lock \in [by : Process \union {Nothing}, filled : BOOLEAN]
        /\ busy \in Process \union {Nothing}
        /\ stolen \in BOOLEAN
        /\ wreck = Nothing \/ wreck \in [core : Core, id : 0..MaxArchives]
        /\ failures \in 0..MaxFailures

Typed == /\ Rest
         /\ Store(archives, portable, pushed, made)
         /\ torn \subseteq Process
         /\ job = [p \in Process |-> job[p]]
         /\ \A p \in Process : JobOK(job[p], made)

\* The type of the module follows.
LEMMA TypedMeans == ASSUME NetAssumption, Typed PROVE TypeOK
<1>1. job \in [Process -> Job]
  BY DEF Typed, JobOK
<1>. QED
  BY <1>1 DEF Typed, Rest, Store, TypeOK

\* A process takes a step.
LEMMA TypedFrame ==
    ASSUME Typed, NEW q \in Process, NEW n, JobOK(n, made'),
           job' = [job EXCEPT ![q] = n], Rest', torn' \subseteq Process,
           Store(archives', portable', pushed', made'), made <= made'
    PROVE  Typed'
<1>1. /\ job' = [p \in Process |-> job'[p]] /\ job'[q] = n
      /\ \A p \in Process \ {q} : job'[p] = job[p]
  BY DEF Typed
<1>2. \A p \in Process \ {q} : JobOK(job[p], made')
  <2>1. ASSUME NEW p \in Process \ {q}, job[p].task = "import"
        PROVE  job[p].import.archive.id <= made'
    <3>1. job[p].import.archive.id \in Nat /\ job[p].import.archive.id <= made
      <4>1. job[p].import \in Portable /\ job[p].import.archive.id <= made
        BY <2>1 DEF Typed, JobOK
      <4>2. job[p].import.archive \in Archive
        BY <4>1 DEF Portable
      <4>. QED
        BY <4>1, <4>2 DEF Archive
    <3>2. made \in Nat /\ made' \in Nat
      BY DEF Typed, Store
    <3>. QED
      BY <3>1, <3>2
  <2>. QED
    BY <2>1 DEF Typed, JobOK
<1>. QED
  BY <1>1, <1>2 DEF Typed

\* An archive of the sequence is one.
LEMMA ArchiveTyped ==
    ASSUME Typed, NEW i \in DOMAIN archives
    PROVE  /\ archives[i] \in Archive /\ archives[i].id \in 0..MaxArchives
           /\ archives[i].core \in Core /\ archives[i].checked \in BOOLEAN
           /\ archives[i].id <= made
<1>1. archives[i] \in Archive /\ archives[i].id <= made
  BY DEF Typed, Store
<1>. QED
  BY <1>1 DEF Archive

\* A process without a task is typed.
LEMMA NoJobOK == ASSUME NetAssumption, Typed PROVE JobOK(NoJob, made)
<1>1. SomeCore \in Core
  <2>1. PICK v \in Version : TRUE
    BY DEF Typed, Rest
  <2>. QED
    BY <2>1 DEF SomeCore, Core, Tree
<1>. QED
  BY <1>1 DEF JobOK, NoJob, NoSays, Says, Job, NetAssumption, Tree, Stage, Restoring,
              Touching, Forward, Backward, Making

\* Every task is typed.
LEMMA JobIsTyped == ASSUME Typed, NEW p \in Process PROVE JobOK(job[p], made) /\ job[p] \in Job
BY DEF Typed, JobOK

-----------------------------------------------------------------------------
(* The archives.                                                           *)

(* Taking a member at a position out leaves the others in their order.     *)
LEMMA RemoveAtFacts ==
  ASSUME NEW S, NEW s \in Seq(S), NEW i \in 1..Len(s)
  PROVE  /\ RemoveAt(s, i) \in Seq(S)
         /\ Len(RemoveAt(s, i)) = Len(s) - 1
         /\ \A j \in 1..(Len(s) - 1) :
               RemoveAt(s, i)[j] = IF j < i THEN s[j] ELSE s[j + 1]
<1> DEFINE l == SubSeq(s, 1, i - 1)
           r == SubSeq(s, i + 1, Len(s))
<1>1. /\ l \in Seq(S) /\ Len(l) = i - 1 /\ \A j \in 1..(i - 1) : l[j] = s[j]
  <2>1. \A j \in 1..(i - 1) : s[j] \in S
    OBVIOUS
  <2>2. /\ l \in Seq(S) /\ Len(l) = IF 1 <= i - 1 THEN i - 1 - 1 + 1 ELSE 0
        /\ \A j \in 1..(i - 1 - 1 + 1) : l[j] = s[1 + j - 1]
    BY <2>1, SubSeqProperties
  <2> QED BY <2>2
<1>2. /\ r \in Seq(S) /\ Len(r) = Len(s) - i
      /\ \A j \in 1..(Len(s) - i) : r[j] = s[i + j]
  <2>1. \A j \in (i + 1)..Len(s) : s[j] \in S
    OBVIOUS
  <2>2. /\ r \in Seq(S) /\ Len(r) = IF i + 1 <= Len(s) THEN Len(s) - (i + 1) + 1 ELSE 0
        /\ \A j \in 1..(Len(s) - (i + 1) + 1) : r[j] = s[i + 1 + j - 1]
    <3>1. i + 1 \in Int /\ Len(s) \in Int
      OBVIOUS
    <3> HIDE DEF r
    <3> QED BY <2>1, <3>1, SubSeqProperties DEF r
  <2> QED BY <2>2
<1> HIDE DEF l, r
<1>3. /\ l \o r \in Seq(S) /\ Len(l \o r) = Len(s) - 1
      /\ \A j \in 1..(Len(s) - 1) : (l \o r)[j] = IF j < i THEN s[j] ELSE s[j + 1]
  <2>1. l \o r \in Seq(S) /\ Len(l \o r) = Len(s) - 1
    <3>1. l \o r \in Seq(S) /\ Len(l \o r) = Len(l) + Len(r)
      BY <1>1, <1>2, ConcatProperties
    <3>2. Len(s) \in Nat
      OBVIOUS
    <3> QED BY <1>1, <1>2, <3>1, <3>2
  <2>2. ASSUME NEW j \in 1..(Len(s) - 1) PROVE (l \o r)[j] = IF j < i THEN s[j] ELSE s[j + 1]
    <3>1. CASE j < i
      BY <1>1, <1>2, <3>1
    <3>2. CASE ~(j < i)
      <4>1. j - (i - 1) \in 1..(Len(s) - i) /\ i + (j - (i - 1)) = j + 1
        BY <3>2
      <4>2. r[j - (i - 1)] = s[j + 1]
        BY <1>2, <4>1
      <4>3. (l \o r)[j] = r[j - (i - 1)]
        BY <1>1, <1>2, <3>2
      <4> QED BY <3>2, <4>2, <4>3
    <3> QED BY <3>1, <3>2
  <2> QED BY <2>1, <2>2
<1> QED BY <1>3 DEF RemoveAt, l, r

(* The newest n archives: the others are the first ones.                   *)
LEMMA NewestFacts ==
    ASSUME NEW S, archives \in Seq(S), NEW n \in Nat
    PROVE  /\ Newest(n) \in Seq(S)
           /\ \A i \in DOMAIN Newest(n) : \E k \in DOMAIN archives : Newest(n)[i] = archives[k]
           /\ \A k \in DOMAIN archives :
                 k > Len(archives) - n => \E i \in DOMAIN Newest(n) : Newest(n)[i] = archives[k]
<1>1. CASE Len(archives) <= n
  BY <1>1 DEF Newest
<1>2. CASE ~(Len(archives) <= n)
  <2> DEFINE m == Len(archives) - n + 1
  <2>1. m \in 1..(Len(archives) + 1) /\ m \in Int /\ Len(archives) \in Nat
    BY <1>2
  <2>2. \A i \in m..Len(archives) : archives[i] \in S
    BY <2>1
  <2>3. /\ SubSeq(archives, m, Len(archives)) \in Seq(S)
        /\ Len(SubSeq(archives, m, Len(archives))) =
              IF m <= Len(archives) THEN Len(archives) - m + 1 ELSE 0
        /\ \A i \in 1..(Len(archives) - m + 1) :
              SubSeq(archives, m, Len(archives))[i] = archives[m + i - 1]
    <3> HIDE DEF m
    <3>. QED
      BY <2>1, <2>2, SubSeqProperties
  <2>4. Newest(n) = SubSeq(archives, m, Len(archives))
    BY <1>2 DEF Newest
  <2>5. /\ Newest(n) \in Seq(S) /\ Len(Newest(n)) = n
        /\ \A i \in 1..n : Newest(n)[i] = archives[Len(archives) - n + i]
    BY <1>2, <2>1, <2>3, <2>4
  <2>6. \A i \in 1..n : Len(archives) - n + i \in DOMAIN archives
    BY <1>2, <2>1
  <2>7. ASSUME NEW k \in DOMAIN archives, k > Len(archives) - n
        PROVE  \E i \in DOMAIN Newest(n) : Newest(n)[i] = archives[k]
    <3> DEFINE i == k - (Len(archives) - n)
    <3>1. i \in 1..n /\ Len(archives) - n + i = k
      BY <2>1, <2>7
    <3>. QED
      BY <2>5, <3>1
  <2>8. DOMAIN Newest(n) = 1..n
    BY <2>5
  <2>. QED
    BY <2>5, <2>6, <2>7, <2>8
<1>. QED
  BY <1>1, <1>2

\* An archive of that name has the content; with a checksum.
StoredIn(c, id, a, o) == id \in o \/ \E i \in DOMAIN a : a[i].id = id /\ a[i].core = c
SafeIn(c, id, a, o) ==
    id \in o \/ \E i \in DOMAIN a : a[i].id = id /\ a[i].checked /\ a[i].core = c

\* Nothing that is in an archive is lost, but what newer ones push out.
Grows == \A c, id :
    /\ StoredIn(c, id, archives, pushed) => StoredIn(c, id, archives', pushed')
    /\ SafeIn(c, id, archives, pushed) => SafeIn(c, id, archives', pushed')

\* Every archive stays, and may have got a checksum.
LEMMA StaysGrows ==
    ASSUME pushed \subseteq pushed',
           \A k \in DOMAIN archives :
              \/ archives[k].id \in pushed'
              \/ \E i \in DOMAIN archives' :
                    /\ archives'[i].id = archives[k].id /\ archives'[i].core = archives[k].core
                    /\ archives[k].checked => archives'[i].checked
    PROVE  Grows
BY DEF Grows, StoredIn, SafeIn

\* A new archive hides no older one.
LEMMA PublishGrows ==
    ASSUME NetAssumption, Typed, NEW p \in Process, Publish(p)
    PROVE  /\ Store(archives', portable', pushed', made') /\ made <= made' /\ Grows
           /\ StoredIn(job[p].pack, made', archives', pushed')
<1> DEFINE x == [id |-> made + 1, core |-> job[p].pack, says |-> job[p].says,
                 checked |-> FALSE]
<1>1. /\ archives' = Append(archives, x) /\ made' = made + 1
      /\ UNCHANGED <<portable, pushed>>
      /\ made < MaxArchives
  BY DEF Publish
<1>2. made \in Nat /\ made \in 0..MaxArchives /\ made' \in 0..MaxArchives
      /\ MaxArchives \in Nat /\ archives \in Seq(Archive)
  BY <1>1 DEF Typed, Store, NetAssumption
<1>3. x \in Archive
  <2>1. job[p].pack \in Core /\ job[p].says \in Says
    BY JobIsTyped DEF Job
  <2>. QED
    BY <1>1, <1>2, <2>1 DEF Archive
<1>4. x.id = made + 1 /\ x.core = job[p].pack
  OBVIOUS
<1> HIDE DEF x
<1>5. /\ archives' \in Seq(Archive) /\ DOMAIN archives' = 1..(Len(archives) + 1)
      /\ \A i \in DOMAIN archives : i \in DOMAIN archives' /\ archives'[i] = archives[i]
      /\ archives'[Len(archives) + 1] = x
  BY <1>1, <1>2, <1>3
<1>6. Len(archives) + 1 \in DOMAIN archives'
  BY <1>2, <1>5
<1>7. Grows
  BY <1>1, <1>5, StaysGrows
<1>8. \A i \in DOMAIN archives' : i \in DOMAIN archives \/ i = Len(archives) + 1
  BY <1>2, <1>5
<1>9. \A i \in DOMAIN archives' : archives'[i].id <= made'
  <2>1. \A i \in DOMAIN archives : archives[i].id <= made + 1
    BY <1>2, ArchiveTyped
  <2>. QED
    BY <1>1, <1>2, <1>4, <1>5, <1>8, <2>1
<1>10. \A y \in portable : y.archive.id <= made + 1
  <2>1. \A y \in portable : y.archive.id <= made /\ y.archive.id \in 0..MaxArchives
    BY DEF Typed, Store, Portable, Archive
  <2>. QED
    BY <1>2, <2>1
<1>11. pushed \subseteq 0..(made + 1)
  BY <1>2 DEF Typed, Store
<1>12. portable \subseteq Portable
  BY DEF Typed, Store
<1>. QED
  BY <1>1, <1>2, <1>4, <1>5, <1>6, <1>7, <1>9, <1>10, <1>11, <1>12 DEF Store, StoredIn

\* The checksum of the archives of a name is written.
LEMMA MarksGrow ==
    ASSUME Typed, NEW id, UNCHANGED <<portable, pushed, made>>,
           archives' = [i \in DOMAIN archives |->
                          IF i \in Named(id) THEN [archives[i] EXCEPT !.checked = TRUE]
                          ELSE archives[i]]
    PROVE  /\ Store(archives', portable', pushed', made') /\ made <= made' /\ Grows
           /\ \A c : StoredIn(c, id, archives, pushed) =>
                       SafeIn(c, id, archives', pushed')
<1>1. archives \in Seq(Archive) /\ DOMAIN archives = 1..Len(archives) /\ Len(archives) \in Nat
  BY DEF Typed, Store
<1>2. \A i \in DOMAIN archives :
          /\ archives'[i] \in Archive /\ archives'[i].id = archives[i].id
          /\ archives'[i].core = archives[i].core
          /\ i \in Named(id) \/ archives[i].checked => archives'[i].checked
  BY ArchiveTyped DEF Archive
<1>3. DOMAIN archives' = DOMAIN archives /\ archives' \in Seq(Archive)
  <2>1. archives' \in [1..Len(archives) -> Archive]
    BY <1>1, <1>2
  <2>. QED
    BY <1>1, <2>1
<1>4. Grows
  BY <1>2, <1>3, StaysGrows
<1>5. \A c : StoredIn(c, id, archives, pushed) => SafeIn(c, id, archives', pushed')
  BY <1>2, <1>3 DEF StoredIn, SafeIn, Named
<1>6. Store(archives', portable', pushed', made') /\ made <= made'
  BY <1>2, <1>3, ArchiveTyped DEF Typed, Store
<1>. QED
  BY <1>4, <1>5, <1>6

\* What is pruned is pushed out.
LEMMA PruneGrows ==
    ASSUME NetAssumption, Typed, NEW p \in Process, Prune(p)
    PROVE  Store(archives', portable', pushed', made') /\ made <= made' /\ Grows
<1> DEFINE n == job[p].keep
<1>1. n \in Nat /\ archives \in Seq(Archive)
  BY JobIsTyped DEF JobOK, Job, Typed, Store
<1> HIDE DEF n
<1>2. /\ archives' = Newest(n) /\ UNCHANGED <<made, portable>>
      /\ pushed' = pushed \union {archives[i].id : i \in 1..(Len(archives) - n)}
  BY <1>1 DEF Prune, n
<1>3. /\ Newest(n) \in Seq(Archive)
      /\ \A i \in DOMAIN Newest(n) : \E k \in DOMAIN archives : Newest(n)[i] = archives[k]
      /\ \A k \in DOMAIN archives :
            k > Len(archives) - n => \E i \in DOMAIN Newest(n) : Newest(n)[i] = archives[k]
  BY <1>1, NewestFacts
<1>4. \A k \in DOMAIN archives :
          k > Len(archives) - n \/ archives[k].id \in pushed'
  <2>1. \A k \in DOMAIN archives : k > Len(archives) - n \/ k \in 1..(Len(archives) - n)
    BY <1>1
  <2>. QED
    BY <1>2, <2>1
<1>5. Grows
  <2>1. ASSUME NEW k \in DOMAIN archives, k > Len(archives) - n
        PROVE  \E i \in DOMAIN archives' : archives'[i] = archives[k]
    BY <1>2, <1>3, <2>1
  <2>. QED
    BY <1>2, <1>4, <2>1, StaysGrows
<1>6. \A i \in DOMAIN archives' : archives'[i].id <= made'
  BY <1>2, <1>3, ArchiveTyped
<1>7. pushed' \subseteq 0..made'
  <2>1. \A k \in 1..(Len(archives) - n) : k \in DOMAIN archives
    BY <1>1
  <2>2. \A k \in DOMAIN archives : archives[k].id \in 0..made
    BY ArchiveTyped DEF Typed, Store
  <2>. QED
    BY <1>2, <2>1, <2>2 DEF Typed, Store
<1>. QED
  BY <1>2, <1>3, <1>5, <1>6, <1>7 DEF Typed, Store

\* An import replaces at most the archive of its own name.
LEMMA InstallGrows ==
    ASSUME NetAssumption, Typed, NEW p \in Process, Install(p)
    PROVE  Store(archives', portable', pushed', made') /\ made <= made' /\ Grows
<1> DEFINE a == job[p].import.archive
           there == Named(a.id)
           other == IF there = {} THEN archives
                    ELSE RemoveAt(archives, CHOOSE i \in there : TRUE)
           same == \A i \in there : archives[i].core = a.core
           sum == \E i \in there : archives[i].checked
           x == [a EXCEPT !.checked = sum]
<1>1. /\ archives' = IF same THEN Append(other, x) ELSE archives
      /\ UNCHANGED <<made, portable, pushed>>
  BY DEF Install
<1>2. a \in Archive /\ a.id <= made
  <2>1. job[p].import \in Portable /\ a.id <= made
    BY JobIsTyped DEF Install, At, JobOK
  <2>. QED
    BY <2>1 DEF Portable
<1>3. x \in Archive /\ x.id = a.id /\ x.core = a.core /\ x.checked = sum
  BY <1>2 DEF Archive
<1>4. there \subseteq DOMAIN archives /\ \A i \in DOMAIN archives : i \in there <=> archives[i].id = a.id
  BY DEF Named
<1>5. archives \in Seq(Archive)
  BY DEF Typed, Store
<1> HIDE DEF x, there
<1>6. /\ other \in Seq(Archive)
      /\ \A i \in DOMAIN other : \E k \in DOMAIN archives : other[i] = archives[k]
      /\ \A k \in DOMAIN archives : k \in there \/ \E i \in DOMAIN other : other[i] = archives[k]
  <2>1. CASE there = {}
    BY <1>5, <2>1
  <2>2. CASE there # {}
    <3>1. PICK c \in 1..Len(archives) : c = (CHOOSE i \in there : TRUE) /\ c \in there
      BY <1>4, <1>5, <2>2
    <3>2. other = RemoveAt(archives, c)
      BY <2>2, <3>1
    <3>3. /\ other \in Seq(Archive) /\ Len(other) = Len(archives) - 1
          /\ \A j \in 1..(Len(archives) - 1) :
                other[j] = IF j < c THEN archives[j] ELSE archives[j + 1]
      BY <1>5, <3>1, <3>2, RemoveAtFacts
    <3> HIDE DEF other
    <3>4. DOMAIN other = 1..(Len(archives) - 1) /\ DOMAIN archives = 1..Len(archives)
          /\ Len(archives) \in Nat
      BY <1>5, <3>3
    <3>5. ASSUME NEW j \in DOMAIN other
          PROVE  \E k \in DOMAIN archives : other[j] = archives[k]
      <4>1. j \in DOMAIN archives /\ j + 1 \in DOMAIN archives
        BY <3>4
      <4>. QED
        BY <3>3, <3>4, <4>1
    <3>6. ASSUME NEW k \in DOMAIN archives, k \notin there
          PROVE  \E i \in DOMAIN other : other[i] = archives[k]
      <4>1. CASE k < c
        <5>1. k \in DOMAIN other /\ k \in 1..(Len(archives) - 1)
          BY <3>1, <3>4, <4>1
        <5>. QED
          BY <3>3, <4>1, <5>1
      <4>2. CASE ~(k < c)
        <5>1. k # c
          BY <3>1, <3>6
        <5>2. k - 1 \in DOMAIN other /\ ~(k - 1 < c) /\ (k - 1) + 1 = k
          BY <3>1, <3>4, <4>2, <5>1
        <5>. QED
          BY <3>3, <3>4, <5>2
      <4>. QED
        BY <4>1, <4>2
    <3>. QED
      BY <3>3, <3>5, <3>6
  <2>. QED
    BY <2>1, <2>2
<1>7. CASE ~same
  BY <1>1, <1>7, StaysGrows DEF Typed, Store
<1>8. CASE same
  <2> HIDE DEF other
  <2>1. archives' = Append(other, x)
    BY <1>1, <1>8
  <2>2. /\ archives' \in Seq(Archive) /\ DOMAIN archives' = 1..(Len(other) + 1)
        /\ \A i \in DOMAIN other : i \in DOMAIN archives' /\ archives'[i] = other[i]
        /\ archives'[Len(other) + 1] = x /\ Len(other) + 1 \in DOMAIN archives'
        /\ \A i \in DOMAIN archives' : i \in DOMAIN other \/ i = Len(other) + 1
    BY <1>3, <1>6, <2>1
  <2>3. \A i \in DOMAIN archives' : archives'[i].id <= made
    BY <1>2, <1>3, <1>6, <2>2, ArchiveTyped
  <2>4. ASSUME NEW k \in there
        PROVE  /\ x.id = archives[k].id /\ x.core = archives[k].core
               /\ archives[k].checked => x.checked
    <3>1. archives[k].checked => sum
      BY <2>4
    <3>2. sum => x.checked
      BY <1>3
    <3>3. archives[k].core = a.core
      BY <1>8, <2>4
    <3>4. archives[k].id = a.id
      BY <1>4, <2>4
    <3>. QED
      BY <1>3, <3>1, <3>2, <3>3, <3>4
  <2>5. Grows
    <3> HIDE DEF sum, same
    <3>1. ASSUME NEW k \in DOMAIN archives
          PROVE  \E i \in DOMAIN archives' :
                    /\ archives'[i].id = archives[k].id /\ archives'[i].core = archives[k].core
                    /\ archives[k].checked => archives'[i].checked
      <4>1. CASE k \in there
        BY <2>2, <2>4, <4>1
      <4>2. CASE k \notin there
        BY <1>6, <2>2, <4>2
      <4>. QED
        BY <4>1, <4>2
    <3>. QED
      BY <1>1, <3>1, StaysGrows
  <2>. QED
    BY <1>1, <2>2, <2>3, <2>5 DEF Typed, Store
<1>. QED
  BY <1>7, <1>8

-----------------------------------------------------------------------------
(* The inductive invariant of the safety net.                              *)

\* The safety backup j makes of the installation x, from its first step until
\* the archive is what the restoration replaces.
Caught(j, x, a, o) ==
    /\ j.locked /\ j.stage \in {"say", "pack"} => j.pack.db = x.db
    /\ j.locked /\ j.stage \in {"publish", "sum", "prune", "hold"} => j.pack = CoreOf(x)
    /\ j.locked /\ j.stage = "sum" => StoredIn(j.pack, j.id, a, o)
    /\ j.locked /\ j.stage \in {"prune", "hold"} => SafeIn(j.pack, j.id, a, o)
    /\ j.stage \in Touching \union Carrying => SafeIn(j.before, j.id, a, o)

Net ==
    /\ \A p \in Process \ torn : Caught(job[p], live, archives, pushed)
    /\ wreck # Nothing => SafeIn(wreck.core, wreck.id, archives, pushed)

NetInv == IInv /\ Typed /\ Net

\* What is observed of a process: it was torn before, or is now.
LEMMA TornFacts ==
    ASSUME Observe, NEW p \in Process, p \notin torn'
    PROVE  \/ job'[p].stage \notin Between \union Touching \union Carrying
           \/ /\ p \notin torn
              /\ job[p].stage \in Between => CoreOf(live') = CoreOf(live)
BY DEF Observe, Touching

\* Without the lock, or before and after, a backup is not a safety backup.
LEMMA NothingToCatch ==
    ASSUME NEW j, NEW x, NEW a, NEW o,
           \/ j.stage \notin Between \union Touching \union Carrying
           \/ j.stage \in Making /\ ~j.locked
    PROVE  Caught(j, x, a, o)
BY DEF Caught, Between, Making, Touching, Forward, Backward, Carrying

\* A process without a task makes none.
LEMMA NothingForNoJob == \A x, a, o : Caught(NoJob, x, a, o)
BY NothingToCatch DEF NoJob, Between, Making, Touching, Forward, Backward, Carrying

\* A process takes a step; the safety backups of the others are not disturbed,
\* unless the content changes while they are made.
LEMMA NetFrame ==
    ASSUME NetInv, NEW q \in Process, NEW n, JobOK(n, made'),
           job' = [job EXCEPT ![q] = n], Rest', Observe,
           Store(archives', portable', pushed', made'), made <= made', Grows,
           q \notin torn => Caught(n, live', archives', pushed'),
           \/ wreck' = wreck
           \/ SafeIn(wreck'.core, wreck'.id, archives', pushed')
    PROVE  Typed' /\ Net'
<1>1. Typed'
  BY TypedFrame DEF NetInv, Observe
<1>2. job'[q] = n /\ \A p \in Process \ {q} : job'[p] = job[p]
  BY DEF NetInv, Typed
<1>3. ASSUME NEW p \in Process \ {q}, p \notin torn'
      PROVE  Caught(job[p], live', archives', pushed')
  <2>1. CASE job[p].stage \notin Between \union Touching \union Carrying
    BY <2>1, NothingToCatch
  <2>2. CASE job[p].stage \in Between \union Touching \union Carrying
    <3>1. /\ Caught(job[p], live, archives, pushed)
          /\ job[p].stage \in Between => CoreOf(live') = CoreOf(live)
      BY <1>2, <1>3, <2>2, TornFacts DEF NetInv, Net
    <3>2. CASE job[p].stage \in Between
      <4>1. CoreOf(live') = CoreOf(live) /\ live'.db = live.db
        BY <3>1, <3>2 DEF CoreOf
      <4>. QED
        BY <3>1, <4>1 DEF Caught, Grows
    <3>3. CASE job[p].stage \notin Between
      BY <3>1, <3>3 DEF Caught, Grows, Between, Making
    <3>. QED
      BY <3>2, <3>3
  <2>. QED
    BY <2>1, <2>2
<1>4. wreck' # Nothing => SafeIn(wreck'.core, wreck'.id, archives', pushed')
  BY DEF NetInv, Net, Grows
<1>5. ASSUME q \notin torn' PROVE Caught(n, live', archives', pushed')
  BY <1>2, <1>5, TornFacts, NothingToCatch
<1>6. ASSUME NEW p \in Process, p \notin torn'
      PROVE  Caught(job'[p], live', archives', pushed')
  BY <1>2, <1>3, <1>5, <1>6
<1>. QED
  BY <1>1, <1>4, <1>6 DEF Net

\* A step that leaves the archives alone.
LEMMA NetStage ==
    ASSUME NetInv, NEW q \in Process, NEW n, JobOK(n, made),
           job' = [job EXCEPT ![q] = n], Rest', Observe,
           UNCHANGED <<archives, portable, pushed, made, wreck>>,
           q \notin torn => Caught(n, live', archives, pushed)
    PROVE  Typed' /\ Net'
<1>1. Store(archives', portable', pushed', made') /\ made <= made' /\ made' = made
  BY DEF NetInv, Typed, Store
<1>2. Grows
  BY DEF Grows
<1>. QED
  BY <1>1, <1>2, NetFrame

\* A task starts or is over.
LEMMA StartsNet ==
    ASSUME NetInv, Observe, NEW p \in Process, NEW n, JobOK(n, made), job' = [job EXCEPT ![p] = n],
           ~n.locked, n.stage \in {"idle", "snap", "look"}, Rest',
           UNCHANGED <<live, archives, portable, pushed, made, wreck>>
    PROVE  Typed' /\ Net'
<1>1. Caught(n, live, archives, pushed)
  BY NothingToCatch DEF Between, Making, Touching, Forward, Backward, Carrying
<1>. QED
  BY <1>1, NetStage

\* A task starts.
LEMMA TaskNet ==
    ASSUME NetAssumption, NetInv, Observe, NEW p \in Process,
           StartBackup(p) \/ StartRestore(p) \/ StartExport(p) \/ StartImport(p)
    PROVE  Typed' /\ Net'
<1> USE DEF Restoring, Touching, Forward, Backward, Making, Stage
<1>. Typed
  BY DEF NetInv
<1>0. NoJob \in Job /\ JobOK(NoJob, made) /\ Keep \in Nat
  BY NoJobOK DEF JobOK, NetAssumption
<1>1. CASE StartBackup(p)
  <2>0. PICK keep \in Keeps :
            job' = [job EXCEPT ![p] = [NoJob EXCEPT !.task = "backup", !.stage = "snap",
                                                    !.keep = keep]]
    BY <1>1 DEF StartBackup
  <2> DEFINE n == [NoJob EXCEPT !.task = "backup", !.stage = "snap", !.keep = keep]
  <2>1. JobOK(n, made) /\ ~n.locked /\ n.stage = "snap"
    <3>1. keep \in Nat
      BY <2>0 DEF NetAssumption
    <3>. QED
      BY ZenonT(60), <1>0, <3>1 DEF JobOK, Job, NoJob
  <2>2. /\ job' = [job EXCEPT ![p] = n] /\ Rest'
        /\ UNCHANGED <<live, archives, portable, pushed, made, wreck>>
    BY <1>1, <2>0 DEF StartBackup, Rest, Typed
  <2> HIDE DEF n
  <2>. QED
    BY <2>1, <2>2, StartsNet
<1>2. CASE StartRestore(p)
  <2>1. PICK i \in DOMAIN archives :
            job' = [job EXCEPT ![p] = [NoJob EXCEPT !.task = "restore", !.stage = "look",
                                                    !.from = archives[i].id]]
    BY <1>2 DEF StartRestore
  <2>2. archives[i].id \in 0..MaxArchives
    BY <2>1, ArchiveTyped
  <2> DEFINE n == [NoJob EXCEPT !.task = "restore", !.stage = "look",
                                !.from = archives[i].id]
  <2>3. JobOK(n, made) /\ ~n.locked /\ n.stage = "look"
    BY ZenonT(60), <1>0, <2>2 DEF JobOK, Job, NoJob
  <2>4. Rest' /\ UNCHANGED <<live, archives, portable, pushed, made, wreck>>
    BY <1>2 DEF StartRestore, Rest, Typed
  <2>5. job' = [job EXCEPT ![p] = n]
    BY <2>1
  <2> HIDE DEF n
  <2>. QED
    BY <2>3, <2>4, <2>5, StartsNet
<1>3. ASSUME NEW task \in {"export", "import"}, NEW x \in Portable \union {Nothing},
             task = "import" => x \in portable, NEW admin \in BOOLEAN,
             Migrates(p, task, x, admin)
      PROVE  Typed' /\ Net'
  <2> DEFINE n == [NoJob EXCEPT !.task = task, !.stage = "snap", !.admin = admin,
                                !.import = x, !.keep = Greater(Keep, Len(archives) + 1)]
  <2>1. Greater(Keep, Len(archives) + 1) \in Nat
    BY <1>0 DEF Greater, Typed, Store
  <2>2. task = "import" => x \in Portable /\ x.archive.id <= made
    BY <1>3 DEF Typed, Store
  <2>3. /\ n.task = task /\ n.stage = "snap" /\ n.import = x /\ ~n.locked
        /\ n.keep = Greater(Keep, Len(archives) + 1)
    BY DEF NoJob
  <2>4. n \in Job
    BY <1>0, <1>3, <2>1 DEF Job, NoJob
  <2>5. /\ job' = [job EXCEPT ![p] = n] /\ Rest'
        /\ UNCHANGED <<live, archives, portable, pushed, made, wreck>>
    BY <1>3 DEF Migrates, Rest, Typed
  <2> HIDE DEF n
  <2>6. JobOK(n, made)
    BY <2>1, <2>2, <2>3, <2>4 DEF JobOK
  <2>. QED
    BY <2>3, <2>5, <2>6, StartsNet
<1>4. CASE StartExport(p)
  BY <1>3, <1>4 DEF StartExport
<1>5. CASE StartImport(p)
  BY <1>3, <1>5 DEF StartImport, Typed, Store
<1>. QED
  BY <1>1, <1>2, <1>4, <1>5

\* From a stage to the next, of the same task.
LEMMA TypedGoes ==
    ASSUME NetAssumption, Typed, NEW p \in Process, NEW s \in Stage, Goes(p, s),
           s \in {"install", "install sum", "config", "media"} => job[p].task = "import",
           s \in Restoring => job[p].task \in {"restore", "import"},
           s \in {"fill", "verify"} => job[p].locked,
           s \notin Making, s # "gather"
    PROVE  JobOK(job'[p], made) /\ job' = [job EXCEPT ![p] = job'[p]]
<1>1. job[p] \in Job /\ JobOK(job[p], made) /\ DOMAIN job = Process
  BY DEF Typed, JobOK
<1> DEFINE n == [job[p] EXCEPT !.stage = s]
<1>2. n \in Job /\ n.stage = s /\ n.task = job[p].task /\ n.keep = job[p].keep
      /\ n.import = job[p].import /\ n.locked = job[p].locked
  BY <1>1 DEF Job
<1>3. job' = [job EXCEPT ![p] = n] /\ job'[p] = n
  BY <1>1 DEF Goes
<1> HIDE DEF n
<1>. QED
  BY <1>1, <1>2, <1>3 DEF JobOK

(* The database was in the archive: now the key and the files are too.     *)
LEMMA PackFacts ==
    ASSUME NEW c \in Core, NEW k, NEW u
    PROVE  [c EXCEPT !.key = k, !.uploads = u] = [db |-> c.db, key |-> k, uploads |-> u]
<1>1. c = [db |-> c.db, key |-> c.key, uploads |-> c.uploads]
  BY DEF Core
<1> DEFINE e == [c EXCEPT !.key = k, !.uploads = u]
           r == [db |-> c.db, key |-> k, uploads |-> u]
<1>2. e = [f \in DOMAIN e |-> e[f]] /\ r = [f \in DOMAIN r |-> r[f]]
  OBVIOUS
<1>3. DOMAIN e = {"db", "key", "uploads"} /\ DOMAIN r = {"db", "key", "uploads"}
  BY <1>1
<1>4. \A f \in {"db", "key", "uploads"} : e[f] = r[f]
  <2>1. DOMAIN c = {"db", "key", "uploads"}
    BY DEF Core
  <2>2. e["db"] = c["db"] /\ e["key"] = k /\ e["uploads"] = u
    BY <2>1
  <2>3. r["db"] = c.db /\ r["key"] = k /\ r["uploads"] = u
    OBVIOUS
  <2> HIDE DEF e, r
  <2>. QED
    BY <2>2, <2>3
<1> HIDE DEF e, r
<1>5. e = r
  BY <1>2, <1>3, <1>4
<1>. QED
  BY <1>5 DEF e, r

\* A backup gathers what it packs.
LEMMA BackupNet ==
    ASSUME NetAssumption, NetInv, Observe, NEW p \in Process, Snap(p) \/ Say(p) \/ Pack(p)
    PROVE  Typed' /\ Net'
<1> USE DEF Stage, Making
<1>. Typed
  BY DEF NetInv
<1>0. /\ job[p] \in Job /\ JobOK(job[p], made)
      /\ p \notin torn => Caught(job[p], live, archives, pushed)
  BY JobIsTyped DEF NetInv, Net
<1>1. CASE Snap(p)
  <2> DEFINE n == [job[p] EXCEPT !.pack = [job[p].pack EXCEPT !.db = live.db], !.stage = "say"]
  <2>1. [job[p].pack EXCEPT !.db = live.db] \in Core /\ [job[p].pack EXCEPT !.db = live.db].db = live.db
    BY <1>0 DEF Typed, Rest, Job, Core
  <2>2. n \in Job
    BY <1>0, <2>1 DEF Job
  <2>3. /\ n.stage = "say" /\ n.pack.db = live.db /\ n.task = job[p].task
        /\ n.locked = job[p].locked /\ n.keep = job[p].keep /\ n.import = job[p].import
        /\ job' = [job EXCEPT ![p] = n]
    BY <1>0, <1>1, <2>1 DEF Snap, Job
  <2>4. Rest' /\ UNCHANGED <<live, archives, portable, pushed, made, wreck>>
    BY <1>1 DEF Snap, Rest, Typed
  <2> HIDE DEF n
  <2>5. JobOK(n, made) /\ Caught(n, live, archives, pushed)
    BY <1>0, <1>1, <2>2, <2>3 DEF Snap, At, JobOK, Restoring, Touching, Forward, Backward,
                                  Caught, Carrying
  <2>. QED
    BY <2>3, <2>4, <2>5, NetStage
<1>2. CASE Say(p)
  <2> DEFINE says == [key |-> live.key # Nothing, uploads |-> live.uploads # Nothing]
             n == [job[p] EXCEPT !.says = says, !.stage = "pack"]
  <2>1. says \in Says
    BY DEF Says
  <2> HIDE DEF says
  <2>2. n \in Job
    BY <1>0, <2>1 DEF Job
  <2>3. /\ n.stage = "pack" /\ n.pack = job[p].pack /\ n.task = job[p].task
        /\ n.locked = job[p].locked /\ n.keep = job[p].keep /\ n.import = job[p].import
        /\ job' = [job EXCEPT ![p] = n]
    BY <1>0, <1>2, <2>1 DEF Say, Job, says
  <2>4. Rest' /\ UNCHANGED <<live, archives, portable, pushed, made, wreck>>
    BY <1>2 DEF Say, Rest, Typed
  <2> HIDE DEF n
  <2>5. JobOK(n, made) /\ (p \notin torn => Caught(n, live, archives, pushed))
    BY <1>0, <1>2, <2>2, <2>3 DEF Say, At, JobOK, Restoring, Touching, Forward, Backward,
                                  Caught, Carrying
  <2>. QED
    BY <2>3, <2>4, <2>5, NetStage
<1>3. CASE Pack(p)
  <2> DEFINE c == [job[p].pack EXCEPT !.key = live.key, !.uploads = live.uploads]
             n == [job[p] EXCEPT !.pack = c, !.stage = "publish"]
  <2>1. c \in Core /\ (job[p].pack.db = live.db => c = CoreOf(live))
    <3>1. job[p].pack \in Core
      BY <1>0 DEF Job
    <3>2. live.key \in Version \union {Nothing} /\ live.uploads \in Tree
      BY DEF Typed, Rest
    <3>3. c = [db |-> job[p].pack.db, key |-> live.key, uploads |-> live.uploads]
      BY <3>1, PackFacts
    <3>. QED
      BY <3>1, <3>2, <3>3 DEF Core, CoreOf
  <2>2. job' = [job EXCEPT ![p] = n]
    BY ZenonT(60), <1>0, <1>3 DEF Pack, Job, Core
  <2> HIDE DEF c
  <2>3. n \in Job
    BY <1>0, <2>1 DEF Job
  <2>4. /\ n.stage = "publish" /\ n.pack = c /\ n.task = job[p].task
        /\ n.locked = job[p].locked /\ n.keep = job[p].keep /\ n.import = job[p].import
    BY <1>0 DEF Job
  <2>5. Rest' /\ UNCHANGED <<live, archives, portable, pushed, made, wreck>>
    BY <1>3 DEF Pack, Rest, Typed
  <2> HIDE DEF n
  <2>6. JobOK(n, made) /\ (p \notin torn => Caught(n, live, archives, pushed))
    BY <1>0, <1>3, <2>1, <2>3, <2>4 DEF Pack, At, JobOK, Restoring, Touching, Forward,
                                        Backward, Caught, Carrying
  <2>. QED
    BY <2>2, <2>5, <2>6, NetStage
<1>. QED
  BY <1>1, <1>2, <1>3

\* An archive is published, gets its checksum, and older ones go.
LEMMA ArchiveNet ==
    ASSUME NetAssumption, NetInv, Observe, NEW p \in Process, Publish(p) \/ Sum(p) \/ Prune(p)
    PROVE  Typed' /\ Net'
<1> USE DEF Stage, Making
<1>. Typed
  BY DEF NetInv
<1>0. /\ job[p] \in Job /\ JobOK(job[p], made) /\ DOMAIN job = Process
      /\ p \notin torn => Caught(job[p], live, archives, pushed)
  BY JobIsTyped DEF NetInv, Net, Typed
<1>1. CASE Publish(p)
  <2> DEFINE n == [job[p] EXCEPT !.id = made + 1, !.stage = "sum"]
  <2>1. /\ Store(archives', portable', pushed', made') /\ made <= made' /\ Grows
        /\ StoredIn(job[p].pack, made', archives', pushed')
    BY <1>1, PublishGrows
  <2>2. /\ made' = made + 1 /\ made + 1 \in 0..MaxArchives /\ made \in Nat
        /\ UNCHANGED <<live, wreck>> /\ Rest'
    BY <1>1, <2>1 DEF Publish, Store, Typed, Rest
  <2>3. n \in Job
    BY <1>0, <2>2 DEF Job
  <2>4. /\ n.stage = "sum" /\ n.pack = job[p].pack /\ n.task = job[p].task
        /\ n.locked = job[p].locked /\ n.keep = job[p].keep /\ n.import = job[p].import
        /\ n.id = made'
        /\ job' = [job EXCEPT ![p] = n]
    BY <1>0, <1>1, <2>2 DEF Publish, Job
  <2> HIDE DEF n
  <2>5. Caught(n, live', archives', pushed') \/ p \in torn
    BY <1>0, <1>1, <2>1, <2>2, <2>4 DEF Publish, At, Caught, Touching, Forward, Backward,
                                        Carrying
  <2>6. n.task = "import" => n.import.archive.id <= made'
    <3>1. n.task = "import" => n.import \in Portable /\ n.import.archive.id <= made
      BY <1>0, <2>4 DEF JobOK
    <3>2. n.import \in Portable => n.import.archive \in Archive
      BY DEF Portable
    <3>3. n.import.archive \in Archive => n.import.archive.id \in Int
      BY DEF Archive
    <3>. QED
      BY <2>2, <3>1, <3>2, <3>3
  <2>7. JobOK(n, made')
    BY <1>0, <1>1, <2>3, <2>4, <2>6 DEF Publish, At, JobOK, Restoring, Touching, Forward,
                                        Backward
  <2>. QED
    BY <2>1, <2>2, <2>4, <2>5, <2>7, NetFrame
<1>2. CASE Sum(p)
  <2> DEFINE s == IF Named(job[p].id) = {} THEN "quit" ELSE "prune"
             n == [job[p] EXCEPT !.stage = s]
  <2>1. /\ Store(archives', portable', pushed', made') /\ made <= made' /\ Grows
        /\ \A c : StoredIn(c, job[p].id, archives, pushed) =>
                       SafeIn(c, job[p].id, archives', pushed')
    BY <1>2, MarksGrow DEF Sum
  <2>2. UNCHANGED <<live, wreck, made>> /\ Rest'
    BY <1>2 DEF Sum, Typed, Rest
  <2>3. s \in {"quit", "prune"}
    OBVIOUS
  <2> HIDE DEF s
  <2>4. n \in Job
    BY <1>0, <2>3 DEF Job
  <2>5. /\ n.stage = s /\ n.pack = job[p].pack /\ n.task = job[p].task
        /\ n.locked = job[p].locked /\ n.keep = job[p].keep /\ n.import = job[p].import
        /\ n.id = job[p].id
    BY <1>0, <2>3 DEF Job
  <2>6. job' = [job EXCEPT ![p] = n]
    BY <1>0, <1>2 DEF Sum, Goes, s
  <2> HIDE DEF n
  <2>7. Caught(n, live', archives', pushed') \/ p \in torn
    BY <1>0, <1>2, <2>1, <2>2, <2>3, <2>5 DEF Sum, At, Caught, Touching, Forward, Backward,
                                              Carrying
  <2>8. JobOK(n, made')
    BY <1>0, <1>2, <2>2, <2>3, <2>4, <2>5 DEF Sum, At, JobOK, Restoring, Touching, Forward,
                                              Backward
  <2>. QED
    BY <2>1, <2>2, <2>6, <2>7, <2>8, NetFrame
<1>3. CASE Prune(p)
  <2>1. Store(archives', portable', pushed', made') /\ made <= made' /\ Grows
    BY <1>3, PruneGrows
  <2>2. UNCHANGED <<live, wreck, made>> /\ Rest'
    BY <1>3 DEF Prune, Typed, Rest
  <2>3. CASE job[p].task = "backup"
    <3>1. job' = [job EXCEPT ![p] = NoJob]
      BY <1>3, <2>3 DEF Prune
    <3>2. JobOK(NoJob, made') /\ Caught(NoJob, live', archives', pushed')
      BY <2>2, NoJobOK, NothingForNoJob
    <3>. QED
      BY <2>1, <2>2, <3>1, <3>2, NetFrame
  <2>4. CASE job[p].task # "backup"
    <3> DEFINE s == IF job[p].locked THEN "hold" ELSE "gather"
               n == [job[p] EXCEPT !.stage = s]
    <3>1. job' = [job EXCEPT ![p] = n] /\ s \in {"hold", "gather"}
      BY <1>3, <2>4 DEF Prune
    <3>2. /\ n \in Job
          /\ n.stage = s /\ n.pack = job[p].pack /\ n.task = job[p].task
          /\ n.locked = job[p].locked /\ n.keep = job[p].keep /\ n.import = job[p].import
          /\ n.id = job[p].id
      <4> HIDE DEF s
      <4>. QED
        BY ZenonT(60), <1>0, <3>1 DEF Job
    <3>3. s = "hold" <=> job[p].locked
      OBVIOUS
    <3> HIDE DEF n, s
    <3>4. Caught(n, live', archives', pushed') \/ p \in torn
      BY <1>0, <1>3, <2>1, <2>2, <3>1, <3>2 DEF Prune, At, Caught, Touching, Forward, Backward,
                                                Carrying, Grows
    <3>5. job[p].locked \in BOOLEAN /\ job[p].task \in {"none", "backup", "restore", "export", "import"}
      BY <1>0 DEF Job
    <3>6. JobOK(n, made')
      BY <1>0, <1>3, <2>2, <2>4, <3>1, <3>2, <3>3, <3>5 DEF Prune, At, JobOK, Restoring, Touching,
                                                 Forward, Backward
    <3>. QED
      BY <2>1, <2>2, <3>1, <3>4, <3>6, NetFrame
  <2>. QED
    BY <2>3, <2>4
<1>. QED
  BY <1>1, <1>2, <1>3

\* From a stage to the next, outside the safety backup and the restoration.
LEMMA NetGoes ==
    ASSUME NetAssumption, NetInv, Observe, NEW p \in Process, NEW s \in Stage, Goes(p, s),
           s \in {"install", "install sum", "config", "media"} => job[p].task = "import",
           s \in Restoring => job[p].task \in {"restore", "import"},
           s \in {"fill", "verify"} => job[p].locked,
           s \notin Making \union {"hold", "gather"} \union Touching \union Carrying,
           Rest', UNCHANGED <<live, archives, portable, pushed, made, wreck>>
    PROVE  Typed' /\ Net'
<1>1. JobOK(job'[p], made) /\ job' = [job EXCEPT ![p] = job'[p]] /\ job'[p].stage = s
  BY ZenonT(60), TypedGoes DEF NetInv, Typed, Goes, JobOK, Job
<1>2. Caught(job'[p], live', archives, pushed)
  BY <1>1, NothingToCatch DEF Between
<1>. QED
  BY <1>1, <1>2, NetStage

\* A restoration goes on, or back: what it replaces stays where it is.
LEMMA TouchNet ==
    ASSUME NetInv, Observe, NEW p \in Process, NEW n, JobOK(n, made), job' = [job EXCEPT ![p] = n],
           job[p].stage \in Touching \union Carrying,
           n.stage \in Touching \union Carrying \union {"undone"},
           n.before = job[p].before, n.id = job[p].id,
           Rest', UNCHANGED <<archives, portable, pushed, made, wreck>>
    PROVE  Typed' /\ Net'
<1>1. p \notin torn => Caught(n, live', archives, pushed)
  BY DEF NetInv, Net, Caught, Touching, Forward, Backward, Carrying
<1>. QED
  BY <1>1, NetStage

\* A stage of the restoration is its task's.
LEMMA RestoringTask ==
    ASSUME NetInv, NEW p \in Process
    PROVE  /\ job[p] \in Job /\ JobOK(job[p], made) /\ job[p].locked \in BOOLEAN
           /\ DOMAIN job = Process
           /\ job[p].stage \in {"fill", "verify"} => job[p].locked
           /\ job[p].stage \in Restoring => job[p].task \in {"restore", "import"}
           /\ job[p].stage \in Guarded => job[p].locked
           /\ p \notin torn => Caught(job[p], live, archives, pushed)
BY DEF NetInv, Typed, JobOK, Net, IInv, Good, Staged, Job

\* One file is replaced while the archive of the old ones stays.
LEMMA PutsNet ==
    ASSUME NetAssumption, NetInv, Observe, NEW p \in Process, NEW s, NEW content,
           Puts(p, job[p].stage, s, content),
           job[p].stage \in Touching, s \in Touching \union {"restored", "undone"},
           content \in [db : Version, key : Version \union {Nothing}, uploads : Tree,
                        config : Version, media : Version]
    PROVE  Typed' /\ Net'
<1>1. s \in Stage /\ s \in Restoring /\ s \notin Making /\ s # "gather"
      /\ s \notin {"install", "install sum", "config", "media"} /\ job[p].stage \in Restoring
  BY DEF Stage, Restoring, Touching, Forward, Backward, Making, Carrying
<1>2. /\ job'[p] = [job[p] EXCEPT !.stage = s] /\ job[p] \in Job
      /\ UNCHANGED <<archives, made, portable, lock, busy, stolen, wreck, pushed, failures>>
      /\ live' = content
  BY JobIsTyped DEF Puts, Goes, NetInv, Typed
<1>3. JobOK(job'[p], made) /\ job' = [job EXCEPT ![p] = job'[p]]
  BY <1>1, TypedGoes, RestoringTask DEF NetInv, Puts, Touching, Forward, Backward
<1>4. /\ job'[p].stage = s /\ job'[p].before = job[p].before /\ job'[p].id = job[p].id
  BY <1>2 DEF Job
<1>5. job[p].locked
  BY RestoringTask DEF Guarded
<1>6. Rest'
  BY <1>2 DEF NetInv, Typed, Rest
<1>. QED
  BY <1>2, <1>3, <1>4, <1>5, <1>6, TouchNet DEF Carrying

\* A restoration that waits for the lock or looks at the archive, or ends.
LEMMA WaitsNet ==
    ASSUME NetAssumption, NetInv, Observe, NEW p \in Process,
           NEW s \in {"remove", "open", "verify", "quit"}, Goes(p, s),
           s # "quit" => job[p].stage \in Restoring, s = "verify" => job[p].stage = "fill",
           Rest', UNCHANGED <<live, archives, portable, pushed, made, wreck>>
    PROVE  Typed' /\ Net'
<1>1. s \in Stage /\ s \notin Making \union {"hold", "gather"} \union Touching \union Carrying
      /\ s \notin {"install", "install sum", "config", "media"} /\ "quit" \notin Restoring
  BY DEF Stage, Making, Touching, Forward, Backward, Carrying, Restoring
<1>2. s \in Restoring => job[p].task \in {"restore", "import"}
  BY <1>1, RestoringTask
<1>3. s \in {"fill", "verify"} => job[p].locked
  BY RestoringTask
<1>. QED
  BY <1>1, <1>2, <1>3, NetGoes

\* The lock file, and the archive to restore.
LEMMA LookNet ==
    ASSUME NetAssumption, NetInv, Observe, NEW p \in Process,
           Look(p) \/ RemoveStale(p) \/ Open(p) \/ Fill(p) \/ Verify(p) \/ Invalid(p)
    PROVE  Typed' /\ Net'
<1>. Typed
  BY DEF NetInv
<1>0. /\ job[p] \in Job /\ JobOK(job[p], made) /\ DOMAIN job = Process
      /\ job[p].stage \in Restoring => job[p].task \in {"restore", "import"}
      /\ job[p].stage \in {"fill", "verify"} => job[p].locked
  BY RestoringTask
<1>1. CASE Look(p)
  <2>1. PICK s \in {"remove", "open"} : Goes(p, s)
    BY <1>1 DEF Look
  <2>2. Rest' /\ UNCHANGED <<live, archives, portable, pushed, made, wreck>>
    BY <1>0, <1>1 DEF Look, Typed, Rest
  <2>. QED
    BY <1>1, <2>1, <2>2, WaitsNet DEF Look, At, Restoring
<1>2. CASE RemoveStale(p)
  <2>1. /\ Rest' /\ UNCHANGED <<live, archives, portable, pushed, made, wreck>>
    BY <1>0, <1>2 DEF RemoveStale, Typed, Rest
  <2>. QED
    BY <1>2, <2>1, WaitsNet DEF RemoveStale, At, Restoring
<1>3. CASE Open(p)
  <2> DEFINE n == [job[p] EXCEPT !.locked = TRUE, !.stage = "fill"]
  <2>1. /\ Rest' /\ UNCHANGED <<live, archives, portable, pushed, made, wreck>>
    BY <1>0, <1>3 DEF Open, Typed, Rest
  <2>2. job' = [job EXCEPT ![p] = n] /\ n.stage = "fill"
    BY <1>0, <1>3 DEF Open, Job
  <2>3. JobOK(n, made)
    <3>1. /\ n \in Job /\ n.locked /\ n.task = job[p].task /\ n.keep = job[p].keep
          /\ n.import = job[p].import
      BY <1>0 DEF Job, Stage
    <3> HIDE DEF n
    <3>. QED
      BY <1>0, <1>3, <2>2, <3>1 DEF JobOK, Open, At, Restoring, Making
  <2> HIDE DEF n
  <2>4. Caught(n, live', archives, pushed)
    BY <2>2, NothingToCatch DEF Between, Making, Touching, Forward, Backward, Carrying
  <2>. QED
    BY <2>1, <2>2, <2>3, <2>4, NetStage
<1>4. CASE Fill(p)
  <2>1. /\ Rest' /\ UNCHANGED <<live, archives, portable, pushed, made, wreck>>
    BY <1>0, <1>4 DEF Fill, Typed, Rest
  <2>. QED
    BY <1>4, <2>1, WaitsNet DEF Fill, At, Restoring
<1>5. CASE Verify(p)
  <2>1. PICK i \in DOMAIN archives :
            job' = [job EXCEPT ![p].core = archives[i].core, ![p].stage = "snap",
                               ![p].keep = Greater(Keep, Len(archives) + 1)]
    BY <1>5 DEF Verify, Named
  <2> DEFINE k == Greater(Keep, Len(archives) + 1)
             c == archives[i].core
             n == [job[p] EXCEPT !.core = c, !.stage = "snap", !.keep = k]
  <2>2. c \in Core /\ k \in Nat
    <3>1. Len(archives) \in Nat
      BY <1>0 DEF Typed, Store
    <3>. QED
      BY <1>0, <2>1, <3>1, ArchiveTyped DEF Greater, NetAssumption
  <2>3. job' = [job EXCEPT ![p] = n]
    BY <1>0, <2>1 DEF Job
  <2>4. /\ Rest' /\ UNCHANGED <<live, archives, portable, pushed, made, wreck>>
    BY <1>0, <1>5 DEF Verify, Typed, Rest
  <2> HIDE DEF k, c
  <2>5. /\ n \in Job /\ n.locked = job[p].locked /\ n.task = job[p].task /\ n.keep = k
        /\ n.import = job[p].import /\ n.stage = "snap"
    BY <1>0, <2>2 DEF Job, Stage, Making
  <2> HIDE DEF n
  <2>6. JobOK(n, made)
    BY <1>0, <1>5, <2>2, <2>5 DEF JobOK, Verify, At, Restoring, Touching, Forward, Backward, Making
  <2>7. Caught(n, live', archives, pushed)
    BY <2>5 DEF Caught, Touching, Forward, Backward, Carrying
  <2>. QED
    BY <2>3, <2>4, <2>6, <2>7, NetStage
<1>6. CASE Invalid(p)
  <2>1. /\ Rest' /\ UNCHANGED <<live, archives, portable, pushed, made, wreck>>
    BY <1>0, <1>6 DEF Invalid, Typed, Rest
  <2>. QED
    BY <1>6, <2>1, WaitsNet DEF Invalid, At, Restoring
<1>. QED
  BY <1>1, <1>2, <1>3, <1>4, <1>5, <1>6

\* The portable archives.
LEMMA GatherNet ==
    ASSUME NetAssumption, NetInv, Observe, NEW p \in Process, Gather(p)
    PROVE  Typed' /\ Net'
<1>. Typed
  BY DEF NetInv
<1>0. job[p] \in Job /\ JobOK(job[p], made) /\ DOMAIN job = Process
  BY RestoringTask
<1>1. PICK i \in DOMAIN archives, m \in {live.media, Nothing} :
          portable' = portable \union
                {[archive |-> archives[i], config |-> live.config, media |-> m,
                  declared |-> m # Nothing, sound |-> TRUE]}
  BY DEF Gather, Named
<1> DEFINE x == [archive |-> archives[i], config |-> live.config, media |-> m,
                 declared |-> m # Nothing, sound |-> TRUE]
<1>2. x \in Portable /\ x.archive.id <= made
  <2>1. live.config \in Version /\ live.media \in Version
    BY DEF Typed, Rest
  <2>2. archives[i] \in Archive /\ archives[i].id <= made
    BY <1>1, ArchiveTyped
  <2>3. TRUE \in BOOLEAN /\ (m # Nothing) \in BOOLEAN /\ m \in Version \union {Nothing}
    BY <1>1, <2>1
  <2>. QED
    BY <2>1, <2>2, <2>3 DEF Portable
<1> HIDE DEF x
<1>3. /\ UNCHANGED <<live, archives, made, lock, stolen, wreck, pushed, failures>>
      /\ portable' = portable \union {x}
  BY <1>1 DEF Gather, x
<1>4. Store(archives', portable', pushed', made') /\ made <= made' /\ Grows
  BY <1>2, <1>3 DEF Typed, Store, Grows
<1>5. CASE job[p].task = "import"
  <2>1. Goes(p, "install") /\ busy' = busy
    BY <1>5 DEF Gather
  <2>2. "install" \in Stage /\ "install" \notin Restoring /\ "install" \notin Making
    BY DEF Stage, Restoring, Touching, Forward, Backward, Making
  <2>3. JobOK(job'[p], made) /\ job' = [job EXCEPT ![p] = job'[p]]
    BY <1>5, <2>1, <2>2, TypedGoes
  <2>4. job'[p].stage = "install"
    BY <1>0, <2>1 DEF Goes, Job
  <2>5. Caught(job'[p], live', archives', pushed')
    BY <2>4, NothingToCatch DEF Between, Making, Touching, Forward, Backward, Carrying
  <2>6. Rest'
    BY <1>3, <2>1 DEF Typed, Rest
  <2>. QED
    BY <1>3, <1>4, <2>3, <2>5, <2>6, NetFrame
<1>6. CASE job[p].task # "import"
  <2>1. job' = [job EXCEPT ![p] = NoJob] /\ busy' = IF busy = p THEN Nothing ELSE busy
    BY <1>6 DEF Gather
  <2>2. JobOK(NoJob, made') /\ Caught(NoJob, live', archives', pushed')
    BY <1>3, NoJobOK, NothingForNoJob
  <2>3. Rest'
    BY <1>3, <2>1 DEF Typed, Rest
  <2>. QED
    BY <1>3, <1>4, <2>1, <2>2, <2>3, NetFrame
<1>. QED
  BY <1>5, <1>6

\* An import brings its archive in.
LEMMA InstallNet ==
    ASSUME NetAssumption, NetInv, Observe, NEW p \in Process, Install(p) \/ InstallSum(p)
    PROVE  Typed' /\ Net'
<1>. Typed
  BY DEF NetInv
<1>0. job[p] \in Job /\ JobOK(job[p], made) /\ DOMAIN job = Process
  BY RestoringTask
<1>1. job[p].task = "import" /\ job[p].import \in Portable
  BY <1>0 DEF JobOK, Install, InstallSum, At
<1>2. UNCHANGED <<live, wreck, made>> /\ Rest'
  BY DEF Install, InstallSum, Typed, Rest
<1>3. CASE Install(p)
  <2>1. Store(archives', portable', pushed', made') /\ made <= made' /\ Grows
    BY <1>3, InstallGrows
  <2>2. PICK s \in {"install sum", "quit"} : Goes(p, s)
    BY <1>3 DEF Install
  <2>3. s \in Stage /\ s \notin Restoring /\ s \notin Making /\ s # "gather"
        /\ s \notin {"fill", "verify"}
    BY DEF Stage, Restoring, Touching, Forward, Backward, Making
  <2>4. JobOK(job'[p], made) /\ job' = [job EXCEPT ![p] = job'[p]]
    BY <1>1, <2>2, <2>3, TypedGoes
  <2>5. job'[p].stage = s
    BY <1>0, <2>2 DEF Goes, Job
  <2>6. Caught(job'[p], live', archives', pushed')
    BY <2>5, NothingToCatch DEF Between, Making, Touching, Forward, Backward, Carrying
  <2>. QED
    BY <1>2, <2>1, <2>4, <2>6, NetFrame
<1>4. CASE InstallSum(p)
  <2> DEFINE id == job[p].import.archive.id
             n == [job[p] EXCEPT !.from = id, !.stage = "look"]
  <2>1. Store(archives', portable', pushed', made') /\ made <= made' /\ Grows
    BY <1>4, MarksGrow DEF InstallSum
  <2>2. id \in 0..MaxArchives
    <3>1. job[p].import.archive \in Archive
      BY <1>1 DEF Portable
    <3>. QED
      BY <3>1 DEF Archive
  <2>3. job' = [job EXCEPT ![p] = n]
    BY <1>0, <1>4 DEF InstallSum, Job
  <2> HIDE DEF id
  <2>4. /\ n \in Job /\ n.locked = job[p].locked /\ n.task = job[p].task
        /\ n.keep = job[p].keep /\ n.import = job[p].import /\ n.stage = "look"
    BY <1>0, <2>2 DEF Job, Stage
  <2> HIDE DEF n
  <2>5. JobOK(n, made')
    BY <1>0, <1>1, <1>2, <2>4 DEF JobOK, Making
  <2>6. Caught(n, live', archives', pushed')
    BY <2>4, NothingToCatch DEF Between, Making, Touching, Forward, Backward, Carrying
  <2>. QED
    BY <1>2, <2>1, <2>3, <2>5, <2>6, NetFrame
<1>. QED
  BY <1>3, <1>4

-----------------------------------------------------------------------------
(* The restoration, for the safety net.                                    *)

\* What is replaced is what the safety backup has.
LEMMA HoldNet == ASSUME NetAssumption, NetInv, Observe, NEW p \in Process, Hold(p) PROVE Typed' /\ Net'
<1>. Typed
  BY DEF NetInv
<1>0. /\ job[p] \in Job /\ JobOK(job[p], made) /\ DOMAIN job = Process
      /\ job[p].stage \in Restoring => job[p].task \in {"restore", "import"}
      /\ job[p].stage \in Guarded => job[p].locked
      /\ p \notin torn => Caught(job[p], live, archives, pushed)
  BY RestoringTask
<1> DEFINE c == CoreOf(live)
           n == [job[p] EXCEPT !.before = c, !.stage = "db",
                               !.pack = SomeCore, !.says = NoSays]
<1>1. c \in Core
  BY DEF CoreOf, Core, Typed, Rest
<1>2. SomeCore \in Core /\ NoSays \in Says
  <2>1. NoJob \in Job
    BY NoJobOK DEF JobOK
  <2>. QED
    BY <2>1 DEF NoJob, Job
<1>3. job' = [job EXCEPT ![p] = n] /\ job[p].stage = "hold"
  BY <1>0 DEF Hold, Job, At
<1>4. Rest' /\ UNCHANGED <<live, archives, portable, pushed, made, wreck>>
  BY DEF Hold, Typed, Rest
<1> HIDE DEF c
<1>5. /\ n \in Job /\ n.locked = job[p].locked /\ n.task = job[p].task /\ n.before = c
      /\ n.keep = job[p].keep /\ n.import = job[p].import /\ n.stage = "db"
      /\ n.id = job[p].id
  BY <1>0, <1>1, <1>2 DEF Job, Stage, Forward
<1> HIDE DEF n
<1>6. JobOK(n, made)
  BY <1>0, <1>3, <1>5 DEF JobOK, Restoring, Touching, Forward, Backward, Making
<1>7. p \notin torn => Caught(n, live', archives, pushed)
  BY <1>0, <1>3, <1>4, <1>5 DEF Caught, Guarded, c
<1>. QED
  BY <1>3, <1>4, <1>6, <1>7, NetStage

\* The database and the key, in and back.
LEMMA RestoreNet ==
    ASSUME NetAssumption, NetInv, Observe, NEW p \in Process,
           \/ TakeDatabase(p) \/ TakeKey(p) \/ Obstructed(p) \/ Initialize(p)
           \/ UndoDatabase(p) \/ UndoKey(p) \/ UndoIn(p) \/ UndoAway(p)
    PROVE  Typed' /\ Net'
<1> DEFINE Inst == [db : Version, key : Version \union {Nothing}, uploads : Tree,
                    config : Version, media : Version]
<1>0. /\ live \in Inst /\ Nothing \in Tree /\ job[p].old \in Tree
      /\ job[p].core \in Core /\ job[p].before \in Core
  BY RestoringTask DEF NetInv, Typed, Rest, Tree, Job
<1>1. /\ job[p].core.db \in Version /\ job[p].core.key \in Version \union {Nothing}
      /\ job[p].before.db \in Version /\ job[p].before.key \in Version \union {Nothing}
  BY <1>0 DEF Core
<1>2. PICK s, content :
          /\ Puts(p, job[p].stage, s, content)
          /\ job[p].stage \in Touching /\ s \in Touching \union {"restored", "undone"}
          /\ content \in Inst
  <2> USE DEF Touching, Forward, Backward
  <2>1. CASE TakeDatabase(p)
    <3>1. [live EXCEPT !.db = job[p].core.db] \in Inst
      BY <1>0, <1>1
    <3>. QED
      BY <2>1, <3>1 DEF TakeDatabase, Puts, At
  <2>2. CASE TakeKey(p)
    <3>1. [live EXCEPT !.key = job[p].core.key] \in Inst
      BY <1>0, <1>1
    <3>. QED
      BY <2>2, <3>1 DEF TakeKey, Puts, At
  <2>3. CASE Obstructed(p) \/ Initialize(p)
    BY <1>0, <2>3 DEF Obstructed, Initialize, Puts, At
  <2>4. CASE UndoDatabase(p)
    <3>1. [live EXCEPT !.db = job[p].before.db] \in Inst
      BY <1>0, <1>1
    <3>. QED
      BY <2>4, <3>1 DEF UndoDatabase, Puts, At
  <2>5. CASE UndoKey(p)
    <3>1. [live EXCEPT !.key = job[p].before.key] \in Inst
      BY <1>0, <1>1
    <3>. QED
      BY <2>5, <3>1 DEF UndoKey, Puts, At
  <2>6. CASE UndoIn(p)
    <3>1. (IF job[p].swapped THEN [live EXCEPT !.uploads = Nothing] ELSE live) \in Inst
      BY <1>0
    <3>. QED
      BY <2>6, <3>1 DEF UndoIn, Puts, At
  <2>7. CASE UndoAway(p)
    <3>1. (IF job[p].old # Nothing /\ Free THEN [live EXCEPT !.uploads = job[p].old]
           ELSE live) \in Inst
      BY <1>0
    <3>. QED
      BY <2>7, <3>1 DEF UndoAway, Puts, At
  <2>. QED
    BY <2>1, <2>2, <2>3, <2>4, <2>5, <2>6, <2>7
<1>. QED
  BY <1>2, PutsNet

\* The two renames of the files.
LEMMA MoveNet ==
    ASSUME NetAssumption, NetInv, Observe, NEW p \in Process, MoveAway(p) \/ MoveIn(p)
    PROVE  Typed' /\ Net'
<1>. Typed
  BY DEF NetInv
<1>0. /\ job[p] \in Job /\ JobOK(job[p], made) /\ DOMAIN job = Process
      /\ job[p].stage \in Guarded => job[p].locked
  BY RestoringTask
<1>1. CASE MoveAway(p)
  <2> DEFINE n == [job[p] EXCEPT !.old = live.uploads, !.stage = "in"]
  <2>1. job' = [job EXCEPT ![p] = n] /\ job[p].stage = "away"
    BY <1>0, <1>1 DEF MoveAway, Job, At
  <2>2. live.uploads \in Tree /\ Nothing \in Tree
    BY DEF Typed, Rest, Tree
  <2>3. Rest' /\ UNCHANGED <<archives, portable, pushed, made, wreck>>
    BY <1>1, <2>2 DEF MoveAway, Typed, Rest
  <2>4. /\ n \in Job /\ n.locked = job[p].locked /\ n.task = job[p].task
        /\ n.keep = job[p].keep /\ n.import = job[p].import /\ n.stage = "in"
        /\ n.id = job[p].id /\ n.before = job[p].before
    BY <1>0, <2>2 DEF Job, Stage, Forward
  <2> HIDE DEF n
  <2>5. JobOK(n, made)
    BY <1>0, <2>1, <2>4 DEF JobOK, Restoring, Touching, Forward, Backward, Making
  <2>. QED
    BY <1>0, <2>1, <2>3, <2>4, <2>5, TouchNet DEF Guarded, Touching, Forward
<1>2. CASE MoveIn(p)
  <2> DEFINE n == [job[p] EXCEPT !.swapped = TRUE, !.stage = "init"]
  <2>1. job' = [job EXCEPT ![p] = n] /\ job[p].stage = "in"
    BY <1>0, <1>2 DEF MoveIn, Job, At
  <2>2. Placed(job[p].core.uploads) \in Tree
    BY <1>0 DEF Job, Core, Placed, Tree
  <2>3. Rest' /\ UNCHANGED <<archives, portable, pushed, made, wreck>>
    BY <1>2, <2>2 DEF MoveIn, Typed, Rest
  <2>4. /\ n \in Job /\ n.locked = job[p].locked /\ n.task = job[p].task
        /\ n.keep = job[p].keep /\ n.import = job[p].import /\ n.stage = "init"
        /\ n.id = job[p].id /\ n.before = job[p].before
    BY <1>0 DEF Job, Stage, Forward
  <2> HIDE DEF n
  <2>5. JobOK(n, made)
    BY <1>0, <2>1, <2>4 DEF JobOK, Restoring, Touching, Forward, Backward, Making
  <2>. QED
    BY <1>0, <2>1, <2>3, <2>4, <2>5, TouchNet DEF Guarded, Touching, Forward
<1>. QED
  BY <1>1, <1>2

\* The rest of an import.
LEMMA ImportNet ==
    ASSUME NetAssumption, NetInv, Observe, NEW p \in Process, TakeConfig(p) \/ TakeMedia(p)
    PROVE  Typed' /\ Net'
<1>. Typed
  BY DEF NetInv
<1>0. job[p] \in Job /\ JobOK(job[p], made) /\ DOMAIN job = Process
  BY RestoringTask
<1>1. job[p].task = "import" /\ job[p].import \in Portable
  BY <1>0 DEF JobOK, TakeConfig, TakeMedia, Puts, At
<1>2. job[p].import.config \in Version /\ job[p].import.media \in Version \union {Nothing}
  BY <1>1 DEF Portable
<1>3. Rest' /\ UNCHANGED <<archives, portable, pushed, made, wreck>>
  <2>1. CASE TakeConfig(p)
    BY <1>2, <2>1 DEF TakeConfig, Puts, Typed, Rest
  <2>2. CASE TakeMedia(p)
    <3>1. CASE job[p].import.media = Nothing
      BY <2>2, <3>1 DEF TakeMedia, Typed, Rest
    <3>2. CASE job[p].import.media # Nothing
      BY <1>2, <2>2, <3>2 DEF TakeMedia, Typed, Rest
    <3>. QED
      BY <3>1, <3>2
  <2>. QED
    BY <2>1, <2>2
<1>4. CASE TakeConfig(p)
  <2>1. Goes(p, "media") /\ job[p].stage = "config"
    BY <1>4 DEF TakeConfig, Puts, At
  <2>2. "media" \in Stage /\ "media" \notin Restoring /\ "media" \notin Making
    BY DEF Stage, Restoring, Touching, Forward, Backward, Making, Carrying
  <2>3. JobOK(job'[p], made) /\ job' = [job EXCEPT ![p] = job'[p]]
    BY <1>1, <2>1, <2>2, TypedGoes
  <2>4. /\ job'[p].stage = "media" /\ job'[p].before = job[p].before
        /\ job'[p].id = job[p].id
    BY <1>0, <2>1 DEF Goes, Job
  <2>. QED
    BY <1>3, <2>1, <2>3, <2>4, TouchNet DEF Carrying
<1>5. CASE TakeMedia(p)
  <2>1. job' = [job EXCEPT ![p] = NoJob]
    BY <1>5 DEF TakeMedia
  <2>2. JobOK(NoJob, made) /\ Caught(NoJob, live', archives, pushed)
    BY NoJobOK, NothingForNoJob
  <2>. QED
    BY <1>3, <2>1, <2>2, NetStage
<1>. QED
  BY <1>4, <1>5

\* A task is over, or its restoration is.
LEMMA EndNet ==
    ASSUME NetAssumption, NetInv, Observe, NEW p \in Process, Refuse(p) \/ Quit(p) \/ Restored(p)
    PROVE  Typed' /\ Net'
<1>. Typed
  BY DEF NetInv
<1>0. job[p] \in Job /\ JobOK(job[p], made) /\ DOMAIN job = Process
  BY RestoringTask
<1>1. CASE Ends(p)
  <2>1. /\ job' = [job EXCEPT ![p] = NoJob] /\ Rest'
        /\ UNCHANGED <<archives, portable, pushed, made, wreck>>
    BY <1>1 DEF Ends, Typed, Rest
  <2>2. JobOK(NoJob, made) /\ Caught(NoJob, live', archives, pushed)
    BY NoJobOK, NothingForNoJob
  <2>. QED
    BY <2>1, <2>2, NetStage
<1>2. CASE Restored(p) /\ job[p].task # "restore"
  <2> DEFINE n == [job[p] EXCEPT !.locked = FALSE, !.stage = "config"]
  <2>1. job' = [job EXCEPT ![p] = n] /\ job[p].stage = "restored"
    BY <1>0, <1>2 DEF Restored, Job, At
  <2>2. job[p].task = "import"
    BY <1>2, <2>1, RestoringTask DEF Restoring
  <2>3. /\ Rest'
        /\ UNCHANGED <<archives, portable, pushed, made, wreck>>
    BY <1>2 DEF Restored, Typed, Rest
  <2>4. /\ n \in Job /\ n.task = job[p].task
        /\ n.keep = job[p].keep /\ n.import = job[p].import /\ n.stage = "config"
        /\ n.id = job[p].id /\ n.before = job[p].before
    BY <1>0 DEF Job, Stage, Carrying
  <2> HIDE DEF n
  <2>5. JobOK(n, made)
    BY <1>0, <2>2, <2>4 DEF JobOK, Restoring, Touching, Forward, Backward, Making
  <2>. QED
    BY <2>1, <2>3, <2>4, <2>5, TouchNet DEF Carrying
<1>. QED
  BY <1>1, <1>2 DEF Refuse, Quit, Restored

\* What a killed or failed restoration leaves is what its safety backup has.
LEMMA WreckNet ==
    ASSUME NetAssumption, NetInv, NEW p \in Process, Fail(p) \/ Kill(p)
    PROVE  /\ Wreck(p) = Nothing \/ Wreck(p) \in [core : Core, id : 0..MaxArchives]
           /\ \/ Wreck(p) = wreck
              \/ SafeIn(Wreck(p).core, Wreck(p).id, archives, pushed)
<1>1. /\ job[p].before \in Core /\ job[p].id \in 0..MaxArchives
      /\ wreck = Nothing \/ wreck \in [core : Core, id : 0..MaxArchives]
  BY RestoringTask DEF NetInv, Typed, Rest, Job
<1> DEFINE w == [core |-> job[p].before, id |-> job[p].id]
<1>2. w \in [core : Core, id : 0..MaxArchives] /\ w.core = job[p].before /\ w.id = job[p].id
  BY <1>1
<1> HIDE DEF w
<1>3. CASE p \notin torn /\ job[p].stage \in Forward \union Backward \union Carrying
  <2>1. Wreck(p) = w
    BY <1>3 DEF Wreck, w
  <2>2. SafeIn(job[p].before, job[p].id, archives, pushed)
    BY <1>3, RestoringTask DEF Caught, Touching
  <2>. QED
    BY <1>2, <2>1, <2>2
<1>4. CASE ~(p \notin torn /\ job[p].stage \in Forward \union Backward \union Carrying)
  BY <1>1, <1>4 DEF Wreck
<1>. QED
  BY <1>3, <1>4

\* A step fails or is killed: the wreck is what was in the archive.
LEMMA FailNet == ASSUME NetAssumption, NetInv, Observe, NEW p \in Process, Fail(p) \/ Kill(p)
                 PROVE  Typed' /\ Net'
<1>. Typed
  BY DEF NetInv
<1>0. /\ job[p] \in Job /\ JobOK(job[p], made) /\ DOMAIN job = Process
      /\ job[p].stage \in Restoring => job[p].task \in {"restore", "import"}
      /\ p \notin torn => Caught(job[p], live, archives, pushed)
  BY RestoringTask
<1>1. /\ UNCHANGED <<live, archives, made, portable, stolen, pushed>>
      /\ failures' \in 0..MaxFailures /\ wreck' \in {wreck, Wreck(p)}
      /\ lock' = Nothing \/ lock' \in [by : Process \union {Nothing}, filled : BOOLEAN]
      /\ busy' \in Process \union {Nothing}
  <2>1. failures < MaxFailures /\ failures' = failures + 1
    BY DEF Fail, Kill
  <2>2. failures' \in 0..MaxFailures
    BY <2>1 DEF Typed, Rest, NetAssumption
  <2>3. CASE Fail(p)
    BY <2>2, <2>3 DEF Fail, Typed, Rest
  <2>4. CASE Kill(p)
    BY <2>2, <2>4 DEF Kill, Typed, Rest
  <2>. QED
    BY <2>3, <2>4
<1>2. Store(archives', portable', pushed', made') /\ made <= made' /\ Grows
  BY <1>1 DEF Typed, Store, Grows
<1>3. Rest'
  BY <1>1, WreckNet DEF Typed, Rest
<1>4. \/ wreck' = wreck
      \/ SafeIn(wreck'.core, wreck'.id, archives', pushed')
  BY <1>1, WreckNet
<1>5. CASE Kill(p)
  <2>1. job' = [job EXCEPT ![p] = NoJob]
    BY <1>5 DEF Kill
  <2>2. JobOK(NoJob, made') /\ Caught(NoJob, live', archives', pushed')
    BY <1>1, NoJobOK, NothingForNoJob
  <2>. QED
    BY <1>1, <1>2, <1>3, <1>4, <2>1, <2>2, NetFrame
<1>6. CASE Fail(p)
  <2> DEFINE s == IF job[p].stage \in Forward THEN "undo db" ELSE "quit"
  <2>1. Goes(p, s) /\ s \in {"undo db", "quit"}
    BY <1>6 DEF Fail
  <2>2. s = "undo db" <=> job[p].stage \in Forward
    OBVIOUS
  <2> HIDE DEF s
  <2>3. /\ s \in Stage /\ s \notin Making /\ s # "gather" /\ s \notin {"fill", "verify"}
        /\ s \notin {"install", "install sum", "config", "media"}
        /\ s \in Restoring => job[p].stage \in Restoring
    BY <2>1, <2>2 DEF Stage, Making, Restoring, Touching, Forward, Backward
  <2>4. JobOK(job'[p], made) /\ job' = [job EXCEPT ![p] = job'[p]]
    BY <1>0, <2>1, <2>3, TypedGoes
  <2>5. /\ job'[p].stage = s /\ job'[p].before = job[p].before
        /\ job'[p].id = job[p].id
    BY <1>0, <2>1 DEF Goes, Job
  <2>6. p \notin torn => Caught(job'[p], live', archives', pushed')
    BY <1>0, <1>1, <2>1, <2>2, <2>5 DEF Caught, Touching, Forward, Backward, Carrying
  <2>. QED
    BY <1>1, <1>2, <1>3, <1>4, <2>4, <2>6, NetFrame
<1>. QED
  BY <1>5, <1>6

\* When users write, the backups that are being made are torn.
LEMMA ChangeNet == ASSUME NetAssumption, NetInv, Observe, Change PROVE Typed' /\ Net'
<1>. Typed
  BY DEF NetInv
<1>1. PICK v \in Version :
          live' = [live EXCEPT !.db = v, !.uploads = v,
                               !.key = IF @ = Nothing /\ v \in Secret THEN v ELSE @]
  BY DEF Change
<1>2. /\ job' = [p \in Process |-> IF Idle(p) THEN job[p]
                                    ELSE [job[p] EXCEPT !.alone = FALSE]]
      /\ UNCHANGED <<archives, made, portable, lock, busy, stolen, wreck, pushed, failures>>
  BY DEF Change
<1>3. Rest' /\ Store(archives', portable', pushed', made') /\ torn' \subseteq Process
  BY <1>1, <1>2 DEF Typed, Rest, Store, Tree, Observe
<1>4. ASSUME NEW p \in Process
      PROVE  /\ JobOK(job'[p], made')
             /\ \A f \in JobField \ {"alone"} : job'[p][f] = job[p][f]
  <2>1. job[p] \in Job /\ JobOK(job[p], made)
    BY RestoringTask
  <2>2. CASE Idle(p)
    BY <1>2, <2>1, <2>2
  <2>3. CASE ~Idle(p)
    <3> DEFINE n == [job[p] EXCEPT !.alone = FALSE]
    <3>1. job'[p] = n
      BY <1>2, <2>3
    <3>2. n \in Job /\ \A f \in JobField \ {"alone"} : n[f] = job[p][f]
      BY <2>1 DEF Job, JobField
    <3> HIDE DEF n
    <3>. QED
      BY <1>2, <2>1, <3>1, <3>2 DEF JobOK, JobField
  <2>. QED
    BY <2>2, <2>3
<1>5. ASSUME NEW p \in Process, p \notin torn'
      PROVE  Caught(job'[p], live', archives', pushed')
  <2>1. CASE job'[p].stage \notin Between \union Touching \union Carrying
    BY <2>1, NothingToCatch
  <2>2. CASE job'[p].stage \in Between \union Touching \union Carrying
    <3>1. /\ Caught(job[p], live, archives, pushed)
          /\ job[p].stage \in Between => CoreOf(live') = CoreOf(live)
      BY <1>5, <2>2, TornFacts DEF NetInv, Net
    <3>2. job[p].stage \in Between => live'.db = live.db
      BY <3>1 DEF CoreOf
    <3>. QED
      BY <1>2, <1>4, <3>1, <3>2 DEF Caught, JobField, Between, Making
  <2>. QED
    BY <2>1, <2>2
<1>6. wreck' # Nothing => SafeIn(wreck'.core, wreck'.id, archives', pushed')
  BY <1>2 DEF NetInv, Net
<1>. QED
  BY <1>2, <1>3, <1>4, <1>5, <1>6 DEF Typed, Net

-----------------------------------------------------------------------------

\* An archive that was there, or came from elsewhere.
LEMMA SealedTyped ==
    ASSUME NEW id \in 0..MaxArchives, NEW v \in Version,
           NEW u \in Version \union {Nothing}
    PROVE  Sealed(id, Fresh(v, u)) \in Archive /\ Sealed(id, Fresh(v, u)).id = id
<1>1. Fresh(v, u) \in Core
  BY DEF Fresh, Core, Tree
<1> DEFINE c == Fresh(v, u)
<1> HIDE DEF c
<1>2. [key |-> c.key # Nothing, uploads |-> c.uploads # Nothing] \in Says
  BY DEF Says
<1>. QED
  BY <1>1, <1>2 DEF Sealed, Archive, c

\* What an upload may bring is an archive.
LEMMA ForeignTyped ==
    ASSUME NetAssumption
    PROVE  \A x \in Foreign : x \in Portable /\ x.archive.id = 0
<1>1. ASSUME NEW v \in Version, NEW m \in Version \union {Nothing},
             NEW d \in BOOLEAN, NEW s \in BOOLEAN
      PROVE  /\ [archive |-> Sealed(0, Fresh(v, v)), config |-> v, media |-> m,
                 declared |-> d, sound |-> s] \in Portable
             /\ Sealed(0, Fresh(v, v)).id = 0
  <2>1. Sealed(0, Fresh(v, v)) \in Archive /\ Sealed(0, Fresh(v, v)).id = 0
    BY SealedTyped DEF NetAssumption
  <2>. QED
    BY <2>1 DEF Portable
<1>. QED
  BY <1>1 DEF Foreign

\* Nothing has been replaced.
LEMMA NetInit == ASSUME NetAssumption, Init PROVE NetInv
<1>1. IInv
  BY InitIInv
<1>2. PICK v \in Version, u \in Version \union {Nothing} :
          live = [db |-> v, key |-> Fresh(v, u).key, uploads |-> u, config |-> v, media |-> v]
  BY DEF Init
<1>3. Rest
  <2>1. Fresh(v, u).key \in Version \union {Nothing} /\ u \in Tree
    BY DEF Fresh, Tree
  <2>2. live \in [db : Version, key : Version \union {Nothing}, uploads : Tree,
                  config : Version, media : Version]
    BY <1>2, <2>1
  <2>3. lock = Nothing /\ busy = Nothing /\ stolen = FALSE /\ wreck = Nothing /\ failures = 0
    BY DEF Init
  <2>. QED
    <3>1. stolen \in BOOLEAN
      BY <1>1 DEF IInv
    <3>2. 0 \in 0..MaxFailures
      BY DEF NetAssumption
    <3>. QED
      BY <2>2, <2>3, <3>1, <3>2 DEF Rest
<1>4. Store(archives, portable, pushed, made)
  <2>1. CASE archives = <<>>
    BY <2>1, ForeignTyped DEF Init, Store, NetAssumption
  <2>2. CASE archives # <<>>
    <3>1. PICK w \in Version, x \in Version \union {Nothing} :
              archives = <<Sealed(1, Fresh(w, x))>>
      BY <2>2 DEF Init
    <3>2. Sealed(1, Fresh(w, x)) \in Archive /\ Sealed(1, Fresh(w, x)).id = 1
      BY SealedTyped DEF NetAssumption
    <3>3. archives \in Seq(Archive) /\ made = 1 /\ \A i \in DOMAIN archives : archives[i].id = 1
      BY <3>1, <3>2 DEF Init
    <3>. QED
      BY <3>3, ForeignTyped DEF Init, Store, NetAssumption
  <2>. QED
    BY <2>1, <2>2
<1>5. job = [p \in Process |-> NoJob]
  BY DEF Init
<1>6. NoJob \in Job /\ JobOK(NoJob, made)
  <2>1. SomeCore \in Core
    BY <1>2 DEF SomeCore, Core, Tree
  <2>. QED
    BY <2>1 DEF JobOK, NoJob, NoSays, Says, Job, NetAssumption, Tree, Stage, Restoring,
                Touching, Forward, Backward, Making
<1>7. Typed
  <2>1. torn \subseteq Process
    BY DEF Init
  <2>. QED
    BY <1>3, <1>4, <1>5, <1>6, <2>1 DEF Typed
<1>8. Caught(NoJob, live, archives, pushed)
  BY NothingForNoJob
<1>. QED
  BY <1>1, <1>5, <1>7, <1>8 DEF NetInv, Net, Init

\* Every step of the processes and of the users.
LEMMA NetNext == ASSUME NetAssumption, NetInv, [Next]_vars PROVE NetInv'
<1>1. IInv'
  BY NextIInv DEF NetInv, NetAssumption
<1>2. CASE Change /\ Observe
  BY <1>1, <1>2, ChangeNet DEF NetInv
<1>3. CASE Receive /\ Observe
  <2>1. PICK x \in Foreign : portable' = portable \union {x}
    BY <1>3 DEF Receive
  <2>2. UNCHANGED <<live, archives, made, lock, busy, job, stolen, wreck, pushed, failures>>
    BY <1>3 DEF Receive
  <2>3. x \in Portable /\ x.archive.id = 0 /\ made \in Nat
    BY ForeignTyped DEF NetInv, Typed, Store
  <2>4. Typed'
    <3>1. Rest'
      BY <2>2 DEF NetInv, Typed, Rest
    <3>2. Store(archives, portable', pushed, made)
      BY <2>1, <2>3 DEF NetInv, Typed, Store
    <3>3. torn' \subseteq Process
      BY <1>3 DEF Observe
    <3>. QED
      BY <2>2, <3>1, <3>2, <3>3 DEF NetInv, Typed
  <2>5. Net'
    <3>1. ASSUME NEW p \in Process, p \notin torn'
          PROVE  Caught(job[p], live, archives, pushed)
      BY <1>3, <2>2, <3>1, TornFacts, NothingToCatch DEF NetInv, Net
    <3>. QED
      BY <2>2, <3>1 DEF NetInv, Net
  <2>. QED
    BY <1>1, <2>4, <2>5 DEF NetInv
<1>4. CASE UNCHANGED vars
  <2>1. Typed'
    BY <1>4 DEF NetInv, vars, Typed, Rest, Store, JobOK
  <2>2. Net'
    BY <1>4 DEF NetInv, vars, Net
  <2>. QED
    BY <1>1, <2>1, <2>2 DEF NetInv
<1>5. ASSUME NEW p \in Process, Step(p), Observe PROVE Typed' /\ Net'
  <2>1. CASE StartBackup(p) \/ StartRestore(p) \/ StartExport(p) \/ StartImport(p)
    BY <1>5, <2>1, TaskNet
  <2>2. CASE Snap(p) \/ Say(p) \/ Pack(p)
    BY <1>5, <2>2, BackupNet
  <2>3. CASE Publish(p) \/ Sum(p) \/ Prune(p)
    BY <1>5, <2>3, ArchiveNet
  <2>4. CASE Look(p) \/ RemoveStale(p) \/ Open(p) \/ Fill(p) \/ Verify(p) \/ Invalid(p)
    BY <1>5, <2>4, LookNet
  <2>5. CASE Refuse(p) \/ Quit(p) \/ Restored(p)
    BY <1>5, <2>5, EndNet
  <2>6. CASE Hold(p)
    BY <1>5, <2>6, HoldNet
  <2>7. CASE \/ TakeDatabase(p) \/ TakeKey(p) \/ Obstructed(p) \/ Initialize(p)
             \/ UndoDatabase(p) \/ UndoKey(p) \/ UndoIn(p) \/ UndoAway(p)
    BY <1>5, <2>7, RestoreNet
  <2>8. CASE MoveAway(p) \/ MoveIn(p)
    BY <1>5, <2>8, MoveNet
  <2>9. CASE Gather(p)
    BY <1>5, <2>9, GatherNet
  <2>10. CASE Install(p) \/ InstallSum(p)
    BY <1>5, <2>10, InstallNet
  <2>11. CASE TakeConfig(p) \/ TakeMedia(p)
    BY <1>5, <2>11, ImportNet
  <2>12. CASE Fail(p) \/ Kill(p)
    BY <1>5, <2>12, FailNet
  <2>. QED
    BY <1>5, <2>1, <2>2, <2>3, <2>4, <2>5, <2>6, <2>7, <2>8, <2>9, <2>10, <2>11, <2>12
       DEF Step
<1>. QED
  BY <1>1, <1>2, <1>3, <1>4, <1>5 DEF Next, NetInv

\* The invariant says it of every process and of the wreck.
LEMMA NetMeans == ASSUME NetInv PROVE SafetyNet
BY DEF NetInv, Net, Caught, SafetyNet, Safe, SafeIn, Named, Touching

(* Every variable has its type, for any processes, versions and bounds.    *)
THEOREM BackupTypes == ASSUME NetAssumption PROVE Spec => []TypeOK
<1>1. Init => NetInv
  BY NetInit
<1>2. NetInv /\ [Next]_vars => NetInv'
  BY NetNext
<1>3. NetInv => TypeOK
  BY TypedMeans DEF NetInv
<1>. QED
  BY <1>1, <1>2, <1>3, PTL DEF Spec

(* What a restoration replaces is in an archive that can be verified,      *)
(* whatever fails, is killed, writes or runs at the same time, a second    *)
(* restoration included, unless the installation was written to while the  *)
(* safety backup was made, or a later backup was told to keep no more than *)
(* there were newer (create_backup, restore_backup, remove_old_backups).   *)
THEOREM NetCorrect == ASSUME NetAssumption PROVE Spec => []SafetyNet
<1>1. Init => NetInv
  BY NetInit
<1>2. NetInv /\ [Next]_vars => NetInv'
  BY NetNext
<1>3. NetInv => SafetyNet
  BY NetMeans
<1>. QED
  BY <1>1, <1>2, <1>3, PTL DEF Spec

=============================================================================
