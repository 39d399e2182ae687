------------------------------ MODULE ServerProofs ------------------------------
(***************************************************************************)
(* Theorems of the composition of the server's subsystems.  Those of the   *)
(* modules Recordings, Messages, ServerWatch, Services and SpeechActivity  *)
(* are proved here, for any recordings, segments and threads, contacts and *)
(* messages, services, marks and durations; those of Alerts, WebWatchers   *)
(* and Backup hold of the composition, whose steps are theirs or leave     *)
(* their variables alone.                                                  *)
(***************************************************************************)
EXTENDS MCServer, FiniteSetTheorems, SequenceTheorems, TLAPS

-----------------------------------------------------------------------------
(* Recordings: the inductive invariant.                                    *)

\* A thread that has drawn a name and not stored the row yet.
Uploading(t) == serving[t].op = "upload" /\ serving[t].at \in {"save", "row"}

\* A request that names a recording names one that was drawn.
Names(t) == serving[t].op \in {"upload", "play", "reanalyze"} => serving[t].rec \in drawn

\* Until the row is stored nobody else knows the name; afterwards the segment
\* has had a row.
Uploads(t) ==
    serving[t].op = "upload" =>
        /\ serving[t].segment \in Segment
        /\ serving[t].at = "save" => ~Exists(serving[t].rec)
        /\ serving[t].at = "row" => /\ ~Exists(serving[t].rec)
                                    /\ file[serving[t].rec] = "final"
        /\ ~Uploading(t) => serving[t].segment \in stored

\* What is unlinked has no row, and nobody uploads it.
Unlinks(t) ==
    serving[t].at = "unlink" =>
        \A r \in serving[t].todo :
            /\ r \in drawn /\ ~Exists(r)
            /\ \A u \in Thread : Uploading(u) => serving[u].rec # r

\* Two uploads draw two names.
Apart == \A t, u \in Thread :
             Uploading(t) /\ Uploading(u) /\ serving[t].rec = serving[u].rec => t = u

ThreadsInv == Apart /\ \A t \in Thread : Names(t) /\ Uploads(t) /\ Unlinks(t)

RowsInv == \A r \in Rec : Exists(r) => r \in drawn /\ file[r] = "final"

WorkerInv == /\ worker.at # "get" => worker.rec \in Rec
             /\ worker.at = "write" => worker.result # "processing"
             /\ ProcessingIsWorked

IInv == TypeOK /\ RowsInv /\ ThreadsInv /\ WorkerInv /\ SegmentsKept

Serving == [op   : {"none", "upload", "list", "play", "reanalyze", "delete"},
            at   : Step \cup {"none"}, rec : Rec \cup {Nobody},
            todo : SUBSET Rec, segment : Segment \cup {Nobody}]

-----------------------------------------------------------------------------
\* A thread without a request.
LEMMA IdleType == Idle \in Serving
BY DEF Idle, Serving

(* The recordings start with nothing stored, served or analysed.           *)
THEOREM InitIInv == Init => IInv
<1> SUFFICES ASSUME Init PROVE IInv
  OBVIOUS
<1> USE DEF Init
<1>1. TypeOK
  BY IdleType DEF TypeOK, Serving, Resting, Status
<1>2. \A t \in Thread : serving[t].op = "none" /\ serving[t].at = "none"
  BY DEF Idle
<1>3. RowsInv /\ ThreadsInv
  BY <1>2 DEF RowsInv, ThreadsInv, Apart, Names, Uploads, Unlinks, Uploading, Exists
<1>4. WorkerInv /\ SegmentsKept
  BY DEF WorkerInv, ProcessingIsWorked, SegmentsKept, Resting, Exists
<1>5. QED
  BY <1>1, <1>3, <1>4 DEF IInv

\* A thread takes a step, the others rest: the general form of most actions.
LEMMA ThreadType ==
    ASSUME TypeOK, NEW t \in Thread
    PROVE  /\ serving[t] \in Serving
           /\ \A s \in Serving : [serving EXCEPT ![t] = s] \in [Thread -> Serving]
BY DEF TypeOK, Serving

\* Rows only change their status or go, and files, names and segments stay.
LEMMA RowsFade ==
    ASSUME IInv, UNCHANGED <<file, drawn, stored, serving>>,
           \A r \in Rec : Exists(r)' => Exists(r)
    PROVE  RowsInv' /\ ThreadsInv'
<1>1. RowsInv'
  BY DEF IInv, RowsInv
<1>2. Apart'
  BY DEF IInv, ThreadsInv, Apart, Uploading
<1>3. ASSUME NEW t \in Thread PROVE Names(t)' /\ Uploads(t)' /\ Unlinks(t)'
  <2>1. Names(t) /\ Uploads(t) /\ Unlinks(t) /\ drawn \subseteq Rec /\ serving[t] \in Serving
    BY ThreadType DEF IInv, ThreadsInv, TypeOK
  <2>2. Names(t)'
    BY <2>1 DEF Names
  <2>3. Uploads(t)'
    BY <2>1 DEF Uploads, Uploading, Names
  <2>4. Unlinks(t)'
    BY <2>1 DEF Unlinks, Uploading
  <2>5. QED
    BY <2>2, <2>3, <2>4
<1>4. QED
  BY <1>1, <1>2, <1>3 DEF ThreadsInv

\* One thread goes on while rows may fade, and files and names stay.
LEMMA ThreadGoesOn ==
    ASSUME IInv, NEW t \in Thread, NEW s \in Serving,
           serving' = [serving EXCEPT ![t] = s],
           UNCHANGED <<file, drawn, stored>>,
           \A r \in Rec : Exists(r)' => Exists(r),
           s.op \in {"upload", "play", "reanalyze"} => s.rec \in drawn,
           s.op = "upload" => s.segment \in stored /\ s.at \notin {"save", "row"},
           s.at = "unlink" =>
              \A r \in s.todo :
                 /\ r \in drawn /\ ~Exists(r)'
                 /\ Exists(r) \/ (serving[t].at = "unlink" /\ r \in serving[t].todo)
    PROVE  RowsInv' /\ ThreadsInv'
<1>1. /\ serving'[t] = s
      /\ \A u \in Thread \ {t} : serving'[u] = serving[u]
  BY DEF IInv, TypeOK
<1>2. RowsInv'
  BY DEF IInv, RowsInv
<1>3. \A u \in Thread : Uploading(u)' => u # t /\ Uploading(u) /\ serving'[u] = serving[u]
  BY <1>1 DEF Uploading
<1>4. Apart'
  BY <1>1, <1>3 DEF IInv, ThreadsInv, Apart
<1>5. \A u \in Thread : Uploading(u) => ~Exists(serving[u].rec) /\ serving[u].rec \in drawn
  BY DEF IInv, ThreadsInv, Uploads, Names, Uploading
<1>6. drawn \subseteq Rec /\ stored \subseteq Segment
  BY DEF IInv, TypeOK
<1>7. ASSUME NEW u \in Thread PROVE Names(u)' /\ Uploads(u)' /\ Unlinks(u)'
  <2>1. Names(u) /\ Uploads(u) /\ Unlinks(u) /\ Unlinks(t)
    BY DEF IInv, ThreadsInv
  <2>2. CASE u = t
    <3>1. Names(u)' /\ Uploads(u)'
      BY <1>1, <1>6, <2>2 DEF Names, Uploads, Uploading
    <3>2. Unlinks(u)'
      BY <1>1, <1>3, <1>5, <2>1, <2>2 DEF Unlinks
    <3>3. QED
      BY <3>1, <3>2
  <2>3. CASE u # t
    <3>1. Names(u)'
      BY <1>1, <2>1, <2>3 DEF Names
    <3>2. Uploads(u)'
      BY <1>1, <1>6, <2>1, <2>3 DEF Uploads, Names, Uploading
    <3>3. Unlinks(u)'
      BY <1>1, <1>3, <1>6, <2>1, <2>3 DEF Unlinks
    <3>4. QED
      BY <3>1, <3>2, <3>3
  <2>4. QED
    BY <2>2, <2>3
<1>8. QED
  BY <1>2, <1>4, <1>7 DEF ThreadsInv

-----------------------------------------------------------------------------
(* The steps of an upload, and the unlinking of files.                     *)

\* A name is drawn that no row, file or request has had.
LEMMA UploadInv ==
    ASSUME IInv, NEW t \in Thread, Upload(t)
    PROVE  TypeOK' /\ RowsInv' /\ ThreadsInv'
<1>1. PICK n \in kept, r \in Rec \ drawn :
         /\ Ask(t, [Idle EXCEPT !.op = "upload", !.at = "save", !.rec = r,
                                !.segment = n])
         /\ drawn' = drawn \cup {r}
         /\ file' = [file EXCEPT ![r] = "part"]
         /\ UNCHANGED <<row, copies, aged, stored, workerVars, kept, restarts>>
  BY DEF Upload
<1> DEFINE s == [Idle EXCEPT !.op = "upload", !.at = "save", !.rec = r, !.segment = n]
<1>2. s \in Serving /\ s.op = "upload" /\ s.at = "save" /\ s.rec = r /\ s.segment = n
  BY IdleType DEF IInv, TypeOK, Serving, Step, Idle
<1>3. /\ serving' = [serving EXCEPT ![t] = s]
      /\ serving'[t] = s
      /\ \A u \in Thread \ {t} : serving'[u] = serving[u]
  BY <1>1 DEF Ask, IInv, TypeOK
<1>4. TypeOK'
  BY <1>1, <1>2, <1>3 DEF IInv, TypeOK, Serving, workerVars
<1>5. RowsInv'
  BY <1>1 DEF IInv, RowsInv, TypeOK, Exists
<1>6. /\ ~Exists(r)
      /\ \A u \in Thread : Uploading(u) => serving[u].rec \in drawn
  BY <1>1 DEF IInv, RowsInv, ThreadsInv, Names, Uploading
<1>7. \A u \in Thread :
         Uploading(u)' => \/ u = t /\ serving'[u].rec = r
                          \/ /\ u # t /\ Uploading(u) /\ serving[u].rec \in drawn
                             /\ serving'[u].rec = serving[u].rec
  BY <1>2, <1>3, <1>6 DEF Uploading
<1>8. Apart'
  <2>1. ASSUME NEW u \in Thread, NEW v \in Thread, Uploading(u)', Uploading(v)',
               serving'[u].rec = serving'[v].rec
        PROVE  u = v
    BY <1>7, <2>1 DEF IInv, ThreadsInv, Apart
  <2>2. QED
    BY <2>1 DEF Apart
<1>9. ASSUME NEW u \in Thread PROVE Names(u)' /\ Uploads(u)' /\ Unlinks(u)'
  <2>1. Names(u) /\ Uploads(u) /\ Unlinks(u)
    BY DEF IInv, ThreadsInv
  <2>2. CASE u = t
    BY <1>1, <1>2, <1>3, <1>6, <2>2 DEF Names, Uploads, Unlinks, Uploading, Exists, IInv, TypeOK
  <2>3. CASE u # t
    <3>1. Names(u)'
      BY <1>1, <1>3, <2>1, <2>3 DEF Names
    <3>2. Uploads(u)'
      <4>1. serving[u].op = "upload" => file'[serving[u].rec] = file[serving[u].rec]
        BY <1>1, <2>1 DEF Names, IInv, TypeOK
      <4>2. QED
        BY <1>1, <1>3, <2>1, <2>3, <4>1 DEF Uploads, Uploading, Exists
    <3>3. ASSUME serving[u].at = "unlink", NEW q \in serving[u].todo
          PROVE  /\ q \in drawn' /\ ~Exists(q)'
                 /\ \A v \in Thread : Uploading(v)' => serving'[v].rec # q
      BY <1>1, <1>7, <2>1, <3>3 DEF Unlinks, Exists
    <3>4. Unlinks(u)'
      BY <1>3, <2>3, <3>3 DEF Unlinks
    <3>5. QED
      BY <3>1, <3>2, <3>4
  <2>4. QED
    BY <2>2, <2>3
<1>10. QED
  BY <1>4, <1>5, <1>8, <1>9 DEF ThreadsInv

\* The record of a thread whose request goes on, and of one that is answered.
LEMMA GoType ==
    ASSUME TypeOK, NEW t \in Thread, NEW place \in Step, Go(t, place)
    PROVE  \E s \in Serving :
              /\ serving' = [serving EXCEPT ![t] = s]
              /\ serving'[t] = s
              /\ \A u \in Thread \ {t} : serving'[u] = serving[u]
              /\ s.op = serving[t].op /\ s.at = place /\ s.rec = serving[t].rec
              /\ s.todo = serving[t].todo /\ s.segment = serving[t].segment
<1> DEFINE s == [serving[t] EXCEPT !.at = place]
<1>1. s \in Serving
  BY DEF TypeOK, Serving
<1>2. serving' = [serving EXCEPT ![t] = s] /\ serving[t] \in Serving
  BY DEF Go, TypeOK, Serving
<1>3. /\ s.op = serving[t].op /\ s.at = place /\ s.rec = serving[t].rec
      /\ s.todo = serving[t].todo /\ s.segment = serving[t].segment
  BY <1>2 DEF Serving
<1>4. serving'[t] = s /\ \A u \in Thread \ {t} : serving'[u] = serving[u]
  BY <1>2 DEF TypeOK
<1>5. QED
  BY <1>1, <1>2, <1>3, <1>4

\* An answered thread is idle again.
LEMMA AnswerType ==
    ASSUME TypeOK, NEW t \in Thread, Answer(t)
    PROVE  /\ serving' = [serving EXCEPT ![t] = Idle]
           /\ serving'[t] = Idle
           /\ \A u \in Thread \ {t} : serving'[u] = serving[u]
BY DEF Answer, TypeOK

\* A step with one file: what another thread relies on stays.
LEMMA UploadSaveInv ==
    ASSUME IInv, NEW t \in Thread, UploadSave(t)
    PROVE  TypeOK' /\ RowsInv' /\ ThreadsInv'
<1> DEFINE r == serving[t].rec
<1>1. /\ serving[t].op = "upload" /\ serving[t].at = "save"
      /\ r \in drawn /\ r \in Rec /\ ~Exists(r)
      /\ serving[t].segment \in Segment
      /\ Uploading(t)
  BY DEF UploadSave, At, IInv, ThreadsInv, Names, Uploads, Uploading, TypeOK
<1>2. UNCHANGED <<row, copies, aged, drawn, stored, workerVars, kept, restarts>>
  BY DEF UploadSave
<1>3. PICK s \in Serving :
         /\ serving' = [serving EXCEPT ![t] = s]
         /\ serving'[t] = s
         /\ \A u \in Thread \ {t} : serving'[u] = serving[u]
         /\ \/ /\ s.op = "upload" /\ s.at = "row" /\ s.rec = r
               /\ s.segment = serving[t].segment
               /\ file' = [file EXCEPT ![r] = "final"]
            \/ s = Idle /\ file' = [file EXCEPT ![r] = "absent"]
  <2>1. CASE file' = [file EXCEPT ![r] = "final"] /\ Go(t, "row")
    BY <1>1, <2>1, GoType DEF IInv, Step
  <2>2. CASE file' = [file EXCEPT ![r] = "absent"] /\ Answer(t)
    BY <1>1, <2>2, AnswerType, IdleType DEF IInv
  <2>3. QED
    BY <2>1, <2>2 DEF UploadSave
<1>4. file' \in [Rec -> {"absent", "part", "final"}] /\ \A q \in Rec \ {r} : file'[q] = file[q]
  BY <1>1, <1>3 DEF IInv, TypeOK
<1>5. TypeOK'
  BY <1>2, <1>3, <1>4 DEF IInv, TypeOK, Serving, workerVars
<1>6. RowsInv'
  BY <1>1, <1>2, <1>4 DEF IInv, RowsInv, Exists
<1>7. \A u \in Thread : Uploading(u)' => Uploading(u) /\ serving'[u].rec = serving[u].rec
  BY <1>1, <1>3 DEF Uploading, Idle
<1>8. Apart'
  BY <1>7 DEF IInv, ThreadsInv, Apart
<1>9. ASSUME NEW u \in Thread PROVE Names(u)' /\ Uploads(u)' /\ Unlinks(u)'
  <2>1. Names(u) /\ Uploads(u) /\ Unlinks(u)
    BY DEF IInv, ThreadsInv
  <2>2. CASE u = t
    <3>1. Names(u)' /\ Uploads(u)'
      BY <1>1, <1>2, <1>3, <2>2 DEF Names, Uploads, Uploading, Exists, IInv, TypeOK, Idle
    <3>2. Unlinks(u)'
      BY <1>3, <2>2 DEF Unlinks, Idle
    <3>3. QED
      BY <3>1, <3>2
  <2>3. CASE u # t
    <3>1. Names(u)'
      BY <1>2, <1>3, <2>1, <2>3 DEF Names
    <3>2. Uploads(u)'
      <4>1. Uploading(u) => serving[u].rec # r
        BY <1>1, <2>3 DEF IInv, ThreadsInv, Apart
      <4>2. serving[u].op = "upload" => serving[u].rec \in Rec
        BY <2>1 DEF Names, IInv, TypeOK
      <4>3. QED
        BY <1>2, <1>3, <1>4, <2>1, <2>3, <4>1, <4>2 DEF Uploads, Uploading, Exists
    <3>3. Unlinks(u)'
      BY <1>2, <1>3, <1>7, <2>1, <2>3 DEF Unlinks, Exists
    <3>4. QED
      BY <3>1, <3>2, <3>3
  <2>4. QED
    BY <2>2, <2>3
<1>10. QED
  BY <1>5, <1>6, <1>8, <1>9 DEF ThreadsInv

\* The row appears once its file is there, and nobody is about to unlink it.
LEMMA UploadRowInv ==
    ASSUME IInv, NEW t \in Thread, UploadRow(t)
    PROVE  TypeOK' /\ RowsInv' /\ ThreadsInv'
<1> DEFINE r == serving[t].rec
<1>1. /\ serving[t].op = "upload" /\ serving[t].at = "row"
      /\ r \in drawn /\ r \in Rec /\ ~Exists(r) /\ file[r] = "final"
      /\ serving[t].segment \in Segment
      /\ Uploading(t)
  BY DEF UploadRow, At, IInv, ThreadsInv, Names, Uploads, Uploading, TypeOK
<1>2. UNCHANGED <<file, copies, aged, drawn, workerVars, kept, restarts>>
  BY DEF UploadRow
<1>3. CASE /\ UNCHANGED <<row, stored>> /\ Answer(t)
  <2>1. serving' = [serving EXCEPT ![t] = Idle]
    BY <1>3, AnswerType DEF IInv
  <2>2. TypeOK'
    BY <1>2, <1>3, <2>1, IdleType DEF IInv, TypeOK, Serving, workerVars
  <2>3. RowsInv' /\ ThreadsInv'
    BY <1>2, <1>3, <2>1, IdleType, ThreadGoesOn DEF Idle, Exists
  <2>4. QED
    BY <2>2, <2>3
<1>4. CASE /\ \E audio \in BOOLEAN :
                 row' = [row EXCEPT ![r] = [segment |-> serving[t].segment,
                                            audio |-> audio, speech |-> "pending"]]
           /\ stored' = stored \cup {serving[t].segment}
           /\ Go(t, "find")
  <2>1. PICK s \in Serving :
           /\ serving' = [serving EXCEPT ![t] = s]
           /\ serving'[t] = s
           /\ \A u \in Thread \ {t} : serving'[u] = serving[u]
           /\ s.op = "upload" /\ s.at = "find" /\ s.rec = r
           /\ s.segment = serving[t].segment
    BY <1>1, <1>4, GoType DEF IInv, Step
  <2>2. /\ row' \in [Rec -> Row \cup {Nobody}]
        /\ \A q \in Rec \ {r} : row'[q] = row[q]
    BY <1>1, <1>4 DEF IInv, TypeOK, Row, Status
  <2>3. TypeOK'
    BY <1>1, <1>2, <1>4, <2>1, <2>2 DEF IInv, TypeOK, Serving, workerVars
  <2>4. RowsInv'
    BY <1>1, <1>2, <2>2 DEF IInv, RowsInv, Exists
  <2>5. \A u \in Thread : Uploading(u)' => /\ u # t /\ Uploading(u)
                                           /\ serving'[u] = serving[u]
                                           /\ serving[u].rec # r
    BY <1>1, <2>1 DEF Uploading, IInv, ThreadsInv, Apart
  <2>6. Apart'
    BY <2>5 DEF IInv, ThreadsInv, Apart
  <2>7. ASSUME NEW u \in Thread PROVE Names(u)' /\ Uploads(u)' /\ Unlinks(u)'
    <3>1. Names(u) /\ Uploads(u) /\ Unlinks(u)
      BY DEF IInv, ThreadsInv
    <3>2. CASE u = t
      BY <1>1, <1>2, <1>4, <2>1, <3>2 DEF Names, Uploads, Unlinks, Uploading
    <3>3. CASE u # t
      <4>1. Names(u)'
        BY <1>2, <2>1, <3>1, <3>3 DEF Names
      <4>2. serving[u].op = "upload" => serving[u].rec \in Rec
        BY <3>1 DEF Names, IInv, TypeOK
      <4>3. Uploads(u)'
        BY <1>2, <1>4, <2>1, <2>2, <2>5, <3>1, <3>3, <4>2 DEF Uploads, Uploading, Exists
      <4>4. ASSUME serving[u].at = "unlink", NEW q \in serving[u].todo
            PROVE  /\ q \in drawn' /\ ~Exists(q)'
                   /\ \A v \in Thread : Uploading(v)' => serving'[v].rec # q
        <5>1. q \in drawn /\ q # r /\ q \in Rec /\ ~Exists(q)
          BY <1>1, <3>1, <4>4 DEF Unlinks, IInv, TypeOK
        <5>2. QED
          BY <1>2, <2>2, <2>5, <3>1, <4>4, <5>1 DEF Unlinks, Exists
      <4>5. Unlinks(u)'
        BY <2>1, <3>3, <4>4 DEF Unlinks
      <4>6. QED
        BY <4>1, <4>3, <4>5
    <3>4. QED
      BY <3>2, <3>3
  <2>8. QED
    BY <2>3, <2>4, <2>6, <2>7 DEF ThreadsInv
<1>5. QED
  BY <1>3, <1>4 DEF UploadRow

\* Files go whose rows are gone.
LEMMA UnlinkInv ==
    ASSUME IInv, NEW t \in Thread, Unlink(t)
    PROVE  TypeOK' /\ RowsInv' /\ ThreadsInv'
<1>1. PICK r \in serving[t].todo :
         /\ file' = [file EXCEPT ![r] = "absent"]
         /\ copies' = copies \ {r}
         /\ serving' = [serving EXCEPT ![t].todo = @ \ {r}]
  BY DEF Unlink
<1>2. /\ serving[t].at = "unlink"
      /\ UNCHANGED <<row, aged, drawn, stored, workerVars, kept, restarts>>
  BY DEF Unlink
<1>3. /\ serving[t] \in Serving /\ r \in Rec /\ r \in drawn /\ ~Exists(r)
      /\ \A u \in Thread : Uploading(u) => serving[u].rec # r
  BY <1>2 DEF IInv, ThreadsInv, Unlinks, TypeOK, Serving
<1> DEFINE s == [serving[t] EXCEPT !.todo = @ \ {r}]
<1>4. /\ s \in Serving /\ s.op = serving[t].op /\ s.at = "unlink"
      /\ s.rec = serving[t].rec /\ s.segment = serving[t].segment
      /\ s.todo = serving[t].todo \ {r}
  BY <1>2, <1>3 DEF Serving
<1>5. /\ serving' = [serving EXCEPT ![t] = s]
      /\ serving'[t] = s
      /\ \A u \in Thread \ {t} : serving'[u] = serving[u]
  BY <1>1 DEF IInv, TypeOK
<1>6. file' \in [Rec -> {"absent", "part", "final"}] /\ \A q \in Rec \ {r} : file'[q] = file[q]
  BY <1>1, <1>3 DEF IInv, TypeOK
<1>7. TypeOK'
  BY <1>1, <1>2, <1>4, <1>5, <1>6 DEF IInv, TypeOK, Serving, workerVars
<1>8. RowsInv'
  BY <1>2, <1>3, <1>6 DEF IInv, RowsInv, Exists
<1>9. \A u \in Thread : Uploading(u)' => u # t /\ Uploading(u) /\ serving'[u] = serving[u]
  BY <1>4, <1>5 DEF Uploading
<1>10. Apart'
  BY <1>9 DEF IInv, ThreadsInv, Apart
<1>11. ASSUME NEW u \in Thread PROVE Names(u)' /\ Uploads(u)' /\ Unlinks(u)'
  <2>1. Names(u) /\ Uploads(u) /\ Unlinks(u)
    BY DEF IInv, ThreadsInv
  <2>2. Names(u)'
    BY <1>2, <1>4, <1>5, <2>1 DEF Names
  <2>3. Uploads(u)'
    <3>1. serving[u].op = "upload" => serving[u].rec \in Rec
      BY <2>1 DEF Names, IInv, TypeOK
    <3>2. CASE u = t
      BY <1>2, <1>4, <1>5, <2>1, <3>2 DEF Uploads, Uploading
    <3>3. CASE u # t
      BY <1>2, <1>3, <1>5, <1>6, <2>1, <3>1, <3>3 DEF Uploads, Uploading, Exists
    <3>4. QED
      BY <3>2, <3>3
  <2>4. serving'[u].at = serving[u].at /\ serving'[u].todo \subseteq serving[u].todo
    BY <1>2, <1>4, <1>5
  <2>5. Unlinks(u)'
    BY <1>2, <1>9, <2>1, <2>4 DEF Unlinks, Exists
  <2>6. QED
    BY <2>2, <2>3, <2>5
<1>12. QED
  BY <1>7, <1>8, <1>10, <1>11 DEF ThreadsInv

-----------------------------------------------------------------------------
(* The other steps: a request goes on, rows fade, the worker works.        *)

\* A request that begins.
LEMMA AskInv ==
    ASSUME IInv, NEW t \in Thread, NEW s \in Serving, Ask(t, s),
           UNCHANGED <<file, drawn, stored>>,
           \A r \in Rec : Exists(r)' => Exists(r),
           s.op \in {"play", "reanalyze"} => s.rec \in drawn,
           s.op # "upload",
           s.at = "unlink" =>
              \A r \in s.todo : r \in drawn /\ ~Exists(r)' /\ Exists(r)
    PROVE  /\ RowsInv' /\ ThreadsInv'
           /\ serving' \in [Thread -> Serving]
<1>1. serving' = [serving EXCEPT ![t] = s]
  BY DEF Ask
<1>2. RowsInv' /\ ThreadsInv'
  BY <1>1, ThreadGoesOn
<1>3. QED
  BY <1>1, <1>2, ThreadType DEF IInv

\* A request that goes on after its row was stored, or that stores none.
LEMMA GoInv ==
    ASSUME IInv, NEW t \in Thread, NEW place \in Step \ {"save", "row", "unlink"}, Go(t, place),
           ~Uploading(t),
           UNCHANGED <<file, drawn, stored>>,
           \A r \in Rec : Exists(r)' => Exists(r)
    PROVE  /\ RowsInv' /\ ThreadsInv'
           /\ serving' \in [Thread -> Serving]
<1>1. PICK s \in Serving :
         /\ serving' = [serving EXCEPT ![t] = s]
         /\ s.op = serving[t].op /\ s.at = place /\ s.rec = serving[t].rec
         /\ s.segment = serving[t].segment
  BY GoType DEF IInv
<1>2. Names(t) /\ Uploads(t)
  BY DEF IInv, ThreadsInv
<1>3. RowsInv' /\ ThreadsInv'
  BY <1>1, <1>2, ThreadGoesOn DEF Names, Uploads
<1>4. QED
  BY <1>1, <1>3, ThreadType DEF IInv

\* A request ends.
LEMMA AnswerInv ==
    ASSUME IInv, NEW t \in Thread, Answer(t),
           UNCHANGED <<file, drawn, stored>>,
           \A r \in Rec : Exists(r)' => Exists(r)
    PROVE  /\ RowsInv' /\ ThreadsInv'
           /\ serving' \in [Thread -> Serving]
<1>1. serving' = [serving EXCEPT ![t] = Idle]
  BY AnswerType DEF IInv
<1>2. RowsInv' /\ ThreadsInv'
  BY <1>1, IdleType, ThreadGoesOn DEF Idle
<1>3. QED
  BY <1>1, <1>2, IdleType, ThreadType DEF IInv

\* The queue has recordings.
LEMMA EnqueueType ==
    ASSUME TypeOK, NEW r \in Rec, NEW wanted \in BOOLEAN, Enqueue(r, wanted)
    PROVE  queue' \in Seq(Rec) /\ UNCHANGED <<worker, ffmpeg>>
BY DEF Enqueue, TypeOK

\* The requests of a thread that change neither rows nor files.
Reads(t) == \/ Schedule(t) \/ List(t) \/ Unlinked(t) \/ ListRows(t)
            \/ ScheduleListed(t) \/ Play(t) \/ PlayFind(t) \/ Convert(t)
            \/ Reanalyze(t) \/ ReanalyzeCheck(t)

\* The steps that change no row.
LEMMA ReadsInv ==
    ASSUME IInv, NEW t \in Thread, Reads(t)
    PROVE  /\ RowsInv' /\ ThreadsInv'
           /\ serving' \in [Thread -> Serving]
           /\ queue' \in Seq(Rec) /\ copies' \subseteq Rec /\ kept' \subseteq kept
           /\ UNCHANGED <<row, file, aged, drawn, stored, worker, ffmpeg, restarts>>
<1>1. /\ serving[t] \in Serving
      /\ Names(t) /\ Uploads(t)
      /\ drawn \subseteq Rec /\ queue \in Seq(Rec) /\ copies \subseteq Rec
  BY ThreadType DEF IInv, ThreadsInv, TypeOK
<1>2. UNCHANGED <<row, file, drawn, stored>> => \A r \in Rec : Exists(r)' => Exists(r)
  BY DEF Exists
<1>3. CASE Schedule(t)
  <2>1. ~Uploading(t) /\ serving[t].rec \in Rec
    BY <1>1, <1>3 DEF Schedule, Uploading, Names
  <2>2. UNCHANGED <<diskVars, kept, restarts>>
    BY <1>3 DEF Schedule
  <2>3. queue' \in Seq(Rec) /\ UNCHANGED <<worker, ffmpeg>>
    <3>1. (Exists(serving[t].rec) /\ Schedules(row[serving[t].rec].speech)) \in BOOLEAN
      BY DEF Exists, Schedules
    <3>2. QED
      BY <1>3, <2>1, <3>1, EnqueueType DEF Schedule, IInv
  <2>4. CASE Go(t, "prune")
    BY <1>2, <2>1, <2>2, <2>3, <2>4, GoInv DEF Step, diskVars, IInv, TypeOK
  <2>5. CASE Answer(t)
    BY <1>2, <2>2, <2>3, <2>5, AnswerInv DEF diskVars, IInv, TypeOK
  <2>6. QED
    BY <1>3, <2>4, <2>5 DEF Schedule
<1>4. CASE List(t)
  <2> DEFINE s == [Idle EXCEPT !.op = "list", !.at = "prune"]
  <2>1. s \in Serving /\ s.op = "list" /\ s.at = "prune"
    BY IdleType DEF Idle, Serving, Step
  <2>2. QED
    BY <1>1, <1>2, <1>4, <2>1, AskInv DEF List, diskVars, workerVars
<1>5. CASE Unlinked(t)
  <2>1. UNCHANGED <<diskVars, workerVars, restarts>> /\ kept' \subseteq kept
        /\ serving[t].at = "unlink"
    BY <1>5 DEF Unlinked
  <2>2. CASE Go(t, "list")
    BY <1>1, <1>2, <2>1, <2>2, GoInv DEF Step, diskVars, workerVars, Uploading
  <2>3. CASE Answer(t)
    BY <1>1, <1>2, <2>1, <2>3, AnswerInv DEF diskVars, workerVars
  <2>4. QED
    BY <1>5, <2>2, <2>3 DEF Unlinked
<1>6. CASE ListRows(t)
  <2> DEFINE due == {r \in Rec : Exists(r) /\ Schedules(row[r].speech)}
             s == [serving[t] EXCEPT !.at = "schedule", !.todo = due]
  <2>1. s \in Serving /\ s.op = "list" /\ s.at = "schedule"
    BY <1>1, <1>6 DEF ListRows, At, Serving, Step
  <2>2. serving' = [serving EXCEPT ![t] = s]
    BY <1>6 DEF ListRows, IInv, TypeOK
  <2>3. UNCHANGED <<diskVars, workerVars, kept, restarts>>
    BY <1>6 DEF ListRows
  <2>4. RowsInv' /\ ThreadsInv'
    BY <1>2, <2>1, <2>2, <2>3, ThreadGoesOn DEF diskVars
  <2>5. QED
    BY <1>1, <2>1, <2>2, <2>3, <2>4, ThreadType DEF diskVars, workerVars, IInv
<1>7. CASE ScheduleListed(t)
  <2>1. /\ UNCHANGED <<diskVars, kept, restarts>>
        /\ serving[t].op = "list" /\ serving[t].at = "schedule"
    BY <1>7 DEF ScheduleListed, At
  <2>2. CASE serving[t].todo = {} /\ Answer(t) /\ UNCHANGED workerVars
    BY <1>1, <1>2, <2>1, <2>2, AnswerInv DEF diskVars, workerVars
  <2>3. ASSUME NEW r \in serving[t].todo, Enqueue(r, TRUE),
               serving' = [serving EXCEPT ![t].todo = @ \ {r}]
        PROVE  /\ RowsInv' /\ ThreadsInv'
               /\ serving' \in [Thread -> Serving]
               /\ queue' \in Seq(Rec) /\ UNCHANGED <<worker, ffmpeg>>
    <3> DEFINE s == [serving[t] EXCEPT !.todo = @ \ {r}]
    <3>1. s \in Serving /\ s.op = "list" /\ s.at = "schedule" /\ r \in Rec
      BY <1>1, <2>1 DEF Serving
    <3>2. serving' = [serving EXCEPT ![t] = s]
      BY <2>3 DEF IInv, TypeOK
    <3>3. RowsInv' /\ ThreadsInv'
      BY <1>2, <2>1, <3>1, <3>2, ThreadGoesOn DEF diskVars
    <3>4. QED
      BY <2>3, <3>1, <3>2, <3>3, ThreadType, EnqueueType DEF IInv
  <2>4. QED
    BY <1>1, <1>7, <2>1, <2>2, <2>3 DEF ScheduleListed, diskVars
<1>8. CASE Play(t)
  <2>1. PICK r \in drawn : Ask(t, [Idle EXCEPT !.op = "play", !.at = "play", !.rec = r])
    BY <1>8 DEF Play
  <2> DEFINE s == [Idle EXCEPT !.op = "play", !.at = "play", !.rec = r]
  <2>2. s \in Serving /\ s.op = "play" /\ s.at = "play" /\ s.rec = r
    BY <1>1, IdleType DEF Idle, Serving, Step
  <2>3. QED
    BY <1>1, <1>2, <1>8, <2>1, <2>2, AskInv DEF Play, diskVars, workerVars
<1>9. CASE PlayFind(t)
  <2>1. UNCHANGED <<diskVars, workerVars, kept, restarts>> /\ ~Uploading(t)
    BY <1>9 DEF PlayFind, At, Uploading
  <2>2. CASE Go(t, "convert")
    BY <1>1, <1>2, <2>1, <2>2, GoInv DEF Step, diskVars, workerVars
  <2>3. CASE Answer(t)
    BY <1>1, <1>2, <2>1, <2>3, AnswerInv DEF diskVars, workerVars
  <2>4. QED
    BY <1>9, <2>2, <2>3 DEF PlayFind
<1>10. CASE Convert(t)
  <2>1. /\ UNCHANGED <<row, file, aged, drawn, stored, workerVars, kept, restarts>>
        /\ Answer(t) /\ copies' \in {copies, copies \cup {serving[t].rec}}
        /\ serving[t].rec \in Rec
    BY <1>1, <1>10 DEF Convert, At, Names
  <2>2. QED
    BY <1>1, <1>2, <2>1, AnswerInv DEF workerVars
<1>11. CASE Reanalyze(t)
  <2>1. PICK r \in drawn : Ask(t, [Idle EXCEPT !.op = "reanalyze", !.at = "check", !.rec = r])
    BY <1>11 DEF Reanalyze
  <2> DEFINE s == [Idle EXCEPT !.op = "reanalyze", !.at = "check", !.rec = r]
  <2>2. s \in Serving /\ s.op = "reanalyze" /\ s.at = "check" /\ s.rec = r
    BY <1>1, IdleType DEF Idle, Serving, Step
  <2>3. QED
    BY <1>1, <1>2, <1>11, <2>1, <2>2, AskInv DEF Reanalyze, diskVars, workerVars
<1>12. CASE ReanalyzeCheck(t)
  <2>1. UNCHANGED <<diskVars, workerVars, kept, restarts>> /\ ~Uploading(t)
    BY <1>12 DEF ReanalyzeCheck, At, Uploading
  <2>2. CASE Go(t, "reset")
    BY <1>1, <1>2, <2>1, <2>2, GoInv DEF Step, diskVars, workerVars
  <2>3. CASE Answer(t)
    BY <1>1, <1>2, <2>1, <2>3, AnswerInv DEF diskVars, workerVars
  <2>4. QED
    BY <1>12, <2>2, <2>3 DEF ReanalyzeCheck
<1>13. QED
  BY <1>3, <1>4, <1>5, <1>6, <1>7, <1>8, <1>9, <1>10, <1>11, <1>12 DEF Reads

\* A status is written where there is a row still.
LEMMA SetSpeechType ==
    ASSUME TypeOK, NEW r \in Rec, NEW status \in Status, SetSpeech(r, status)
    PROVE  /\ row' \in [Rec -> Row \cup {Nobody}]
           /\ \A q \in Rec : Exists(q)' => Exists(q)
           /\ \A q \in Rec \ {r} : row'[q] = row[q]
           /\ Exists(r) => row'[r].speech = status
<1>1. row \in [Rec -> Row \cup {Nobody}]
  BY DEF TypeOK
<1>2. CASE ~Exists(r)
  BY <1>1, <1>2 DEF SetSpeech, Exists
<1>3. CASE Exists(r)
  <2>1. row[r] \in Row
    BY <1>1, <1>3 DEF Exists
  <2>2. row' = [row EXCEPT ![r] = [row[r] EXCEPT !.speech = status]]
    BY <1>1, <1>3 DEF SetSpeech
  <2>3. [row[r] EXCEPT !.speech = status] \in Row
        /\ [row[r] EXCEPT !.speech = status].speech = status
    BY <2>1 DEF Row
  <2>4. QED
    BY <1>1, <1>3, <2>2, <2>3 DEF Exists
<1>4. QED
  BY <1>2, <1>3

\* The requests of a thread in which rows fade.
Fades(t) == PruneRows(t) \/ Delete(t) \/ ReanalyzeReset(t)

\* The steps that delete rows or change what they say of the speech.
LEMMA FadesInv ==
    ASSUME IInv, NEW t \in Thread, Fades(t)
    PROVE  TypeOK' /\ RowsInv' /\ ThreadsInv'
<1>1. /\ serving[t] \in Serving
      /\ Names(t) /\ Uploads(t)
      /\ drawn \subseteq Rec /\ row \in [Rec -> Row \cup {Nobody}]
  BY ThreadType DEF IInv, ThreadsInv, TypeOK
<1>2. /\ UNCHANGED <<file, copies, aged, drawn, stored, workerVars, kept, restarts>>
      /\ row' \in [Rec -> Row \cup {Nobody}]
      /\ \A r \in Rec : Exists(r)' => Exists(r)
      /\ RowsInv' /\ ThreadsInv' /\ serving' \in [Thread -> Serving]
  <2>1. CASE PruneRows(t)
    <3> DEFINE expired == {r \in aged : Exists(r)}
               s == [serving[t] EXCEPT !.at = "unlink", !.todo = expired]
    <3>1. /\ UNCHANGED <<file, copies, aged, drawn, stored, workerVars, kept, restarts>>
          /\ serving[t].at = "prune"
          /\ row' = [r \in Rec |-> IF r \in expired THEN Nobody ELSE row[r]]
          /\ serving' = [serving EXCEPT ![t].at = "unlink", ![t].todo = expired]
      BY <2>1 DEF PruneRows
    <3>2. expired \subseteq Rec
      BY DEF IInv, TypeOK
    <3>3. /\ s \in Serving /\ s.op = serving[t].op /\ s.at = "unlink"
          /\ s.rec = serving[t].rec /\ s.segment = serving[t].segment
          /\ s.todo = expired
      BY <1>1, <3>2 DEF Serving, Step
    <3>4. serving' = [serving EXCEPT ![t] = s]
      BY <3>1 DEF IInv, TypeOK
    <3>5. /\ row' \in [Rec -> Row \cup {Nobody}]
          /\ \A r \in Rec : Exists(r)' => Exists(r)
          /\ \A r \in expired : r \in drawn /\ ~Exists(r)' /\ Exists(r)
      BY <1>1, <3>1, <3>2 DEF Exists, IInv, RowsInv
    <3>6. s.op = "upload" => s.segment \in stored /\ s.at \notin {"save", "row"}
      BY <1>1, <3>1, <3>3 DEF Uploads, Uploading
    <3>7. s.op \in {"upload", "play", "reanalyze"} => s.rec \in drawn
      BY <1>1, <3>3 DEF Names
    <3>8. RowsInv' /\ ThreadsInv'
      <4>1. ASSUME NEW r \in s.todo
            PROVE  r \in drawn /\ ~Exists(r)' /\ Exists(r)
        BY <3>3, <3>5
      <4>2. QED
        BY <3>1, <3>3, <3>4, <3>5, <3>6, <3>7, <4>1, ThreadGoesOn
    <3>9. serving' \in [Thread -> Serving]
      BY <3>3, <3>4, ThreadType DEF IInv
    <3>10. QED
      BY <3>1, <3>5, <3>8, <3>9
  <2>2. CASE Delete(t)
    <3>1. PICK r \in drawn :
             /\ Exists(r)
             /\ row' = [row EXCEPT ![r] = Nobody]
             /\ Ask(t, [Idle EXCEPT !.op = "delete", !.at = "unlink", !.todo = {r}])
             /\ UNCHANGED <<file, copies, aged, drawn, stored, workerVars, kept, restarts>>
      BY <2>2 DEF Delete
    <3> DEFINE s == [Idle EXCEPT !.op = "delete", !.at = "unlink", !.todo = {r}]
    <3>2. s \in Serving /\ s.op = "delete" /\ s.at = "unlink" /\ s.todo = {r}
      BY <1>1, IdleType DEF Idle, Serving, Step
    <3>3. /\ row' \in [Rec -> Row \cup {Nobody}]
          /\ \A q \in Rec : Exists(q)' => Exists(q)
          /\ ~Exists(r)'
      BY <1>1, <3>1 DEF Exists
    <3>4. \A q \in s.todo : q \in drawn /\ ~Exists(q)' /\ Exists(q)
      BY <3>1, <3>2, <3>3
    <3>5. RowsInv' /\ ThreadsInv' /\ serving' \in [Thread -> Serving]
      <4>1. /\ s.op \in {"play", "reanalyze"} => s.rec \in drawn
            /\ s.op # "upload"
        BY <3>2
      <4> HIDE DEF s
      <4>2. QED
        BY <3>1, <3>2, <3>3, <3>4, <4>1, AskInv DEF s
    <3>6. QED
      BY <3>1, <3>3, <3>5
  <2>3. CASE ReanalyzeReset(t)
    <3>1. /\ serving[t].op = "reanalyze" /\ serving[t].rec \in Rec /\ ~Uploading(t)
          /\ SetSpeech(serving[t].rec, "pending")
          /\ Go(t, "find")
          /\ UNCHANGED <<file, copies, aged, drawn, stored, workerVars, kept, restarts>>
      BY <1>1, <2>3 DEF ReanalyzeReset, At, Names, Uploading
    <3>2. /\ row' \in [Rec -> Row \cup {Nobody}]
          /\ \A r \in Rec : Exists(r)' => Exists(r)
      BY <3>1, SetSpeechType DEF Status, IInv
    <3>3. QED
      BY <3>1, <3>2, GoInv DEF Step
  <2>4. QED
    BY <2>1, <2>2, <2>3 DEF Fades
<1>3. QED
  BY <1>2 DEF IInv, TypeOK, Serving, workerVars

-----------------------------------------------------------------------------
(* The worker, and the segments.                                           *)

\* Requests change no status to "processing" and leave the worker alone.
LEMMA WorkerAlone ==
    ASSUME IInv, UNCHANGED worker,
           \A r \in Rec : Exists(r)' /\ row'[r].speech = "processing" =>
                             Exists(r) /\ row[r].speech = "processing"
    PROVE  WorkerInv'
BY DEF IInv, WorkerInv, ProcessingIsWorked

\* A request does not touch what the worker has.
LEMMA RequestWorker ==
    ASSUME IInv, NEW t \in Thread,
           Upload(t) \/ UploadSave(t) \/ UploadRow(t) \/ Unlink(t) \/ Reads(t) \/ Fades(t)
    PROVE  WorkerInv'
<1>1. /\ serving[t] \in Serving /\ Names(t) /\ drawn \subseteq Rec
      /\ row \in [Rec -> Row \cup {Nobody}]
  BY ThreadType DEF IInv, ThreadsInv, TypeOK
<1>2. CASE Upload(t) \/ UploadSave(t) \/ Unlink(t)
  <2>1. UNCHANGED <<row, worker>>
    BY <1>2 DEF Upload, UploadSave, Unlink, workerVars
  <2>2. QED
    BY <2>1, WorkerAlone DEF Exists
<1>3. CASE Reads(t)
  BY <1>3, ReadsInv, WorkerAlone DEF Exists
<1>4. CASE UploadRow(t)
  <2>1. UNCHANGED worker /\ serving[t].rec \in Rec
    BY <1>1, <1>4 DEF UploadRow, At, Names, workerVars
  <2>2. \A r \in Rec : row'[r] = row[r] \/ row'[r].speech = "pending"
    <3>1. CASE UNCHANGED row
      BY <3>1
    <3>2. ASSUME NEW audio \in BOOLEAN,
                 row' = [row EXCEPT ![serving[t].rec] =
                            [segment |-> serving[t].segment, audio |-> audio,
                             speech |-> "pending"]]
          PROVE  \A r \in Rec : row'[r] = row[r] \/ row'[r].speech = "pending"
      BY <1>1, <3>2
    <3>3. QED
      BY <1>4, <3>1, <3>2 DEF UploadRow
  <2>3. QED
    BY <2>1, <2>2, WorkerAlone DEF Exists
<1>5. CASE Fades(t)
  <2>1. UNCHANGED worker
    BY <1>5 DEF Fades, PruneRows, Delete, ReanalyzeReset, workerVars
  <2>2. CASE PruneRows(t) \/ Delete(t)
    <3>1. \A r \in Rec : row'[r] \in {row[r], Nobody}
      BY <1>1, <2>2 DEF PruneRows, Delete
    <3>2. QED
      BY <2>1, <3>1, WorkerAlone DEF Exists
  <2>3. CASE ReanalyzeReset(t)
    <3>1. serving[t].rec \in Rec /\ SetSpeech(serving[t].rec, "pending")
      BY <1>1, <2>3 DEF ReanalyzeReset, At, Names
    <3>2. /\ \A r \in Rec : Exists(r)' => Exists(r)
          /\ \A q \in Rec \ {serving[t].rec} : row'[q] = row[q]
          /\ Exists(serving[t].rec) => row'[serving[t].rec].speech = "pending"
      BY <3>1, SetSpeechType DEF Status, IInv
    <3>3. QED
      BY <2>1, <3>2, WorkerAlone
  <2>4. QED
    BY <1>5, <2>2, <2>3 DEF Fades
<1>6. QED
  BY <1>2, <1>3, <1>4, <1>5

\* A segment leaves the device once it has had a row.
LEMMA RequestSegments ==
    ASSUME IInv, NEW t \in Thread,
           Upload(t) \/ UploadSave(t) \/ UploadRow(t) \/ Unlink(t) \/ Reads(t) \/ Fades(t)
    PROVE  SegmentsKept'
<1>1. SegmentsKept /\ Uploads(t)
  BY DEF IInv, ThreadsInv
<1>2. CASE Unlinked(t)
  <2>1. UNCHANGED stored /\ serving[t].at = "unlink"
    BY <1>2 DEF Unlinked, diskVars
  <2>2. \/ UNCHANGED kept
        \/ serving[t].op = "upload" /\ kept' = kept \ {serving[t].segment}
    BY <1>2 DEF Unlinked
  <2>3. QED
    BY <1>1, <2>1, <2>2 DEF SegmentsKept, Uploads, Uploading
<1>3. CASE ~Unlinked(t)
  <2>1. UNCHANGED kept /\ stored \subseteq stored'
    BY <1>3 DEF Upload, UploadSave, UploadRow, Unlink, Reads, Fades, Schedule, List,
                ListRows, ScheduleListed, Play, PlayFind, Convert, Reanalyze,
                ReanalyzeCheck, PruneRows, Delete, ReanalyzeReset, diskVars
  <2>2. QED
    BY <1>1, <2>1 DEF SegmentsKept
<1>4. QED
  BY <1>2, <1>3

\* The worker's own steps, and those of the world.
Others == Work \/ WorkerDies \/ (\E r \in Rec : Age(r)) \/ InstallFfmpeg
          \/ InitializeElsewhere

\* initialize_database frees what was being analysed.
LEMMA InitializedType ==
    ASSUME TypeOK
    PROVE  /\ Initialized \in [Rec -> Row \cup {Nobody}]
           /\ \A r \in Rec : /\ Initialized[r] # Nobody => Exists(r)
                             /\ Initialized[r] # Nobody => Initialized[r].speech # "processing"
<1>1. ASSUME NEW r \in Rec
      PROVE  /\ Reset(r) \in Row \cup {Nobody}
             /\ Reset(r) # Nobody => Exists(r) /\ Reset(r).speech # "processing"
  <2>1. row[r] \in Row \cup {Nobody}
    BY DEF TypeOK
  <2>2. CASE Exists(r) /\ row[r].speech = "processing"
    <3>1. row[r] \in Row /\ Reset(r) = [row[r] EXCEPT !.speech = "pending"]
      BY <2>1, <2>2 DEF Exists, Reset
    <3>2. Reset(r) \in Row /\ Reset(r).speech = "pending"
      BY <3>1 DEF Row, Status
    <3>3. QED
      BY <2>2, <3>2
  <2>3. CASE ~(Exists(r) /\ row[r].speech = "processing")
    BY <2>1, <2>3 DEF Exists, Reset
  <2>4. QED
    BY <2>2, <2>3
<1>2. QED
  BY <1>1 DEF Initialized

\* The worker, the device and time.
LEMMA OthersInv ==
    ASSUME IInv, Others
    PROVE  IInv'
<1> USE DEF diskVars, workerVars
<1>1. /\ TypeOK /\ WorkerInv
      /\ worker \in [at : {"get", "claim", "detect", "write", "dead"},
                     rec : Rec \cup {Nobody}, result : Status]
      /\ row \in [Rec -> Row \cup {Nobody}]
  BY DEF IInv, TypeOK
<1>2. UNCHANGED <<file, copies, drawn, stored, serving, kept, restarts>>
  BY DEF Others, Work, WorkerGet, WorkerClaim, WorkerDetect, WorkerWrite,
         WorkerFails, WorkerDies, Age, InstallFfmpeg, InitializeElsewhere
<1>3. /\ row' \in [Rec -> Row \cup {Nobody}]
      /\ \A r \in Rec : Exists(r)' => Exists(r)
      /\ worker' \in [at : {"get", "claim", "detect", "write", "dead"},
                      rec : Rec \cup {Nobody}, result : Status]
      /\ queue' \in Seq(Rec) /\ aged' \subseteq Rec /\ ffmpeg' \in BOOLEAN
      /\ WorkerInv'
  <2>1. CASE WorkerGet
    <3>1. /\ queue \in Seq(Rec) /\ queue # <<>>
          /\ worker' = [worker EXCEPT !.at = "claim", !.rec = Head(queue)]
          /\ queue' = Tail(queue) /\ worker.at = "get"
          /\ UNCHANGED <<row, aged, ffmpeg>>
      BY <2>1 DEF WorkerGet, IInv, TypeOK
    <3>2. Head(queue) \in Rec /\ Tail(queue) \in Seq(Rec)
      BY <3>1
    <3>3. /\ worker'.at = "claim" /\ worker'.rec = Head(queue)
          /\ worker' \in [at : {"get", "claim", "detect", "write", "dead"},
                          rec : Rec \cup {Nobody}, result : Status]
      BY <1>1, <3>1, <3>2
    <3>4. WorkerInv'
      BY <1>1, <3>1, <3>2, <3>3 DEF WorkerInv, ProcessingIsWorked, Exists
    <3>5. QED
      BY <1>1, <3>1, <3>2, <3>3, <3>4 DEF Exists, IInv, TypeOK
  <2>2. CASE WorkerClaim
    <3> DEFINE r == worker.rec
               claimed == Exists(r) /\ row[r].speech \in {"pending", "unavailable"}
    <3>1. /\ worker.at = "claim" /\ r \in Rec
          /\ row' = IF claimed THEN [row EXCEPT ![r].speech = "processing"] ELSE row
          /\ worker' = IF claimed THEN [worker EXCEPT !.at = "detect"] ELSE Resting
          /\ UNCHANGED <<queue, aged, ffmpeg>>
      BY <1>1, <2>2 DEF WorkerClaim, WorkerInv
    <3>2. CASE claimed
      <4>1. row[r] \in Row /\ [row[r] EXCEPT !.speech = "processing"] \in Row
        BY <1>1, <3>1, <3>2 DEF Exists, Row, Status
      <4>2. /\ row' \in [Rec -> Row \cup {Nobody}]
            /\ \A q \in Rec \ {r} : row'[q] = row[q]
        BY <1>1, <3>1, <3>2, <4>1
      <4>3. worker'.at = "detect" /\ worker'.rec = r
            /\ worker' \in [at : {"get", "claim", "detect", "write", "dead"},
                            rec : Rec \cup {Nobody}, result : Status]
        BY <1>1, <3>1, <3>2
      <4>4. WorkerInv'
        BY <1>1, <3>1, <4>2, <4>3 DEF WorkerInv, ProcessingIsWorked, Exists
      <4>5. QED
        BY <3>1, <3>2, <4>2, <4>3, <4>4 DEF Exists, IInv, TypeOK
    <3>3. CASE ~claimed
      BY <1>1, <3>1, <3>3 DEF Resting, Status, WorkerInv, ProcessingIsWorked, Exists,
                              IInv, TypeOK
    <3>4. QED
      BY <3>2, <3>3
  <2>3. CASE WorkerDetect
    <3>1. PICK result \in {"complete", "failed", "unavailable"} :
             worker' = [worker EXCEPT !.at = "write", !.result = result]
      BY <2>3 DEF WorkerDetect
    <3>2. worker.at = "detect" /\ UNCHANGED <<row, queue, aged, ffmpeg>>
      BY <2>3 DEF WorkerDetect
    <3>3. /\ worker'.at = "write" /\ worker'.rec = worker.rec /\ worker'.result = result
          /\ worker' \in [at : {"get", "claim", "detect", "write", "dead"},
                          rec : Rec \cup {Nobody}, result : Status]
      BY <1>1, <3>1 DEF Status
    <3>4. QED
      BY <1>1, <3>2, <3>3 DEF WorkerInv, ProcessingIsWorked, Exists, IInv, TypeOK
  <2>4. CASE WorkerWrite \/ WorkerFails
    <3>1. PICK status \in Status \ {"processing"} :
             /\ SetSpeech(worker.rec, status)
             /\ worker.at \in {"claim", "detect", "write"} /\ worker.rec \in Rec
             /\ worker' = Resting
             /\ UNCHANGED <<queue, aged, ffmpeg>>
      BY <1>1, <2>4 DEF WorkerWrite, WorkerFails, WorkerInv, Status
    <3>2. /\ row' \in [Rec -> Row \cup {Nobody}]
          /\ \A q \in Rec : Exists(q)' => Exists(q)
          /\ \A q \in Rec \ {worker.rec} : row'[q] = row[q]
          /\ Exists(worker.rec) => row'[worker.rec].speech = status
      BY <1>1, <3>1, SetSpeechType
    <3>3. \A q \in Rec : Exists(q)' => row'[q].speech # "processing"
      BY <1>1, <3>1, <3>2 DEF WorkerInv, ProcessingIsWorked, Exists
    <3>4. QED
      BY <3>1, <3>2, <3>3 DEF Resting, Status, WorkerInv, ProcessingIsWorked, IInv, TypeOK
  <2>5. CASE WorkerDies
    <3>1. /\ worker' = [worker EXCEPT !.at = "dead"]
          /\ worker.at \in {"claim", "detect", "write"}
          /\ UNCHANGED <<row, queue, aged, ffmpeg>>
      BY <2>5 DEF WorkerDies
    <3>2. /\ worker'.at = "dead" /\ worker'.rec = worker.rec
          /\ worker' \in [at : {"get", "claim", "detect", "write", "dead"},
                          rec : Rec \cup {Nobody}, result : Status]
      BY <1>1, <3>1
    <3>3. QED
      BY <1>1, <3>1, <3>2 DEF WorkerInv, ProcessingIsWorked, Exists, IInv, TypeOK
  <2>6. CASE InitializeElsewhere
    BY <1>1, <2>6, InitializedType
       DEF InitializeElsewhere, WorkerInv, ProcessingIsWorked, Exists, IInv, TypeOK
  <2>7. CASE (\E r \in Rec : Age(r)) \/ InstallFfmpeg
    <3>1. UNCHANGED <<row, worker, queue>> /\ aged' \subseteq Rec /\ ffmpeg' \in BOOLEAN
      BY <2>7 DEF Age, InstallFfmpeg, IInv, TypeOK
    <3>2. QED
      BY <1>1, <3>1 DEF WorkerInv, ProcessingIsWorked, Exists, IInv, TypeOK
  <2>8. QED
    BY <2>1, <2>2, <2>3, <2>4, <2>5, <2>6, <2>7 DEF Others, Work
<1>4. RowsInv' /\ ThreadsInv'
  BY <1>2, <1>3, RowsFade
<1>5. TypeOK' /\ SegmentsKept'
  BY <1>2, <1>3 DEF IInv, TypeOK, SegmentsKept
<1>6. QED
  BY <1>3, <1>4, <1>5 DEF IInv

\* A restart forgets the threads and the queue.
LEMMA RestartInv ==
    ASSUME IInv, Restart
    PROVE  IInv'
<1>1. /\ row' = Initialized /\ queue' = <<>> /\ worker' = Resting
      /\ serving' = [t \in Thread |-> Idle]
      /\ restarts' = restarts + 1
      /\ UNCHANGED <<file, copies, aged, drawn, stored, ffmpeg, kept>>
  BY DEF Restart
<1>2. /\ row' \in [Rec -> Row \cup {Nobody}]
      /\ \A r \in Rec : Exists(r)' => Exists(r) /\ row'[r].speech # "processing"
  BY <1>1, InitializedType DEF IInv, Exists
<1>3. TypeOK'
  BY <1>1, <1>2, IdleType DEF IInv, TypeOK, Serving, Resting, Status
<1>4. \A t \in Thread : serving'[t].op = "none" /\ serving'[t].at = "none"
  BY <1>1 DEF Idle
<1>5. RowsInv' /\ ThreadsInv'
  BY <1>1, <1>2, <1>4 DEF IInv, RowsInv, ThreadsInv, Apart, Names, Uploads, Unlinks,
                          Uploading
<1>6. WorkerInv' /\ SegmentsKept'
  BY <1>1, <1>2 DEF IInv, WorkerInv, ProcessingIsWorked, SegmentsKept, Resting
<1>7. QED
  BY <1>3, <1>5, <1>6 DEF IInv

-----------------------------------------------------------------------------
(* Every step of the server and of the device keeps the invariant.         *)
THEOREM NextIInv == IInv /\ [Next]_recordingVars => IInv'
<1> SUFFICES ASSUME IInv, [Next]_recordingVars PROVE IInv'
  OBVIOUS
<1>1. ASSUME NEW t \in Thread,
             Upload(t) \/ List(t) \/ Play(t) \/ Reanalyze(t) \/ Delete(t) \/ Serve(t)
      PROVE  IInv'
  <2>1. Upload(t) \/ UploadSave(t) \/ UploadRow(t) \/ Unlink(t) \/ Reads(t) \/ Fades(t)
    BY <1>1 DEF Serve, Reads, Fades
  <2>2. WorkerInv' /\ SegmentsKept'
    BY <2>1, RequestWorker, RequestSegments
  <2>3. TypeOK' /\ RowsInv' /\ ThreadsInv'
    <3>1. CASE Reads(t)
      <4>1. RowsInv' /\ ThreadsInv'
        BY <3>1, ReadsInv
      <4>2. TypeOK'
        BY <3>1, ReadsInv DEF IInv, TypeOK, Serving
      <4>3. QED
        BY <4>1, <4>2
    <3>2. QED
      BY <2>1, <3>1, UploadInv, UploadSaveInv, UploadRowInv, UnlinkInv, FadesInv
  <2>4. QED
    BY <2>2, <2>3 DEF IInv
<1>2. CASE Others
  BY <1>2, OthersInv
<1>3. CASE Restart
  BY <1>3, RestartInv
<1>4. CASE UNCHANGED recordingVars
  <2>1. UNCHANGED <<row, file, copies, aged, drawn, queue, worker, ffmpeg, serving,
                    kept, stored, restarts>>
    BY <1>4 DEF recordingVars
  <2>2. RowsInv' /\ ThreadsInv'
    BY <2>1, RowsFade DEF Exists
  <2>3. WorkerInv'
    BY <2>1, WorkerAlone DEF Exists
  <2>4. TypeOK' /\ SegmentsKept'
    BY <2>1 DEF IInv, TypeOK, SegmentsKept
  <2>5. QED
    BY <2>2, <2>3, <2>4 DEF IInv
<1>5. QED
  BY <1>1, <1>2, <1>3, <1>4 DEF Next, Others

(* The invariant holds of every behaviour of the recordings.               *)
THEOREM Inductive == Spec => []IInv
BY InitIInv, NextIInv, PTL DEF Spec

(* Every variable keeps its type.                                          *)
THEOREM TypeCorrect == Spec => []TypeOK
<1>1. IInv => TypeOK
  BY DEF IInv
<1>2. QED
  BY <1>1, Inductive, PTL

(* The file comes before the row and goes after it, whatever the threads   *)
(* of the server do between each other's steps.                            *)
THEOREM RowsHaveFiles == Spec => []RowHasFile
<1>1. IInv => RowHasFile
  BY DEF IInv, RowsInv, RowHasFile
<1>2. QED
  BY <1>1, Inductive, PTL

(* No row says "processing" without the worker that has it, through every  *)
(* reset, deletion, error and kill.                                        *)
THEOREM ProcessingCorrect == Spec => []ProcessingIsWorked
<1>1. IInv => ProcessingIsWorked
  BY DEF IInv, WorkerInv
<1>2. QED
  BY <1>1, Inductive, PTL

(* The device lets go of no segment that has not had a row, for any number *)
(* of uploads whose answers are lost.                                      *)
THEOREM SegmentsCorrect == Spec => []SegmentsKept
<1>1. IInv => SegmentsKept
  BY DEF IInv
<1>2. QED
  BY <1>1, Inductive, PTL

-----------------------------------------------------------------------------
(* Private messages: the inductive invariant.                              *)

\* No contact is nobody, and a limit is a number.
MessagesAssumption == Nobody \notin Contact /\ MessageLimit \in Nat

\* What a contact wrote, in a box.
From(b, c) == {m \in DOMAIN b : b[m].with = c /\ ~b[m].mine}

\* Everything that c wrote up to message n is among `seen`.
Shown(b, c, n, seen) == \A m \in From(b, c) : m <= n => m \in seen

\* An answer leaves nothing of c out between its cursor and what it has.
NoGap(b, c, after, batch) ==
    \A m \in From(b, c) : \A k \in batch : after < m /\ m <= k => m \in batch

MessagesShape ==
    /\ box \in Seq(M!Message)
    /\ page \in [selected : Contact \union {Nobody}, last : Nat, list : SUBSET Nat,
                 loading : BOOLEAN]
    /\ page.last <= Len(box) /\ page.list \subseteq 1..Len(box)
    /\ request # Nobody =>
          /\ request \in [contact : Contact, after : Nat, initial : BOOLEAN,
                          served : BOOLEAN, batch : SUBSET Nat]
          /\ request.after <= Len(box) /\ request.batch \subseteq 1..Len(box)
          /\ request.initial => request.after = 0
    /\ post # Nobody => /\ post \in [contact : Contact, id : Nat]
                        /\ post.id <= Len(box)

\* Nothing is hidden on the page, nor will be when the answer comes: what is
\* before a later request's cursor is on the page, and what is after it up to
\* the last message of the answer is in the answer.
Hidden(b, pg, rq, over) ==
    \/ pg.selected # Nobody /\ ~Shown(b, pg.selected, pg.last, pg.list \union over)
    \/ rq # Nobody /\ ~rq.initial /\ ~Shown(b, rq.contact, rq.after, pg.list \union over)
    \/ rq # Nobody /\ rq.after # 0 /\ ~NoGap(b, rq.contact, rq.after, rq.batch)

MessagesInv == MessagesShape /\ ~Hidden(box, page, request, passed)

\* The module's own name for it.
LEMMA FromIsFromContact == \A c : M!FromContact(c) = From(box, c)
BY DEF From, M!FromContact, M!Between

-----------------------------------------------------------------------------
(* What a box, a batch and a cursor are.                                   *)

(* A finite set of numbers has a greatest one.                             *)
LEMMA GreatestExists ==
  ASSUME NEW N \in SUBSET Nat, IsFiniteSet(N), N # {}
  PROVE  \E x \in N : \A y \in N : x >= y
<1> DEFINE Above(x) == {k \in N : k > x}
           T == {Above(x) : x \in N}
<1>1. T \subseteq FiniteSubsetsOf(N) /\ T # {}
  <2>1. \A x \in N : Above(x) \in SUBSET N /\ IsFiniteSet(Above(x))
    BY FS_Subset
  <2> QED BY <2>1 DEF FiniteSubsetsOf
<1>2. PICK a \in T : \A b \in T : ~(<<b, a>> \in StrictSubsetOrdering(N))
  <2> HIDE DEF T
  <2> QED BY <1>1, FS_StrictSubsetOrderingWellFounded, WFMin
<1>3. PICK x \in N : a = Above(x)
  BY <1>2
<1>4. ASSUME NEW y \in N, ~(x >= y) PROVE FALSE
  <2>1. Above(y) \in T
    OBVIOUS
  <2>2. x \in Nat /\ y \in Nat /\ y > x
    BY <1>4
  <2>3. Above(y) \subseteq Above(x) /\ y \in Above(x) /\ y \notin Above(y)
    <3>1. ASSUME NEW k \in Above(y) PROVE k \in Above(x)
      <4>1. k \in N /\ k \in Nat /\ k > y
        OBVIOUS
      <4>2. k > x
        BY <2>2, <4>1
      <4> QED BY <4>1, <4>2
    <3>2. y \in Above(x) /\ y \notin Above(y)
      BY <2>2
    <3> QED BY <3>1, <3>2
  <2>4. <<Above(y), Above(x)>> \in StrictSubsetOrdering(N)
    <3>1. Above(y) \in SUBSET N /\ Above(x) \in SUBSET N
      OBVIOUS
    <3> HIDE DEF Above
    <3> QED BY <2>3, <3>1 DEF StrictSubsetOrdering
  <2> QED BY <1>2, <1>3, <2>1, <2>4
<1> QED BY <1>4

(* The cursor after a batch: where it was, or at the last of the new ones. *)
LEMMA CursorFacts ==
  ASSUME NEW n \in Nat, NEW last \in 0..n, NEW new \in SUBSET (1..n)
  PROVE  /\ M!Max({last} \union new) \in {last} \union new
         /\ M!Max({last} \union new) \in 0..n
         /\ \A k \in new : k <= M!Max({last} \union new)
<1> DEFINE N == {last} \union new
<1>1. N \in SUBSET Nat /\ N # {} /\ N \subseteq 0..n
  OBVIOUS
<1>2. IsFiniteSet(N)
  <2>1. N \in SUBSET (0..n) /\ IsFiniteSet(0..n)
    BY <1>1, FS_Interval
  <2> HIDE DEF N
  <2> QED BY <2>1, FS_Subset
<1> HIDE DEF N
<1>3. \E x \in N : \A y \in N : x >= y
  BY <1>1, <1>2, GreatestExists
<1>4. M!Max(N) \in N /\ \A y \in N : M!Max(N) >= y
  BY <1>3 DEF M!Max
<1>5. \A y \in N : y <= M!Max(N)
  BY <1>1, <1>4
<1> QED BY <1>1, <1>4, <1>5 DEF N

\* A box that keeps its messages, who wrote them and to whom; new ones come
\* behind them.
Lengthened(b, d) ==
    /\ b \in Seq(M!Message) /\ d \in Seq(M!Message) /\ Len(b) <= Len(d)
    /\ \A m \in 1..Len(b) : d[m].with = b[m].with /\ d[m].mine = b[m].mine

\* What is early in the longer box was in the shorter one.
LEMMA KeptFrom ==
  ASSUME NEW b, NEW d, Lengthened(b, d), NEW c, NEW m \in From(d, c), NEW n \in Nat,
         n <= Len(b), m <= n
  PROVE  m \in From(b, c)
<1>1. m \in 1..Len(d) /\ m \in 1..Len(b)
  BY DEF Lengthened, From
<1> QED BY <1>1 DEF Lengthened, From

(* A box that grows hides nothing.                                         *)
LEMMA GrowthHidesNothing ==
  ASSUME NEW b, NEW d, Lengthened(b, d), NEW c
  PROVE  /\ \A n \in Nat : \A seen :
               n <= Len(b) /\ Shown(b, c, n, seen) => Shown(d, c, n, seen)
         /\ \A after \in Nat, batch \in SUBSET (1..Len(b)) :
               NoGap(b, c, after, batch) => NoGap(d, c, after, batch)
<1>1. ASSUME NEW n \in Nat, NEW seen, n <= Len(b), Shown(b, c, n, seen)
      PROVE  Shown(d, c, n, seen)
  BY <1>1, KeptFrom DEF Shown
<1>2. ASSUME NEW after \in Nat, NEW batch \in SUBSET (1..Len(b)), NoGap(b, c, after, batch)
      PROVE  NoGap(d, c, after, batch)
  <2> SUFFICES ASSUME NEW m \in From(d, c), NEW k \in batch, after < m /\ m <= k
               PROVE  m \in batch
    BY DEF NoGap
  <2>1. k \in Nat /\ k <= Len(b)
    BY DEF Lengthened
  <2>2. m \in From(b, c)
    BY <2>1, KeptFrom
  <2> QED BY <1>2, <2>2 DEF NoGap
<1> QED BY <1>1, <1>2

(* The module counts as the library does.                                  *)
LEMMA SameCount == \A N : M!Cardinality(N) = Cardinality(N)
BY DEF M!Cardinality, Cardinality

(* A later page of a conversation has no gap.                              *)
LEMMA BatchFacts ==
  ASSUME MessagesAssumption, box \in Seq(M!Message), NEW c, NEW after \in Nat
  PROVE  /\ M!Batch(c, after) \subseteq 1..Len(box)
         /\ after # 0 => NoGap(box, c, after, M!Batch(c, after))
<1>1. M!Between(c) \subseteq 1..Len(box)
  BY DEF M!Between
<1>2. M!Batch(c, after) \subseteq 1..Len(box)
  BY <1>1 DEF M!Batch, M!Newest, M!First
<1>3. ASSUME after # 0, NEW m \in From(box, c), NEW k \in M!Batch(c, after),
             after < m, m <= k
      PROVE  m \in M!Batch(c, after)
  <2> DEFINE N == {i \in M!Between(c) : i > after}
             Under(i) == {j \in N : j < i}
  <2>1. N \subseteq 1..Len(box) /\ M!Batch(c, after) = M!First(N, MessageLimit)
    BY <1>1, <1>3 DEF M!Batch
  <2>2. m \in N
    BY <1>3 DEF From, M!Between
  <2>3. k \in N /\ Cardinality(Under(k)) < MessageLimit
    <3>1. M!First(N, MessageLimit) = {i \in N : Cardinality(Under(i)) < MessageLimit}
      BY SameCount DEF M!First
    <3> HIDE DEF N, Under
    <3> QED BY <1>3, <2>1, <3>1
  <2>4. Under(m) \subseteq Under(k)
    <3> SUFFICES ASSUME NEW j \in Under(m) PROVE j \in Under(k)
      OBVIOUS
    <3>1. j \in N /\ j \in Nat /\ j < m /\ m \in Nat /\ k \in Nat
      BY <2>1, <2>2, <2>3
    <3>2. j < k
      BY <1>3, <3>1
    <3> QED BY <3>1, <3>2
  <2>5. IsFiniteSet(Under(k))
    <3>1. Under(k) \in SUBSET (1..Len(box)) /\ Len(box) \in Int /\ 1 \in Int
      BY <2>1
    <3>2. IsFiniteSet(1..Len(box))
      BY <3>1, FS_Interval
    <3> HIDE DEF Under
    <3> QED BY <3>1, <3>2, FS_Subset
  <2>6. Cardinality(Under(m)) <= Cardinality(Under(k))
        /\ Cardinality(Under(m)) \in Nat /\ Cardinality(Under(k)) \in Nat
    <3> HIDE DEF Under
    <3> QED BY <2>4, <2>5, FS_Subset, FS_CardinalityType
  <2>7. Cardinality(Under(m)) < MessageLimit
    <3> HIDE DEF N, Under
    <3> QED BY <2>3, <2>6 DEF MessagesAssumption
  <2>8. M!First(N, MessageLimit) = {i \in N : Cardinality(Under(i)) < MessageLimit}
    BY SameCount DEF M!First
  <2> HIDE DEF N, Under
  <2> QED BY <2>1, <2>2, <2>7, <2>8
<1> QED BY <1>2, <1>3 DEF NoGap

-----------------------------------------------------------------------------
(* The steps of the messages.                                              *)

\* An empty box and a fresh page.
LEMMA MessagesInit == ASSUME M!Init PROVE MessagesInv
<1>1. box = <<>> /\ page = M!Fresh /\ request = Nobody /\ post = Nobody
  BY DEF M!Init
<1>2. <<>> \in Seq(M!Message)
  OBVIOUS
<1>3. MessagesShape
  BY <1>1, <1>2 DEF MessagesShape, M!Fresh
<1>4. ~Hidden(box, page, request, passed)
  BY <1>1 DEF Hidden, M!Fresh
<1> QED BY <1>3, <1>4 DEF MessagesInv

(* A step of the world, of the server or of the page that only lets the    *)
(* box grow, forgets what it asked, or looks away.                         *)
LEMMA BoxKeepsInv ==
  ASSUME MessagesInv, Lengthened(box, box'), passed \subseteq passed',
         request' = request \/ request' = Nobody,
         post' = Nobody \/ (post' \in [contact : Contact, id : Nat] /\ post'.id <= Len(box')),
         page' \in [selected : Contact \union {Nobody}, last : Nat, list : SUBSET Nat,
                    loading : BOOLEAN],
         page'.last = page.last, page'.list = page.list,
         page'.selected \in {page.selected, Nobody}
  PROVE  MessagesInv'
<1>1. /\ box' \in Seq(M!Message) /\ Len(box) <= Len(box')
      /\ Len(box) \in Nat /\ Len(box') \in Nat
  BY DEF Lengthened
<1>2. 1..Len(box) \subseteq 1..Len(box')
  BY <1>1
<1>3. MessagesShape'
  BY <1>1, <1>2 DEF MessagesInv, MessagesShape
<1>4. \A c, n, seen, more :
         n \in Nat /\ n <= Len(box) /\ seen \subseteq more /\ Shown(box, c, n, seen)
            => Shown(box', c, n, more)
  BY GrowthHidesNothing DEF Shown
<1>5. page.list \union passed \subseteq page'.list \union passed'
  OBVIOUS
<1>6. page'.selected # Nobody =>
         Shown(box', page'.selected, page'.last, page'.list \union passed')
  BY <1>4, <1>5 DEF MessagesInv, MessagesShape, Hidden
<1>7. request' # Nobody /\ ~request'.initial =>
         Shown(box', request'.contact, request'.after, page'.list \union passed')
  BY <1>4, <1>5 DEF MessagesInv, MessagesShape, Hidden
<1>8. request' # Nobody /\ request'.after # 0 =>
         NoGap(box', request'.contact, request'.after, request'.batch)
  BY GrowthHidesNothing DEF MessagesInv, MessagesShape, Hidden
<1> QED BY <1>3, <1>6, <1>7, <1>8 DEF MessagesInv, Hidden

\* Nothing is written.
LEMMA SameBox == ASSUME MessagesInv, UNCHANGED box PROVE Lengthened(box, box')
BY DEF MessagesInv, MessagesShape, Lengthened

(* The page asks.                                                          *)
LEMMA SelectKeepsInv == ASSUME MessagesInv, M!Select PROVE MessagesInv'
<1>1. PICK c \in Contact :
         /\ page' = [page EXCEPT !.selected = c, !.last = 0, !.loading = TRUE]
         /\ request' = IF page.loading THEN request ELSE M!Asks(c, 0, TRUE)
  BY DEF M!Select
<1>2. box' = box /\ post' = post /\ passed' = passed
  BY DEF M!Select
<1>3. /\ page' \in [selected : Contact \union {Nobody}, last : Nat, list : SUBSET Nat,
                    loading : BOOLEAN]
      /\ page'.last = 0 /\ page'.list = page.list
  BY <1>1 DEF MessagesInv, MessagesShape
<1>4. CASE request' = request
  <2>1. MessagesShape'
    BY <1>2, <1>3, <1>4 DEF MessagesInv, MessagesShape
  <2>2. \A m \in From(box, page'.selected) : m > 0
    BY DEF From, MessagesInv, MessagesShape
  <2>3. Shown(box, page'.selected, 0, page.list \union passed)
    BY <2>2 DEF Shown, From, MessagesInv, MessagesShape
  <2> QED BY <1>2, <1>3, <1>4, <2>1, <2>3 DEF MessagesInv, Hidden
<1>5. CASE request' = M!Asks(c, 0, TRUE)
  <2>1. /\ request' \in [contact : Contact, after : Nat, initial : BOOLEAN,
                         served : BOOLEAN, batch : SUBSET Nat]
        /\ request'.after = 0 /\ request'.batch = {} /\ request'.initial
    BY <1>5 DEF M!Asks
  <2>2. MessagesShape'
    BY <1>2, <1>3, <2>1 DEF MessagesInv, MessagesShape
  <2>3. Shown(box, page'.selected, 0, page.list \union passed)
    BY DEF Shown, From, MessagesInv, MessagesShape
  <2> QED BY <1>2, <1>3, <2>1, <2>2, <2>3 DEF MessagesInv, Hidden
<1> QED BY <1>1, <1>4, <1>5

\* A poll asks for what comes after the cursor.
LEMMA PollKeepsInv == ASSUME MessagesInv, M!Poll PROVE MessagesInv'
<1>1. /\ page.selected # Nobody
      /\ page' = [page EXCEPT !.loading = TRUE]
      /\ request' = M!Asks(page.selected, page.last, FALSE)
      /\ box' = box /\ post' = post /\ passed' = passed
  BY DEF M!Poll
<1>2. /\ page' \in [selected : Contact \union {Nobody}, last : Nat, list : SUBSET Nat,
                    loading : BOOLEAN]
      /\ page'.last = page.last /\ page'.list = page.list /\ page'.selected = page.selected
  BY <1>1 DEF MessagesInv, MessagesShape
<1>3. /\ request' \in [contact : Contact, after : Nat, initial : BOOLEAN,
                       served : BOOLEAN, batch : SUBSET Nat]
      /\ request'.contact = page.selected /\ request'.after = page.last
      /\ request'.batch = {} /\ ~request'.initial
  BY <1>1 DEF M!Asks, MessagesInv, MessagesShape
<1>4. MessagesShape'
  BY <1>1, <1>2, <1>3 DEF MessagesInv, MessagesShape
<1>5. NoGap(box, page.selected, page.last, {})
  BY DEF NoGap
<1> QED BY <1>1, <1>2, <1>3, <1>4, <1>5 DEF MessagesInv, Hidden

(* The server answers.                                                     *)
LEMMA ServeKeepsInv == ASSUME MessagesAssumption, MessagesInv, M!Serve PROVE MessagesInv'
<1> DEFINE c == request.contact
           batch == M!Batch(c, request.after)
<1>1. /\ request # Nobody
      /\ request' = [request EXCEPT !.served = TRUE, !.batch = batch]
      /\ box' = [m \in DOMAIN box |->
                   IF m \in M!FromContact(c) THEN [box[m] EXCEPT !.read = TRUE] ELSE box[m]]
      /\ page' = page /\ post' = post /\ passed' = passed
  BY DEF M!Serve
<1>2. request \in [contact : Contact, after : Nat, initial : BOOLEAN,
                   served : BOOLEAN, batch : SUBSET Nat]
      /\ request.after <= Len(box) /\ (request.initial => request.after = 0)
  BY <1>1 DEF MessagesInv, MessagesShape
<1>3. batch \subseteq 1..Len(box) /\ (request.after # 0 => NoGap(box, c, request.after, batch))
  BY <1>2, BatchFacts DEF MessagesInv, MessagesShape
<1> HIDE DEF batch
<1>4. Lengthened(box, box')
  <2>1. box \in Seq(M!Message) /\ Len(box) \in Nat /\ DOMAIN box = 1..Len(box)
    BY DEF MessagesInv, MessagesShape
  <2>2. ASSUME NEW m \in 1..Len(box)
        PROVE  /\ box'[m] \in M!Message
               /\ box'[m].with = box[m].with /\ box'[m].mine = box[m].mine
    <3>1. box[m] \in M!Message /\ box'[m] \in {box[m], [box[m] EXCEPT !.read = TRUE]}
      BY <1>1, <2>1
    <3> QED BY <3>1 DEF M!Message
  <2>3. box' \in Seq(M!Message) /\ Len(box') = Len(box)
    BY <1>1, <2>1, <2>2
  <2> QED BY <2>1, <2>2, <2>3 DEF Lengthened
<1>5. /\ request' \in [contact : Contact, after : Nat, initial : BOOLEAN,
                       served : BOOLEAN, batch : SUBSET Nat]
      /\ request'.contact = c /\ request'.after = request.after /\ request'.batch = batch
      /\ request'.initial = request.initial
  <2>1. batch \in SUBSET Nat
    BY <1>3
  <2> QED BY <1>1, <1>2, <2>1
<1>6. /\ box' \in Seq(M!Message) /\ Len(box) <= Len(box')
      /\ Len(box) \in Nat /\ Len(box') \in Nat
  BY <1>4 DEF Lengthened
<1>7. MessagesShape'
  <2>1. 1..Len(box) \subseteq 1..Len(box')
    BY <1>6
  <2> QED BY <1>1, <1>2, <1>3, <1>5, <1>6, <2>1 DEF MessagesInv, MessagesShape
<1>8. /\ page.selected # Nobody =>
            Shown(box', page.selected, page.last, page.list \union passed)
      /\ ~request.initial => Shown(box', c, request.after, page.list \union passed)
      /\ request.after # 0 => NoGap(box', c, request.after, batch)
  BY <1>1, <1>2, <1>3, <1>4, GrowthHidesNothing DEF MessagesInv, MessagesShape, Hidden
<1> QED BY <1>1, <1>5, <1>7, <1>8 DEF MessagesInv, Hidden

(* The answer comes: what the cursor goes over is on the page, in the      *)
(* answer, or passed.                                                      *)
LEMMA ArriveKeepsInv == ASSUME MessagesAssumption, MessagesInv, M!Arrive PROVE MessagesInv'
<1> DEFINE initial == request.initial
           list == IF initial THEN {} ELSE page.list
           last == IF initial THEN 0 ELSE page.last
           batch == request.batch
           c == request.contact
           newest == M!Max({last} \union (batch \ list))
<1>1. /\ request # Nobody /\ request' = Nobody
      /\ box' = box /\ post' = post
  BY DEF M!Arrive
<1>2. CASE c # page.selected
  <2>1. page' = [page EXCEPT !.loading = FALSE] /\ passed' = passed
    BY <1>2 DEF M!Arrive
  <2>2. /\ page' \in [selected : Contact \union {Nobody}, last : Nat, list : SUBSET Nat,
                      loading : BOOLEAN]
        /\ page'.last = page.last /\ page'.list = page.list /\ page'.selected = page.selected
    BY <2>1 DEF MessagesInv, MessagesShape
  <2> QED BY <1>1, <2>1, <2>2, SameBox, BoxKeepsInv DEF MessagesInv, MessagesShape
<1>3. CASE c = page.selected
  <2>1. /\ page' = [page EXCEPT !.list = list \union batch, !.last = newest,
                                !.loading = FALSE]
        /\ passed' = IF request.after = 0
                     THEN (IF initial THEN {} ELSE passed) \union M!Before(batch)
                     ELSE passed
    BY <1>3 DEF M!Arrive, M!Shows
  <2>2. /\ Len(box) \in Nat /\ last \in 0..Len(box)
        /\ batch \in SUBSET (1..Len(box)) /\ list \in SUBSET (1..Len(box))
        /\ request.after \in Nat /\ request.after <= Len(box)
        /\ initial \in BOOLEAN /\ (initial => request.after = 0)
    BY <1>1 DEF MessagesInv, MessagesShape
  <2>3. M!Before(batch) =
          {m \in From(box, c) : m \notin batch /\ \E k \in batch : m < k}
    BY <1>3, FromIsFromContact DEF M!Before
  <2>4. /\ ~initial => Shown(box, c, page.last, page.list \union passed)
        /\ ~initial => Shown(box, c, request.after, page.list \union passed)
        /\ request.after # 0 => NoGap(box, c, request.after, batch)
    <3>1. /\ ~request.initial => Shown(box, request.contact, request.after,
                                       page.list \union passed)
          /\ request.after # 0 => NoGap(box, request.contact, request.after, request.batch)
          /\ page.selected # Nobody => Shown(box, page.selected, page.last,
                                             page.list \union passed)
      BY <1>1 DEF MessagesInv, Hidden
    <3>2. page.selected # Nobody
      BY <1>1, <1>3 DEF MessagesInv, MessagesShape, MessagesAssumption
    <3> QED BY <1>3, <3>1, <3>2
  <2>5. newest \in {last} \union (batch \ list) /\ newest \in 0..Len(box)
    BY <2>2, CursorFacts
  <2> HIDE DEF newest, initial, list, last, batch, c
  <2>6. /\ page' \in [selected : Contact \union {Nobody}, last : Nat, list : SUBSET Nat,
                      loading : BOOLEAN]
        /\ page'.last = newest /\ page'.list = list \union batch
        /\ page'.selected = page.selected
    <3>1. newest \in Nat /\ list \union batch \in SUBSET Nat
      BY <2>2, <2>5
    <3> QED BY <2>1, <3>1 DEF MessagesInv, MessagesShape
  <2>7. MessagesShape'
    BY <1>1, <2>2, <2>5, <2>6 DEF MessagesInv, MessagesShape
  <2>8. ASSUME NEW m \in From(box, c), m <= newest
        PROVE  m \in (list \union batch) \union passed'
    <3>1. m \in Nat /\ m > 0
      BY DEF From, MessagesInv, MessagesShape
    <3>2. CASE m <= last
      <4>1. ~initial /\ m <= page.last /\ list = page.list
        BY <3>1, <3>2 DEF last, list
      <4>2. m \in page.list \union passed
        BY <2>4, <4>1 DEF Shown
      <4> QED BY <2>1, <4>1, <4>2
    <3>3. CASE ~(m <= last)
      <4>1. PICK k \in batch : k = newest /\ m <= k
        BY <2>2, <2>5, <2>8, <3>1, <3>3
      <4>2. CASE request.after = 0
        <5>1. m \in batch \/ m \in M!Before(batch)
          BY <2>2, <2>3, <3>1, <4>1
        <5> QED BY <2>1, <4>2, <5>1
      <4>3. CASE request.after # 0 /\ m <= request.after
        <5>1. ~initial /\ list = page.list /\ passed' = passed
          BY <2>1, <2>2, <4>3 DEF list
        <5> QED BY <2>4, <4>3, <5>1 DEF Shown
      <4>4. CASE request.after # 0 /\ ~(m <= request.after)
        <5>1. request.after < m
          BY <2>2, <3>1, <4>4
        <5> QED BY <2>4, <4>1, <4>4, <5>1 DEF NoGap
      <4> QED BY <4>2, <4>3, <4>4
    <3> QED BY <3>2, <3>3
  <2>9. Shown(box', page'.selected, page'.last, page'.list \union passed')
    BY <1>1, <1>3, <2>6, <2>8 DEF Shown, c
  <2> QED BY <1>1, <2>7, <2>9 DEF MessagesInv, Hidden
<1> QED BY <1>2, <1>3

(* The page's own message comes back: the cursor goes to it, over what is  *)
(* passed.                                                                 *)
LEMMA SentKeepsInv == ASSUME MessagesInv, M!Sent PROVE MessagesInv'
<1> DEFINE list == page.list
           last == page.last
           newest == M!Max({last} \union ({post.id} \ list))
<1>1. /\ post # Nobody /\ post.id # 0 /\ post' = Nobody
      /\ page' = [page EXCEPT !.list = list \union {post.id}, !.last = newest]
      /\ passed' = passed \union (M!Before({post.id}) \ list)
      /\ box' = box /\ request' = request
  BY DEF M!Sent, M!Shows, MessagesInv, MessagesShape
<1>2. /\ Len(box) \in Nat /\ last \in 0..Len(box) /\ list \in SUBSET (1..Len(box))
      /\ post.id \in 1..Len(box)
  BY <1>1 DEF MessagesInv, MessagesShape
<1>3. M!Before({post.id}) = {m \in From(box, page.selected) : m # post.id /\ m < post.id}
  BY FromIsFromContact DEF M!Before
<1>4. newest \in {last} \union ({post.id} \ list) /\ newest \in 0..Len(box)
  BY <1>2, CursorFacts
<1> HIDE DEF newest
<1>5. /\ page' \in [selected : Contact \union {Nobody}, last : Nat, list : SUBSET Nat,
                    loading : BOOLEAN]
      /\ page'.last = newest /\ page'.list = list \union {post.id}
      /\ page'.selected = page.selected
  BY <1>1, <1>2, <1>4 DEF MessagesInv, MessagesShape
<1>6. MessagesShape'
  BY <1>1, <1>2, <1>4, <1>5 DEF MessagesInv, MessagesShape
<1>7. ASSUME page.selected # Nobody, NEW m \in From(box, page.selected), m <= newest
      PROVE  m \in page'.list \union passed'
  <2>1. m \in Nat
    BY DEF From, MessagesInv, MessagesShape
  <2>2. CASE m <= last
    BY <1>1, <1>5, <1>7, <2>2 DEF MessagesInv, Hidden, Shown
  <2>3. CASE ~(m <= last)
    <3>1. newest = post.id /\ m <= post.id
      <4>1. newest # last
        BY <1>7, <2>3
      <4> QED BY <1>4, <1>7, <4>1
    <3>2. m = post.id \/ m \in M!Before({post.id})
      <4>1. m = post.id \/ (m # post.id /\ m < post.id)
        BY <1>2, <2>1, <3>1
      <4> QED BY <1>3, <4>1
    <3> QED BY <1>1, <1>5, <3>2
  <2> QED BY <2>2, <2>3
<1>8. page.selected # Nobody =>
         Shown(box', page'.selected, page'.last, page'.list \union passed')
  BY <1>1, <1>5, <1>7 DEF Shown
<1>9. \A d, n : Shown(box, d, n, page.list \union passed)
                   => Shown(box', d, n, page'.list \union passed')
  BY <1>1, <1>5 DEF Shown
<1> QED BY <1>1, <1>5, <1>6, <1>8, <1>9 DEF MessagesInv, Hidden

(* A message is stored behind all the others.                              *)
LEMMA StoresKeepsBox ==
  ASSUME MessagesInv, NEW c \in Contact, NEW mine \in BOOLEAN, M!Stores(c, mine)
  PROVE  Lengthened(box, box') /\ Len(box') = Len(box) + 1
<1> DEFINE new == [with |-> c, mine |-> mine, read |-> FALSE]
<1>1. new \in M!Message /\ box' = Append(box, new) /\ box \in Seq(M!Message)
  BY DEF M!Stores, M!Message, MessagesInv, MessagesShape
<1> HIDE DEF new
<1> QED BY <1>1 DEF Lengthened

\* Every step of the page, the server and the contacts.
LEMMA MessagesStep ==
  ASSUME MessagesAssumption, MessagesInv, [M!Next]_messageVars
  PROVE  MessagesInv'
<1>1. CASE M!Select \/ M!Poll \/ M!Serve \/ M!Arrive \/ M!Sent
  BY <1>1, SelectKeepsInv, PollKeepsInv, ServeKeepsInv, ArriveKeepsInv, SentKeepsInv
<1>2. CASE M!ReadFails \/ M!SendFails
  <2>1. /\ page' = page \/ page' = [page EXCEPT !.loading = FALSE]
        /\ box' = box /\ passed' = passed
        /\ request' = request \/ request' = Nobody
        /\ post' = post \/ post' = Nobody
    BY <1>2 DEF M!ReadFails, M!SendFails
  <2>2. /\ page' \in [selected : Contact \union {Nobody}, last : Nat, list : SUBSET Nat,
                      loading : BOOLEAN]
        /\ page'.last = page.last /\ page'.list = page.list /\ page'.selected = page.selected
    BY <2>1 DEF MessagesInv, MessagesShape
  <2> QED BY <2>1, <2>2, SameBox, BoxKeepsInv DEF MessagesInv, MessagesShape
<1>3. CASE M!Submit
  <2>1. /\ post' = [contact |-> page.selected, id |-> 0] /\ page.selected # Nobody
        /\ box' = box /\ passed' = passed /\ page' = page /\ request' = request
    BY <1>3 DEF M!Submit
  <2>2. post' \in [contact : Contact, id : Nat] /\ post'.id <= Len(box')
    BY <2>1 DEF MessagesInv, MessagesShape
  <2> QED BY <2>1, <2>2, SameBox, BoxKeepsInv DEF MessagesInv, MessagesShape
<1>4. CASE M!Send
  <2>1. /\ post # Nobody /\ M!Stores(post.contact, TRUE)
        /\ post' = [post EXCEPT !.id = Len(box) + 1]
        /\ passed' = passed /\ page' = page /\ request' = request
    BY <1>4 DEF M!Send
  <2>2. post \in [contact : Contact, id : Nat] /\ Len(box) \in Nat
    BY <2>1 DEF MessagesInv, MessagesShape
  <2>3. Lengthened(box, box') /\ Len(box') = Len(box) + 1
    BY <2>1, <2>2, StoresKeepsBox
  <2>4. post' \in [contact : Contact, id : Nat] /\ post'.id <= Len(box')
    BY <2>1, <2>2, <2>3
  <2> QED BY <2>1, <2>3, <2>4, BoxKeepsInv DEF MessagesInv, MessagesShape
<1>5. CASE M!Hear
  <2>1. PICK c \in Contact : M!Stores(c, FALSE)
    BY <1>5 DEF M!Hear
  <2>2. Lengthened(box, box') /\ Len(box') = Len(box) + 1 /\ Len(box) \in Nat
    <3>1. FALSE \in BOOLEAN
      OBVIOUS
    <3>2. Lengthened(box, box') /\ Len(box') = Len(box) + 1
      BY <2>1, <3>1, StoresKeepsBox
    <3> QED BY <3>2 DEF MessagesInv, MessagesShape
  <2>3. page' = page /\ request' = request /\ post' = post /\ passed' = passed
    BY <1>5 DEF M!Hear
  <2>4. post' # Nobody => post' \in [contact : Contact, id : Nat] /\ post'.id <= Len(box')
    BY <2>2, <2>3 DEF MessagesInv, MessagesShape
  <2> QED BY <2>2, <2>3, <2>4, BoxKeepsInv DEF MessagesInv, MessagesShape
<1>6. CASE M!Activate \/ UNCHANGED messageVars
  <2>1. box' = box /\ page' = page /\ request' = request /\ post' = post /\ passed' = passed
    BY <1>6 DEF M!Activate, messageVars
  <2> QED BY <2>1, SameBox, BoxKeepsInv DEF MessagesInv, MessagesShape
<1>7. CASE M!Forget
  <2>1. /\ page' = [page EXCEPT !.selected = Nobody]
        /\ box' = box /\ request' = request /\ post' = post /\ passed' = passed
    BY <1>7 DEF M!Forget
  <2>2. /\ page' \in [selected : Contact \union {Nobody}, last : Nat, list : SUBSET Nat,
                      loading : BOOLEAN]
        /\ page'.last = page.last /\ page'.list = page.list /\ page'.selected = Nobody
    BY <2>1 DEF MessagesInv, MessagesShape
  <2> QED BY <2>1, <2>2, SameBox, BoxKeepsInv DEF MessagesInv, MessagesShape
<1>8. CASE M!Reload
  <2>1. page' = M!Fresh /\ request' = Nobody /\ post' = Nobody /\ box' = box
    BY <1>8 DEF M!Reload
  <2>2. MessagesShape'
    BY <2>1 DEF MessagesInv, MessagesShape, M!Fresh
  <2> QED BY <2>1, <2>2 DEF MessagesInv, Hidden, M!Fresh
<1> QED BY <1>1, <1>2, <1>3, <1>4, <1>5, <1>6, <1>7, <1>8 DEF M!Next

\* What is before the cursor is on the page.
LEMMA MessagesMeans == MessagesInv => M!NothingHidden
BY FromIsFromContact DEF MessagesInv, Hidden, Shown, M!NothingHidden

(* The cursor of the page hides no message of the contact, in whatever     *)
(* order the answers to its two requests come, and whichever are lost      *)
(* (loadConversation, sendMessage of messages.js).                         *)
THEOREM CursorHidesNothing ==
  ASSUME MessagesAssumption PROVE M!Spec => []M!NothingHidden
<1>1. M!Init => MessagesInv
  BY MessagesInit
<1>2. MessagesInv /\ [M!Next]_M!vars => MessagesInv'
  BY MessagesStep DEF M!vars, messageVars
<1> QED BY <1>1, <1>2, MessagesMeans, PTL DEF M!Spec

-----------------------------------------------------------------------------
(* The types of the messages need more than their invariant.               *)

\* The bounds on the behaviours are numbers, a watch counts to one at least,
\* and what a request starts is a service.
BoundsAssumption ==
    /\ FailureThreshold \in Nat \ {0} /\ MaxDisruptions \in Nat
    /\ MaxMessages \in Nat /\ MaxLosses \in Nat
    /\ OnDemand \subseteq Service /\ Patience \in Nat /\ MaxFaults \in Nat

\* The bounds of the messages, and what is no part of their invariant.
MessagesBounds ==
    /\ Len(box) <= MaxMessages /\ accounts \subseteq Contact
    /\ passed \subseteq 1..Len(box) /\ losses \in 0..MaxLosses

\* The types of the messages, of their invariant and their bounds.
LEMMA MessagesTyped ==
  ASSUME BoundsAssumption, MessagesInv, MessagesBounds PROVE M!TypeOK
<1>1. /\ box \in Seq(M!Message) /\ Len(box) \in Nat /\ MaxMessages \in Nat
      /\ Len(box) <= MaxMessages /\ 1..Len(box) \subseteq M!Id
  BY DEF MessagesInv, MessagesShape, MessagesBounds, BoundsAssumption, M!Id
<1>2. /\ page \in [selected : Contact \union {Nobody}, last : Nat, list : SUBSET Nat,
                   loading : BOOLEAN]
      /\ page.last \in 0..MaxMessages /\ page.list \in SUBSET M!Id
  BY <1>1 DEF MessagesInv, MessagesShape
<1>3. page \in [selected : Contact \union {Nobody}, last : 0..MaxMessages,
                list : SUBSET M!Id, loading : BOOLEAN]
  BY <1>2
<1>4. request # Nobody => request.contact \in Contact /\ request.batch \subseteq M!Id
  BY <1>1 DEF MessagesInv, MessagesShape
<1>5. post # Nobody => post.contact \in Contact /\ post.id \in 0..MaxMessages
  BY <1>1 DEF MessagesInv, MessagesShape
<1>6. passed \subseteq M!Id
  BY <1>1 DEF MessagesBounds
<1> QED BY <1>1, <1>3, <1>4, <1>5, <1>6 DEF M!TypeOK, MessagesBounds

\* An empty box.
LEMMA MessagesBoundsInit == ASSUME BoundsAssumption, M!Init PROVE MessagesBounds
<1>1. box = <<>> /\ accounts = Contact /\ passed = {} /\ losses = 0
  BY DEF M!Init
<1> QED BY <1>1 DEF MessagesBounds, BoundsAssumption

\* A step keeps the bounds.
LEMMA MessagesBoundsStep ==
  ASSUME BoundsAssumption, MessagesInv, MessagesBounds, [M!Next]_messageVars
  PROVE  MessagesBounds'
<1>1. /\ box \in Seq(M!Message) /\ Len(box) \in Nat /\ MaxMessages \in Nat
      /\ Len(box) <= MaxMessages /\ DOMAIN box = 1..Len(box)
      /\ accounts \subseteq Contact /\ passed \subseteq 1..Len(box)
      /\ losses \in 0..MaxLosses /\ MaxLosses \in Nat
  BY DEF MessagesInv, MessagesShape, MessagesBounds, BoundsAssumption
<1>2. \A batch : M!Before(batch) \subseteq 1..Len(box)
  BY <1>1 DEF M!Before, M!FromContact, M!Between
<1>3. accounts' \subseteq Contact
  BY <1>1 DEF M!Next, M!Select, M!Poll, M!Serve, M!Arrive, M!ReadFails, M!Submit,
              M!Send, M!Sent, M!SendFails, M!Hear, M!Activate, M!Forget, M!Reload,
              messageVars
<1>4. losses' \in 0..MaxLosses
  <2>1. losses' = losses \/ (losses < MaxLosses /\ losses' = losses + 1)
    BY DEF M!Next, M!Select, M!Poll, M!Serve, M!Arrive, M!ReadFails, M!Submit,
           M!Send, M!Sent, M!SendFails, M!Hear, M!Activate, M!Forget, M!Reload,
           messageVars
  <2> QED BY <1>1, <2>1
<1>5. /\ Len(box') = Len(box) \/ (Len(box) < MaxMessages /\ Len(box') = Len(box) + 1)
  <2>1. CASE M!Serve
    <3>1. /\ box' = [m \in DOMAIN box |->
                       IF m \in M!FromContact(request.contact)
                       THEN [box[m] EXCEPT !.read = TRUE] ELSE box[m]]
      BY <2>1 DEF M!Serve
    <3>2. ASSUME NEW m \in 1..Len(box) PROVE box'[m] \in M!Message
      <4>1. box[m] \in M!Message /\ box'[m] \in {box[m], [box[m] EXCEPT !.read = TRUE]}
        BY <1>1, <3>1
      <4> QED BY <4>1 DEF M!Message
    <3>3. box' \in Seq(M!Message) /\ Len(box') = Len(box)
      BY <1>1, <3>1, <3>2
    <3> QED BY <3>3
  <2>2. CASE M!Send \/ M!Hear
    <3>1. PICK c \in Contact, mine \in BOOLEAN : M!Stores(c, mine)
      BY <2>2 DEF M!Send, M!Hear, MessagesInv, MessagesShape
    <3>2. Len(box) < MaxMessages
      BY <3>1 DEF M!Stores
    <3> QED BY <3>1, <3>2, StoresKeepsBox
  <2>3. CASE ~(M!Serve \/ M!Send \/ M!Hear)
    BY <2>3 DEF M!Next, M!Select, M!Poll, M!Arrive, M!ReadFails, M!Submit, M!Sent,
                M!SendFails, M!Activate, M!Forget, M!Reload, messageVars
  <2> QED BY <2>1, <2>2, <2>3
<1>6. passed' \subseteq 1..Len(box)
  <2>1. CASE M!Arrive
    BY <1>1, <1>2, <2>1 DEF M!Arrive
  <2>2. CASE M!Sent
    BY <1>1, <1>2, <2>2 DEF M!Sent
  <2>3. CASE ~(M!Arrive \/ M!Sent)
    BY <1>1, <2>3 DEF M!Next, M!Select, M!Poll, M!Serve, M!ReadFails, M!Submit, M!Send,
                      M!SendFails, M!Hear, M!Activate, M!Forget, M!Reload, messageVars
  <2> QED BY <2>1, <2>2, <2>3
<1>7. Len(box') <= MaxMessages /\ 1..Len(box) \subseteq 1..Len(box')
  BY <1>1, <1>5
<1> QED BY <1>3, <1>4, <1>6, <1>7 DEF MessagesBounds

-----------------------------------------------------------------------------
(* The watch on the server: what the tracker, the settings and the screen  *)
(* say of each other.                                                      *)

\* A tracker is offline when the threshold is reached, and only then.
Settled(h) == h \in P!Health /\ (h.offline <=> h.failures = FailureThreshold)

\* What the notification says when a check is over.
Announced == event = "down" \/ (alarm /\ event # "recovered")

(* The alarm is on the screen exactly while the server counts as offline:  *)
(* a phone that nothing disturbed tells an outage once and takes it back   *)
(* once (ServerHealthTracker.java).                                        *)
AlarmIsTrue == disruptions = 0 /\ phase = "wait" => (alarm <=> tracker.offline)

WatchInv ==
    /\ P!TypeOK
    /\ Settled(tracker) /\ Settled(settings)
    /\ phase = "wait" => event = "none"
    /\ disruptions = 0 => (Announced <=> tracker.offline)

\* A healthy start.
LEMMA WatchInit == ASSUME BoundsAssumption, P!Init PROVE WatchInv
<1>1. tracker \in P!Health /\ settings \in P!Health /\ ~tracker.offline /\ ~settings.offline
      /\ tracker.failures = 0 /\ settings.failures = 0
  BY DEF P!Init, P!Health, BoundsAssumption
<1>2. /\ reachable \in BOOLEAN /\ phase = "wait" /\ event = "none"
      /\ alarm \in BOOLEAN /\ ~alarm
      /\ disruptions = 0 /\ FailureThreshold \in Nat \ {0} /\ MaxDisruptions \in Nat
  BY DEF P!Init, BoundsAssumption
<1>3. P!TypeOK
  BY <1>1, <1>2 DEF P!TypeOK
<1>4. Settled(tracker) /\ Settled(settings)
  BY <1>1, <1>2 DEF Settled
<1>5. ~Announced /\ ~tracker.offline
  BY <1>1, <1>2 DEF Announced
<1> QED BY <1>2, <1>3, <1>4, <1>5 DEF WatchInv

\* Every step of the watch and of the world.
LEMMA WatchStep ==
  ASSUME BoundsAssumption, WatchInv, [P!Next]_watchVars
  PROVE  WatchInv'
<1>1. /\ tracker \in P!Health /\ settings \in P!Health
      /\ tracker.failures \in 0..FailureThreshold /\ tracker.offline \in BOOLEAN
      /\ FailureThreshold \in Nat /\ FailureThreshold > 0 /\ MaxDisruptions \in Nat
  BY DEF WatchInv, Settled, P!Health, BoundsAssumption
<1>2. CASE P!Succeed
  <2>1. /\ tracker' = [failures |-> 0, offline |-> FALSE] /\ phase' = "persist"
        /\ event' = IF tracker.offline THEN "recovered" ELSE "none"
        /\ phase = "wait" /\ event = "none"
        /\ UNCHANGED <<reachable, settings, alarm, disruptions>>
    BY <1>2 DEF P!Succeed, WatchInv
  <2>2. tracker' \in P!Health /\ Settled(tracker)'
    BY <1>1, <2>1 DEF P!Health, Settled
  <2>3. disruptions' = 0 => (Announced' <=> tracker'.offline)
    BY <2>1 DEF Announced, WatchInv
  <2> QED BY <2>1, <2>2, <2>3 DEF WatchInv, P!TypeOK, Settled
<1>3. CASE P!Fail
  <2> DEFINE down == ~tracker.offline /\ tracker.failures + 1 >= FailureThreshold
  <2>1. /\ tracker' = [failures |-> P!Counted(tracker.failures),
                       offline |-> tracker.offline \/ down]
        /\ phase' = "persist" /\ event' = IF down THEN "down" ELSE "none"
        /\ phase = "wait" /\ event = "none"
        /\ UNCHANGED <<reachable, settings, alarm, disruptions>>
    BY <1>3 DEF P!Fail, WatchInv
  <2>2. P!Counted(tracker.failures) \in 0..FailureThreshold
    BY <1>1 DEF P!Counted
  <2>3. (tracker.offline \/ down) <=> P!Counted(tracker.failures) = FailureThreshold
    BY <1>1 DEF P!Counted, WatchInv, Settled
  <2>4. tracker' \in P!Health /\ Settled(tracker)'
    <3>1. (tracker.offline \/ down) \in BOOLEAN
      OBVIOUS
    <3> QED BY <2>1, <2>2, <2>3, <3>1 DEF P!Health, Settled
  <2>5. disruptions' = 0 => (Announced' <=> tracker'.offline)
    BY <1>1, <2>1 DEF Announced, WatchInv
  <2> QED BY <2>1, <2>4, <2>5 DEF WatchInv, P!TypeOK, Settled
<1>4. CASE P!Persist
  BY <1>1, <1>4 DEF P!Persist, WatchInv, P!TypeOK, Settled, Announced
<1>5. CASE P!Tell
  <2>1. /\ alarm' = (event = "down" \/ (alarm /\ event # "recovered"))
        /\ phase' = "wait" /\ event' = "none"
        /\ UNCHANGED <<reachable, tracker, settings, disruptions>>
    BY <1>5 DEF P!Tell
  <2>2. alarm' \in BOOLEAN /\ (alarm' <=> Announced)
    BY <2>1, Zenon DEF Announced
  <2>3. Announced' <=> Announced
    BY <2>1, <2>2 DEF Announced
  <2> QED BY <1>1, <2>1, <2>2, <2>3 DEF WatchInv, P!TypeOK, Settled
<1>6. CASE P!Turn \/ UNCHANGED watchVars
  <2>1. /\ reachable' \in BOOLEAN
        /\ UNCHANGED <<tracker, settings, phase, event, alarm, disruptions>>
    <3>1. CASE P!Turn
      <4>1. reachable' = ~reachable
        BY <3>1 DEF P!Turn
      <4>2. reachable' \in BOOLEAN
        BY <4>1
      <4> QED BY <3>1, <4>2 DEF P!Turn
    <3>2. CASE UNCHANGED watchVars
      BY <3>2 DEF watchVars, WatchInv, P!TypeOK
    <3> QED BY <1>6, <3>1, <3>2
  <2>2. Announced' <=> Announced
    BY <2>1 DEF Announced
  <2> QED BY <1>1, <2>1, <2>2 DEF WatchInv, P!TypeOK, Settled
<1>7. CASE P!Kill \/ P!StartAgain
  <2>1. /\ disruptions' \in 0..MaxDisruptions /\ disruptions' # 0
        /\ tracker' = settings /\ settings' = settings /\ reachable' = reachable
        /\ alarm' = alarm
        /\ phase' \in {phase, "wait"} /\ event' \in {event, "none"}
    BY <1>1, <1>7 DEF P!Kill, P!StartAgain, WatchInv, P!TypeOK
  <2> QED BY <1>7, <2>1 DEF P!Kill, P!StartAgain, WatchInv, P!TypeOK, Settled
<1> QED BY <1>2, <1>3, <1>4, <1>5, <1>6, <1>7 DEF P!Next

-----------------------------------------------------------------------------
(* The services: what the guardian of the watchdog's loop has in hand.     *)

(* A service is marked before the guardian's command stops it, and what a  *)
(* recovery is to start, or is starting, is still marked: whenever the     *)
(* check is killed, the markers say what is left to start                  *)
(* (suspend_service, recover_suspended_services).                          *)
MarkedFirst ==
    /\ loop.stage = "stopping" => loop.at \in suspended
    /\ loop.stage \in {"recover", "starting"} => loop.todo \subseteq suspended
    /\ loop.stage = "starting" => loop.at \in loop.todo

ServicesInv ==
    /\ V!TypeOK /\ MarkedFirst
    /\ loop.stage \in {"stopping", "starting"} => loop.at \in Service

\* A loop at rest has nothing in hand.
LEMMA RestingLoop ==
    /\ V!Resting \in [stage : V!Stage, todo : SUBSET Service, at : Service \union {Nobody},
                      goes : BOOLEAN, loaded : SUBSET Service]
    /\ V!Resting.stage = "start"
BY DEF V!Resting, V!Stage

\* The services that were enabled, and nothing suspended.
LEMMA ServicesInit == ASSUME BoundsAssumption, V!Init PROVE ServicesInv
<1>1. loop = V!Resting /\ missed \in [Service -> 0..Patience] /\ faults \in 0..MaxFaults
  BY DEF V!Init, BoundsAssumption
<1>2. V!TypeOK
  BY <1>1, RestingLoop DEF V!Init, V!TypeOK
<1> QED BY <1>1, <1>2, RestingLoop DEF ServicesInv, MarkedFirst

\* A fault is counted.
LEMMA FaultCounts ==
  ASSUME BoundsAssumption, V!TypeOK, V!Fault PROVE faults' \in 0..MaxFaults
BY DEF BoundsAssumption, V!TypeOK, V!Fault

(* A step of the guardian's check.                                         *)
LEMMA GuardianStep ==
  ASSUME BoundsAssumption, ServicesInv,
         V!Begin \/ V!Suspend \/ V!Stopped \/ V!Recover \/ V!Started \/ V!Checked
  PROVE  ServicesInv'
<1> DEFINE Loops == [stage : V!Stage, todo : SUBSET Service, at : Service \union {Nobody},
                     goes : BOOLEAN, loaded : SUBSET Service]
<1>1. /\ V!TypeOK /\ loop \in Loops
      /\ loop.stage \in V!Stage /\ loop.todo \subseteq Service
      /\ loop.at \in Service \union {Nobody} /\ loop.goes \in BOOLEAN
      /\ loop.loaded \subseteq Service
  BY DEF ServicesInv, V!TypeOK
<1>2. CASE V!Begin
  <2>1. PICK st \in {"recover", "suspend"}, to \in SUBSET Service :
           /\ loop' = [loop EXCEPT !.stage = st, !.todo = to, !.loaded = enabled]
           /\ st = "recover" => to = suspended
    <3>1. V!Targets \in SUBSET Service
      BY <1>1 DEF V!Targets, V!TypeOK
    <3> QED BY <1>1, <1>2, <3>1 DEF V!Begin, V!TypeOK
  <2>2. loop' \in Loops /\ loop'.stage = st /\ loop'.todo = to
    BY <1>1, <2>1 DEF V!TypeOK, V!Stage
  <2>3. UNCHANGED <<enabled, running, suspended, guarded, heat, missed, change, faults>>
    BY <1>2 DEF V!Begin
  <2>4. V!TypeOK'
    BY <1>1, <2>2, <2>3 DEF V!TypeOK
  <2> QED BY <2>1, <2>2, <2>3, <2>4 DEF ServicesInv, MarkedFirst
<1>3. CASE V!Suspend
  <2>1. PICK s \in loop.todo :
           /\ suspended' = suspended \union {s}
           /\ loop' = [loop EXCEPT !.stage = "stopping", !.at = s]
    BY <1>3 DEF V!Suspend
  <2>2. s \in Service /\ loop' \in Loops /\ loop'.stage = "stopping" /\ loop'.at = s
    BY <1>1, <2>1 DEF V!Stage
  <2>3. UNCHANGED <<enabled, running, guarded, heat, missed, change, faults>>
    BY <1>3 DEF V!Suspend
  <2>4. V!TypeOK'
    BY <1>1, <2>1, <2>2, <2>3 DEF V!TypeOK
  <2> QED BY <2>1, <2>2, <2>3, <2>4 DEF ServicesInv, MarkedFirst
<1>4. CASE V!Stopped
  <2>1. loop' = [loop EXCEPT !.stage = "suspend", !.todo = loop.todo \ {loop.at}, !.at = Nobody]
    BY <1>4 DEF V!Stopped
  <2>2. loop' \in Loops /\ loop'.stage = "suspend"
    BY <1>1, <2>1 DEF V!Stage
  <2>3. running' \subseteq running /\ suspended' \subseteq suspended
        /\ UNCHANGED <<enabled, guarded, heat, missed, change>>
    BY <1>4 DEF V!Stopped
  <2>4. faults' \in 0..MaxFaults
    BY <1>1, <1>4, FaultCounts DEF V!Stopped, V!TypeOK
  <2>5. V!TypeOK'
    BY <1>1, <2>2, <2>3, <2>4 DEF V!TypeOK
  <2> QED BY <2>2, <2>5 DEF ServicesInv, MarkedFirst
<1>5. CASE V!Recover
  <2>1. PICK s \in loop.todo :
           loop' = [loop EXCEPT !.stage = "starting", !.at = s, !.goes = (s \in enabled)]
    BY <1>5 DEF V!Recover
  <2>2. (s \in enabled) \in BOOLEAN
    OBVIOUS
  <2>3. /\ s \in Service /\ loop' \in Loops
        /\ loop'.stage = "starting" /\ loop'.at = s /\ loop'.todo = loop.todo
    BY <1>1, <2>1, <2>2 DEF V!Stage
  <2>4. UNCHANGED <<enabled, running, suspended, guarded, heat, missed, change, faults>>
        /\ loop.stage = "recover"
    BY <1>5 DEF V!Recover
  <2>5. V!TypeOK'
    BY <1>1, <2>3, <2>4 DEF V!TypeOK
  <2> QED BY <2>3, <2>4, <2>5 DEF ServicesInv, MarkedFirst
<1>6. CASE V!Started
  <2>1. /\ loop.stage = "starting"
        /\ loop' = [loop EXCEPT !.stage = "recover", !.todo = loop.todo \ {loop.at},
                                !.at = Nobody, !.goes = FALSE]
    BY <1>6 DEF V!Started
  <2>2. /\ loop' \in Loops /\ loop'.stage = "recover"
        /\ loop'.todo = loop.todo \ {loop.at}
    BY <1>1, <2>1 DEF V!Stage
  <2>3. /\ running' \subseteq running \union {loop.at} /\ loop.at \in Service
        /\ suspended' \in {suspended, suspended \ {loop.at}}
        /\ UNCHANGED <<enabled, guarded, heat, missed, change>>
    BY <1>6, <2>1 DEF V!Started, ServicesInv
  <2>4. faults' \in 0..MaxFaults
    BY <1>1, <1>6, FaultCounts DEF V!Started, V!TypeOK
  <2>5. V!TypeOK'
    BY <1>1, <2>2, <2>3, <2>4 DEF V!TypeOK
  <2>6. loop'.todo \subseteq suspended'
    BY <2>1, <2>2, <2>3 DEF ServicesInv, MarkedFirst
  <2> QED BY <2>2, <2>5, <2>6 DEF ServicesInv, MarkedFirst
<1>7. CASE V!Checked
  <2>1. loop' = [loop EXCEPT !.stage = "decide"]
        /\ UNCHANGED <<enabled, running, suspended, guarded, heat, missed, change, faults>>
    BY <1>7 DEF V!Checked
  <2>2. loop' \in Loops /\ loop'.stage = "decide"
    BY <1>1, <2>1 DEF V!Stage
  <2>3. V!TypeOK'
    BY <1>1, <2>1, <2>2 DEF V!TypeOK
  <2> QED BY <2>2, <2>3 DEF ServicesInv, MarkedFirst
<1> QED BY <1>2, <1>3, <1>4, <1>5, <1>6, <1>7

\* A step that leaves the loop alone, or ends its check.
LEMMA OtherStep ==
  ASSUME BoundsAssumption, ServicesInv, UNCHANGED suspended,
         loop' = loop \/ loop' = V!Resting
            \/ loop' = [V!Resting EXCEPT !.stage = "decide", !.loaded = loop.loaded],
         enabled' \subseteq Service, running' \subseteq Service, guarded' \in BOOLEAN,
         heat' \in V!Heat, missed' \in [Service -> 0..Patience],
         change' = Nobody
            \/ change' \in [service : Service, on : BOOLEAN, previous : BOOLEAN],
         faults' \in 0..MaxFaults
  PROVE  ServicesInv'
<1> DEFINE Loops == [stage : V!Stage, todo : SUBSET Service, at : Service \union {Nobody},
                     goes : BOOLEAN, loaded : SUBSET Service]
<1>1. loop \in Loops /\ loop.loaded \subseteq Service /\ suspended' = suspended
      /\ suspended \subseteq Service
  BY DEF ServicesInv, V!TypeOK
<1>2. loop' \in Loops /\ (loop' = loop \/ loop'.stage \in {"start", "decide"})
  BY <1>1, RestingLoop DEF V!Resting, V!Stage
<1> HIDE DEF Loops
<1>3. V!TypeOK'
  BY <1>1, <1>2 DEF V!TypeOK, Loops
<1> QED BY <1>1, <1>2, <1>3 DEF ServicesInv, MarkedFirst

\* Every step of the watchdog, the guardian, the owner and the world.
LEMMA ServicesStep ==
  ASSUME BoundsAssumption, ServicesInv, [V!Next]_serviceVars PROVE ServicesInv'
<1>1. /\ V!TypeOK /\ enabled \subseteq Service /\ running \subseteq Service
      /\ guarded \in BOOLEAN /\ heat \in V!Heat
      /\ missed \in [Service -> 0..Patience] /\ faults \in 0..MaxFaults
      /\ change = Nobody \/ change \in [service : Service, on : BOOLEAN, previous : BOOLEAN]
  BY DEF ServicesInv, V!TypeOK
<1>2. CASE V!Begin \/ V!Suspend \/ V!Stopped \/ V!Recover \/ V!Started \/ V!Checked
  BY <1>2, GuardianStep
<1>3. CASE V!TimeOut
  <2>1. running' \subseteq Service
    BY <1>1, <1>3 DEF V!TimeOut, ServicesInv
  <2>2. faults' \in 0..MaxFaults
    BY <1>1, <1>3, FaultCounts DEF V!TimeOut
  <2>3. loop' = [V!Resting EXCEPT !.stage = "decide", !.loaded = loop.loaded]
        /\ UNCHANGED <<enabled, suspended, guarded, heat, missed, change>>
    BY <1>3 DEF V!TimeOut
  <2> QED BY <1>1, <2>1, <2>2, <2>3, OtherStep
<1>4. CASE V!Decide
  <2>1. faults' \in 0..MaxFaults
    BY <1>1, <1>4, FaultCounts DEF V!Decide
  <2>2. V!Due \subseteq Service
    BY DEF V!Due, V!Watched, ServicesInv, V!TypeOK
  <2>3. running' \subseteq Service
    BY <1>1, <1>4, <2>2 DEF V!Decide
  <2>4. missed' \in [Service -> 0..Patience]
    <3>1. ASSUME NEW s \in Service
          PROVE  (IF s \notin V!Watched THEN missed[s]
                  ELSE IF s \in running \union V!Due THEN 0 ELSE missed[s] + 1) \in 0..Patience
      <4>1. missed[s] \in Nat /\ missed[s] <= Patience /\ Patience \in Nat
        BY <1>1 DEF BoundsAssumption
      <4>2. s \in V!Watched /\ s \notin running \union V!Due => missed[s] + 1 < Patience
        BY <4>1 DEF V!Due
      <4> QED BY <4>1, <4>2
    <3>2. missed' = [s \in Service |->
                       IF s \notin V!Watched THEN missed[s]
                       ELSE IF s \in running \union V!Due THEN 0 ELSE missed[s] + 1]
      BY <1>4 DEF V!Decide
    <3> QED BY <3>1, <3>2
  <2>5. loop' = V!Resting /\ UNCHANGED <<enabled, suspended, guarded, heat, change>>
    BY <1>4 DEF V!Decide
  <2> QED BY <1>1, <2>1, <2>3, <2>4, <2>5, OtherStep
<1>5. CASE V!Set
  <2>1. PICK s \in Service, on \in BOOLEAN :
           /\ change' = [service |-> s, on |-> on, previous |-> (s \in enabled)]
           /\ enabled' = IF on THEN enabled \union {s} ELSE enabled \ {s}
    BY <1>5 DEF V!Set
  <2>2. (s \in enabled) \in BOOLEAN
    OBVIOUS
  <2>3. change' \in [service : Service, on : BOOLEAN, previous : BOOLEAN]
    BY <2>1, <2>2
  <2>4. enabled' \subseteq Service
    BY <1>1, <2>1
  <2>5. UNCHANGED <<running, suspended, guarded, heat, loop, missed, faults>>
    BY <1>5 DEF V!Set
  <2> QED BY <1>1, <2>3, <2>4, <2>5, OtherStep
<1>6. CASE V!Apply
  <2>1. change.service \in Service
    BY <1>1, <1>6 DEF V!Apply
  <2>2. enabled' \subseteq Service /\ running' \subseteq Service
    BY <1>1, <1>6, <2>1 DEF V!Apply
  <2>3. faults' \in 0..MaxFaults
    BY <1>1, <1>6, FaultCounts DEF V!Apply
  <2>4. change' = Nobody /\ UNCHANGED <<suspended, guarded, heat, loop, missed>>
    BY <1>6 DEF V!Apply
  <2> QED BY <1>1, <2>2, <2>3, <2>4, OtherStep
<1>7. CASE V!SetPolicy
  <2>1. guarded' \in BOOLEAN
    BY <1>7 DEF V!SetPolicy
  <2>2. UNCHANGED <<enabled, running, suspended, heat, loop, missed, change, faults>>
    BY <1>7 DEF V!SetPolicy
  <2> QED BY <1>1, <2>1, <2>2, OtherStep
<1>8. CASE V!Warm
  <2>1. UNCHANGED <<enabled, running, suspended, guarded, loop, missed, change, faults>>
        /\ heat' \in V!Heat
    BY <1>8 DEF V!Warm
  <2> QED BY <1>1, <2>1, OtherStep
<1>9. CASE V!OnRequest
  <2>1. running' \subseteq Service
    BY <1>1, <1>9 DEF V!OnRequest, BoundsAssumption
  <2>2. UNCHANGED <<enabled, suspended, guarded, heat, loop, missed, change, faults>>
    BY <1>9 DEF V!OnRequest
  <2> QED BY <1>1, <2>1, <2>2, OtherStep
<1>10. CASE V!Crash
  <2>1. running' \subseteq Service
    BY <1>1, <1>10 DEF V!Crash
  <2>2. faults' \in 0..MaxFaults
    BY <1>1, <1>10, FaultCounts DEF V!Crash
  <2>3. UNCHANGED <<enabled, suspended, guarded, heat, loop, missed, change>>
    BY <1>10 DEF V!Crash
  <2> QED BY <1>1, <2>1, <2>2, <2>3, OtherStep
<1>11. CASE V!Reboot
  <2>1. missed' \in [Service -> 0..Patience]
    BY <1>11 DEF V!Reboot, BoundsAssumption
  <2>2. faults' \in 0..MaxFaults
    BY <1>1, <1>11, FaultCounts DEF V!Reboot
  <2>3. /\ running' = enabled /\ loop' = V!Resting /\ change' = Nobody
        /\ UNCHANGED <<enabled, suspended, guarded, heat>>
    BY <1>11 DEF V!Reboot
  <2> QED BY <1>1, <2>1, <2>2, <2>3, OtherStep
<1>12. CASE UNCHANGED serviceVars
  <2>1. UNCHANGED <<enabled, running, suspended, guarded, heat, loop, missed, change, faults>>
    BY <1>12 DEF serviceVars
  <2> QED BY <1>1, <2>1, OtherStep
<1> QED BY <1>2, <1>3, <1>4, <1>5, <1>6, <1>7, <1>8, <1>9, <1>10, <1>11, <1>12
        DEF V!Next, V!Loop

-----------------------------------------------------------------------------
(* SpeechActivity: what each loop of detect_speech_activity has computed    *)
(* so far, and what it leaves to the next one.                             *)

\* The marks are in the order of their times, starts and ends in turn.
MarksInv ==
    \A i \in DOMAIN marks :
        /\ marks[i].start <=> i % 2 = 1
        /\ \A j \in DOMAIN marks : i < j => marks[i].time < marks[j].time

\* The k-th silence is from one mark to the next, or to the end.
MarkOrEnd(i) == IF i <= Len(marks) THEN S!Clamp(marks[i].time) ELSE duration

PairInv ==
    /\ at <= Len(marks) /\ Len(silences) = at \div 2
    /\ opened = IF at % 2 = 1 THEN S!Clamp(marks[at].time) ELSE S!NoStart
    /\ \A k \in DOMAIN silences : silences[k] = <<MarkOrEnd(2 * k - 1), MarkOrEnd(2 * k)>>

\* What the second loop finds: silences in order, of which only one at the
\* very start or end may be empty, and all that is silent.
Quiet(list) ==
    /\ \A k \in DOMAIN list :
          /\ list[k][1] <= list[k][2] /\ list[k][2] <= duration
          /\ list[k][1] = list[k][2] => list[k][1] \in {0, duration}
          /\ \A l \in DOMAIN list : k < l => list[k][2] <= list[l][1]
    /\ \A tick \in 0..(duration - 1) :
          S!Silent(tick) <=> \E k \in DOMAIN list :
                                list[k][1] <= tick /\ tick < list[k][2]

\* The intervals of the list are what is loud before c, in order and apart.
Sound(list, c) ==
    /\ \A i \in DOMAIN list :
          /\ list[i][1] < list[i][2] /\ list[i][2] <= c
          /\ c < duration => list[i][2] < c
          /\ \A j \in DOMAIN list : i < j => list[i][2] < list[j][1]
    /\ \A tick \in 0..(c - 1) :
          S!Loud(tick) <=> \E i \in DOMAIN list :
                              list[i][1] <= tick /\ tick < list[i][2]

InvertInv ==
    /\ at <= Len(silences)
    /\ cursor = IF at = 0 THEN 0 ELSE silences[at][2]
    /\ Sound(activities, cursor)

\* The starts are the seconds of the first n activities that are speech, in
\* order.
Chosen(n) ==
    /\ \A j \in DOMAIN starts : \E i \in 1..n :
          S!IsSpeech(activities[i]) /\ starts[j] = S!Round(activities[i][1])
    /\ \A i \in 1..n : S!IsSpeech(activities[i]) =>
          \E j \in DOMAIN starts : starts[j] = S!Round(activities[i][1])
    /\ \A j, k \in DOMAIN starts : j < k => starts[j] <= starts[k]

\* The result holds each second of the first n starts once, in order.
Merged(n) ==
    /\ \A k \in DOMAIN unique : \E j \in 1..n : unique[k] = S!Safe(starts[j])
    /\ \A j \in 1..n : \E k \in DOMAIN unique : unique[k] = S!Safe(starts[j])
    /\ \A k, l \in DOMAIN unique : k < l => unique[k] < unique[l]

\* What a loop has not begun to write is empty.
Unwritten ==
    /\ stage = "listen" => at = 0 /\ opened = S!NoStart /\ silences = <<>>
    /\ stage \in {"listen", "pair"} => cursor = 0 /\ activities = <<>>
    /\ stage \in {"listen", "pair", "invert"} => starts = <<>>
    /\ stage \in {"listen", "pair", "invert", "select"} => unique = <<>>

SpeechInv ==
    /\ S!TypeOK /\ MarksInv /\ Unwritten
    /\ stage = "pair" => PairInv
    /\ stage \in {"invert", "select", "unite", "complete"} => Quiet(silences)
    /\ stage = "invert" => InvertInv
    /\ stage \in {"select", "unite", "complete"} => Sound(activities, duration)
    /\ stage = "select" => at <= Len(activities) /\ Chosen(at)
    /\ stage \in {"unite", "complete"} => Chosen(Len(activities))
    /\ stage = "unite" => /\ at <= Len(starts) /\ Merged(at)
                          /\ Len(unique) < MaximumEvents
    /\ stage = "complete" =>
          \E n \in 0..Len(starts) :
              /\ Merged(n)
              /\ Len(unique) <= MaximumEvents
              /\ n = Len(starts) \/ Len(unique) = MaximumEvents

-----------------------------------------------------------------------------
(* Rounding keeps the order.                                               *)

\* Division with rest.
LEMMA WholeSeconds ==
    ASSUME NEW n \in Nat \ {0}, NEW t \in Nat
    PROVE  /\ t \div n \in Nat /\ t % n \in 0..(n - 1)
           /\ t = n * (t \div n) + (t % n)
OBVIOUS

\* A moment is in a later second, or later in the same one.
LEMMA LaterSecond ==
    ASSUME NEW n \in Nat \ {0}, NEW p \in Nat, NEW q \in Nat,
           NEW r \in 0..(n - 1), NEW s \in 0..(n - 1),
           n * p + r <= n * q + s
    PROVE  p < q \/ (p = q /\ r <= s)
<1>1. CASE p > q
  <2>1. PICK k \in Nat : p = q + 1 + k
    <3>1. p - q - 1 \in Nat /\ p = q + 1 + (p - q - 1)
      BY <1>1
    <3> QED BY <3>1
  <2>2. n * p = n * q + n + n * k
    BY <2>1
  <2>3. n * k \in Nat /\ n * q \in Nat
    OBVIOUS
  <2> QED BY <2>2, <2>3
<1>2. CASE p = q
  <2>1. n * p = n * q /\ n * q \in Nat
    BY <1>2
  <2> QED BY <1>2, <2>1
<1> QED BY <1>1, <1>2

\* The rounded start of an interval is a second.
LEMMA RoundType ==
    ASSUME S!TicksAssumption, NEW t \in Nat
    PROVE  S!Round(t) \in Nat
<1>1. Second \in Nat \ {0}
  BY DEF S!TicksAssumption
<1>2. t \div Second \in Nat /\ t % Second \in 0..(Second - 1)
  BY <1>1, WholeSeconds
<1> QED BY <1>2 DEF S!Round

\* round(activity_start) never swaps two starts, ties going to even or not.
LEMMA RoundKeepsOrder ==
    ASSUME S!TicksAssumption, NEW t \in Nat, NEW u \in Nat, t <= u
    PROVE  S!Round(t) <= S!Round(u)
<1>1. Second \in Nat \ {0}
  BY DEF S!TicksAssumption
<1> DEFINE p == t \div Second   r == t % Second
           q == u \div Second   s == u % Second
<1>2. /\ p \in Nat /\ r \in 0..(Second - 1) /\ t = Second * p + r
      /\ q \in Nat /\ s \in 0..(Second - 1) /\ u = Second * q + s
  BY <1>1, WholeSeconds
<1>3. S!Round(t) = IF 2 * r > Second \/ (2 * r = Second /\ p % 2 = 1) THEN p + 1 ELSE p
  BY DEF S!Round
<1>4. S!Round(u) = IF 2 * s > Second \/ (2 * s = Second /\ q % 2 = 1) THEN q + 1 ELSE q
  BY DEF S!Round
<1> HIDE DEF p, q, r, s
<1>5. p < q \/ (p = q /\ r <= s)
  BY <1>1, <1>2, LaterSecond
<1>6. CASE p < q
  BY <1>2, <1>3, <1>4, <1>6
<1>7. CASE p = q /\ r <= s
  BY <1>1, <1>2, <1>3, <1>4, <1>7
<1> QED BY <1>5, <1>6, <1>7

\* min(int(duration), timestamp) keeps the order too.
LEMMA SafeFacts ==
    ASSUME S!TicksAssumption, S!TypeOK
    PROVE  /\ \A s \in Nat : S!Safe(s) \in Nat /\ S!Safe(s) <= duration \div Second
           /\ \A s, t \in Nat : s <= t => S!Safe(s) <= S!Safe(t)
           /\ duration \in Nat /\ duration \div Second \in Nat
<1>1. Second \in Nat \ {0} /\ duration \in Nat
  BY DEF S!TicksAssumption, S!TypeOK
<1>2. duration \div Second \in Nat
  BY <1>1, WholeSeconds
<1> QED BY <1>1, <1>2 DEF S!Safe

\* What clamping the time of a mark to the recording keeps.
LEMMA ClampFacts ==
    ASSUME S!TicksAssumption, S!TypeOK
    PROVE  /\ duration \in Nat
           /\ \A t \in Int : S!Clamp(t) \in 0..duration
           /\ \A t, u \in Int : t <= u => S!Clamp(t) <= S!Clamp(u)
           /\ \A t, u \in Int : t < u /\ S!Clamp(t) = S!Clamp(u) =>
                                   S!Clamp(t) \in {0, duration}
           /\ \A t \in Int, tick \in 0..(duration - 1) :
                 /\ t <= tick <=> S!Clamp(t) <= tick
                 /\ tick < t <=> tick < S!Clamp(t)
<1>1. duration \in Nat
  BY DEF S!TicksAssumption, S!TypeOK
<1> QED BY <1>1 DEF S!Clamp

-----------------------------------------------------------------------------
(* What each loop has computed when it is over.                            *)

\* Two marks for each silence.
LEMMA Halves ==
    ASSUME NEW m \in Nat, NEW i \in 1..m, i % 2 = 1
    PROVE  (i + 1) \div 2 \in 1..((m + 1) \div 2) /\ i = 2 * ((i + 1) \div 2) - 1
<1>1. PICK k \in Nat : i = 2 * k + 1
  <2>1. i \div 2 \in Nat /\ i = 2 * (i \div 2) + 1
    OBVIOUS
  <2> QED BY <2>1
<1>2. (i + 1) \div 2 = k + 1
  BY <1>1
<1>3. k + 1 <= (m + 1) \div 2
  BY <1>1
<1> QED BY <1>1, <1>2, <1>3

\* The pairs of marks are the silences.
LEMMA PairedSilences ==
    ASSUME S!TicksAssumption, S!TypeOK, MarksInv,
           NEW n \in Nat, n = (Len(marks) + 1) \div 2,
           NEW list \in Seq(Nat \X Nat), Len(list) = n,
           \A k \in 1..n : list[k] = <<MarkOrEnd(2 * k - 1), MarkOrEnd(2 * k)>>
    PROVE  Quiet(list)
<1> DEFINE m == Len(marks)   time(i) == marks[i].time
<1>1. /\ m \in Nat /\ DOMAIN marks = 1..m /\ DOMAIN list = 1..n
      /\ \A i \in 1..m : time(i) \in Int
  <2>1. marks \in Seq([start : BOOLEAN, time : Int])
    BY DEF S!TypeOK
  <2>2. m \in Nat /\ DOMAIN marks = 1..m /\ DOMAIN list = 1..n
    BY <2>1, LenProperties
  <2>3. \A i \in 1..m : marks[i] \in [start : BOOLEAN, time : Int]
    BY <2>1, ElementOfSeq, Zenon
  <2>4. \A i \in 1..m : time(i) \in Int
    BY <2>3
  <2> QED BY <2>2, <2>4
<1>2. duration \in Nat
  BY ClampFacts
<1>3. /\ \A i \in 1..m : marks[i].start <=> i % 2 = 1
      /\ \A i, j \in 1..m : i < j => time(i) < time(j)
  BY <1>1 DEF MarksInv
<1>4. \A k \in 1..n : /\ 2 * k - 1 \in 1..m
                      /\ list[k][1] = S!Clamp(time(2 * k - 1))
                      /\ list[k][2] = IF 2 * k <= m THEN S!Clamp(time(2 * k))
                                                        ELSE duration
  BY <1>1 DEF MarkOrEnd
<1> HIDE DEF time
<1>5. \A k \in 1..n : /\ list[k][1] <= list[k][2]
                      /\ list[k][2] <= duration
                      /\ list[k][1] = list[k][2] => list[k][1] \in {0, duration}
  <2> SUFFICES ASSUME NEW k \in 1..n
               PROVE  /\ list[k][1] <= list[k][2]
                      /\ list[k][2] <= duration
                      /\ list[k][1] = list[k][2] => list[k][1] \in {0, duration}
    OBVIOUS
  <2>1. CASE 2 * k <= m
    <3>1. 2 * k \in 1..m /\ 2 * k - 1 < 2 * k
      BY <2>1, <1>1
    <3>2. time(2 * k - 1) < time(2 * k)
      BY <3>1, <1>3, <1>4
    <3>3. time(2 * k - 1) \in Int /\ time(2 * k) \in Int
      BY <3>1, <1>1, <1>4
    <3>4. list[k][1] = S!Clamp(time(2 * k - 1)) /\ list[k][2] = S!Clamp(time(2 * k))
      BY <2>1, <1>4
    <3>5. S!Clamp(time(2 * k - 1)) \in 0..duration /\ S!Clamp(time(2 * k)) \in 0..duration
      BY <3>3, ClampFacts
    <3>6. S!Clamp(time(2 * k - 1)) <= S!Clamp(time(2 * k))
      BY <3>2, <3>3, ClampFacts
    <3>7. S!Clamp(time(2 * k - 1)) = S!Clamp(time(2 * k)) =>
              S!Clamp(time(2 * k - 1)) \in {0, duration}
      BY <3>2, <3>3, ClampFacts
    <3> QED BY <3>4, <3>5, <3>6, <3>7, <1>2
  <2>2. CASE ~(2 * k <= m)
    <3>1. list[k][1] = S!Clamp(time(2 * k - 1)) /\ list[k][2] = duration
      BY <2>2, <1>4
    <3>2. S!Clamp(time(2 * k - 1)) \in 0..duration
      BY <1>1, <1>4, ClampFacts
    <3> QED BY <3>1, <3>2, <1>2
  <2> QED BY <2>1, <2>2
<1>6. \A k, l \in 1..n : k < l => list[k][2] <= list[l][1]
  <2> SUFFICES ASSUME NEW k \in 1..n, NEW l \in 1..n, k < l
               PROVE  list[k][2] <= list[l][1]
    OBVIOUS
  <2>1. 2 * k \in 1..m /\ 2 * l - 1 \in 1..m /\ 2 * k < 2 * l - 1
    BY <1>1, <1>4
  <2>2. time(2 * k) < time(2 * l - 1)
    BY <2>1, <1>3
  <2>3. time(2 * k) \in Int /\ time(2 * l - 1) \in Int
    BY <2>1, <1>1
  <2>4. S!Clamp(time(2 * k)) <= S!Clamp(time(2 * l - 1))
    BY <2>2, <2>3, ClampFacts
  <2>5. list[k][2] = S!Clamp(time(2 * k)) /\ list[l][1] = S!Clamp(time(2 * l - 1))
    BY <2>1, <1>1, <1>4
  <2> QED BY <2>4, <2>5
<1>7. ASSUME NEW tick \in 0..(duration - 1)
      PROVE  S!Silent(tick) <=> \E k \in 1..n : list[k][1] <= tick /\ tick < list[k][2]
  <2>1. \A i \in 1..m : /\ time(i) <= tick <=> S!Clamp(time(i)) <= tick
                        /\ tick < time(i) <=> tick < S!Clamp(time(i))
    BY <1>1, ClampFacts
  <2>2. S!Silent(tick) <=> \E i \in 1..m : /\ i % 2 = 1 /\ time(i) <= tick
                                           /\ i + 1 \in 1..m => tick < time(i + 1)
    BY <1>1, <1>3 DEF S!Silent, time
  <2>3. ASSUME NEW i \in 1..m, i % 2 = 1, time(i) <= tick,
               i + 1 \in 1..m => tick < time(i + 1)
        PROVE  \E k \in 1..n : list[k][1] <= tick /\ tick < list[k][2]
    <3>1. PICK k \in 1..n : i = 2 * k - 1
      <4>1. (i + 1) \div 2 \in 1..n /\ i = 2 * ((i + 1) \div 2) - 1
        BY <1>1, <2>3, Halves
      <4> QED BY <4>1
    <3>2. list[k][1] <= tick
      BY <3>1, <2>3, <2>1, <1>4
    <3>3. tick < list[k][2]
      <4>1. CASE 2 * k <= m
        <5>1. i + 1 = 2 * k /\ 2 * k \in 1..m
          BY <3>1, <4>1, <1>1
        <5> QED BY <5>1, <4>1, <2>3, <2>1, <1>4
      <4>2. CASE ~(2 * k <= m)
        BY <4>2, <1>2, <1>4
      <4> QED BY <4>1, <4>2
    <3> QED BY <3>2, <3>3
  <2>4. ASSUME NEW k \in 1..n, list[k][1] <= tick, tick < list[k][2]
        PROVE  \E i \in 1..m : /\ i % 2 = 1 /\ time(i) <= tick
                               /\ i + 1 \in 1..m => tick < time(i + 1)
    <3>1. 2 * k - 1 \in 1..m /\ (2 * k - 1) % 2 = 1 /\ (2 * k - 1) + 1 = 2 * k
      BY <1>4, <1>1
    <3>2. time(2 * k - 1) <= tick
      BY <3>1, <2>4, <2>1, <1>4
    <3>3. 2 * k \in 1..m => tick < time(2 * k)
      BY <1>1, <2>4, <2>1, <1>4
    <3> QED BY <3>1, <3>2, <3>3
  <2> QED BY <2>2, <2>3, <2>4
<1> QED BY <1>1, <1>5, <1>6, <1>7 DEF Quiet

\* The activities are the stretches of sound.
LEMMA SoundStretches ==
    ASSUME S!TypeOK, duration \in Nat, Sound(activities, duration),
           NEW a \in 0..duration, NEW b \in 0..duration
    PROVE  S!Stretch(a, b) <=> \E i \in DOMAIN activities : activities[i] = <<a, b>>
<1>1. \A i \in DOMAIN activities :
         /\ activities[i][1] \in Nat /\ activities[i][2] \in Nat
         /\ activities[i] = <<activities[i][1], activities[i][2]>>
  <2>1. activities \in Seq(Nat \X Nat)
    BY DEF S!TypeOK
  <2> QED BY <2>1
<1>2. \A i \in DOMAIN activities :
          /\ activities[i][1] < activities[i][2] /\ activities[i][2] <= duration
          /\ \A j \in DOMAIN activities : i < j => activities[i][2] < activities[j][1]
  BY DEF Sound
<1>3. \A t \in Int : S!Loud(t) <=> \E i \in DOMAIN activities :
                                  activities[i][1] <= t /\ t < activities[i][2]
  <2>1. \A t \in 0..(duration - 1) :
           S!Loud(t) <=> \E i \in DOMAIN activities :
                            activities[i][1] <= t /\ t < activities[i][2]
    BY DEF Sound
  <2>2. \A t \in Int : t \notin 0..(duration - 1) =>
           ~S!Loud(t) /\ ~\E i \in DOMAIN activities :
                            activities[i][1] <= t /\ t < activities[i][2]
    BY <1>1, <1>2 DEF S!Loud
  <2> QED BY <2>1, <2>2
<1>4. DOMAIN activities \subseteq Nat
  BY DEF S!TypeOK
<1>5. ASSUME NEW i \in DOMAIN activities, activities[i] = <<a, b>>
      PROVE  S!Stretch(a, b)
  <2>1. activities[i][1] = a /\ activities[i][2] = b /\ a < b
    BY <1>5, <1>2
  <2>2. \A t \in a..(b - 1) : S!Loud(t)
    BY <2>1, <1>3
  <2>3. ~S!Loud(a - 1)
    BY <2>1, <1>1, <1>2, <1>3, <1>4
  <2>4. ~S!Loud(b)
    BY <2>1, <1>1, <1>2, <1>3, <1>4
  <2> QED BY <2>1, <2>2, <2>3, <2>4 DEF S!Stretch
<1>6. ASSUME S!Stretch(a, b)
      PROVE  \E i \in DOMAIN activities : activities[i] = <<a, b>>
  <2>1. a < b /\ (\A t \in a..(b - 1) : S!Loud(t)) /\ ~S!Loud(a - 1) /\ ~S!Loud(b)
    BY <1>6 DEF S!Stretch
  <2>2. PICK i \in DOMAIN activities : activities[i][1] <= a /\ a < activities[i][2]
    BY <2>1, <1>3
  <2>3. activities[i][1] = a
    BY <2>1, <2>2, <1>1, <1>3
  <2>4. ~(b < activities[i][2])
    BY <2>1, <2>2, <1>1, <1>3
  <2>5. ~(activities[i][2] < b)
    <3> SUFFICES ASSUME activities[i][2] < b PROVE FALSE
      OBVIOUS
    <3>1. activities[i][2] \in a..(b - 1)
      BY <1>1, <2>2
    <3>2. PICK j \in DOMAIN activities :
             activities[j][1] <= activities[i][2] /\ activities[i][2] < activities[j][2]
      BY <3>1, <2>1, <1>1, <1>3
    <3> QED BY <3>2, <1>1, <1>2, <1>4
  <2> QED BY <2>3, <2>4, <2>5, <1>1
<1> QED BY <1>5, <1>6

-----------------------------------------------------------------------------
(* The steps.                                                              *)

\* A list that an iteration has added an item to.
LEMMA OneMore ==
    ASSUME NEW T, NEW s \in Seq(T), NEW x \in T
    PROVE  /\ Append(s, x) \in Seq(T) /\ Append(s, x)[Len(s) + 1] = x
           /\ DOMAIN s = 1..Len(s) /\ Len(s) \in Nat
           /\ DOMAIN Append(s, x) = 1..(Len(s) + 1) /\ Len(Append(s, x)) = Len(s) + 1
           /\ \A i \in 1..Len(s) : Append(s, x)[i] = s[i] /\ s[i] \in T
OBVIOUS

\* What depends on the recording and its marks alone.
LEMMA SameRecording ==
    ASSUME UNCHANGED <<duration, marks>>
    PROVE  /\ \A t : S!Clamp(t)' = S!Clamp(t) /\ S!Safe(t)' = S!Safe(t)
           /\ \A a : S!IsSpeech(a)' <=> S!IsSpeech(a)
           /\ \A t : S!Silent(t)' <=> S!Silent(t)
           /\ \A t : S!Loud(t)' <=> S!Loud(t)
           /\ MarksInv => MarksInv'
<1>1. \A t : S!Silent(t)' <=> S!Silent(t)
  BY DEF S!Silent
<1>2. \A t : S!Loud(t)' <=> S!Loud(t)
  BY <1>1 DEF S!Loud
<1> QED BY <1>1, <1>2 DEF S!Clamp, S!Safe, S!IsSpeech, MarksInv

\* What one loop has computed stays while the next ones run.
LEMMA SameSilences ==
    ASSUME UNCHANGED <<duration, marks, silences>>, Quiet(silences)
    PROVE  Quiet(silences)'
<1>1. \A t : S!Silent(t)' <=> S!Silent(t)
  BY SameRecording
<1> QED BY <1>1 DEF Quiet

LEMMA SameSound ==
    ASSUME UNCHANGED <<duration, marks, activities>>, Sound(activities, duration)
    PROVE  Sound(activities, duration)'
<1>1. \A t : S!Loud(t)' <=> S!Loud(t)
  BY SameRecording
<1> QED BY <1>1 DEF Sound

LEMMA SameChoice ==
    ASSUME UNCHANGED <<duration, marks, activities, starts>>, Chosen(Len(activities))
    PROVE  Chosen(Len(activities))'
<1>1. \A a : S!IsSpeech(a)' <=> S!IsSpeech(a)
  BY SameRecording
<1> QED BY <1>1 DEF Chosen

\* Starts and ends of silences take turns.
LEMMA Parity ==
    ASSUME NEW n \in Nat
    PROVE  (n % 2 = 0 <=> (n + 1) % 2 = 1) /\ (n % 2 = 1 <=> (n + 1) % 2 = 0)
OBVIOUS

\* A recording whose analysis has not begun.
LEMMA SpeechInit == ASSUME S!TicksAssumption, S!Init PROVE SpeechInv
<1>1. S!TypeOK
  <2>1. duration \in Duration /\ S!NoStart = -1
    BY DEF S!Init, S!NoStart
  <2> QED BY <2>1 DEF S!TypeOK, S!Init
<1>2. MarksInv /\ Unwritten
  BY DEF MarksInv, Unwritten, S!Init
<1> QED BY <1>1, <1>2 DEF SpeechInv, S!Init

\* FFmpeg's marks come in order.
LEMMA AddMarkKeeps ==
    ASSUME S!TicksAssumption, SpeechInv, S!AddMark
    PROVE  SpeechInv'
<1>1. S!TypeOK /\ MarksInv /\ stage = "listen" /\ stage' = "listen"
  BY DEF SpeechInv, S!AddMark
<1>2. PICK t \in -1..(duration + 1) :
         /\ marks # <<>> => t >= marks[Len(marks)].time +
                               (IF marks[Len(marks)].start THEN MinimumSilence ELSE 1)
         /\ marks' = Append(marks, [start |-> Len(marks) % 2 = 0, time |-> t])
  BY DEF S!AddMark
<1> DEFINE Form == [start : BOOLEAN, time : Int]
           mark == [start |-> Len(marks) % 2 = 0, time |-> t]
<1>3. duration \in Nat /\ marks \in Seq(Form)
  BY <1>1 DEF S!TypeOK, S!TicksAssumption
<1>4. t \in Int /\ mark \in Form
  <2>1. t \in Int
    BY <1>3
  <2>2. (Len(marks) % 2 = 0) \in BOOLEAN
    OBVIOUS
  <2> QED BY <2>1, <2>2
<1>5. /\ mark.time = t /\ (mark.start <=> Len(marks) % 2 = 0)
      /\ marks' = Append(marks, mark)
  BY <1>2
<1> HIDE DEF mark, Form
<1>6. /\ marks' \in Seq(Form)
      /\ Len(marks) \in Nat /\ DOMAIN marks = 1..Len(marks)
      /\ DOMAIN marks' = 1..(Len(marks) + 1) /\ marks'[Len(marks) + 1] = mark
      /\ \A i \in 1..Len(marks) :
            marks'[i] = marks[i] /\ marks[i] \in Form
  BY <1>3, <1>4, <1>5, OneMore
<1>7. S!TypeOK'
  <2>1. marks' \in Seq([start : BOOLEAN, time : Int])
    BY <1>6 DEF Form
  <2> QED BY <1>1, <2>1 DEF S!TypeOK, S!AddMark
<1>8. \A i \in 1..Len(marks) : marks[i].time \in Int
  BY <1>6 DEF Form
<1>9. MarksInv'
  <2>1. \A i \in 1..Len(marks) : /\ marks[i].start <=> i % 2 = 1
                                 /\ \A j \in 1..Len(marks) : i < j => marks[i].time < marks[j].time
    BY <1>1, <1>6 DEF MarksInv
  <2>2. ASSUME NEW i \in 1..Len(marks) PROVE marks[i].time < t
    <3>2. marks # <<>> /\ Len(marks) \in 1..Len(marks)
      BY <1>6, <2>2
    <3>3. MinimumSilence >= 1 /\ MinimumSilence \in Nat
      BY DEF S!TicksAssumption
    <3>4. marks[Len(marks)].time < t
      BY <3>2, <3>3, <1>2, <1>4, <1>8
    <3>5. marks[i].time < marks[Len(marks)].time \/ i = Len(marks)
      BY <2>1, <3>2
    <3> QED BY <3>2, <3>4, <3>5, <1>4, <1>8
  <2>3. (Len(marks) % 2 = 0) <=> ((Len(marks) + 1) % 2 = 1)
    <3>1. Len(marks) \in Nat
      BY <1>6
    <3> QED BY <3>1, Parity
  <2>4. marks'[Len(marks) + 1].start <=> (Len(marks) + 1) % 2 = 1
    BY <2>3, <1>5, <1>6
  <2>5. ASSUME NEW i \in 1..(Len(marks) + 1)
        PROVE  /\ marks'[i].start <=> i % 2 = 1
               /\ \A j \in 1..(Len(marks) + 1) : i < j => marks'[i].time < marks'[j].time
    <3>1. CASE i = Len(marks) + 1
      BY <3>1, <2>4, <1>6
    <3>2. CASE i \in 1..Len(marks)
      <4>1. \A j \in 1..Len(marks) : marks'[j] = marks[j]
        BY <1>6
      <4>2. marks'[Len(marks) + 1].time = t
        BY <1>5, <1>6
      <4>3. marks'[i].start <=> i % 2 = 1
        BY <3>2, <4>1, <2>1
      <4>4. ASSUME NEW j \in 1..(Len(marks) + 1), i < j
            PROVE  marks'[i].time < marks'[j].time
        <5>1. CASE j = Len(marks) + 1
          BY <5>1, <3>2, <4>1, <4>2, <2>2
        <5>2. CASE j \in 1..Len(marks)
          BY <5>2, <4>4, <3>2, <4>1, <2>1
        <5> QED BY <5>1, <5>2, <1>6
      <4> QED BY <4>3, <4>4
    <3> QED BY <3>1, <3>2, <1>6
  <2> QED BY <2>5, <1>6 DEF MarksInv
<1>10. Unwritten'
  BY <1>1 DEF SpeechInv, Unwritten, S!AddMark
<1> QED BY <1>1, <1>7, <1>9, <1>10 DEF SpeechInv

\* The marks are complete: nothing is paired yet.
LEMMA ListenedKeeps ==
    ASSUME S!TicksAssumption, SpeechInv, S!Listened
    PROVE  SpeechInv'
<1>1. /\ S!TypeOK /\ MarksInv /\ at = 0 /\ opened = S!NoStart /\ silences = <<>>
      /\ stage = "listen" /\ stage' = "pair"
      /\ UNCHANGED <<duration, marks, at, opened, silences>>
  BY DEF SpeechInv, S!Listened, Unwritten
<1>2. S!TypeOK'
  BY <1>1 DEF S!TypeOK, S!Listened
<1>3. MarksInv'
  BY <1>1, SameRecording
<1>4. Unwritten'
  BY <1>1 DEF SpeechInv, Unwritten, S!Listened
<1>5. PairInv'
  <2>1. Len(marks) \in Nat
    BY <1>1 DEF S!TypeOK
  <2> QED BY <1>1, <2>1 DEF PairInv
<1> QED BY <1>1, <1>2, <1>3, <1>4, <1>5 DEF SpeechInv

-----------------------------------------------------------------------------
(* The first loop pairs the marks.                                         *)

\* The number of complete silences grows with every second mark.
LEMMA HalfSteps ==
    ASSUME NEW n \in Nat
    PROVE  /\ n % 2 = 0 => (n + 1) \div 2 = n \div 2
           /\ n % 2 = 1 => /\ (n + 1) \div 2 = n \div 2 + 1
                           /\ 2 * (n \div 2 + 1) = n + 1
           /\ n % 2 = 0 => 2 * (n \div 2) = n
           /\ n \div 2 \in Nat /\ n % 2 \in {0, 1}
<1>1. n % 2 = 0 \/ n % 2 = 1
  OBVIOUS
<1>2. CASE n % 2 = 0
  <2>1. n \div 2 \in Nat /\ n = 2 * (n \div 2)
    BY <1>2
  <2>2. PICK k \in Nat : n = 2 * k
    BY <2>1
  <2> QED BY <2>2
<1>3. CASE n % 2 = 1
  <2>1. n \div 2 \in Nat /\ n = 2 * (n \div 2) + 1
    BY <1>3
  <2>2. PICK k \in Nat : n = 2 * k + 1
    BY <2>1
  <2> QED BY <2>2
<1> QED BY <1>1, <1>2, <1>3

\* The times of the marks.
LEMMA MarkFacts ==
    ASSUME S!TicksAssumption, S!TypeOK, MarksInv
    PROVE  /\ Len(marks) \in Nat /\ DOMAIN marks = 1..Len(marks) /\ duration \in Nat
           /\ \A i \in 1..Len(marks) :
                 /\ S!Clamp(marks[i].time) \in 0..duration
                 /\ marks[i].start <=> i % 2 = 1
                 /\ \A j \in 1..Len(marks) :
                       i < j => S!Clamp(marks[i].time) <= S!Clamp(marks[j].time)
<1>1. Len(marks) \in Nat /\ DOMAIN marks = 1..Len(marks)
  BY DEF S!TypeOK
<1>2. \A i \in 1..Len(marks) : marks[i].time \in Int
  <2>1. marks \in Seq([start : BOOLEAN, time : Int])
    BY DEF S!TypeOK
  <2>2. \A i \in 1..Len(marks) : marks[i] \in [start : BOOLEAN, time : Int]
    BY <2>1, ElementOfSeq, Zenon
  <2> QED BY <2>2
<1>3. ASSUME NEW i \in 1..Len(marks), NEW j \in 1..Len(marks), i < j
      PROVE  S!Clamp(marks[i].time) <= S!Clamp(marks[j].time)
  <2>1. marks[i].time <= marks[j].time
    BY <1>1, <1>2, <1>3 DEF MarksInv
  <2> QED BY <2>1, <1>2, ClampFacts
<1> QED BY <1>1, <1>2, <1>3, ClampFacts DEF MarksInv

\* A mark opens a silence or closes the open one.
LEMMA PairKeeps ==
    ASSUME S!TicksAssumption, SpeechInv, S!Pair
    PROVE  SpeechInv'
<1> DEFINE mark == marks[at + 1]   t == S!Clamp(mark.time)
<1>1. /\ S!TypeOK /\ MarksInv /\ PairInv /\ Unwritten
      /\ stage = "pair" /\ stage' = "pair" /\ at < Len(marks) /\ at' = at + 1
      /\ UNCHANGED <<duration, marks>>
  BY DEF SpeechInv, S!Pair, S!Item
<1>2. /\ opened' = IF mark.start THEN t ELSE S!NoStart
      /\ silences' = IF mark.start \/ opened = S!NoStart THEN silences
                     ELSE Append(silences, <<opened, S!Later(opened, t)>>)
      /\ UNCHANGED <<cursor, activities, starts, unique>>
  BY DEF S!Pair
<1> HIDE DEF mark, t
<1>3. at \in Nat /\ at + 1 \in 1..Len(marks) /\ Len(marks) \in Nat
  BY <1>1 DEF S!TypeOK
<1>4. t \in 0..duration /\ duration \in Nat /\ (mark.start <=> (at + 1) % 2 = 1)
  BY <1>1, <1>3, MarkFacts DEF mark, t
<1>5. /\ silences \in Seq(Nat \X Nat) /\ Len(silences) = at \div 2
      /\ opened = IF at % 2 = 1 THEN S!Clamp(marks[at].time) ELSE S!NoStart
      /\ DOMAIN silences = 1..Len(silences)
      /\ \A k \in 1..Len(silences) :
            silences[k] = <<MarkOrEnd(2 * k - 1), MarkOrEnd(2 * k)>>
  <2>1. silences \in Seq(Nat \X Nat)
    BY <1>1 DEF S!TypeOK
  <2>2. DOMAIN silences = 1..Len(silences)
    BY <2>1, LenProperties
  <2> QED BY <1>1, <2>1, <2>2 DEF PairInv
<1>6. MarksInv' /\ Unwritten'
  BY <1>1, <1>2, SameRecording DEF Unwritten
<1>7. \A i : MarkOrEnd(i)' = MarkOrEnd(i)
  BY <1>1, SameRecording DEF MarkOrEnd
<1>8. t = MarkOrEnd(at + 1)
  BY <1>3 DEF MarkOrEnd, t, mark
<1>9. CASE at % 2 = 0
  <2>1. (at + 1) % 2 = 1 /\ (at + 1) \div 2 = at \div 2
    BY <1>3, <1>9, Parity, HalfSteps
  <2>2. opened' = t /\ silences' = silences
    BY <2>1, <1>2, <1>4
  <2>3. S!TypeOK'
    BY <2>2, <1>1, <1>2, <1>3, <1>4 DEF S!TypeOK
  <2>4. opened' = (S!Clamp(marks[at].time))'
    BY <2>2, <1>1 DEF t, mark, S!Clamp
  <2>5. at' <= Len(marks') /\ Len(silences') = at' \div 2 /\ at' % 2 = 1
    BY <2>1, <2>2, <1>1, <1>3, <1>5
  <2>6. \A k \in DOMAIN silences' :
           silences'[k] = <<MarkOrEnd(2 * k - 1)', MarkOrEnd(2 * k)'>>
    BY <2>2, <1>5, <1>7
  <2>7. PairInv'
    BY <2>4, <2>5, <2>6 DEF PairInv
  <2> QED BY <2>3, <2>7, <1>1, <1>6 DEF SpeechInv
<1>10. CASE at % 2 = 1
  <2> DEFINE n == at \div 2 + 1
  <2>1. /\ ~((at + 1) % 2 = 1) /\ (at + 1) \div 2 = n /\ 2 * n = at + 1
        /\ n - 1 = at \div 2 /\ n \in Nat
    BY <1>3, <1>10, Parity, HalfSteps
  <2>2. at \in 1..Len(marks)
    BY <1>3, <1>10
  <2>3. opened = MarkOrEnd(at) /\ opened \in 0..duration /\ opened <= t
    <3>1. opened = S!Clamp(marks[at].time)
      BY <1>5, <1>10
    <3>2. t = S!Clamp(marks[at + 1].time)
      BY DEF t, mark
    <3> QED BY <3>1, <3>2, <2>2, <1>1, <1>3, MarkFacts DEF MarkOrEnd
  <2>4. opened # S!NoStart /\ S!Later(opened, t) = t
    BY <2>3, <1>4 DEF S!NoStart, S!Later
  <2>5. opened' = S!NoStart /\ silences' = Append(silences, <<opened, t>>)
    BY <2>1, <2>4, <1>2, <1>4
  <2>6. <<opened, t>> \in Nat \X Nat
    BY <2>3, <1>4
  <2>7. /\ silences' \in Seq(Nat \X Nat) /\ silences'[Len(silences) + 1] = <<opened, t>>
        /\ DOMAIN silences' = 1..(Len(silences) + 1) /\ Len(silences') = Len(silences) + 1
        /\ \A k \in 1..Len(silences) : silences'[k] = silences[k]
    BY <2>5, <2>6, <1>5, OneMore
  <2>8. S!TypeOK'
    BY <2>5, <2>7, <1>1, <1>2, <1>3 DEF S!TypeOK, S!NoStart
  <2>9. \A k \in 1..n : silences'[k] = <<MarkOrEnd(2 * k - 1), MarkOrEnd(2 * k)>>
    <3>1. silences'[n] = <<MarkOrEnd(2 * n - 1), MarkOrEnd(2 * n)>>
      <4>1. 2 * n - 1 = at
        BY <2>1, <1>3
      <4> QED BY <4>1, <2>1, <2>3, <2>7, <1>5, <1>8
    <3>2. \A k \in 1..n : k = n \/ k \in 1..Len(silences)
      BY <2>1, <1>5
    <3> QED BY <3>1, <3>2, <2>7, <1>5
  <2>10. DOMAIN silences' = 1..n /\ Len(silences') = n
    BY <2>1, <2>7, <1>5
  <2> HIDE DEF n
  <2>11. at' <= Len(marks') /\ Len(silences') = at' \div 2 /\ ~(at' % 2 = 1)
    BY <2>1, <2>10, <1>1, <1>3
  <2>12. \A k \in DOMAIN silences' :
            silences'[k] = <<MarkOrEnd(2 * k - 1)', MarkOrEnd(2 * k)'>>
    BY <2>9, <2>10, <1>7
  <2>13. opened' = S!NoStart'
    BY <2>5 DEF S!NoStart
  <2>14. PairInv'
    BY <2>11, <2>12, <2>13 DEF PairInv
  <2> QED BY <2>8, <2>14, <1>1, <1>6 DEF SpeechInv
<1> QED BY <1>3, <1>9, <1>10, HalfSteps

\* The open silence lasts to the end: the silences are what is silent.
LEMMA PairedKeeps ==
    ASSUME S!TicksAssumption, SpeechInv, S!Paired
    PROVE  SpeechInv'
<1>1. /\ S!TypeOK /\ MarksInv /\ PairInv /\ Unwritten
      /\ stage = "pair" /\ stage' = "invert" /\ at = Len(marks) /\ at' = 0
      /\ UNCHANGED <<duration, marks, opened, cursor, activities, starts, unique>>
      /\ silences' = IF opened = S!NoStart THEN silences
                     ELSE Append(silences, <<opened, duration>>)
  BY DEF SpeechInv, S!Paired, S!Over
<1>2. at \in Nat /\ duration \in Nat
  BY <1>1, ClampFacts DEF S!TypeOK
<1>3. /\ silences \in Seq(Nat \X Nat) /\ Len(silences) = at \div 2
      /\ opened = IF at % 2 = 1 THEN S!Clamp(marks[at].time) ELSE S!NoStart
      /\ DOMAIN silences = 1..Len(silences)
      /\ \A k \in 1..Len(silences) :
            silences[k] = <<MarkOrEnd(2 * k - 1), MarkOrEnd(2 * k)>>
  <2>1. silences \in Seq(Nat \X Nat)
    BY <1>1 DEF S!TypeOK
  <2>2. DOMAIN silences = 1..Len(silences)
    BY <2>1, LenProperties
  <2> QED BY <1>1, <2>1, <2>2 DEF PairInv
<1> DEFINE n == (Len(marks) + 1) \div 2
<1>4. /\ n \in Nat /\ Len(silences') = n /\ silences' \in Seq(Nat \X Nat)
      /\ \A k \in 1..n : silences'[k] = <<MarkOrEnd(2 * k - 1), MarkOrEnd(2 * k)>>
  <2>1. CASE at % 2 = 0
    <3>1. n = at \div 2 /\ n \in Nat
      BY <2>1, <1>1, <1>2, HalfSteps
    <3>2. silences' = silences
      BY <2>1, <1>1, <1>3
    <3> QED BY <3>1, <3>2, <1>3
  <2>2. CASE at % 2 = 1
    <3>1. n = at \div 2 + 1 /\ n \in Nat /\ 2 * n = at + 1
      BY <2>2, <1>1, <1>2, HalfSteps
    <3>2. opened = MarkOrEnd(at) /\ opened \in 0..duration
      BY <2>2, <1>1, <1>2, <1>3, MarkFacts DEF MarkOrEnd
    <3>3. silences' = Append(silences, <<opened, duration>>)
      BY <3>2, <1>1, <1>2 DEF S!NoStart
    <3>4. <<opened, duration>> \in Nat \X Nat
      BY <3>2, <1>2
    <3>5. /\ silences' \in Seq(Nat \X Nat)
          /\ silences'[Len(silences) + 1] = <<opened, duration>>
          /\ Len(silences') = Len(silences) + 1
          /\ \A k \in 1..Len(silences) : silences'[k] = silences[k]
      BY <3>3, <3>4, <1>3, OneMore
    <3>6. MarkOrEnd(2 * n) = duration /\ MarkOrEnd(2 * n - 1) = opened
      BY <3>1, <3>2, <1>1, <1>2 DEF MarkOrEnd
    <3> HIDE DEF n
    <3>7. \A k \in 1..n : k = n \/ k \in 1..Len(silences)
      BY <3>1, <1>2, <1>3
    <3>8. Len(silences) + 1 = n
      BY <3>1, <1>3
    <3> QED BY <3>1, <3>5, <3>6, <3>7, <3>8, <1>3
  <2> QED BY <2>1, <2>2, <1>2, HalfSteps
<1>5. S!TypeOK'
  BY <1>1, <1>4 DEF S!TypeOK
<1>6. MarksInv' /\ Unwritten'
  BY <1>1, SameRecording DEF Unwritten
<1>7. Quiet(silences')
  BY <1>1, <1>4, PairedSilences
<1>8. Quiet(silences)'
  <2>1. \A t : S!Silent(t)' <=> S!Silent(t)
    BY <1>1, SameRecording
  <2> QED BY <1>1, <1>7, <2>1 DEF Quiet
<1>9. InvertInv'
  <2>1. cursor = 0 /\ activities = <<>>
    BY <1>1 DEF Unwritten
  <2> QED BY <2>1, <1>1, <1>4 DEF InvertInv, Sound
<1> QED BY <1>1, <1>5, <1>6, <1>8, <1>9 DEF SpeechInv

-----------------------------------------------------------------------------
(* The second loop finds what is loud.                                     *)

\* Ticks of a stretch of the recording; numbers beyond another one.
LEMMA Within ==
    /\ \A d \in Nat : \A c \in 0..d : \A u \in c..d : \A t \in c..(u - 1) :
          t \in 0..(d - 1) /\ c <= t /\ t < u
    /\ \A k, n \in Int : ~(k <= n) => k = n + 1 \/ n + 1 < k
    /\ \A n \in Nat : \A k \in 1..(n + 1) : k = n + 1 \/ k \in 1..n
OBVIOUS

\* The cursor passes a silence that begins where it stands.
LEMMA SilenceGoesOn ==
    ASSUME duration \in Nat, NEW list \in Seq(Nat \X Nat),
           NEW c \in 0..duration, NEW v \in c..duration, Sound(list, c),
           \A tick \in c..(v - 1) : ~S!Loud(tick)
    PROVE  Sound(list, v)
<1>1. /\ DOMAIN list = 1..Len(list) /\ Len(list) \in Nat
      /\ \A i \in DOMAIN list : list[i] \in Nat \X Nat
  OBVIOUS
<1>2. \A i \in DOMAIN list : list[i][1] \in Nat /\ list[i][2] \in Nat
  BY <1>1
<1>3. \A i \in DOMAIN list :
         /\ list[i][1] < list[i][2] /\ list[i][2] <= c
         /\ c < duration => list[i][2] < c
         /\ \A j \in DOMAIN list : i < j => list[i][2] < list[j][1]
  BY DEF Sound
<1>4. \A i \in DOMAIN list : list[i][2] <= v /\ (v < duration => list[i][2] < v)
  BY <1>2, <1>3
<1>5. ASSUME NEW tick \in 0..(v - 1)
      PROVE  S!Loud(tick) <=> \E i \in DOMAIN list : list[i][1] <= tick /\ tick < list[i][2]
  <2>1. CASE tick < c
    <3>1. tick \in 0..(c - 1)
      BY <2>1
    <3> QED BY <3>1 DEF Sound
  <2>2. CASE c <= tick
    <3>1. tick \in c..(v - 1)
      BY <2>2
    <3>2. \A i \in DOMAIN list : ~(tick < list[i][2])
      BY <2>2, <1>2, <1>3
    <3> QED BY <3>1, <3>2
  <2> QED BY <2>1, <2>2
<1> QED BY <1>3, <1>4, <1>5 DEF Sound

\* The cursor passes an interval of sound and the silence after it.
LEMMA SoundGoesOn ==
    ASSUME duration \in Nat, NEW list \in Seq(Nat \X Nat),
           NEW c \in 0..duration, NEW u \in (c + 1)..duration, Sound(list, c),
           \A tick \in c..(u - 1) : S!Loud(tick),
           NEW v \in u..duration, u = v => v = duration,
           \A tick \in u..(v - 1) : ~S!Loud(tick)
    PROVE  Sound(Append(list, <<c, u>>), v)
<1> DEFINE n == Len(list) + 1   more == Append(list, <<c, u>>)
<1>1. /\ DOMAIN list = 1..Len(list) /\ Len(list) \in Nat
      /\ \A i \in DOMAIN list : list[i] \in Nat \X Nat
  OBVIOUS
<1>2. \A i \in DOMAIN list : list[i][1] \in Nat /\ list[i][2] \in Nat
  BY <1>1
<1>3. <<c, u>> \in Nat \X Nat
  OBVIOUS
<1>4. /\ DOMAIN more = 1..n /\ more[n] = <<c, u>>
      /\ \A i \in 1..Len(list) : more[i] = list[i]
  BY <1>3, OneMore
<1> HIDE DEF more
<1>5. more[n][1] = c /\ more[n][2] = u
  BY <1>4
<1>6. \A i \in 1..n : i = n \/ i \in DOMAIN list
  BY <1>1, Within, Zenon
<1>7. \A i \in DOMAIN list :
         /\ list[i][1] < list[i][2] /\ list[i][2] < c /\ more[i] = list[i]
         /\ \A j \in DOMAIN list : i < j => list[i][2] < list[j][1]
  BY <1>1, <1>4 DEF Sound
<1>8. ASSUME NEW i \in 1..n
      PROVE  /\ more[i][1] < more[i][2] /\ more[i][2] <= v
             /\ v < duration => more[i][2] < v
             /\ \A j \in 1..n : i < j => more[i][2] < more[j][1]
  <2>1. CASE i = n
    BY <2>1, <1>1, <1>5
  <2>2. CASE i \in DOMAIN list
    <3>1. more[i] = list[i] /\ list[i][1] < list[i][2] /\ list[i][2] < c
      BY <2>2, <1>7
    <3>2. list[i][1] \in Nat /\ list[i][2] \in Nat
      BY <2>2, <1>2
    <3>3. \A j \in 1..n : i < j => list[i][2] < more[j][1]
      BY <2>2, <3>1, <1>5, <1>6, <1>7
    <3> QED BY <3>1, <3>2, <3>3
  <2> QED BY <2>1, <2>2, <1>6
<1>9. ASSUME NEW tick \in 0..(v - 1)
      PROVE  S!Loud(tick) <=> \E i \in 1..n : more[i][1] <= tick /\ tick < more[i][2]
  <2>1. CASE tick < c
    <3>1. tick \in 0..(c - 1)
      BY <2>1
    <3>2. S!Loud(tick) <=> \E i \in DOMAIN list : list[i][1] <= tick /\ tick < list[i][2]
      BY <3>1 DEF Sound
    <3>3. \A i \in 1..n : more[i][1] <= tick => i \in DOMAIN list /\ more[i] = list[i]
      BY <2>1, <1>5, <1>6, <1>7
    <3>4. \A i \in DOMAIN list : i \in 1..n /\ more[i] = list[i]
      BY <1>1, <1>7
    <3> QED BY <3>2, <3>3, <3>4
  <2>2. CASE c <= tick /\ tick < u
    <3>1. tick \in c..(u - 1) /\ n \in 1..n
      BY <2>2, <1>1
    <3> QED BY <2>2, <3>1, <1>5
  <2>3. CASE u <= tick
    <3>1. tick \in u..(v - 1)
      BY <2>3
    <3>2. \A i \in 1..n : ~(tick < more[i][2])
      <4> SUFFICES ASSUME NEW i \in 1..n PROVE ~(tick < more[i][2])
        OBVIOUS
      <4>1. CASE i = n
        BY <4>1, <2>3, <1>5
      <4>2. CASE i \in DOMAIN list
        <5>1. more[i] = list[i] /\ list[i][2] < c /\ list[i][2] \in Nat
          BY <4>2, <1>2, <1>7
        <5>2. c \in Nat /\ u \in Nat /\ tick \in Nat /\ c < u /\ u <= tick
          BY <2>3
        <5>3. \A e, x, y, z \in Nat : e < x /\ x < y /\ y <= z => ~(z < e)
          OBVIOUS
        <5>4. ~(tick < list[i][2])
          BY <5>1, <5>2, <5>3, Zenon
        <5> QED BY <5>1, <5>4, Zenon
      <4> QED BY <4>1, <4>2, <1>6
    <3> QED BY <3>1, <3>2
  <2> QED BY <2>1, <2>2, <2>3
<1>10. Sound(more, v)
  <2>1. DOMAIN more = 1..n
    BY <1>4
  <2> QED BY <2>1, <1>8, <1>9 DEF Sound
<1> QED BY <1>10 DEF more

\* The interval before a silence is loud, and the silence is not.
LEMMA AroundSilence ==
    ASSUME duration \in Nat, silences \in Seq(Nat \X Nat), Quiet(silences),
           NEW n \in 0..Len(silences), NEW c,
           c = IF n = 0 THEN 0 ELSE silences[n][2]
    PROVE  /\ c \in 0..duration
           /\ n < Len(silences) =>
                 /\ silences[n + 1][1] \in c..duration
                 /\ silences[n + 1][2] \in (silences[n + 1][1])..duration
                 /\ silences[n + 1][1] = silences[n + 1][2] =>
                       silences[n + 1][1] \in {0, duration}
                 /\ \A tick \in c..(silences[n + 1][1] - 1) : S!Loud(tick)
                 /\ \A tick \in silences[n + 1][1]..(silences[n + 1][2] - 1) : ~S!Loud(tick)
           /\ n = Len(silences) => \A tick \in c..(duration - 1) : S!Loud(tick)
<1>1. /\ DOMAIN silences = 1..Len(silences) /\ Len(silences) \in Nat
      /\ \A k \in 1..Len(silences) : silences[k] \in Nat \X Nat
  OBVIOUS
<1>2. \A k \in 1..Len(silences) : silences[k][1] \in Nat /\ silences[k][2] \in Nat
  BY <1>1
<1>3. \A k \in 1..Len(silences) :
         /\ silences[k][1] <= silences[k][2] /\ silences[k][2] <= duration
         /\ silences[k][1] = silences[k][2] => silences[k][1] \in {0, duration}
         /\ \A l \in 1..Len(silences) : k < l => silences[k][2] <= silences[l][1]
  BY <1>1 DEF Quiet
<1>4. \A tick \in 0..(duration - 1) :
         S!Loud(tick) <=> \A k \in 1..Len(silences) :
                             ~(silences[k][1] <= tick /\ tick < silences[k][2])
  BY <1>1 DEF Quiet, S!Loud
<1>5. c \in 0..duration
  BY <1>2, <1>3
<1>6. \A k \in 1..Len(silences) : k <= n => silences[k][2] <= c
  <2> SUFFICES ASSUME NEW k \in 1..Len(silences), k <= n PROVE silences[k][2] <= c
    OBVIOUS
  <2>1. n \in 1..Len(silences) /\ c = silences[n][2] /\ (k = n \/ k < n)
    BY <1>1
  <2>2. silences[k][2] \in Nat /\ silences[n][1] \in Nat /\ silences[n][2] \in Nat
    BY <2>1, <1>2
  <2>3. silences[n][1] <= silences[n][2]
    BY <2>1, <1>3
  <2>4. k < n => silences[k][2] <= silences[n][1]
    BY <2>1, <1>3
  <2> QED BY <2>1, <2>2, <2>3, <2>4
<1>7. ASSUME n < Len(silences)
      PROVE  /\ silences[n + 1][1] \in c..duration
             /\ silences[n + 1][2] \in (silences[n + 1][1])..duration
             /\ silences[n + 1][1] = silences[n + 1][2] =>
                   silences[n + 1][1] \in {0, duration}
             /\ \A tick \in c..(silences[n + 1][1] - 1) : S!Loud(tick)
             /\ \A tick \in silences[n + 1][1]..(silences[n + 1][2] - 1) : ~S!Loud(tick)
  <2>1. n + 1 \in 1..Len(silences)
    BY <1>7, <1>1
  <2>2. silences[n + 1][1] \in c..duration
    <3>1. silences[n + 1][1] \in Nat /\ silences[n + 1][1] <= duration
      BY <2>1, <1>2, <1>3
    <3>2. CASE n = 0
      BY <3>1, <3>2
    <3>3. CASE n # 0
      <4>1. n \in 1..Len(silences) /\ n < n + 1 /\ c = silences[n][2]
        BY <3>3
      <4>2. silences[n][2] <= silences[n + 1][1]
        BY <4>1, <2>1, <1>3
      <4> QED BY <3>1, <4>1, <4>2, <1>5
    <3> QED BY <3>2, <3>3
  <2>3. \A k \in 1..Len(silences) : k <= n \/ silences[n + 1][1] <= silences[k][1]
    <3> SUFFICES ASSUME NEW k \in 1..Len(silences), ~(k <= n)
                 PROVE  silences[n + 1][1] <= silences[k][1]
      OBVIOUS
    <3>1. k = n + 1 \/ n + 1 < k
      <4>1. k \in Int /\ n \in Int /\ ~(k <= n)
        BY <1>1
      <4> QED BY <4>1, Within, Zenon
    <3>2. n + 1 < k => silences[n + 1][2] <= silences[k][1]
      BY <2>1, <1>3
    <3> QED BY <3>1, <3>2, <2>1, <1>2, <1>3
  <2>4. ASSUME NEW tick \in c..(silences[n + 1][1] - 1) PROVE S!Loud(tick)
    <3>0. c \in Nat /\ silences[n + 1][1] \in Nat
      BY <2>1, <1>2, <1>5
    <3>1. tick \in 0..(duration - 1) /\ c <= tick /\ tick < silences[n + 1][1]
      BY <2>2, <1>5, Within, SMTT(30)
    <3>2. \A k \in 1..Len(silences) : ~(silences[k][1] <= tick /\ tick < silences[k][2])
      <4> SUFFICES ASSUME NEW k \in 1..Len(silences), silences[k][1] <= tick,
                          tick < silences[k][2]
                   PROVE  FALSE
        OBVIOUS
      <4>1. /\ c <= tick /\ tick < silences[n + 1][1]
            /\ silences[n + 1][1] \in Nat /\ c \in Nat
        BY <3>0, <3>1
      <4>2. silences[k][1] \in Nat /\ silences[k][2] \in Nat
        BY <1>2
      <4>3. CASE k <= n
        BY <4>1, <4>2, <4>3, <1>6
      <4>4. CASE silences[n + 1][1] <= silences[k][1]
        BY <4>1, <4>2, <4>4
      <4> QED BY <4>3, <4>4, <2>3
    <3> QED BY <3>1, <3>2, <1>4
  <2>5. ASSUME NEW tick \in silences[n + 1][1]..(silences[n + 1][2] - 1) PROVE ~S!Loud(tick)
    <3>1. tick \in 0..(duration - 1) /\ silences[n + 1][1] <= tick /\ tick < silences[n + 1][2]
      BY <2>1, <1>2, <1>3
    <3> QED BY <3>1, <2>1, <1>4
  <2> QED BY <2>1, <2>2, <2>4, <2>5, <1>2, <1>3
<1>8. ASSUME n = Len(silences), NEW tick \in c..(duration - 1) PROVE S!Loud(tick)
  <2>1. tick \in 0..(duration - 1)
    BY <1>5
  <2>2. \A k \in 1..Len(silences) : ~(tick < silences[k][2])
    BY <1>2, <1>5, <1>6, <1>8
  <2> QED BY <2>1, <2>2, <1>4
<1> QED BY <1>5, <1>7, <1>8

\* The interval before a silence is added, unless it is empty.
LEMMA InvertKeeps ==
    ASSUME S!TicksAssumption, SpeechInv, S!Invert
    PROVE  SpeechInv'
<1> DEFINE s == silences[at + 1]   v == S!Later(cursor, s[2])
<1>1. /\ S!TypeOK /\ MarksInv /\ Unwritten /\ Quiet(silences) /\ InvertInv
      /\ stage = "invert" /\ stage' = "invert" /\ at < Len(silences) /\ at' = at + 1
      /\ UNCHANGED <<duration, marks, opened, silences, starts, unique>>
      /\ activities' = IF s[1] > cursor THEN Append(activities, <<cursor, s[1]>>)
                       ELSE activities
      /\ cursor' = v
  BY DEF SpeechInv, S!Invert, S!Item
<1>2. /\ duration \in Nat /\ at \in Nat /\ cursor \in Nat
      /\ silences \in Seq(Nat \X Nat) /\ activities \in Seq(Nat \X Nat)
  BY <1>1, ClampFacts DEF S!TypeOK
<1>3. Len(silences) \in Nat /\ at \in 0..Len(silences)
  BY <1>1, <1>2
<1>4. cursor = (IF at = 0 THEN 0 ELSE silences[at][2]) /\ Sound(activities, cursor)
  BY <1>1 DEF InvertInv
<1>5. /\ cursor \in 0..duration /\ s[1] \in cursor..duration /\ s[2] \in (s[1])..duration
      /\ s[1] = s[2] => s[1] \in {0, duration}
      /\ \A tick \in cursor..(s[1] - 1) : S!Loud(tick)
      /\ \A tick \in s[1]..(s[2] - 1) : ~S!Loud(tick)
  BY <1>1, <1>2, <1>3, <1>4, AroundSilence
<1> HIDE DEF s
<1>6. v = s[2] /\ v \in 0..duration
  BY <1>5 DEF S!Later
<1>7. activities' \in Seq(Nat \X Nat) /\ Sound(activities', v)
  <2>1. CASE s[1] > cursor
    <3>1. activities' = Append(activities, <<cursor, s[1]>>)
      BY <2>1, <1>1
    <3>2. s[1] \in (cursor + 1)..duration /\ (s[1] = s[2] => s[2] = duration)
      BY <2>1, <1>2, <1>5
    <3>3. activities' \in Seq(Nat \X Nat)
      <4>1. cursor \in Nat /\ s[1] \in Nat
        BY <1>2, <1>5
      <4>2. Append(activities, <<cursor, s[1]>>) \in Seq(Nat \X Nat)
        BY <4>1, <1>2
      <4> QED BY <4>2, <3>1
    <3>4. Sound(Append(activities, <<cursor, s[1]>>), s[2])
      BY <3>2, <1>2, <1>4, <1>5, SoundGoesOn
    <3> QED BY <3>1, <3>3, <3>4, <1>6
  <2>2. CASE ~(s[1] > cursor)
    <3>1. activities' = activities /\ s[1] = cursor
      BY <2>2, <1>1, <1>2, <1>5
    <3>2. Sound(activities, s[2])
      BY <3>1, <1>2, <1>4, <1>5, SilenceGoesOn
    <3> QED BY <3>1, <3>2, <1>2, <1>6
  <2> QED BY <2>1, <2>2
<1> HIDE DEF v
<1>8. InvertInv'
  <2>1. at' <= Len(silences') /\ at' # 0 /\ cursor' = silences'[at'][2]
    BY <1>1, <1>2, <1>3, <1>6 DEF s
  <2>2. \A t : S!Loud(t)' <=> S!Loud(t)
    BY <1>1, SameRecording
  <2>3. Sound(activities, cursor)'
    BY <1>1, <1>7, <2>2 DEF Sound
  <2> QED BY <2>1, <2>3 DEF InvertInv
<1>9. S!TypeOK'
  BY <1>1, <1>2, <1>6, <1>7 DEF S!TypeOK
<1>10. MarksInv' /\ Unwritten' /\ Quiet(silences)'
  BY <1>1, SameRecording, SameSilences DEF Unwritten
<1> QED BY <1>1, <1>8, <1>9, <1>10 DEF SpeechInv

\* So is the one after the last silence: the activities are what is loud.
LEMMA InvertedKeeps ==
    ASSUME S!TicksAssumption, SpeechInv, S!Inverted
    PROVE  SpeechInv'
<1>1. /\ S!TypeOK /\ MarksInv /\ Unwritten /\ Quiet(silences) /\ InvertInv
      /\ stage = "invert" /\ stage' = "select" /\ at = Len(silences) /\ at' = 0
      /\ UNCHANGED <<duration, marks, opened, silences, cursor, starts, unique>>
      /\ activities' = IF duration > cursor THEN Append(activities, <<cursor, duration>>)
                       ELSE activities
  BY DEF SpeechInv, S!Inverted, S!Over
<1>2. /\ duration \in Nat /\ cursor \in Nat
      /\ silences \in Seq(Nat \X Nat) /\ activities \in Seq(Nat \X Nat)
  BY <1>1, ClampFacts DEF S!TypeOK
<1>3. Len(silences) \in Nat /\ at \in 0..Len(silences)
  BY <1>1, <1>2
<1>4. cursor = (IF at = 0 THEN 0 ELSE silences[at][2]) /\ Sound(activities, cursor)
  BY <1>1 DEF InvertInv
<1>5. cursor \in 0..duration /\ \A tick \in cursor..(duration - 1) : S!Loud(tick)
  BY <1>1, <1>2, <1>3, <1>4, AroundSilence
<1>6. activities' \in Seq(Nat \X Nat) /\ Sound(activities', duration)
  <2>1. CASE duration > cursor
    <3>1. activities' = Append(activities, <<cursor, duration>>)
      BY <2>1, <1>1
    <3>2. duration \in (cursor + 1)..duration /\ duration \in duration..duration
      BY <2>1, <1>2
    <3>3. \A tick \in duration..(duration - 1) : ~S!Loud(tick)
      BY <1>2
    <3>4. Sound(Append(activities, <<cursor, duration>>), duration)
      BY <3>2, <3>3, <1>2, <1>4, <1>5, SoundGoesOn, Zenon
    <3>5. activities' \in Seq(Nat \X Nat)
      <4>1. Append(activities, <<cursor, duration>>) \in Seq(Nat \X Nat)
        BY <1>2
      <4> QED BY <4>1, <3>1
    <3> QED BY <3>1, <3>4, <3>5
  <2>2. CASE ~(duration > cursor)
    BY <2>2, <1>1, <1>2, <1>4, <1>5
  <2> QED BY <2>1, <2>2
<1>7. Sound(activities, duration)'
  <2>1. \A t : S!Loud(t)' <=> S!Loud(t)
    BY <1>1, SameRecording
  <2> QED BY <2>1, <1>1, <1>6 DEF Sound
<1>8. S!TypeOK'
  BY <1>1, <1>6 DEF S!TypeOK
<1>9. MarksInv' /\ Unwritten' /\ Quiet(silences)'
  BY <1>1, SameRecording, SameSilences DEF Unwritten
<1>10. at' <= Len(activities') /\ Chosen(at)'
  <2>1. starts' = <<>> /\ Len(activities') \in Nat
    BY <1>1, <1>6 DEF Unwritten
  <2> QED BY <2>1, <1>1 DEF Chosen
<1> QED BY <1>1, <1>7, <1>8, <1>9, <1>10 DEF SpeechInv

-----------------------------------------------------------------------------
(* The third loop chooses what is speech, the last takes each second once. *)

\* A start is rounded and added after those of the earlier activities.
LEMMA SelectKeeps ==
    ASSUME S!TicksAssumption, SpeechInv, S!Select
    PROVE  SpeechInv'
<1> DEFINE a == activities[at + 1]   r == S!Round(a[1])
<1>1. /\ S!TypeOK /\ MarksInv /\ Unwritten /\ Quiet(silences)
      /\ Sound(activities, duration) /\ Chosen(at)
      /\ stage = "select" /\ stage' = "select" /\ at < Len(activities) /\ at' = at + 1
      /\ UNCHANGED <<duration, marks, opened, silences, cursor, activities, unique>>
      /\ starts' = IF S!IsSpeech(a) THEN Append(starts, r) ELSE starts
  BY DEF SpeechInv, S!Select, S!Item
<1>2. /\ at \in Nat /\ starts \in Seq(Nat) /\ activities \in Seq(Nat \X Nat)
      /\ Len(activities) \in Nat /\ DOMAIN activities = 1..Len(activities)
  BY <1>1 DEF S!TypeOK
<1>3. \A i \in 1..Len(activities) : activities[i][1] \in Nat
  BY <1>2
<1>4. at + 1 \in 1..Len(activities)
  BY <1>1, <1>2
<1>5. r \in Nat
  BY <1>3, <1>4, RoundType
<1>6. \A i \in 1..at : S!Round(activities[i][1]) <= r
  <2> SUFFICES ASSUME NEW i \in 1..at PROVE S!Round(activities[i][1]) <= r
    OBVIOUS
  <2>1. i \in 1..Len(activities) /\ i < at + 1
    BY <1>2, <1>4
  <2>2. activities[i][1] < activities[i][2] /\ activities[i][2] < activities[at + 1][1]
    BY <2>1, <1>1, <1>2, <1>4 DEF Sound
  <2>3. activities[i][1] <= activities[at + 1][1]
    <3>1. activities[i][2] \in Nat
      BY <2>1, <1>2
    <3> QED BY <3>1, <2>1, <2>2, <1>3, <1>4
  <2> QED BY <2>1, <2>3, <1>3, <1>4, RoundKeepsOrder
<1> HIDE DEF r
<1>7. /\ \A j \in DOMAIN starts : \E i \in 1..at :
            S!IsSpeech(activities[i]) /\ starts[j] = S!Round(activities[i][1])
      /\ \A i \in 1..at : S!IsSpeech(activities[i]) =>
            \E j \in DOMAIN starts : starts[j] = S!Round(activities[i][1])
      /\ \A j, k \in DOMAIN starts : j < k => starts[j] <= starts[k]
  BY <1>1 DEF Chosen
<1>8. starts' \in Seq(Nat) /\ Chosen(at)'
  <2>1. \A x : S!IsSpeech(x)' <=> S!IsSpeech(x)
    BY <1>1, SameRecording
  <2>2. \A i \in 1..(at + 1) : i = at + 1 \/ i \in 1..at
    BY <1>2
  <2>3. 1..at \subseteq 1..(at + 1) /\ at + 1 \in 1..(at + 1)
    BY <1>2
  <2>4. CASE ~S!IsSpeech(a)
    <3>1. starts' = starts
      BY <2>4, <1>1
    <3>2. \A j \in DOMAIN starts' : \E i \in 1..(at + 1) :
             S!IsSpeech(activities[i]) /\ starts'[j] = S!Round(activities[i][1])
      BY <3>1, <2>3, <1>7
    <3>3. \A i \in 1..(at + 1) : S!IsSpeech(activities[i]) =>
             \E j \in DOMAIN starts' : starts'[j] = S!Round(activities[i][1])
      BY <3>1, <2>2, <2>4, <1>7
    <3>4. \A j, k \in DOMAIN starts' : j < k => starts'[j] <= starts'[k]
      BY <3>1, <1>7
    <3> QED BY <3>1, <3>2, <3>3, <3>4, <2>1, <1>1, <1>2 DEF Chosen
  <2>5. CASE S!IsSpeech(a)
    <3> DEFINE n == Len(starts) + 1
    <3>1. starts' = Append(starts, r)
      BY <2>5, <1>1
    <3>2. /\ starts' \in Seq(Nat) /\ DOMAIN starts' = 1..n /\ starts'[n] = r
          /\ DOMAIN starts = 1..Len(starts) /\ Len(starts) \in Nat
          /\ \A j \in 1..Len(starts) : starts'[j] = starts[j] /\ starts[j] \in Nat
      BY <3>1, <1>2, <1>5, OneMore
    <3>3. \A j \in 1..n : j = n \/ j \in DOMAIN starts
      BY <3>2
    <3>4. DOMAIN starts \subseteq 1..n /\ n \in 1..n
      BY <3>2
    <3>5. ASSUME NEW j \in 1..n
          PROVE  \E i \in 1..(at + 1) :
                    S!IsSpeech(activities[i]) /\ starts'[j] = S!Round(activities[i][1])
      <4>1. CASE j = n
        BY <4>1, <3>2, <2>3, <2>5 DEF r
      <4>2. CASE j \in DOMAIN starts
        <5>1. PICK i \in 1..at :
                 S!IsSpeech(activities[i]) /\ starts[j] = S!Round(activities[i][1])
          BY <4>2, <1>7
        <5>2. i \in 1..(at + 1) /\ starts'[j] = starts[j]
          BY <4>2, <3>2, <2>3
        <5> QED BY <5>1, <5>2
      <4> QED BY <4>1, <4>2, <3>3
    <3>6. ASSUME NEW i \in 1..(at + 1), S!IsSpeech(activities[i])
          PROVE  \E j \in 1..n : starts'[j] = S!Round(activities[i][1])
      <4>1. CASE i = at + 1
        BY <4>1, <3>2, <3>4 DEF r
      <4>2. CASE i \in 1..at
        <5>1. PICK j \in DOMAIN starts : starts[j] = S!Round(activities[i][1])
          BY <4>2, <3>6, <1>7
        <5> QED BY <5>1, <3>2, <3>4
      <4> QED BY <4>1, <4>2, <2>2
    <3>7. ASSUME NEW j \in 1..n, NEW k \in 1..n, j < k
          PROVE  starts'[j] <= starts'[k]
      <4>1. j \in DOMAIN starts /\ starts'[j] = starts[j]
        BY <3>7, <3>2
      <4>2. CASE k = n
        <5>1. starts[j] <= r
          BY <4>1, <1>6, <1>7
        <5> QED BY <5>1, <4>1, <4>2, <3>2
      <4>3. CASE k \in DOMAIN starts
        BY <4>1, <4>3, <3>7, <3>2, <1>7
      <4> QED BY <4>2, <4>3, <3>3
    <3> HIDE DEF n
    <3> QED BY <3>2, <3>5, <3>6, <3>7, <2>1, <1>1 DEF Chosen
  <2> QED BY <2>4, <2>5
<1>9. S!TypeOK'
  BY <1>1, <1>2, <1>8 DEF S!TypeOK
<1>10. MarksInv' /\ Unwritten' /\ Quiet(silences)' /\ Sound(activities, duration)'
  BY <1>1, SameRecording, SameSilences, SameSound DEF Unwritten
<1>11. at' <= Len(activities')
  BY <1>1, <1>2, <1>4
<1> QED BY <1>1, <1>8, <1>9, <1>10, <1>11 DEF SpeechInv

\* Every activity has been looked at.
LEMMA SelectedKeeps ==
    ASSUME S!TicksAssumption, SpeechInv, S!Selected
    PROVE  SpeechInv'
<1>1. /\ S!TypeOK /\ MarksInv /\ Unwritten /\ Quiet(silences)
      /\ Sound(activities, duration) /\ Chosen(at)
      /\ stage = "select" /\ stage' = "unite" /\ at = Len(activities) /\ at' = 0
      /\ UNCHANGED <<duration, marks, opened, silences, cursor, activities, starts, unique>>
  BY DEF SpeechInv, S!Selected, S!Over
<1>2. S!TypeOK'
  BY <1>1 DEF S!TypeOK
<1>3. /\ MarksInv' /\ Unwritten' /\ Quiet(silences)' /\ Sound(activities, duration)'
      /\ Chosen(Len(activities))'
  BY <1>1, SameRecording, SameSilences, SameSound, SameChoice DEF Unwritten
<1>4. at' <= Len(starts') /\ Merged(at)' /\ Len(unique') < MaximumEvents
  <2>1. unique' = <<>> /\ Len(starts') \in Nat /\ MaximumEvents \in Nat \ {0}
    BY <1>1 DEF S!TypeOK, Unwritten, S!TicksAssumption
  <2>2. unique' = <<>> /\ DOMAIN unique' = {} /\ Len(unique') = 0
    BY <2>1
  <2> QED BY <2>1, <2>2, <1>1 DEF Merged
<1> QED BY <1>1, <1>2, <1>3, <1>4 DEF SpeechInv

\* A second that is the last one's again is left out; the limit ends the loop.
LEMMA UniteKeeps ==
    ASSUME S!TicksAssumption, SpeechInv, S!Unite
    PROVE  SpeechInv'
<1> DEFINE s == S!Safe(starts[at + 1])
           m == Len(unique)
<1>1. /\ S!TypeOK /\ MarksInv /\ Unwritten /\ Quiet(silences)
      /\ Sound(activities, duration) /\ Chosen(Len(activities)) /\ Merged(at)
      /\ Len(unique) < MaximumEvents
      /\ stage = "unite" /\ at < Len(starts) /\ at' = at + 1
      /\ UNCHANGED <<duration, marks, opened, silences, cursor, activities, starts>>
      /\ unique' = IF unique = <<>> \/ s # unique[Len(unique)]
                    THEN Append(unique, s) ELSE unique
      /\ stage' = IF Len(unique') >= MaximumEvents THEN "complete" ELSE "unite"
  BY DEF SpeechInv, S!Unite, S!Item
<1>2. /\ at \in Nat /\ starts \in Seq(Nat) /\ unique \in Seq(Nat) /\ m \in Nat
      /\ Len(starts) \in Nat /\ DOMAIN starts = 1..Len(starts) /\ DOMAIN unique = 1..m
      /\ MaximumEvents \in Nat \ {0}
  <2>1. /\ at \in Nat /\ starts \in Seq(Nat) /\ unique \in Seq(Nat)
        /\ MaximumEvents \in Nat \ {0}
    BY <1>1 DEF S!TypeOK, S!TicksAssumption
  <2> QED BY <2>1
<1>3. at + 1 \in 1..Len(starts) /\ (\A j \in 1..Len(starts) : starts[j] \in Nat)
  <2>1. at < Len(starts) /\ at \in Nat /\ Len(starts) \in Nat
    BY <1>1, <1>2
  <2>2. at + 1 \in 1..Len(starts)
    BY <2>1
  <2> QED BY <2>2, <1>2
<1>4. /\ \A j \in 1..Len(starts) : S!Safe(starts[j]) \in Nat
      /\ \A j \in 1..at : S!Safe(starts[j]) <= s
  <2>1. \A j \in 1..Len(starts) : S!Safe(starts[j]) \in Nat
    BY <1>1, <1>3, SafeFacts
  <2>2. ASSUME NEW j \in 1..at PROVE S!Safe(starts[j]) <= s
    <3>1. j \in 1..Len(starts) /\ j < at + 1
      BY <1>2, <1>3
    <3>2. starts[j] <= starts[at + 1]
      BY <3>1, <1>1, <1>2, <1>3 DEF Chosen
    <3> QED BY <3>1, <3>2, <1>1, <1>3, SafeFacts
  <2> QED BY <2>1, <2>2
<1>5. s \in Nat
  BY <1>3, <1>4
<1>6. /\ \A k \in 1..m : \E j \in 1..at : unique[k] = S!Safe(starts[j])
      /\ \A j \in 1..at : \E k \in 1..m : unique[k] = S!Safe(starts[j])
      /\ \A k, l \in 1..m : k < l => unique[k] < unique[l]
  BY <1>1, <1>2 DEF Merged
<1>7. \A k \in 1..m : unique[k] \in Nat /\ unique[k] <= s
  <2>1. \A k \in 1..m : unique[k] \in Nat
    BY <1>2
  <2> QED BY <2>1, <1>4, <1>6
<1>8. /\ \A j \in 1..(at + 1) : j = at + 1 \/ j \in 1..at
      /\ 1..at \subseteq 1..(at + 1) /\ at + 1 \in 1..(at + 1)
  BY <1>2
<1> HIDE DEF s
<1>9. /\ unique' \in Seq(Nat) /\ Len(unique') <= MaximumEvents
      /\ \A k \in DOMAIN unique' : \E j \in 1..(at + 1) : unique'[k] = S!Safe(starts[j])
      /\ \A j \in 1..(at + 1) : \E k \in DOMAIN unique' : unique'[k] = S!Safe(starts[j])
      /\ \A k, l \in DOMAIN unique' : k < l => unique'[k] < unique'[l]
  <2>1. CASE unique = <<>> \/ s # unique[Len(unique)]
    <3> DEFINE n == m + 1
    <3>1. unique' = Append(unique, s)
      BY <2>1, <1>1
    <3>2. /\ unique' \in Seq(Nat) /\ DOMAIN unique' = 1..n /\ unique'[n] = s
          /\ Len(unique') = n /\ \A k \in 1..m : unique'[k] = unique[k]
      BY <3>1, <1>2, <1>5, OneMore
    <3>3. /\ \A k \in 1..n : k = n \/ k \in 1..m
          /\ 1..m \subseteq 1..n /\ n \in 1..n
      BY <1>2
    <3>4. \A k \in 1..m : unique[k] < s
      <4>1. ASSUME NEW k \in 1..m PROVE unique[k] < s
        <5>1. m \in 1..m /\ unique # <<>>
          BY <1>2
        <5>2. s # unique[m]
          BY <2>1, <5>1
        <5>3. unique[m] < s
          BY <5>1, <5>2, <1>5, <1>7
        <5>4. k = m \/ unique[k] < unique[m]
          BY <5>1, <1>6
        <5> QED BY <5>1, <5>3, <5>4, <1>5, <1>7
      <4> QED BY <4>1
    <3>5. ASSUME NEW k \in 1..n
          PROVE  \E j \in 1..(at + 1) : unique'[k] = S!Safe(starts[j])
      <4>1. CASE k = n
        BY <4>1, <3>2, <1>8 DEF s
      <4>2. CASE k \in 1..m
        BY <4>2, <3>2, <1>6, <1>8
      <4> QED BY <4>1, <4>2, <3>3
    <3>6. ASSUME NEW j \in 1..(at + 1)
          PROVE  \E k \in 1..n : unique'[k] = S!Safe(starts[j])
      <4>1. CASE j = at + 1
        BY <4>1, <3>2, <3>3 DEF s
      <4>2. CASE j \in 1..at
        BY <4>2, <3>2, <3>3, <1>6
      <4> QED BY <4>1, <4>2, <1>8
    <3>7. ASSUME NEW k \in 1..n, NEW l \in 1..n, k < l PROVE unique'[k] < unique'[l]
      <4>1. k \in 1..m
        BY <3>7, <1>2
      <4>2. CASE l = n
        BY <4>1, <4>2, <3>2, <3>4
      <4>3. CASE l \in 1..m
        BY <4>1, <4>3, <3>7, <3>2, <1>6
      <4> QED BY <4>2, <4>3, <3>3
    <3>8. n <= MaximumEvents
      BY <1>1, <1>2
    <3> HIDE DEF n
    <3> QED BY <3>2, <3>5, <3>6, <3>7, <3>8
  <2>2. CASE ~(unique = <<>> \/ s # unique[Len(unique)])
    <3>1. unique' = unique /\ m \in 1..m /\ unique[m] = s
      <4>1. unique # <<>> /\ s = unique[Len(unique)]
        BY <2>2
      <4>2. m # 0
        BY <4>1, <1>2
      <4> QED BY <4>1, <4>2, <2>2, <1>1, <1>2
    <3>2. \A j \in 1..(at + 1) : \E k \in 1..m : unique[k] = S!Safe(starts[j])
      BY <3>1, <1>6, <1>8 DEF s
    <3>3. \A k \in 1..m : \E j \in 1..(at + 1) : unique[k] = S!Safe(starts[j])
      BY <1>6, <1>8
    <3>4. Len(unique') <= MaximumEvents /\ DOMAIN unique' = 1..m /\ unique' \in Seq(Nat)
      BY <3>1, <1>1, <1>2
    <3> QED BY <3>1, <3>2, <3>3, <3>4, <1>6
  <2> QED BY <2>1, <2>2
<1>10. Merged(at)'
  <2>1. \A x : S!Safe(x)' = S!Safe(x)
    BY <1>1, SameRecording
  <2> QED BY <2>1, <1>1, <1>9 DEF Merged
<1>11. S!TypeOK'
  BY <1>1, <1>2, <1>9 DEF S!TypeOK
<1>12. /\ MarksInv' /\ Unwritten' /\ Quiet(silences)' /\ Sound(activities, duration)'
       /\ Chosen(Len(activities))'
  BY <1>1, SameRecording, SameSilences, SameSound, SameChoice DEF Unwritten
<1>13. at' \in 0..Len(starts') /\ Len(unique') \in Nat
  BY <1>1, <1>2, <1>3, <1>9
<1>14. CASE stage' = "complete"
  <2>1. Len(unique') >= MaximumEvents
    BY <1>14, <1>1
  <2>2. Len(unique') = MaximumEvents
    BY <2>1, <1>2, <1>9, <1>13
  <2>3. \E n \in 0..Len(starts') : /\ Merged(n)' /\ Len(unique') <= MaximumEvents
                                   /\ n = Len(starts') \/ Len(unique') = MaximumEvents
    BY <2>2, <1>10, <1>9, <1>13 DEF Merged
  <2> QED BY <2>3, <1>14, <1>11, <1>12 DEF SpeechInv
<1>15. CASE stage' = "unite"
  <2>1. Len(unique') < MaximumEvents
    BY <1>15, <1>1, <1>2, <1>13
  <2> QED BY <2>1, <1>15, <1>10, <1>11, <1>12, <1>13 DEF SpeechInv
<1> QED BY <1>1, <1>14, <1>15

\* Every start has been looked at.
LEMMA UnitedKeeps ==
    ASSUME S!TicksAssumption, SpeechInv, S!United
    PROVE  SpeechInv'
<1>1. /\ S!TypeOK /\ MarksInv /\ Unwritten /\ Quiet(silences)
      /\ Sound(activities, duration) /\ Chosen(Len(activities)) /\ Merged(at)
      /\ Len(unique) < MaximumEvents
      /\ stage = "unite" /\ stage' = "complete" /\ at = Len(starts) /\ at' = 0
      /\ UNCHANGED <<duration, marks, opened, silences, cursor, activities, starts, unique>>
  BY DEF SpeechInv, S!United, S!Over
<1>2. S!TypeOK'
  BY <1>1 DEF S!TypeOK
<1>3. /\ MarksInv' /\ Unwritten' /\ Quiet(silences)' /\ Sound(activities, duration)'
      /\ Chosen(Len(activities))'
  BY <1>1, SameRecording, SameSilences, SameSound, SameChoice DEF Unwritten
<1>4. \E n \in 0..Len(starts') : /\ Merged(n)' /\ Len(unique') <= MaximumEvents
                                 /\ n = Len(starts') \/ Len(unique') = MaximumEvents
  <2>1. /\ Len(starts) \in 0..Len(starts) /\ Len(unique) <= MaximumEvents
        /\ starts' = starts /\ unique' = unique
    BY <1>1 DEF S!TypeOK, S!TicksAssumption
  <2>2. \A x : S!Safe(x)' = S!Safe(x)
    BY <1>1, SameRecording
  <2> QED BY <2>1, <2>2, <1>1 DEF Merged
<1> QED BY <1>1, <1>2, <1>3, <1>4 DEF SpeechInv

\* The invariant is inductive.
LEMMA SpeechStep ==
    ASSUME S!TicksAssumption, SpeechInv, [S!Next]_speechVars
    PROVE  SpeechInv'
<1>1. CASE UNCHANGED speechVars
  <2>1. S!TypeOK' /\ MarksInv' /\ Unwritten'
    BY <1>1, SameRecording DEF SpeechInv, S!TypeOK, Unwritten, speechVars
  <2>2. PairInv => PairInv'
    BY <1>1 DEF PairInv, MarkOrEnd, S!Clamp, S!NoStart, speechVars
  <2>3. Quiet(silences) => Quiet(silences)'
    BY <1>1, SameSilences DEF speechVars
  <2>4. /\ InvertInv => InvertInv'
        /\ Sound(activities, duration) => Sound(activities, duration)'
    <3>1. \A t : S!Loud(t)' <=> S!Loud(t)
      BY <1>1, SameRecording DEF speechVars
    <3> QED BY <1>1, <3>1 DEF InvertInv, Sound, speechVars
  <2>5. /\ Chosen(at) => Chosen(at)'
        /\ Chosen(Len(activities)) => Chosen(Len(activities))'
    <3>1. \A a : S!IsSpeech(a)' <=> S!IsSpeech(a)
      BY <1>1, SameRecording DEF speechVars
    <3> QED BY <1>1, <3>1 DEF Chosen, speechVars
  <2>6. /\ Merged(at) => Merged(at)'
        /\ \A n : Merged(n) => Merged(n)'
    <3>1. \A x : S!Safe(x)' = S!Safe(x)
      BY <1>1, SameRecording DEF speechVars
    <3> QED BY <1>1, <3>1 DEF Merged, speechVars
  <2> QED BY <1>1, <2>1, <2>2, <2>3, <2>4, <2>5, <2>6 DEF SpeechInv, speechVars
<1>2. CASE S!AddMark \/ S!Listened \/ S!Pair \/ S!Paired
  BY <1>2, AddMarkKeeps, ListenedKeeps, PairKeeps, PairedKeeps
<1>3. CASE S!Invert \/ S!Inverted \/ S!Select \/ S!Selected
  BY <1>3, InvertKeeps, InvertedKeeps, SelectKeeps, SelectedKeeps
<1>4. CASE S!Unite \/ S!United
  BY <1>4, UniteKeeps, UnitedKeeps
<1> QED BY <1>1, <1>2, <1>3, <1>4 DEF S!Next

-----------------------------------------------------------------------------
(* What the loops have found is what is wanted.                            *)

\* The first members of an increasing sequence are as many as they are.
LEMMA FirstCount ==
    ASSUME NEW list \in Seq(Nat), NEW n \in 0..Len(list),
           \A k, l \in 1..Len(list) : k < l => list[k] < list[l]
    PROVE  /\ IsFiniteSet({list[k] : k \in 1..n})
           /\ Cardinality({list[k] : k \in 1..n}) = n
<1> DEFINE T == {list[k] : k \in 1..n}
           f == [k \in 1..n |-> list[k]]
<1>1. Len(list) \in Nat /\ \A k \in 1..Len(list) : list[k] \in Nat
  OBVIOUS
<1>2. \A k, l \in 1..n : list[k] = list[l] => k = l
  <2> SUFFICES ASSUME NEW k \in 1..n, NEW l \in 1..n, list[k] = list[l] PROVE k = l
    OBVIOUS
  <2>1. k \in 1..Len(list) /\ l \in 1..Len(list)
    BY <1>1
  <2>2. ~(k < l) /\ ~(l < k)
    BY <2>1, <1>1
  <2> QED BY <2>2
<1>3. f \in Bijection(1..n, T)
  BY <1>2 DEF Bijection, Injection, IsInjective, Surjection
<1>4. ExistsBijection(1..n, T)
  BY <1>3 DEF ExistsBijection
<1>5. IsFiniteSet(1..n) /\ Cardinality(1..n) = n
  BY FS_Interval, n \in Nat
<1> HIDE DEF T
<1>6. IsFiniteSet(T) /\ Cardinality(T) = Cardinality(1..n)
  BY <1>4, <1>5, FS_Bijection
<1> QED BY <1>5, <1>6 DEF T

\* The members of a set before x.
Below(set, x) == {s \in set : s < x}

\* An increasing list of members of a set that leaves out, if any, only later
\* ones and those only at its limit, is what MarkersAreSpeech asks for.
LEMMA FirstOfThem ==
    ASSUME NEW top \in Nat, NEW wanted, wanted \subseteq 0..top,
           NEW limit \in Nat, NEW list \in Seq(Nat), Len(list) <= limit,
           \A k \in 1..Len(list) : list[k] \in wanted,
           \A k, l \in 1..Len(list) : k < l => list[k] < list[l],
           \A w \in wanted :
              \/ \E k \in 1..Len(list) : w = list[k]
              \/ Len(list) = limit /\ \A k \in 1..Len(list) : list[k] <= w
    PROVE  /\ Len(list) = IF Cardinality(wanted) < limit THEN Cardinality(wanted)
                          ELSE limit
           /\ \A i \in 1..Len(list) : Cardinality(Below(wanted, list[i])) = i - 1
<1> DEFINE m == Len(list)
           found == {list[k] : k \in 1..m}
<1>1. m \in Nat /\ \A k \in 1..m : list[k] \in Nat
  OBVIOUS
<1>2. IsFiniteSet(wanted) /\ \A w \in wanted : w \in Nat
  <2>1. IsFiniteSet(0..top)
    BY FS_Interval
  <2>2. IsFiniteSet(wanted)
    BY <2>1, FS_Subset, Zenon
  <2> QED BY <2>2
<1>3. m \in 0..m
  BY <1>1
<1>4. IsFiniteSet(found) /\ Cardinality(found) = m
  BY <1>3, FirstCount
<1>5. found \subseteq wanted
  OBVIOUS
<1>6. Cardinality(wanted) \in Nat /\ m <= Cardinality(wanted)
  <2>1. Cardinality(found) <= Cardinality(wanted)
    BY <1>2, <1>5, FS_Subset, Zenon
  <2> QED BY <2>1, <1>2, <1>4, FS_CardinalityType
<1>7. m = IF Cardinality(wanted) < limit THEN Cardinality(wanted) ELSE limit
  <2>1. CASE m = limit
    BY <2>1, <1>6
  <2>2. CASE m # limit
    <3>1. wanted = found
      BY <2>2, <1>5
    <3>2. Cardinality(wanted) = m
      BY <3>1, <1>4
    <3> QED BY <3>2, <2>2, <1>1
  <2> QED BY <2>1, <2>2
<1>8. ASSUME NEW i \in 1..m
      PROVE  Cardinality(Below(wanted, list[i])) = i - 1
  <2>1. i - 1 \in 0..m /\ i \in Nat
    BY <1>1
  <2>2. ASSUME NEW s \in wanted, s < list[i]
        PROVE  s \in {list[k] : k \in 1..(i - 1)}
    <3>1. s \in Nat /\ list[i] \in Nat
      BY <1>1, <1>2
    <3>2. PICK k \in 1..m : s = list[k]
      <4>1. ~(list[i] <= s)
        BY <3>1, <2>2
      <4> QED BY <4>1
    <3>3. ~(i < k) /\ k # i
      <4>1. i < k => list[i] < list[k]
        OBVIOUS
      <4> QED BY <4>1, <3>1, <3>2, <2>2
    <3>4. k \in 1..(i - 1)
      BY <3>3, <1>1
    <3> QED BY <3>2, <3>4
  <2>3. ASSUME NEW k \in 1..(i - 1)
        PROVE  list[k] \in wanted /\ list[k] < list[i]
    <3>1. k \in 1..m /\ k < i
      BY <1>1
    <3> QED BY <3>1
  <2>4. Below(wanted, list[i]) = {list[k] : k \in 1..(i - 1)}
    BY <2>2, <2>3 DEF Below
  <2>5. Cardinality({list[k] : k \in 1..(i - 1)}) = i - 1
    BY <2>1, FirstCount
  <2> QED BY <2>4, <2>5
<1> QED BY <1>7, <1>8

\* Cardinality is the same operator in the instance of SpeechActivity.
LEMMA SpeechCount == \A N : S!Cardinality(N) = Cardinality(N)
BY DEF S!Cardinality, Cardinality

\* A complete analysis has marked the seconds in which speech begins.
LEMMA SpeechMeans ==
    ASSUME S!TicksAssumption, SpeechInv
    PROVE  S!MarkersAreSpeech
<1> DEFINE speech == {s \in (0..duration) \X (0..duration) :
                         S!Stretch(s[1], s[2]) /\ S!IsSpeech(s)}
           wanted == {S!Safe(S!Round(s[1])) : s \in speech}
           m == Len(unique)
<1> SUFFICES ASSUME stage = "complete"
             PROVE  /\ m = IF Cardinality(wanted) < MaximumEvents
                           THEN Cardinality(wanted) ELSE MaximumEvents
                    /\ \A i \in DOMAIN unique :
                          /\ unique[i] \in wanted
                          /\ Cardinality({s \in wanted : s < unique[i]}) = i - 1
  BY SpeechCount DEF S!MarkersAreSpeech
<1>1. S!TypeOK /\ Sound(activities, duration) /\ Chosen(Len(activities))
  BY DEF SpeechInv
<1>2. PICK n \in 0..Len(starts) : /\ Merged(n) /\ m <= MaximumEvents
                                  /\ n = Len(starts) \/ m = MaximumEvents
  BY DEF SpeechInv
<1>0. duration \in Nat /\ duration \div Second \in Nat
  BY <1>1, SafeFacts
<1>3. /\ duration \in Nat /\ MaximumEvents \in Nat
      /\ unique \in Seq(Nat) /\ DOMAIN unique = 1..m /\ m \in Nat
      /\ starts \in Seq(Nat) /\ DOMAIN starts = 1..Len(starts) /\ Len(starts) \in Nat
      /\ \A j \in 1..Len(starts) : starts[j] \in Nat
      /\ activities \in Seq(Nat \X Nat) /\ DOMAIN activities = 1..Len(activities)
  <2>1. MaximumEvents \in Nat /\ duration \in Nat
    BY <1>0 DEF S!TicksAssumption
  <2> QED BY <1>1, <2>1 DEF S!TypeOK
<1>4. \A j \in 1..Len(starts) : /\ S!Safe(starts[j]) \in wanted
                                /\ S!Safe(starts[j]) \in 0..(duration \div Second)
  <2> SUFFICES ASSUME NEW j \in 1..Len(starts)
               PROVE  /\ S!Safe(starts[j]) \in wanted
                      /\ S!Safe(starts[j]) \in 0..(duration \div Second)
    OBVIOUS
  <2>1. PICK i \in 1..Len(activities) :
           S!IsSpeech(activities[i]) /\ starts[j] = S!Round(activities[i][1])
    BY <1>1, <1>3 DEF Chosen
  <2>2. /\ activities[i] = <<activities[i][1], activities[i][2]>>
        /\ activities[i][1] \in Nat /\ activities[i][2] \in Nat
    BY <1>3
  <2>3. activities[i][1] < activities[i][2] /\ activities[i][2] <= duration
    BY <1>1, <1>3 DEF Sound
  <2>4. activities[i][1] \in 0..duration /\ activities[i][2] \in 0..duration
    BY <2>2, <2>3, <1>3
  <2>5. S!Stretch(activities[i][1], activities[i][2])
    BY <2>2, <2>4, <1>1, <1>3, SoundStretches
  <2>6. activities[i] \in speech
    BY <2>1, <2>2, <2>4, <2>5
  <2>7. S!Safe(starts[j]) \in 0..(duration \div Second)
    <3>1. starts[j] \in Nat
      BY <1>3
    <3>2. /\ S!Safe(starts[j]) \in Nat
          /\ S!Safe(starts[j]) <= duration \div Second
      BY <3>1, <1>1, SafeFacts
    <3>3. \A a, b \in Nat : a <= b => a \in 0..b
      OBVIOUS
    <3> QED BY <3>2, <3>3, <1>0
  <2> QED BY <2>1, <2>6, <2>7
<1>5. ASSUME NEW w \in wanted
      PROVE  \E j \in 1..Len(starts) : w = S!Safe(starts[j])
  <2>1. PICK s \in speech : w = S!Safe(S!Round(s[1]))
    OBVIOUS
  <2>2. /\ s[1] \in 0..duration /\ s[2] \in 0..duration /\ s = <<s[1], s[2]>>
        /\ S!Stretch(s[1], s[2]) /\ S!IsSpeech(s)
    OBVIOUS
  <2>3. PICK i \in DOMAIN activities : activities[i] = s
    <3>1. \E i \in DOMAIN activities : activities[i] = <<s[1], s[2]>>
      BY <2>2, <1>0, <1>1, SoundStretches, Zenon
    <3> QED BY <3>1, <2>2
  <2> QED BY <2>1, <2>2, <2>3, <1>1, <1>3 DEF Chosen
<1>6. \A k \in 1..m : unique[k] \in wanted
  <2> SUFFICES ASSUME NEW k \in 1..m PROVE unique[k] \in wanted
    OBVIOUS
  <2>1. PICK j \in 1..n : unique[k] = S!Safe(starts[j])
    BY <1>2, <1>3 DEF Merged
  <2>2. j \in 1..Len(starts)
    BY <1>3
  <2> QED BY <2>1, <2>2, <1>4
<1> HIDE DEF wanted
<1>7. \A k, l \in 1..m : k < l => unique[k] < unique[l]
  BY <1>2, <1>3 DEF Merged
<1> DEFINE top == duration \div Second
<1>8. wanted \subseteq 0..top
  BY <1>4, <1>5
<1>9. \A w \in wanted :
         \/ \E k \in 1..m : w = unique[k]
         \/ m = MaximumEvents /\ \A k \in 1..m : unique[k] <= w
  <2> SUFFICES ASSUME NEW w \in wanted, ~\E k \in 1..m : w = unique[k]
               PROVE  m = MaximumEvents /\ \A k \in 1..m : unique[k] <= w
    OBVIOUS
  <2>1. PICK j \in 1..Len(starts) : w = S!Safe(starts[j])
    BY <1>5
  <2>2. ~(j \in 1..n)
    BY <2>1, <1>2, <1>3 DEF Merged
  <2>3. n < j /\ n # Len(starts)
    <3>1. Len(starts) \in Nat
      BY <1>3
    <3> QED BY <3>1, <2>2
  <2>4. ASSUME NEW k \in 1..m PROVE unique[k] <= w
    <3>1. PICK i \in 1..n : unique[k] = S!Safe(starts[i])
      BY <1>2, <1>3 DEF Merged
    <3>2. i \in 1..Len(starts) /\ i < j
      <4>1. Len(starts) \in Nat
        BY <1>3
      <4> QED BY <4>1, <2>3
    <3>3. starts[i] <= starts[j]
      BY <3>2, <1>1, <1>3 DEF Chosen
    <3>4. starts[i] \in Nat /\ starts[j] \in Nat
      BY <3>2, <1>3
    <3>5. S!Safe(starts[i]) <= S!Safe(starts[j])
      BY <3>3, <3>4, <1>1, SafeFacts
    <3> QED BY <3>1, <3>5, <2>1
  <2> QED BY <2>3, <2>4, <1>2
<1> QED
  <2>1. /\ top \in Nat /\ MaximumEvents \in Nat /\ unique \in Seq(Nat)
        /\ Len(unique) <= MaximumEvents
    BY <1>0, <1>2, <1>3
  <2>2. /\ wanted \subseteq 0..top
        /\ \A k \in 1..Len(unique) : unique[k] \in wanted
        /\ \A k, l \in 1..Len(unique) : k < l => unique[k] < unique[l]
        /\ \A w \in wanted :
              \/ \E k \in 1..Len(unique) : w = unique[k]
              \/ Len(unique) = MaximumEvents /\ \A k \in 1..Len(unique) : unique[k] <= w
    BY <1>6, <1>7, <1>8, <1>9
  <2> HIDE DEF top, speech, m
  <2>3. /\ Len(unique) = IF Cardinality(wanted) < MaximumEvents
                         THEN Cardinality(wanted) ELSE MaximumEvents
        /\ \A i \in 1..Len(unique) : Cardinality(Below(wanted, unique[i])) = i - 1
    BY <2>1, <2>2, FirstOfThem
  <2>4. \A i \in 1..Len(unique) :
           Cardinality({s \in wanted : s < unique[i]}) = i - 1
    BY <2>3, Zenon DEF Below
  <2> USE DEF m
  <2> QED BY <2>3, <2>4, <1>3, <1>6

-----------------------------------------------------------------------------
(* The composition: a part starts as its module does, and takes its steps  *)
(* or leaves its variables alone.                                          *)

\* Every module is in its initial state.
LEMMA InitialParts ==
    MCInit => /\ Init /\ S!Init /\ A!Init /\ P!Init /\ W!Init
              /\ B!Init /\ M!Init /\ V!Init
BY DEF MCInit, Together

\* A step of a part, seen by the recordings; then by each other module.
LEMMA RecordingsStep == ASSUME [MCNext]_vars PROVE [Next]_recordingVars
<1>1. CASE vars' = vars
  BY <1>1 DEF vars
<1>2. CASE Rests /\ part \notin Subsystem.recordings
  BY <1>2 DEF Rests
<1>3. CASE Recorder \/ Retries
  BY <1>3 DEF Recorder, Retries
<1> QED BY <1>1, <1>2, <1>3 DEF MCNext, Subsystem

\* By the alerts.
LEMMA AlertsStep == ASSUME [MCNext]_vars PROVE [A!Next]_(A!alertVars)
<1>1. CASE vars' = vars
  BY <1>1 DEF vars, alertVars, A!alertVars
<1>2. CASE Rests /\ part \notin Subsystem.alerts
  BY <1>2 DEF Rests, alertVars, A!alertVars
<1>3. CASE Checks \/ Feed
  BY <1>3 DEF Checks, Feed
<1> QED BY <1>1, <1>2, <1>3 DEF MCNext, Subsystem

\* By the web watchers.
LEMMA WatchersStep == ASSUME [MCNext]_vars PROVE [W!Next]_(W!watcherVars)
<1>1. CASE vars' = vars
  BY <1>1 DEF vars, watcherVars, W!watcherVars
<1>2. CASE Rests /\ part \notin Subsystem.watchers
  BY <1>2 DEF Rests, watcherVars, W!watcherVars
<1>3. CASE OneWatcher \/ TwoWatchers
  BY <1>3 DEF OneWatcher, TwoWatchers
<1> QED BY <1>1, <1>2, <1>3 DEF MCNext, Subsystem

\* By backup and migration.
LEMMA BackupStep == ASSUME [MCNext]_vars PROVE [B!Next]_(B!vars)
<1>1. CASE vars' = vars
  BY <1>1 DEF vars, backupVars, B!vars
<1>2. CASE Rests /\ part \notin Subsystem.backup
  BY <1>2 DEF Rests, backupVars, B!vars
<1>3. CASE RestoreAndBackup \/ TwoRestores \/ Migration
  BY <1>3 DEF RestoreAndBackup, TwoRestores, Restores, Migration
<1> QED BY <1>1, <1>2, <1>3 DEF MCNext, Subsystem

\* By the messages.
LEMMA ConversationStep == ASSUME [MCNext]_vars PROVE [M!Next]_messageVars
<1>1. CASE vars' = vars
  BY <1>1 DEF vars
<1>2. CASE Rests /\ part \notin Subsystem.messages
  BY <1>2 DEF Rests
<1>3. CASE Conversation
  BY <1>3 DEF Conversation
<1> QED BY <1>1, <1>2, <1>3 DEF MCNext, Subsystem

\* By the watch on the server.
LEMMA WatchIsStep == ASSUME [MCNext]_vars PROVE [P!Next]_watchVars
<1>1. CASE vars' = vars
  BY <1>1 DEF vars
<1>2. CASE Rests /\ part \notin Subsystem.watch
  BY <1>2 DEF Rests
<1> QED BY <1>1, <1>2 DEF MCNext, Subsystem

\* By the speech analysis.
LEMMA AnalysisIsStep == ASSUME [MCNext]_vars PROVE [S!Next]_speechVars
<1>1. CASE vars' = vars
  BY <1>1 DEF vars
<1>2. CASE Rests /\ part \notin Subsystem.speech
  BY <1>2 DEF Rests
<1> QED BY <1>1, <1>2 DEF MCNext, Subsystem

\* By the services.
LEMMA ServicesIsStep == ASSUME [MCNext]_vars PROVE [V!Next]_serviceVars
<1>1. CASE vars' = vars
  BY <1>1 DEF vars
<1>2. CASE Rests /\ part \notin Subsystem.services
  BY <1>2 DEF Rests
<1> QED BY <1>1, <1>2 DEF MCNext, Subsystem

-----------------------------------------------------------------------------
(* The theorems of the composition.                                        *)

\* The invariant of the recordings.
LEMMA RecordingsInvariant == SafetySpec => []IInv
<1>1. MCInit => IInv
  BY InitialParts, InitIInv
<1>2. IInv /\ [MCNext]_vars => IInv'
  BY NextIInv, RecordingsStep
<1> QED BY <1>1, <1>2, PTL DEF SafetySpec

(* The three properties of the recordings, in whichever part of the server *)
(* the threads work (upload_recording, reset_recording_speech,             *)
(* uploadPendingRecordings).                                               *)
THEOREM ServerKeepsRecordings ==
    SafetySpec => [](RowHasFile /\ ProcessingIsWorked /\ SegmentsKept)
<1>1. IInv => RowHasFile /\ ProcessingIsWorked /\ SegmentsKept
  BY DEF IInv, RowsInv, RowHasFile, WorkerInv
<1> QED BY <1>1, RecordingsInvariant, PTL

(* One incident, one alert (sync_alert_conditions).                        *)
THEOREM ServerAlertsAlternate == SafetySpec => []OneIncident
<1>1. A!KeysAssumption
  BY ServerAssumption
<1>2. MCInit => A!Inv
  BY InitialParts, A!InvInit
<1>3. A!Inv /\ [MCNext]_vars => A!Inv'
  BY <1>1, A!InvStep, AlertsStep
<1>4. A!Inv => OneIncident
  BY A!OneIncidentMeans DEF A!Inv, A!Shape, OneIncident
<1> QED BY <1>2, <1>3, <1>4, PTL DEF SafetySpec

\* The invariant of the web watchers.
LEMMA WatchersInvariant == SafetySpec => []W!Inv
<1>1. W!ValuesAssumption
  BY ServerAssumption
<1>2. MCInit => W!Inv
  BY <1>1, InitialParts, W!InvInit
<1>3. W!Inv /\ [MCNext]_vars => W!Inv'
  BY <1>1, W!InvStep, WatchersStep
<1> QED BY <1>2, <1>3, PTL DEF SafetySpec

(* A watcher is scheduled exactly while it is enabled                      *)
(* (save_web_watcher_result, set_web_watcher_enabled).                     *)
THEOREM ServerSchedulesEnabled == SafetySpec => []ScheduledWhileEnabled
<1>1. W!Inv => ScheduledWhileEnabled
  BY DEF W!Inv, ScheduledWhileEnabled
<1> QED BY <1>1, WatchersInvariant, PTL

(* An unedited watcher checked by one process at a time tells every turn   *)
(* of its page once (check_web_watcher).                                   *)
THEOREM ServerTellsTurnsOnce == SafetySpec => []OneAlertPerTurn
<1>1. W!Inv => OneAlertPerTurn
  BY DEF W!Inv, W!Shape, W!AlertsInv, W!OneAlertPerTurn, OneAlertPerTurn
<1> QED BY <1>1, WatchersInvariant, PTL

(* A restoration that says it succeeded is whole, and one that says it was *)
(* undone is undone (restore_backup).                                      *)
THEOREM ServerRestoresWhole == SafetySpec => []RestoreIsAtomic
<1>1. B!Distinct
  BY ServerAssumption DEF B!NetAssumption
<1>2. MCInit => B!IInv
  BY InitialParts, B!InitIInv
<1>3. B!IInv /\ [MCNext]_vars => B!IInv'
  BY <1>1, B!NextIInv, BackupStep
<1>4. B!IInv => RestoreIsAtomic
  BY DEF B!IInv, B!Good, B!Progress, B!RestoreIsAtomic, B!At, B!Holds, RestoreIsAtomic
<1> QED BY <1>2, <1>3, <1>4, PTL DEF SafetySpec

(* In the composition too, what a restoration replaces is in an archive    *)
(* that can be verified, whoever writes, restores or takes the lock away   *)
(* after the replacement began, unless the installation was written to     *)
(* while the safety backup was made, or a later backup was told to keep no *)
(* more than there were newer (create_backup, restore_backup).             *)
THEOREM ServerKeepsSafetyNet == SafetySpec => []SafetyNet
<1>1. B!NetAssumption
  BY ServerAssumption
<1>2. MCInit => B!NetInv
  BY <1>1, InitialParts, B!NetInit
<1>3. B!NetInv /\ [MCNext]_vars => B!NetInv'
  BY <1>1, B!NetNext, BackupStep
<1>4. B!NetInv => SafetyNet
  BY B!NetMeans DEF SafetyNet
<1> QED BY <1>2, <1>3, <1>4, PTL DEF SafetySpec

(* The cursor of the page hides no message (messages.js).                   *)
THEOREM ServerHidesNothing == SafetySpec => []NothingHidden
<1>1. MessagesAssumption
  BY ServerAssumption DEF MessagesAssumption
<1>2. MCInit => MessagesInv
  BY InitialParts, MessagesInit
<1>3. MessagesInv /\ [MCNext]_vars => MessagesInv'
  BY <1>1, MessagesStep, ConversationStep
<1>4. MessagesInv => NothingHidden
  BY MessagesMeans DEF NothingHidden
<1> QED BY <1>2, <1>3, <1>4, PTL DEF SafetySpec

\* The types of the alerts, and what is acknowledged was shown.
LEMMA PhonesInvariant == SafetySpec => []A!Phones
<1>1. A!KeysAssumption
  BY ServerAssumption
<1>2. MCInit => A!Phones
  BY <1>1, InitialParts, A!PhonesInit
<1>3. A!Phones /\ [MCNext]_vars => A!Phones'
  BY <1>1, A!PhonesStep, AlertsStep
<1> QED BY <1>2, <1>3, PTL DEF SafetySpec

\* The bounds of the web watchers.
LEMMA WatchersBounded == SafetySpec => []W!Bounds
<1>1. W!ValuesAssumption
  BY ServerAssumption
<1>2. MCInit => W!Bounds
  BY <1>1, InitialParts DEF W!Init, W!Bounds, W!Caller, W!ValuesAssumption
<1>3. W!Bounds /\ [MCNext]_vars => W!Bounds'
  BY <1>1, W!BoundsStep, WatchersStep
<1> QED BY <1>2, <1>3, PTL DEF SafetySpec

\* The bounds of the messages.
LEMMA MessagesInvariant == SafetySpec => [](MessagesInv /\ MessagesBounds)
<1>1. MessagesAssumption /\ BoundsAssumption
  BY ServerAssumption DEF MessagesAssumption, BoundsAssumption
<1>2. MCInit => MessagesInv /\ MessagesBounds
  BY <1>1, InitialParts, MessagesInit, MessagesBoundsInit
<1>3. MessagesInv /\ MessagesBounds /\ [MCNext]_vars => MessagesInv' /\ MessagesBounds'
  BY <1>1, MessagesStep, MessagesBoundsStep, ConversationStep
<1> QED BY <1>2, <1>3, PTL DEF SafetySpec

\* The invariant of the watch on the server.
LEMMA WatchInvariant == SafetySpec => []WatchInv
<1>1. BoundsAssumption
  BY ServerAssumption DEF BoundsAssumption
<1>2. MCInit => WatchInv
  BY <1>1, InitialParts, WatchInit
<1>3. WatchInv /\ [MCNext]_vars => WatchInv'
  BY <1>1, WatchStep, WatchIsStep
<1> QED BY <1>2, <1>3, PTL DEF SafetySpec

\* The invariant of the services.
LEMMA ServicesInvariant == SafetySpec => []ServicesInv
<1>1. BoundsAssumption
  BY ServerAssumption DEF BoundsAssumption
<1>2. MCInit => ServicesInv
  BY <1>1, InitialParts, ServicesInit
<1>3. ServicesInv /\ [MCNext]_vars => ServicesInv'
  BY <1>1, ServicesStep, ServicesIsStep
<1> QED BY <1>2, <1>3, PTL DEF SafetySpec

\* The invariant of the speech analysis.
LEMMA SpeechInvariant == SafetySpec => []SpeechInv
<1>1. S!TicksAssumption
  BY ServerAssumption
<1>2. MCInit => SpeechInv
  BY <1>1, InitialParts, SpeechInit
<1>3. SpeechInv /\ [MCNext]_vars => SpeechInv'
  BY <1>1, SpeechStep, AnalysisIsStep
<1> QED BY <1>2, <1>3, PTL DEF SafetySpec

(* The seconds that a complete analysis marks are the first MAXIMUM_EVENTS *)
(* of those in which a stretch of sound that counts as speech begins, each *)
(* once and in order, whatever the recording, its marks, the scale of time *)
(* and the limits (detect_speech_activity).                                *)
THEOREM ServerMarksSpeech == SafetySpec => []MarkersAreSpeech
<1>1. S!TicksAssumption
  BY ServerAssumption
<1>2. SpeechInv => MarkersAreSpeech
  BY <1>1, SpeechMeans DEF MarkersAreSpeech
<1> QED BY <1>2, SpeechInvariant, PTL

(* The alarm is on the screen exactly while the server counts as offline,  *)
(* as long as nothing disturbs the watch (ServerHealthTracker.java,        *)
(* ServerWatchService.java).                                               *)
THEOREM ServerAlarmIsTrue == SafetySpec => []AlarmIsTrue
<1>1. WatchInv => AlarmIsTrue
  BY DEF WatchInv, AlarmIsTrue, Announced
<1> QED BY <1>1, WatchInvariant, PTL

(* The markers say, at any moment the check can be killed, what is left to *)
(* start again (suspend_service, recover_suspended_services).              *)
THEOREM ServerMarksFirst == SafetySpec => []MarkedFirst
<1>1. ServicesInv => MarkedFirst
  BY DEF ServicesInv
<1> QED BY <1>1, ServicesInvariant, PTL

(* Every variable of every subsystem has its type, for any constants: no   *)
(* limit, queue or counter is exceeded.                                    *)
THEOREM ServerTypes == SafetySpec => []TypesOK
<1>1. A!KeysAssumption /\ W!ValuesAssumption /\ B!NetAssumption /\ BoundsAssumption
  BY ServerAssumption DEF BoundsAssumption
<1>2. MCInit => B!NetInv
  BY <1>1, InitialParts, B!NetInit
<1>3. B!NetInv /\ [MCNext]_vars => B!NetInv'
  BY <1>1, B!NetNext, BackupStep
<1>4. /\ IInv => TypeOK
      /\ SpeechInv => S!TypeOK
      /\ A!Phones => A!TypeOK
      /\ WatchInv => P!TypeOK
      /\ W!Inv /\ W!Bounds => W!TypeOK
      /\ B!NetInv => B!TypeOK
      /\ MessagesInv /\ MessagesBounds => M!TypeOK
      /\ ServicesInv => V!TypeOK
  BY <1>1, W!WatchersTyped, B!TypedMeans, MessagesTyped
     DEF IInv, SpeechInv, A!Phones, WatchInv, B!NetInv, ServicesInv
<1>5. /\ IInv /\ SpeechInv /\ A!Phones /\ WatchInv /\ W!Inv /\ W!Bounds /\ B!NetInv
      /\ MessagesInv /\ MessagesBounds /\ ServicesInv
      => TypesOK
  BY <1>4 DEF TypesOK
<1> QED
  BY <1>2, <1>3, <1>5, RecordingsInvariant, SpeechInvariant, PhonesInvariant, WatchInvariant,
     WatchersInvariant, WatchersBounded, MessagesInvariant, ServicesInvariant, PTL
     DEF SafetySpec

=============================================================================
