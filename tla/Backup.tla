-------------------------------- MODULE Backup --------------------------------
(***************************************************************************)
(* Backups, restorations and portable migrations (app/backup.py,           *)
(* app/backup_admin.py, app/migration_admin.py, scripts/cloud-migrate.py). *)
(*                                                                         *)
(* The installation is `live`: the database, the message key, the uploaded *)
(* files, the configuration and the media tree, each by the version its    *)
(* content comes from.  A process runs one task at a time, in the steps    *)
(* the code takes on the disk; users write meanwhile, any step may fail,   *)
(* a process may be killed anywhere, and the backup that the watchdog or   *)
(* the command line makes takes no lock.                                   *)
(***************************************************************************)
EXTENDS Naturals, Sequences, FiniteSets, SequencesExt

CONSTANTS
    Version,        \* what a content can be
    Secret,         \* the versions whose private messages are encrypted
    Nothing,        \* no file, no directory, no process
    Empty,          \* a directory without files
    Process,        \* the server's restorations, the command line, the watchdog
    Keep,           \* DEFAULT_KEEP
    Keeps,          \* what --keep says: the watchdog's BACKUP_KEEP, any of a user
    MaxArchives,    \* bound: archives made in a behaviour
    MaxFailures     \* bound: failed steps and killed processes

VARIABLES
    live,           \* [db, key, uploads, config, media]
    archives,       \* BACKUP_DIR, the oldest first
    made,           \* how many archives were made: their names
    portable,       \* DEFAULT_EXPORT_DIR: the portable archives
    lock,           \* backup-restore.lock: [by, filled], or Nothing
    busy,           \* the process that has MIGRATION_LOCK, or Nothing
    job,            \* what each process does
    stolen,         \* history: a lock was removed that was not its remover's
    wreck,          \* history: what the last killed restoration was replacing
    pushed,         \* history: the archives older than as many as a backup kept
    torn,           \* history: the processes between whose snapshot and whose
                    \* replacement the installation was written to
    failures

vars == <<live, archives, made, portable, lock, busy, job, stolen, wreck, pushed, torn,
          failures>>

-----------------------------------------------------------------------------
(* The types.                                                              *)

Tree == Version \union {Nothing, Empty}
Core == [db : Version, key : Version \union {Nothing}, uploads : Tree]
Says == [key : BOOLEAN, uploads : BOOLEAN]      \* what a manifest declares

\* id 0: the backup that an archive of another installation brought.
Archive  == [id : 0..MaxArchives, core : Core, says : Says, checked : BOOLEAN]
Portable == [archive : Archive, config : Version, media : Version \union {Nothing},
             declared : BOOLEAN,        \* the manifest says that media is in it
             sound : BOOLEAN]           \* every file has the size and sum it declares

Making   == {"snap", "say", "pack", "publish", "sum", "prune"}
Forward  == {"db", "key", "away", "in", "init"}
Backward == {"undo db", "undo key", "undo in", "undo away"}
Carrying == {"restored", "config", "media"}
Between  == (Making \ {"snap"}) \union {"hold"}
Stage    == {"idle", "gather", "install", "install sum", "look", "remove", "open",
             "fill", "verify", "hold", "undone", "quit"}
               \union Making \union Forward \union Backward \union Carrying

\* What a process does: the task, how far it is, what it has the lock of, what
\* is restored (`from`, `core`), the archive being made (`pack`, `says`, `id`,
\* `keep`), what the restoration found (`before`, `old`) and has put in place
\* (`swapped`), and whether nobody has written to the installation since.
Job == [task : {"none", "backup", "restore", "export", "import"}, stage : Stage,
        admin : BOOLEAN, locked : BOOLEAN, import : Portable \union {Nothing},
        from : 0..MaxArchives \union {Nothing}, core : Core,
        pack : Core, says : Says, id : 0..MaxArchives, keep : Nat,
        before : Core, old : Tree, swapped : BOOLEAN, alone : BOOLEAN]

CoreOf(x) == [db |-> x.db, key |-> x.key, uploads |-> x.uploads]

SomeCore == [db |-> CHOOSE v \in Version : TRUE, key |-> Nothing, uploads |-> Nothing]
NoSays   == [key |-> FALSE, uploads |-> FALSE]
NoJob == [task |-> "none", stage |-> "idle", admin |-> FALSE, locked |-> FALSE,
          import |-> Nothing, from |-> Nothing, core |-> SomeCore,
          pack |-> SomeCore, says |-> NoSays, id |-> 0, keep |-> Keep,
          before |-> SomeCore, old |-> Nothing, swapped |-> FALSE, alone |-> TRUE]

Idle(p)     == job[p].task = "none"
At(p, s)    == job[p].stage = s
Goes(p, s)  == job' = [job EXCEPT ![p].stage = s]
Named(id)        == {i \in DOMAIN archives : archives[i].id = id}
Newest(n)        == IF Len(archives) <= n THEN archives
                    ELSE SubSeq(archives, Len(archives) - n + 1, Len(archives))
Greater(a, b)    == IF a > b THEN a ELSE b

\* What read_expected_checksum and verify_backup_checksum accept.
Checked(a) == a.checked

\* What validate_extracted_backup accepts.
Valid(a) == /\ a.core.db \in Secret => a.core.key # Nothing
            /\ a.says.key => a.core.key # Nothing
            /\ a.says.uploads => a.core.uploads # Nothing

\* What verify_archive and validate_manifest_files accept of a portable archive.
Sound(x)    == x.sound
Declared(x) == x.media # Nothing => x.declared

\* The installation as its users left it, with an earlier backup or none, and
\* a portable archive of another installation.
Fresh(v, u) == [db |-> v, key |-> IF v \in Secret THEN v ELSE Nothing, uploads |-> u]
Sealed(id, c) == [id |-> id, core |-> c, checked |-> TRUE,
                  says |-> [key |-> c.key # Nothing, uploads |-> c.uploads # Nothing]]
Foreign == {[archive |-> Sealed(0, Fresh(v, v)), config |-> v, media |-> m,
             declared |-> d, sound |-> s] :
              v \in Version, m \in Version \union {Nothing}, d, s \in BOOLEAN}

Init ==
    /\ \E v \in Version : \E u \in {v, Nothing} :
          live = [db |-> v, key |-> Fresh(v, u).key, uploads |-> u,
                  config |-> v, media |-> v]
    /\ archives \in {<<>>} \union {<<Sealed(1, Fresh(v, u))>> :
                                    v \in Version, u \in Version \union {Nothing}}
    /\ made = Len(archives)
    /\ portable \in {{}} \union {{x} : x \in Foreign}
    /\ lock = Nothing /\ busy = Nothing
    /\ job = [p \in Process |-> NoJob]
    /\ stolen = FALSE
    /\ wreck = Nothing
    /\ pushed = {} /\ torn = {}
    /\ failures = 0

-----------------------------------------------------------------------------
(* The tasks.                                                              *)

\* create_backup of the watchdog and of the command line: no lock is taken.
StartBackup(p) ==
    /\ Idle(p)
    /\ \E keep \in Keeps :
          job' = [job EXCEPT ![p] = [NoJob EXCEPT !.task = "backup", !.stage = "snap",
                                                  !.keep = keep]]
    /\ UNCHANGED <<live, archives, made, portable, lock, busy, stolen, wreck, pushed, failures>>

\* restore_backup, of the dashboard and of the command line.
StartRestore(p) ==
    /\ Idle(p)
    /\ \E i \in DOMAIN archives :
          job' = [job EXCEPT ![p] = [NoJob EXCEPT !.task = "restore", !.stage = "look",
                                                  !.from = archives[i].id]]
    /\ UNCHANGED <<live, archives, made, portable, lock, busy, stolen, wreck, pushed, failures>>

\* create_export and restore_export: the dashboard's under MIGRATION_LOCK.
Migrates(p, task, x, admin) ==
    /\ Idle(p)
    /\ admin => busy = Nothing
    /\ busy' = IF admin THEN p ELSE busy
    /\ job' = [job EXCEPT ![p] =
                  [NoJob EXCEPT !.task = task, !.stage = "snap", !.admin = admin,
                                !.import = x, !.keep = Greater(Keep, Len(archives) + 1)]]
    /\ UNCHANGED <<live, archives, made, portable, lock, stolen, wreck, pushed, failures>>

StartExport(p) == \E admin \in BOOLEAN : Migrates(p, "export", Nothing, admin)
StartImport(p) == \E admin \in BOOLEAN, x \in portable :
    /\ Sound(x) /\ Declared(x)
    /\ Migrates(p, "import", x, admin)

\* install_verified_archive: not in the place of a different archive.
Installs(x) == \A y \in portable : y.archive.id = x.archive.id => y = x

\* admin_upload_migration: what is uploaded is stored under another name,
\* verified, and then takes its place.
Receive ==
    /\ busy = Nothing
    /\ \E x \in Foreign :
          /\ Sound(x) /\ Declared(x) /\ Installs(x)
          /\ portable' = portable \union {x}
    /\ UNCHANGED <<live, archives, made, lock, busy, job, stolen, wreck, pushed, failures>>

\* The end of a task: the lock file is unlinked, whoever's it is.
Ends(p) ==
    /\ job' = [job EXCEPT ![p] = NoJob]
    /\ busy' = IF busy = p THEN Nothing ELSE busy
    /\ lock' = IF job[p].locked THEN Nothing ELSE lock
    /\ UNCHANGED <<live, archives, made, portable, stolen, wreck, pushed, failures>>

-----------------------------------------------------------------------------
(* create_backup.                                                          *)

Snap(p) ==
    /\ At(p, "snap")
    /\ job' = [job EXCEPT ![p].pack.db = live.db, ![p].stage = "say"]
    /\ UNCHANGED <<live, archives, made, portable, lock, busy, stolen, wreck, pushed, failures>>

Say(p) ==
    /\ At(p, "say")
    /\ job' = [job EXCEPT ![p].says = [key |-> live.key # Nothing,
                                       uploads |-> live.uploads # Nothing],
                          ![p].stage = "pack"]
    /\ UNCHANGED <<live, archives, made, portable, lock, busy, stolen, wreck, pushed, failures>>

Pack(p) ==
    /\ At(p, "pack")
    /\ job' = [job EXCEPT ![p].pack.key = live.key, ![p].pack.uploads = live.uploads,
                          ![p].stage = "publish"]
    /\ UNCHANGED <<live, archives, made, portable, lock, busy, stolen, wreck, pushed, failures>>

Publish(p) ==
    /\ At(p, "publish")
    /\ made < MaxArchives
    /\ made' = made + 1
    /\ archives' = Append(archives, [id |-> made + 1, core |-> job[p].pack,
                                     says |-> job[p].says, checked |-> FALSE])
    /\ job' = [job EXCEPT ![p].id = made + 1, ![p].stage = "sum"]
    /\ UNCHANGED <<live, portable, lock, busy, stolen, wreck, pushed, failures>>

Sum(p) ==
    /\ At(p, "sum")
    /\ archives' = [i \in DOMAIN archives |->
                      IF i \in Named(job[p].id) THEN [archives[i] EXCEPT !.checked = TRUE]
                      ELSE archives[i]]
    /\ Goes(p, IF Named(job[p].id) = {} THEN "quit" ELSE "prune")
    /\ UNCHANGED <<live, made, portable, lock, busy, stolen, wreck, pushed, failures>>

\* remove_old_backups, and on with what the backup was made for.
Prune(p) ==
    /\ At(p, "prune")
    /\ archives' = Newest(job[p].keep)
    /\ pushed' = pushed \union {archives[i].id : i \in 1..(Len(archives) - job[p].keep)}
    /\ job' = [job EXCEPT ![p] =
                  IF job[p].task = "backup" THEN NoJob
                  ELSE [job[p] EXCEPT !.stage =
                          IF job[p].locked THEN "hold" ELSE "gather"]]
    /\ UNCHANGED <<live, made, portable, lock, busy, stolen, wreck, failures>>

-----------------------------------------------------------------------------
(* backup_restore_lock.                                                    *)

\* A lock file that is still empty, or whose process is gone, is in the way.
Look(p) ==
    /\ At(p, "look")
    /\ Goes(p, IF lock # Nothing /\ (~lock.filled \/ lock.by = Nothing)
               THEN "remove" ELSE "open")
    /\ UNCHANGED <<live, archives, made, portable, lock, busy, stolen, wreck, pushed, failures>>

RemoveStale(p) ==
    /\ At(p, "remove")
    /\ lock' = Nothing
    /\ stolen' = (stolen \/ (lock # Nothing /\ lock.by # Nothing))
    /\ Goes(p, "open")
    /\ UNCHANGED <<live, archives, made, portable, busy, wreck, pushed, failures>>

Open(p) ==
    /\ At(p, "open")
    /\ lock = Nothing
    /\ lock' = [by |-> p, filled |-> FALSE]
    /\ job' = [job EXCEPT ![p].locked = TRUE, ![p].stage = "fill"]
    /\ UNCHANGED <<live, archives, made, portable, busy, stolen, wreck, pushed, failures>>

Refuse(p) ==
    /\ At(p, "open")
    /\ lock # Nothing
    /\ Ends(p)

Fill(p) ==
    /\ At(p, "fill")
    /\ lock' = IF lock # Nothing /\ lock.by = p THEN [lock EXCEPT !.filled = TRUE] ELSE lock
    /\ Goes(p, "verify")
    /\ UNCHANGED <<live, archives, made, portable, busy, stolen, wreck, pushed, failures>>

-----------------------------------------------------------------------------
(* restore_backup.                                                         *)

\* verify_backup_checksum, extract_validated_archive, validate_extracted_backup.
Verify_Wrong(p) ==     \* without the safety backup
    /\ At(p, "verify")
    /\ \E i \in Named(job[p].from) :
          job' = [job EXCEPT ![p].core = archives[i].core, ![p].stage = "hold"]
    /\ UNCHANGED <<live, archives, made, portable, lock, busy, stolen, wreck, pushed, failures>>

Verify(p) ==
    /\ At(p, "verify")
    /\ \A i \in Named(job[p].from) : Checked(archives[i]) /\ Valid(archives[i])
    /\ \E i \in Named(job[p].from) :
          job' = [job EXCEPT ![p].core = archives[i].core, ![p].stage = "snap",
                             ![p].keep = Greater(Keep, Len(archives) + 1)]
    /\ UNCHANGED <<live, archives, made, portable, lock, busy, stolen, wreck, pushed, failures>>

Invalid(p) ==
    /\ At(p, "verify")
    /\ \A i \in Named(job[p].from) : ~Checked(archives[i]) \/ ~Valid(archives[i])
    /\ Goes(p, "quit")
    /\ UNCHANGED <<live, archives, made, portable, lock, busy, stolen, wreck, pushed, failures>>

Hold(p) ==
    /\ At(p, "hold")
    /\ job' = [job EXCEPT ![p].before = CoreOf(live), ![p].stage = "db",
                          ![p].pack = SomeCore, ![p].says = NoSays]
    /\ UNCHANGED <<live, archives, made, portable, lock, busy, stolen, wreck, pushed, failures>>

\* A step of the installation's content: from a stage to the next.
Puts(p, from, to, content) ==
    /\ At(p, from)
    /\ live' = content
    /\ Goes(p, to)
    /\ UNCHANGED <<archives, made, portable, lock, busy, stolen, wreck, pushed, failures>>

TakeDatabase(p) == Puts(p, "db", "key", [live EXCEPT !.db = job[p].core.db])
TakeKey(p)      == Puts(p, "key", "away", [live EXCEPT !.key = job[p].core.key])

MoveAway(p) ==
    /\ At(p, "away")
    /\ live' = [live EXCEPT !.uploads = Nothing]
    /\ job' = [job EXCEPT ![p].old = live.uploads, ![p].stage = "in"]
    /\ UNCHANGED <<archives, made, portable, lock, busy, stolen, wreck, pushed, failures>>

\* A directory takes a name only from no directory or an empty one.
Free == live.uploads \in {Nothing, Empty}

\* An archive without files is an empty directory.
Placed(uploads) == IF uploads = Nothing THEN Empty ELSE uploads

MoveIn(p) ==
    /\ At(p, "in")
    /\ Free
    /\ live' = [live EXCEPT !.uploads = Placed(job[p].core.uploads)]
    /\ job' = [job EXCEPT ![p].swapped = TRUE, ![p].stage = "init"]
    /\ UNCHANGED <<archives, made, portable, lock, busy, stolen, wreck, pushed, failures>>

Obstructed(p) == /\ At(p, "in")
                 /\ ~Free
                 /\ Puts(p, "in", "undo db", live)

Initialize(p) == Puts(p, "init", "restored", live)

UndoDatabase(p) == Puts(p, "undo db", "undo key", [live EXCEPT !.db = job[p].before.db])
UndoKey(p)      == Puts(p, "undo key", "undo in", [live EXCEPT !.key = job[p].before.key])
UndoIn_Wrong(p) ==     \* the new files are left in the way of the old ones
                   Puts(p, "undo in", "undo away", live)
UndoIn(p) ==      Puts(p, "undo in", "undo away",
                        IF job[p].swapped THEN [live EXCEPT !.uploads = Nothing] ELSE live)
\* When users have filled the directory the move fails, and the old files go
\* with the working directory.
UndoAway(p)     == Puts(p, "undo away", "undone",
                        IF job[p].old # Nothing /\ Free
                        THEN [live EXCEPT !.uploads = job[p].old] ELSE live)

\* The lock is released; an import goes on.
Restored(p) ==
    /\ At(p, "restored")
    /\ IF job[p].task = "restore" THEN Ends(p)
       ELSE /\ lock' = Nothing
            /\ job' = [job EXCEPT ![p].locked = FALSE, ![p].stage = "config"]
            /\ UNCHANGED <<live, archives, made, portable, busy, stolen, wreck, pushed, failures>>

Quit(p) == (At(p, "quit") \/ At(p, "undone")) /\ Ends(p)

-----------------------------------------------------------------------------
(* create_export and restore_export.                                       *)

\* build_source_list, manifest_for_sources, write_archive and verify_archive;
\* a safety export takes the trees that the import brings.
Gather(p) ==
    /\ At(p, "gather")
    /\ Named(job[p].id) # {}
    /\ \E i \in Named(job[p].id), m \in {live.media, Nothing} :
          /\ job[p].task = "import" => (m = Nothing) = (job[p].import.media = Nothing)
          /\ portable' = portable \union
                {[archive |-> archives[i], config |-> live.config, media |-> m,
                  declared |-> m # Nothing, sound |-> TRUE]}
    /\ IF job[p].task = "import" THEN Goes(p, "install") /\ busy' = busy
       ELSE /\ job' = [job EXCEPT ![p] = NoJob]
            /\ busy' = IF busy = p THEN Nothing ELSE busy
    /\ UNCHANGED <<live, archives, made, lock, stolen, wreck, pushed, failures>>

\* The import's backup is copied to BACKUP_DIR, then its checksum; a different
\* one under its name is left alone.
Install(p) ==
    /\ At(p, "install")
    /\ LET a == job[p].import.archive
           there == Named(a.id)
           other == IF there = {} THEN archives
                    ELSE RemoveAt(archives, CHOOSE i \in there : TRUE)
           same == \A i \in there : archives[i].core = a.core
           sum == \E i \in there : archives[i].checked
       IN  /\ archives' = IF same THEN Append(other, [a EXCEPT !.checked = sum]) ELSE archives
           /\ Goes(p, IF same THEN "install sum" ELSE "quit")
    /\ UNCHANGED <<live, made, portable, lock, busy, stolen, wreck, pushed, failures>>

InstallSum(p) ==
    /\ At(p, "install sum")
    /\ LET id == job[p].import.archive.id
       IN  /\ archives' = [i \in DOMAIN archives |->
                             IF i \in Named(id) THEN [archives[i] EXCEPT !.checked = TRUE]
                             ELSE archives[i]]
           /\ job' = [job EXCEPT ![p].from = id, ![p].stage = "look"]
    /\ UNCHANGED <<live, made, portable, lock, busy, stolen, wreck, pushed, failures>>

TakeConfig(p) == Puts(p, "config", "media", [live EXCEPT !.config = job[p].import.config])

\* replace_tree, which undoes its own failure; schedule_migration_restart.
TakeMedia(p) ==
    /\ At(p, "media")
    /\ live' = IF job[p].import.media = Nothing THEN live
               ELSE [live EXCEPT !.media = job[p].import.media]
    /\ job' = [job EXCEPT ![p] = NoJob]
    /\ busy' = IF busy = p THEN Nothing ELSE busy
    /\ UNCHANGED <<archives, made, portable, lock, stolen, wreck, pushed, failures>>

-----------------------------------------------------------------------------
(* The world.                                                              *)

\* Users write messages and files; the message key is made when it is missing.
Change == \E v \in Version :
    /\ live' = [live EXCEPT !.db = v, !.uploads = v,
                   !.key = IF @ = Nothing /\ v \in Secret THEN v ELSE @]
    /\ live' # live
    /\ job' = [p \in Process |-> IF Idle(p) THEN job[p] ELSE [job[p] EXCEPT !.alone = FALSE]]
    /\ UNCHANGED <<archives, made, portable, lock, busy, stolen, wreck, pushed, failures>>

\* What a restoration that stops half-way leaves behind.
Wreck(p) == IF p \notin torn /\ job[p].stage \in Forward \union Backward \union Carrying
            THEN [core |-> job[p].before, id |-> job[p].id] ELSE wreck

\* A step fails: before the installation is touched the task ends, then it is
\* rolled back; a failed rollback, and an import that fails after the
\* restoration, leave it as it is.
Fail(p) ==
    /\ failures < MaxFailures
    /\ ~Idle(p)
    /\ job[p].stage \notin {"look", "remove", "open", "restored", "undone", "quit"}
    /\ failures' = failures + 1
    /\ Goes(p, IF job[p].stage \in Forward THEN "undo db" ELSE "quit")
    /\ wreck' = IF job[p].stage \in Forward THEN wreck ELSE Wreck(p)
    /\ UNCHANGED <<live, archives, made, portable, lock, busy, stolen, pushed>>

\* A killed process leaves its lock file, and the lock of its memory is gone.
Kill(p) ==
    /\ failures < MaxFailures
    /\ ~Idle(p)
    /\ failures' = failures + 1
    /\ wreck' = Wreck(p)
    /\ job' = [job EXCEPT ![p] = NoJob]
    /\ busy' = IF busy = p THEN Nothing ELSE busy
    /\ lock' = IF lock # Nothing /\ lock.by = p THEN [lock EXCEPT !.by = Nothing] ELSE lock
    /\ UNCHANGED <<live, archives, made, portable, stolen, pushed>>

Step(p) ==
    \/ StartBackup(p) \/ StartRestore(p) \/ StartExport(p) \/ StartImport(p)
    \/ Snap(p) \/ Say(p) \/ Pack(p) \/ Publish(p) \/ Sum(p) \/ Prune(p)
    \/ Look(p) \/ RemoveStale(p) \/ Open(p) \/ Refuse(p) \/ Fill(p)
    \/ Verify(p) \/ Invalid(p) \/ Hold(p) \/ TakeDatabase(p) \/ TakeKey(p)
    \/ MoveAway(p) \/ MoveIn(p) \/ Obstructed(p) \/ Initialize(p)
    \/ UndoDatabase(p) \/ UndoKey(p) \/ UndoIn(p) \/ UndoAway(p)
    \/ Restored(p) \/ Quit(p)
    \/ Gather(p) \/ Install(p) \/ InstallSum(p) \/ TakeConfig(p) \/ TakeMedia(p)
    \/ Fail(p) \/ Kill(p)

\* Whose safety backup may not be what the restoration replaces: the database,
\* the key or the files changed after its snapshot.
Observe == torn' = {p \in Process :
    /\ job'[p].stage \in Between \union Forward \union Backward \union Carrying
    /\ p \in torn \/ (job[p].stage \in Between /\ CoreOf(live') # CoreOf(live))}

Next == (Change \/ Receive \/ \E p \in Process : Step(p)) /\ Observe

Spec == Init /\ [][Next]_vars

-----------------------------------------------------------------------------
(* The properties.                                                         *)

(* Every variable has its type.                                            *)
TypeOK ==
    /\ live \in [db : Version, key : Version \union {Nothing}, uploads : Tree,
                 config : Version, media : Version]
    /\ archives \in Seq(Archive)
    /\ made \in 0..MaxArchives
    /\ portable \subseteq Portable
    /\ lock = Nothing \/ lock \in [by : Process \union {Nothing}, filled : BOOLEAN]
    /\ busy \in Process \union {Nothing}
    /\ job \in [Process -> Job]
    /\ stolen \in BOOLEAN
    /\ wreck = Nothing \/ wreck \in [core : Core, id : 0..MaxArchives]
    /\ pushed \subseteq 0..made
    /\ torn \subseteq Process
    /\ failures \in 0..MaxFailures

(* Nobody sees half a restoration: when restore_backup answers that it     *)
(* restored, the database, the key and the files are all the archive's,    *)
(* and when it answers that it failed, all are what they were.  This holds *)
(* of a restoration whose installation no user wrote to meanwhile, and as  *)
(* long as no process took away the lock of another.                       *)
Holds(x, db, key, uploads) == x.db = db /\ x.key = key /\ x.uploads = uploads

RestoreIsAtomic == \A p \in Process : job[p].alone /\ ~stolen =>
    LET new == job[p].core
        was == job[p].before
    IN  /\ At(p, "restored") => Holds(live, new.db, new.key, Placed(new.uploads))
        /\ At(p, "undone") => Holds(live, was.db, was.key, was.uploads)

\* A content is in the archive of that name, unless newer ones pushed it out.
Safe(core, id) ==
    \/ id \in pushed
    \/ \E i \in Named(id) : archives[i].checked /\ archives[i].core = core

(* From the first change a restoration makes until its task is over, and   *)
(* for ever when it was killed or failed half-way, what it replaced is in  *)
(* an archive that can be verified, whoever writes, restores or takes the  *)
(* lock away meanwhile.  The exceptions are an installation that was       *)
(* written to while the safety backup was made, up to the moment at which  *)
(* the restoration began to replace it, and an archive that a later backup *)
(* removed because it was told to keep as many as there were newer.        *)
SafetyNet ==
    /\ \A p \in Process \ torn :
          job[p].stage \in Forward \union Backward \union Carrying =>
             Safe(job[p].before, job[p].id)
    /\ wreck # Nothing => Safe(wreck.core, wreck.id)

=============================================================================
