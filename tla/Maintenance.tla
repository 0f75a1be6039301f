----------------------------- MODULE Maintenance -----------------------------
(***************************************************************************)
(* The database file over starts, updates, backups and restores:           *)
(* migrations/manager.py as production/startup_checks.py runs it,          *)
(* backup/manager.py, backup/snapshot.py, backup/validation.py,            *)
(* backup/restore.py and the handlers of api/backup_api.py.                *)
(*                                                                         *)
(* A file is what its migrations did to it.  The process may go down       *)
(* anywhere; SQLite makes each statement that changes the schema lasting   *)
(* by itself, in a write-ahead log (journal_mode=WAL) whose pages hide     *)
(* those of the file beneath it until a clean end of the process.          *)
(***************************************************************************)
EXTENDS Integers, FiniteSets, Sequences

CONSTANTS
    Statements,     \* of each version, in order: "safe" ones can be repeated (IF NOT EXISTS),
                    \* "alter" ones cannot (ADD COLUMN)
    Kinds,          \* the kinds of backup, in the order of their names
    Retention,      \* BackupManager.retention
    MaxTime,        \* bound on the clock, whose ticks are the seconds of a backup's name
    MaxCopies,      \* bound on the backups and restores that are begun
    MaxFaults       \* bound: crashes and statements that raise

Versions == DOMAIN Statements

ASSUME MaintenanceAssumption ==
    /\ Statements \in Seq(Seq({"safe", "alter"})) \ {<<>>}
    /\ Kinds \subseteq Nat
    /\ Retention \in Nat \ {0}
    /\ {MaxTime, MaxCopies, MaxFaults} \subseteq Nat

VARIABLES
    now,        \* the clock
    release,    \* how many migrations the installed program has
    db,         \* the live database, as it reads: the file under its log
    logged,     \* whether the write-ahead log has pages
    start,      \* the start of the process and its migrations
    backup,     \* the backup that is being made
    due,        \* backups that are made and whose requests come to the retention yet
    restore,    \* the restore that is under way
    shelf,      \* backup_root: its directories by name
    copies,     \* how many backups and restores were begun
    faults      \* how often the process went down or a statement raised

vars == <<now, release, db, logged, start, backup, due, restore, shelf, copies, faults>>

\* A file: the statements whose effect is in it, the versions in its schema_migrations,
\* whether it cannot be read, and (history) whether it has pages of two files that had
\* recorded different versions.
File == [done : SUBSET (Versions \X Nat), applied : SUBSET Versions, torn : BOOLEAN,
         blended : BOOLEAN]
NewFile == [done |-> {}, applied |-> {}, torn |-> FALSE, blended |-> FALSE]
Unreadable == [NewFile EXCEPT !.torn = TRUE]

\* A directory's name: its kind and the second.  The manifest has the checksum of the file.
Name == Kinds \X (0..MaxTime)
NoFile == {}

Out(at) == [at |-> at, version |-> 0, place |-> 0, seen |-> {}]

\* A backup or a restore: where it is, the name it is about, the file in hand, when it began.
Copying == [at : {"idle", "copy", "sign", "quiesce"}, name : Nat \X (0..MaxTime),
            file : SUBSET File, since : 0..MaxTime]
Idle == [at |-> "idle", name |-> <<0, 0>>, file |-> NoFile, since |-> 0]

TypeOK ==
    /\ now \in 0..MaxTime
    /\ release \in Versions
    /\ db \in File
    /\ logged \in BOOLEAN
    /\ due \subseteq Name
    /\ start \in [at : {"down", "next", "run", "up", "degraded"}, version : Versions \cup {0},
                 place : Nat, seen : SUBSET Versions]
    /\ start.at = "run" => start.version \in Versions
    /\ backup \in Copying
    /\ restore \in Copying
    /\ backup.at # "idle" => backup.name \in Name
    /\ restore.at # "idle" => restore.name \in Name
    /\ restore.at = "copy" => restore.file # NoFile
    /\ shelf \in [Name -> [file : SUBSET File, manifest : SUBSET File]]
    /\ copies \in 0..MaxCopies
    /\ faults \in 0..MaxFaults

Init ==
    /\ now = 0
    /\ release = 1
    /\ db = NewFile
    /\ logged = FALSE
    /\ due = {}
    /\ start = Out("down")
    /\ backup = Idle
    /\ restore = Idle
    /\ shelf = [n \in Name |-> [file |-> NoFile, manifest |-> NoFile]]
    /\ copies = 0
    /\ faults = 0

Live == start.at \in {"up", "degraded"}

------------------------------------------------------------------------------
(* The start: StartupChecks.run and apply_pending.                          *)

\* The tables of Database.connect are there; applied_versions is read once.  A torn file
\* does not open.
Start ==
    /\ start.at = "down"
    /\ ~db.torn
    /\ start' = [at |-> "next", version |-> 0, place |-> 0, seen |-> db.applied]
    /\ UNCHANGED <<now, release, db, logged, backup, due, restore, shelf, copies, faults>>

\* Mutant: the table is not looked at.
PendingAll == {v \in 1..release : v > start.version}

\* The migrations that come yet: those that were not in the table when the start read it.
Pending == {v \in 1..release : v > start.version /\ v \notin start.seen}

NextVersion ==
    /\ start.at = "next"
    /\ \/ Pending = {} /\ start' = Out("up")
       \/ \E v \in Pending :
            /\ \A w \in Pending : v <= w
            /\ start' = [start EXCEPT !.at = "run", !.place = 1, !.version = v]
    /\ UNCHANGED <<now, release, db, logged, backup, due, restore, shelf, copies, faults>>

\* A failed migration ends apply_pending; the Brain starts degraded.
Degrades == start' = Out("degraded") /\ UNCHANGED <<db, logged>>

\* One statement of a migration: a column that is there already raises.
Execute ==
    /\ start.at = "run"
    /\ start.place <= Len(Statements[start.version])
    /\ LET effect == <<start.version, start.place>> IN
        IF Statements[start.version][start.place] = "alter" /\ effect \in db.done
        THEN Degrades
        ELSE /\ db' = [db EXCEPT !.done = @ \cup {effect}]
             /\ logged' = TRUE
             /\ start' = [start EXCEPT !.place = @ + 1]
    /\ UNCHANGED <<now, release, backup, due, restore, shelf, copies, faults>>

\* Mutant: a failed migration is passed over.
GoesOn == [start EXCEPT !.at = "next"]

\* Where apply_pending is after an exception: it breaks off.
AfterFailure == Out("degraded")

\* A statement raises: the database is locked, the disk is full.
StatementRaises ==
    /\ start.at = "run"
    /\ faults < MaxFaults
    /\ faults' = faults + 1
    /\ start' = AfterFailure
    /\ UNCHANGED <<now, release, db, logged, backup, due, restore, shelf, copies>>

\* All statements done and validated: the version is recorded.
Record ==
    /\ start.at = "run"
    /\ start.place > Len(Statements[start.version])
    /\ db' = [db EXCEPT !.applied = @ \cup {start.version}]
    /\ logged' = TRUE
    /\ start' = [start EXCEPT !.at = "next"]
    /\ UNCHANGED <<now, release, backup, due, restore, shelf, copies, faults>>

\* Whatever else the program writes goes into the log.
Write ==
    /\ start.at # "down"
    /\ ~logged
    /\ logged' = TRUE
    /\ UNCHANGED <<now, release, db, start, backup, due, restore, shelf, copies, faults>>

\* A program that knows one more migration is installed.
Update ==
    /\ start.at = "down"
    /\ release < Len(Statements)
    /\ release' = release + 1
    /\ UNCHANGED <<now, db, logged, start, backup, due, restore, shelf, copies, faults>>

------------------------------------------------------------------------------
(* Backups.  Copying holds the event loop: only a crash comes in between, until the record  *)
(* of the backup is awaited; other requests are served then.                                *)

Valid(d) == d.manifest # NoFile /\ d.manifest = d.file /\ \A f \in d.file : ~f.torn
ValidNames == {n \in Name : Valid(shelf[n])}

\* What occupies the event loop.
Busy == backup.at # "idle" \/ restore.at = "copy"

\* SnapshotService.create: a second backup of one kind in a second goes to the same directory.
BeginBackup ==
    /\ Live /\ ~Busy
    /\ \E kind \in Kinds :
        /\ backup' = [Idle EXCEPT !.at = "copy", !.name = <<kind, now>>]
        /\ shelf' = [shelf EXCEPT ![<<kind, now>>].file = {Unreadable}]
    /\ copies < MaxCopies
    /\ copies' = copies + 1
    /\ UNCHANGED <<now, release, db, logged, start, due, restore, faults>>

\* The copy is of the database as it reads, log and all.
CopyDatabase ==
    /\ backup.at = "copy"
    /\ backup' = [backup EXCEPT !.at = "sign"]
    /\ shelf' = [shelf EXCEPT ![backup.name].file = {db}]
    /\ UNCHANGED <<now, release, db, logged, start, due, restore, copies, faults>>

\* The manifest is written last, whatever the copy is worth; the record of the backup is
\* awaited.
Sign ==
    /\ backup.at = "sign"
    /\ backup' = Idle
    /\ due' = due \cup {backup.name}
    /\ shelf' = [shelf EXCEPT ![backup.name].manifest = shelf[backup.name].file]
    /\ UNCHANGED <<now, release, db, logged, start, restore, copies, faults>>

\* Copying the directories of the configuration raises and the directory stays as it is, or
\* the record of the backup does.
BackupFails ==
    /\ faults < MaxFaults
    /\ faults' = faults + 1
    /\ \/ backup.at = "sign" /\ backup' = Idle /\ UNCHANGED due
       \/ ~Busy /\ (\E n \in due : due' = due \ {n}) /\ UNCHANGED backup
    /\ UNCHANGED <<now, release, db, logged, start, restore, shelf, copies>>

\* The names that come before n in _apply_retention's order: by kind first, then the newest.
Before(n, all) == {k \in all : k[1] > n[1] \/ (k[1] = n[1] /\ k[2] > n[2])}
Signed == {n \in Name : shelf[n].manifest # NoFile}

\* Mutant: directories without a manifest count.
StaleAny ==
    LET written == {n \in Name : shelf[n].file # NoFile} IN
    {n \in written : Cardinality(Before(n, written)) >= Retention}

Stale == {n \in Signed : Cardinality(Before(n, Signed)) >= Retention}

Prune ==
    /\ ~Busy
    /\ \E n \in due : due' = due \ {n}
    /\ shelf' = [n \in Name |-> IF n \in Stale THEN [file |-> NoFile, manifest |-> NoFile]
                                ELSE shelf[n]]
    /\ UNCHANGED <<now, release, db, logged, start, backup, restore, copies, faults>>

------------------------------------------------------------------------------
(* Restores.                                                                *)

\* Mutant: whatever has a manifest will do.
AcceptsSigned(n) == shelf[n].manifest # NoFile

\* BackupValidator.validate.
Accepts(n) == Valid(shelf[n])

\* restore validates, and awaits that the services stop.
BeginRestore ==
    /\ Live /\ ~Busy /\ restore.at = "idle"
    /\ \E n \in Name :
        /\ Accepts(n)
        /\ restore' = [at |-> "quiesce", name |-> n, file |-> NoFile, since |-> now]
    /\ copies < MaxCopies
    /\ copies' = copies + 1
    /\ UNCHANGED <<now, release, db, logged, start, backup, due, shelf, faults>>

\* The copy over the live file begins, after an integrity test of its own; a backup that is
\* gone by now is passed over, and the restore is reported all the same.
CopyBack ==
    /\ restore.at = "quiesce"
    /\ ~Busy
    /\ LET file == shelf[restore.name].file IN
        IF file = NoFile
        THEN restore' = Idle /\ UNCHANGED db
        ELSE IF \E f \in file : f.torn
        THEN restore' = Idle /\ UNCHANGED db
        ELSE /\ restore' = [restore EXCEPT !.at = "copy", !.file = file]
             /\ db' = [db EXCEPT !.torn = TRUE]
    /\ UNCHANGED <<now, release, logged, start, backup, due, shelf, copies, faults>>

\* What is on several pages, page by page from one or the other.
Between(X, Y) == {(X \cap Y) \cup Z : Z \in SUBSET (X \cup Y)}

\* How the database reads once f lies in its file: the log is not taken away, and where it
\* has a page that page hides the one beneath it.
Reads(f) ==
    IF ~logged THEN {f}
    ELSE [done : Between(db.done, f.done), applied : {db.applied, f.applied},
          torn : {FALSE}, blended : {db.blended \/ f.blended \/ db.applied # f.applied}]
         \cup {Unreadable}

\* The copy is complete; the record of the restore goes into the log.
Restored ==
    /\ restore.at = "copy"
    /\ \E f \in restore.file : db' \in Reads(f)
    /\ logged' = TRUE
    /\ restore' = Idle
    /\ UNCHANGED <<now, release, start, backup, due, shelf, copies, faults>>

------------------------------------------------------------------------------

\* The operator restarts after a restore, or for an update.  The connection that closes
\* brings the log into the file.
Stop ==
    /\ Live /\ ~Busy
    /\ start' = Out("down")
    /\ logged' = FALSE
    /\ due' = {}
    /\ restore' = Idle
    /\ UNCHANGED <<now, release, db, backup, shelf, copies, faults>>

\* The log outlives the process.  Half a copy reads as something under a log, or not at all.
Crash ==
    /\ start.at # "down"
    /\ faults < MaxFaults
    /\ faults' = faults + 1
    /\ start' = Out("down")
    /\ backup' = Idle
    /\ due' = {}
    /\ restore' = Idle
    /\ IF restore.at # "copy" THEN UNCHANGED db
       ELSE IF logged THEN \E f \in restore.file : db' \in Reads(f)
       ELSE db' = Unreadable
    /\ UNCHANGED <<now, release, logged, shelf, copies>>

Tick ==
    /\ now < MaxTime
    /\ now' = now + 1
    /\ UNCHANGED <<release, db, logged, start, backup, due, restore, shelf, copies, faults>>

Starting == Start \/ NextVersion \/ Execute \/ Record

Next ==
    \/ Starting \/ StatementRaises \/ Write \/ Update
    \/ BeginBackup \/ CopyDatabase \/ Sign \/ BackupFails \/ Prune
    \/ BeginRestore \/ CopyBack \/ Restored
    \/ Stop \/ Crash \/ Tick

Spec == Init /\ [][Next]_vars

\* The shell restarts a Brain that is down, and a start runs to its end.
Fairness == WF_vars(Starting)
FairSpec == Spec /\ Fairness

------------------------------------------------------------------------------
(* What maintenance promises.                                               *)

\* A version that is recorded, in the live database or in a backup that can be restored, has
\* all its effects in it and all versions before it recorded: through crashes between any two
\* statements, starts that break off, newer programs, and restores.  But for what a restore
\* made of two files that had recorded different versions: its copy goes under the log of a
\* running Brain, whose pages go on hiding those of the backup (apply_pending, restore).
Sound(f) == f.blended \/ \A v \in f.applied : /\ 1..v \subseteq f.applied
                                              /\ \A i \in DOMAIN Statements[v] : <<v, i>> \in f.done
RecordedIsDone ==
    /\ ~db.torn => Sound(db)
    /\ \A n \in ValidNames : \A f \in shelf[n].file : Sound(f)

\* Of each kind the newest backup that can be restored stays, whatever is made, broken off or
\* pruned at the same time; but for a backup of its kind made in its second, which goes into
\* its directory, and where directories that cannot be restored or whose kind comes first in
\* the alphabet are as many as the retention: _apply_retention counts them like any other,
\* where the documentation has it keep the newest (_apply_retention, create).
GoodStay ==
    \A n \in ValidNames \ ValidNames' :
        \/ \E k \in ValidNames' : k[1] = n[1] /\ k[2] > n[2]
        \/ n = backup'.name /\ backup'.at = "copy"
        \/ Cardinality({k \in Signed : k \notin ValidNames \/ k[1] > n[1]}) >= Retention

NewestGoodStays == [][GoodStay]_vars

\* What a restore puts in place of the live file is whole and is what the manifest of its
\* backup says, through backups that break off, are made again or are pruned while it waits
\* for the services; but for a backup that was accepted in the second of its name
\* (validate, restore, create).
RestoresSigned ==
    restore.at = "copy" =>
        /\ \A f \in restore.file : ~f.torn
        /\ restore.file = shelf[restore.name].manifest \/ restore.since = restore.name[2]

\* A Brain that is down comes up with every migration of its program recorded, once nothing
\* more fails; unless the database cannot be read, after a crash in the middle of a copy over
\* it or a restore under its log, or has a statement that cannot be repeated without the
\* record of its version, after a crash between the two or a restore under the log again:
\* these no start gets past (apply_pending, restore).
Blocked ==
    \/ db.torn
    \/ \E v \in Versions \ db.applied : \E i \in DOMAIN Statements[v] :
        Statements[v][i] = "alter" /\ <<v, i>> \in db.done
ComesUp ==
    (start.at = "down" /\ ~Blocked /\ faults = MaxFaults)
        ~> (start.at = "up" /\ 1..release \subseteq db.applied)
==============================================================================
