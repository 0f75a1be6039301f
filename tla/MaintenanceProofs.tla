-------------------------- MODULE MaintenanceProofs --------------------------
(***************************************************************************)
(* What TLAPS proves of Maintenance, for any migrations, any kinds of      *)
(* backup and any retention: what schema_migrations says of a file is      *)
(* true, wherever the file went and wherever the process went down, unless *)
(* a restore blended two files; a restore copies what its backup's         *)
(* manifest says; and of each kind the newest good backup stays.           *)
(***************************************************************************)
EXTENDS Maintenance, FiniteSetTheorems, SequenceTheorems, WellFoundedInduction, TLAPS

\* What is true of the live file is true of every copy of it.
SoundFiles ==
    /\ Sound(db)
    /\ \A f \in restore.file : Sound(f)
    /\ \A n \in Name : \A f \in shelf[n].file \cup shelf[n].manifest : Sound(f)

\* How far the start is: the versions before the one at hand are recorded, and of that one
\* the statements before the one at hand are done.
Upto(s, f) ==
    /\ s.at \in {"next", "run"} => s.seen \subseteq f.applied
    /\ s.at = "next" => 1..s.version \subseteq f.applied
    /\ s.at = "run" =>
        /\ s.version # 0 /\ s.place # 0
        /\ 1..(s.version - 1) \subseteq f.applied
        /\ \A i \in 1..(s.place - 1) : <<s.version, i>> \in f.done

\* Nobody replaces the file while the start is at work on it.
Apart == restore.at # "idle" => Live

Recorded == TypeOK /\ SoundFiles /\ Upto(start, db) /\ Apart

\* A directory bears the second it was made in, or an earlier one.
Dated ==
    /\ \A n \in Name : shelf[n].file # NoFile => n[2] <= now
    /\ backup.at \in {"copy", "sign"} => backup.name[2] <= now

\* A backup that is being made has a directory of its own; one that is made while a restore
\* waits is not the one the restore accepted, unless they share a second.
Making ==
    restore.at = "quiesce" /\ backup.at \in {"copy", "sign"} => backup.name[2] >= restore.since

\* What a restore accepted is there as it was, or gone.
Waiting ==
    /\ restore.at \in {"idle", "quiesce", "copy"}
    /\ restore.at # "idle" => restore.name[2] <= restore.since /\ restore.since <= now
    /\ restore.at = "quiesce" =>
        \/ restore.since = restore.name[2]
        \/ shelf[restore.name].file = NoFile
        \/ shelf[restore.name].file = shelf[restore.name].manifest

Writing ==
    restore.at = "copy" =>
        /\ backup.at \notin {"copy", "sign"}
        /\ \A f \in restore.file : ~f.torn
        /\ restore.file = shelf[restore.name].manifest \/ restore.since = restore.name[2]

Accepted == TypeOK /\ Dated /\ Making /\ Waiting /\ Writing

\* While a backup copies the database its directory holds a torn file, and finitely many
\* directories have a manifest.
Made ==
    /\ TypeOK
    /\ backup.at = "copy" => \E f \in shelf[backup.name].file : f.torn
    /\ IsFiniteSet(Signed)

------------------------------------------------------------------------------
(* Types.                                                                   *)

LEMMA Assumed ==
    /\ Len(Statements) \in Nat \ {0} /\ Versions = 1..Len(Statements)
    /\ \A v \in Versions : /\ Len(Statements[v]) \in Nat
                           /\ DOMAIN Statements[v] = 1..Len(Statements[v])
    /\ Kinds \subseteq Nat /\ Retention \in Nat \ {0} /\ MaxTime \in Nat /\ MaxFaults \in Nat
    /\ MaxCopies \in Nat
  <1>1. Statements \in Seq(Seq({"safe", "alter"})) /\ Statements # <<>>
    BY MaintenanceAssumption
  <1>2. Len(Statements) \in Nat /\ DOMAIN Statements = 1..Len(Statements) /\ Len(Statements) # 0
    BY <1>1, LenProperties, EmptySeq
  <1>3. \A v \in Versions : Statements[v] \in Seq({"safe", "alter"})
    BY <1>1, <1>2, ElementOfSeq DEF Versions
  <1>4. \A v \in Versions : /\ Len(Statements[v]) \in Nat
                            /\ DOMAIN Statements[v] = 1..Len(Statements[v])
    BY <1>3, LenProperties
  <1> QED BY <1>2, <1>4, MaintenanceAssumption DEF Versions

LEMMA Initially == Init => TypeOK
  <1> SUFFICES ASSUME Init PROVE TypeOK
    OBVIOUS
  <1>1. /\ 0 \in 0..MaxTime /\ 1 \in Versions /\ 0 \in 0..MaxFaults /\ 0 \in Nat
        /\ 0 \in 0..MaxCopies
    BY Assumed
  <1>2. NewFile \in File /\ NoFile \in SUBSET File
    BY DEF NewFile, File, NoFile
  <1>3. Idle \in Copying
    BY <1>1, <1>2 DEF Idle, Copying
  <1>4. Out("down") \in [at : {"down", "next", "run", "up", "degraded"}, version : Versions \cup {0},
                         place : Nat, seen : SUBSET Versions]
    BY <1>1 DEF Out
  <1>5. Out("down").at # "run" /\ Idle.at = "idle"
    BY DEF Out, Idle
  <1> QED BY <1>1, <1>2, <1>3, <1>4, <1>5 DEF Init, TypeOK

StartRecord == [at : {"down", "next", "run", "up", "degraded"}, version : Versions \cup {0},
                place : Nat, seen : SUBSET Versions]
Directory == [file : SUBSET File, manifest : SUBSET File]

LEMMA Outs ==
    /\ \A at \in {"down", "up", "degraded"} : Out(at) \in StartRecord
    /\ Idle \in Copying
    /\ \A f \in File : [f EXCEPT !.torn = TRUE] \in File
    /\ Unreadable \in File
  <1>1. Idle \in Copying
    BY Assumed DEF Idle, Copying, NoFile
  <1>2. \A f \in File : [f EXCEPT !.torn = TRUE] \in File
    BY Zenon DEF File
  <1>3. NewFile \in File
    BY DEF NewFile, File
  <1>4. Unreadable \in File
    BY <1>2, <1>3 DEF Unreadable
  <1> QED BY <1>1, <1>2, <1>4 DEF Out, StartRecord

\* The variables one by one.
LEMMA Typed ==
    ASSUME TypeOK
    PROVE  /\ now \in 0..MaxTime /\ release \in Versions /\ db \in File /\ start \in StartRecord
           /\ backup \in Copying /\ restore \in Copying /\ shelf \in [Name -> Directory]
           /\ faults \in 0..MaxFaults /\ copies \in 0..MaxCopies
           /\ logged \in BOOLEAN /\ due \subseteq Name
           /\ start.at = "run" => start.version \in Versions
           /\ backup.at # "idle" => backup.name \in Name
           /\ restore.at # "idle" => restore.name \in Name
           /\ restore.at = "copy" => restore.file # NoFile
  BY DEF TypeOK, StartRecord, Directory

\* What a database under a log reads as is a file, and as sound as the two it is made of.
LEMMA ReadsTyped ==
    ASSUME db \in File, NEW f \in File, NEW h \in Reads(f)
    PROVE  h \in File
  <1>1. CASE h = f \/ h = Unreadable
    BY <1>1, Outs
  <1>2. CASE h \in [done : Between(db.done, f.done), applied : {db.applied, f.applied},
                   torn : {FALSE}, blended : {db.blended \/ f.blended \/ db.applied # f.applied}]
    <2>1. /\ db.done \subseteq Versions \X Nat /\ f.done \subseteq Versions \X Nat
          /\ db.applied \subseteq Versions /\ f.applied \subseteq Versions
      BY DEF File
    <2>2. \A d \in Between(db.done, f.done) : d \in SUBSET (Versions \X Nat)
      BY <2>1 DEF Between
    <2>3. (db.blended \/ f.blended \/ db.applied # f.applied) \in BOOLEAN
      OBVIOUS
    <2>4. {db.applied, f.applied} \subseteq SUBSET Versions
      BY <2>1
    <2> QED BY <1>2, <2>2, <2>3, <2>4, Zenon DEF File
  <1> QED BY <1>1, <1>2 DEF Reads

LEMMA StartingTyped == ASSUME TypeOK, Starting PROVE TypeOK'
  <1>1. /\ start \in StartRecord /\ db \in File /\ release \in Versions
        /\ start.at = "run" => start.version \in Versions
    BY Typed
  <1>2. UNCHANGED <<now, release, backup, due, restore, shelf, copies, faults>>
        /\ logged' \in BOOLEAN
    BY Typed DEF Degrades, Starting, Start, NextVersion, Execute, Record
  <1> SUFFICES /\ start' \in StartRecord /\ db' \in File
               /\ start'.at = "run" => start'.version \in Versions
    BY <1>2 DEF TypeOK, StartRecord
  <1>3. CASE Start
    BY <1>1, <1>3, Assumed DEF Start, StartRecord, File
  <1>4. CASE NextVersion
    <2>1. ASSUME NEW v \in Pending, start' = [start EXCEPT !.at = "run", !.place = 1, !.version = v]
          PROVE  start' \in StartRecord /\ start'.version \in Versions
      <3>1. v \in Versions /\ 1 \in Nat
        BY <1>1, Assumed DEF Pending
      <3> QED BY <1>1, <2>1, <3>1, Zenon DEF StartRecord
    <2>2. Out("up") \in StartRecord /\ Out("up").at # "run"
      BY Outs DEF Out
    <2>3. db' = db /\ (start' = Out("up") \/ (start' \in StartRecord /\ start'.version \in Versions))
      BY <1>4, <2>1 DEF NextVersion
    <2>4. start' \in StartRecord /\ (start'.at = "run" => start'.version \in Versions)
      BY <2>2, <2>3, Zenon
    <2> QED BY <1>1, <2>3, <2>4
  <1>5. CASE Execute
    <2>1. start.version \in Versions /\ start.place \in Nat /\ start.place + 1 \in Nat
      BY <1>1, <1>5, Assumed DEF Execute, StartRecord
    <2>2. CASE Degrades
      BY <1>1, <2>2, Outs DEF Degrades, Out
    <2>3. CASE /\ db' = [db EXCEPT !.done = @ \cup {<<start.version, start.place>>}]
               /\ start' = [start EXCEPT !.place = @ + 1]
      <3>1. db.done \cup {<<start.version, start.place>>} \in SUBSET (Versions \X Nat)
        BY <1>1, <2>1 DEF File
      <3> QED BY <1>1, <2>1, <2>3, <3>1, Zenon DEF StartRecord, File
    <2> QED BY <1>5, <2>2, <2>3 DEF Execute
  <1>6. CASE Record
    <2>1. start.version \in Versions
      BY <1>1, <1>6, Assumed DEF Record, StartRecord
    <2>2. db.applied \cup {start.version} \in SUBSET Versions
      BY <1>1, <2>1 DEF File
    <2> QED BY <1>1, <1>6, <2>2, Zenon DEF Record, StartRecord, File
  <1> QED BY <1>3, <1>4, <1>5, <1>6 DEF Starting

\* What backups and restores change.
LEMMA CopyingTyped ==
    ASSUME TypeOK,
           \/ BeginBackup \/ CopyDatabase \/ Sign \/ BackupFails \/ Prune
           \/ BeginRestore \/ CopyBack \/ Restored
    PROVE  TypeOK'
  <1>1. /\ now \in 0..MaxTime /\ faults \in 0..MaxFaults /\ db \in File
        /\ backup \in Copying /\ restore \in Copying /\ shelf \in [Name -> Directory]
        /\ backup.at # "idle" => backup.name \in Name
        /\ restore.at # "idle" => restore.name \in Name
        /\ restore.at = "copy" => restore.file # NoFile
        /\ copies \in 0..MaxCopies /\ logged \in BOOLEAN /\ due \subseteq Name
    BY Typed
  <1>2. UNCHANGED <<now, release, start>>
    BY DEF BeginBackup, CopyDatabase, Sign, BackupFails, Prune, BeginRestore, CopyBack, Restored
  <1> DEFINE Good(b) == b \in Copying /\ (b.at # "idle" => b.name \in Name)
  <1>3. /\ copies' \in 0..MaxCopies /\ logged' \in BOOLEAN
    <2>1. copies' = copies \/ (copies < MaxCopies /\ copies' = copies + 1)
      BY DEF BeginBackup, CopyDatabase, Sign, BackupFails, Prune, BeginRestore, CopyBack, Restored
    <2>2. logged' = logged \/ logged' = TRUE
      BY DEF BeginBackup, CopyDatabase, Sign, BackupFails, Prune, BeginRestore, CopyBack, Restored
    <2>3. copies' \in 0..MaxCopies
      BY <1>1, <2>1, Assumed
    <2>4. logged' \in BOOLEAN
      BY <1>1, <2>2, Zenon
    <2> QED BY <2>3, <2>4
  <1> SUFFICES /\ db' \in File /\ Good(backup') /\ Good(restore')
               /\ restore'.at = "copy" => restore'.file # NoFile
               /\ shelf' \in [Name -> Directory] /\ faults' \in 0..MaxFaults
               /\ due' \subseteq Name
    BY <1>2, <1>3 DEF TypeOK, Directory
  <1>4. /\ \A f \in File : [f EXCEPT !.torn = TRUE] \in File
        /\ Unreadable \in File /\ Good(Idle) /\ Idle.at = "idle"
    BY Outs DEF Idle
  <1>5. ASSUME NEW n, NEW F \in SUBSET File
        PROVE  /\ [shelf EXCEPT ![n].file = F] \in [Name -> Directory]
               /\ [shelf EXCEPT ![n].manifest = F] \in [Name -> Directory]
    BY <1>1, Zenon DEF Directory
  <1> HIDE DEF Good
  <1>6. Good(backup) /\ Good(restore)
    BY <1>1 DEF Good
  <1>7. CASE BeginBackup
    <2>1. PICK kind \in Kinds :
            /\ backup' = [Idle EXCEPT !.at = "copy", !.name = <<kind, now>>]
            /\ shelf' = [shelf EXCEPT ![<<kind, now>>].file = {Unreadable}]
      BY <1>7, Zenon DEF BeginBackup
    <2>2. <<kind, now>> \in Nat \X (0..MaxTime) /\ <<kind, now>> \in Name
      BY <1>1, Assumed DEF Name
    <2>3. backup' \in Copying /\ backup'.name = <<kind, now>>
      BY <2>1, <2>2, Outs, Zenon DEF Copying
    <2>4. {Unreadable} \in SUBSET File
      BY <1>4
    <2>5. shelf' \in [Name -> Directory]
      BY <1>5, <2>1, <2>4
    <2> QED BY <1>1, <1>6, <1>7, <2>2, <2>3, <2>5 DEF BeginBackup, Good
  <1>8. CASE CopyDatabase
    <2>1. Good(backup')
      BY <1>1, <1>8, Zenon DEF CopyDatabase, Copying, Good
    <2>2. {db} \in SUBSET File
      BY <1>1
    <2> QED BY <1>1, <1>5, <1>6, <1>8, <2>1, <2>2 DEF CopyDatabase
  <1>9. CASE Sign
    <2>1. shelf' \in [Name -> Directory]
      BY <1>1, <1>9, Zenon DEF Sign, Directory
    <2>2. due' \subseteq Name
      BY <1>1, <1>9 DEF Sign
    <2> QED BY <1>1, <1>4, <1>6, <1>9, <2>1, <2>2 DEF Sign
  <1>10. CASE BackupFails
    BY <1>1, <1>4, <1>6, <1>10, Assumed DEF BackupFails
  <1>11. CASE Prune
    BY <1>1, <1>4, <1>6, <1>11 DEF Prune, Directory, NoFile
  <1>12. CASE BeginRestore
    <2>1. PICK n \in Name : restore' = [at |-> "quiesce", name |-> n, file |-> NoFile, since |-> now]
      BY <1>12 DEF BeginRestore
    <2>2. restore' \in Copying /\ restore'.at = "quiesce" /\ restore'.name = n
      BY <1>1, <2>1, Assumed DEF Copying, Name, NoFile
    <2> QED BY <1>1, <1>6, <1>12, <2>2 DEF BeginRestore, Good
  <1>13. CASE CopyBack
    <2>1. CASE restore' = Idle /\ db' = db
      BY <1>1, <1>4, <1>6, <1>13, <2>1 DEF CopyBack
    <2>2. CASE /\ shelf[restore.name].file # NoFile
               /\ restore' = [restore EXCEPT !.at = "copy", !.file = shelf[restore.name].file]
               /\ db' = [db EXCEPT !.torn = TRUE]
      <3>1. restore.name \in Name
        BY <1>1, <1>13 DEF CopyBack
      <3>2. shelf[restore.name].file \in SUBSET File
        BY <1>1, <3>1 DEF Directory
      <3>3. restore' \in Copying /\ restore'.name = restore.name
            /\ restore'.file = shelf[restore.name].file
        BY <1>1, <2>2, <3>2, Zenon DEF Copying
      <3> QED BY <1>1, <1>4, <1>6, <1>13, <2>2, <3>1, <3>3 DEF CopyBack, Good
    <2> QED BY <1>13, <2>1, <2>2, Zenon DEF CopyBack
  <1>14. CASE Restored
    <2>1. PICK f \in restore.file : db' \in Reads(f)
      BY <1>14 DEF Restored
    <2>2. f \in File
      BY <1>1 DEF Copying
    <2>3. db' \in File
      BY <1>1, <2>1, <2>2, ReadsTyped
    <2> QED BY <1>1, <1>4, <1>6, <1>14, <2>3 DEF Restored
  <1> QED BY <1>7, <1>8, <1>9, <1>10, <1>11, <1>12, <1>13, <1>14

LEMMA OtherTyped ==
    ASSUME TypeOK, StatementRaises \/ Write \/ Update \/ Stop \/ Crash \/ Tick \/ UNCHANGED vars
    PROVE  TypeOK'
  <1>1. Idle \in Copying /\ Idle.at = "idle"
    BY Outs DEF Idle
  <1>2. \A at \in {"down", "degraded"} : Out(at) \in StartRecord /\ Out(at).at = at
    BY Outs DEF Out
  <1>3. CASE StatementRaises
    BY <1>2, <1>3, Assumed DEF StatementRaises, AfterFailure, TypeOK, StartRecord
  <1>4. CASE Write \/ Update
    <2>1. CASE Write
      BY <2>1, Zenon DEF Write, TypeOK
    <2>2. CASE Update
      BY <2>2, Assumed DEF Update, TypeOK
    <2> QED BY <1>4, <2>1, <2>2
  <1>5. CASE Stop
    BY <1>1, <1>2, <1>5 DEF Stop, TypeOK, StartRecord
  <1>6. CASE Crash
    <2>1. db' \in File
      <3>1. ASSUME NEW f \in restore.file, db' \in Reads(f) PROVE db' \in File
        <4>1. f \in File
          BY Typed DEF Copying
        <4> QED BY <3>1, <4>1, Typed, ReadsTyped
      <3> QED BY <1>6, <3>1, Outs, Typed DEF Crash
    <2> QED BY <1>1, <1>2, <1>6, <2>1, Assumed DEF Crash, TypeOK, StartRecord
  <1>7. CASE Tick
    BY <1>7, Assumed DEF Tick, TypeOK
  <1>8. CASE UNCHANGED vars
    BY <1>8 DEF vars, TypeOK
  <1> QED BY <1>3, <1>4, <1>5, <1>6, <1>7, <1>8

LEMMA StepTyped == TypeOK /\ [Next]_vars => TypeOK'
  BY StartingTyped, CopyingTyped, OtherTyped DEF Next

\* Type correctness, for any migrations, kinds and retention.
THEOREM Types == Spec => []TypeOK
  BY Initially, StepTyped, PTL DEF Spec

------------------------------------------------------------------------------
(* What is recorded is done.                                                *)

\* What a file is said to have done does not depend on whether it can be read.
LEMMA SoundTorn ==
    /\ \A f \in File : Sound(f) => Sound([f EXCEPT !.torn = TRUE])
    /\ Sound(Unreadable)
  <1>1. ASSUME NEW f \in File, Sound(f) PROVE Sound([f EXCEPT !.torn = TRUE])
    <2>1. /\ [f EXCEPT !.torn = TRUE].applied = f.applied
          /\ [f EXCEPT !.torn = TRUE].done = f.done
          /\ [f EXCEPT !.torn = TRUE].blended = f.blended
      BY Zenon DEF File
    <2> QED BY <1>1, <2>1 DEF Sound
  <1>2. Unreadable.applied = {}
    BY DEF Unreadable, NewFile
  <1> QED BY <1>1, <1>2 DEF Sound

\* Two sound files that recorded the same versions make a sound one, page by page.
LEMMA ReadsSound ==
    ASSUME Sound(db), NEW f, Sound(f), NEW h \in Reads(f)
    PROVE  Sound(h)
  <1>1. CASE h = f \/ h = Unreadable
    BY <1>1, SoundTorn
  <1>2. CASE h \in [done : Between(db.done, f.done), applied : {db.applied, f.applied},
                   torn : {FALSE}, blended : {db.blended \/ f.blended \/ db.applied # f.applied}]
    <2>1. /\ h.done \in Between(db.done, f.done) /\ h.applied \in {db.applied, f.applied}
          /\ h.blended = (db.blended \/ f.blended \/ db.applied # f.applied)
      BY <1>2
    <2>2. db.done \cap f.done \subseteq h.done
      BY <2>1 DEF Between
    <2>3. CASE db.blended \/ f.blended \/ db.applied # f.applied
      BY <2>1, <2>3 DEF Sound
    <2>4. CASE ~(db.blended \/ f.blended \/ db.applied # f.applied)
      <3>1. h.applied = db.applied /\ h.applied = f.applied /\ ~db.blended /\ ~f.blended
        BY <2>1, <2>4
      <3>2. \A v \in h.applied : 1..v \subseteq h.applied
        BY <3>1 DEF Sound
      <3>3. \A v \in h.applied : \A i \in DOMAIN Statements[v] : <<v, i>> \in db.done \cap f.done
        BY <3>1 DEF Sound
      <3> QED BY <2>2, <3>2, <3>3 DEF Sound
    <2> QED BY <2>3, <2>4
  <1> QED BY <1>1, <1>2 DEF Reads

LEMMA RecordedInit == Init => Recorded
  <1> SUFFICES ASSUME Init PROVE Recorded
    OBVIOUS
  <1>1. TypeOK
    BY Initially
  <1>2. Sound(NewFile)
    BY DEF Sound, NewFile
  <1>3. restore.file = {} /\ restore.at = "idle" /\ start.at = "down"
    BY DEF Init, Idle, Out, NoFile
  <1>4. SoundFiles
    BY <1>2, <1>3 DEF Init, SoundFiles, NoFile
  <1> QED BY <1>1, <1>3, <1>4 DEF Recorded, Upto, Apart

\* The start works on a file nobody else touches.
LEMMA RecordedStarting == ASSUME Recorded, Starting PROVE Recorded'
  <1>1. TypeOK'
    BY StartingTyped DEF Recorded
  <1>2. /\ start \in StartRecord /\ db \in File /\ release \in Versions
        /\ start.at = "run" => start.version \in Versions
    BY Typed DEF Recorded
  <1>3. UNCHANGED <<restore, shelf>>
    BY DEF Starting, Start, NextVersion, Execute, Record
  <1>4. restore.at = "idle"
    BY DEF Recorded, Apart, Live, Starting, Start, NextVersion, Execute, Record
  <1>5. ASSUME Sound(db'), Upto(start', db')
        PROVE  Recorded'
    BY <1>1, <1>3, <1>4, <1>5 DEF Recorded, SoundFiles, Apart
  <1>6. CASE Start
    <2>1. Upto(start', db') /\ db' = db
      BY <1>6 DEF Start, Upto
    <2> QED BY <1>5, <2>1 DEF Recorded, SoundFiles
  <1>7. CASE NextVersion
    <2>1. db' = db
      BY <1>7 DEF NextVersion
    <2>2. CASE start' = Out("up")
      <3>1. start'.at = "up"
        BY <2>2 DEF Out
      <3> QED BY <1>5, <2>1, <3>1 DEF Recorded, SoundFiles, Upto
    <2>3. ASSUME NEW v \in Pending, \A w \in Pending : v <= w,
                 start' = [start EXCEPT !.at = "run", !.place = 1, !.version = v]
          PROVE  Upto(start', db')
      <3>1. /\ start'.at = "run" /\ start'.place = 1 /\ start'.version = v
            /\ start'.seen = start.seen
        BY <1>2, <2>3, Zenon DEF StartRecord
      <3>2. v \in 1..release /\ v > start.version /\ release \in Nat /\ start.version \in Nat
        BY <1>2, Assumed DEF Pending, StartRecord
      <3>3. start.seen \subseteq db.applied /\ 1..start.version \subseteq db.applied
        BY <1>7 DEF NextVersion, Recorded, Upto
      <3>4. ASSUME NEW u \in 1..(v - 1) PROVE u \in db.applied
        <4>1. CASE u <= start.version
          BY <3>2, <3>3, <4>1
        <4>2. CASE u > start.version
          <5>1. u \notin Pending
            BY <2>3, <3>2
          <5>2. u \in start.seen
            BY <3>2, <4>2, <5>1 DEF Pending
          <5> QED BY <3>3, <5>2
        <4> QED BY <3>2, <4>1, <4>2
      <3> QED BY <2>1, <3>1, <3>2, <3>3, <3>4 DEF Upto
    <2> QED BY <1>5, <1>7, <2>1, <2>2, <2>3 DEF NextVersion, Recorded, SoundFiles
  <1>8. CASE Execute
    <2>1. start.version \in Versions /\ start.place \in Nat /\ start.at = "run"
      BY <1>2, <1>8 DEF Execute, StartRecord
    <2>2. CASE Degrades
      <3>1. start'.at = "degraded" /\ db' = db
        BY <2>2 DEF Degrades, Out
      <3> QED BY <1>5, <3>1 DEF Recorded, SoundFiles, Upto
    <2>3. CASE /\ db' = [db EXCEPT !.done = @ \cup {<<start.version, start.place>>}]
               /\ start' = [start EXCEPT !.place = @ + 1]
      <3>1. /\ db'.applied = db.applied /\ db'.blended = db.blended
            /\ db'.done = db.done \cup {<<start.version, start.place>>}
            /\ start'.at = start.at /\ start'.version = start.version
            /\ start'.place = start.place + 1 /\ start'.seen = start.seen
        BY <1>2, <2>3, Zenon DEF File, StartRecord
      <3>2. Sound(db')
        BY <3>1 DEF Recorded, SoundFiles, Sound
      <3>3. \A i \in 1..start.place : <<start.version, i>> \in db'.done
        BY <2>1, <3>1 DEF Recorded, Upto
      <3>4. Upto(start', db')
        BY <2>1, <3>1, <3>3 DEF Recorded, Upto
      <3> QED BY <1>5, <3>2, <3>4
    <2> QED BY <1>8, <2>2, <2>3 DEF Execute
  <1>9. CASE Record
    <2>1. start.version \in Versions /\ start.place \in Nat /\ start.at = "run"
          /\ start.place > Len(Statements[start.version])
      BY <1>2, <1>9 DEF Record, StartRecord
    <2>2. /\ db'.applied = db.applied \cup {start.version} /\ db'.done = db.done
          /\ db'.blended = db.blended
          /\ start'.at = "next" /\ start'.version = start.version /\ start'.seen = start.seen
      BY <1>2, <1>9, Zenon DEF Record, File, StartRecord
    <2>3. start.version \in Nat \ {0}
      BY <2>1, Assumed
    <2>4. 1..start.version \subseteq db'.applied
      BY <2>1, <2>2, <2>3 DEF Recorded, Upto
    <2>5. \A i \in DOMAIN Statements[start.version] : <<start.version, i>> \in db'.done
      BY <2>1, <2>2, Assumed DEF Recorded, Upto
    <2>6. Sound(db')
      BY <2>2, <2>4, <2>5 DEF Recorded, SoundFiles, Sound
    <2>7. Upto(start', db')
      BY <2>1, <2>2, <2>4 DEF Recorded, Upto
    <2> QED BY <1>5, <2>6, <2>7
  <1> QED BY <1>6, <1>7, <1>8, <1>9 DEF Starting

\* Backups and restores carry files about.
LEMMA RecordedCopying ==
    ASSUME Recorded,
           \/ BeginBackup \/ CopyDatabase \/ Sign \/ BackupFails \/ Prune
           \/ BeginRestore \/ CopyBack \/ Restored
    PROVE  Recorded'
  <1>1. TypeOK'
    BY CopyingTyped DEF Recorded
  <1>2. /\ db \in File /\ shelf \in [Name -> Directory] /\ restore \in Copying
        /\ restore.at # "idle" => restore.name \in Name
        /\ restore.at = "copy" => restore.file # NoFile
    BY Typed DEF Recorded
  <1>3. /\ Sound(db)
        /\ \A f \in restore.file : Sound(f)
        /\ \A n \in Name : \A f \in shelf[n].file \cup shelf[n].manifest : Sound(f)
    BY DEF Recorded, SoundFiles
  <1>4. start' = start
    BY DEF BeginBackup, CopyDatabase, Sign, BackupFails, Prune, BeginRestore, CopyBack, Restored
  <1>5. Sound([db EXCEPT !.torn = TRUE]) /\ Sound(Unreadable)
    BY <1>2, <1>3, SoundTorn
  <1>6. ASSUME NEW name, NEW F, \A f \in F : Sound(f), NEW n \in Name,
               shelf' = [shelf EXCEPT ![name].file = F]
        PROVE  \A f \in shelf'[n].file \cup shelf'[n].manifest : Sound(f)
    <2>1. shelf'[n].file \in {shelf[n].file, F} /\ shelf'[n].manifest = shelf[n].manifest
      BY <1>2, <1>6, Zenon DEF Directory
    <2> QED BY <1>3, <1>6, <2>1
  <1>7. CASE BeginBackup
    <2>1. UNCHANGED <<db, restore>>
      BY <1>7 DEF BeginBackup
    <2>2. PICK kind : shelf' = [shelf EXCEPT ![<<kind, now>>].file = {Unreadable}]
      BY <1>7 DEF BeginBackup
    <2>3. \A n \in Name : \A f \in shelf'[n].file \cup shelf'[n].manifest : Sound(f)
      BY <1>5, <1>6, <2>2
    <2> QED BY <1>1, <1>4, <2>1, <2>3 DEF Recorded, SoundFiles, Apart, Live
  <1>8. CASE CopyDatabase
    <2>1. UNCHANGED <<db, restore>>
      BY <1>8 DEF CopyDatabase
    <2>2. shelf' = [shelf EXCEPT ![backup.name].file = {db}]
      BY <1>8 DEF CopyDatabase
    <2>3. \A n \in Name : \A f \in shelf'[n].file \cup shelf'[n].manifest : Sound(f)
      BY <1>3, <1>6, <2>2
    <2> QED BY <1>1, <1>4, <2>1, <2>3 DEF Recorded, SoundFiles, Apart, Live
  <1>9. CASE Sign
    <2>1. UNCHANGED <<db, restore>>
      BY <1>9 DEF Sign
    <2>2. \A n \in Name : shelf'[n].manifest \in {shelf[n].manifest, shelf[n].file}
                          /\ shelf'[n].file = shelf[n].file
      BY <1>2, <1>9, Zenon DEF Sign, Directory
    <2>3. \A n \in Name : \A f \in shelf'[n].file \cup shelf'[n].manifest : Sound(f)
      BY <1>3, <2>2
    <2> QED BY <1>1, <1>4, <2>1, <2>3 DEF Recorded, SoundFiles, Apart, Live
  <1>10. CASE BackupFails
    BY <1>1, <1>10 DEF BackupFails, Recorded, SoundFiles, Apart, Live
  <1>11. CASE Prune
    <2>1. UNCHANGED <<db, restore>>
      BY <1>11 DEF Prune
    <2>2. \A n \in Name : shelf'[n] \in {shelf[n], [file |-> NoFile, manifest |-> NoFile]}
      BY <1>11 DEF Prune
    <2>3. \A n \in Name : \A f \in shelf'[n].file \cup shelf'[n].manifest : Sound(f)
      BY <1>3, <2>2 DEF NoFile
    <2> QED BY <1>1, <1>4, <2>1, <2>3 DEF Recorded, SoundFiles, Apart, Live
  <1>12. CASE BeginRestore
    <2>1. UNCHANGED <<db, shelf>> /\ Live
      BY <1>12 DEF BeginRestore
    <2>2. restore'.file = {}
      BY <1>12 DEF BeginRestore, NoFile
    <2> QED BY <1>1, <1>3, <1>4, <2>1, <2>2 DEF Recorded, SoundFiles, Apart, Live
  <1>13. CASE CopyBack
    <2>1. Live /\ start.at \notin {"next", "run"} /\ shelf' = shelf
      BY <1>13 DEF CopyBack, Recorded, Apart, Live
    <2>2. ASSUME Sound(db'), \A f \in restore'.file : Sound(f)
          PROVE  Recorded'
      BY <1>1, <1>3, <1>4, <2>1, <2>2 DEF Recorded, SoundFiles, Apart, Live, Upto
    <2>3. CASE restore' = Idle /\ db' = db
      <3>1. restore'.file = {}
        BY <2>3 DEF Idle, NoFile
      <3> QED BY <1>3, <2>2, <2>3, <3>1
    <2>4. CASE /\ restore' = [restore EXCEPT !.at = "copy", !.file = shelf[restore.name].file]
               /\ db' = [db EXCEPT !.torn = TRUE]
      <3>1. restore.name \in Name
        BY <1>2, <1>13 DEF CopyBack
      <3>2. restore'.file = shelf[restore.name].file
        BY <1>2, <2>4, Zenon DEF Copying
      <3> QED BY <1>3, <1>5, <2>2, <2>4, <3>1, <3>2
    <2> QED BY <1>13, <2>3, <2>4, Zenon DEF CopyBack
  <1>14. CASE Restored
    <2>1. Live /\ start.at \notin {"next", "run"} /\ shelf' = shelf
      BY <1>14 DEF Restored, Recorded, Apart, Live
    <2>2. PICK f \in restore.file : db' \in Reads(f)
      BY <1>14 DEF Restored
    <2>3. Sound(db')
      BY <1>3, <2>2, ReadsSound
    <2>4. restore'.file = {} /\ restore'.at = "idle"
      BY <1>14 DEF Restored, Idle, NoFile
    <2> QED BY <1>1, <1>3, <1>4, <2>1, <2>3, <2>4 DEF Recorded, SoundFiles, Apart, Upto
  <1> QED BY <1>7, <1>8, <1>9, <1>10, <1>11, <1>12, <1>13, <1>14

LEMMA RecordedOther ==
    ASSUME Recorded, StatementRaises \/ Write \/ Update \/ Stop \/ Crash \/ Tick \/ UNCHANGED vars
    PROVE  Recorded'
  <1>1. TypeOK'
    BY OtherTyped DEF Recorded
  <1>2. CASE StatementRaises
    BY <1>1, <1>2 DEF StatementRaises, AfterFailure, Out, Recorded, SoundFiles, Upto, Apart, Live
  <1>3. CASE Stop \/ Crash
    <2>1. start'.at = "down" /\ restore'.file = {} /\ restore'.at = "idle" /\ shelf' = shelf
      BY <1>3 DEF Stop, Crash, Out, Idle, NoFile
    <2>2. Sound(db')
      <3>1. Sound(db) /\ Sound(Unreadable) /\ \A f \in restore.file : Sound(f)
        BY SoundTorn DEF Recorded, SoundFiles
      <3>2. \A f \in restore.file : db' \in Reads(f) => Sound(db')
        BY <3>1, ReadsSound
      <3> QED BY <1>3, <3>1, <3>2 DEF Stop, Crash
    <2> QED BY <1>1, <2>1, <2>2 DEF Recorded, SoundFiles, Upto, Apart
  <1>4. CASE Write \/ Update \/ Tick \/ UNCHANGED vars
    BY <1>1, <1>4 DEF Write, Update, Tick, vars, Recorded, SoundFiles, Apart, Live
  <1> QED BY <1>2, <1>3, <1>4

\* What schema_migrations says is true of the live database and of every backup, for any
\* migrations and any number of crashes and restores: a version that is recorded has all its
\* statements in it and all versions before it recorded, but for blends of files that had
\* recorded different versions (apply_pending, restore).
THEOREM RecordedHolds == Spec => []RecordedIsDone
  <1>1. Recorded /\ [Next]_vars => Recorded'
    BY RecordedStarting, RecordedCopying, RecordedOther DEF Next
  <1>2. Recorded => RecordedIsDone
    BY DEF Recorded, SoundFiles, RecordedIsDone, ValidNames
  <1> QED BY <1>1, <1>2, RecordedInit, PTL DEF Spec
------------------------------------------------------------------------------
(* What is restored was signed.                                             *)

LEMMA AcceptedInit == Init => Accepted
  <1> SUFFICES ASSUME Init PROVE Accepted
    OBVIOUS
  <1>1. TypeOK
    BY Initially
  <1>2. restore.at = "idle" /\ backup.at = "idle"
    BY DEF Init, Idle
  <1>3. Dated
    BY <1>2 DEF Init, Dated
  <1> QED BY <1>1, <1>2, <1>3 DEF Accepted, Making, Waiting, Writing

LEMMA AcceptedOther ==
    ASSUME Accepted,
           Starting \/ StatementRaises \/ Write \/ Update \/ Stop \/ Crash \/ Tick \/ UNCHANGED vars
    PROVE  Accepted'
  <1>1. TypeOK'
    BY StartingTyped, OtherTyped DEF Accepted
  <1>2. CASE Starting \/ StatementRaises \/ Write \/ Update \/ UNCHANGED vars
    <2>1. UNCHANGED <<now, backup, restore, shelf>>
      BY <1>2 DEF Starting, Start, NextVersion, Execute, Record, StatementRaises, Write, Update, vars
    <2> QED BY <1>1, <2>1 DEF Accepted, Dated, Making, Waiting, Writing
  <1>3. CASE Stop \/ Crash
    <2>1. restore'.at = "idle" /\ backup'.at = "idle" /\ UNCHANGED <<now, shelf>>
      BY <1>3 DEF Stop, Busy, Crash, Idle
    <2> QED BY <1>1, <2>1 DEF Accepted, Dated, Making, Waiting, Writing
  <1>4. CASE Tick
    <2>1. UNCHANGED <<backup, restore, shelf>> /\ now' = now + 1
      BY <1>4 DEF Tick
    <2>2. now \in Nat /\ restore.since \in Nat /\ backup.name[2] \in Nat
      BY Typed, Assumed DEF Accepted, Copying
    <2>3. Dated'
      <3>1. \A n \in Name : n[2] \in Nat
        BY Assumed DEF Name
      <3> QED BY <2>1, <2>2, <3>1 DEF Accepted, Dated
    <2> QED BY <1>1, <2>1, <2>2, <2>3 DEF Accepted, Making, Waiting, Writing
  <1> QED BY <1>2, <1>3, <1>4

LEMMA AcceptedBackup ==
    ASSUME Accepted, BeginBackup \/ CopyDatabase \/ Sign \/ BackupFails \/ Prune
    PROVE  Accepted'
  <1>1. TypeOK'
    BY CopyingTyped DEF Accepted
  <1>2. /\ now \in Nat /\ db \in File /\ shelf \in [Name -> Directory]
        /\ backup \in Copying /\ restore \in Copying
        /\ backup.at # "idle" => backup.name \in Name
        /\ restore.at # "idle" => restore.name \in Name
        /\ restore.since \in Nat
        /\ \A n \in Name : n[2] \in Nat
    BY Typed, Assumed DEF Accepted, Copying, Name
  <1>3. UNCHANGED <<now, restore>>
    BY DEF BeginBackup, CopyDatabase, Sign, BackupFails, Prune
  <1>4. ASSUME NEW name \in Name, name[2] <= now,
               NEW F, shelf' = [shelf EXCEPT ![name].file = F]
        PROVE  /\ \A n \in Name : shelf'[n].file # NoFile => n[2] <= now'
               /\ \A n \in Name : n # name => shelf'[n] = shelf[n]
    <2>1. \A n \in Name : n # name => shelf'[n] = shelf[n]
      BY <1>2, <1>4, Zenon
    <2> QED BY <1>3, <1>4, <2>1 DEF Accepted, Dated
  <1>5. CASE BeginBackup
    <2>1. PICK kind \in Kinds :
            /\ backup' = [Idle EXCEPT !.at = "copy", !.name = <<kind, now>>]
            /\ shelf' = [shelf EXCEPT ![<<kind, now>>].file = {Unreadable}]
      BY <1>5, Zenon DEF BeginBackup
    <2> DEFINE name == <<kind, now>>
    <2>2. name \in Name /\ name[2] = now
      BY Typed DEF Accepted, Name
    <2> HIDE DEF name
    <2>3. shelf' = [shelf EXCEPT ![name].file = {Unreadable}] /\ name[2] <= now
      BY <1>2, <2>1, <2>2 DEF name
    <2>4. /\ \A n \in Name : shelf'[n].file # NoFile => n[2] <= now'
          /\ \A n \in Name : n # name => shelf'[n] = shelf[n]
      BY <1>4, <2>2, <2>3
    <2>5. backup'.name = name
      BY <2>1 DEF Idle, name
    <2>6. Dated' /\ \A n \in Name : n # name => shelf'[n] = shelf[n]
      BY <1>2, <1>3, <2>2, <2>5, <2>4 DEF Dated
    <2>7. restore.at # "copy"
      BY <1>5 DEF BeginBackup, Busy
    <2>8. restore.name = name => restore.at = "idle" \/ restore.since = restore.name[2]
      BY <1>2, <2>2 DEF Accepted, Waiting
    <2>9. Making'
      BY <1>2, <1>3, <2>2, <2>5 DEF Accepted, Making, Waiting
    <2>10. Waiting'
      BY <1>2, <1>3, <2>6, <2>8 DEF Accepted, Waiting
    <2> QED BY <1>1, <1>3, <2>6, <2>7, <2>9, <2>10 DEF Accepted, Writing
  <1>6. CASE CopyDatabase \/ Sign
    <2>1. backup.at \in {"copy", "sign"} /\ backup.name \in Name
      BY <1>2, <1>6 DEF CopyDatabase, Sign
    <2>2. backup'.name = backup.name \/ backup'.at = "idle"
      <3>1. CopyDatabase => backup'.name = backup.name
        BY <1>2, Zenon DEF CopyDatabase, Copying
      <3> QED BY <1>6, <3>1 DEF Sign, Idle
    <2>3. restore.at # "copy"
      BY <2>1 DEF Accepted, Writing
    <2>4. \A n \in Name : n # backup.name => shelf'[n] = shelf[n]
      BY <1>2, <1>6, Zenon DEF CopyDatabase, Sign
    <2>5. restore.name = backup.name => restore.at # "quiesce" \/ restore.since = restore.name[2]
      BY <1>2, <2>1 DEF Accepted, Making, Waiting
    <2>6. Making'
      BY <1>3, <2>1, <2>2 DEF Accepted, Making
    <2>7. Waiting'
      BY <1>2, <1>3, <2>4, <2>5 DEF Accepted, Waiting
    <2>8. \A n \in Name : shelf'[n].file # NoFile => n[2] <= now'
      <3>1. backup.name[2] <= now
        BY <2>1 DEF Accepted, Dated
      <3>2. CASE CopyDatabase
        BY <1>4, <2>1, <3>1, <3>2 DEF CopyDatabase
      <3>3. CASE Sign
        <4>1. \A n \in Name : shelf'[n].file = shelf[n].file
          BY <1>2, <3>3, Zenon DEF Sign, Directory
        <4> QED BY <1>3, <4>1 DEF Accepted, Dated
      <3> QED BY <1>6, <3>2, <3>3
    <2>9. Dated'
      BY <1>3, <2>1, <2>2, <2>8 DEF Accepted, Dated
    <2> QED BY <1>1, <1>3, <2>3, <2>6, <2>7, <2>9 DEF Accepted, Writing
  <1>7. CASE BackupFails
    BY <1>1, <1>3, <1>7 DEF BackupFails, Idle, Accepted, Dated, Making, Waiting, Writing
  <1>8. CASE Prune
    <2>1. restore.at # "copy" /\ backup'.at = "idle"
      BY <1>8 DEF Prune, Busy
    <2>2. \A n \in Name : shelf'[n] = shelf[n] \/ shelf'[n].file = NoFile
      BY <1>8 DEF Prune
    <2>3. Dated'
      BY <1>3, <2>1, <2>2 DEF Accepted, Dated
    <2>4. Waiting'
      BY <1>2, <1>3, <2>2 DEF Accepted, Waiting
    <2> QED BY <1>1, <1>3, <2>1, <2>3, <2>4 DEF Accepted, Making, Writing
  <1> QED BY <1>5, <1>6, <1>7, <1>8

LEMMA AcceptedRestore == ASSUME Accepted, BeginRestore \/ CopyBack \/ Restored PROVE Accepted'
  <1>1. TypeOK'
    BY CopyingTyped DEF Accepted
  <1>2. /\ now \in Nat /\ restore \in Copying
        /\ restore.at # "idle" => restore.name \in Name
    BY Typed, Assumed DEF Accepted
  <1>3. UNCHANGED <<now, backup, shelf>> /\ Dated'
    BY DEF BeginRestore, CopyBack, Restored, Accepted, Dated
  <1>4. ASSUME restore' = Idle PROVE Accepted'
    BY <1>1, <1>3, <1>4 DEF Idle, Accepted, Making, Waiting, Writing
  <1>5. CASE BeginRestore
    <2>1. PICK n \in Name :
            /\ Accepts(n)
            /\ restore' = [at |-> "quiesce", name |-> n, file |-> NoFile, since |-> now]
      BY <1>5 DEF BeginRestore
    <2>2. shelf[n].file = shelf[n].manifest /\ shelf[n].file # NoFile /\ n[2] <= now
      BY <2>1 DEF Accepts, Valid, Accepted, Dated
    <2>3. backup.at \notin {"copy", "sign"}
      BY <1>5 DEF BeginRestore, Busy
    <2>4. /\ restore'.at = "quiesce" /\ restore'.name = n /\ restore'.since = now
      BY <2>1
    <2>5. Waiting'
      <3>1. restore'.name[2] <= restore'.since
        BY <2>2, <2>4
      <3>2. restore'.since <= now'
        BY <1>2, <1>3, <2>4
      <3>3. shelf'[restore'.name].file = shelf'[restore'.name].manifest
        BY <1>3, <2>2, <2>4
      <3> QED BY <2>4, <3>1, <3>2, <3>3 DEF Waiting
    <2> QED BY <1>1, <1>3, <2>3, <2>4, <2>5 DEF Accepted, Making, Writing
  <1>6. CASE CopyBack
    <2> DEFINE F == shelf[restore.name].file
    <2>1. CASE /\ shelf[restore.name].file # NoFile
               /\ ~ \E f \in shelf[restore.name].file : f.torn
               /\ restore' = [restore EXCEPT !.at = "copy", !.file = shelf[restore.name].file]
      <3>1. /\ restore'.at = "copy" /\ restore'.name = restore.name
            /\ restore'.since = restore.since /\ restore'.file = shelf[restore.name].file
        <4>1. restore' = [restore EXCEPT !.at = "copy", !.file = F]
          BY <2>1
        <4> HIDE DEF F
        <4>2. /\ restore'.at = "copy" /\ restore'.name = restore.name
              /\ restore'.since = restore.since /\ restore'.file = F
          BY <1>2, <4>1 DEF Copying
        <4> QED BY <4>2 DEF F
      <3>2. backup.at \notin {"copy", "sign"} /\ restore.at = "quiesce"
        BY <1>6 DEF CopyBack, Busy
      <3>3. Writing'
        BY <1>3, <2>1, <3>1, <3>2 DEF Accepted, Waiting, Writing
      <3>4. Waiting'
        BY <1>3, <3>1, <3>2 DEF Accepted, Waiting
      <3> QED BY <1>1, <1>3, <3>1, <3>3, <3>4 DEF Accepted, Making
    <2> QED BY <1>4, <1>6, <2>1, Zenon DEF CopyBack
  <1>7. CASE Restored
    BY <1>4, <1>7 DEF Restored
  <1> QED BY <1>5, <1>6, <1>7

\* For any retention and any kinds of backup, a restore that has begun to copy has a whole
\* file that is what its backup's manifest says, however backups were made again, broke off
\* or were pruned since it was accepted; but for one accepted in the second of its name
\* (validate, restore, create).
THEOREM RestoredHolds == Spec => []RestoresSigned
  <1>1. Accepted /\ [Next]_vars => Accepted'
    BY AcceptedOther, AcceptedBackup, AcceptedRestore DEF Next
  <1>2. Accepted => RestoresSigned
    BY DEF Accepted, Writing, RestoresSigned
  <1> QED BY <1>1, <1>2, AcceptedInit, PTL DEF Spec

------------------------------------------------------------------------------
(* What retention leaves.                                                   *)

Less == {p \in Nat \X Nat : p[1] < p[2]}

LEMMA Least == ASSUME NEW T \in SUBSET Nat, T # {} PROVE \E x \in T : \A y \in T : ~(y < x)
  <1>1. IsWellFoundedOn(Less, Nat)
    BY NatLessThanWellFounded DEF OpToRel, Less
  <1>2. PICK x \in T : \A y \in T : ~(<<y, x>> \in Less)
    BY <1>1, WFMin
  <1>3. \A m, n \in Nat : m < n => <<m, n>> \in Less
    BY DEF Less
  <1> QED BY <1>2, <1>3

\* Of the good backups of a kind that are not older than n, one is the newest.
LEMMA NewestGood ==
    ASSUME NEW n \in ValidNames
    PROVE  \E m \in ValidNames :
              /\ m[1] = n[1] /\ m[2] >= n[2]
              /\ \A k \in ValidNames : k[1] = n[1] => ~(k[2] > m[2])
  <1>1. \A m \in ValidNames : m[1] \in Nat /\ m[2] \in 0..MaxTime
    <2>1. \A m \in Kinds \X (0..MaxTime) : m[1] \in Kinds /\ m[2] \in 0..MaxTime
      OBVIOUS
    <2> QED BY <2>1, Assumed DEF ValidNames, Name
  <1> DEFINE M == {m \in ValidNames : m[1] = n[1] /\ m[2] >= n[2]}
             T == {MaxTime - m[2] : m \in M}
  <1>2. n \in M
    BY <1>1
  <1>3. T \in SUBSET Nat /\ T # {}
    BY <1>1, <1>2, Assumed
  <1>4. PICK x \in T : \A y \in T : ~(y < x)
    BY <1>3, Least
  <1>5. PICK m \in M : x = MaxTime - m[2]
    OBVIOUS
  <1>6. ASSUME NEW k \in ValidNames, k[1] = n[1], k[2] > m[2] PROVE FALSE
    <2>1. m \in ValidNames /\ m[2] >= n[2] /\ k[2] >= n[2]
      BY <1>1, <1>6
    <2>2. MaxTime - k[2] \in T
      BY <1>6, <2>1
    <2>3. MaxTime - k[2] < MaxTime - m[2]
      BY <1>1, <1>6, <2>1, Assumed
    <2> QED BY <1>4, <1>5, <2>2, <2>3
  <1> QED BY <1>6

\* What retention takes away of a kind, it takes away behind the newest, or behind as many
\* as it keeps that the property counts.
LEMMA PruneStays == ASSUME TypeOK, IsFiniteSet(Signed), Prune PROVE GoodStay
  <1>1. shelf' = [n \in Name |-> IF n \in Stale THEN [file |-> NoFile, manifest |-> NoFile] ELSE shelf[n]]
    BY DEF Prune
  <1>2. ValidNames' = ValidNames \ Stale
    BY <1>1 DEF ValidNames, Valid
  <1> SUFFICES ASSUME NEW n \in ValidNames, n \in Stale
               PROVE  \/ \E k \in ValidNames \ Stale : k[1] = n[1] /\ k[2] > n[2]
                      \/ Cardinality({k \in Signed : k \notin ValidNames \/ k[1] > n[1]}) >= Retention
    BY <1>2 DEF GoodStay
  <1>3. \A k \in Name : k[1] \in Nat /\ k[2] \in Nat /\ k = <<k[1], k[2]>>
    <2>1. \A k \in Kinds \X (0..MaxTime) : k[1] \in Kinds /\ k[2] \in 0..MaxTime /\ k = <<k[1], k[2]>>
      OBVIOUS
    <2>2. Kinds \subseteq Nat /\ 0..MaxTime \subseteq Nat
      BY Assumed
    <2> QED BY <2>1, <2>2 DEF Name
  <1>4. PICK m \in ValidNames : /\ m[1] = n[1] /\ m[2] >= n[2]
                               /\ \A k \in ValidNames : k[1] = n[1] => ~(k[2] > m[2])
    BY NewestGood
  <1>5. m \in Name /\ n \in Name
    BY DEF ValidNames
  <1>6. CASE m \notin Stale
    <2>1. m[2] > n[2]
      BY <1>3, <1>4, <1>5, <1>6
    <2> QED BY <1>4, <1>6, <2>1
  <1>7. CASE m \in Stale
    <2> DEFINE R == {k \in Signed : k \notin ValidNames \/ k[1] > n[1]}
    <2>1. Before(m, Signed) \subseteq R
      BY <1>4 DEF Before
    <2>2. IsFiniteSet(R)
      BY FS_Subset
    <2> PICK B : B = Before(m, Signed)
      OBVIOUS
    <2>3. IsFiniteSet(B) /\ B \in SUBSET R /\ Cardinality(B) >= Retention
      BY <1>7, <2>1, <2>2, FS_Subset DEF Stale
    <2>4. Cardinality(B) <= Cardinality(R) /\ Cardinality(B) \in Nat /\ Cardinality(R) \in Nat
      BY <2>2, <2>3, FS_Subset, FS_CardinalityType
    <2> QED BY <2>3, <2>4, Assumed
  <1> QED BY <1>6, <1>7

\* A directory that a step does not touch stays what it was.
LEMMA OneWritten ==
    ASSUME NEW name \in Name, NEW d, shelf' = [shelf EXCEPT ![name] = d], shelf \in [Name -> Directory]
    PROVE  /\ shelf'[name] = d
           /\ \A n \in Name : n # name => shelf'[n] = shelf[n]
           /\ ValidNames \ ValidNames' \subseteq {name}
           /\ Signed' \subseteq Signed \cup {name}
  <1>1. shelf'[name] = d /\ \A n \in Name : n # name => shelf'[n] = shelf[n]
    OBVIOUS
  <1> QED BY <1>1 DEF ValidNames, Valid, Signed

LEMMA GrownFinite == ASSUME NEW S, NEW x, NEW T, IsFiniteSet(S), T \subseteq S \cup {x} PROVE IsFiniteSet(T)
  <1>1. IsFiniteSet(S \cup {x})
    BY FS_AddElement
  <1> QED BY <1>1, FS_Subset

LEMMA MadeStep == ASSUME Made, [Next]_vars PROVE Made' /\ (GoodStay \/ UNCHANGED vars)
  <1>1. TypeOK /\ TypeOK' /\ IsFiniteSet(Signed)
    BY StepTyped DEF Made
  <1>2. /\ now \in 0..MaxTime /\ db \in File /\ shelf \in [Name -> Directory] /\ backup \in Copying
        /\ backup.at # "idle" => backup.name \in Name
    BY <1>1, Typed
  <1>3. ASSUME UNCHANGED shelf, backup'.at = "copy" => backup' = backup PROVE Made' /\ GoodStay
    <2>1. ValidNames' = ValidNames /\ Signed' = Signed
      BY <1>3 DEF ValidNames, Valid, Signed
    <2> QED BY <1>1, <1>3, <2>1 DEF Made, GoodStay
  <1>4. CASE BeginBackup
    <2>1. PICK kind \in Kinds : /\ backup' = [Idle EXCEPT !.at = "copy", !.name = <<kind, now>>]
                                /\ shelf' = [shelf EXCEPT ![<<kind, now>>].file = {Unreadable}]
      BY <1>4 DEF BeginBackup
    <2> PICK name : name = <<kind, now>>
      OBVIOUS
    <2> PICK F : F = {Unreadable}
      OBVIOUS
    <2>2. name \in Name /\ backup'.at = "copy" /\ backup'.name = name
      BY <1>2, <2>1 DEF Name, Idle
    <2>3. \E f \in F : f.torn
      BY DEF Unreadable, NewFile
    <2>4. shelf' = [shelf EXCEPT ![name] = [shelf[name] EXCEPT !.file = F]]
      BY <1>2, <2>1
    <2>5. shelf'[name].file = F
      BY <1>2, <2>2, <2>4 DEF Directory
    <2>6. ValidNames \ ValidNames' \subseteq {name} /\ Signed' \subseteq Signed \cup {name}
      BY <1>2, <2>2, <2>4, OneWritten
    <2>7. IsFiniteSet(Signed')
      BY <1>1, <2>6, GrownFinite
    <2>8. GoodStay
      BY <2>2, <2>6 DEF GoodStay
    <2> QED BY <1>1, <2>2, <2>3, <2>5, <2>7, <2>8 DEF Made
  <1>5. CASE CopyDatabase
    <2> PICK name : name = backup.name
      OBVIOUS
    <2>1. name \in Name /\ backup'.at = "sign" /\ shelf' = [shelf EXCEPT ![name].file = {db}]
      BY <1>2, <1>5 DEF CopyDatabase, Copying
    <2>2. shelf' = [shelf EXCEPT ![name] = [shelf[name] EXCEPT !.file = {db}]]
      BY <1>2, <2>1
    <2>3. ValidNames \ ValidNames' \subseteq {name} /\ Signed' \subseteq Signed \cup {name}
      BY <1>2, <2>1, <2>2, OneWritten
    <2>4. IsFiniteSet(Signed')
      BY <1>1, <2>3, GrownFinite
    <2>5. name \notin ValidNames
      BY <1>5 DEF CopyDatabase, Made, ValidNames, Valid
    <2>6. GoodStay
      BY <2>3, <2>5 DEF GoodStay
    <2> QED BY <1>1, <2>1, <2>4, <2>6 DEF Made
  <1>6. CASE Sign
    <2> PICK name : name = backup.name
      OBVIOUS
    <2>1. name \in Name /\ backup'.at = "idle" /\ shelf' = [shelf EXCEPT ![name].manifest = shelf[name].file]
      BY <1>2, <1>6 DEF Sign, Idle
    <2>2. shelf' = [shelf EXCEPT ![name] = [shelf[name] EXCEPT !.manifest = shelf[name].file]]
      BY <1>2, <2>1
    <2>3. /\ ValidNames \ ValidNames' \subseteq {name} /\ Signed' \subseteq Signed \cup {name}
          /\ shelf'[name] = [shelf[name] EXCEPT !.manifest = shelf[name].file]
      BY <1>2, <2>1, <2>2, OneWritten
    <2>4. IsFiniteSet(Signed')
      BY <1>1, <2>3, GrownFinite
    <2>5. name \in ValidNames => name \in ValidNames'
      <3>1. shelf'[name].file = shelf[name].file /\ shelf'[name].manifest = shelf[name].file
        BY <1>2, <2>1, <2>3 DEF Directory
      <3> QED BY <2>1, <3>1 DEF ValidNames, Valid
    <2>6. GoodStay
      BY <2>3, <2>5 DEF GoodStay
    <2> QED BY <1>1, <2>1, <2>4, <2>6 DEF Made
  <1>7. CASE Prune
    <2>1. GoodStay /\ backup'.at = "idle"
      BY <1>1, <1>7, PruneStays DEF Prune, Busy
    <2>2. Signed' \subseteq Signed
      BY <1>7 DEF Prune, Signed
    <2>3. IsFiniteSet(Signed')
      BY <1>1, <2>2, FS_Subset
    <2> QED BY <1>1, <2>1, <2>3 DEF Made
  <1>8. CASE Starting \/ StatementRaises \/ Write \/ Update \/ BeginRestore \/ CopyBack \/ Restored \/ Tick
    <2>1. UNCHANGED <<shelf, backup>>
      BY <1>8 DEF Starting, Start, NextVersion, Execute, Record, StatementRaises, Write, Update,
                  BeginRestore, CopyBack, Restored, Tick
    <2> QED BY <1>3, <2>1
  <1>9. CASE BackupFails \/ Stop \/ Crash
    <2>1. UNCHANGED shelf /\ (backup' = Idle \/ backup' = backup)
      BY <1>9 DEF BackupFails, Stop, Crash
    <2> QED BY <1>3, <2>1 DEF Idle
  <1>10. CASE UNCHANGED vars
    BY <1>3, <1>10 DEF vars
  <1> QED BY <1>4, <1>5, <1>6, <1>7, <1>8, <1>9, <1>10 DEF Next

\* For any retention and any kinds of backup, of each kind the newest backup that can be
\* restored stays; but for one made again in its own second, and where directories that cannot
\* be restored or whose kind sorts before are as many as the retention (_apply_retention,
\* create).
THEOREM NewestGoodHolds == Spec => NewestGoodStays
  <1>1. Init => Made
    <2> SUFFICES ASSUME Init PROVE Made
      OBVIOUS
    <2>1. backup.at = "idle" /\ Signed = {}
      BY DEF Init, Idle, Signed
    <2> QED BY <2>1, Initially, FS_EmptySet DEF Made
  <1>2. Made /\ [Next]_vars => Made' /\ [GoodStay]_vars
    BY MadeStep
  <1> QED BY <1>1, <1>2, PTL DEF Spec, NewestGoodStays
==============================================================================
