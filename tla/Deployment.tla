----------------------------- MODULE Deployment -----------------------------
(***************************************************************************)
(* The database file in the operator's hands: the start of the service     *)
(* with its migrations, doctor, backup, restore, upgrade and rollback.     *)
(*                                                                         *)
(* One service at a time writes the database, as docs/architecture.md      *)
(* demands; doctor and backup are processes of their own beside it.  Every *)
(* binary runs this code, so it ships the migration that creates the       *)
(* checksum table; a database may come from a release before it.           *)
(* SQLite's transactions and the file system are modelled by their         *)
(* guarantees: a transaction that is not committed leaves nothing behind,  *)
(* VACUUM INTO copies the committed database and refuses an existing file, *)
(* and link fails if its target exists.                                    *)
(***************************************************************************)
EXTENDS Integers, Sequences, FiniteSets

CONSTANTS
  Binaries,         \* builds of the bot
  Latest,           \* per binary, the last migration it ships
  Edited,           \* per binary, migrations whose SQL is not the original
  ChecksumVersion,  \* creates schema_migration_checksums, 3 in the code
  Slots,            \* bound: backup commands that run side by side
  MaxFiles,         \* bound: snapshots begun
  MaxOps,           \* bound: the operator's stops, installations and restores
  MaxFaults         \* bound: failing statements, crashes and damage

ASSUME BinariesAssumption ==
  /\ ChecksumVersion \in Nat \ {0}
  /\ Latest \in [Binaries -> Nat]
  /\ \A b \in Binaries : ChecksumVersion <= Latest[b]
  /\ Edited \in [Binaries -> SUBSET Nat]

ASSUME BoundsAssumption ==
  Slots \in Nat /\ MaxFiles \in Nat /\ MaxOps \in Nat /\ MaxFaults \in Nat

VARIABLES
  installed,  \* the binary in place
  db,         \* the database, as committed
  tx,         \* the service's open transaction
  server,     \* the service: where it is, and the migration in hand
  doctor,     \* the doctor command
  files,      \* snapshot files, by inode
  tmp,        \* inode at the temporary path, 0 if there is none
  dest,       \* inode at the destination, 0 if there is none
  backup,     \* per command, where it is and the inode it writes
  meddled,    \* history: a file was begun while another command was at work
  ops,        \* the operator's doings so far
  faults      \* faults so far

store == <<files, tmp, dest, backup, meddled>>
counters == <<ops, faults>>
vars == <<installed, db, tx, server, doctor, store, counters>>

Commands == 1 .. Slots

(* Fault: the list is read one too far. *)
KnownAndNext(b) == 1 .. Latest[b] + 1

(* migrations.All *)
Known(b) == 1 .. Latest[b]

(* What stands for a migration's SQL, and for its SHA-256 sum. *)
Text(b, v) == IF v \in Edited[b] THEN "edited" ELSE "original"

Texts == {"original", "edited"}

(***************************************************************************)
(* A database: whether it has the registry, the rows of schema_migrations, *)
(* the migrations its schema went through, the rows of                     *)
(* schema_migration_checksums, and whether the checks of SQLite pass.      *)
(***************************************************************************)
Database == [registry : BOOLEAN, applied : SUBSET Nat, ran : Seq(Nat \X Texts),
             sums : SUBSET (Nat \X Texts), sound : BOOLEAN]

(* The checksum table is there once its migration has run. *)
HasTable(d) == \E i \in DOMAIN d.ran : d.ran[i][1] = ChecksumVersion

(* A database with n migrations of a release without checksums. *)
Earlier(n) ==
  [registry |-> n > 0, applied |-> 1 .. n, ran |-> [i \in 1 .. n |-> <<i, "original">>],
   sums |-> {}, sound |-> TRUE]

NoTx == Earlier(0)

Stages == {"down", "registry", "unknown", "first_check", "apply",
           "execute", "record", "commit", "final_check", "serving"}

Down == [pc |-> "down", v |-> 1]

Reports == {"none", "ok", "damaged", "uninitialized", "unknown", "pending", "checksums"}

Idle == [at |-> 0, seen |-> {}, table |-> FALSE, v |-> 1, report |-> "none"]

BackupStages == {"idle", "stat_tmp", "vacuum", "writing", "verify", "link", "remove"}

DeploymentTypeOK ==
  /\ installed \in Binaries
  /\ db \in Database
  /\ tx \in Database
  /\ server \in [pc : Stages, v : 1 .. Latest[installed] + 1]
  /\ doctor \in [at : 0 .. 5, seen : SUBSET Nat, table : BOOLEAN,
                 v : 1 .. Latest[installed] + 1, report : Reports]
  /\ files \in Seq([db : Database, whole : BOOLEAN])
  /\ tmp \in 0 .. Len(files)
  /\ dest \in 0 .. Len(files)
  /\ backup \in [Commands -> [pc : BackupStages, ino : 0 .. Len(files)]]
  /\ meddled \in BOOLEAN
  /\ ops \in Nat
  /\ faults \in Nat

Init ==
  /\ installed \in Binaries
  /\ db \in {Earlier(n) : n \in 0 .. ChecksumVersion - 1}
  /\ tx = NoTx
  /\ server = Down
  /\ doctor = Idle
  /\ files = << >>
  /\ tmp = 0
  /\ dest = 0
  /\ backup = [c \in Commands |-> [pc |-> "idle", ino |-> 0]]
  /\ meddled = FALSE
  /\ ops = 0
  /\ faults = 0

-----------------------------------------------------------------------------
(* Migrations. *)

(* Fault: versions of later releases are passed over. *)
AnyKnown(b, d) == TRUE

(* rejectUnknownMigrations *)
AllKnown(b, d) == d.applied \subseteq Known(b)

(* verifyMigrationChecksums: every applied migration the binary ships has  *)
(* its checksum in the table.  A row that is missing and a row with        *)
(* another checksum are errors alike.                                      *)
Verified(b, d) == \A v \in Known(b) \intersect d.applied : <<v, Text(b, v)>> \in d.sums

(* The migration's SQL. *)
Executed(b, v, d) == [d EXCEPT !.ran = Append(@, <<v, Text(b, v)>>)]

(* Fault: only the migration in hand gets its checksum. *)
NewSumsOfOne(b, v, d) == {<<v, Text(b, v)>>}

(* recordAppliedMigrationChecksums: all applied ones that have none yet. *)
NewSums(b, v, d) ==
  {<<w, Text(b, w)>> : w \in {w \in Known(b) \intersect d.applied :
                                \A row \in d.sums : row[1] # w}}

(* The migration's row, and checksums if their table is there. *)
Recorded(b, v, d) ==
  LET with == [d EXCEPT !.applied = @ \union {v}]
  IN IF HasTable(d) THEN [with EXCEPT !.sums = @ \union NewSums(b, v, with)] ELSE with

-----------------------------------------------------------------------------
(* The service: App.Run up to its workers. *)

Goes(pc) == server' = [server EXCEPT !.pc = pc]

Exits == server' = Down /\ tx' = NoTx

(* The process starts, by hand or by its supervisor, and opens the file. *)
Start ==
  /\ server.pc = "down"
  /\ Goes("registry")
  /\ UNCHANGED <<installed, db, tx, doctor, store, counters>>

(* CREATE TABLE IF NOT EXISTS schema_migrations *)
CreateRegistry ==
  /\ server.pc = "registry"
  /\ db' = [db EXCEPT !.registry = TRUE]
  /\ Goes("unknown")
  /\ UNCHANGED <<installed, tx, doctor, store, counters>>

RejectUnknown ==
  /\ server.pc = "unknown"
  /\ IF AllKnown(installed, db) THEN Goes("first_check") /\ UNCHANGED tx ELSE Exits
  /\ UNCHANGED <<installed, db, doctor, store, counters>>

(* Fault: checksums are required of every database. *)
AcceptedStrictly(b, d) == Verified(b, d)

(* The first verification: nothing to verify without the table. *)
Accepted(b, d) == HasTable(d) => Verified(b, d)

FirstCheck ==
  /\ server.pc = "first_check"
  /\ IF Accepted(installed, db) THEN Goes("apply") /\ UNCHANGED tx ELSE Exits
  /\ UNCHANGED <<installed, db, doctor, store, counters>>

(* applyMigration: begin, and roll back if the version is applied. *)
Begin ==
  /\ server.pc = "apply"
  /\ server.v \in Known(installed)
  /\ IF server.v \in db.applied
     THEN server' = [server EXCEPT !.v = @ + 1] /\ UNCHANGED tx
     ELSE Goes("execute") /\ tx' = db
  /\ UNCHANGED <<installed, db, doctor, store, counters>>

Execute ==
  /\ server.pc = "execute"
  /\ tx' = Executed(installed, server.v, tx)
  /\ Goes("record")
  /\ UNCHANGED <<installed, db, doctor, store, counters>>

Record ==
  /\ server.pc = "record"
  /\ tx' = Recorded(installed, server.v, tx)
  /\ Goes("commit")
  /\ UNCHANGED <<installed, db, doctor, store, counters>>

Commit ==
  /\ server.pc = "commit"
  /\ db' = tx
  /\ tx' = NoTx
  /\ server' = [server EXCEPT !.pc = "apply", !.v = @ + 1]
  /\ UNCHANGED <<installed, doctor, store, counters>>

AllApplied ==
  /\ server.pc = "apply"
  /\ server.v \notin Known(installed)
  /\ Goes("final_check")
  /\ UNCHANGED <<installed, db, tx, doctor, store, counters>>

(* The last verification; then recovery and the workers. *)
FinalCheck ==
  /\ server.pc = "final_check"
  /\ IF Verified(installed, db) THEN Goes("serving") /\ UNCHANGED tx ELSE Exits
  /\ UNCHANGED <<installed, db, doctor, store, counters>>

(* Fault: what a broken transaction did stays. *)
RolledBackNever(d, open) == IF open = NoTx THEN d ELSE open

(* Rollback, or recovery of the journal after a crash. *)
RolledBack(d, open) == d

(* A statement fails, the timeout of the migrations passes, or a crash. *)
StartFails ==
  /\ server.pc \notin {"down", "serving"}
  /\ faults < MaxFaults
  /\ faults' = faults + 1
  /\ db' = RolledBack(db, tx)
  /\ Exits
  /\ UNCHANGED <<installed, doctor, store, ops>>

Serve ==
  \/ Start \/ CreateRegistry \/ RejectUnknown \/ FirstCheck
  \/ Begin \/ Execute \/ Record \/ Commit \/ AllApplied \/ FinalCheck

-----------------------------------------------------------------------------
(* Doctor: a process of the installed binary that only reads, one statement *)
(* at a time, while the service may be migrating.                           *)

(* Fault: the checksum table is looked up before the versions. *)
DoctorStepsSwapped == <<"integrity", "registry", "table", "versions", "verify">>

DoctorSteps == <<"integrity", "registry", "versions", "table", "verify">>

DoctorAt(step) == doctor.at \in DOMAIN DoctorSteps /\ DoctorSteps[doctor.at] = step

Continues == [doctor EXCEPT !.at = @ + 1]

Reported(report) == doctor' = [Idle EXCEPT !.report = report]

(* Bound: not beside a backup.  The two share nothing but the database,    *)
(* which neither writes.                                                   *)
DoctorBegins ==
  /\ doctor = Idle
  /\ \A c \in Commands : backup[c].pc = "idle"
  /\ doctor' = [Idle EXCEPT !.at = 1]
  /\ UNCHANGED <<installed, db, tx, server, store, counters>>

(* PRAGMA integrity_check and foreign_key_check *)
CheckIntegrity ==
  /\ DoctorAt("integrity")
  /\ IF db.sound THEN doctor' = Continues ELSE Reported("damaged")
  /\ UNCHANGED <<installed, db, tx, server, store, counters>>

CheckRegistry ==
  /\ DoctorAt("registry")
  /\ IF db.registry THEN doctor' = Continues ELSE Reported("uninitialized")
  /\ UNCHANGED <<installed, db, tx, server, store, counters>>

ReadVersions ==
  /\ DoctorAt("versions")
  /\ IF AllKnown(installed, db)
     THEN doctor' = [Continues EXCEPT !.seen = db.applied]
     ELSE Reported("unknown")
  /\ UNCHANGED <<installed, db, tx, server, store, counters>>

LookUpTable ==
  /\ DoctorAt("table")
  /\ doctor' = [Continues EXCEPT !.table = HasTable(db)]
  /\ UNCHANGED <<installed, db, tx, server, store, counters>>

(* Doctor's verdict once the history is read and valid. *)
Verdict == IF Known(installed) \ doctor.seen = {} THEN "ok" ELSE "pending"

(* Without the table only a database before its migration is valid; with   *)
(* it each version is verified by a statement of its own.                  *)
VerifyNext ==
  /\ DoctorAt("verify")
  /\ IF ~doctor.table
     THEN Reported(IF ChecksumVersion \in doctor.seen THEN "checksums" ELSE Verdict)
     ELSE IF doctor.v \notin Known(installed)
     THEN Reported(Verdict)
     ELSE IF doctor.v \in db.applied /\ <<doctor.v, Text(installed, doctor.v)>> \notin db.sums
     THEN Reported("checksums")
     ELSE doctor' = [doctor EXCEPT !.v = @ + 1]
  /\ UNCHANGED <<installed, db, tx, server, store, counters>>

(* The database is locked, the timeout passes, the command is killed. *)
DoctorFails ==
  /\ doctor.at # 0
  /\ Reported("none")
  /\ UNCHANGED <<installed, db, tx, server, store, counters>>

(* The operator has read the report. *)
DoctorEnds ==
  /\ doctor.at = 0
  /\ doctor # Idle
  /\ doctor' = Idle
  /\ UNCHANGED <<installed, db, tx, server, store, counters>>

Inspect ==
  \/ DoctorBegins \/ CheckIntegrity \/ CheckRegistry \/ ReadVersions
  \/ LookUpTable \/ VerifyNext \/ DoctorFails \/ DoctorEnds

-----------------------------------------------------------------------------
(* Backup: Store.Backup, with one destination for all commands. *)

At(c, pc) == backup[c].pc = pc

To(c, pc) == backup' = [backup EXCEPT ![c].pc = pc]

NoCommand == [pc |-> "idle", ino |-> 0]

Ends(c) == backup' = [backup EXCEPT ![c] = NoCommand]

NotOfBackup == <<installed, db, tx, server, doctor, ops>>

(* Commands that may still create a file. *)
Undecided == {c \in Commands : ~At(c, "idle") /\ backup[c].ino = 0}

(* The destination must not exist; else the command ends at once.  It      *)
(* takes the first free slot.  Bounds: MaxFiles; and not beside doctor,    *)
(* see DoctorBegins.                                                       *)
StatDestination(c) ==
  /\ At(c, "idle")
  /\ \A e \in 1 .. c - 1 : ~At(e, "idle")
  /\ Len(files) + Cardinality(Undecided) < MaxFiles
  /\ doctor = Idle
  /\ dest = 0
  /\ To(c, "stat_tmp")
  /\ UNCHANGED <<NotOfBackup, files, tmp, dest, meddled, faults>>

(* From here on the temporary path is removed on every return. *)
StatTemporary(c) ==
  /\ At(c, "stat_tmp")
  /\ IF tmp = 0 THEN To(c, "vacuum") ELSE Ends(c)
  /\ UNCHANGED <<NotOfBackup, files, tmp, dest, meddled, faults>>

(* The commands at work on a file they have made. *)
Writers == {c \in Commands : backup[c].pc \in {"writing", "verify", "link"}}

(* VACUUM INTO creates the file, and reads what is committed now. *)
Vacuum(c) ==
  /\ At(c, "vacuum")
  /\ tmp = 0
  /\ files' = Append(files, [db |-> db, whole |-> FALSE])
  /\ tmp' = Len(files) + 1
  /\ backup' = [backup EXCEPT ![c] = [pc |-> "writing", ino |-> Len(files) + 1]]
  /\ meddled' = (meddled \/ Writers # {})
  /\ UNCHANGED <<NotOfBackup, dest, faults>>

(* It refuses a file that exists.  SQLite would take one that is empty; the *)
(* moment between a file's creation and its first page is left out.        *)
VacuumRefused(c) ==
  /\ At(c, "vacuum")
  /\ tmp # 0
  /\ To(c, "remove")
  /\ UNCHANGED <<NotOfBackup, files, tmp, dest, meddled, faults>>

Written(c) ==
  /\ At(c, "writing")
  /\ files' = [files EXCEPT ![backup[c].ino].whole = TRUE]
  /\ To(c, "verify")
  /\ UNCHANGED <<NotOfBackup, tmp, dest, meddled, faults>>

(* Fault: the snapshot is taken at its word. *)
PassesAlways(file) == TRUE

(* integrityCheckPath: what is not whole or not sound does not pass. *)
Passes(file) == file.whole /\ file.db.sound

(* Permissions and verification, both by the temporary path. *)
Verify(c) ==
  /\ At(c, "verify")
  /\ To(c, IF tmp # 0 /\ Passes(files[tmp]) THEN "link" ELSE "remove")
  /\ UNCHANGED <<NotOfBackup, files, tmp, dest, meddled, faults>>

(* Fault: renaming instead of linking replaces the target. *)
PublishedByRename(from, to) == IF from # 0 THEN from ELSE to

(* os.Link: fails if the target exists or the source does not. *)
Published(from, to) == IF to = 0 THEN from ELSE to

Link(c) ==
  /\ At(c, "link")
  /\ dest' = Published(tmp, dest)
  /\ To(c, "remove")
  /\ UNCHANGED <<NotOfBackup, files, tmp, meddled, faults>>

(* The deferred os.Remove of the temporary path, whoever made the file. *)
Remove(c) ==
  /\ At(c, "remove")
  /\ tmp' = 0
  /\ Ends(c)
  /\ UNCHANGED <<NotOfBackup, files, dest, meddled, faults>>

(* Snapshot or verification fails for another reason. *)
BackupFails(c) ==
  /\ backup[c].pc \in {"vacuum", "writing", "verify", "link"}
  /\ faults < MaxFaults
  /\ faults' = faults + 1
  /\ To(c, "remove")
  /\ UNCHANGED <<NotOfBackup, files, tmp, dest, meddled>>

(* The command dies: the temporary file stays.  Before there is one it is  *)
(* as if the command had not begun.                                        *)
BackupDies(c) ==
  /\ backup[c].ino # 0
  /\ faults < MaxFaults
  /\ faults' = faults + 1
  /\ Ends(c)
  /\ UNCHANGED <<NotOfBackup, files, tmp, dest, meddled>>

BackUp(c) ==
  \/ StatDestination(c) \/ StatTemporary(c) \/ Vacuum(c)
  \/ VacuumRefused(c) \/ Written(c) \/ Verify(c) \/ Link(c) \/ Remove(c)
  \/ BackupFails(c) \/ BackupDies(c)

-----------------------------------------------------------------------------
(* The operator, and what befalls the file. *)

Acts == ops < MaxOps /\ ops' = ops + 1

(* The signal cancels the context, wherever the service is. *)
Stop ==
  /\ Acts
  /\ server.pc # "down"
  /\ db' = RolledBack(db, tx)
  /\ Exits
  /\ UNCHANGED <<installed, doctor, store, faults>>

(* Upgrade or rollback of the binary, with the service stopped. *)
Install(b) ==
  /\ Acts
  /\ server.pc = "down"
  /\ doctor = Idle
  /\ b # installed
  /\ installed' = b
  /\ UNCHANGED <<db, tx, server, doctor, store, faults>>

(* A published snapshot replaces the database of the stopped service. *)
Restore ==
  /\ Acts
  /\ server.pc = "down"
  /\ doctor = Idle
  /\ \A c \in Commands : At(c, "idle")
  /\ dest # 0
  /\ files[dest].whole
  /\ db' = files[dest].db
  /\ UNCHANGED <<installed, tx, server, doctor, store, faults>>

(* A file a dead command left behind is cleared away. *)
ClearTemporary ==
  /\ Acts
  /\ tmp # 0
  /\ \A c \in Commands : At(c, "idle")
  /\ tmp' = 0
  /\ UNCHANGED <<installed, db, tx, server, doctor, files, dest, backup, meddled, faults>>

(* A damaged page, or a row without its parent. *)
Damage ==
  /\ faults < MaxFaults
  /\ faults' = faults + 1
  /\ tx = NoTx
  /\ db' = [db EXCEPT !.sound = FALSE]
  /\ UNCHANGED <<installed, tx, server, doctor, store, ops>>

Operate ==
  \/ Stop
  \/ \E b \in Binaries : Install(b)
  \/ Restore
  \/ ClearTemporary

Next ==
  \/ Serve \/ StartFails
  \/ Inspect
  \/ \E c \in Commands : BackUp(c)
  \/ Operate
  \/ Damage

Spec == Init /\ [][Next]_vars

-----------------------------------------------------------------------------
(* What the service, doctor and backup promise. *)

(* Whatever failed or was killed on the way, the schema went through each  *)
(* migration once and in order, and the rows of schema_migrations say      *)
(* which: applyMigration's SQL and row are committed together or not.      *)
MigratedInOrder ==
  /\ \A i \in DOMAIN db.ran : db.ran[i][1] = i
  /\ db.applied = DOMAIN db.ran

(* No applied version is without its checksum once the table exists, none  *)
(* has two, and from the migration that creates the table on it is that of *)
(* the SQL that ran; what earlier releases ran is taken on trust by the    *)
(* binary that creates the table.                                          *)
ChecksumsKept ==
  LET versions == {row[1] : row \in db.sums}
  IN /\ versions = IF ChecksumVersion \in db.applied THEN db.applied ELSE {}
     /\ \A r1, r2 \in db.sums : r1[1] = r2[1] => r1 = r2
     /\ \A i \in DOMAIN db.ran :
          i >= ChecksumVersion => \A row \in db.sums : row[1] = i => row = db.ran[i]

(* The workers only ever run on a database that went through exactly the   *)
(* migrations their binary ships, after any sequence of upgrades,          *)
(* rollbacks and restores: App.Run returns before it starts them.          *)
ServedIsCurrent ==
  server.pc = "serving" =>
    /\ db.applied = 1 .. Latest[installed]
    /\ \A i \in DOMAIN db.ran : i >= ChecksumVersion => db.ran[i][2] = Text(installed, i)

(* Doctor says of the database what is so, also when the service migrates  *)
(* while it reads: "current" is never premature, and no state a migration  *)
(* passes through is reported as a broken history.                         *)
ReportIsRight ==
  CASE doctor.report = "ok" ->
         /\ db.applied = 1 .. Latest[installed]
         /\ \A v \in db.applied : <<v, Text(installed, v)>> \in db.sums
    [] doctor.report = "unknown" -> \E v \in db.applied : v > Latest[installed]
    [] doctor.report = "checksums" ->
         /\ ChecksumVersion \in db.applied
         /\ \E v \in db.applied : <<v, Text(installed, v)>> \notin db.sums
    [] doctor.report = "damaged" -> ~db.sound
    [] OTHER -> TRUE

(* What a backup published is complete and passed SQLite's checks, though  *)
(* commands fail and die half-way, leave their temporary files behind, run *)
(* side by side and remove each other's.  The one exception takes three    *)
(* commands: one has its file removed by the second while it works on it,  *)
(* and a third begins a file at that path before the first is done.        *)
PublishedIsSound ==
  dest # 0 /\ ~meddled => files[dest].whole /\ files[dest].db.sound

(* A backup never replaces a published one, also when two commands race    *)
(* for one destination (ErrBackupExists).                                  *)
DestinationKept == [][dest # 0 /\ dest' # 0 => dest' = dest]_vars

(* A start that no failure and no operator cut short is refused only if    *)
(* the database really has a version the binary does not know, or a        *)
(* checksum that is missing or another: never one from an earlier release, *)
(* one a failed migration left half-way, or a snapshot restored.           *)
CanServe ==
  /\ \A v \in db.applied : v <= Latest[installed]
  /\ ChecksumVersion \in db.applied =>
       \A v \in db.applied : <<v, Text(installed, v)>> \in db.sums

RefusedRightly ==
  [][server.pc # "down" /\ server'.pc = "down" /\ UNCHANGED counters => ~CanServe]_vars

=============================================================================
