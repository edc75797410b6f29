-------------------------- MODULE DeploymentProofs --------------------------
(***************************************************************************)
(* Proofs about Deployment for any builds and migrations, any number of    *)
(* backups, and any number of failures and doings of the operator.         *)
(***************************************************************************)
EXTENDS Deployment, SequenceTheorems, TLAPS

File == [db : Database, whole : BOOLEAN]

InMigration == server.pc \in {"execute", "record", "commit"}

(* A migration in hand is one the binary ships; every start begins with    *)
(* the first.                                                              *)
TypeInv ==
  /\ DeploymentTypeOK
  /\ InMigration => server.v \in Known(installed)
  /\ server.pc = "down" => server.v = 1

-----------------------------------------------------------------------------
(* Types. *)

LEMMA LatestType == \A b \in Binaries : Latest[b] \in Nat \ {0}
BY BinariesAssumption

LEMMA EarlierType ==
  ASSUME NEW n \in Nat
  PROVE  Earlier(n) \in Database
<1>1. [i \in 1 .. n |-> <<i, "original">>] \in [1 .. n -> Nat \X Texts]
  BY DEF Texts
<1>2. [i \in 1 .. n |-> <<i, "original">>] \in Seq(Nat \X Texts)
  BY <1>1, SeqDef
<1> QED
  BY <1>2 DEF Earlier, Database

LEMMA NoTxType == NoTx \in Database
BY EarlierType DEF NoTx

LEMMA TextType == \A b, v : Text(b, v) \in Texts
BY DEF Text, Texts

(* What a migration appends. *)
LEMMA ExecutedType ==
  ASSUME NEW b \in Binaries, NEW v \in Known(b), NEW d \in Database
  PROVE  /\ Executed(b, v, d) \in Database
         /\ Executed(b, v, d).ran = Append(d.ran, <<v, Text(b, v)>>)
         /\ Executed(b, v, d).applied = d.applied
         /\ Executed(b, v, d).sums = d.sums
         /\ Executed(b, v, d).sound = d.sound
         /\ Executed(b, v, d).registry = d.registry
<1>1. <<v, Text(b, v)>> \in Nat \X Texts
  BY TextType, LatestType DEF Known
<1>2. Append(d.ran, <<v, Text(b, v)>>) \in Seq(Nat \X Texts)
  BY <1>1, AppendProperties DEF Database
<1> QED
  BY <1>2 DEF Executed, Database

(* A database with one more row in schema_migrations. *)
WithVersion(d, v) == [d EXCEPT !.applied = @ \union {v}]

LEMMA RecordedType ==
  ASSUME NEW b \in Binaries, NEW v \in Known(b), NEW d \in Database
  PROVE  /\ Recorded(b, v, d) \in Database
         /\ Recorded(b, v, d).ran = d.ran
         /\ Recorded(b, v, d).applied = d.applied \union {v}
         /\ Recorded(b, v, d).sound = d.sound
         /\ Recorded(b, v, d).registry = d.registry
         /\ Recorded(b, v, d).sums =
              IF HasTable(d)
              THEN d.sums \union NewSums(b, v, WithVersion(d, v))
              ELSE d.sums
<1> DEFINE with == WithVersion(d, v)
<1>0. v \in Nat /\ Known(b) \subseteq Nat
  BY LatestType DEF Known
<1>1. with \in Database
  <2>1. d.applied \union {v} \in SUBSET Nat
    BY <1>0 DEF Database
  <2> QED
    BY <2>1 DEF Database, WithVersion
<1>2. NewSums(b, v, with) \subseteq Nat \X Texts
  BY <1>0, TextType DEF NewSums
<1>3. with.sums = d.sums /\ with.ran = d.ran /\ with.sound = d.sound /\ with.registry = d.registry
        /\ with.applied = d.applied \union {v}
  BY DEF Database, WithVersion
<1>4. Recorded(b, v, d) =
        IF HasTable(d) THEN [with EXCEPT !.sums = @ \union NewSums(b, v, with)] ELSE with
  BY DEF Recorded, WithVersion
<1> HIDE DEF with
<1>5. CASE HasTable(d)
  <2>1. d.sums \union NewSums(b, v, with) \in SUBSET (Nat \X Texts)
    BY <1>2 DEF Database
  <2> DEFINE more == [with EXCEPT !.sums = @ \union NewSums(b, v, with)]
  <2>2. more = [with EXCEPT !.sums = d.sums \union NewSums(b, v, with)]
    BY <1>3
  <2>3. more \in Database /\ more.sums = d.sums \union NewSums(b, v, with)
          /\ more.ran = with.ran /\ more.applied = with.applied
          /\ more.sound = with.sound /\ more.registry = with.registry
    BY <1>1, <2>1, <2>2 DEF Database
  <2> QED
    BY <1>3, <1>4, <1>5, <2>3 DEF with
<1>6. CASE ~HasTable(d)
  BY <1>1, <1>3, <1>4, <1>6
<1> QED
  BY <1>5, <1>6

(* A file changes only by being completed. *)
LEMMA WrittenType ==
  ASSUME NEW i \in 1 .. Len(files), files \in Seq(File)
  PROVE  /\ [files EXCEPT ![i].whole = TRUE] \in Seq(File)
         /\ Len([files EXCEPT ![i].whole = TRUE]) = Len(files)
         /\ \A j \in 1 .. Len(files) :
              /\ [files EXCEPT ![i].whole = TRUE][j].db = files[j].db
              /\ [files EXCEPT ![i].whole = TRUE][j].whole = (files[j].whole \/ j = i)
<1>1. files[i] \in File
  BY ElementOfSeq
<1> DEFINE file == [files[i] EXCEPT !.whole = TRUE]
<1>2. file \in File /\ file.db = files[i].db /\ file.whole = TRUE
  BY <1>1 DEF File
<1>3. [files EXCEPT ![i].whole = TRUE] = [files EXCEPT ![i] = file]
  OBVIOUS
<1> HIDE DEF file
<1>4. /\ [files EXCEPT ![i] = file] \in Seq(File)
      /\ Len([files EXCEPT ![i] = file]) = Len(files)
      /\ \A j \in 1 .. Len(files) : [files EXCEPT ![i] = file][j] = IF j = i THEN file ELSE files[j]
  BY <1>2, ExceptSeq
<1>5. \A j \in 1 .. Len(files) : files[j].whole \in BOOLEAN
  <2> TAKE j \in 1 .. Len(files)
  <2>1. files[j] \in File
    BY ElementOfSeq
  <2> QED
    BY <2>1 DEF File
<1> DEFINE written == [files EXCEPT ![i] = file]
<1>6. /\ written \in Seq(File) /\ Len(written) = Len(files)
      /\ \A j \in 1 .. Len(files) : written[j] = IF j = i THEN file ELSE files[j]
  BY <1>4
<1>7. [files EXCEPT ![i].whole = TRUE] = written
  BY <1>3
<1> HIDE DEF written
<1>8. \A j \in 1 .. Len(files) :
        written[j].db = files[j].db /\ written[j].whole = (files[j].whole \/ j = i)
  <2> TAKE j \in 1 .. Len(files)
  <2>1. CASE j = i
    BY <1>2, <1>6, <2>1
  <2>2. CASE j # i
    BY <1>5, <1>6, <2>2
  <2> QED
    BY <2>1, <2>2
<1> QED
  BY <1>6, <1>7, <1>8

LEMMA LenType == files \in Seq(File) => Len(files) \in Nat
BY LenProperties

LEMMA DownType ==
  ASSUME installed \in Binaries
  PROVE  Down \in [pc : Stages, v : 1 .. Latest[installed] + 1]
BY LatestType DEF Down, Stages

LEMMA IdleType ==
  ASSUME installed \in Binaries
  PROVE  Idle \in [at : 0 .. 5, seen : SUBSET Nat, table : BOOLEAN,
                  v : 1 .. Latest[installed] + 1, report : Reports]
<1>1. 1 \in 1 .. Latest[installed] + 1
  BY LatestType
<1> QED
  BY <1>1 DEF Idle, Reports

LEMMA TypeInit == Init => TypeInv
<1> SUFFICES ASSUME Init PROVE TypeInv
  OBVIOUS
<1>1. db \in Database
  BY EarlierType, BinariesAssumption DEF Init
<1>2. files \in Seq(File) /\ Len(files) = 0
  BY EmptySeq DEF Init
<1>3. server \in [pc : Stages, v : 1 .. Latest[installed] + 1] /\ server.pc = "down" /\ server.v = 1
  BY DownType DEF Init, Down
<1>4. backup \in [Commands -> [pc : BackupStages, ino : 0 .. Len(files)]]
  BY <1>2 DEF Init, BackupStages
<1>5. tx \in Database /\ installed \in Binaries
  BY NoTxType DEF Init
<1>6. doctor \in [at : 0 .. 5, seen : SUBSET Nat, table : BOOLEAN,
                 v : 1 .. Latest[installed] + 1, report : Reports]
  BY <1>5, IdleType DEF Init
<1>7. tmp = 0 /\ dest = 0 /\ meddled = FALSE /\ ops = 0 /\ faults = 0
  BY DEF Init
<1>8. tmp \in 0 .. Len(files) /\ dest \in 0 .. Len(files)
  BY <1>2, <1>7
<1> QED
  BY <1>1, <1>2, <1>3, <1>4, <1>5, <1>6, <1>7, <1>8 DEF TypeInv, DeploymentTypeOK, InMigration, File

LEMMA TypeServe ==
  ASSUME TypeInv, Serve \/ StartFails
  PROVE  TypeInv'
<1> USE DEF TypeInv, DeploymentTypeOK, InMigration, File, store, counters
<1>1. server.pc \in Stages /\ server.v \in 1 .. Latest[installed] + 1
  OBVIOUS
<1>2. Latest[installed] \in Nat
  BY LatestType
<1>3. \A pc \in Stages \ {"down", "execute", "record", "commit"} :
        Goes(pc) /\ UNCHANGED <<installed, store, doctor, counters>> /\ db' \in Database /\ tx' \in Database
          => TypeInv'
  BY DEF Goes
<1>4. Exits /\ UNCHANGED <<installed, store, doctor>> /\ db' \in Database
        /\ ops' \in Nat /\ faults' \in Nat => TypeInv'
  <2>1. Down.pc = "down" /\ Down.v = 1
    BY DEF Down
  <2> QED
    BY <2>1, DownType, NoTxType DEF Exits
<1>5. CASE Start
  BY <1>3, <1>5 DEF Start, Stages
<1>6. CASE CreateRegistry
  <2>1. db' \in Database
    BY <1>6 DEF CreateRegistry, Database
  <2> QED
    BY <1>3, <1>6, <2>1 DEF CreateRegistry, Stages
<1>7. CASE RejectUnknown
  BY <1>3, <1>4, <1>7 DEF RejectUnknown, Stages
<1>8. CASE FirstCheck
  BY <1>3, <1>4, <1>8 DEF FirstCheck, Stages
<1>9. CASE Begin
  <2>1. /\ server.pc = "apply" /\ server.v \in 1 .. Latest[installed]
        /\ UNCHANGED <<installed, db, doctor, store, counters>>
    BY <1>9, SMTT(60) DEF Begin, Known
  <2>2. CASE server.v \in db.applied
    <3>1. server' = [server EXCEPT !.v = server.v + 1] /\ tx' = tx
      BY <1>9, <2>2 DEF Begin
    <3>2. server.v + 1 \in 1 .. Latest[installed] + 1
      BY <1>2, <2>1
    <3>3. /\ server' \in [pc : Stages, v : 1 .. Latest[installed] + 1]
          /\ server'.pc = "apply"
      BY <2>1, <3>1, <3>2
    <3> QED
      BY <2>1, <3>1, <3>3
  <2>3. CASE server.v \notin db.applied
    <3>1. server' = [server EXCEPT !.pc = "execute"] /\ tx' = db
      BY <1>9, <2>3 DEF Begin, Goes
    <3>2. /\ server' \in [pc : Stages, v : 1 .. Latest[installed] + 1]
          /\ server'.v \in Known(installed') /\ server'.pc # "down"
      BY <1>2, <2>1, <3>1 DEF Stages, Known
    <3> QED
      BY <2>1, <3>1, <3>2
  <2> QED
    BY <2>2, <2>3
<1>10. CASE Execute
  <2>1. tx' \in Database
    BY <1>10, ExecutedType DEF Execute
  <2> QED
    BY <1>1, <1>10, <2>1 DEF Execute, Goes, Stages
<1>11. CASE Record
  BY <1>1, <1>11, RecordedType DEF Record, Goes, Stages
<1>12. CASE Commit
  <2>1. server.v + 1 \in 1 .. Latest[installed] + 1
    BY <1>1, <1>2, <1>12 DEF Commit, Known
  <2>2. server' \in [pc : Stages, v : 1 .. Latest[installed] + 1] /\ server'.pc = "apply"
    BY <1>12, <2>1 DEF Commit, Stages
  <2>3. tx' \in Database /\ db' \in Database
    BY <1>12, NoTxType DEF Commit
  <2> QED
    BY <1>12, <2>2, <2>3 DEF Commit
<1>13. CASE AllApplied
  BY <1>3, <1>13 DEF AllApplied, Stages
<1>14. CASE FinalCheck
  BY <1>3, <1>4, <1>14 DEF FinalCheck, Stages
<1>15. CASE StartFails
  BY <1>4, <1>15 DEF StartFails, RolledBack
<1> QED
  BY <1>5, <1>6, <1>7, <1>8, <1>9, <1>10, <1>11, <1>12, <1>13, <1>14, <1>15 DEF Serve

(* What doctor reports, and that it goes on, keep its type. *)
LEMMA DoctorSteppedType ==
  ASSUME DeploymentTypeOK
  PROVE  /\ doctor.at \in 1 .. 4 =>
              Continues \in [at : 0 .. 5, seen : SUBSET Nat, table : BOOLEAN,
                            v : 1 .. Latest[installed] + 1, report : Reports]
         /\ \A r \in Reports :
              [Idle EXCEPT !.report = r] \in
                [at : 0 .. 5, seen : SUBSET Nat, table : BOOLEAN,
                 v : 1 .. Latest[installed] + 1, report : Reports]
<1> DEFINE D == [at : 0 .. 5, seen : SUBSET Nat, table : BOOLEAN,
                 v : 1 .. Latest[installed] + 1, report : Reports]
<1>1. doctor \in D /\ Idle \in D
  BY IdleType DEF DeploymentTypeOK
<1>2. \A d \in D, r \in Reports : [d EXCEPT !.report = r] \in D
  OBVIOUS
<1>3. \A d \in D, i \in 0 .. 5 : [d EXCEPT !.at = i] \in D
  OBVIOUS
<1>4. doctor.at \in 1 .. 4 => doctor.at + 1 \in 0 .. 5
  OBVIOUS
<1>5. Continues = [doctor EXCEPT !.at = doctor.at + 1]
  BY DEF Continues
<1> HIDE DEF D
<1>6. doctor.at \in 1 .. 4 => Continues \in D
  BY <1>1, <1>3, <1>4, <1>5
<1>7. \A r \in Reports : [Idle EXCEPT !.report = r] \in D
  BY <1>1, <1>2
<1> QED
  BY <1>6, <1>7 DEF D

LEMMA TypeInspect ==
  ASSUME TypeInv, Inspect
  PROVE  TypeInv'
<1> DEFINE D == [at : 0 .. 5, seen : SUBSET Nat, table : BOOLEAN,
                 v : 1 .. Latest[installed] + 1, report : Reports]
<1>1. UNCHANGED <<installed, db, tx, server, store, counters>> /\ doctor' \in D => TypeInv'
  BY DEF TypeInv, DeploymentTypeOK, InMigration, store, counters
<1>2. DeploymentTypeOK /\ doctor \in D
  BY DEF TypeInv, DeploymentTypeOK
<1>3. \A r \in Reports : Reported(r) => doctor' \in D
  BY <1>2, DoctorSteppedType DEF Reported
<1>4. doctor.at \in 1 .. 4 => Continues \in D
  BY <1>2, DoctorSteppedType
<1>5. DOMAIN DoctorSteps = 1 .. 5
  BY DEF DoctorSteps
<1>6. \A step : DoctorAt(step) => doctor.at \in 1 .. 5
  BY <1>5 DEF DoctorAt
<1>7. \A step : DoctorAt(step) /\ step # "verify" => doctor.at \in 1 .. 4
  BY <1>5, <1>6 DEF DoctorAt, DoctorSteps
<1>8. UNCHANGED <<installed, db, tx, server, store, counters>>
  BY DEF Inspect, DoctorBegins, CheckIntegrity, CheckRegistry, ReadVersions, LookUpTable,
         VerifyNext, DoctorFails, DoctorEnds
<1> SUFFICES doctor' \in D
  BY <1>1, <1>8
<1>9. Latest[installed] \in Nat
  BY <1>2, LatestType DEF DeploymentTypeOK
<1>10. CASE DoctorBegins
  <2>1. Idle \in D
    BY <1>2, IdleType DEF DeploymentTypeOK
  <2>2. doctor' = [Idle EXCEPT !.at = 1]
    BY <1>10 DEF DoctorBegins
  <2> QED
    BY <2>1, <2>2
<1>11. CASE CheckIntegrity
  BY <1>3, <1>4, <1>7, <1>11 DEF CheckIntegrity, Reports
<1>12. CASE CheckRegistry
  BY <1>3, <1>4, <1>7, <1>12 DEF CheckRegistry, Reports
<1>13. CASE ReadVersions
  <2>1. db.applied \in SUBSET Nat
    BY <1>2 DEF DeploymentTypeOK, Database
  <2>2. CASE AllKnown(installed, db)
    BY <1>4, <1>7, <1>13, <2>1, <2>2 DEF ReadVersions
  <2>3. CASE ~AllKnown(installed, db)
    BY <1>3, <1>13, <2>3 DEF ReadVersions, Reports
  <2> QED
    BY <2>2, <2>3
<1>14. CASE LookUpTable
  <2>1. HasTable(db) \in BOOLEAN
    BY DEF HasTable
  <2> QED
    BY <1>4, <1>7, <1>14, <2>1 DEF LookUpTable
<1>15. CASE VerifyNext
  <2>1. Verdict \in Reports /\ "checksums" \in Reports
    BY DEF Verdict, Reports
  <2>2. (\E r \in Reports : Reported(r))
          \/ (doctor.v \in Known(installed) /\ doctor' = [doctor EXCEPT !.v = @ + 1])
    BY <1>15, <2>1 DEF VerifyNext
  <2> QED
    BY <1>2, <1>3, <1>9, <2>2 DEF Known
<1>16. CASE DoctorFails
  BY <1>3, <1>16 DEF DoctorFails, Reports
<1>17. CASE DoctorEnds
  BY <1>2, <1>17, IdleType DEF DoctorEnds, DeploymentTypeOK
<1> QED
  BY <1>10, <1>11, <1>12, <1>13, <1>14, <1>15, <1>16, <1>17 DEF Inspect

(* The commands' steps, as far as the invariants go: at most one file is   *)
(* created, and one is completed.                                          *)
LEMMA TypeBackUp ==
  ASSUME TypeInv, NEW c \in Commands, BackUp(c)
  PROVE  TypeInv'
<1> DEFINE B(n) == [Commands -> [pc : BackupStages, ino : 0 .. n]]
<1>1. UNCHANGED <<installed, db, tx, server, doctor, ops>>
  BY DEF BackUp, StatDestination, StatTemporary, Vacuum, VacuumRefused, Written, Verify, Link,
         Remove, BackupFails, BackupDies, NotOfBackup
<1>2. /\ files \in Seq(File) /\ Len(files) \in Nat /\ db \in Database
      /\ tmp \in 0 .. Len(files) /\ dest \in 0 .. Len(files) /\ backup \in B(Len(files))
      /\ meddled \in BOOLEAN /\ faults \in Nat
  BY LenType DEF TypeInv, DeploymentTypeOK, File
<1>3. /\ files' \in Seq(File) /\ tmp' \in 0 .. Len(files') /\ dest' \in 0 .. Len(files')
      /\ backup' \in B(Len(files')) /\ meddled' \in BOOLEAN /\ faults' \in Nat
      => TypeInv'
  BY <1>1 DEF TypeInv, DeploymentTypeOK, InMigration, File
<1>4. \A pc \in BackupStages : To(c, pc) => backup' \in B(Len(files))
  BY <1>2 DEF To
<1>5. Ends(c) => backup' \in B(Len(files))
  BY <1>2 DEF Ends, NoCommand, BackupStages
<1>6. CASE StatDestination(c)
  BY <1>2, <1>3, <1>4, <1>6 DEF StatDestination, BackupStages
<1>7. CASE StatTemporary(c)
  BY <1>2, <1>3, <1>4, <1>5, <1>7 DEF StatTemporary, BackupStages
<1>8. CASE Vacuum(c)
  <2> DEFINE file == [db |-> db, whole |-> FALSE]
  <2>1. file \in File
    BY <1>2 DEF File
  <2>2. files' = Append(files, file)
    BY <1>8 DEF Vacuum
  <2> HIDE DEF file
  <2>3. files' \in Seq(File) /\ Len(files') = Len(files) + 1
    BY <1>2, <2>1, <2>2, AppendProperties
  <2>4. backup \in B(Len(files) + 1)
    BY <1>2
  <2>5. backup' \in B(Len(files) + 1)
    BY <1>2, <1>8, <2>4 DEF Vacuum, BackupStages
  <2> QED
    BY <1>2, <1>3, <1>8, <2>3, <2>5 DEF Vacuum
<1>9. CASE VacuumRefused(c)
  BY <1>2, <1>3, <1>4, <1>9 DEF VacuumRefused, BackupStages
<1>10. CASE Written(c)
  <2>1. CASE backup[c].ino \in 1 .. Len(files)
    <3>1. files' \in Seq(File) /\ Len(files') = Len(files)
      BY <1>2, <1>10, <2>1, WrittenType DEF Written
    <3> QED
      BY <1>2, <1>3, <1>4, <1>10, <3>1 DEF Written, BackupStages
  <2>2. CASE backup[c].ino = 0
    <3>1. 0 \notin DOMAIN files
      BY <1>2, LenProperties
    <3>2. files' = files
      BY <1>2, <1>10, <2>2, <3>1, LenProperties DEF Written
    <3> QED
      BY <1>2, <1>3, <1>4, <1>10, <3>2 DEF Written, BackupStages
  <2> QED
    BY <1>2, <2>1, <2>2
<1>11. CASE Verify(c)
  BY <1>2, <1>3, <1>4, <1>11 DEF Verify, BackupStages
<1>12. CASE Link(c)
  BY <1>2, <1>3, <1>4, <1>12 DEF Link, Published, BackupStages
<1>13. CASE Remove(c)
  BY <1>2, <1>3, <1>5, <1>13 DEF Remove
<1>14. CASE BackupFails(c)
  BY <1>2, <1>3, <1>4, <1>14 DEF BackupFails, BackupStages
<1>15. CASE BackupDies(c)
  BY <1>2, <1>3, <1>5, <1>15 DEF BackupDies
<1> QED
  BY <1>6, <1>7, <1>8, <1>9, <1>10, <1>11, <1>12, <1>13, <1>14, <1>15 DEF BackUp

LEMMA TypeOperate ==
  ASSUME TypeInv, Operate \/ Damage
  PROVE  TypeInv'
<1> USE DEF TypeInv, DeploymentTypeOK, InMigration, store
<1>0. Down.pc = "down" /\ Down.v = 1
  BY DEF Down
<1>1. CASE Stop
  BY <1>0, <1>1, DownType, NoTxType DEF Stop, Acts, Exits, RolledBack
<1>2. ASSUME NEW b \in Binaries, Install(b) PROVE TypeInv'
  <2>1. server.v \in 1 .. Latest[b] + 1 /\ doctor.v \in 1 .. Latest[b] + 1
    BY <1>2, LatestType DEF Install, Idle
  <2> QED
    BY <1>2, <2>1 DEF Install, Acts, Idle
<1>3. CASE Restore
  <2>1. files[dest] \in [db : Database, whole : BOOLEAN]
    <3>1. dest \in 1 .. Len(files)
      BY <1>3, LenType DEF Restore, File
    <3> QED
      BY <3>1, ElementOfSeq
  <2> QED
    BY <1>3, <2>1 DEF Restore, Acts
<1>4. CASE ClearTemporary
  BY <1>4, LenType DEF ClearTemporary, Acts, File
<1>5. CASE Damage
  <2>1. db' \in Database
    BY <1>5 DEF Damage, Database
  <2> QED
    BY <1>5, <2>1 DEF Damage
<1> QED
  BY <1>1, <1>2, <1>3, <1>4, <1>5 DEF Operate

LEMMA TypeNext == TypeInv /\ [Next]_vars => TypeInv'
<1> SUFFICES ASSUME TypeInv, [Next]_vars PROVE TypeInv'
  OBVIOUS
<1>1. CASE UNCHANGED vars
  BY <1>1 DEF vars, store, counters, TypeInv, DeploymentTypeOK, InMigration
<1>2. CASE Next
  BY <1>2, TypeServe, TypeInspect, TypeBackUp, TypeOperate DEF Next
<1> QED
  BY <1>1, <1>2

LEMMA TypeAlways == Spec => []TypeInv
<1> QED
  BY TypeInit, TypeNext, PTL DEF Spec

(* Every variable keeps its type: in particular the migration in hand is   *)
(* never past the list, also when binaries are exchanged between starts.   *)
THEOREM DeploymentTypes == Spec => []DeploymentTypeOK
<1>1. TypeInv => DeploymentTypeOK
  BY DEF TypeInv
<1> QED
  BY <1>1, TypeAlways, PTL

-----------------------------------------------------------------------------
(* A published snapshot stays in place. *)

(* No backup replaces a published one, however many run at once. *)
THEOREM DestinationIsKept == Spec => DestinationKept
<1>1. [Next]_vars => [dest # 0 /\ dest' # 0 => dest' = dest]_vars
  <2> SUFFICES ASSUME Next, dest # 0 PROVE dest' = dest
    BY DEF vars
  <2> USE DEF store
  <2>1. Serve \/ StartFails \/ Inspect \/ Operate \/ Damage => dest' = dest
    BY DEF Serve, Start, CreateRegistry, RejectUnknown, FirstCheck, Begin, Execute, Record, Commit,
           AllApplied, FinalCheck, StartFails, Inspect, DoctorBegins, CheckIntegrity, CheckRegistry,
           ReadVersions, LookUpTable, VerifyNext, DoctorFails, DoctorEnds, Operate, Stop, Install,
           Restore, ClearTemporary, Damage
  <2>2. ASSUME NEW c \in Commands, BackUp(c) PROVE dest' = dest
    BY <2>2 DEF BackUp, StatDestination, StatTemporary, Vacuum, VacuumRefused, Written, Verify, Link,
                Published, Remove, BackupFails, BackupDies
  <2> QED
    BY <2>1, <2>2 DEF Next
<1> QED
  BY <1>1, PTL DEF Spec, DestinationKept

-----------------------------------------------------------------------------
(* What a migration does to a database. *)

HasSum(d, v) == \E row \in d.sums : row[1] = v

(* MigratedInOrder and ChecksumsKept, of any database. *)
Good(d) ==
  /\ d \in Database
  /\ d.applied = 1 .. Len(d.ran)
  /\ \A i \in 1 .. Len(d.ran) : d.ran[i][1] = i
  /\ \A v \in Nat : HasSum(d, v) <=> (ChecksumVersion \in d.applied /\ v \in d.applied)
  /\ \A r1, r2 \in d.sums : r1[1] = r2[1] => r1 = r2
  /\ \A i \in 1 .. Len(d.ran) :
       i >= ChecksumVersion => \A row \in d.sums : row[1] = i => row = d.ran[i]

Migrated(b, v, d) == Recorded(b, v, Executed(b, v, d))

LEMMA GoodTable ==
  ASSUME NEW d, Good(d)
  PROVE  /\ HasTable(d) <=> ChecksumVersion \in d.applied
         /\ Len(d.ran) \in Nat
         /\ d.applied \subseteq Nat \ {0}
<1>1. DOMAIN d.ran = 1 .. Len(d.ran) /\ Len(d.ran) \in Nat
  BY LenProperties DEF Good, Database
<1> QED
  BY <1>1 DEF Good, HasTable

LEMMA EarlierIsGood ==
  ASSUME NEW n \in 0 .. ChecksumVersion - 1
  PROVE  Good(Earlier(n))
<1>1. n \in Nat /\ Earlier(n) \in Database /\ n < ChecksumVersion
  BY EarlierType, BinariesAssumption
<1>2. /\ Earlier(n).applied = 1 .. n /\ Earlier(n).sums = {}
      /\ Earlier(n).ran = [i \in 1 .. n |-> <<i, "original">>]
  BY DEF Earlier
<1>3. Earlier(n).ran \in Seq(Nat \X Texts) /\ DOMAIN Earlier(n).ran = 1 .. n
  BY <1>1, <1>2 DEF Database
<1>4. Len(Earlier(n).ran) = n
  BY <1>1, <1>3, LenProperties
<1> QED
  BY <1>1, <1>2, <1>4, BinariesAssumption DEF Good, HasSum

(* The next migration of a good database leaves a good one, which has the  *)
(* checksum of the migration if the table is there; and once the table is  *)
(* there no other row changes.                                             *)
LEMMA MigratedIsGood ==
  ASSUME NEW b \in Binaries, NEW d, Good(d), NEW v \in Known(b), v = Len(d.ran) + 1
  PROVE  LET e == Migrated(b, v, d)
         IN /\ Good(e)
            /\ e.applied = d.applied \union {v}
            /\ e.sound = d.sound /\ e.registry = d.registry
            /\ d.sums \subseteq e.sums
            /\ ChecksumVersion \in e.applied => <<v, Text(b, v)>> \in e.sums
            /\ ChecksumVersion \in d.applied => e.sums = d.sums \union {<<v, Text(b, v)>>}
<1> DEFINE x == Executed(b, v, d)
           e == Migrated(b, v, d)
           row0 == <<v, Text(b, v)>>
           with == WithVersion(x, v)
<1>1. d \in Database /\ Len(d.ran) \in Nat /\ v \in Nat \ {0} /\ ChecksumVersion \in Nat \ {0}
  BY GoodTable, BinariesAssumption DEF Good
<1>2. /\ x \in Database /\ x.ran = Append(d.ran, row0) /\ x.applied = d.applied
      /\ x.sums = d.sums /\ x.sound = d.sound /\ x.registry = d.registry
  BY <1>1, ExecutedType
<1> HIDE DEF x
<1>3. /\ row0 \in Nat \X Texts /\ row0[1] = v
  BY <1>1, TextType
<1>4. /\ Len(x.ran) = v
      /\ \A i \in 1 .. Len(d.ran) : x.ran[i] = d.ran[i]
      /\ x.ran[v] = row0
      /\ DOMAIN x.ran = 1 .. v
  <2>1. d.ran \in Seq(Nat \X Texts)
    BY <1>1 DEF Database
  <2>2. Append(d.ran, row0) \in Seq(Nat \X Texts)
    BY <1>3, <2>1, AppendProperties
  <2>3. /\ Len(Append(d.ran, row0)) = Len(d.ran) + 1
        /\ \A i \in 1 .. Len(d.ran) : Append(d.ran, row0)[i] = d.ran[i]
        /\ Append(d.ran, row0)[Len(d.ran) + 1] = row0
    BY <1>3, <2>1, AppendProperties
  <2>4. DOMAIN x.ran = 1 .. Len(x.ran)
    BY <1>2, <2>2, LenProperties
  <2> HIDE DEF row0
  <2> QED
    BY <1>1, <1>2, <2>3, <2>4
<1>5. \A i \in 1 .. v : x.ran[i][1] = i
  <2> SUFFICES ASSUME NEW i \in 1 .. v PROVE x.ran[i][1] = i
    OBVIOUS
  <2>1. CASE i = v
    BY <1>3, <1>4, <2>1
  <2>2. CASE i # v
    <3>1. i \in 1 .. Len(d.ran)
      BY <1>1, <2>2
    <3> QED
      BY <1>4, <3>1 DEF Good
  <2> QED
    BY <2>1, <2>2
<1>6. HasTable(x) <=> ChecksumVersion \in 1 .. v
  <2>1. HasTable(x) <=> \E i \in 1 .. v : i = ChecksumVersion
    BY <1>4, <1>5 DEF HasTable
  <2> QED
    BY <2>1
<1>7. d.applied \union {v} = 1 .. v
  BY <1>1 DEF Good
<1>8. /\ e \in Database /\ e.ran = x.ran /\ e.applied = 1 .. v
      /\ e.sound = d.sound /\ e.registry = d.registry
      /\ e.sums = IF HasTable(x) THEN d.sums \union NewSums(b, v, with) ELSE d.sums
  <2>1. e = Recorded(b, v, x)
    BY DEF Migrated, x
  <2>2. x \in Database
    BY <1>2
  <2> HIDE DEF e
  <2>3. /\ Recorded(b, v, x) \in Database
        /\ Recorded(b, v, x).ran = x.ran
        /\ Recorded(b, v, x).applied = x.applied \union {v}
        /\ Recorded(b, v, x).sound = x.sound
        /\ Recorded(b, v, x).registry = x.registry
        /\ Recorded(b, v, x).sums = IF HasTable(x) THEN x.sums \union NewSums(b, v, with) ELSE x.sums
    BY <2>2, RecordedType, ZenonT(30)
  <2> HIDE DEF with
  <2> QED
    BY <1>2, <1>7, <2>1, <2>3
<1>9. with.applied = 1 .. v /\ with.sums = d.sums
  BY <1>2, <1>7 DEF Database, WithVersion
<1>10. 1 .. v \subseteq Known(b)
  BY <1>1, LatestType DEF Known
<1>11. \A row : row \in NewSums(b, v, with) <=>
         \E w \in 1 .. v : row = <<w, Text(b, w)>> /\ ~HasSum(d, w)
  BY <1>9, <1>10 DEF NewSums, HasSum
<1> HIDE DEF e, with
<1>12. CASE ChecksumVersion \in d.applied
  <2>1. \A w \in 1 .. v : ~HasSum(d, w) <=> w = v
    BY <1>1, <1>12 DEF Good
  <2>2. NewSums(b, v, with) = {row0}
    BY <1>1, <1>11, <2>1
  <2>3. e.sums = d.sums \union {row0}
    BY <1>1, <1>6, <1>8, <1>12, <2>2 DEF Good
  <2>4. \A w \in Nat : HasSum(e, w) <=> (HasSum(d, w) \/ w = v)
    BY <1>3, <2>3 DEF HasSum
  <2>5. \A row \in d.sums : row[1] # v
    BY <1>1, <2>1 DEF HasSum
  <2>6. \A w \in Nat : HasSum(e, w) <=> (ChecksumVersion \in e.applied /\ w \in e.applied)
    BY <1>1, <1>7, <1>8, <1>12, <2>4 DEF Good
  <2>7. \A r1, r2 \in e.sums : r1[1] = r2[1] => r1 = r2
    BY <1>3, <2>3, <2>5 DEF Good
  <2>8. \A i \in 1 .. v : i >= ChecksumVersion => \A row \in e.sums : row[1] = i => row = e.ran[i]
    <3> TAKE i \in 1 .. v
    <3> SUFFICES ASSUME i >= ChecksumVersion, NEW row \in e.sums, row[1] = i
                 PROVE  row = x.ran[i]
      BY <1>8
    <3>1. CASE row = row0
      BY <1>3, <1>4, <3>1
    <3>2. CASE row # row0
      <4>1. row \in d.sums /\ i # v
        BY <2>3, <2>5, <3>2
      <4>2. i \in 1 .. Len(d.ran) /\ x.ran[i] = d.ran[i]
        BY <1>1, <1>4, <4>1
      <4> QED
        BY <4>1, <4>2 DEF Good
    <3> QED
      BY <3>1, <3>2
  <2>9. Good(e)
    BY <1>4, <1>5, <1>8, <2>6, <2>7, <2>8 DEF Good
  <2> QED
    BY <1>7, <1>8, <2>3, <2>9 DEF e
<1>13. CASE ChecksumVersion = v
  <2>1. d.sums = {} /\ \A w \in Nat : ~HasSum(d, w)
    <3>1. \A w \in Nat : ~HasSum(d, w)
      BY <1>1, <1>13 DEF Good
    <3>2. \A row \in d.sums : row[1] \in Nat
      BY <1>1 DEF Database
    <3> QED
      BY <3>1, <3>2 DEF HasSum
  <2>2. e.sums = NewSums(b, v, with)
    BY <1>1, <1>6, <1>8, <1>13, <2>1
  <2>3. \A row : row \in e.sums <=> \E w \in 1 .. v : row = <<w, Text(b, w)>>
    BY <1>1, <1>11, <2>1, <2>2
  <2>4. \A w \in Nat : HasSum(e, w) <=> w \in 1 .. v
    <3> TAKE w \in Nat
    <3>1. ASSUME w \in 1 .. v PROVE HasSum(e, w)
      <4>1. <<w, Text(b, w)>> \in e.sums
        BY <2>3, <3>1
      <4> QED
        BY <4>1 DEF HasSum
    <3>2. ASSUME HasSum(e, w) PROVE w \in 1 .. v
      <4>1. PICK row \in e.sums : row[1] = w
        BY <3>2 DEF HasSum
      <4> QED
        BY <2>3, <4>1
    <3> QED
      BY <3>1, <3>2
  <2>5. \A w \in Nat : HasSum(e, w) <=> (ChecksumVersion \in e.applied /\ w \in e.applied)
    BY <1>1, <1>8, <1>13, <2>4
  <2>6. \A r1, r2 \in e.sums : r1[1] = r2[1] => r1 = r2
    BY <2>3
  <2>7. \A i \in 1 .. v : i >= ChecksumVersion => \A row \in e.sums : row[1] = i => row = e.ran[i]
    BY <1>1, <1>3, <1>4, <1>8, <1>13, <2>3
  <2>8. Good(e)
    BY <1>4, <1>5, <1>8, <2>5, <2>6, <2>7 DEF Good
  <2>9. row0 \in e.sums
    BY <1>1, <2>3
  <2> QED
    BY <1>1, <1>7, <1>8, <1>13, <2>1, <2>8, <2>9 DEF e, Good
<1>14. CASE ChecksumVersion \notin 1 .. v
  <2>1. e.sums = d.sums
    BY <1>6, <1>8, <1>14
  <2>2. ChecksumVersion \notin d.applied
    BY <1>7, <1>14
  <2>3. \A w \in Nat : ~HasSum(d, w)
    BY <2>2 DEF Good
  <2>4. d.sums = {}
    BY <1>1, <2>3 DEF HasSum, Database
  <2>5. \A w \in Nat : ~HasSum(e, w)
    BY <2>1, <2>4 DEF HasSum
  <2>6. Good(e)
    BY <1>4, <1>5, <1>8, <1>14, <2>1, <2>4, <2>5 DEF Good
  <2> QED
    BY <1>7, <1>8, <1>14, <2>1, <2>2, <2>6 DEF e
<1> QED
  BY <1>1, <1>7, <1>12, <1>13, <1>14

-----------------------------------------------------------------------------
(* The database at each stage of the service, and every snapshot, is good. *)

(* The open transaction is the database with the next migration half done. *)
TxInv ==
  /\ server.pc = "execute" => tx = db
  /\ server.pc = "record" => tx = Executed(installed, server.v, db)
  /\ server.pc = "commit" => tx = Migrated(installed, server.v, db)
  /\ InMigration => server.v = Len(db.ran) + 1

(* What the service has made sure of so far. *)
ServerInv ==
  /\ server.pc \notin {"down", "registry"} => db.registry
  /\ server.pc \in {"registry", "unknown", "first_check"} => server.v = 1
  /\ server.pc = "apply" => \A w \in 1 .. server.v - 1 : w \in db.applied
  /\ server.pc \notin {"down", "registry", "unknown"} => AllKnown(installed, db)
  /\ server.pc \in {"final_check", "serving"} => Known(installed) \subseteq db.applied
  /\ server.pc = "serving" => Verified(installed, db)

SnapshotsGood == \A i \in 1 .. Len(files) : Good(files[i].db)

HistoryInv == TypeInv /\ Good(db) /\ SnapshotsGood /\ TxInv /\ ServerInv

LEMMA HistoryInit == Init => HistoryInv
<1> SUFFICES ASSUME Init PROVE HistoryInv
  OBVIOUS
<1>1. Good(db)
  BY EarlierIsGood DEF Init
<1>2. Len(files) = 0
  BY EmptySeq DEF Init
<1>3. server.pc = "down"
  BY DEF Init, Down
<1> QED
  BY <1>1, <1>2, <1>3, TypeInit DEF HistoryInv, SnapshotsGood, TxInv, ServerInv, InMigration

(* A committed migration: the version is the next, and known. *)
LEMMA CommitIsGood ==
  ASSUME HistoryInv, Commit
  PROVE  /\ db' = Migrated(installed, server.v, db)
         /\ server.v \in Known(installed)
         /\ server.v = Len(db.ran) + 1
         /\ Good(db')
         /\ db'.applied = db.applied \union {server.v}
         /\ db'.sound = db.sound /\ db'.registry = db.registry
         /\ db.sums \subseteq db'.sums
         /\ ChecksumVersion \in db'.applied
              => <<server.v, Text(installed, server.v)>> \in db'.sums
         /\ ChecksumVersion \in db.applied
              => db'.sums = db.sums \union {<<server.v, Text(installed, server.v)>>}
<1>1. server.pc = "commit" /\ db' = tx
  BY DEF Commit
<1>2. /\ db' = Migrated(installed, server.v, db)
      /\ server.v \in Known(installed) /\ server.v = Len(db.ran) + 1
      /\ installed \in Binaries /\ Good(db)
  BY <1>1 DEF HistoryInv, TypeInv, DeploymentTypeOK, InMigration, TxInv
<1>3. LET e == Migrated(installed, server.v, db)
      IN /\ Good(e)
         /\ e.applied = db.applied \union {server.v}
         /\ e.sound = db.sound /\ e.registry = db.registry
         /\ db.sums \subseteq e.sums
         /\ ChecksumVersion \in e.applied => <<server.v, Text(installed, server.v)>> \in e.sums
         /\ ChecksumVersion \in db.applied
              => e.sums = db.sums \union {<<server.v, Text(installed, server.v)>>}
  BY <1>2, MigratedIsGood
<1> QED
  BY <1>2, <1>3

LEMMA HistoryServe ==
  ASSUME HistoryInv, Serve \/ StartFails
  PROVE  HistoryInv'
<1>1. TypeInv' /\ TypeInv
  BY TypeServe DEF HistoryInv
<1>2. /\ installed \in Binaries /\ db \in Database /\ Good(db) /\ Latest[installed] \in Nat
      /\ server \in [pc : Stages, v : 1 .. Latest[installed] + 1]
  BY LatestType DEF HistoryInv, TypeInv, DeploymentTypeOK
<1>3. UNCHANGED <<installed, store>> /\ SnapshotsGood'
  BY DEF Serve, Start, CreateRegistry, RejectUnknown, FirstCheck, Begin, Execute, Record, Commit,
         AllApplied, FinalCheck, StartFails, HistoryInv, SnapshotsGood, store
<1> SUFFICES Good(db)' /\ TxInv' /\ ServerInv'
  BY <1>1, <1>3 DEF HistoryInv
<1>4. Exits /\ db' = db => Good(db)' /\ TxInv' /\ ServerInv'
  BY <1>2 DEF Exits, Down, TxInv, ServerInv, InMigration, Good
<1>5. CASE Start
  BY <1>1, <1>2, <1>5 DEF Start, Goes, HistoryInv, TypeInv, TxInv, ServerInv, InMigration, Good
<1>6. CASE CreateRegistry
  <2>1. /\ db'.applied = db.applied /\ db'.ran = db.ran /\ db'.sums = db.sums /\ db'.registry
        /\ db' \in Database
    BY <1>2, <1>6 DEF CreateRegistry, Database
  <2>2. Good(db')
    BY <1>2, <2>1 DEF Good, HasSum
  <2>3. server'.pc = "unknown" /\ server'.v = 1
    BY <1>2, <1>6 DEF CreateRegistry, Goes, HistoryInv, ServerInv
  <2> QED
    BY <2>1, <2>2, <2>3 DEF TxInv, ServerInv, InMigration, Good
<1>7. CASE RejectUnknown
  <2>1. CASE AllKnown(installed, db)
    BY <1>2, <1>7, <2>1 DEF RejectUnknown, Goes, HistoryInv, TxInv, ServerInv, InMigration, Good, AllKnown
  <2>2. CASE ~AllKnown(installed, db)
    BY <1>4, <1>7, <2>2 DEF RejectUnknown
  <2> QED
    BY <2>1, <2>2
<1>8. CASE FirstCheck
  <2>1. CASE Accepted(installed, db)
    <3>1. server'.pc = "apply" /\ server'.v = server.v /\ UNCHANGED <<installed, db, tx>>
      BY <1>2, <1>8, <2>1 DEF FirstCheck, Goes
    <3>2. server.v = 1
      BY <1>8 DEF FirstCheck, HistoryInv, ServerInv
    <3>3. Good(db)'
      BY <1>2, <3>1 DEF Good
    <3>4. TxInv'
      BY <3>1 DEF TxInv, InMigration
    <3> QED
      BY <1>2, <1>8, <3>1, <3>2, <3>3, <3>4 DEF FirstCheck, HistoryInv, ServerInv, AllKnown
  <2>2. CASE ~Accepted(installed, db)
    BY <1>4, <1>8, <2>2 DEF FirstCheck
  <2> QED
    BY <2>1, <2>2
<1>9. CASE Begin
  <2>1. UNCHANGED <<installed, db>> /\ server.pc = "apply"
    BY <1>9 DEF Begin
  <2>2. CASE server.v \in db.applied
    BY <1>2, <1>9, <2>1, <2>2 DEF Begin, HistoryInv, TxInv, ServerInv, InMigration, Good, AllKnown
  <2>3. CASE server.v \notin db.applied
    <3>1. server.v = Len(db.ran) + 1
      <4>1. db.applied = 1 .. Len(db.ran) /\ Len(db.ran) \in Nat
        BY <1>2, GoodTable DEF Good
      <4>2. \A w \in 1 .. server.v - 1 : w \in db.applied
        BY <2>1 DEF HistoryInv, ServerInv
      <4>3. server.v \in Nat \ {0}
        BY <1>2
      <4>4. server.v # 1 => server.v - 1 \in db.applied
        BY <4>2, <4>3
      <4> QED
        BY <2>3, <4>1, <4>3, <4>4
    <3>2. server'.pc = "execute" /\ server'.v = server.v /\ tx' = db
      BY <1>2, <1>9, <2>3 DEF Begin, Goes
    <3> QED
      BY <1>2, <2>1, <3>1, <3>2 DEF HistoryInv, TxInv, ServerInv, InMigration, Good, AllKnown
  <2> QED
    BY <2>2, <2>3
<1>10. CASE Execute
  <2>1. server'.pc = "record" /\ server'.v = server.v /\ UNCHANGED <<installed, db>>
          /\ server.pc = "execute" /\ tx' = Executed(installed, server.v, tx)
    BY <1>2, <1>10 DEF Execute, Goes
  <2> QED
    BY <1>2, <2>1 DEF HistoryInv, TxInv, ServerInv, InMigration, Good, AllKnown
<1>11. CASE Record
  <2>1. server'.pc = "commit" /\ server'.v = server.v /\ UNCHANGED <<installed, db>>
          /\ server.pc = "record" /\ tx' = Recorded(installed, server.v, tx)
    BY <1>2, <1>11 DEF Record, Goes
  <2> QED
    BY <1>2, <2>1 DEF HistoryInv, TxInv, ServerInv, InMigration, Good, AllKnown, Migrated
<1>12. CASE Commit
  <2>1. server'.pc = "apply" /\ server'.v = server.v + 1 /\ UNCHANGED installed /\ server.pc = "commit"
    BY <1>2, <1>12 DEF Commit
  <2>2. /\ Good(db') /\ db'.applied = db.applied \union {server.v} /\ db'.registry = db.registry
        /\ server.v \in Known(installed) /\ server.v = Len(db.ran) + 1
    BY <1>12, CommitIsGood
  <2>3. db.applied = 1 .. Len(db.ran) /\ Len(db.ran) \in Nat
    BY <1>2, GoodTable DEF Good
  <2>4. \A w \in 1 .. server'.v - 1 : w \in db'.applied
    BY <2>1, <2>2, <2>3
  <2> QED
    BY <2>1, <2>2, <2>4 DEF HistoryInv, TxInv, ServerInv, InMigration, Good, AllKnown
<1>13. CASE AllApplied
  <2>1. server'.pc = "final_check" /\ UNCHANGED <<installed, db>> /\ server.pc = "apply"
          /\ server.v \notin Known(installed)
    BY <1>2, <1>13 DEF AllApplied, Goes
  <2>2. server.v - 1 = Latest[installed]
    BY <1>2, <2>1 DEF Known
  <2> QED
    BY <1>2, <2>1, <2>2 DEF HistoryInv, TxInv, ServerInv, InMigration, Good, AllKnown, Known
<1>14. CASE FinalCheck
  <2>1. CASE Verified(installed, db)
    BY <1>2, <1>14, <2>1 DEF FinalCheck, Goes, HistoryInv, TxInv, ServerInv, InMigration, Good, AllKnown, Verified
  <2>2. CASE ~Verified(installed, db)
    BY <1>4, <1>14, <2>2 DEF FinalCheck
  <2> QED
    BY <2>1, <2>2
<1>15. CASE StartFails
  BY <1>4, <1>15 DEF StartFails, RolledBack
<1> QED
  BY <1>5, <1>6, <1>7, <1>8, <1>9, <1>10, <1>11, <1>12, <1>13, <1>14, <1>15 DEF Serve

LEMMA HistoryInspect ==
  ASSUME HistoryInv, Inspect
  PROVE  HistoryInv'
<1>1. UNCHANGED <<installed, db, tx, server, store>>
  BY DEF Inspect, DoctorBegins, CheckIntegrity, CheckRegistry, ReadVersions, LookUpTable,
         VerifyNext, DoctorFails, DoctorEnds
<1>2. TypeInv'
  BY TypeInspect DEF HistoryInv
<1>3. Good(db)' /\ SnapshotsGood'
  <2>1. Good(db)'
    BY <1>1 DEF HistoryInv, Good
  <2>2. files' = files
    BY <1>1 DEF store
  <2>3. SnapshotsGood
    BY DEF HistoryInv
  <2>4. SnapshotsGood'
    BY <2>2, <2>3 DEF SnapshotsGood
  <2> QED
    BY <2>1, <2>4
<1>4. TxInv' /\ ServerInv'
  BY <1>1 DEF HistoryInv, TxInv, ServerInv, InMigration, AllKnown, Verified
<1> QED
  BY <1>2, <1>3, <1>4 DEF HistoryInv

(* A backup adds the database as it is, and completes what was added. *)
LEMMA FilesOfBackUp ==
  ASSUME TypeInv, NEW c \in Commands, BackUp(c)
  PROVE  /\ UNCHANGED <<installed, db, tx, server>>
         /\ \/ files' = files
            \/ Vacuum(c) /\ files' = Append(files, [db |-> db, whole |-> FALSE])
            \/ Written(c) /\ backup[c].ino \in 1 .. Len(files)
                 /\ files' = [files EXCEPT ![backup[c].ino].whole = TRUE]
<1>1. UNCHANGED <<installed, db, tx, server>>
  BY DEF BackUp, StatDestination, StatTemporary, Vacuum, VacuumRefused, Written, Verify, Link,
         Remove, BackupFails, BackupDies, NotOfBackup
<1>2. files \in Seq(File) /\ backup[c].ino \in 0 .. Len(files)
  BY DEF TypeInv, DeploymentTypeOK, File
<1>3. CASE Vacuum(c)
  BY <1>1, <1>3 DEF Vacuum
<1>4. CASE Written(c)
  <2>1. CASE backup[c].ino = 0
    <3>1. 0 \notin DOMAIN files
      BY <1>2, LenProperties
    <3>2. files' = files
      BY <1>2, <1>4, <2>1, <3>1, LenProperties DEF Written
    <3> QED
      BY <1>1, <3>2
  <2>2. CASE backup[c].ino # 0
    BY <1>1, <1>2, <1>4, <2>2, LenType DEF Written
  <2> QED
    BY <2>1, <2>2
<1>5. CASE ~Vacuum(c) /\ ~Written(c)
  BY <1>1, <1>5 DEF BackUp, StatDestination, StatTemporary, VacuumRefused, Verify, Link,
         Remove, BackupFails, BackupDies
<1> QED
  BY <1>3, <1>4, <1>5

(* The files that were there keep what they hold. *)
LEMMA FilesGrow ==
  ASSUME TypeInv, NEW c \in Commands, BackUp(c)
  PROVE  /\ Len(files') \in Nat /\ Len(files) \in Nat /\ Len(files) <= Len(files')
         /\ \A i \in 1 .. Len(files) :
              files'[i].db = files[i].db /\ (files[i].whole => files'[i].whole)
         /\ \A i \in 1 .. Len(files') : i > Len(files) => files'[i].db = db
<1>1. files \in Seq(File) /\ Len(files) \in Nat /\ db \in Database
  BY LenType DEF TypeInv, DeploymentTypeOK, File
<1>2. CASE files' = files
  BY <1>1, <1>2
<1>3. CASE files' = Append(files, [db |-> db, whole |-> FALSE])
  <2> DEFINE file == [db |-> db, whole |-> FALSE]
  <2>1. file \in File /\ file.db = db
    BY <1>1 DEF File
  <2> HIDE DEF file
  <2>2. files' = Append(files, file)
    BY <1>3 DEF file
  <2>3. /\ Len(files') = Len(files) + 1
        /\ \A i \in 1 .. Len(files) : files'[i] = files[i]
        /\ files'[Len(files) + 1] = file
    BY <1>1, <2>1, <2>2, AppendProperties
  <2>4. \A i \in 1 .. Len(files') : i > Len(files) => i = Len(files) + 1
    BY <1>1, <2>3
  <2>5. \A i \in 1 .. Len(files') : i > Len(files) => files'[i].db = db
    BY <2>1, <2>3, <2>4
  <2> QED
    BY <1>1, <2>3, <2>5
<1>4. CASE backup[c].ino \in 1 .. Len(files) /\ files' = [files EXCEPT ![backup[c].ino].whole = TRUE]
  <2>1. /\ Len(files') = Len(files)
        /\ \A j \in 1 .. Len(files) :
             /\ files'[j].db = files[j].db
             /\ files'[j].whole = (files[j].whole \/ j = backup[c].ino)
    BY <1>1, <1>4, WrittenType
  <2>2. \A j \in 1 .. Len(files) : files[j].whole => files'[j].whole
    <3> SUFFICES ASSUME NEW j \in 1 .. Len(files), files[j].whole PROVE files'[j].whole
      OBVIOUS
    <3>1. (files[j].whole \/ j = backup[c].ino) = TRUE
      OBVIOUS
    <3>2. files'[j].whole = (files[j].whole \/ j = backup[c].ino)
      BY <2>1
    <3> QED
      BY <3>1, <3>2
  <2>3. \A j \in 1 .. Len(files) : files'[j].db = files[j].db
    BY <2>1
  <2>4. Len(files') = Len(files)
    BY <2>1
  <2> QED
    BY <1>1, <2>2, <2>3, <2>4
<1> QED
  BY <1>2, <1>3, <1>4, FilesOfBackUp

LEMMA HistoryBackUp ==
  ASSUME HistoryInv, NEW c \in Commands, BackUp(c)
  PROVE  HistoryInv'
<1>1. TypeInv /\ TypeInv'
  BY TypeBackUp DEF HistoryInv
<1>2. UNCHANGED <<installed, db, tx, server>>
  BY <1>1, FilesOfBackUp
<1>3. SnapshotsGood'
  BY <1>1, FilesGrow DEF HistoryInv, SnapshotsGood
<1> QED
  BY <1>1, <1>2, <1>3 DEF HistoryInv, TxInv, ServerInv, InMigration, Good, AllKnown, Verified

LEMMA HistoryOperate ==
  ASSUME HistoryInv, Operate \/ Damage
  PROVE  HistoryInv'
<1>1. TypeInv' /\ TypeInv
  BY TypeOperate DEF HistoryInv
<1>2. files' = files
  BY DEF Operate, Stop, Install, Restore, ClearTemporary, Damage, store
<1>3. SnapshotsGood'
  BY <1>2 DEF HistoryInv, SnapshotsGood
<1> SUFFICES Good(db)' /\ TxInv' /\ ServerInv'
  BY <1>1, <1>3 DEF HistoryInv
<1>4. server'.pc = "down" => TxInv' /\ ServerInv'
  BY DEF TxInv, ServerInv, InMigration
<1>5. CASE Stop
  BY <1>4, <1>5 DEF Stop, Exits, Down, RolledBack, HistoryInv, Good
<1>6. ASSUME NEW b \in Binaries, Install(b) PROVE Good(db)' /\ TxInv' /\ ServerInv'
  BY <1>4, <1>6 DEF Install, HistoryInv, Good
<1>7. CASE Restore
  <2>1. dest \in 1 .. Len(files)
    BY <1>1, <1>7, LenType DEF Restore, TypeInv, DeploymentTypeOK, File
  <2>2. Good(files[dest].db)
    BY <2>1 DEF HistoryInv, SnapshotsGood
  <2> QED
    BY <1>4, <1>7, <2>2 DEF Restore
<1>8. CASE ClearTemporary
  BY <1>8 DEF ClearTemporary, HistoryInv, TxInv, ServerInv, InMigration, Good, AllKnown, Verified
<1>9. CASE Damage
  <2>1. /\ db \in Database /\ db' = [db EXCEPT !.sound = FALSE] /\ tx = NoTx
        /\ UNCHANGED <<installed, tx, server>>
    BY <1>1, <1>9 DEF Damage, TypeInv, DeploymentTypeOK
  <2>2. /\ db' \in Database /\ db'.applied = db.applied /\ db'.ran = db.ran
        /\ db'.sums = db.sums /\ db'.registry = db.registry
    BY <2>1 DEF Database
  <2>3. Good(db')
    BY <2>2 DEF HistoryInv, Good, HasSum
  <2>4. ~InMigration
    <3>1. NoTx.registry = FALSE
      <4>1. Earlier(0).registry = (0 > 0)
        BY DEF Earlier
      <4>2. (0 > 0) = FALSE
        OBVIOUS
      <4> QED
        BY <4>1, <4>2 DEF NoTx
    <3>2. InMigration => db.registry
      BY DEF HistoryInv, ServerInv, InMigration
    <3>3. InMigration => tx.registry = db.registry
      <4>1. InMigration => server.v \in Known(installed) /\ installed \in Binaries
        BY <1>1 DEF TypeInv, DeploymentTypeOK
      <4>2. InMigration => Executed(installed, server.v, db).registry = db.registry
                             /\ Executed(installed, server.v, db) \in Database
        BY <2>1, <4>1, ExecutedType
      <4>3. InMigration => Migrated(installed, server.v, db).registry = db.registry
        BY <4>1, <4>2, RecordedType DEF Migrated
      <4> QED
        BY <4>2, <4>3 DEF HistoryInv, TxInv, InMigration
    <3> QED
      BY <2>1, <3>1, <3>2, <3>3
  <2> QED
    BY <2>1, <2>2, <2>3, <2>4 DEF HistoryInv, TxInv, ServerInv, InMigration, AllKnown, Verified
<1> QED
  BY <1>5, <1>6, <1>7, <1>8, <1>9 DEF Operate

LEMMA HistoryNext == HistoryInv /\ [Next]_vars => HistoryInv'
<1> SUFFICES ASSUME HistoryInv, [Next]_vars PROVE HistoryInv'
  OBVIOUS
<1>1. CASE UNCHANGED vars
  <2>1. TypeInv'
    BY <1>1, TypeNext DEF HistoryInv
  <2>2. Good(db)'
    BY <1>1 DEF vars, HistoryInv, Good
  <2>3. SnapshotsGood'
    BY <1>1 DEF vars, store, HistoryInv, SnapshotsGood
  <2>4. TxInv'
    BY <1>1 DEF vars, HistoryInv, TxInv, InMigration
  <2>5. ServerInv'
    BY <1>1 DEF vars, HistoryInv, ServerInv, AllKnown, Verified
  <2> QED
    BY <2>1, <2>2, <2>3, <2>4, <2>5 DEF HistoryInv
<1>2. CASE Next
  BY <1>2, HistoryServe, HistoryInspect, HistoryBackUp, HistoryOperate DEF Next
<1> QED
  BY <1>1, <1>2

LEMMA HistoryAlways == Spec => []HistoryInv
<1> QED
  BY HistoryInit, HistoryNext, PTL DEF Spec

(* Migrations run once each, in order, and are recorded with their rows,   *)
(* whatever fails or is killed, and whichever snapshot is restored.        *)
THEOREM MigrationsRunInOrder == Spec => []MigratedInOrder
<1>1. HistoryInv => MigratedInOrder
  <2> SUFFICES ASSUME HistoryInv PROVE MigratedInOrder
    OBVIOUS
  <2>1. DOMAIN db.ran = 1 .. Len(db.ran)
    BY LenProperties DEF HistoryInv, Good, Database
  <2> QED
    BY <2>1 DEF HistoryInv, Good, MigratedInOrder
<1> QED
  BY <1>1, HistoryAlways, PTL

(* Every applied version has one checksum, the right one from the          *)
(* migration on that creates the table.                                    *)
THEOREM ChecksumsAreKept == Spec => []ChecksumsKept
<1>1. HistoryInv => ChecksumsKept
  <2> SUFFICES ASSUME HistoryInv PROVE ChecksumsKept
    OBVIOUS
  <2>1. DOMAIN db.ran = 1 .. Len(db.ran) /\ Good(db)
    BY LenProperties DEF HistoryInv, Good, Database
  <2> DEFINE versions == {row[1] : row \in db.sums}
  <2>2. versions = IF ChecksumVersion \in db.applied THEN db.applied ELSE {}
    <3>1. db.sums \subseteq Nat \X Texts /\ db.applied \subseteq Nat
      BY <2>1 DEF Good, Database
    <3>2. versions \subseteq Nat
      BY <3>1
    <3>3. \A v : v \in versions <=> v \in Nat /\ HasSum(db, v)
      BY <3>2 DEF HasSum
    <3>4. \A v : v \in versions <=> ChecksumVersion \in db.applied /\ v \in db.applied
      BY <2>1, <3>1, <3>3 DEF Good
    <3> QED
      BY <3>4
  <2> QED
    BY <2>1, <2>2 DEF Good, ChecksumsKept
<1> QED
  BY <1>1, HistoryAlways, PTL

(* The workers run only on a database with exactly their binary's history. *)
THEOREM ServedDatabaseIsCurrent == Spec => []ServedIsCurrent
<1>1. HistoryInv => ServedIsCurrent
  <2> SUFFICES ASSUME HistoryInv, server.pc = "serving" PROVE ServedIsCurrent
    BY DEF ServedIsCurrent
  <2>1. /\ AllKnown(installed, db) /\ Known(installed) \subseteq db.applied
        /\ Verified(installed, db) /\ Good(db) /\ installed \in Binaries
    BY DEF HistoryInv, ServerInv, TypeInv, DeploymentTypeOK
  <2>2. db.applied = 1 .. Latest[installed]
    BY <2>1 DEF AllKnown, Known
  <2>3. DOMAIN db.ran = db.applied /\ db.applied = 1 .. Len(db.ran)
    BY <2>1, LenProperties DEF Good, Database
  <2>4. ASSUME NEW i \in DOMAIN db.ran, i >= ChecksumVersion
        PROVE  db.ran[i][2] = Text(installed, i)
    <3>1. <<i, Text(installed, i)>> \in db.sums
      BY <2>1, <2>2, <2>3 DEF Verified, Known
    <3>2. db.ran[i] = <<i, Text(installed, i)>>
      BY <2>1, <2>3, <2>4, <3>1 DEF Good
    <3> QED
      BY <3>2
  <2> QED
    BY <2>2, <2>4 DEF ServedIsCurrent
<1> QED
  BY <1>1, HistoryAlways, PTL

(* A start is refused only for a version or a checksum that really differs. *)
THEOREM RefusalsAreRight == Spec => RefusedRightly
<1>1. HistoryInv /\ [Next]_vars =>
        [server.pc # "down" /\ server'.pc = "down" /\ UNCHANGED counters => ~CanServe]_vars
  <2> SUFFICES ASSUME HistoryInv, Next, server.pc # "down", server'.pc = "down", UNCHANGED counters
               PROVE  ~CanServe
    BY DEF vars
  <2>1. /\ ops \in Nat /\ faults \in Nat /\ ops' = ops /\ faults' = faults /\ Good(db)
        /\ server \in [pc : Stages, v : 1 .. Latest[installed] + 1] /\ installed \in Binaries
    BY DEF HistoryInv, TypeInv, DeploymentTypeOK, counters
  <2>2. RejectUnknown \/ FirstCheck \/ FinalCheck
    <3>1. ~StartFails /\ ~Operate /\ ~Damage
      BY <2>1 DEF StartFails, Operate, Acts, Stop, Install, Restore, ClearTemporary, Damage
    <3>2. ~Inspect
      BY <2>1 DEF Inspect, DoctorBegins, CheckIntegrity, CheckRegistry, ReadVersions, LookUpTable,
                  VerifyNext, DoctorFails, DoctorEnds
    <3>3. \A c \in Commands : ~BackUp(c)
      BY <2>1, FilesOfBackUp DEF HistoryInv
    <3>4. ~Start /\ ~CreateRegistry /\ ~Begin /\ ~Execute /\ ~Record /\ ~Commit /\ ~AllApplied
      BY <2>1 DEF Start, CreateRegistry, Begin, Execute, Record, Commit, AllApplied, Goes
    <3> QED
      BY <3>1, <3>2, <3>3, <3>4 DEF Next, Serve
  <2>3. CASE RejectUnknown
    <3>1. ~AllKnown(installed, db)
      BY <2>1, <2>3 DEF RejectUnknown, Goes
    <3>2. PICK v \in db.applied : v \notin 1 .. Latest[installed]
      BY <3>1 DEF AllKnown, Known
    <3>3. v \in Nat \ {0} /\ Latest[installed] \in Nat
      BY <2>1, <3>2, GoodTable, LatestType
    <3> QED
      BY <3>2, <3>3 DEF CanServe
  <2>4. CASE FirstCheck \/ FinalCheck
    <3>1. ~Verified(installed, db) /\ ChecksumVersion \in db.applied
      <4>1. CASE FirstCheck
        BY <2>1, <4>1, GoodTable DEF FirstCheck, Goes, Accepted
      <4>2. CASE FinalCheck
        <5>1. ~Verified(installed, db) /\ server.pc = "final_check"
          BY <2>1, <4>2 DEF FinalCheck, Goes
        <5>2. ChecksumVersion \in Known(installed)
          BY <2>1, BinariesAssumption DEF Known
        <5> QED
          BY <5>1, <5>2 DEF HistoryInv, ServerInv
      <4> QED
        BY <2>4, <4>1, <4>2
    <3>2. PICK v \in db.applied : <<v, Text(installed, v)>> \notin db.sums
      BY <3>1 DEF Verified
    <3> QED
      BY <3>1, <3>2 DEF CanServe
  <2> QED
    BY <2>2, <2>3, <2>4
<1> QED
  BY <1>1, HistoryAlways, PTL DEF Spec, RefusedRightly

-----------------------------------------------------------------------------
(* Doctor beside a migration. *)

(* ReportIsRight, report by report. *)
RightReport ==
  /\ doctor.report = "ok" =>
       /\ db.applied = 1 .. Latest[installed]
       /\ \A v \in db.applied : <<v, Text(installed, v)>> \in db.sums
  /\ doctor.report = "unknown" => \E v \in db.applied : v > Latest[installed]
  /\ doctor.report = "checksums" =>
       /\ ChecksumVersion \in db.applied
       /\ \E v \in db.applied : <<v, Text(installed, v)>> \notin db.sums
  /\ doctor.report = "damaged" => ~db.sound

(* What doctor has read stays true while the service migrates. *)
DoctorInv ==
  /\ doctor.at # 0 => doctor.report = "none"
  /\ doctor.at \in 1 .. 4 => doctor.v = 1
  /\ doctor.at \in {4, 5} => doctor.seen \subseteq db.applied /\ AllKnown(installed, db)
  /\ doctor.at = 5 =>
       /\ ChecksumVersion \in doctor.seen => doctor.table
       /\ doctor.table => ChecksumVersion \in db.applied
       /\ \A w \in 1 .. doctor.v - 1 : w \in doctor.seen => <<w, Text(installed, w)>> \in db.sums
  /\ RightReport

LEMMA DoctorIdle == doctor = Idle => DoctorInv
BY DEF Idle, DoctorInv, RightReport

LEMMA DoctorOfServe ==
  ASSUME HistoryInv, DoctorInv, Serve \/ StartFails
  PROVE  DoctorInv'
<1>1. UNCHANGED <<installed, doctor>>
  BY DEF Serve, Start, CreateRegistry, RejectUnknown, FirstCheck, Begin, Execute, Record, Commit,
         AllApplied, FinalCheck, StartFails
<1>2. /\ installed \in Binaries /\ db \in Database /\ Latest[installed] \in Nat
      /\ db.applied = 1 .. Len(db.ran) /\ Len(db.ran) \in Nat
  BY LatestType, GoodTable DEF HistoryInv, TypeInv, DeploymentTypeOK, Good
<1>3. CASE Commit
  <2>1. /\ server.v \in Known(installed) /\ server.v = Len(db.ran) + 1
        /\ db'.applied = db.applied \union {server.v} /\ db'.sound = db.sound
        /\ db.sums \subseteq db'.sums
        /\ ChecksumVersion \in db.applied
              => db'.sums = db.sums \union {<<server.v, Text(installed, server.v)>>}
    BY <1>3, CommitIsGood
  <2>2. server.v \notin db.applied
    BY <1>2, <2>1
  <2>3. RightReport'
    <3>1. doctor.report # "ok"
      BY <1>2, <2>1, <2>2 DEF DoctorInv, RightReport, Known
    <3>2. doctor.report = "checksums" =>
            /\ ChecksumVersion \in db'.applied
            /\ \E v \in db'.applied : <<v, Text(installed, v)>> \notin db'.sums
      <4> SUFFICES ASSUME doctor.report = "checksums"
                   PROVE  /\ ChecksumVersion \in db'.applied
                          /\ \E v \in db'.applied : <<v, Text(installed, v)>> \notin db'.sums
        OBVIOUS
      <4>1. ChecksumVersion \in db.applied
        BY DEF DoctorInv, RightReport
      <4>2. PICK v \in db.applied : <<v, Text(installed, v)>> \notin db.sums
        BY DEF DoctorInv, RightReport
      <4>3. v # server.v
        BY <2>2
      <4>4. <<v, Text(installed, v)>> \notin db'.sums
        BY <2>1, <4>1, <4>2, <4>3
      <4> QED
        BY <2>1, <4>1, <4>4
    <3> QED
      BY <1>1, <2>1, <3>1, <3>2 DEF DoctorInv, RightReport
  <2> QED
    BY <1>1, <2>1, <2>3 DEF DoctorInv, AllKnown
<1>4. CASE ~Commit
  <2>1. db'.applied = db.applied /\ db'.sums = db.sums /\ db'.sound = db.sound
    BY <1>2, <1>4 DEF Serve, Start, CreateRegistry, RejectUnknown, FirstCheck, Begin, Execute, Record,
                      AllApplied, FinalCheck, StartFails, RolledBack, Database
  <2> QED
    BY <1>1, <2>1 DEF DoctorInv, RightReport, AllKnown
<1> QED
  BY <1>3, <1>4

LEMMA DoctorOfInspect ==
  ASSUME HistoryInv, DoctorInv, Inspect
  PROVE  DoctorInv'
<1>1. UNCHANGED <<installed, db>>
  BY DEF Inspect, DoctorBegins, CheckIntegrity, CheckRegistry, ReadVersions, LookUpTable,
         VerifyNext, DoctorFails, DoctorEnds
<1>2. /\ installed \in Binaries /\ Good(db) /\ Latest[installed] \in Nat
      /\ doctor \in [at : 0 .. 5, seen : SUBSET Nat, table : BOOLEAN,
                     v : 1 .. Latest[installed] + 1, report : Reports]
  BY LatestType DEF HistoryInv, TypeInv, DeploymentTypeOK
<1>3. \A r : Reported(r) =>
        /\ doctor'.at = 0 /\ doctor'.report = r
  BY DEF Reported, Idle
<1>4. Reported("none") \/ Reported("pending") \/ Reported("uninitialized") => DoctorInv'
  BY <1>3 DEF DoctorInv, RightReport
<1>5. DoctorSteps = <<"integrity", "registry", "versions", "table", "verify">>
        /\ DOMAIN DoctorSteps = 1 .. 5
  BY DEF DoctorSteps
<1>6. /\ DoctorAt("integrity") => doctor.at = 1
      /\ DoctorAt("registry") => doctor.at = 2
      /\ DoctorAt("versions") => doctor.at = 3
      /\ DoctorAt("table") => doctor.at = 4
      /\ DoctorAt("verify") => doctor.at = 5
  BY <1>5 DEF DoctorAt
<1>7. CASE DoctorBegins
  BY <1>7 DEF DoctorBegins, Idle, DoctorInv, RightReport
<1>8. CASE CheckIntegrity
  <2>1. CASE db.sound
    BY <1>1, <1>2, <1>6, <1>8, <2>1 DEF CheckIntegrity, Continues, DoctorInv, RightReport
  <2>2. CASE ~db.sound
    BY <1>1, <1>3, <1>8, <2>2 DEF CheckIntegrity, DoctorInv, RightReport
  <2> QED
    BY <2>1, <2>2
<1>9. CASE CheckRegistry
  BY <1>1, <1>2, <1>4, <1>6, <1>9 DEF CheckRegistry, Continues, DoctorInv, RightReport
<1>10. CASE ReadVersions
  <2>1. CASE AllKnown(installed, db)
    <3>1. /\ doctor.at = 3 /\ doctor'.at = 4 /\ doctor'.seen = db.applied
          /\ doctor'.report = doctor.report /\ doctor'.v = doctor.v
      <4> DEFINE D == [at : 0 .. 5, seen : SUBSET Nat, table : BOOLEAN,
                       v : 1 .. Latest[installed] + 1, report : Reports]
      <4>1. doctor.at = 3
        BY <1>6, <1>10 DEF ReadVersions
      <4>2. /\ Continues \in D /\ Continues.at = doctor.at + 1
            /\ Continues.report = doctor.report /\ Continues.v = doctor.v
        BY <1>2, <4>1 DEF Continues
      <4>3. doctor' = [Continues EXCEPT !.seen = db.applied]
        BY <1>10, <2>1 DEF ReadVersions
      <4> QED
        BY <4>1, <4>2, <4>3
    <3> QED
      BY <1>1, <2>1, <3>1 DEF DoctorInv, RightReport, AllKnown
  <2>2. CASE ~AllKnown(installed, db)
    <3>1. PICK v \in db.applied : v \notin 1 .. Latest[installed]
      BY <2>2 DEF AllKnown, Known
    <3>2. v \in Nat \ {0}
      BY <1>2, GoodTable
    <3>3. v > Latest[installed]
      BY <1>2, <3>1, <3>2
    <3> QED
      BY <1>1, <1>3, <1>10, <2>2, <3>3 DEF ReadVersions, DoctorInv, RightReport
  <2> QED
    BY <2>1, <2>2
<1>11. CASE LookUpTable
  <2>1. HasTable(db) <=> ChecksumVersion \in db.applied
    BY <1>2, GoodTable
  <2>2. /\ doctor.at = 4 /\ doctor'.at = 5 /\ doctor'.v = doctor.v /\ doctor'.seen = doctor.seen
        /\ doctor'.report = doctor.report /\ doctor'.table = HasTable(db)
    BY <1>2, <1>6, <1>11 DEF LookUpTable, Continues
  <2> QED
    BY <1>1, <2>1, <2>2 DEF DoctorInv, RightReport, AllKnown
<1>12. CASE VerifyNext
  <2>1. doctor.at = 5 /\ doctor.report = "none"
    BY <1>6, <1>12 DEF VerifyNext, DoctorInv
  <2>2. CASE ~doctor.table
    <3>1. ChecksumVersion \notin doctor.seen /\ ChecksumVersion \in Known(installed)
      BY <1>2, <2>1, <2>2, BinariesAssumption DEF DoctorInv, Known
    <3>2. Reported("pending")
      BY <1>12, <2>2, <3>1 DEF VerifyNext, Verdict
    <3> QED
      BY <1>4, <3>2
  <2>3. CASE doctor.table /\ doctor.v \notin Known(installed)
    <3>1. doctor.v - 1 = Latest[installed]
      BY <1>2, <2>3 DEF Known
    <3>2. Reported(Verdict)
      BY <1>12, <2>3 DEF VerifyNext
    <3>3. CASE Known(installed) \ doctor.seen = {}
      <4>1. Reported("ok")
        BY <3>2, <3>3 DEF Verdict
      <4>2. db.applied = 1 .. Latest[installed]
        BY <2>1, <3>3 DEF DoctorInv, AllKnown, Known
      <4>3. \A v \in db.applied : <<v, Text(installed, v)>> \in db.sums
        BY <2>1, <3>1, <3>3, <4>2 DEF DoctorInv, Known
      <4> QED
        BY <1>1, <1>3, <4>1, <4>2, <4>3 DEF DoctorInv, RightReport
    <3>4. CASE Known(installed) \ doctor.seen # {}
      BY <1>4, <3>2, <3>4 DEF Verdict
    <3> QED
      BY <3>3, <3>4
  <2>4. CASE doctor.table /\ doctor.v \in Known(installed)
    <3>1. CASE doctor.v \in db.applied /\ <<doctor.v, Text(installed, doctor.v)>> \notin db.sums
      <4>1. Reported("checksums")
        BY <1>12, <2>4, <3>1 DEF VerifyNext
      <4>2. ChecksumVersion \in db.applied
        BY <2>1, <2>4 DEF DoctorInv
      <4> QED
        BY <1>1, <1>3, <3>1, <4>1, <4>2 DEF DoctorInv, RightReport
    <3>2. CASE ~(doctor.v \in db.applied /\ <<doctor.v, Text(installed, doctor.v)>> \notin db.sums)
      <4>1. doctor' = [doctor EXCEPT !.v = doctor.v + 1]
        BY <1>12, <2>4, <3>2 DEF VerifyNext
      <4>2. /\ doctor'.at = 5 /\ doctor'.v = doctor.v + 1 /\ doctor'.seen = doctor.seen
            /\ doctor'.report = "none" /\ doctor'.table = doctor.table
        BY <1>2, <2>1, <4>1
      <4>3. doctor.v \in doctor.seen => <<doctor.v, Text(installed, doctor.v)>> \in db.sums
        BY <2>1, <3>2 DEF DoctorInv
      <4>4. \A w \in 1 .. doctor.v : w \in doctor.seen => <<w, Text(installed, w)>> \in db.sums
        BY <1>2, <2>1, <4>3 DEF DoctorInv
      <4>5. doctor'.v - 1 = doctor.v
        BY <1>2, <4>2
      <4> QED
        BY <1>1, <2>1, <4>2, <4>4, <4>5 DEF DoctorInv, RightReport, AllKnown
    <3> QED
      BY <3>1, <3>2
  <2> QED
    BY <2>2, <2>3, <2>4
<1>13. CASE DoctorFails
  BY <1>4, <1>13 DEF DoctorFails
<1>14. CASE DoctorEnds
  BY <1>14 DEF DoctorEnds, Idle, DoctorInv, RightReport
<1> QED
  BY <1>7, <1>8, <1>9, <1>10, <1>11, <1>12, <1>13, <1>14 DEF Inspect

LEMMA DoctorNext == HistoryInv /\ DoctorInv /\ [Next]_vars => DoctorInv'
<1> SUFFICES ASSUME HistoryInv, DoctorInv, [Next]_vars PROVE DoctorInv'
  OBVIOUS
<1>1. UNCHANGED <<installed, db, doctor>> => DoctorInv'
  BY DEF DoctorInv, RightReport, AllKnown
<1>2. CASE UNCHANGED vars
  BY <1>1, <1>2 DEF vars
<1>3. ASSUME NEW c \in Commands, BackUp(c) PROVE DoctorInv'
  BY <1>1, <1>3 DEF BackUp, StatDestination, StatTemporary, Vacuum, VacuumRefused, Written, Verify,
                    Link, Remove, BackupFails, BackupDies, NotOfBackup
<1>4. CASE Operate
  <2>1. CASE Stop \/ ClearTemporary
    BY <1>1, <2>1 DEF Stop, ClearTemporary, RolledBack
  <2>2. CASE Restore \/ \E b \in Binaries : Install(b)
    <3>1. doctor' = Idle
      BY <2>2 DEF Restore, Install
    <3> QED
      BY <3>1 DEF Idle, DoctorInv, RightReport
  <2> QED
    BY <1>4, <2>1, <2>2 DEF Operate
<1>5. CASE Damage
  <2>1. /\ UNCHANGED <<installed, doctor>> /\ db'.applied = db.applied /\ db'.sums = db.sums
        /\ ~db'.sound
    BY <1>5 DEF Damage, HistoryInv, Good, Database
  <2> QED
    BY <2>1 DEF DoctorInv, RightReport, AllKnown
<1> QED
  BY <1>2, <1>3, <1>4, <1>5, DoctorOfServe, DoctorOfInspect DEF Next

(* Doctor's report is right, also when it reads during a migration. *)
THEOREM ReportsAreRight == Spec => []ReportIsRight
<1>1. Init => DoctorInv
  BY DoctorIdle DEF Init
<1>2. DoctorInv => ReportIsRight
  BY DEF DoctorInv, RightReport, ReportIsRight
<1> QED
  BY <1>1, <1>2, DoctorNext, HistoryAlways, PTL DEF Spec

-----------------------------------------------------------------------------
(* What is published passed its checks. *)

Holding == {"writing", "verify", "link"}

(* As long as no file was begun beside a command at work, the temporary    *)
(* path leads each command to its own or nowhere; no two have the same.    *)
PublishInv ==
  /\ dest # 0 /\ ~meddled => files[dest].whole /\ files[dest].db.sound
  /\ \A c \in Commands :
       /\ backup[c].pc \in Holding => backup[c].ino # 0 /\ (~meddled => tmp \in {0, backup[c].ino})
       /\ backup[c].pc = "link" /\ ~meddled => Passes(files[backup[c].ino])
  /\ \A c, e \in Commands : c # e /\ backup[c].ino = backup[e].ino => backup[c].ino = 0

(* Nothing that publication depends on changes. *)
LEMMA PublishUnchanged ==
  ASSUME PublishInv, UNCHANGED store
  PROVE  PublishInv'
BY DEF PublishInv, store, Passes

LEMMA PublishBackUp ==
  ASSUME TypeInv, PublishInv, NEW c \in Commands, BackUp(c)
  PROVE  PublishInv'
<1>1. /\ Len(files) \in Nat /\ tmp \in 0 .. Len(files) /\ dest \in 0 .. Len(files)
      /\ backup \in [Commands -> [pc : BackupStages, ino : 0 .. Len(files)]] /\ meddled \in BOOLEAN
  BY LenType DEF TypeInv, DeploymentTypeOK, File
<1>2. /\ Len(files) <= Len(files') /\ Len(files') \in Nat
      /\ \A i \in 1 .. Len(files) :
           files'[i].db = files[i].db /\ (files[i].whole => files'[i].whole)
  BY FilesGrow
<1>3. \A i \in 1 .. Len(files) : Passes(files[i]) => Passes(files'[i])
  BY <1>2 DEF Passes
<1>4. (dest' = dest /\ (meddled => meddled')) =>
        (dest' # 0 /\ ~meddled' => files'[dest'].whole /\ files'[dest'].db.sound)
  BY <1>1, <1>3 DEF PublishInv, Passes
<1>5. ASSUME backup' = [backup EXCEPT ![c].pc = "remove"] \/ Ends(c)
             \/ \E pc \in {"stat_tmp", "vacuum"} : backup' = [backup EXCEPT ![c].pc = pc],
             tmp' = tmp, dest' = dest, meddled' = meddled
      PROVE  PublishInv'
  <2>1. /\ backup'[c].pc \notin Holding
        /\ backup'[c].ino \in {0, backup[c].ino}
        /\ \A e \in Commands : e # c => backup'[e] = backup[e]
    BY <1>1, <1>5 DEF Ends, NoCommand, Holding
  <2>2. \A e \in Commands : backup'[e].pc \in Holding => e # c /\ backup'[e] = backup[e]
    BY <2>1
  <2>3. \A e \in Commands : backup'[e].pc = "link" => backup'[e].pc \in Holding
    BY DEF Holding
  <2>4. \A e \in Commands : backup[e].ino # 0 => backup[e].ino \in 1 .. Len(files)
    BY <1>1
  <2>5. \A e \in Commands :
          /\ backup'[e].pc \in Holding => backup'[e].ino # 0 /\ (~meddled' => tmp' \in {0, backup'[e].ino})
          /\ backup'[e].pc = "link" /\ ~meddled' => Passes(files'[backup'[e].ino])
    BY <1>3, <1>5, <2>2, <2>3, <2>4 DEF PublishInv
  <2>6. \A d, e \in Commands : d # e /\ backup'[d].ino = backup'[e].ino => backup'[d].ino = 0
    BY <1>1, <2>1 DEF PublishInv
  <2> QED
    BY <1>4, <1>5, <2>5, <2>6 DEF PublishInv
<1>6. CASE StatDestination(c) \/ StatTemporary(c) \/ VacuumRefused(c) \/ BackupFails(c) \/ BackupDies(c)
  BY <1>5, <1>6 DEF StatDestination, StatTemporary, VacuumRefused, BackupFails, BackupDies, To
<1>7. CASE Vacuum(c)
  <2>1. /\ dest' = dest /\ meddled' = (meddled \/ Writers # {}) /\ tmp' = Len(files) + 1
        /\ backup' = [backup EXCEPT ![c] = [pc |-> "writing", ino |-> Len(files) + 1]]
    BY <1>7 DEF Vacuum
  <2>2. /\ backup'[c].pc = "writing" /\ backup'[c].ino = Len(files) + 1
        /\ \A e \in Commands : e # c => backup'[e] = backup[e]
    BY <1>1, <2>1
  <2>3. \A e \in Commands : ~meddled' => backup[e].pc \notin Holding
    BY <1>1, <2>1 DEF Writers, Holding
  <2>4. \A e \in Commands :
          /\ backup'[e].pc \in Holding => backup'[e].ino # 0 /\ (~meddled' => tmp' \in {0, backup'[e].ino})
          /\ ~(backup'[e].pc = "link" /\ ~meddled')
    <3> TAKE e \in Commands
    <3>1. CASE e = c
      BY <1>1, <2>1, <2>2, <3>1
    <3>2. CASE e # c
      BY <2>1, <2>2, <2>3, <3>2 DEF PublishInv, Holding
    <3> QED
      BY <3>1, <3>2
  <2>5. \A e \in Commands : backup[e].ino <= Len(files)
    BY <1>1
  <2>6. \A d, e \in Commands : d # e /\ backup'[d].ino = backup'[e].ino => backup'[d].ino = 0
    BY <1>1, <2>2, <2>5 DEF PublishInv
  <2> QED
    BY <1>4, <2>1, <2>4, <2>6 DEF PublishInv
<1>8. CASE Written(c)
  <2>1. /\ dest' = dest /\ meddled' = meddled /\ tmp' = tmp
        /\ backup' = [backup EXCEPT ![c].pc = "verify"] /\ backup[c].pc = "writing"
    BY <1>8 DEF Written, To, At
  <2>2. /\ backup'[c].pc = "verify"
        /\ \A e \in Commands : backup'[e].ino = backup[e].ino /\ (e # c => backup'[e] = backup[e])
    BY <1>1, <2>1
  <2>3. \A e \in Commands : backup[e].ino # 0 => backup[e].ino \in 1 .. Len(files)
    BY <1>1
  <2>4. \A e \in Commands :
          /\ backup'[e].pc \in Holding => backup'[e].ino # 0 /\ (~meddled' => tmp' \in {0, backup'[e].ino})
          /\ backup'[e].pc = "link" /\ ~meddled' => Passes(files'[backup'[e].ino])
    BY <1>3, <2>1, <2>2, <2>3 DEF PublishInv, Holding
  <2> QED
    BY <1>4, <2>1, <2>2, <2>4 DEF PublishInv
<1>9. CASE Verify(c)
  <2>1. /\ dest' = dest /\ meddled' = meddled /\ tmp' = tmp /\ files' = files
        /\ backup[c].pc = "verify"
    BY <1>9 DEF Verify, At
  <2>2. CASE tmp # 0 /\ Passes(files[tmp])
    <3>1. backup' = [backup EXCEPT ![c].pc = "link"]
      BY <1>9, <2>2 DEF Verify, To
    <3>2. /\ backup'[c].pc = "link"
          /\ \A e \in Commands : backup'[e].ino = backup[e].ino /\ (e # c => backup'[e] = backup[e])
      BY <1>1, <3>1
    <3>3. ~meddled => tmp \in {0, backup[c].ino}
      BY <2>1 DEF PublishInv, Holding
    <3>4. \A e \in Commands :
            /\ backup'[e].pc \in Holding => backup'[e].ino # 0 /\ (~meddled' => tmp' \in {0, backup'[e].ino})
            /\ backup'[e].pc = "link" /\ ~meddled' => Passes(files'[backup'[e].ino])
      BY <2>1, <2>2, <3>2, <3>3 DEF PublishInv, Holding
    <3> QED
      BY <1>4, <2>1, <3>2, <3>4 DEF PublishInv
  <2>3. CASE ~(tmp # 0 /\ Passes(files[tmp]))
    BY <1>5, <1>9, <2>1, <2>3 DEF Verify, To
  <2> QED
    BY <2>2, <2>3
<1>10. CASE Link(c)
  <2>1. /\ dest' = Published(tmp, dest) /\ meddled' = meddled /\ tmp' = tmp /\ files' = files
        /\ backup' = [backup EXCEPT ![c].pc = "remove"] /\ backup[c].pc = "link"
    BY <1>10 DEF Link, To, At
  <2>2. CASE dest # 0
    BY <1>5, <2>1, <2>2 DEF Published
  <2>3. CASE dest = 0
    <3>1. dest' = tmp
      BY <2>1, <2>3 DEF Published
    <3>2. ~meddled => tmp \in {0, backup[c].ino} /\ Passes(files[backup[c].ino])
      BY <2>1 DEF PublishInv, Holding
    <3>3. dest' # 0 /\ ~meddled' => files'[dest'].whole /\ files'[dest'].db.sound
      BY <2>1, <3>1, <3>2 DEF Passes
    <3>4. /\ backup'[c].pc = "remove"
          /\ \A e \in Commands : backup'[e].ino = backup[e].ino /\ (e # c => backup'[e] = backup[e])
      BY <1>1, <2>1
    <3>5. \A e \in Commands :
            /\ backup'[e].pc \in Holding => backup'[e].ino # 0 /\ (~meddled' => tmp' \in {0, backup'[e].ino})
            /\ backup'[e].pc = "link" /\ ~meddled' => Passes(files'[backup'[e].ino])
      BY <2>1, <3>4 DEF PublishInv, Holding
    <3> QED
      BY <3>3, <3>4, <3>5 DEF PublishInv
  <2> QED
    BY <2>2, <2>3
<1>11. CASE Remove(c)
  <2>1. /\ dest' = dest /\ tmp' = 0 /\ files' = files /\ Ends(c) /\ meddled' = meddled
    BY <1>11 DEF Remove
  <2>2. /\ backup'[c].pc = "idle" /\ backup'[c].ino = 0
        /\ \A e \in Commands : e # c => backup'[e] = backup[e]
    BY <1>1, <2>1 DEF Ends, NoCommand
  <2>3. \A e \in Commands :
          /\ backup'[e].pc \in Holding => backup'[e].ino # 0 /\ (~meddled' => tmp' \in {0, backup'[e].ino})
          /\ backup'[e].pc = "link" /\ ~meddled' => Passes(files'[backup'[e].ino])
    BY <2>1, <2>2 DEF PublishInv, Holding
  <2>4. \A d, e \in Commands : d # e /\ backup'[d].ino = backup'[e].ino => backup'[d].ino = 0
    BY <2>2 DEF PublishInv
  <2> QED
    BY <1>4, <2>1, <2>3, <2>4 DEF PublishInv
<1> QED
  BY <1>6, <1>7, <1>8, <1>9, <1>10, <1>11 DEF BackUp

LEMMA PublishNext == TypeInv /\ PublishInv /\ [Next]_vars => PublishInv'
<1> SUFFICES ASSUME TypeInv, PublishInv, [Next]_vars PROVE PublishInv'
  OBVIOUS
<1>1. CASE UNCHANGED vars
  BY <1>1, PublishUnchanged DEF vars
<1>2. CASE Serve \/ StartFails \/ Inspect \/ Damage
  BY <1>2, PublishUnchanged
     DEF Serve, Start, CreateRegistry, RejectUnknown, FirstCheck, Begin, Execute, Record, Commit,
         AllApplied, FinalCheck, StartFails, Inspect, DoctorBegins, CheckIntegrity, CheckRegistry,
         ReadVersions, LookUpTable, VerifyNext, DoctorFails, DoctorEnds, Damage
<1>3. ASSUME NEW c \in Commands, BackUp(c) PROVE PublishInv'
  BY <1>3, PublishBackUp
<1>4. CASE Operate
  <2>1. CASE ClearTemporary
    BY <2>1 DEF ClearTemporary, At, PublishInv, Holding, Passes
  <2>2. CASE Stop \/ Restore \/ \E b \in Binaries : Install(b)
    BY <2>2, PublishUnchanged DEF Stop, Restore, Install
  <2> QED
    BY <1>4, <2>1, <2>2 DEF Operate
<1> QED
  BY <1>1, <1>2, <1>3, <1>4 DEF Next

(* A published snapshot is complete and passed its checks, also when one   *)
(* backup removed the temporary file of another, unless a third began a    *)
(* file at that path before the other was done.                            *)
THEOREM PublishedSnapshotsAreSound == Spec => []PublishedIsSound
<1>1. Init => PublishInv
  BY DEF Init, PublishInv, Holding
<1>2. PublishInv => PublishedIsSound
  BY DEF PublishInv, PublishedIsSound
<1> QED
  BY <1>1, <1>2, PublishNext, TypeAlways, PTL DEF Spec

=============================================================================
