---------------------------- MODULE MCDeployment ----------------------------
(* Three builds: one, a later one, and a later one with an edited migration. *)
EXTENDS Deployment

MCBinaries == {"this", "later", "edited"}

MCLatest == [b \in MCBinaries |-> IF b = "this" THEN 2 ELSE 3]

MCEdited == [b \in MCBinaries |-> IF b = "edited" THEN {2} ELSE {}]

(***************************************************************************)
(* A file without a name is never read again, whoever still writes it:     *)
(* states that differ in its contents only are the same for TLC.           *)
(***************************************************************************)
MCView ==
  LET named == [i \in DOMAIN files |-> IF i \in {tmp, dest} THEN {files[i]} ELSE {}]
  IN <<installed, db, tx, server, doctor, named, tmp, dest, backup, meddled, counters>>

=============================================================================
