---------------------------- MODULE ServerBackup ----------------------------
(***************************************************************************)
(* The nightly backup of the production server and the rehearsal of a      *)
(* restore: a dump is encrypted, copied off-site, old copies are deleted   *)
(* off-site and locally, and only then the status file names the copy.     *)
(* The script stops at the first command that fails.                       *)
(***************************************************************************)
EXTENDS Naturals

CONSTANTS
  Retention,       \* days an off-site copy is kept
  LocalRetention,  \* days a local copy is kept
  MaxDay           \* bound: the last day the model reaches

\* A copy is kept longer than a run may last.
ASSUME BackupAssumption ==
  Retention \in Nat /\ Retention >= 2 /\ LocalRetention \in Nat /\ MaxDay \in Nat \ {0}

VARIABLES
  day,             \* the date; a copy is named by the day of its run
  local,           \* copies in the backup directory
  offsite,         \* copies at the off-site target
  backupStatus,    \* the copy the status file names, 0 before the first
  backup,          \* the run in progress: its step and the name of its copy
  rehearsal        \* how the last rehearsal of a restore ended

backupVars == <<day, local, offsite, backupStatus, backup, rehearsal>>

Resting == [step |-> "idle", name |-> 0]

BackupInit ==
  /\ day = 1
  /\ local = {}
  /\ offsite = {}
  /\ backupStatus = 0
  /\ backup = Resting
  /\ rehearsal = "none"

\* A run does not last longer than into the next day.
PassDay ==
  /\ day < MaxDay
  /\ backup.step = "idle" \/ backup.name = day
  /\ day' = day + 1
  /\ UNCHANGED <<local, offsite, backupStatus, backup, rehearsal>>

\* One run a day; the dump is complete and not empty.
Dump ==
  /\ backup.step = "idle" /\ day \notin local \cup offsite
  /\ backup' = [step |-> "dumped", name |-> day]
  /\ UNCHANGED <<day, local, offsite, backupStatus, rehearsal>>

Encrypt ==
  /\ backup.step = "dumped"
  /\ local' = local \cup {backup.name}
  /\ backup' = [backup EXCEPT !.step = "encrypted"]
  /\ UNCHANGED <<day, offsite, backupStatus, rehearsal>>

Upload ==
  /\ backup.step = "encrypted"
  /\ offsite' = offsite \cup {backup.name}
  /\ backup' = [backup EXCEPT !.step = "uploaded"]
  /\ UNCHANGED <<day, local, backupStatus, rehearsal>>

\* Mutant: old copies are deleted although the upload failed.
WithoutUpload == backup.step \in {"encrypted", "uploaded"}

AfterUpload == backup.step = "uploaded"

PruneOffsite ==
  /\ AfterUpload
  /\ offsite' = {n \in offsite : day < n + Retention}
  /\ backup' = [backup EXCEPT !.step = "pruned"]
  /\ UNCHANGED <<day, local, backupStatus, rehearsal>>

PruneLocal ==
  /\ backup.step = "pruned"
  /\ local' = {n \in local : day <= n + LocalRetention}
  /\ backup' = [backup EXCEPT !.step = "done"]
  /\ UNCHANGED <<day, offsite, backupStatus, rehearsal>>

WriteStatus ==
  /\ backup.step = "done"
  /\ backupStatus' = backup.name
  /\ backup' = Resting
  /\ UNCHANGED <<day, local, offsite, rehearsal>>

\* A command fails or the server stops; the stage directory is removed.
BreakBackup ==
  /\ backup.step # "idle"
  /\ backup' = Resting
  /\ UNCHANGED <<day, local, offsite, backupStatus, rehearsal>>

\* The copy that the status file names is fetched and restored.
Rehearse ==
  /\ backupStatus # 0
  /\ rehearsal' = IF backupStatus \in offsite THEN "passed" ELSE "failed"
  /\ UNCHANGED <<day, local, offsite, backupStatus, backup>>

BackupNext ==
  \/ PassDay \/ Rehearse
  \/ Dump \/ Encrypt \/ Upload \/ PruneOffsite \/ PruneLocal \/ WriteStatus \/ BreakBackup

BackupSpec == BackupInit /\ [][BackupNext]_backupVars

-----------------------------------------------------------------------------
(* Properties *)

BackupTypeOK ==
  /\ day \in 1..MaxDay
  /\ local \subseteq 1..MaxDay
  /\ offsite \subseteq 1..MaxDay
  /\ backupStatus \in 0..MaxDay
  /\ backup \in [step : {"idle", "dumped", "encrypted", "uploaded", "pruned", "done"},
                 name : 0..MaxDay]
  /\ rehearsal \in {"none", "passed", "failed"}

\* However often runs fail and wherever they break off, the copy the status
\* file names can be fetched until its retention is over, and the last copies
\* are deleted only when a run has just uploaded another one
\* (assetguard-server-backup.sh:44-54).
BackupsLast ==
  /\ backupStatus # 0 /\ day < backupStatus + Retention => backupStatus \in offsite
  /\ backupStatus # 0 => offsite # {}

\* The copy of a run is there from its upload on, when it is pruned too.
BackupInv ==
  /\ BackupTypeOK
  /\ backup.step # "idle" => backup.name <= day /\ day <= backup.name + 1
  /\ backup.step \in {"uploaded", "pruned", "done"} => backup.name \in offsite
  /\ backup.step # "idle" => backup.name # 0
  /\ BackupsLast

=============================================================================
