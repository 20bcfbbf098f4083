--------------------------- MODULE OperationProofs ---------------------------
(***************************************************************************)
(* The scripts that run the system: the monitor, the nightly backup, and   *)
(* the installation and removal of the agent.  Each may break off after    *)
(* any command; what holds afterwards holds for all bounds of the models.  *)
(* At the end, the composition: side by side the parts do what each does   *)
(* alone, so what is proved of each holds of all together.                 *)
(***************************************************************************)
EXTENDS MCParts, OverlapProofs, AccessProofs

-----------------------------------------------------------------------------
(* The monitor: what its file says was told is told. *)

MonitorRun == [step : {"idle", "gathered", "accepted"}, about : SUBSET Problems,
               at : 0..LastTime]

LEMMA MonitorTypes ==
  ASSUME MonitorInv
  PROVE  /\ now \in 0..LastTime /\ now \in Nat /\ state \in Dated /\ concluded \in Dated
         /\ run \in MonitorRun /\ alerts \subseteq Dated
         /\ NoState \in Dated /\ NoState.about = {} /\ NoState.at = 0
         /\ NoRun \in MonitorRun /\ NoRun.step = "idle" /\ NoRun.at = 0
         /\ state.at \in Nat /\ run.at \in Nat /\ concluded.at \in Nat
         /\ state.at <= now /\ run.at <= now /\ concluded.at <= now
         /\ \A a \in alerts : a.at \in Nat
BY MonitorAssumption DEF MonitorInv, MonitorTypeOK, MonitorRun, Dated, NoState, NoRun

LEMMA MonitorStart == MonitorInit => MonitorInv
BY MonitorAssumption
   DEF MonitorInit, MonitorInv, MonitorTypeOK, RecurrenceAlerts, Dated, NoState, NoRun

LEMMA MonitorStep == MonitorInv /\ [MonitorNext]_monitorVars => MonitorInv'
<1> SUFFICES ASSUME MonitorInv, [MonitorNext]_monitorVars PROVE MonitorInv'
  OBVIOUS
<1> USE MonitorAssumption
<1>a. /\ state.about # {} => Told(state)
      /\ run.step = "accepted" => run.about # {} /\ Told(run)
      /\ RecurrenceAlerts
  BY DEF MonitorInv
<1>1. CASE Pass
  BY <1>1, <1>a, MonitorTypes
     DEF Pass, MonitorInv, MonitorTypeOK, MonitorRun, RecurrenceAlerts, Told
<1>2. CASE Gather
  <2>1. PICK ps \in SUBSET Problems : run' = [step |-> "gathered", about |-> ps, at |-> now]
    BY <1>2 DEF Gather
  <2> QED
    BY <1>2, <2>1, <1>a, MonitorTypes
       DEF Gather, MonitorInv, MonitorTypeOK, MonitorRun, RecurrenceAlerts, Told
<1>3. CASE AllClear
  BY <1>3, <1>a, MonitorTypes
     DEF AllClear, Conclude, Forgotten, MonitorInv, MonitorTypeOK, MonitorRun,
         RecurrenceAlerts, Dated
<1>4. CASE Suppress
  <2>1. /\ run.about # {} /\ Repeats /\ concluded' = [about |-> run.about, at |-> run.at]
        /\ run' = NoRun /\ UNCHANGED <<now, state, alerts>>
    BY <1>4 DEF Suppress, Conclude
  <2>2. PICK a \in alerts : a.about = run.about /\ state.at <= a.at
    BY <2>1, <1>a DEF Repeats, Told
  <2>3. run.at < a.at + RepeatAfter
    BY <2>1, <2>2, MonitorTypes DEF Repeats
  <2>4. RecurrenceAlerts'
    BY <2>1, <2>2, <2>3 DEF RecurrenceAlerts
  <2> QED
    BY <2>1, <2>4, <1>a, MonitorTypes
       DEF MonitorInv, MonitorTypeOK, MonitorRun, Dated, Told
<1>5. CASE Post
  <2> DEFINE new == [about |-> run.about, at |-> now]
  <2>1. /\ run.about # {} /\ run' = [run EXCEPT !.step = "accepted"]
        /\ alerts' = {a \in alerts : a.about # run.about} \cup {new}
        /\ UNCHANGED <<now, state, concluded>>
    BY <1>5 DEF Post
  <2>2. new \in Dated /\ new.about = run.about /\ new.at = now
    BY MonitorTypes DEF Dated, MonitorRun
  <2>3. alerts' \subseteq Dated /\ run' \in MonitorRun /\ run'.about = run.about /\ run'.at = run.at
    BY <2>1, <2>2, MonitorTypes DEF MonitorRun
  <2>4. ASSUME NEW m, m.at \in Nat, m.at <= now, NEW a \in alerts, m.about = a.about
        PROVE  \E b \in alerts' : b.about = m.about /\ (m.at <= b.at \/ b = a)
    BY <2>1, <2>2, <2>4
  <2> HIDE DEF new
  <2>5. state'.about # {} => Told(state)'
    BY <2>1, <2>4, <1>a, MonitorTypes DEF Told
  <2>6. Told(run)'
    BY <2>1, <2>2, <2>3, MonitorTypes DEF Told
  <2>7. RecurrenceAlerts'
    BY <2>1, <2>2, <2>4, <1>a, MonitorTypes DEF RecurrenceAlerts
  <2> QED
    BY <2>1, <2>3, <2>5, <2>6, <2>7, MonitorTypes DEF MonitorInv, MonitorTypeOK, MonitorRun
<1>6. CASE Remember
  <2>1. /\ state' = [about |-> run.about, at |-> run.at] /\ concluded' = state'
        /\ run' = NoRun /\ UNCHANGED <<now, alerts>> /\ run.step = "accepted"
    BY <1>6 DEF Remember, Conclude
  <2>2. PICK a \in alerts : a.about = run.about /\ run.at <= a.at
    BY <2>1, <1>a DEF Told
  <2>3. RecurrenceAlerts' /\ Told(state)'
    BY <2>1, <2>2, MonitorTypes DEF RecurrenceAlerts, Told
  <2> QED
    BY <2>1, <2>3, MonitorTypes DEF MonitorInv, MonitorTypeOK, MonitorRun, Dated
<1>7. CASE BreakRun \/ UNCHANGED monitorVars
  BY <1>7, <1>a, MonitorTypes
     DEF BreakRun, monitorVars, MonitorInv, MonitorTypeOK, MonitorRun, RecurrenceAlerts, Told
<1> QED BY <1>1, <1>2, <1>3, <1>4, <1>5, <1>6, <1>7 DEF MonitorNext

\* When a run that found problems ends well, the chat holds a message about
\* just these problems that is not older than the repeat interval, also after
\* a recovery (assetguard-server-monitor.sh:109-148).
THEOREM RecurrencesAlert == MonitorSpec => []RecurrenceAlerts
<1>1. MonitorInv => RecurrenceAlerts
  BY DEF MonitorInv
<1> QED BY <1>1, MonitorStart, MonitorStep, PTL DEF MonitorSpec

-----------------------------------------------------------------------------
(* The backup: a copy outlives the run that made it. *)

LEMMA BackupStart == BackupInit => BackupInv
BY BackupAssumption DEF BackupInit, BackupInv, BackupTypeOK, BackupsLast, Resting

LEMMA BackupStep == BackupInv /\ [BackupNext]_backupVars => BackupInv'
<1> SUFFICES ASSUME BackupInv, [BackupNext]_backupVars PROVE BackupInv'
  OBVIOUS
<1> USE BackupAssumption DEF BackupInv, BackupTypeOK, BackupsLast
<1>1. CASE PassDay
  BY <1>1 DEF PassDay
<1>2. CASE Dump
  BY <1>2 DEF Dump
<1>3. CASE Encrypt
  BY <1>3 DEF Encrypt
<1>4. CASE Upload
  BY <1>4 DEF Upload
<1>5. CASE PruneOffsite
  BY <1>5 DEF PruneOffsite, AfterUpload
<1>6. CASE PruneLocal
  BY <1>6 DEF PruneLocal
<1>7. CASE WriteStatus
  BY <1>7 DEF WriteStatus, Resting
<1>8. CASE BreakBackup
  BY <1>8 DEF BreakBackup, Resting
<1>9. CASE Rehearse
  BY <1>9 DEF Rehearse
<1>10. CASE UNCHANGED backupVars
  BY <1>10 DEF backupVars
<1> QED
  BY <1>1, <1>2, <1>3, <1>4, <1>5, <1>6, <1>7, <1>8, <1>9, <1>10 DEF BackupNext

\* The copy that the status file names can be fetched until its retention is
\* over, and the last copies are not deleted before another one is there
\* (assetguard-server-backup.sh:44-54).
THEOREM NamedBackupsLast == BackupSpec => []BackupsLast
<1>1. BackupInv => BackupsLast
  BY DEF BackupInv
<1> QED BY <1>1, BackupStart, BackupStep, PTL DEF BackupSpec

-----------------------------------------------------------------------------
(* The scripts of the agent: where a script is tells what it has done. *)

\* The commands of the two scripts.
Commands == {Installation[k] : k \in 1..14} \cup {Removal[k] : k \in 1..10}

LEMMA Scripts ==
  /\ Installation \in Seq(Commands) /\ Len(Installation) = 14
  /\ Removal \in Seq(Commands) /\ Len(Removal) = 10
<1>1. Len(Installation) = 14 /\ Installation = [k \in 1..14 |-> Installation[k]]
  BY DEF Installation
<1>2. Len(Removal) = 10 /\ Removal = [k \in 1..10 |-> Removal[k]]
  BY DEF Removal
<1>3. /\ \A k \in 1..14 : Installation[k] \in Commands
      /\ \A k \in 1..10 : Removal[k] \in Commands
  BY DEF Commands
<1> QED BY <1>1, <1>2, <1>3

\* Each command has one place in an installation, and so in a removal.
LEMMA InstallationPlaces ==
  ASSUME NEW k \in 1..14
  PROVE  /\ Installation[k] = "saveAcl" => k = 1
         /\ Installation[k] = "protect" => k = 2
         /\ Installation[k] = "write" => k = 3
         /\ Installation[k] = "complete" => k = 4
         /\ Installation[k] = "dropOurs" => k = 5
         /\ Installation[k] = "disableTask" => k = 6
         /\ Installation[k] = "stopTask" => k = 7
         /\ Installation[k] = "copy" => k = 8
         /\ Installation[k] = "copied" => k = 9
         /\ Installation[k] = "register" => k = 10
         /\ Installation[k] = "stopService" => k = 11
         /\ Installation[k] = "disableService" => k = 12
         /\ Installation[k] = "enableTask" => k = 13
         /\ Installation[k] = "runTask" => k = 14
         /\ Installation[k] \notin {"unregister", "refuseForeign", "tryStopService",
                                    "tryDisableService", "clear", "cleared", "restoreAcl",
                                    "dropBackup", "dropLegacy"}
BY DEF Installation

LEMMA RemovalPlaces ==
  ASSUME NEW k \in 1..10
  PROVE  /\ Removal[k] = "stopTask" => k = 1
         /\ Removal[k] = "unregister" => k = 2
         /\ Removal[k] = "refuseForeign" => k = 3
         /\ Removal[k] = "tryStopService" => k = 4
         /\ Removal[k] = "tryDisableService" => k = 5
         /\ Removal[k] = "clear" => k = 6
         /\ Removal[k] = "cleared" => k = 7
         /\ Removal[k] = "restoreAcl" => k = 8
         /\ Removal[k] = "dropBackup" => k = 9
         /\ Removal[k] = "dropLegacy" => k = 10
         /\ Removal[k] \notin {"saveAcl", "protect", "write", "complete", "dropOurs",
                               "disableTask", "copy", "copied", "register", "stopService",
                               "disableService", "enableTask", "runTask"}
BY DEF Removal

LEMMA RestOfScript ==
  ASSUME NEW s \in Seq(Commands), Len(s) \in 1..14, NEW k \in 1..Len(s),
         script = SubSeq(s, k, Len(s))
  PROVE  /\ Head(script) = s[k] /\ Tail(script) = SubSeq(s, k + 1, Len(s))
         /\ Len(Tail(script)) = Len(s) - k
         /\ k = Len(s) => Tail(script) = <<>>
<1>1. /\ Head(script) = s[k] /\ Tail(script) = SubSeq(s, k + 1, Len(s))
  BY HeadTailOfSubSeq
<1>2. Len(SubSeq(s, k + 1, Len(s))) = Len(s) - k
  <2>1. \A i \in k + 1 .. Len(s) : s[i] \in Commands
    OBVIOUS
  <2> QED BY <2>1, SubSeqProperties
<1>3. k = Len(s) => SubSeq(s, k + 1, Len(s)) = <<>>
  <2>1. k + 1 \in Int /\ Len(s) \in Int /\ (k = Len(s) => Len(s) < k + 1)
    OBVIOUS
  <2> QED BY <2>1, SubSeqEmpty
<1> QED BY <1>1, <1>2, <1>3

\* After a command a script is where the next one expects it, if it left what
\* that one relies on.
LEMMA ScriptMoves ==
  ASSUME LifecycleInv, NEW c, Command(c),
         \A k \in 1..13 : Installed(k) /\ c = Installation[k] => Installed(k + 1)',
         \A k \in 1..9 : Removed(k) /\ c = Removal[k] => Removed(k + 1)'
  PROVE  ScriptHasReached' /\ Len(script') <= Len(Installation)
<1>1. script # <<>> /\ Head(script) = c /\ script' = Tail(script)
  BY DEF Command
<1>2. ASSUME NEW k \in 1..14, script = SubSeq(Installation, k, 14), Installed(k)
      PROVE  ScriptHasReached' /\ Len(script') <= Len(Installation)
  <2>1. /\ c = Installation[k] /\ script' = SubSeq(Installation, k + 1, 14)
        /\ Len(script') = 14 - k /\ (k = 14 => script' = <<>>)
    BY SMTT(30), <1>1, <1>2, Scripts, RestOfScript
  <2>2. CASE k = 14
    BY <2>1, <2>2, Scripts DEF ScriptHasReached
  <2>3. CASE k # 14
    <3>1. k \in 1..13 /\ k + 1 \in 1..14
      BY <2>3
    <3>2. Installed(k + 1)'
      BY <1>2, <2>1, <3>1
    <3>3. \E j \in 1..14 : script' = SubSeq(Installation, j, 14) /\ Installed(j)'
      BY <2>1, <3>1, <3>2 DEF Installed
    <3>4. Len(script') <= 14
      BY <2>1, <3>1
    <3>5. ScriptHasReached'
      BY <3>3 DEF ScriptHasReached
    <3> QED BY <3>4, <3>5, Scripts
  <2> QED BY <2>2, <2>3
<1>3. ASSUME NEW k \in 1..10, script = SubSeq(Removal, k, 10), Removed(k)
      PROVE  ScriptHasReached' /\ Len(script') <= Len(Installation)
  <2>1. /\ c = Removal[k] /\ script' = SubSeq(Removal, k + 1, 10)
        /\ Len(script') = 10 - k /\ (k = 10 => script' = <<>>)
    BY SMTT(30), <1>1, <1>3, Scripts, RestOfScript
  <2>2. CASE k = 10
    BY <2>1, <2>2, Scripts DEF ScriptHasReached
  <2>3. CASE k # 10
    <3>1. k \in 1..9 /\ k + 1 \in 1..10
      BY <2>3
    <3>2. Removed(k + 1)'
      BY <1>3, <2>1, <3>1
    <3>3. \E j \in 1..10 : script' = SubSeq(Removal, j, 10) /\ Removed(j)'
      BY <2>1, <3>1, <3>2 DEF Removed
    <3>4. Len(script') <= 14
      BY <2>1, <3>1
    <3>5. ScriptHasReached'
      BY <3>3 DEF ScriptHasReached
    <3> QED BY <3>4, <3>5, Scripts
  <2> QED BY <2>2, <2>3
<1> QED BY <1>1, <1>2, <1>3 DEF LifecycleInv, ScriptHasReached

\* What holds where a command is run.
LEMMA Reached ==
  ASSUME LifecycleInv, NEW c, Command(c)
  PROVE  \/ \E k \in 1..14 : c = Installation[k] /\ Installed(k)
         \/ \E k \in 1..10 : c = Removal[k] /\ Removed(k)
<1>1. ASSUME NEW k \in 1..14, script = SubSeq(Installation, k, 14)
      PROVE  c = Installation[k]
  BY <1>1, Scripts, RestOfScript DEF Command
<1>2. ASSUME NEW k \in 1..10, script = SubSeq(Removal, k, 10)
      PROVE  c = Removal[k]
  BY <1>2, Scripts, RestOfScript DEF Command
<1> QED BY <1>1, <1>2 DEF LifecycleInv, ScriptHasReached, Command

\* What a command may rely on.
LEMMA CommandsRely ==
  ASSUME LifecycleInv
  PROVE  /\ Command("protect") \/ Command("write") \/ Command("complete") =>
              aclBackup = "original"
         /\ Command("copy") => task # "enabled"
         /\ Command("enableTask") => ~ service.runs /\ ~ service.starts /\ files = "whole"
         /\ Command("runTask") => ~ service.runs
         /\ Command("dropBackup") => profile = "none" /\ acl = "original"
<1>1. ASSUME NEW c \in {"protect", "write", "complete", "copy", "enableTask", "runTask"},
             Command(c)
      PROVE  \E k \in 1..14 : c = Installation[k] /\ Installed(k)
  <2>1. \A k \in 1..10 : c # Removal[k]
    BY RemovalPlaces
  <2> QED BY <1>1, <2>1, Reached
<1>2. Command("dropBackup") => \E k \in 1..10 : "dropBackup" = Removal[k] /\ Removed(k)
  <2>1. \A k \in 1..14 : Installation[k] # "dropBackup"
    BY InstallationPlaces
  <2> QED BY <2>1, Reached
<1>3. ASSUME Command("protect") \/ Command("write") \/ Command("complete")
      PROVE  aclBackup = "original"
  <2>1. PICK k \in 1..14 : Installation[k] \in {"protect", "write", "complete"} /\ Installed(k)
    BY <1>1, <1>3
  <2> QED BY <2>1, InstallationPlaces DEF Installed
<1>4. ASSUME Command("copy") PROVE task # "enabled"
  <2>1. PICK k \in 1..14 : Installation[k] = "copy" /\ Installed(k)
    BY <1>1, <1>4
  <2> QED BY <2>1, InstallationPlaces DEF Installed
<1>5. ASSUME Command("enableTask")
      PROVE  ~ service.runs /\ ~ service.starts /\ files = "whole"
  <2>1. PICK k \in 1..14 : Installation[k] = "enableTask" /\ Installed(k)
    BY <1>1, <1>5
  <2> QED BY <2>1, InstallationPlaces DEF Installed
<1>6. ASSUME Command("runTask") PROVE ~ service.runs
  <2>1. PICK k \in 1..14 : Installation[k] = "runTask" /\ Installed(k)
    BY <1>1, <1>6
  <2> QED BY <2>1, InstallationPlaces DEF Installed
<1>7. ASSUME Command("dropBackup") PROVE profile = "none" /\ acl = "original"
  <2>1. PICK k \in 1..10 : Removal[k] = "dropBackup" /\ Removed(k)
    BY <1>2, <1>7
  <2> QED BY <2>1, RemovalPlaces DEF Removed
<1> QED BY <1>3, <1>4, <1>5, <1>6, <1>7

LEMMA LifecycleStart == LifecycleInit => LifecycleInv
<1> SUFFICES ASSUME LifecycleInit PROVE LifecycleInv
  OBVIOUS
<1>1. Len(script) <= Len(Installation) /\ ScriptHasReached
  BY Scripts DEF LifecycleInit, ScriptHasReached
<1> QED
  BY <1>1 DEF LifecycleInit, LifecycleInv, LifecycleTypeOK, OneUploader, RemovalCanUndo

LEMMA StartsScript ==
  ASSUME LifecycleInv, script' = Installation \/ script' = Removal,
         UNCHANGED <<service, task, uploading, files, profile, acl, aclBackup, legacy>>
  PROVE  LifecycleInv'
<1>1. /\ SubSeq(Installation, 1, 14) = Installation /\ Installed(1)'
      /\ SubSeq(Removal, 1, 10) = Removal /\ Removed(1)'
  BY Scripts, SubSeqFull DEF Installed, Removed
<1>2. ScriptHasReached' /\ Len(script') <= Len(Installation)
  <2>1. Installed(1)' /\ Removed(1)'
    BY <1>1
  <2>2. \/ \E k \in 1..14 : script' = SubSeq(Installation, k, 14) /\ Installed(k)'
        \/ \E k \in 1..10 : script' = SubSeq(Removal, k, 10) /\ Removed(k)'
    BY <1>1, <2>1 DEF Installed, Removed
  <2>3. Len(script') <= Len(Installation)
    <3>1. CASE script' = Installation
      BY <3>1
    <3>2. CASE script' = Removal
      BY <3>2, Scripts
    <3> QED BY <3>1, <3>2
  <2> QED BY <2>2, <2>3 DEF ScriptHasReached
<1> QED BY <1>2 DEF LifecycleInv, LifecycleTypeOK, OneUploader, RemovalCanUndo

LEMMA EndsScript ==
  ASSUME LifecycleInv, script' = <<>>,
         UNCHANGED <<task, files, profile, acl, aclBackup, legacy>>,
         \/ UNCHANGED <<service, uploading>>
         \/ service' = [service EXCEPT !.runs = service.starts] /\ uploading' = FALSE
  PROVE  LifecycleInv'
<1>1. ScriptHasReached' /\ Len(script') <= Len(Installation)
  BY Scripts DEF ScriptHasReached
<1>2. CASE UNCHANGED <<service, uploading>>
  BY <1>1, <1>2 DEF LifecycleInv, LifecycleTypeOK, OneUploader, RemovalCanUndo
<1>3. CASE service' = [service EXCEPT !.runs = service.starts] /\ uploading' = FALSE
  <2>1. /\ service' \in [starts : BOOLEAN, runs : BOOLEAN]
        /\ service'.starts = service.starts /\ service'.runs = service.starts
    BY <1>3 DEF LifecycleInv, LifecycleTypeOK
  <2> QED
    BY <1>1, <1>3, <2>1 DEF LifecycleInv, LifecycleTypeOK, OneUploader, RemovalCanUndo
<1> QED BY <1>2, <1>3

LEMMA AclCommands == ASSUME LifecycleInv, ChangeAcl PROVE LifecycleInv'
<1> USE DEF LifecycleInv, LifecycleTypeOK, OneUploader, RemovalCanUndo
<1>a. UNCHANGED <<service, task, uploading, files, profile, legacy>>
  BY DEF ChangeAcl
<1>1. CASE Command("saveAcl") /\ aclBackup' = SavedAcl /\ UNCHANGED acl
  <2>1. aclBackup' = "original" /\ ScriptHasReached' /\ Len(script') <= Len(Installation)
    BY SMTT(30), <1>a, <1>1, ScriptMoves, InstallationPlaces, RemovalPlaces
       DEF SavedAcl, Installed, Removed
  <2> QED BY <1>a, <1>1, <2>1
<1>2. CASE Command("protect") /\ acl' = "protected" /\ UNCHANGED aclBackup
  <2>1. aclBackup = "original"
    BY <1>2, CommandsRely
  <2>2. \A k \in 1..13 : Installed(k) /\ "protect" = Installation[k] => Installed(k + 1)'
    <3> SUFFICES ASSUME NEW k \in 1..13, "protect" = Installation[k] PROVE Installed(k + 1)'
      OBVIOUS
    <3>1. k = 2
      BY SMTT(30), InstallationPlaces
    <3> QED BY <1>a, <1>2, <2>1, <3>1 DEF Installed
  <2>3. \A k \in 1..9 : "protect" # Removal[k]
    BY RemovalPlaces
  <2>4. ScriptHasReached' /\ Len(script') <= Len(Installation)
    BY <1>2, <2>2, <2>3, ScriptMoves
  <2> QED BY <1>a, <1>2, <2>1, <2>4
<1>3. CASE /\ Command("restoreAcl") /\ UNCHANGED aclBackup
           /\ acl' = IF aclBackup = "none" THEN acl ELSE aclBackup
  <2>1. acl' = "original"
    BY <1>3
  <2>2. ScriptHasReached' /\ Len(script') <= Len(Installation)
    BY SMTT(30), <1>a, <1>3, <2>1, ScriptMoves, InstallationPlaces, RemovalPlaces
       DEF Installed, Removed
  <2> QED BY <1>a, <1>3, <2>1, <2>2
<1>4. CASE Command("dropBackup") /\ aclBackup' = "none" /\ UNCHANGED acl
  <2>1. profile = "none" /\ acl = "original"
    BY <1>4, CommandsRely
  <2>2. \A k \in 1..14 : Installation[k] # "dropBackup"
    BY InstallationPlaces
  <2>3. \A k \in 1..9 : Removed(k) /\ "dropBackup" = Removal[k] => Removed(k + 1)'
    <3> SUFFICES ASSUME NEW k \in 1..9, "dropBackup" = Removal[k] PROVE Removed(k + 1)'
      OBVIOUS
    <3>1. k = 9
      BY RemovalPlaces
    <3> QED BY <3>1 DEF Removed
  <2>4. ScriptHasReached' /\ Len(script') <= Len(Installation)
    BY SMTT(30), <1>4, <2>2, <2>3, ScriptMoves
  <2> QED BY <1>a, <1>4, <2>1, <2>4
<1> QED BY <1>1, <1>2, <1>3, <1>4 DEF ChangeAcl

LEMMA ProfileCommands == ASSUME LifecycleInv, ChangeProfile PROVE LifecycleInv'
<1> USE DEF LifecycleInv, LifecycleTypeOK, OneUploader, RemovalCanUndo
<1>a. UNCHANGED <<service, task, uploading, files, acl, aclBackup, legacy>>
  BY DEF ChangeProfile
<1>1. CASE \/ Command("write") /\ profile' = "torn"
           \/ Command("complete") /\ profile' = "whole"
  <2>1. aclBackup = "original"
    BY <1>1, CommandsRely
  <2>2. ScriptHasReached' /\ Len(script') <= Len(Installation)
    BY SMTT(30), <1>a, <1>1, ScriptMoves, InstallationPlaces, RemovalPlaces DEF Installed, Removed
  <2> QED BY <1>a, <1>1, <2>1, <2>2
<1>2. CASE Command("clear") /\ profile' = (IF aclBackup = "none" THEN profile ELSE "torn")
  <2>1. ScriptHasReached' /\ Len(script') <= Len(Installation)
    BY SMTT(30), <1>a, <1>2, ScriptMoves, InstallationPlaces, RemovalPlaces DEF Installed, Removed
  <2> QED BY <1>a, <1>2, <2>1
<1>3. CASE Command("cleared") /\ profile' = (IF aclBackup = "none" THEN profile ELSE "none")
  <2>1. profile' = "none"
    BY <1>3
  <2>2. ScriptHasReached' /\ Len(script') <= Len(Installation)
    BY SMTT(30), <1>a, <1>3, <2>1, ScriptMoves, InstallationPlaces, RemovalPlaces
       DEF Installed, Removed
  <2> QED BY <1>a, <1>3, <2>1, <2>2
<1> QED BY <1>1, <1>2, <1>3 DEF ChangeProfile

LEMMA FileCommands == ASSUME LifecycleInv, ChangeFiles \/ ChangeLegacy PROVE LifecycleInv'
<1> USE DEF LifecycleInv, LifecycleTypeOK, OneUploader, RemovalCanUndo
<1>a. UNCHANGED <<service, task, uploading, profile, acl, aclBackup>>
  BY DEF ChangeFiles, ChangeLegacy
<1>1. CASE Command("copy") /\ files' = "torn" /\ UNCHANGED legacy
  <2>1. task # "enabled"
    BY <1>1, CommandsRely
  <2>2. ScriptHasReached' /\ Len(script') <= Len(Installation)
    BY SMTT(30), <1>a, <1>1, ScriptMoves, InstallationPlaces, RemovalPlaces DEF Installed, Removed
  <2> QED BY <1>a, <1>1, <2>1, <2>2
<1>2. CASE Command("copied") /\ files' = "whole" /\ UNCHANGED legacy
  <2>1. ScriptHasReached' /\ Len(script') <= Len(Installation)
    BY SMTT(30), <1>a, <1>2, ScriptMoves, InstallationPlaces, RemovalPlaces DEF Installed, Removed
  <2> QED BY <1>a, <1>2, <2>1
<1>3. CASE ChangeLegacy
  <2>1. UNCHANGED files /\ legacy' \in {"none", "ours", "foreign"}
    BY <1>3 DEF ChangeLegacy
  <2>2. PICK c \in {"dropOurs", "refuseForeign", "dropLegacy"} : Command(c)
    BY <1>3 DEF ChangeLegacy
  <2>3. \A k \in 1..13 : Installed(k) /\ c = Installation[k] => Installed(k + 1)'
    <3> SUFFICES ASSUME NEW k \in 1..13, Installed(k), c = Installation[k]
                 PROVE  Installed(k + 1)'
      OBVIOUS
    <3>1. k = 5
      BY SMTT(30), <2>2, InstallationPlaces
    <3> QED BY <1>a, <3>1 DEF Installed
  <2>4. \A k \in 1..9 : Removed(k) /\ c = Removal[k] => Removed(k + 1)'
    <3> SUFFICES ASSUME NEW k \in 1..9, c = Removal[k] PROVE Removed(k + 1)'
      OBVIOUS
    <3>1. k = 3
      BY <2>2, RemovalPlaces
    <3> QED BY <3>1 DEF Removed
  <2>5. ScriptHasReached' /\ Len(script') <= Len(Installation)
    BY <2>2, <2>3, <2>4, ScriptMoves
  <2> QED BY <1>a, <2>1, <2>5
<1> QED BY <1>1, <1>2, <1>3 DEF ChangeFiles

LEMMA TaskCommands == ASSUME LifecycleInv, ChangeTask \/ RunTask PROVE LifecycleInv'
<1> USE DEF LifecycleInv, LifecycleTypeOK, OneUploader, RemovalCanUndo
<1>a. UNCHANGED <<service, files, profile, acl, aclBackup, legacy>>
  BY DEF ChangeTask, RunTask
<1>1. CASE /\ \/ Command("disableTask") /\ task' = IF task = "none" THEN task ELSE "disabled"
              \/ Command("register") /\ task' = "disabled"
              \/ Command("unregister") /\ task' = "none"
           /\ UNCHANGED uploading
  <2>1. task' \in {"none", "disabled"}
    BY <1>1
  <2>2. PICK c \in {"disableTask", "register", "unregister"} : Command(c)
    BY <1>1
  <2>3. \A k \in 1..13 : Installed(k) /\ c = Installation[k] => Installed(k + 1)'
    <3> SUFFICES ASSUME NEW k \in 1..13, Installed(k), c = Installation[k]
                 PROVE  Installed(k + 1)'
      OBVIOUS
    <3>1. k \in {6, 10}
      BY SMTT(30), <2>2, InstallationPlaces
    <3> QED BY <1>a, <2>1, <3>1 DEF Installed
  <2>4. \A k \in 1..9 : Removed(k) /\ c = Removal[k] => Removed(k + 1)'
    <3> SUFFICES ASSUME NEW k \in 1..9, c = Removal[k] PROVE Removed(k + 1)'
      OBVIOUS
    <3>1. k = 2
      BY SMTT(30), <2>2, RemovalPlaces
    <3> QED BY <3>1 DEF Removed
  <2>5. ScriptHasReached' /\ Len(script') <= Len(Installation)
    BY <2>2, <2>3, <2>4, ScriptMoves
  <2> QED BY <1>a, <1>1, <2>1, <2>5
<1>2. CASE Command("enableTask") /\ task' = "enabled" /\ UNCHANGED uploading
  <2>1. ~ service.runs /\ ~ service.starts /\ files = "whole"
    BY <1>2, CommandsRely
  <2>2. ScriptHasReached' /\ Len(script') <= Len(Installation)
    BY SMTT(30), <1>a, <1>2, ScriptMoves, InstallationPlaces, RemovalPlaces DEF Installed, Removed
  <2> QED BY <1>a, <1>2, <2>1, <2>2
<1>3. CASE RunTask
  <2>1. /\ UNCHANGED task /\ uploading' \in BOOLEAN
        /\ uploading' => uploading \/ Command("runTask")
    BY <1>3 DEF RunTask
  <2>2. Command("runTask") => ~ service.runs
    BY CommandsRely
  <2>3. PICK c \in {"stopTask", "runTask"} : Command(c)
    BY <1>3 DEF RunTask
  <2>4. \A k \in 1..13 : Installed(k) /\ c = Installation[k] => Installed(k + 1)'
    <3> SUFFICES ASSUME NEW k \in 1..13, Installed(k), c = Installation[k]
                 PROVE  Installed(k + 1)'
      OBVIOUS
    <3>1. Installation[k] \in {"stopTask", "runTask"} /\ k \in 1..14 /\ k # 14
      BY <2>3
    <3>2. k = 7
      BY <3>1, InstallationPlaces
    <3> QED BY <1>a, <2>1, <3>2 DEF Installed
  <2>5. \A k \in 1..9 : Removed(k) /\ c = Removal[k] => Removed(k + 1)'
    <3> SUFFICES ASSUME NEW k \in 1..9, c = Removal[k] PROVE Removed(k + 1)'
      OBVIOUS
    <3>1. k = 1
      BY <2>3, RemovalPlaces
    <3> QED BY <3>1 DEF Removed
  <2>6. ScriptHasReached' /\ Len(script') <= Len(Installation)
    BY <2>3, <2>4, <2>5, ScriptMoves
  <2> QED BY <1>a, <2>1, <2>2, <2>6
<1> QED BY <1>1, <1>2, <1>3 DEF ChangeTask

LEMMA ServiceCommands == ASSUME LifecycleInv, ChangeService PROVE LifecycleInv'
<1> USE DEF LifecycleInv, LifecycleTypeOK, OneUploader, RemovalCanUndo
<1>a. UNCHANGED <<task, uploading, files, profile, acl, aclBackup, legacy>>
  BY DEF ChangeService
<1>1. CASE (Command("stopService") \/ Command("tryStopService")) /\ service' = Stopped
  <2>1. service'.starts = service.starts /\ ~ service'.runs
    BY <1>1 DEF Stopped
  <2>2. ScriptHasReached' /\ Len(script') <= Len(Installation)
    BY SMTT(30), <1>a, <1>1, <2>1, ScriptMoves, InstallationPlaces, RemovalPlaces
       DEF Installed, Removed
  <2> QED BY <1>a, <1>1, <2>1, <2>2 DEF Stopped
<1>2. CASE (Command("disableService") \/ Command("tryDisableService")) /\ service' = Disabled
  <2>1. service'.runs = service.runs /\ ~ service'.starts
    BY <1>2 DEF Disabled
  <2>2. ScriptHasReached' /\ Len(script') <= Len(Installation)
    BY SMTT(30), <1>a, <1>2, <2>1, ScriptMoves, InstallationPlaces, RemovalPlaces
       DEF Installed, Removed
  <2> QED BY <1>a, <1>2, <2>1, <2>2 DEF Disabled
<1>3. CASE (Command("tryStopService") \/ Command("tryDisableService")) /\ service' = service
  <2>1. ScriptHasReached' /\ Len(script') <= Len(Installation)
    BY SMTT(30), <1>a, <1>3, ScriptMoves, InstallationPlaces, RemovalPlaces
       DEF Installed, Removed
  <2> QED BY <1>a, <1>3, <2>1
<1> QED BY <1>1, <1>2, <1>3 DEF ChangeService

LEMMA CyclesPass ==
  ASSUME LifecycleInv, Cycle \/ UNCHANGED lifecycleVars
  PROVE  LifecycleInv'
<1>1. UNCHANGED <<script, service, task, files, profile, acl, aclBackup, legacy>>
  BY DEF Cycle, lifecycleVars
<1>2. ScriptHasReached'
  BY <1>1 DEF LifecycleInv, ScriptHasReached, Installed, Removed
<1>3. uploading' \in BOOLEAN /\ (uploading' => uploading \/ task = "enabled")
  <2>1. uploading \in BOOLEAN
    BY DEF LifecycleInv, LifecycleTypeOK
  <2>2. CASE Cycle
    BY <2>1, <2>2 DEF Cycle
  <2>3. CASE UNCHANGED lifecycleVars
    BY <2>1, <2>3 DEF lifecycleVars
  <2> QED BY <2>2, <2>3
<1> QED
  BY <1>1, <1>2, <1>3 DEF LifecycleInv, LifecycleTypeOK, OneUploader, RemovalCanUndo

LEMMA LifecycleStep == LifecycleInv /\ [LifecycleNext]_lifecycleVars => LifecycleInv'
<1> SUFFICES ASSUME LifecycleInv, [LifecycleNext]_lifecycleVars PROVE LifecycleInv'
  OBVIOUS
<1>1. CASE Install \/ Update \/ Uninstall
  BY <1>1, StartsScript DEF Install, Update, Uninstall
<1>2. CASE BreakScript \/ Restart
  BY <1>2, EndsScript DEF BreakScript, Restart
<1> QED
  BY <1>1, <1>2, AclCommands, ProfileCommands, FileCommands, TaskCommands,
     ServiceCommands, CyclesPass DEF LifecycleNext

\* Task and upstream service never upload side by side, and the task never
\* starts on half-copied files, wherever scripts break off
\* (install-assetguard-agent-service.ps1:56-113, 273-280).
THEOREM OneUploads == LifecycleSpec => []OneUploader
<1>1. LifecycleInv => OneUploader
  BY DEF LifecycleInv
<1> QED BY <1>1, LifecycleStart, LifecycleStep, PTL DEF LifecycleSpec

\* The original access rules are saved as long as they are replaced, after any
\* sequence of installations, updates, removals and failures
\* (install-assetguard-agent-service.ps1:163-194,
\* uninstall-assetguard-agent-service.ps1:49-60).
THEOREM RemovalsCanUndo == LifecycleSpec => []RemovalCanUndo
<1>1. LifecycleInv => RemovalCanUndo
  BY DEF LifecycleInv
<1> QED BY <1>1, LifecycleStart, LifecycleStep, PTL DEF LifecycleSpec

-----------------------------------------------------------------------------
(* The parts side by side. *)

PartSpecs ==
  /\ LimiterSpec /\ SessionSpec /\ ScopeSpec
  /\ ReviewSpec /\ BaselineSpec /\ LinkSpec
  /\ FreshSpec /\ VisionSpec /\ ImportSpec
  /\ MonitorSpec /\ BackupSpec /\ LifecycleSpec

\* A step of the composition is a step of every part, or leaves it alone.
LEMMA PartsMoveAlone ==
  ASSUME [Next]_vars
  PROVE  /\ [LimiterNext]_limiterVars
         /\ [SessionNext]_sessionVars
         /\ [ScopeNext]_scopeVars
         /\ [ReviewNext]_reviewVars
         /\ [BaselineNext]_baselineVars
         /\ [LinkNext]_linkVars
         /\ [FreshNext]_freshVars
         /\ [VisionNext]_visionVars
         /\ [ImportNext]_importVars
         /\ [MonitorNext]_monitorVars
         /\ [BackupNext]_backupVars
         /\ [LifecycleNext]_lifecycleVars
<1>1. CASE UNCHANGED vars
  BY <1>1 DEF vars
<1>2. CASE Next
  BY <1>2 DEF Next, Still
<1> QED BY <1>1, <1>2

\* The run of the parts side by side behaves, to each part, as if it ran alone:
\* it implements the specification of every one of them, so that every theorem
\* about a part holds of the composition (the parts are requests and scripts
\* that write different tables and files).
THEOREM PartsRunAsAlone == Spec => PartSpecs
<1>1. Init => /\ LimiterInit /\ SessionInit /\ ScopeInit
              /\ ReviewInit /\ BaselineInit /\ LinkInit
              /\ FreshInit /\ VisionInit /\ ImportInit
              /\ MonitorInit /\ BackupInit /\ LifecycleInit
  BY DEF Init
<1> QED
  BY <1>1, PartsMoveAlone, PTL DEF Spec, PartSpecs, LimiterSpec, SessionSpec, ScopeSpec,
     ReviewSpec, BaselineSpec, LinkSpec, FreshSpec, VisionSpec, ImportSpec,
     MonitorSpec, BackupSpec, LifecycleSpec

PartTypes ==
  /\ LimiterTypeOK /\ SessionTypeOK /\ ScopeTypeOK
  /\ ReviewTypeOK /\ BaselineTypeOK /\ LinkTypeOK
  /\ FreshTypeOK /\ VisionTypeOK /\ ImportTypeOK
  /\ MonitorTypeOK /\ BackupTypeOK /\ LifecycleTypeOK

\* The stored rows, files and histories of every part are of the types its
\* module declares, for every value of the constants.
THEOREM PartsAreTyped == Spec => []PartsTypeOK
<1> DEFINE Focused == focus \in Parts
<1>1. Init => Focused
  BY DEF Init
<1>2. Focused /\ [Next]_vars => Focused'
  BY DEF Next, Still, vars
<1>3. LimiterSpec => []LimiterInv
  BY LimiterStart, LimiterStep, PTL DEF LimiterSpec
<1>4. SessionSpec => []SessionInv
  BY SessionStart, SessionStep, PTL DEF SessionSpec
<1>5. ScopeSpec => []ScopeInv
  BY ScopeStart, ScopeStep, PTL DEF ScopeSpec
<1>6. ReviewSpec => []ReviewInv
  BY ReviewStart, ReviewStep, PTL DEF ReviewSpec
<1>7. BaselineSpec => []BaselineInv
  BY BaselineStart, BaselineStep, PTL DEF BaselineSpec
<1>8. LinkSpec => []LinkInv
  BY LinkStart, LinkStep, PTL DEF LinkSpec
<1>9. FreshSpec => []FreshInv
  BY FreshStart, FreshStep, PTL DEF FreshSpec
<1>10. VisionSpec => []VisionInv
  BY VisionStart, VisionStep, PTL DEF VisionSpec
<1>11. ImportSpec => []ImportTypeOK
  BY RegistryTypeCorrect
<1>12. MonitorSpec => []MonitorInv
  BY MonitorStart, MonitorStep, PTL DEF MonitorSpec
<1>13. BackupSpec => []BackupInv
  BY BackupStart, BackupStep, PTL DEF BackupSpec
<1>14. LifecycleSpec => []LifecycleInv
  BY LifecycleStart, LifecycleStep, PTL DEF LifecycleSpec
<1>15. /\ LimiterInv => LimiterTypeOK
       /\ SessionInv => SessionTypeOK
       /\ ScopeInv => ScopeTypeOK
       /\ ReviewInv => ReviewTypeOK
       /\ BaselineInv => BaselineTypeOK
       /\ LinkInv => LinkTypeOK
  BY DEF LimiterInv, SessionInv, ScopeInv, ReviewInv, BaselineInv, LinkInv
<1>16. /\ FreshInv => FreshTypeOK
       /\ VisionInv => VisionTypeOK
       /\ MonitorInv => MonitorTypeOK
       /\ BackupInv => BackupTypeOK
       /\ LifecycleInv => LifecycleTypeOK
  BY DEF FreshInv, VisionInv, MonitorInv, BackupInv, LifecycleInv
<1>17. Focused /\ PartTypes => PartsTypeOK
  BY DEF PartTypes, PartsTypeOK
<1>18. Spec => []Focused
  BY <1>1, <1>2, PTL DEF Spec
<1>19. PartSpecs => []PartTypes
  BY <1>3, <1>4, <1>5, <1>6, <1>7, <1>8, <1>9, <1>10, <1>11, <1>12, <1>13, <1>14,
     <1>15, <1>16, PTL DEF PartSpecs, PartTypes
<1> QED BY <1>17, <1>18, <1>19, PartsRunAsAlone, PTL

=============================================================================
