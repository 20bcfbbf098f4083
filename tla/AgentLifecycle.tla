--------------------------- MODULE AgentLifecycle ---------------------------
(***************************************************************************)
(* Installing, updating and removing the agent on a Windows PC: the        *)
(* registry key of the upstream agent is saved, protected and written, its *)
(* service gives way to the delivery task, and removal undoes it.  A       *)
(* script runs command by command; any command may fail and end it, and    *)
(* the PC may restart between any two.  One script runs at a time.         *)
(***************************************************************************)
EXTENDS Naturals, Sequences

VARIABLES
  script,      \* the commands the running script has left
  service,     \* the upstream service: whether it starts at boot, and runs
  task,        \* the delivery task: "none", "disabled" or "enabled"
  uploading,   \* whether the task is running a cycle
  files,       \* the runtime files of the task: "none", "torn" or "whole"
  profile,     \* the managed registry values: "none", "torn" or "whole"
  acl,         \* the access rules of the registry key
  aclBackup,   \* the saved access rules, "none" before they are saved
  legacy       \* the old configuration file: "none", "ours" or "foreign"

lifecycleVars == <<script, service, task, uploading, files, profile, acl, aclBackup, legacy>>

LifecycleInit ==
  /\ script = <<>>
  /\ service = [starts |-> TRUE, runs |-> TRUE]
  /\ task = "none"
  /\ uploading = FALSE
  /\ files = "none"
  /\ profile = "none"
  /\ acl = "original"
  /\ aclBackup = "none"
  /\ legacy \in {"none", "ours", "foreign"}

\* Mutant: the task is enabled before the service is put out of action.
EnableFirst ==
  <<"saveAcl", "protect", "write", "complete", "dropOurs", "disableTask", "stopTask",
    "copy", "copied", "register", "enableTask", "stopService", "disableService", "runTask">>

\* The order of install-assetguard-agent-service.ps1.
Installation ==
  <<"saveAcl", "protect", "write", "complete", "dropOurs", "disableTask", "stopTask",
    "copy", "copied", "register", "stopService", "disableService", "enableTask", "runTask">>

\* The order of uninstall-assetguard-agent-service.ps1.
Removal ==
  <<"stopTask", "unregister", "refuseForeign", "tryStopService", "tryDisableService",
    "clear", "cleared", "restoreAcl", "dropBackup", "dropLegacy">>

-----------------------------------------------------------------------------
Install ==
  /\ script = <<>>
  /\ script' = Installation
  /\ UNCHANGED <<service, task, uploading, files, profile, acl, aclBackup, legacy>>

\* An update repeats the installation with the values it finds, where it
\* finds a mark of an earlier one.
Update ==
  /\ script = <<>>
  /\ profile # "none" \/ aclBackup # "none"
  /\ script' = Installation
  /\ UNCHANGED <<service, task, uploading, files, profile, acl, aclBackup, legacy>>

Uninstall ==
  /\ script = <<>>
  /\ script' = Removal
  /\ UNCHANGED <<service, task, uploading, files, profile, acl, aclBackup, legacy>>

Command(c) ==
  /\ script # <<>> /\ Head(script) = c
  /\ script' = Tail(script)

\* Mutant: every installation saves the rules it finds.
SavedAgain == acl

\* What the backup of the rules holds after it was asked for.
SavedAcl == IF aclBackup = "none" THEN acl ELSE aclBackup

ChangeAcl ==
  /\ \/ Command("saveAcl") /\ aclBackup' = SavedAcl /\ UNCHANGED acl
     \/ Command("protect") /\ acl' = "protected" /\ UNCHANGED aclBackup
     \* Nothing is restored without a backup.
     \/ Command("restoreAcl") /\ acl' = (IF aclBackup = "none" THEN acl ELSE aclBackup)
        /\ UNCHANGED aclBackup
     \/ Command("dropBackup") /\ aclBackup' = "none" /\ UNCHANGED acl
  /\ UNCHANGED <<service, task, uploading, files, profile, legacy>>

ChangeProfile ==
  /\ \/ Command("write") /\ profile' = "torn"
     \/ Command("complete") /\ profile' = "whole"
     \/ Command("clear") /\ profile' = (IF aclBackup = "none" THEN profile ELSE "torn")
     \/ Command("cleared") /\ profile' = (IF aclBackup = "none" THEN profile ELSE "none")
  /\ UNCHANGED <<service, task, uploading, files, acl, aclBackup, legacy>>

ChangeFiles ==
  /\ \/ Command("copy") /\ files' = "torn"
     \/ Command("copied") /\ files' = "whole"
  /\ UNCHANGED <<service, task, uploading, profile, acl, aclBackup, legacy>>

ChangeLegacy ==
  /\ \/ Command("dropOurs") /\ legacy' = (IF legacy = "ours" THEN "none" ELSE legacy)
     \/ Command("refuseForeign") /\ legacy # "foreign" /\ UNCHANGED legacy
     \/ Command("dropLegacy") /\ legacy' = "none"
  /\ UNCHANGED <<service, task, uploading, files, profile, acl, aclBackup>>

\* A new definition of the task is registered disabled.
ChangeTask ==
  /\ \/ Command("disableTask") /\ task' = (IF task = "none" THEN task ELSE "disabled")
     \/ Command("register") /\ task' = "disabled"
     \/ Command("enableTask") /\ task' = "enabled"
     \/ Command("unregister") /\ task' = "none"
  /\ UNCHANGED <<service, uploading, files, profile, acl, aclBackup, legacy>>

RunTask ==
  /\ \/ Command("stopTask") /\ uploading' = FALSE
     \/ Command("runTask") /\ uploading' \in {uploading, TRUE}
  /\ UNCHANGED <<service, task, files, profile, acl, aclBackup, legacy>>

Stopped  == [service EXCEPT !.runs = FALSE]
Disabled == [service EXCEPT !.starts = FALSE]

\* The installation breaks off where the service does not obey; the removal
\* asks with -ErrorAction SilentlyContinue and goes on.
ChangeService ==
  /\ \/ Command("stopService") /\ service' = Stopped
     \/ Command("disableService") /\ service' = Disabled
     \/ Command("tryStopService") /\ service' \in {service, Stopped}
     \/ Command("tryDisableService") /\ service' \in {service, Disabled}
  /\ UNCHANGED <<task, uploading, files, profile, acl, aclBackup, legacy>>

\* A command fails, among them the refusal of a foreign file and the wait of
\* half a minute for a cycle that does not stop.
BreakScript ==
  /\ script # <<>>
  /\ script' = <<>>
  /\ UNCHANGED <<service, task, uploading, files, profile, acl, aclBackup, legacy>>

Restart ==
  /\ script' = <<>>
  /\ service' = [service EXCEPT !.runs = service.starts]
  /\ uploading' = FALSE
  /\ UNCHANGED <<task, files, profile, acl, aclBackup, legacy>>

\* The trigger of every minute, and the end of a cycle.
Cycle ==
  /\ \/ task = "enabled" /\ ~ uploading /\ uploading' = TRUE
     \/ uploading /\ uploading' = FALSE
  /\ UNCHANGED <<script, service, task, files, profile, acl, aclBackup, legacy>>

LifecycleNext ==
  \/ Install \/ Update \/ Uninstall
  \/ ChangeAcl \/ ChangeProfile \/ ChangeFiles \/ ChangeLegacy
  \/ ChangeTask \/ RunTask \/ ChangeService
  \/ BreakScript \/ Restart \/ Cycle

LifecycleSpec == LifecycleInit /\ [][LifecycleNext]_lifecycleVars

-----------------------------------------------------------------------------
(* Properties *)

LifecycleTypeOK ==
  /\ Len(script) <= Len(Installation)
  /\ service \in [starts : BOOLEAN, runs : BOOLEAN]
  /\ task \in {"none", "disabled", "enabled"}
  /\ uploading \in BOOLEAN
  /\ files \in {"none", "torn", "whole"}
  /\ profile \in {"none", "torn", "whole"}
  /\ acl \in {"original", "protected"}
  /\ aclBackup \in {"none", "original", "protected"}
  /\ legacy \in {"none", "ours", "foreign"}

\* The task and the upstream service never upload side by side, wherever a
\* script breaks off and also after a restart, and the task that takes over
\* never starts on half-copied files
\* (install-assetguard-agent-service.ps1:56-113, 273-280).
OneUploader ==
  /\ ~ (uploading /\ service.runs)
  /\ task = "enabled" => ~ service.starts /\ files = "whole"

\* As long as the key is protected or holds the credential, the original
\* rules are saved: a removal finds both, however many installations, updates
\* and failed scripts came before (install-assetguard-agent-service.ps1:163-194,
\* uninstall-assetguard-agent-service.ps1:49-60).
RemovalCanUndo ==
  acl = "protected" \/ profile # "none" => aclBackup = "original"

\* What an installation has reached before its k-th command.
Installed(k) ==
  /\ k >= 2 => aclBackup = "original"
  /\ k \in 7..13 => task # "enabled"
  /\ k >= 10 => files = "whole"
  /\ k >= 12 => ~ service.runs
  /\ k >= 13 => ~ service.starts
  /\ k = 14 => task = "enabled"

\* A removal undoes the profile and the rules before it drops the backup.
Removed(k) ==
  /\ k \in 8..9 => profile = "none"
  /\ k = 9 => acl = "original"

ScriptHasReached ==
  \/ script = <<>>
  \/ \E k \in 1..14 : script = SubSeq(Installation, k, 14) /\ Installed(k)
  \/ \E k \in 1..10 : script = SubSeq(Removal, k, 10) /\ Removed(k)

LifecycleInv ==
  /\ LifecycleTypeOK
  /\ ScriptHasReached
  /\ aclBackup # "protected"
  /\ task = "enabled" \/ uploading => ~ service.runs
  /\ OneUploader
  /\ RemovalCanUndo

=============================================================================
