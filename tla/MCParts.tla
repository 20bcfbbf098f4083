------------------------------- MODULE MCParts -------------------------------
(***************************************************************************)
(* One run for the parts of the system that share no state: focus chooses  *)
(* the part that moves, the others keep still.  The reachable states are   *)
(* the sum of the parts', each just as it would be alone, and the parts    *)
(* state their own properties.                                             *)
(***************************************************************************)
EXTENDS RequestLimiter, SessionAuth, LocationScope, IncidentReview, BaselineReview,
        EndpointLinks, EndpointFreshness, VisionRooms, AssetImport, ServerMonitor,
        ServerBackup, AgentLifecycle, TLC

VARIABLE focus   \* the part that moves

-----------------------------------------------------------------------------
(* Values of the constants. *)

\* Two organizations with a building each; one user without an organization.
MCUserOrg == "u1" :> "o1" @@ "u2" :> NoOrg
MCFloorOf == "r1" :> "f1" @@ "r2" :> "f2"
MCBuildingOf == "f1" :> "b1" @@ "f2" :> "b2"
MCOrgOf == "b1" :> "o1" @@ "b2" :> "o2"
MCItemOrg == "i1" :> "o1" @@ "i2" :> "o2"

\* Pairs of rows of one number or of two, among them rows that are not sound (a
\* quantity or a mode that is none), blank or incomplete.
Row(number, quantity, mode, place) ==
  [blank |-> FALSE, number |-> number, quantity |-> quantity, mode |-> mode,
   status |-> IF quantity = 2 THEN "ACTIVE" ELSE NoValue, place |-> place]
Firsts == {Row("n1", NoValue, NoValue, "p1"), Row("n1", 2, NoValue, NoValue),
           Row("n1", 1, "INDIVIDUAL", "p1")}
Seconds == Firsts \cup
  {Row("n2", NoValue, "INDIVIDUAL", "p1"), Row("n2", 3, "GROUPED", "p1"),
   Row("n2", 1, "SHARED", "p1"),
   [Row("n2", NoValue, NoValue, NoValue) EXCEPT !.blank = TRUE]}
MCFiles ==
  [kind : {"table"}, located : BOOLEAN, rows : {<<a, b>> : a \in Firsts, b \in Seconds}]
  \cup [kind : {"statement", "scan"}, located : {FALSE},
        rows : {<<a, b>> : a \in Firsts, b \in Firsts}]

-----------------------------------------------------------------------------
vars == <<focus, limiterVars, sessionVars, scopeVars, reviewVars, baselineVars, linkVars,
          freshVars, visionVars, importVars, monitorVars, backupVars, lifecycleVars>>

Parts == {"limiter", "sessions", "scope", "review", "baselines", "links",
          "freshness", "vision", "registry", "monitor", "backup", "lifecycle"}

Init ==
  /\ focus \in Parts
  /\ LimiterInit /\ SessionInit /\ ScopeInit
  /\ ReviewInit /\ BaselineInit /\ LinkInit
  /\ FreshInit /\ VisionInit /\ ImportInit
  /\ MonitorInit /\ BackupInit /\ LifecycleInit
  /\ focus # "scope" => role = [u \in Users |-> "VIEWER"]
  /\ focus # "lifecycle" => legacy = "none"

Still ==
  /\ UNCHANGED focus
  /\ focus # "limiter" => UNCHANGED limiterVars
  /\ focus # "sessions" => UNCHANGED sessionVars
  /\ focus # "scope" => UNCHANGED scopeVars
  /\ focus # "review" => UNCHANGED reviewVars
  /\ focus # "baselines" => UNCHANGED baselineVars
  /\ focus # "links" => UNCHANGED linkVars
  /\ focus # "freshness" => UNCHANGED freshVars
  /\ focus # "vision" => UNCHANGED visionVars
  /\ focus # "registry" => UNCHANGED importVars
  /\ focus # "monitor" => UNCHANGED monitorVars
  /\ focus # "backup" => UNCHANGED backupVars
  /\ focus # "lifecycle" => UNCHANGED lifecycleVars

Next ==
  \/ focus = "limiter" /\ LimiterNext /\ Still
  \/ focus = "sessions" /\ SessionNext /\ Still
  \/ focus = "scope" /\ ScopeNext /\ Still
  \/ focus = "review" /\ ReviewNext /\ Still
  \/ focus = "baselines" /\ BaselineNext /\ Still
  \/ focus = "links" /\ LinkNext /\ Still
  \/ focus = "freshness" /\ FreshNext /\ Still
  \/ focus = "vision" /\ VisionNext /\ Still
  \/ focus = "registry" /\ ImportNext /\ Still
  \/ focus = "monitor" /\ MonitorNext /\ Still
  \/ focus = "backup" /\ BackupNext /\ Still
  \/ focus = "lifecycle" /\ LifecycleNext /\ Still

Spec == Init /\ [][Next]_vars

-----------------------------------------------------------------------------
(* The properties of the parts, each stated where its part is. *)

\* The values of every part are of their types (the stored rows, files and
\* histories its module declares).
PartsTypeOK ==
  /\ focus \in Parts
  /\ focus = "limiter" => LimiterTypeOK
  /\ focus = "sessions" => SessionTypeOK
  /\ focus = "scope" => ScopeTypeOK
  /\ focus = "review" => ReviewTypeOK
  /\ focus = "baselines" => BaselineTypeOK
  /\ focus = "links" => LinkTypeOK
  /\ focus = "freshness" => FreshTypeOK
  /\ focus = "vision" => VisionTypeOK
  /\ focus = "registry" => ImportTypeOK
  /\ focus = "monitor" => MonitorTypeOK
  /\ focus = "backup" => BackupTypeOK
  /\ focus = "lifecycle" => LifecycleTypeOK

=============================================================================
