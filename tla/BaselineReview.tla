--------------------------- MODULE BaselineReview ---------------------------
(***************************************************************************)
(* The baseline an endpoint is compared with: administrators accept        *)
(* snapshots, each in a request of its own that reads the row of the       *)
(* snapshot and the active row without locks and commits both changes at   *)
(* once; the database's unique indexes decide between them.                *)
(***************************************************************************)
CONSTANTS
  Acceptors,     \* requests accepting a baseline
  Snapshots,     \* snapshots of the endpoint
  NoSnapshot

ASSUME BaselineAssumption == NoSnapshot \notin Snapshots

VARIABLES
  baseline,      \* per snapshot: the status of its baseline row
  accepting      \* per acceptor: what the session loaded

baselineVars == <<baseline, accepting>>

NotAccepting == [step |-> "idle", snapshot |-> NoSnapshot, existing |-> "none",
                 active |-> NoSnapshot]

BaselineInit ==
  /\ baseline = [s \in Snapshots |-> "none"]
  /\ accepting = [a \in Acceptors |-> NotAccepting]

-----------------------------------------------------------------------------
\* The row of the snapshot; one that is active is answered as it is.
LoadExisting(a) ==
  /\ accepting[a].step = "idle"
  /\ \E s \in Snapshots :
       /\ baseline[s] # "ACTIVE"
       /\ accepting' = [accepting EXCEPT ![a] =
            [NotAccepting EXCEPT !.step = "existing", !.snapshot = s,
                                 !.existing = baseline[s]]]
  /\ UNCHANGED baseline

\* The row that is active now, if there is one.
LoadActive(a) ==
  /\ accepting[a].step = "existing"
  /\ \E s \in Snapshots \cup {NoSnapshot} :
       /\ IF s = NoSnapshot THEN \A t \in Snapshots : baseline[t] # "ACTIVE"
                            ELSE baseline[s] = "ACTIVE"
       /\ accepting' = [accepting EXCEPT ![a].step = "active", ![a].active = s]
  /\ UNCHANGED baseline

Active(rows) == {s \in Snapshots : rows[s] = "ACTIVE"}

Superseding(t) ==
  [s \in Snapshots |-> IF s = t.snapshot THEN "ACTIVE"
                       ELSE IF s = t.active THEN "SUPERSEDED" ELSE baseline[s]]

\* Mutant: the migration did not create the partial unique index.
NoIndex(t) == TRUE

\* The index on the active baseline of an endpoint and the one on a snapshot.
IndexesAdmit(t) ==
  /\ \A r, s \in Active(Superseding(t)) : r = s
  /\ t.existing = "none" => baseline[t.snapshot] = "none"

CommitBaseline(a) ==
  /\ accepting[a].step = "active"
  /\ IndexesAdmit(accepting[a])
  /\ baseline' = Superseding(accepting[a])
  /\ accepting' = [accepting EXCEPT ![a] = NotAccepting]

\* The commit fails: another request came first, or the row that returns is
\* updated before the one it supersedes, since updates go in the order of ids.
FailBaseline(a) ==
  LET t == accepting[a]
  IN  /\ t.step = "active"
      /\ ~ IndexesAdmit(t) \/ (t.existing # "none" /\ Active(baseline) \ {t.snapshot} # {})
      /\ accepting' = [accepting EXCEPT ![a] = NotAccepting]
      /\ UNCHANGED baseline

BaselineNext ==
  \E a \in Acceptors :
    LoadExisting(a) \/ LoadActive(a) \/ CommitBaseline(a) \/ FailBaseline(a)

BaselineSpec == BaselineInit /\ [][BaselineNext]_baselineVars

-----------------------------------------------------------------------------
(* Properties *)

AcceptanceRow ==
  [step : {"idle", "existing", "active"}, snapshot : Snapshots \cup {NoSnapshot},
   existing : {"none", "SUPERSEDED"}, active : Snapshots \cup {NoSnapshot}]

BaselineTypeOK ==
  /\ baseline \in [Snapshots -> {"none", "ACTIVE", "SUPERSEDED"}]
  /\ accepting \in [Acceptors -> AcceptanceRow]

\* From the first acceptance on, an endpoint is compared with one baseline:
\* acceptances that overlap neither add a second nor remove the only one
\* (baselines/service.py:11-48).
OneActiveBaseline ==
  (\E s \in Snapshots : baseline[s] # "none") => \E s \in Snapshots : Active(baseline) = {s}

\* What every step keeps, and OneActiveBaseline follows from.
BaselineInv ==
  /\ BaselineTypeOK
  /\ \A a \in Acceptors : accepting[a].step # "idle" => accepting[a].snapshot \in Snapshots
  /\ OneActiveBaseline

=============================================================================
