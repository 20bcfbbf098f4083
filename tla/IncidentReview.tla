--------------------------- MODULE IncidentReview ---------------------------
(***************************************************************************)
(* The review of a technical incident: administrators decide and resolve   *)
(* it, each in a request with a database session of its own, and nobody    *)
(* locks what he reads.  At its commit a session writes the columns whose  *)
(* value differs from the one it loaded, and only those, so what a request *)
(* does to a row depends on when it read it.                               *)
(***************************************************************************)
EXTENDS Naturals, Sequences

CONSTANTS
  Reviewers,     \* requests deciding or resolving the incident
  MaxDecisions   \* bound: decisions made

ASSUME ReviewAssumption == MaxDecisions \in Nat

VARIABLES
  incident,      \* its status and resolved_at: the decision that set it, or 0
  change,        \* the status of its change event
  ledger,        \* the decisions, each with its history entry, in commit order,
                 \* and how many there were when its request read the incident
  reviewing      \* per reviewer: what the session loaded and is to write

reviewVars == <<incident, change, ledger, reviewing>>

Verdicts == {"FALSE_POSITIVE", "AUTHORIZED_CHANGE"}
Open == [status |-> "OPEN", resolvedAt |-> 0]
Waiting == [step |-> "idle", was |-> Open, change |-> "OPEN",
            verdict |-> "FALSE_POSITIVE", resolve |-> FALSE, since |-> 0]

ReviewInit ==
  /\ incident = Open
  /\ change = "OPEN"
  /\ ledger = <<>>
  /\ reviewing = [r \in Reviewers |-> Waiting]

-----------------------------------------------------------------------------
\* The value a column has after a commit that sets it to new, having loaded was.
Written(was, new, current) == IF new = was THEN current ELSE new

LoadIncident(r) ==
  /\ reviewing[r].step = "idle"
  /\ Len(ledger) < MaxDecisions
  /\ \E verdict \in Verdicts, resolve \in BOOLEAN :
       reviewing' = [reviewing EXCEPT ![r] =
         [Waiting EXCEPT !.step = "incident", !.was = incident, !.verdict = verdict,
                         !.resolve = resolve, !.since = Len(ledger)]]
  /\ UNCHANGED <<incident, change, ledger>>

LoadChange(r) ==
  /\ reviewing[r].step = "incident"
  /\ reviewing' = [reviewing EXCEPT ![r].step = "change", ![r].change = change]
  /\ UNCHANGED <<incident, change, ledger>>

\* Mutant: a decision that does not resolve leaves resolved_at alone.
KeepsResolvedAt(w) ==
  [status |-> Written(w.was.status,
                      IF w.resolve THEN "RESOLVED" ELSE "UNDER_REVIEW", incident.status),
   resolvedAt |-> IF w.resolve THEN Len(ledger) + 1 ELSE incident.resolvedAt]

\* A new resolved_at differs from any that was loaded.
DecidedRow(w) ==
  [status |-> Written(w.was.status,
                      IF w.resolve THEN "RESOLVED" ELSE "UNDER_REVIEW", incident.status),
   resolvedAt |-> IF w.resolve THEN Len(ledger) + 1
                  ELSE Written(w.was.resolvedAt, 0, incident.resolvedAt)]

ClosedAs(verdict) == IF verdict = "FALSE_POSITIVE" THEN "DISMISSED" ELSE "RESOLVED"

\* The decision and its history entry are inserted with the updates.
CommitDecision(r) ==
  LET w == reviewing[r]
  IN  /\ w.step = "change"
      /\ Len(ledger) < MaxDecisions
      /\ incident' = DecidedRow(w)
      /\ change' = IF w.resolve THEN Written(w.change, ClosedAs(w.verdict), change)
                   ELSE change
      /\ ledger' = Append(ledger, [verdict |-> w.verdict, resolve |-> w.resolve,
                                   since |-> w.since])
      /\ reviewing' = [reviewing EXCEPT ![r] = Waiting]

ReviewNext == \E r \in Reviewers : LoadIncident(r) \/ LoadChange(r) \/ CommitDecision(r)

ReviewSpec == ReviewInit /\ [][ReviewNext]_reviewVars

-----------------------------------------------------------------------------
(* Properties *)

ReviewTypeOK ==
  /\ incident \in [status : {"OPEN", "UNDER_REVIEW", "RESOLVED"},
                   resolvedAt : 0..Len(ledger)]
  /\ change \in {"OPEN", "RESOLVED", "DISMISSED"}
  /\ ledger \in Seq([verdict : Verdicts, resolve : BOOLEAN, since : Nat])
  /\ reviewing \in
       [Reviewers -> [step : {"idle", "incident", "change"},
                      was : [status : {"OPEN", "UNDER_REVIEW", "RESOLVED"}, resolvedAt : Nat],
                      change : {"OPEN", "RESOLVED", "DISMISSED"}, verdict : Verdicts,
                      resolve : BOOLEAN, since : Nat]]
  /\ \A r \in Reviewers : reviewing[r].since \in 0..Len(ledger)

\* What decision j asks of each column; 0 stands for the incident's creation.
StatusBy(j) == IF j = 0 THEN "OPEN"
               ELSE IF ledger[j].resolve THEN "RESOLVED" ELSE "UNDER_REVIEW"
TimeBy(j)   == IF j # 0 /\ ledger[j].resolve THEN j ELSE 0
ChangeBy(j) == IF j = 0 THEN "OPEN" ELSE ClosedAs(ledger[j].verdict)

Decisions   == 1..Len(ledger)
Resolutions == {k \in Decisions : ledger[k].resolve}

\* Of these decisions, those after j are of requests that had read before j
\* was committed.
LastWord(j, deciding) == \A k \in deciding : j < k => ledger[k].since < j

\* However requests overlap, each column is as a decision asked that no later
\* one had seen (incidents/service.py:54-80).  So a decision that nobody
\* overlapped has its way in every column of the incident, and overlapping ones
\* may win a column each, but none that was overtaken by a decision that had
\* seen it.  The change event follows the resolutions only: reopening an
\* incident leaves it RESOLVED or DISMISSED (line 66,
\* admin_workflows.py:192-203).
DecisionsStand ==
  /\ \E j \in {0} \cup Decisions : incident.status = StatusBy(j) /\ LastWord(j, Decisions)
  /\ \E j \in {0} \cup Decisions : incident.resolvedAt = TimeBy(j) /\ LastWord(j, Decisions)
  /\ \E j \in {0} \cup Resolutions : change = ChangeBy(j) /\ LastWord(j, Resolutions)

\* What every step keeps: a request in progress that has loaded another value
\* than the column has now did so before the decision that set it.
Holds(r, loaded, column, j) == loaded = column \/ reviewing[r].since < j

StatusHeld ==
  \E j \in {0} \cup Decisions :
    /\ incident.status = StatusBy(j) /\ LastWord(j, Decisions)
    /\ \A r \in Reviewers : reviewing[r].step # "idle" =>
         Holds(r, reviewing[r].was.status, incident.status, j)

TimeHeld ==
  \E j \in {0} \cup Decisions :
    /\ incident.resolvedAt = TimeBy(j) /\ LastWord(j, Decisions)
    /\ \A r \in Reviewers : reviewing[r].step # "idle" =>
         Holds(r, reviewing[r].was.resolvedAt, incident.resolvedAt, j)

ChangeHeld ==
  \E j \in {0} \cup Resolutions :
    /\ change = ChangeBy(j) /\ LastWord(j, Resolutions)
    /\ \A r \in Reviewers : reviewing[r].step = "change" =>
         Holds(r, reviewing[r].change, change, j)

ReviewInv == ReviewTypeOK /\ StatusHeld /\ TimeHeld /\ ChangeHeld

=============================================================================
