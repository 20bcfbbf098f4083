---------------------------- MODULE OverlapProofs ----------------------------
(***************************************************************************)
(* Requests that overlap and lock nothing: what holds of baselines,        *)
(* decisions, links, reports, captures and sessions for any number of      *)
(* them.  Each part has an invariant of what a request may still rely on.  *)
(***************************************************************************)
EXTENDS BaselineReview, IncidentReview, EndpointLinks, EndpointFreshness,
        VisionRooms, SessionAuth, TLAPS

-----------------------------------------------------------------------------
(* Baselines: the unique index decides between acceptances. *)

LEMMA BaselineStart == BaselineInit => BaselineInv
<1> SUFFICES ASSUME BaselineInit PROVE BaselineInv
  OBVIOUS
<1>1. NotAccepting \in AcceptanceRow /\ NotAccepting.step = "idle"
  BY DEF NotAccepting, AcceptanceRow
<1>2. BaselineTypeOK
  BY <1>1 DEF BaselineInit, BaselineTypeOK
<1> QED BY <1>1, <1>2 DEF BaselineInit, BaselineInv, OneActiveBaseline

\* A commit the indexes admit leaves its own snapshot alone active.
LEMMA CommitLeavesOne ==
  ASSUME BaselineInv, NEW a \in Acceptors, CommitBaseline(a)
  PROVE  /\ baseline' \in [Snapshots -> {"none", "ACTIVE", "SUPERSEDED"}]
         /\ OneActiveBaseline'
<1> DEFINE t == accepting[a]
<1>1. t.snapshot \in Snapshots /\ baseline' = Superseding(t) /\ IndexesAdmit(t)
  BY DEF BaselineInv, CommitBaseline
<1>2. baseline' \in [Snapshots -> {"none", "ACTIVE", "SUPERSEDED"}]
  BY <1>1 DEF Superseding, BaselineInv, BaselineTypeOK
<1>3. t.snapshot \in Active(baseline')
  BY <1>1 DEF Superseding, Active
<1>4. Active(baseline') = {t.snapshot}
  BY <1>1, <1>3 DEF IndexesAdmit, Active
<1> QED BY <1>1, <1>2, <1>4 DEF OneActiveBaseline

LEMMA BaselineStep == BaselineInv /\ [BaselineNext]_baselineVars => BaselineInv'
<1> SUFFICES ASSUME BaselineInv, [BaselineNext]_baselineVars PROVE BaselineInv'
  OBVIOUS
<1>a. NotAccepting \in AcceptanceRow /\ NotAccepting.step = "idle"
  BY DEF NotAccepting, AcceptanceRow
<1>b. BaselineTypeOK /\ OneActiveBaseline
  BY DEF BaselineInv
<1>1. ASSUME NEW a \in Acceptors, LoadExisting(a) PROVE BaselineInv'
  <2>1. PICK s \in Snapshots :
          /\ baseline[s] # "ACTIVE" /\ UNCHANGED baseline
          /\ accepting' = [accepting EXCEPT ![a] =
               [NotAccepting EXCEPT !.step = "existing", !.snapshot = s,
                                    !.existing = baseline[s]]]
    BY <1>1 DEF LoadExisting
  <2>2. accepting'[a] \in AcceptanceRow /\ accepting'[a].snapshot = s
    BY <1>b, <2>1 DEF NotAccepting, AcceptanceRow, BaselineTypeOK
  <2> QED
    BY <1>b, <2>1, <2>2
       DEF BaselineInv, BaselineTypeOK, OneActiveBaseline, Active
<1>2. ASSUME NEW a \in Acceptors, LoadActive(a) PROVE BaselineInv'
  <2>1. PICK s \in Snapshots \cup {NoSnapshot} :
          accepting' = [accepting EXCEPT ![a].step = "active", ![a].active = s]
    BY <1>2 DEF LoadActive
  <2>2. accepting[a].step = "existing" /\ UNCHANGED baseline
    BY <1>2 DEF LoadActive
  <2>3. accepting'[a] \in AcceptanceRow /\ accepting'[a].snapshot = accepting[a].snapshot
    BY ZenonT(30), <1>b, <2>1 DEF AcceptanceRow, BaselineTypeOK
  <2> QED
    BY <1>b, <2>1, <2>2, <2>3
       DEF BaselineInv, BaselineTypeOK, OneActiveBaseline, Active
<1>3. ASSUME NEW a \in Acceptors, CommitBaseline(a) PROVE BaselineInv'
  BY <1>3, <1>a, <1>b, CommitLeavesOne DEF CommitBaseline, BaselineInv, BaselineTypeOK
<1>4. ASSUME NEW a \in Acceptors, FailBaseline(a) PROVE BaselineInv'
  BY <1>4, <1>a, <1>b
     DEF FailBaseline, BaselineInv, BaselineTypeOK, OneActiveBaseline, Active
<1>5. CASE UNCHANGED baselineVars
  BY <1>5 DEF baselineVars, BaselineInv, BaselineTypeOK, OneActiveBaseline, Active
<1> QED BY <1>1, <1>2, <1>3, <1>4, <1>5 DEF BaselineNext

\* Acceptances that overlap leave an endpoint one active baseline, for any
\* number of snapshots and requests (baselines/service.py:11-48).
THEOREM BaselineStaysOne == BaselineSpec => []OneActiveBaseline
<1>1. BaselineInv => OneActiveBaseline
  BY DEF BaselineInv
<1> QED BY <1>1, BaselineStart, BaselineStep, PTL DEF BaselineSpec

-----------------------------------------------------------------------------
(* Decisions: a request that is to write an old value read it before the *)
(* decision that holds the column.                                        *)

Entry == [verdict : Verdicts, resolve : BOOLEAN, since : Nat]

ReviewRow ==
  [step : {"idle", "incident", "change"},
   was : [status : {"OPEN", "UNDER_REVIEW", "RESOLVED"}, resolvedAt : Nat],
   change : {"OPEN", "RESOLVED", "DISMISSED"}, verdict : Verdicts,
   resolve : BOOLEAN, since : Nat]

LEMMA ReviewTypes ==
  ASSUME ReviewTypeOK
  PROVE  /\ incident \in [status : {"OPEN", "UNDER_REVIEW", "RESOLVED"}, resolvedAt : Nat]
         /\ change \in {"OPEN", "RESOLVED", "DISMISSED"}
         /\ ledger \in Seq(Entry)
         /\ reviewing \in [Reviewers -> ReviewRow]
         /\ Len(ledger) \in Nat
         /\ Decisions = 1..Len(ledger)
         /\ \A r \in Reviewers : reviewing[r].since \in 0..Len(ledger)
         /\ Waiting \in ReviewRow /\ Waiting.step = "idle" /\ Waiting.since = 0
BY DEF ReviewTypeOK, ReviewRow, Entry, Decisions, Waiting, Open, Verdicts

LEMMA ReviewStart == ReviewInit => ReviewInv
<1> SUFFICES ASSUME ReviewInit PROVE ReviewInv
  OBVIOUS
<1>1. Waiting \in ReviewRow /\ Waiting.step = "idle" /\ Waiting.since = 0
  BY DEF ReviewRow, Waiting, Open, Verdicts
<1>2. ReviewTypeOK
  BY <1>1 DEF ReviewInit, ReviewTypeOK, Open, ReviewRow
<1>3. Decisions = {} /\ Resolutions = {}
  BY DEF ReviewInit, Decisions, Resolutions
<1>4. StatusHeld /\ TimeHeld /\ ChangeHeld
  BY <1>1, <1>3 DEF ReviewInit, StatusHeld, TimeHeld, ChangeHeld, LastWord, StatusBy, TimeBy,
     ChangeBy, Open
<1> QED BY <1>2, <1>4 DEF ReviewInv

\* What a commit does to the ledger, and what it leaves of the other requests.
LEMMA LedgerGrows ==
  ASSUME ReviewTypeOK, NEW r \in Reviewers, CommitDecision(r)
  PROVE  /\ ledger' \in Seq(Entry) /\ Len(ledger') = Len(ledger) + 1
         /\ \A i \in Decisions : ledger'[i] = ledger[i]
         /\ ledger'[Len(ledger) + 1].resolve = reviewing[r].resolve
         /\ ledger'[Len(ledger) + 1].verdict = reviewing[r].verdict
         /\ ledger'[Len(ledger) + 1].since = reviewing[r].since
         /\ Decisions' = Decisions \cup {Len(ledger) + 1}
         /\ Resolutions' = Resolutions \cup (IF reviewing[r].resolve THEN {Len(ledger) + 1} ELSE {})
         /\ \A q \in Reviewers : reviewing'[q] = IF q = r THEN Waiting ELSE reviewing[q]
<1> DEFINE w == reviewing[r]
           entry == [verdict |-> w.verdict, resolve |-> w.resolve, since |-> w.since]
           n == Len(ledger) + 1
<1>1. ledger' = Append(ledger, entry) /\ reviewing' = [reviewing EXCEPT ![r] = Waiting]
  BY DEF CommitDecision
<1>2. w \in ReviewRow
  BY ReviewTypes
<1>3. entry \in Entry
  BY <1>2 DEF ReviewRow, Entry
<1>4. /\ ledger \in Seq(Entry) /\ Len(ledger) \in Nat /\ Decisions = 1..Len(ledger)
  BY ReviewTypes
<1>5. /\ ledger' \in Seq(Entry) /\ Len(ledger') = n /\ ledger'[n] = entry
      /\ \A i \in 1..Len(ledger) : ledger'[i] = ledger[i]
  BY <1>1, <1>3, <1>4
<1>6. \A q \in Reviewers : reviewing'[q] = IF q = r THEN Waiting ELSE reviewing[q]
  BY <1>1, ReviewTypes
<1>7. Decisions' = 1..n
  BY <1>5 DEF Decisions
<1>8. Decisions' = Decisions \cup {n} /\ n \notin Decisions
  BY <1>4, <1>7
<1>9. Resolutions' = Resolutions \cup (IF w.resolve THEN {n} ELSE {})
  <2>1. \A k \in Decisions' : ledger'[k].resolve <=> IF k = n THEN w.resolve
                                                      ELSE ledger[k].resolve
    BY <1>4, <1>5, <1>8
  <2>2. Resolutions' = {k \in Decisions' : ledger'[k].resolve}
    BY DEF Resolutions
  <2> HIDE DEF w, n
  <2> QED BY <2>1, <2>2, <1>8 DEF Resolutions
<1> QED BY <1>4, <1>5, <1>6, <1>8, <1>9

LEMMA ReviewTypeStep == ReviewTypeOK /\ [ReviewNext]_reviewVars => ReviewTypeOK'
<1> SUFFICES ASSUME ReviewTypeOK, [ReviewNext]_reviewVars PROVE ReviewTypeOK'
  OBVIOUS
<1>1. ASSUME NEW r \in Reviewers, LoadIncident(r) PROVE ReviewTypeOK'
  <2>1. PICK verdict \in Verdicts, resolve \in BOOLEAN :
          reviewing' = [reviewing EXCEPT ![r] =
            [Waiting EXCEPT !.step = "incident", !.was = incident, !.verdict = verdict,
                            !.resolve = resolve, !.since = Len(ledger)]]
    BY <1>1 DEF LoadIncident
  <2>2. UNCHANGED <<incident, change, ledger>>
    BY <1>1 DEF LoadIncident
  <2>3. reviewing'[r] \in ReviewRow /\ reviewing'[r].since = Len(ledger)
    BY <2>1, ReviewTypes DEF ReviewRow, Waiting
  <2> QED BY SMTT(30), <2>1, <2>2, <2>3, ReviewTypes DEF ReviewTypeOK, ReviewRow
<1>2. ASSUME NEW r \in Reviewers, LoadChange(r) PROVE ReviewTypeOK'
  <2>1. /\ UNCHANGED <<incident, change, ledger>>
        /\ reviewing' = [reviewing EXCEPT ![r].step = "change", ![r].change = change]
    BY <1>2 DEF LoadChange
  <2>2. reviewing'[r] \in ReviewRow /\ reviewing'[r].since = reviewing[r].since
    BY ZenonT(30), <2>1, ReviewTypes DEF ReviewRow
  <2> QED BY SMTT(30), <2>1, <2>2, ReviewTypes DEF ReviewTypeOK, ReviewRow
<1>3. ASSUME NEW r \in Reviewers, CommitDecision(r) PROVE ReviewTypeOK'
  <2> DEFINE w == reviewing[r]
  <2>1. /\ incident' = DecidedRow(w)
        /\ change' = IF w.resolve THEN Written(w.change, ClosedAs(w.verdict), change)
                     ELSE change
    BY <1>3 DEF CommitDecision
  <2>2. w \in ReviewRow
    BY ReviewTypes
  <2>3. /\ incident' \in [status : {"OPEN", "UNDER_REVIEW", "RESOLVED"},
                          resolvedAt : 0..Len(ledger) + 1]
        /\ change' \in {"OPEN", "RESOLVED", "DISMISSED"}
    BY <2>1, <2>2, ReviewTypes DEF DecidedRow, Written, ClosedAs, ReviewRow, ReviewTypeOK
  <2>4. /\ ledger' \in Seq(Entry) /\ Len(ledger') = Len(ledger) + 1
        /\ \A q \in Reviewers : reviewing'[q] = IF q = r THEN Waiting ELSE reviewing[q]
    BY <1>3, LedgerGrows
  <2>5. reviewing' \in [Reviewers -> ReviewRow]
    BY <1>3, ReviewTypes DEF CommitDecision
  <2>6. \A q \in Reviewers : reviewing'[q].since \in 0..Len(ledger')
    <3> HIDE DEF w
    <3> QED BY <2>4, ReviewTypes
  <2> QED BY <2>3, <2>4, <2>5, <2>6 DEF ReviewTypeOK, ReviewRow, Entry
<1>4. CASE UNCHANGED reviewVars
  BY <1>4 DEF reviewVars, ReviewTypeOK
<1> QED BY <1>1, <1>2, <1>3, <1>4 DEF ReviewNext

\* Committed decisions keep their place and what they asked.
LEMMA LastWordKept ==
  ASSUME ReviewTypeOK, NEW r \in Reviewers, CommitDecision(r),
         NEW j \in {0} \cup Decisions, NEW some \in SUBSET Decisions
  PROVE  /\ StatusBy(j)' = StatusBy(j) /\ TimeBy(j)' = TimeBy(j) /\ ChangeBy(j)' = ChangeBy(j)
         /\ LastWord(j, some) => \A k \in some : j < k => ledger'[k].since < j
         /\ j < Len(ledger) + 1
<1>1. \A i \in Decisions : ledger'[i] = ledger[i]
  BY LedgerGrows
<1>2. j # 0 => ledger'[j] = ledger[j]
  BY <1>1
<1>3. Len(ledger) \in Nat /\ Decisions = 1..Len(ledger)
  BY ReviewTypes
<1> QED BY <1>1, <1>2, <1>3 DEF StatusBy, TimeBy, ChangeBy, LastWord

LEMMA StatusStep ==
  ASSUME ReviewInv, NEW r \in Reviewers, CommitDecision(r)
  PROVE  StatusHeld'
<1>n. PICK n : n = Len(ledger) + 1
  OBVIOUS
<1> DEFINE w == reviewing[r]
           asked == IF w.resolve THEN "RESOLVED" ELSE "UNDER_REVIEW"
<1>a. ReviewTypeOK /\ StatusHeld
  BY DEF ReviewInv
<1>1. /\ w.step = "change"
      /\ incident'.status = IF asked = w.was.status THEN incident.status ELSE asked
  BY <1>n DEF CommitDecision, DecidedRow, Written
<1>2. /\ Decisions' = Decisions \cup {n} /\ Decisions = 1..Len(ledger) /\ Len(ledger) \in Nat
      /\ ledger'[n].since = w.since /\ ledger'[n].resolve = w.resolve
      /\ \A q \in Reviewers : reviewing'[q] = IF q = r THEN Waiting ELSE reviewing[q]
      /\ Waiting.step = "idle"
      /\ \A q \in Reviewers : reviewing[q].since \in 0..Len(ledger)
  BY <1>a, <1>n, LedgerGrows, ReviewTypes
<1>3. CASE incident'.status = asked
  <2>1. StatusBy(n)' = asked
    BY <1>2, <1>n DEF StatusBy
  <2>2. LastWord(n, Decisions)'
    BY <1>2, <1>n DEF LastWord
  <2>3. \A q \in Reviewers : reviewing'[q].step # "idle" => reviewing'[q].since < n
    BY <1>2, <1>n
  <2> HIDE DEF asked, w
  <2> QED BY <1>2, <1>3, <2>1, <2>2, <2>3 DEF StatusHeld, Holds
<1>4. CASE incident'.status # asked
  <2>1. incident'.status = incident.status /\ w.was.status # incident.status
    BY <1>1, <1>4
  <2>2. PICK j \in {0} \cup Decisions :
          /\ incident.status = StatusBy(j) /\ LastWord(j, Decisions)
          /\ \A q \in Reviewers : reviewing[q].step # "idle" =>
               Holds(q, reviewing[q].was.status, incident.status, j)
    BY <1>a DEF StatusHeld
  <2>3. w.since < j
    BY <1>1, <2>1, <2>2 DEF Holds
  <2>4. StatusBy(j)' = StatusBy(j) /\ \A k \in Decisions : j < k => ledger'[k].since < j
    BY <1>a, <2>2, <1>n, LastWordKept
  <2>5. LastWord(j, Decisions)'
    BY <1>2, <1>n, <2>3, <2>4 DEF LastWord
  <2>6. \A q \in Reviewers : reviewing'[q].step # "idle" =>
          Holds(q, reviewing[q].was.status, incident.status, j)' 
    BY <1>2, <2>1, <2>2 DEF Holds
  <2> HIDE DEF asked, w
  <2> QED BY <1>2, <2>1, <2>2, <2>4, <2>5, <2>6 DEF StatusHeld
<1> QED BY <1>3, <1>4

LEMMA TimeStep ==
  ASSUME ReviewInv, NEW r \in Reviewers, CommitDecision(r)
  PROVE  TimeHeld'
<1>n. PICK n : n = Len(ledger) + 1
  OBVIOUS
<1> DEFINE w == reviewing[r]
           asked == IF w.resolve THEN n ELSE 0
<1>a. ReviewTypeOK /\ TimeHeld
  BY DEF ReviewInv
<1>1. /\ w.step = "change"
      /\ \/ incident'.resolvedAt = asked
         \/ incident'.resolvedAt = incident.resolvedAt /\ ~ w.resolve /\ w.was.resolvedAt = 0
  BY <1>n DEF CommitDecision, DecidedRow, Written
<1>2. /\ Decisions' = Decisions \cup {n} /\ Decisions = 1..Len(ledger) /\ Len(ledger) \in Nat
      /\ ledger'[n].since = w.since /\ ledger'[n].resolve = w.resolve
      /\ \A q \in Reviewers : reviewing'[q] = IF q = r THEN Waiting ELSE reviewing[q]
      /\ Waiting.step = "idle"
      /\ \A q \in Reviewers : reviewing[q].since \in 0..Len(ledger)
  BY <1>a, <1>n, LedgerGrows, ReviewTypes
<1>3. CASE incident'.resolvedAt = asked
  <2>1. TimeBy(n)' = asked
    BY <1>2, <1>n DEF TimeBy
  <2>2. LastWord(n, Decisions)'
    BY <1>2, <1>n DEF LastWord
  <2>3. \A q \in Reviewers : reviewing'[q].step # "idle" => reviewing'[q].since < n
    BY <1>2, <1>n
  <2> HIDE DEF asked, w
  <2> QED BY <1>2, <1>3, <2>1, <2>2, <2>3 DEF TimeHeld, Holds
<1>4. CASE incident'.resolvedAt # asked
  <2>1. incident'.resolvedAt = incident.resolvedAt /\ w.was.resolvedAt # incident.resolvedAt
    BY <1>1, <1>4
  <2>2. PICK j \in {0} \cup Decisions :
          /\ incident.resolvedAt = TimeBy(j) /\ LastWord(j, Decisions)
          /\ \A q \in Reviewers : reviewing[q].step # "idle" =>
               Holds(q, reviewing[q].was.resolvedAt, incident.resolvedAt, j)
    BY <1>a DEF TimeHeld
  <2>3. w.since < j
    BY <1>1, <2>1, <2>2 DEF Holds
  <2>4. TimeBy(j)' = TimeBy(j) /\ \A k \in Decisions : j < k => ledger'[k].since < j
    BY <1>a, <2>2, <1>n, LastWordKept
  <2>5. LastWord(j, Decisions)'
    BY <1>2, <1>n, <2>3, <2>4 DEF LastWord
  <2>6. \A q \in Reviewers : reviewing'[q].step # "idle" =>
          Holds(q, reviewing[q].was.resolvedAt, incident.resolvedAt, j)'
    BY <1>2, <2>1, <2>2 DEF Holds
  <2> HIDE DEF asked, w
  <2> QED BY <1>2, <2>1, <2>2, <2>4, <2>5, <2>6 DEF TimeHeld
<1> QED BY <1>3, <1>4

LEMMA ChangeStep ==
  ASSUME ReviewInv, NEW r \in Reviewers, CommitDecision(r)
  PROVE  ChangeHeld'
<1>n. PICK n : n = Len(ledger) + 1
  OBVIOUS
<1> DEFINE w == reviewing[r]
           asked == ClosedAs(w.verdict)
<1>a. ReviewTypeOK /\ ChangeHeld
  BY DEF ReviewInv
<1>1. /\ w.step = "change"
      /\ change' = IF w.resolve /\ asked # w.change THEN asked ELSE change
  BY DEF CommitDecision, Written
<1>2. /\ Decisions = 1..Len(ledger) /\ Len(ledger) \in Nat /\ Resolutions \subseteq Decisions
      /\ Resolutions' = Resolutions \cup (IF w.resolve THEN {n} ELSE {})
      /\ ledger'[n].since = w.since /\ ledger'[n].verdict = w.verdict
      /\ \A q \in Reviewers : reviewing'[q] = IF q = r THEN Waiting ELSE reviewing[q]
      /\ Waiting.step = "idle"
      /\ \A q \in Reviewers : reviewing[q].since \in 0..Len(ledger)
  BY <1>a, <1>n, LedgerGrows, ReviewTypes DEF Resolutions
<1>3. CASE w.resolve /\ change' = asked
  <2>1. ChangeBy(n)' = asked /\ n \in Resolutions'
    BY <1>2, <1>3, <1>n DEF ChangeBy
  <2>2. LastWord(n, Resolutions)'
    <3>1. \A k \in Resolutions' : k \in 1..n
      <4> HIDE DEF asked, w
      <4> QED BY <1>2, <1>n
    <3>2. \A k \in 1..n : ~ (n < k)
      BY <1>2, <1>n
    <3> QED BY <3>1, <3>2 DEF LastWord
  <2>3. \A q \in Reviewers : reviewing'[q].step = "change" => reviewing'[q].since < n
    BY <1>2, <1>n
  <2> HIDE DEF asked, w
  <2> QED BY <1>3, <2>1, <2>2, <2>3 DEF ChangeHeld, Holds
<1>4. CASE ~ (w.resolve /\ change' = asked)
  <2>1. change' = change /\ (w.resolve => w.change # change)
    BY <1>1, <1>4
  <2>2. PICK j \in {0} \cup Resolutions :
          /\ change = ChangeBy(j) /\ LastWord(j, Resolutions)
          /\ \A q \in Reviewers : reviewing[q].step = "change" =>
               Holds(q, reviewing[q].change, change, j)
    BY <1>a DEF ChangeHeld
  <2>3. w.resolve => w.since < j
    BY <1>1, <2>1, <2>2 DEF Holds
  <2>4. ChangeBy(j)' = ChangeBy(j) /\ \A k \in Resolutions : j < k => ledger'[k].since < j
    BY <1>a, <1>2, <2>2, <1>n, LastWordKept
  <2>5. LastWord(j, Resolutions)'
    BY <1>2, <1>n, <2>3, <2>4 DEF LastWord
  <2>6. \A q \in Reviewers : reviewing'[q].step = "change" =>
          Holds(q, reviewing[q].change, change, j)'
    BY <1>2, <2>1, <2>2 DEF Holds
  <2> HIDE DEF asked, w
  <2> QED BY <1>2, <2>1, <2>2, <2>4, <2>5, <2>6 DEF ChangeHeld
<1> QED BY <1>3, <1>4

\* A request that reads a row holds what it says.
LEMMA ReviewLoads ==
  ASSUME ReviewInv, UNCHANGED <<incident, change, ledger>>,
         \A r \in Reviewers :
           /\ reviewing'[r].step # "idle" =>
                \/ reviewing'[r].was = incident
                \/ reviewing[r].step # "idle" /\ reviewing'[r].was = reviewing[r].was
                   /\ reviewing'[r].since = reviewing[r].since
           /\ reviewing'[r].step = "change" =>
                \/ reviewing'[r].change = change
                \/ reviewing[r].step = "change" /\ reviewing'[r].change = reviewing[r].change
                   /\ reviewing'[r].since = reviewing[r].since
  PROVE  StatusHeld' /\ TimeHeld' /\ ChangeHeld'
<1>1. Decisions' = Decisions /\ Resolutions' = Resolutions
  BY DEF Decisions, Resolutions
<1>2. \A j : /\ StatusBy(j)' = StatusBy(j) /\ TimeBy(j)' = TimeBy(j) /\ ChangeBy(j)' = ChangeBy(j)
             /\ LastWord(j, Decisions)' = LastWord(j, Decisions)
             /\ LastWord(j, Resolutions)' = LastWord(j, Resolutions)
  BY <1>1 DEF StatusBy, TimeBy, ChangeBy, LastWord
<1>3. StatusHeld /\ TimeHeld /\ ChangeHeld
  BY DEF ReviewInv
<1>4. StatusHeld'
  BY <1>1, <1>2, <1>3 DEF StatusHeld, Holds
<1>5. TimeHeld'
  BY <1>1, <1>2, <1>3 DEF TimeHeld, Holds
<1>6. ChangeHeld'
  BY <1>1, <1>2, <1>3 DEF ChangeHeld, Holds
<1> QED BY <1>4, <1>5, <1>6

LEMMA ReviewStep == ReviewInv /\ [ReviewNext]_reviewVars => ReviewInv'
<1> SUFFICES ASSUME ReviewInv, [ReviewNext]_reviewVars PROVE ReviewInv'
  OBVIOUS
<1>a. ReviewTypeOK /\ ReviewTypeOK'
  BY ReviewTypeStep DEF ReviewInv
<1>1. ASSUME NEW r \in Reviewers, LoadIncident(r) PROVE ReviewInv'
  <2>1. PICK verdict \in Verdicts, resolve \in BOOLEAN :
          reviewing' = [reviewing EXCEPT ![r] =
            [Waiting EXCEPT !.step = "incident", !.was = incident, !.verdict = verdict,
                            !.resolve = resolve, !.since = Len(ledger)]]
    BY <1>1 DEF LoadIncident
  <2>2. /\ reviewing'[r].step = "incident" /\ reviewing'[r].was = incident
        /\ \A q \in Reviewers \ {r} : reviewing'[q] = reviewing[q]
    BY <2>1, <1>a, ReviewTypes DEF ReviewRow, Waiting
  <2>3. UNCHANGED <<incident, change, ledger>>
    BY <1>1 DEF LoadIncident
  <2> QED BY <1>a, <2>2, <2>3, ReviewLoads DEF ReviewInv
<1>2. ASSUME NEW r \in Reviewers, LoadChange(r) PROVE ReviewInv'
  <2>1. /\ reviewing[r].step = "incident" /\ UNCHANGED <<incident, change, ledger>>
        /\ reviewing' = [reviewing EXCEPT ![r].step = "change", ![r].change = change]
    BY <1>2 DEF LoadChange
  <2>2. /\ reviewing'[r].step = "change" /\ reviewing'[r].change = change
        /\ reviewing'[r].was = reviewing[r].was /\ reviewing'[r].since = reviewing[r].since
        /\ \A q \in Reviewers \ {r} : reviewing'[q] = reviewing[q]
    BY ZenonT(30), <2>1, <1>a, ReviewTypes DEF ReviewRow
  <2> QED BY <1>a, <2>1, <2>2, ReviewLoads DEF ReviewInv
<1>3. ASSUME NEW r \in Reviewers, CommitDecision(r) PROVE ReviewInv'
  BY <1>3, <1>a, StatusStep, TimeStep, ChangeStep DEF ReviewInv
<1>4. CASE UNCHANGED reviewVars
  BY <1>4, <1>a, ReviewLoads DEF reviewVars, ReviewInv
<1> QED BY <1>1, <1>2, <1>3, <1>4 DEF ReviewNext

\* However many requests overlap, each column of the incident and its change
\* event is as a decision asked that no later one had seen
\* (incidents/service.py:54-80).
THEOREM DecisionsPrevail == ReviewSpec => []DecisionsStand
<1>1. ReviewInv => DecisionsStand
  BY DEF ReviewInv, StatusHeld, TimeHeld, ChangeHeld, DecisionsStand
<1> QED BY <1>1, ReviewStart, ReviewStep, PTL DEF ReviewSpec

-----------------------------------------------------------------------------
(* Links: a request that is to leave a link it disputes began to read before *)
(* that link was made.                                                      *)

LinkRow ==
  [step : {"idle", "endpoint", "priors"}, endpoint : Endpoints \cup {NoAsset},
   asset : Assets \cup {NoAsset}, was : Assets \cup {NoAsset},
   priors : SUBSET Endpoints, since : Nat]
LinkEntry == [endpoint : Endpoints, asset : Assets, priors : SUBSET Endpoints, since : Nat]

LEMMA LinkTypes ==
  ASSUME LinkTypeOK
  PROVE  /\ link \in [Endpoints -> Assets \cup {NoAsset}]
         /\ linking \in [Linkers -> LinkRow]
         /\ linked \in Seq(LinkEntry) /\ Len(linked) \in Nat /\ Links = 1..Len(linked)
         /\ \A l \in Linkers : linking[l].since \in 0..Len(linked)
         /\ NotLinking \in LinkRow /\ NotLinking.step = "idle" /\ NotLinking.since = 0
BY DEF LinkTypeOK, LinkRow, LinkEntry, Links, NotLinking

LEMMA LinkStart == LinkInit => LinkInv
<1> SUFFICES ASSUME LinkInit PROVE LinkInv
  OBVIOUS
<1>1. NotLinking \in LinkRow /\ NotLinking.step = "idle" /\ NotLinking.since = 0
  BY DEF LinkRow, NotLinking
<1>2. LinkTypeOK /\ RequestsSound
  BY <1>1 DEF LinkInit, LinkTypeOK, LinkRow, RequestsSound
<1>3. Links = {}
  BY DEF LinkInit, Links
<1>4. LinksHeld
  BY <1>1, <1>3 DEF LinkInit, LinksHeld, Concerns, LinkBy, Undisputed, Spares
<1> QED BY <1>2, <1>4 DEF LinkInv

\* A request that reads holds what it read.
LEMMA LinkReads ==
  ASSUME LinkInv, NEW l \in Linkers, LoadEndpoint(l) \/ LoadPriors(l)
  PROVE  LinkInv'
<1>a. LinkTypeOK /\ RequestsSound /\ LinksHeld
  BY DEF LinkInv
<1> DEFINE w == linking'[l]
<1>1. UNCHANGED <<link, linked>>
  BY DEF LoadEndpoint, LoadPriors
<1>2. /\ w \in LinkRow /\ w.step # "idle" /\ w.endpoint \in Endpoints /\ w.asset \in Assets
      /\ w.endpoint \notin w.priors /\ w.since \in 0..Len(linked)
      /\ linking' = [linking EXCEPT ![l] = w]
      /\ \A e \in Endpoints : Spares(w, e) =>
            e = w.endpoint /\ Spares(linking[l], e) /\ w.since = linking[l].since
  <2>1. CASE LoadEndpoint(l)
    <3>1. PICK e \in Endpoints, a \in Assets :
            linking' = [linking EXCEPT ![l] =
              [step |-> "endpoint", endpoint |-> e, asset |-> a, was |-> link[e],
               priors |-> {}, since |-> Len(linked)]]
      BY <2>1 DEF LoadEndpoint
    <3>2. w = [step |-> "endpoint", endpoint |-> e, asset |-> a, was |-> link[e],
               priors |-> {}, since |-> Len(linked)]
      BY <3>1, <1>a, LinkTypes
    <3>3. w \in LinkRow /\ w.since \in 0..Len(linked)
      BY <3>2, <1>a, LinkTypes DEF LinkRow
    <3>4. \A f \in Endpoints : ~ Spares(w, f)
      BY <3>2 DEF Spares
    <3>5. linking' = [linking EXCEPT ![l] = w]
      BY <3>1, <3>2
    <3>6. w.endpoint = e /\ w.asset = a /\ w.priors = {} /\ w.step = "endpoint"
      BY <3>2
    <3> HIDE DEF w
    <3> QED BY <3>3, <3>4, <3>5, <3>6
  <2>2. CASE LoadPriors(l)
    <3>1. /\ linking[l].step = "endpoint"
          /\ linking' = [linking EXCEPT ![l].step = "priors",
                                        ![l].priors = PriorsOf(linking[l])]
      BY <2>2 DEF LoadPriors
    <3>2. PriorsOf(linking[l]) \subseteq Endpoints
          /\ linking[l].endpoint \notin PriorsOf(linking[l])
      BY DEF PriorsOf
    <3>3. /\ w \in LinkRow /\ w.step = "priors" /\ w.endpoint = linking[l].endpoint
          /\ w.asset = linking[l].asset /\ w.was = linking[l].was
          /\ w.since = linking[l].since /\ w.priors = PriorsOf(linking[l])
          /\ linking' = [linking EXCEPT ![l] = w]
      BY <3>1, <3>2, <1>a, LinkTypes DEF LinkRow
    <3>4. \A f \in Endpoints : Spares(w, f) => f = w.endpoint /\ Spares(linking[l], f)
      BY <3>1, <3>3 DEF Spares, Disputes, PriorsOf
    <3> HIDE DEF w
    <3> QED BY <3>1, <3>2, <3>3, <3>4, <1>a, LinkTypes DEF RequestsSound
  <2> QED BY <2>1, <2>2
<1> HIDE DEF w
<1>3. /\ linking'[l] = w /\ \A m \in Linkers : m # l => linking'[m] = linking[m]
      /\ linking' \in [Linkers -> LinkRow]
  BY <1>2, <1>a, LinkTypes
<1>4. LinkTypeOK' /\ RequestsSound'
  BY <1>1, <1>2, <1>3, <1>a, LinkTypes DEF LinkTypeOK, RequestsSound, LinkRow
<1>5. LinksHeld'
  <2>1. ASSUME NEW e \in Endpoints
        PROVE  \E j \in {0} \cup Links' :
                 /\ Concerns(j, e)' /\ link'[e] = LinkBy(j, e)' /\ Undisputed(j, e)'
                 /\ \A m \in Linkers : Spares(linking[m], e)' => linking'[m].since < j
    <3>1. PICK j \in {0} \cup Links :
            /\ Concerns(j, e) /\ link[e] = LinkBy(j, e) /\ Undisputed(j, e)
            /\ \A m \in Linkers : Spares(linking[m], e) => linking[m].since < j
      BY <1>a DEF LinksHeld
    <3>2. /\ Links' = Links /\ Concerns(j, e)' = Concerns(j, e) /\ LinkBy(j, e)' = LinkBy(j, e)
          /\ Undisputed(j, e)' = Undisputed(j, e)
      BY <1>1 DEF Links, Concerns, LinkBy, Undisputed
    <3>3. ASSUME NEW m \in Linkers, Spares(linking[m], e)' PROVE linking'[m].since < j
      <4>1. Spares(linking'[m], e)
        BY <1>1, <3>3 DEF Spares
      <4> QED BY <4>1, <1>2, <1>3, <3>1
    <3> QED BY <1>1, <3>1, <3>2, <3>3
  <2> QED BY <2>1 DEF LinksHeld
<1> QED BY <1>4, <1>5 DEF LinkInv

\* What a commit does to an endpoint, and what it adds to the links made.
LEMMA LinkCommits ==
  ASSUME LinkInv, NEW l \in Linkers, CommitLink(l)
  PROVE  LinkInv'
<1>a. LinkTypeOK /\ RequestsSound /\ LinksHeld
  BY DEF LinkInv
<1>n. PICK n : n = Len(linked) + 1
  OBVIOUS
<1>w. PICK w : w = linking[l]
  OBVIOUS
<1> DEFINE entry == [endpoint |-> w.endpoint, asset |-> w.asset, priors |-> w.priors,
                     since |-> w.since]
<1>1. /\ w.step = "priors"
      /\ link' = [e \in Endpoints |->
                    IF e = w.endpoint /\ w.was # w.asset THEN w.asset
                    ELSE IF e \in w.priors THEN NoAsset ELSE link[e]]
      /\ linking' = [linking EXCEPT ![l] = NotLinking]
      /\ linked' = Append(linked, entry)
  BY <1>w DEF CommitLink
<1>2. /\ w \in LinkRow /\ w.endpoint \in Endpoints /\ w.asset \in Assets
      /\ w.endpoint \notin w.priors /\ w.since \in 0..Len(linked)
  BY <1>w, <1>1, <1>a, LinkTypes DEF RequestsSound
<1>3. entry \in LinkEntry
  BY <1>2 DEF LinkRow, LinkEntry
<1> HIDE DEF entry
<1>4. linked \in Seq(LinkEntry) /\ Len(linked) \in Nat /\ Links = 1..Len(linked)
  BY <1>a, LinkTypes
<1>5. /\ linked' \in Seq(LinkEntry) /\ Len(linked') = n /\ linked'[n] = entry
      /\ \A i \in Links : linked'[i] = linked[i]
      /\ Links' = Links \cup {n}
  <2>1. /\ linked' \in Seq(LinkEntry) /\ Len(linked') = n /\ linked'[n] = entry
        /\ \A i \in Links : linked'[i] = linked[i]
    BY <1>1, <1>3, <1>4, <1>n
  <2> QED BY <2>1, <1>4, <1>n DEF Links
<1>6. \A m \in Linkers : linking'[m] = IF m = l THEN NotLinking ELSE linking[m]
  BY <1>1, <1>a, LinkTypes
<1>7. LinkTypeOK'
  <2>1. link' \in [Endpoints -> Assets \cup {NoAsset}]
    BY <1>1, <1>2, <1>a, LinkTypes
  <2>2. linking' \in [Linkers -> LinkRow]
    BY <1>1, <1>a, LinkTypes
  <2>3. \A m \in Linkers : linking'[m].since \in 0..Len(linked')
    BY <1>4, <1>5, <1>6, <1>n, <1>a, LinkTypes
  <2> QED BY <2>1, <2>2, <2>3, <1>5 DEF LinkTypeOK, LinkRow, LinkEntry
<1>8. RequestsSound'
  BY <1>6, <1>a, LinkTypes DEF RequestsSound
<1>9. entry.endpoint = w.endpoint /\ entry.asset = w.asset /\ entry.priors = w.priors
      /\ entry.since = w.since
  BY DEF entry
<1>10. ASSUME NEW e \in Endpoints
       PROVE  \E j \in {0} \cup Links' :
                /\ Concerns(j, e)' /\ link'[e] = LinkBy(j, e)' /\ Undisputed(j, e)'
                /\ \A m \in Linkers : Spares(linking[m], e)' => linking'[m].since < j
  <2>1. CASE (e = w.endpoint /\ w.was # w.asset) \/ e \in w.priors
    <3>1. Concerns(n, e)' /\ link'[e] = LinkBy(n, e)'
      BY <2>1, <1>1, <1>2, <1>4, <1>5, <1>9, <1>n DEF Concerns, LinkBy
    <3>2. Undisputed(n, e)'
      BY <1>4, <1>5, <1>n DEF Undisputed
    <3>3. \A m \in Linkers : linking'[m].since < n
      BY <1>4, <1>6, <1>n, <1>a, LinkTypes
    <3> QED BY <3>1, <3>2, <3>3, <1>5
  <2>2. CASE ~ ((e = w.endpoint /\ w.was # w.asset) \/ e \in w.priors)
    <3>1. link'[e] = link[e]
      BY <2>2, <1>1
    <3>2. PICK j \in {0} \cup Links :
            /\ Concerns(j, e) /\ link[e] = LinkBy(j, e) /\ Undisputed(j, e)
            /\ \A m \in Linkers : Spares(linking[m], e) => linking[m].since < j
      BY <1>a DEF LinksHeld
    <3>3. Concerns(j, e)' /\ link'[e] = LinkBy(j, e)'
      BY <3>1, <3>2, <1>5 DEF Concerns, LinkBy
    <3>4. Disputes(w.endpoint, w.asset, e, link[e]) => w.since < j
      <4>1. Disputes(w.endpoint, w.asset, e, link[e]) => Spares(w, e)
        BY <2>2, <1>1 DEF Spares, Disputes
      <4> QED BY <4>1, <3>2, <1>w
    <3>5. Undisputed(j, e)'
      BY <3>1, <3>2, <3>4, <1>5, <1>9 DEF Undisputed
    <3>6. ASSUME NEW m \in Linkers, Spares(linking[m], e)' PROVE linking'[m].since < j
      <4>1. linking'[m] = linking[m]
        BY <3>6, <1>6, <1>a, LinkTypes DEF Spares
      <4>2. Spares(linking[m], e)
        BY <3>1, <3>6, <4>1 DEF Spares
      <4> QED BY <4>1, <4>2, <3>2
    <3> QED BY <3>3, <3>5, <3>6, <1>5
  <2> QED BY <2>1, <2>2
<1>11. LinksHeld'
  BY <1>10 DEF LinksHeld
<1> QED BY <1>7, <1>8, <1>11 DEF LinkInv

LEMMA LinkStep == LinkInv /\ [LinkNext]_linkVars => LinkInv'
<1> SUFFICES ASSUME LinkInv, [LinkNext]_linkVars PROVE LinkInv'
  OBVIOUS
<1>1. CASE UNCHANGED linkVars
  BY <1>1 DEF linkVars, LinkInv, LinkTypeOK, RequestsSound, LinksHeld, Links, Concerns, LinkBy,
     Undisputed, Spares
<1> QED BY <1>1, LinkReads, LinkCommits DEF LinkNext

\* However requests overlap, an endpoint is linked as one of them asked that
\* no later one against it had seen (admin_assets.py:1010-1053).
THEOREM LinksPrevail == LinkSpec => []LinksStand
<1>1. LinkInv => LinksStand
  BY DEF LinkInv, LinksHeld, LinksStand
<1> QED BY <1>1, LinkStart, LinkStep, PTL DEF LinkSpec

-----------------------------------------------------------------------------
(* Reports: what a report that is alone loaded is still so at its commit, and *)
(* what an evaluation selected is stale unless it was heard from since.      *)

Knowledge == {"ONLINE", "REQUIRES_VERIFICATION", "IDENTITY_CONFLICT"}
SightingRow(h) ==
  [computer : Computers \cup {NoComputer}, received : 0..h, was : Knowledge, alone : BOOLEAN]

LEMMA FreshTypes ==
  ASSUME FreshTypeOK
  PROVE  /\ hour \in Nat /\ status \in [Computers -> Knowledge]
         /\ lastSeen \in [Computers -> 0..hour] /\ sweep \in [Sweepers -> SUBSET Computers]
         /\ heard \in [Sweepers -> SUBSET Computers]
         /\ sighting \in [Sightings -> SightingRow(hour)]
         /\ Unseen \in SightingRow(hour) /\ Unseen.computer = NoComputer
BY FreshAssumption DEF FreshTypeOK, Knowledge, SightingRow, Unseen

LEMMA FreshStart == FreshInit => FreshInv
<1> SUFFICES ASSUME FreshInit PROVE FreshInv
  OBVIOUS
<1>1. Unseen \in SightingRow(0) /\ Unseen.computer = NoComputer
  BY DEF SightingRow, Unseen, Knowledge
<1>2. FreshTypeOK
  BY <1>1, FreshAssumption DEF FreshInit, FreshTypeOK, SightingRow, Knowledge
<1> QED BY <1>1, <1>2 DEF FreshInit, FreshInv, AloneIsUntouched, SelectedIsStale

\* Sessions whose solitude ends when the computers of cs are written.
LEMMA EndsSolitude ==
  ASSUME FreshTypeOK, NEW cs
  PROVE  /\ Overtaken(cs) \in [Sightings -> SightingRow(hour)]
         /\ \A s \in Sightings :
              /\ Overtaken(cs)[s].computer = sighting[s].computer
              /\ Overtaken(cs)[s].was = sighting[s].was
              /\ Overtaken(cs)[s].alone => sighting[s].alone /\ sighting[s].computer \notin cs
<1>1. ASSUME NEW s \in Sightings
      PROVE  /\ Overtaken(cs)[s] \in SightingRow(hour)
             /\ Overtaken(cs)[s].computer = sighting[s].computer
             /\ Overtaken(cs)[s].was = sighting[s].was
             /\ Overtaken(cs)[s].alone => sighting[s].alone /\ sighting[s].computer \notin cs
  BY FreshTypes DEF SightingRow, Overtaken
<1>2. Overtaken(cs) \in [Sightings -> SightingRow(hour)]
  BY <1>1 DEF Overtaken
<1> QED BY <1>1, <1>2

\* What is known of a computer changes at a report of it, and every evaluation
\* that selected it hears of that.
LEMMA HearingReport ==
  ASSUME FreshTypeOK, SelectedIsStale, NEW c \in Computers, NEW t \in 0..hour,
         lastSeen' = [lastSeen EXCEPT ![c] = t], heard' = HeardOf(c), UNCHANGED <<hour, sweep>>
  PROVE  /\ lastSeen' \in [Computers -> 0..hour] /\ heard' \in [Sweepers -> SUBSET Computers]
         /\ SelectedIsStale'
<1>1. lastSeen' \in [Computers -> 0..hour] /\ heard' \in [Sweepers -> SUBSET Computers]
  BY FreshTypes DEF HeardOf
<1>2. ASSUME NEW w \in Sweepers, NEW d \in sweep'[w] \ heard'[w] PROVE Stale(d)'
  <2>1. d \in Computers /\ d # c /\ d \in sweep[w] \ heard[w]
    BY <1>2, FreshTypes DEF HeardOf
  <2> QED BY <2>1, FreshTypes DEF SelectedIsStale, Stale
<1> QED BY <1>1, <1>2 DEF SelectedIsStale

LEMMA FreshStep == FreshInv /\ [FreshNext]_freshVars => FreshInv'
<1> SUFFICES ASSUME FreshInv, [FreshNext]_freshVars PROVE FreshInv'
  OBVIOUS
<1> USE FreshAssumption
<1>a. FreshTypeOK /\ AloneIsUntouched /\ SelectedIsStale
  BY DEF FreshInv
<1>1. CASE PassHour
  <2>1. /\ hour' = hour + 1 /\ hour' <= LastHour
        /\ UNCHANGED <<status, lastSeen, sighting, sweep, heard>>
    BY <1>1, <1>a DEF PassHour, FreshTypeOK
  <2>2. \A h \in 0..hour : h \in 0..hour'
    BY <2>1, <1>a, FreshTypes
  <2>3. lastSeen' \in [Computers -> 0..hour'] /\ sighting' \in [Sightings -> SightingRow(hour')]
    BY <2>1, <2>2, <1>a, FreshTypes DEF SightingRow
  <2>4. AloneIsUntouched' /\ SelectedIsStale'
    BY <2>1, <1>a, FreshTypes DEF AloneIsUntouched, SelectedIsStale, Stale
  <2> QED
    BY <2>1, <2>3, <2>4, <1>a, FreshTypes DEF FreshInv, FreshTypeOK, SightingRow, Knowledge
<1>2. ASSUME NEW s \in Sightings, LoadComputer(s) PROVE FreshInv'
  <2>1. PICK c \in Computers :
          sighting' = [sighting EXCEPT ![s] =
            [computer |-> c, received |-> hour, was |-> status[c], alone |-> TRUE]]
    BY <1>2 DEF LoadComputer
  <2>2. UNCHANGED <<hour, status, lastSeen, sweep, heard>>
    BY <1>2 DEF LoadComputer
  <2>3. sighting'[s] \in SightingRow(hour)
    BY <2>1, <1>a, FreshTypes DEF SightingRow
  <2>4. AloneIsUntouched' /\ SelectedIsStale'
    BY <2>1, <2>2, <1>a, FreshTypes DEF AloneIsUntouched, SelectedIsStale, Stale
  <2> QED
    BY <2>1, <2>2, <2>3, <2>4, <1>a, FreshTypes DEF FreshInv, FreshTypeOK, SightingRow, Knowledge
<1>3. ASSUME NEW s \in Sightings, CommitSighting(s) PROVE FreshInv'
  <2> DEFINE c == sighting[s].computer
  <2>1. /\ c # NoComputer /\ UNCHANGED <<hour, sweep>>
        /\ status' = [status EXCEPT ![c] = SeenStatus(s, c)]
        /\ lastSeen' = [lastSeen EXCEPT ![c] = sighting[s].received]
        /\ heard' = HeardOf(c)
        /\ sighting' = [Overtaken({c}) EXCEPT ![s] = Unseen]
    BY <1>3 DEF CommitSighting
  <2>2. c \in Computers /\ sighting[s].received \in 0..hour /\ SeenStatus(s, c) \in Knowledge
    BY <2>1, <1>a, FreshTypes DEF SightingRow, SeenStatus, Knowledge
  <2> HIDE DEF c
  <2>3. /\ Overtaken({c}) \in [Sightings -> SightingRow(hour)]
        /\ \A q \in Sightings : q # s => sighting'[q] = Overtaken({c})[q]
        /\ sighting'[s] = Unseen
    BY <2>1, <1>a, EndsSolitude
  <2>4. sighting' \in [Sightings -> SightingRow(hour)]
    BY <2>1, <2>3, <1>a, FreshTypes
  <2>5. AloneIsUntouched'
    BY <2>1, <2>3, <1>a, EndsSolitude, FreshTypes DEF AloneIsUntouched, SightingRow
  <2>6. /\ lastSeen' \in [Computers -> 0..hour] /\ heard' \in [Sweepers -> SUBSET Computers]
        /\ SelectedIsStale'
    BY <2>1, <2>2, <1>a, HearingReport
  <2> QED
    BY <2>1, <2>2, <2>4, <2>5, <2>6, <1>a, FreshTypes
       DEF FreshInv, FreshTypeOK, SightingRow, Knowledge
<1>4. ASSUME NEW c \in Computers, AgentReport(c) PROVE FreshInv'
  <2>1. /\ status' = [status EXCEPT ![c] = "ONLINE"] /\ UNCHANGED <<hour, sweep>>
        /\ lastSeen' = [lastSeen EXCEPT ![c] = hour] /\ heard' = HeardOf(c)
        /\ sighting' = Overtaken({c})
    BY <1>4 DEF AgentReport
  <2>2. AloneIsUntouched' /\ sighting' \in [Sightings -> SightingRow(hour)]
    BY <2>1, <1>a, EndsSolitude, FreshTypes DEF AloneIsUntouched, SightingRow
  <2>3. status' \in [Computers -> Knowledge]
    BY <2>1, <1>a, FreshTypes DEF Knowledge
  <2>4. /\ lastSeen' \in [Computers -> 0..hour] /\ heard' \in [Sweepers -> SUBSET Computers]
        /\ SelectedIsStale'
    <3>1. hour \in 0..hour
      BY <1>a, FreshTypes
    <3> QED BY <2>1, <3>1, <1>a, HearingReport
  <2> QED
    BY <2>1, <2>2, <2>3, <2>4, <1>a, FreshTypes
       DEF FreshInv, FreshTypeOK, SightingRow, Knowledge
<1>5. ASSUME NEW b \in Computers, NEW c \in Computers, Conflict(b, c) PROVE FreshInv'
  <2>1. /\ status' = [status EXCEPT ![b] = "IDENTITY_CONFLICT", ![c] = "IDENTITY_CONFLICT"]
        /\ sighting' = Overtaken({b, c}) /\ UNCHANGED <<hour, lastSeen, sweep, heard>>
    BY <1>5 DEF Conflict
  <2>2. status' \in [Computers -> Knowledge]
    BY <2>1, <1>a, FreshTypes DEF Knowledge
  <2>3. AloneIsUntouched' /\ sighting' \in [Sightings -> SightingRow(hour)]
    <3>1. \A d \in Computers : d \notin {b, c} => status'[d] = status[d]
      BY <2>1, <1>a, FreshTypes
    <3>2. \A s \in Sightings : sighting[s].computer \in Computers \cup {NoComputer}
      BY <1>a, FreshTypes DEF SightingRow
    <3>3. /\ sighting' \in [Sightings -> SightingRow(hour)]
          /\ \A s \in Sightings :
               /\ sighting'[s].computer = sighting[s].computer
               /\ sighting'[s].was = sighting[s].was
               /\ sighting'[s].alone => sighting[s].alone /\ sighting[s].computer \notin {b, c}
      BY <2>1, <1>a, EndsSolitude
    <3> QED BY <3>1, <3>2, <3>3, <1>a DEF AloneIsUntouched
  <2>4. SelectedIsStale'
    BY <2>1, <1>a DEF SelectedIsStale, Stale
  <2> QED
    BY <2>1, <2>2, <2>3, <2>4, <1>a, FreshTypes
       DEF FreshInv, FreshTypeOK, SightingRow, Knowledge
<1>6. ASSUME NEW w \in Sweepers, SelectStale(w) PROVE FreshInv'
  <2>1. /\ sweep' = [sweep EXCEPT ![w] =
                       {c \in Computers : Stale(c) /\ status[c] # "REQUIRES_VERIFICATION"}]
        /\ heard' = [heard EXCEPT ![w] = {}]
        /\ UNCHANGED <<hour, status, lastSeen, sighting>>
    BY <1>6 DEF SelectStale
  <2>2. AloneIsUntouched' /\ SelectedIsStale'
    BY <2>1, <1>a, FreshTypes DEF AloneIsUntouched, SelectedIsStale, Stale
  <2> QED
    BY <2>1, <2>2, <1>a, FreshTypes DEF FreshInv, FreshTypeOK, SightingRow, Knowledge
<1>7. ASSUME NEW w \in Sweepers, CommitSweep(w) PROVE FreshInv'
  <2>1. /\ status' = [c \in Computers |-> IF c \in sweep[w] THEN "REQUIRES_VERIFICATION"
                                          ELSE status[c]]
        /\ sweep' = [sweep EXCEPT ![w] = {}] /\ heard' = [heard EXCEPT ![w] = {}]
        /\ sighting' = Overtaken(sweep[w]) /\ UNCHANGED <<hour, lastSeen>>
    BY <1>7 DEF CommitSweep
  <2>2. AloneIsUntouched' /\ sighting' \in [Sightings -> SightingRow(hour)]
    BY <2>1, <1>a, EndsSolitude, FreshTypes DEF AloneIsUntouched, SightingRow
  <2>3. SelectedIsStale'
    BY <2>1, <1>a, FreshTypes DEF SelectedIsStale, Stale
  <2> QED
    BY <2>1, <2>2, <2>3, <1>a, FreshTypes DEF FreshInv, FreshTypeOK, SightingRow, Knowledge
<1>8. CASE UNCHANGED freshVars
  BY <1>8 DEF freshVars, FreshInv, FreshTypeOK, AloneIsUntouched, SelectedIsStale, Stale
<1> QED BY <1>1, <1>2, <1>3, <1>4, <1>5, <1>6, <1>7, <1>8 DEF FreshNext

\* The commit of a report that is alone, and not older than a computer stays
\* fresh, shows its computer online in both views.
LEMMA LoneSighting ==
  ASSUME FreshInv, [FreshNext]_freshVars, NEW s \in Sightings, NEW c \in Computers,
         sighting[s].computer = c, sighting'[s].computer = NoComputer,
         sighting[s].alone, hour <= sighting[s].received + StaleAfter
  PROVE  ConnectionStatus(c)' = "ONLINE" /\ EffectiveStatus(c)' = "ONLINE"
<1> USE FreshAssumption
<1>a. FreshTypeOK /\ AloneIsUntouched
  BY DEF FreshInv
<1>1. CommitSighting(s)
  <2>1. ASSUME NEW q \in Sightings, LoadComputer(q) PROVE FALSE
    BY <2>1, <1>a, FreshTypes DEF LoadComputer
  <2>2. ASSUME NEW cs, sighting'[s] = Overtaken(cs)[s] PROVE FALSE
    BY <2>2, <1>a, EndsSolitude
  <2>3. ASSUME NEW q \in Sightings, CommitSighting(q), q # s PROVE FALSE
    <3>1. sighting'[s] = Overtaken({sighting[q].computer})[s]
      BY <2>3, <1>a, EndsSolitude DEF CommitSighting
    <3> QED BY <2>2, <3>1
  <2> QED
    BY <2>1, <2>2, <2>3
       DEF FreshNext, PassHour, AgentReport, Conflict, SelectStale, CommitSweep, freshVars
<1>2. /\ status' = [status EXCEPT ![c] = SeenStatus(s, c)] /\ hour' = hour
      /\ lastSeen' = [lastSeen EXCEPT ![c] = sighting[s].received]
  BY <1>1 DEF CommitSighting
<1>3. sighting[s].was = status[c]
  BY <1>a DEF AloneIsUntouched
<1>4. status'[c] = "ONLINE" /\ lastSeen'[c] = sighting[s].received
  BY <1>2, <1>3, <1>a, FreshTypes DEF SeenStatus
<1>5. ~ Stale(c)'
  <2>1. sighting[s].received \in Nat /\ hour \in Nat
    BY <1>a, FreshTypes DEF SightingRow
  <2> QED BY <1>2, <1>4, <2>1 DEF Stale
<1> QED BY <1>4, <1>5 DEF ConnectionStatus, EffectiveStatus

\* Only an evaluation asks for verification, of what it selected.
LEMMA LateEvaluation ==
  ASSUME FreshInv, [FreshNext]_freshVars, NEW c \in Computers, ~ Stale(c),
         status[c] # "REQUIRES_VERIFICATION", status'[c] = "REQUIRES_VERIFICATION"
  PROVE  \E w \in Sweepers : c \in sweep[w] \cap heard[w]
<1>a. FreshTypeOK /\ SelectedIsStale
  BY DEF FreshInv
<1>1. PICK w \in Sweepers : CommitSweep(w)
  <2>1. ASSUME NEW s \in Sightings, CommitSighting(s) PROVE FALSE
    BY <2>1, <1>a, FreshTypes DEF CommitSighting, SeenStatus
  <2>2. ASSUME NEW d \in Computers, AgentReport(d) PROVE FALSE
    BY <2>2, <1>a, FreshTypes DEF AgentReport
  <2>3. ASSUME NEW b \in Computers, NEW d \in Computers, Conflict(b, d) PROVE FALSE
    BY <2>3, <1>a, FreshTypes DEF Conflict
  <2> QED BY <2>1, <2>2, <2>3 DEF FreshNext, PassHour, LoadComputer, SelectStale, freshVars
<1>2. c \in sweep[w]
  BY <1>1 DEF CommitSweep
<1> QED BY <1>2, <1>a DEF SelectedIsStale

\* A report that commits over what it loaded shows its computer online on its
\* page and in the dashboard's counts, and an evaluation marks a computer heard
\* from in time only if the report came between its query and its commit
\* (normalizer.py:184-190, endpoints/service.py:9-40).
THEOREM ReportsPrevail == FreshSpec => ReportsShow
<1>1. FreshInv /\ [FreshNext]_freshVars =>
        [/\ \A s \in Sightings, c \in Computers :
              /\ sighting[s].computer = c /\ sighting'[s].computer = NoComputer
              /\ sighting[s].alone /\ hour <= sighting[s].received + StaleAfter
              => ConnectionStatus(c)' = "ONLINE" /\ EffectiveStatus(c)' = "ONLINE"
         /\ \A c \in Computers :
              /\ status[c] # "REQUIRES_VERIFICATION" /\ status'[c] = "REQUIRES_VERIFICATION"
              /\ ~ Stale(c)
              => \E w \in Sweepers : c \in sweep[w] \cap heard[w]]_freshVars
  BY LoneSighting, LateEvaluation
<1> QED BY <1>1, FreshStart, FreshStep, PTL DEF FreshSpec, ReportsShow

-----------------------------------------------------------------------------
(* Captures: uploads and acceptances of one room. *)

ScanRow == [status : {"NOT_CHECKED", "OK", "WARNING", None},
            counts : Counts \cup {None}, expected : Counts \cup {None}]
AcceptRow == [scan : Scans \cup {None}, loaded : BaselineRow, since : Nat]
AcceptEntry == [scan : Scans, since : Nat]

LEMMA VisionTypes ==
  ASSUME VisionTypeOK
  PROVE  /\ scan \in [Scans -> ScanRow] /\ upload \in [Scans -> UploadRow]
         /\ acceptance \in [Acceptances -> AcceptRow]
         /\ NotUploading \in UploadRow /\ NotUploading.step = "idle"
         /\ Unasked \in AcceptRow /\ Unasked.scan = None
         /\ Unasked.since = 0 /\ Unasked.loaded = NoBaseline
         /\ accepted \in Seq(AcceptEntry) /\ Len(accepted) \in Nat
         /\ Committed = 1..Len(accepted)
         /\ \A j \in Committed : accepted[j] \in AcceptEntry
         /\ \A a \in Acceptances : acceptance[a].since \in 0..Len(accepted)
<1>1. /\ scan \in [Scans -> ScanRow] /\ upload \in [Scans -> UploadRow]
      /\ acceptance \in [Acceptances -> AcceptRow]
      /\ accepted \in Seq(AcceptEntry)
      /\ \A a \in Acceptances : acceptance[a].since \in 0..Len(accepted)
  BY DEF VisionTypeOK, AcceptEntry, ScanRow, AcceptRow
<1>2. /\ NotUploading \in UploadRow /\ NotUploading.step = "idle"
      /\ Unasked \in AcceptRow /\ Unasked.scan = None
      /\ Unasked.since = 0 /\ Unasked.loaded = NoBaseline
  BY DEF AcceptRow, UploadRow, NotUploading, Unasked, BaselineRow, NoBaseline
<1>3. Len(accepted) \in Nat /\ Committed = 1..Len(accepted)
  BY <1>1 DEF Committed
<1>4. \A j \in Committed : accepted[j] \in AcceptEntry
  BY <1>1, <1>3
<1> QED BY <1>1, <1>2, <1>3, <1>4

LEMMA VisionStart == VisionInit => VisionInv
<1> SUFFICES ASSUME VisionInit PROVE VisionInv
  OBVIOUS
<1>1. /\ NotUploading \in UploadRow /\ NotUploading.step = "idle"
      /\ Unasked \in AcceptRow /\ Unasked.scan = None /\ NoScan \in ScanRow
      /\ NoBaseline \in BaselineRow
  BY DEF AcceptRow, UploadRow, ScanRow, NotUploading, Unasked, BaselineRow, NoBaseline, NoScan
<1>2. Unasked.loaded = NoBaseline /\ Unasked.since = 0
  BY DEF Unasked
<1>3. VisionTypeOK
  <2>1. accepted = <<>> /\ accepted \in Seq([scan : Scans, since : Nat]) /\ Len(accepted) = 0
    BY DEF VisionInit
  <2>2. \A a \in Acceptances : acceptance[a].since \in 0..Len(accepted)
    BY <1>2, <2>1 DEF VisionInit
  <2> QED BY <1>1, <2>1, <2>2 DEF VisionInit, VisionTypeOK, AcceptRow, ScanRow
<1>4. UploadsComplete /\ BaselineHeld
  BY <1>1, <1>2 DEF VisionInit, UploadsComplete, BaselineHeld, Committed, Stored
<1> QED BY <1>3, <1>4 DEF VisionInv

\* Where scans keep counts and verdict, the baseline is what it was.
LEMMA BaselineKept ==
  ASSUME VisionInv, UNCHANGED <<roomBaseline, acceptance, accepted>>,
         \A s \in Scans : Stored(s) => scan'[s] = scan[s]
  PROVE  BaselineHeld'
<1>a. VisionTypeOK /\ UploadsComplete /\ BaselineHeld
  BY DEF VisionInv
<1>1. Committed' = Committed /\ \A j : Unopposed(j)' = Unopposed(j)
  BY DEF Committed, Unopposed
<1>2. \A j \in Committed : accepted[j].scan \in Scans /\ scan'[accepted[j].scan] = scan[accepted[j].scan]
  <2>1. ASSUME NEW j \in Committed PROVE accepted[j].scan \in Scans /\ Stored(accepted[j].scan)
    <3>1. accepted[j].scan \in Scans
      BY <1>a, VisionTypes DEF AcceptEntry
    <3> QED BY <3>1, <1>a DEF BaselineHeld
  <2> QED BY <2>1
<1>3. (SourceHeld => SourceHeld') /\ (CountsHeld => CountsHeld')
  BY <1>1, <1>2 DEF SourceHeld, CountsHeld
<1> QED BY <1>1, <1>2, <1>3, <1>a DEF BaselineHeld, Stored

\* A step of an upload before its commit.
LEMMA UploadMoves ==
  ASSUME VisionInv, NEW s \in Scans, NEW u \in UploadRow,
         upload' = [upload EXCEPT ![s] = u], images \subseteq images', images' \subseteq Scans,
         UNCHANGED <<captureRoom, scan, roomBaseline, baselineSide>>,
         u.step # "idle" => ~ Stored(s),
         u.step \in {"compared", "saved"} => u.counts \in Counts,
         u.step = "saved" => s \in images'
  PROVE  VisionInv'
<1>a. VisionTypeOK /\ UploadsComplete /\ BaselineHeld
  BY DEF VisionInv
<1>1. VisionTypeOK'
  BY <1>a DEF VisionTypeOK, baselineSide
<1>2. UploadsComplete'
  BY <1>a, VisionTypes DEF UploadsComplete, Stored, baselineSide
<1>3. BaselineHeld'
  BY BaselineKept DEF baselineSide
<1> QED BY <1>1, <1>2, <1>3 DEF VisionInv

LEMMA UploadStep ==
  ASSUME VisionInv, NEW s \in Scans,
         \/ FindRoom(s) \/ InsertRoom(s) \/ Recognize(s) \/ SaveImages(s) \/ BreakOff(s)
  PROVE  VisionInv'
<1>a. VisionTypeOK /\ UploadsComplete /\ upload[s] \in UploadRow
  BY VisionTypes DEF VisionInv
<1>b. upload \in [Scans -> UploadRow] /\ images \subseteq Scans
  BY <1>a, VisionTypes DEF VisionTypeOK
<1>1. CASE FindRoom(s)
  <2> DEFINE u == [upload[s] EXCEPT !.step = IF captureRoom THEN "room" ELSE "missing"]
  <2>1. upload' = [upload EXCEPT ![s] = u] /\ u \in UploadRow
    BY <1>a, <1>b, <1>1 DEF FindRoom, UploadRow
  <2>2. u.step \in {"room", "missing"} /\ ~ Stored(s)
    BY <1>a, <1>1 DEF FindRoom, UploadRow
  <2> HIDE DEF u
  <2> QED BY <1>b, <1>1, <2>1, <2>2, UploadMoves DEF FindRoom
<1>2. CASE InsertRoom(s)
  <2> DEFINE u == [upload[s] EXCEPT !.step = "room", !.creates = TRUE]
  <2>1. upload' = [upload EXCEPT ![s] = u] /\ u \in UploadRow
    BY <1>a, <1>b, <1>2 DEF InsertRoom, UploadRow
  <2>2. u.step = "room" /\ ~ Stored(s)
    BY <1>a, <1>2 DEF InsertRoom, UploadRow, UploadsComplete
  <2> HIDE DEF u
  <2> QED BY <1>b, <1>2, <2>1, <2>2, UploadMoves DEF InsertRoom
<1>3. CASE Recognize(s)
  <2>1. PICK c \in Counts :
          upload' = [upload EXCEPT ![s].step = "compared", ![s].counts = c,
                                   ![s].expected = roomBaseline.counts]
    BY <1>3 DEF Recognize
  <2> DEFINE u == [upload[s] EXCEPT !.step = "compared", !.counts = c,
                                    !.expected = roomBaseline.counts]
  <2>2. upload' = [upload EXCEPT ![s] = u] /\ u \in UploadRow
    BY <1>a, <1>b, <2>1 DEF UploadRow, VisionTypeOK, BaselineRow
  <2>3. u.step = "compared" /\ u.counts = c /\ ~ Stored(s)
    BY <1>a, <1>3 DEF Recognize, UploadRow, UploadsComplete
  <2> HIDE DEF u
  <2> QED BY <1>b, <1>3, <2>2, <2>3, UploadMoves DEF Recognize
<1>4. CASE SaveImages(s)
  <2> DEFINE u == [upload[s] EXCEPT !.step = "saved"]
  <2>1. upload' = [upload EXCEPT ![s] = u] /\ u \in UploadRow
    BY <1>a, <1>b, <1>4 DEF SaveImages, UploadRow
  <2>2. u.step = "saved" /\ u.counts \in Counts /\ ~ Stored(s)
    BY <1>a, <1>4 DEF SaveImages, UploadRow, UploadsComplete
  <2> HIDE DEF u
  <2> QED BY <1>b, <1>4, <2>1, <2>2, UploadMoves DEF SaveImages
<1>5. CASE BreakOff(s)
  BY <1>a, <1>b, <1>5, UploadMoves, VisionTypes DEF BreakOff
<1> QED BY <1>1, <1>2, <1>3, <1>4, <1>5

LEMMA ScanCommits ==
  ASSUME VisionInv, NEW s \in Scans, CommitScan(s)
  PROVE  VisionInv'
<1> DEFINE u == upload[s]
           row == [status |-> Judged(u.expected, u.counts), counts |-> u.counts,
                   expected |-> u.expected]
<1>a. VisionTypeOK /\ UploadsComplete /\ BaselineHeld
  BY DEF VisionInv
<1>1. /\ u.step = "saved" /\ scan' = [scan EXCEPT ![s] = row] /\ captureRoom' = TRUE
      /\ upload' = [upload EXCEPT ![s] = NotUploading]
      /\ UNCHANGED <<images, roomBaseline, acceptance, accepted>>
  BY DEF CommitScan, Complete, baselineSide
<1>2. u.counts \in Counts /\ s \in images /\ ~ Stored(s)
  BY <1>1, <1>a DEF UploadsComplete
<1>3. row \in ScanRow /\ row.counts = u.counts
  BY <1>2, <1>a, VisionTypes DEF ScanRow, UploadRow, Judged
<1> HIDE DEF u, row
<1>4. scan' \in [Scans -> ScanRow] /\ upload' \in [Scans -> UploadRow]
  BY <1>1, <1>3, <1>a, VisionTypes
<1>5. VisionTypeOK'
  BY <1>1, <1>4, <1>a DEF VisionTypeOK, ScanRow
<1>6. /\ \A q \in Scans : q # s => scan'[q] = scan[q] /\ (Stored(q)' <=> Stored(q))
      /\ scan'[s] = row /\ row # NoScan
  BY <1>1, <1>2, <1>3, <1>a, VisionTypes, VisionAssumption DEF Stored, NoScan
<1>7. /\ \A q \in Scans : Stored(q) => Stored(q)' /\ scan'[q] = scan[q]
      /\ Stored(s)'
  BY <1>2, <1>6 DEF Stored
<1>8. UploadsComplete'
  <2>1. ASSUME NEW q \in Scans
        PROVE  /\ Stored(q)' => q \in images' /\ captureRoom' /\ scan'[q].counts \in Counts
               /\ upload'[q].step # "idle" => ~ Stored(q)'
               /\ upload'[q].step \in {"compared", "saved"} => upload'[q].counts \in Counts
               /\ upload'[q].step = "saved" => q \in images'
    <3>1. CASE q = s
      BY <3>1, <1>1, <1>2, <1>3, <1>6, <1>a, VisionTypes
    <3>2. CASE q # s
      BY <3>2, <1>1, <1>6, <1>a, VisionTypes DEF UploadsComplete
    <3> QED BY <3>1, <3>2
  <2>2. ASSUME NEW a \in Acceptances, acceptance'[a].scan # None
        PROVE  scan'[acceptance'[a].scan] # NoScan
    <3>1. PICK q \in Scans : q = acceptance[a].scan /\ Stored(q)
      BY <2>2, <1>1, <1>a, VisionTypes DEF UploadsComplete, AcceptRow
    <3> QED BY <3>1, <1>1, <1>7 DEF Stored
  <2>3. \A a \in Acceptances :
          acceptance'[a].scan # None => Stored(acceptance[a].scan)'
    BY <2>2 DEF Stored
  <2> QED BY <2>1, <2>3 DEF UploadsComplete
<1>9. BaselineHeld'
  BY <1>1, <1>7, BaselineKept
<1> QED BY <1>5, <1>8, <1>9 DEF VisionInv

\* What an acceptance adds to those committed, and what it leaves of the others.
LEMMA AcceptanceAdds ==
  ASSUME VisionTypeOK, NEW a \in Acceptances, CommitAcceptance(a),
         acceptance[a].scan \in Scans
  PROVE  /\ accepted' \in Seq(AcceptEntry) /\ Len(accepted') = Len(accepted) + 1
         /\ accepted'[Len(accepted) + 1].scan = acceptance[a].scan
         /\ accepted'[Len(accepted) + 1].since = acceptance[a].since
         /\ \A i \in Committed : accepted'[i] = accepted[i]
         /\ Committed' = Committed \cup {Len(accepted) + 1}
         /\ \A b \in Acceptances : acceptance'[b] = IF b = a THEN Unasked ELSE acceptance[b]
<1> DEFINE entry == [scan |-> acceptance[a].scan, since |-> acceptance[a].since]
<1>1. accepted' = Append(accepted, entry) /\ acceptance' = [acceptance EXCEPT ![a] = Unasked]
  BY DEF CommitAcceptance
<1>2. accepted \in Seq(AcceptEntry) /\ Len(accepted) \in Nat /\ Committed = 1..Len(accepted)
  BY VisionTypes
<1>3. entry \in AcceptEntry
  BY VisionTypes DEF AcceptRow, AcceptEntry
<1>4. /\ accepted' \in Seq(AcceptEntry) /\ Len(accepted') = Len(accepted) + 1
      /\ accepted'[Len(accepted) + 1] = entry
      /\ \A i \in Committed : accepted'[i] = accepted[i]
  <2> HIDE DEF entry
  <2> QED BY <1>1, <1>2, <1>3
<1>5. Committed' = Committed \cup {Len(accepted) + 1}
  BY <1>2, <1>4 DEF Committed
<1>6. \A b \in Acceptances : acceptance'[b] = IF b = a THEN Unasked ELSE acceptance[b]
  BY <1>1, VisionTypes
<1> QED BY <1>4, <1>5, <1>6

\* Source and counts after an acceptance: its own, or those of one that it had
\* not seen.
LEMMA AcceptanceHolds ==
  ASSUME VisionInv, NEW a \in Acceptances, CommitAcceptance(a), NEW q \in Scans,
         q = acceptance[a].scan, Stored(q), scan[q].counts \in Counts,
         \A p \in Scans : scan'[p].counts = scan[p].counts
  PROVE  SourceHeld' /\ CountsHeld'
<1>a. VisionTypeOK /\ BaselineHeld
  BY DEF VisionInv
<1>n. PICK n : n = Len(accepted) + 1
  OBVIOUS
<1>t. PICK t : t = acceptance[a]
  OBVIOUS
<1>1. /\ roomBaseline'.source = IF q # t.loaded.source THEN q ELSE roomBaseline.source
      /\ roomBaseline'.counts = IF scan[q].counts # t.loaded.counts THEN scan[q].counts
                                ELSE roomBaseline.counts
      /\ t.scan = q /\ q # None
  BY <1>t, VisionAssumption DEF CommitAcceptance, Rebased
<1>2. /\ accepted'[n].scan = q /\ accepted'[n].since = t.since
      /\ \A i \in Committed : accepted'[i] = accepted[i] /\ accepted[i].scan \in Scans
      /\ Committed' = Committed \cup {n} /\ Committed = 1..Len(accepted) /\ Len(accepted) \in Nat
      /\ \A b \in Acceptances : acceptance'[b] = IF b = a THEN Unasked ELSE acceptance[b]
      /\ Unasked.scan = None
      /\ \A b \in Acceptances : acceptance[b].since < n
  <2>1. /\ Len(accepted) \in Nat /\ Committed = 1..Len(accepted) /\ Unasked.scan = None
        /\ \A i \in Committed : accepted[i].scan \in Scans
        /\ \A b \in Acceptances : acceptance[b].since < n
    BY <1>a, <1>n, VisionTypes DEF AcceptEntry
  <2>2. /\ accepted'[n].scan = q /\ accepted'[n].since = t.since
        /\ \A i \in Committed : accepted'[i] = accepted[i]
        /\ Committed' = Committed \cup {n}
        /\ \A b \in Acceptances : acceptance'[b] = IF b = a THEN Unasked ELSE acceptance[b]
    BY <1>a, <1>n, <1>t, AcceptanceAdds
  <2> QED BY <2>1, <2>2
<1>3. accepted = <<>> => t.loaded = NoBaseline
  BY <1>a, <1>t DEF BaselineHeld
<1>4. Unopposed(n)' /\ \A b \in Acceptances : acceptance'[b].scan # None => acceptance'[b].since < n
  BY <1>2, <1>n DEF Unopposed
<1>5. SourceHeld'
  <2>1. CASE roomBaseline'.source = q
    BY <2>1, <1>2, <1>4 DEF SourceHeld
  <2>2. CASE roomBaseline'.source # q
    <3>1. roomBaseline'.source = roomBaseline.source /\ t.loaded.source # roomBaseline.source
      BY <2>2, <1>1
    <3>2. accepted # <<>>
      BY <2>2, <1>1, <1>3 DEF NoBaseline
    <3>3. PICK j \in Committed :
            /\ roomBaseline.source = accepted[j].scan /\ Unopposed(j)
            /\ \A b \in Acceptances : acceptance[b].scan # None =>
                 acceptance[b].loaded.source = roomBaseline.source \/ acceptance[b].since < j
      BY <3>2, <1>a DEF BaselineHeld, SourceHeld
    <3>4. t.since < j
      BY <3>1, <3>3, <1>1, <1>t
    <3>5. Unopposed(j)'
      BY <3>3, <3>4, <1>2 DEF Unopposed
    <3> QED BY <3>1, <3>3, <3>5, <1>2 DEF SourceHeld
  <2> QED BY <2>1, <2>2
<1>6. CountsHeld'
  <2>1. CASE roomBaseline'.counts = scan[q].counts
    BY <2>1, <1>2, <1>4 DEF CountsHeld
  <2>2. CASE roomBaseline'.counts # scan[q].counts
    <3>1. roomBaseline'.counts = roomBaseline.counts /\ t.loaded.counts # roomBaseline.counts
      BY <2>2, <1>1
    <3>2. accepted # <<>>
      BY <2>2, <1>1, <1>3, VisionAssumption DEF NoBaseline
    <3>3. PICK j \in Committed :
            /\ roomBaseline.counts = scan[accepted[j].scan].counts /\ Unopposed(j)
            /\ \A b \in Acceptances : acceptance[b].scan # None =>
                 acceptance[b].loaded.counts = roomBaseline.counts \/ acceptance[b].since < j
      BY <3>2, <1>a DEF BaselineHeld, CountsHeld
    <3>4. t.since < j
      BY <3>1, <3>3, <1>1, <1>t
    <3>5. Unopposed(j)'
      BY <3>3, <3>4, <1>2 DEF Unopposed
    <3> QED BY <3>1, <3>3, <3>5, <1>2 DEF CountsHeld
  <2> QED BY <2>1, <2>2
<1> QED BY <1>5, <1>6

\* What an acceptance writes: its scan's row stays that of the scan.
LEMMA AcceptanceCommits ==
  ASSUME VisionInv, NEW a \in Acceptances, CommitAcceptance(a)
  PROVE  VisionInv'
<1>a. VisionTypeOK /\ UploadsComplete /\ BaselineHeld
  BY DEF VisionInv
<1> DEFINE t == acceptance[a]
<1>1. /\ t.scan # None
      /\ roomBaseline' = Rebased(t, roomBaseline)
      /\ scan' = [scan EXCEPT ![t.scan].status = "OK",
                              ![t.scan].expected = scan[t.scan].counts]
      /\ acceptance' = [acceptance EXCEPT ![a] = Unasked]
      /\ UNCHANGED <<captureRoom, images, upload>>
  BY DEF CommitAcceptance
<1>2. t \in AcceptRow
  BY <1>a, VisionTypes
<1>3. PICK q \in Scans : q = t.scan /\ Stored(q) /\ scan[q] \in ScanRow /\ scan[q].counts \in Counts
  BY <1>1, <1>2, <1>a, VisionTypes DEF AcceptRow, UploadsComplete
<1>4. roomBaseline' \in BaselineRow
  BY <1>1, <1>2, <1>3, <1>a DEF Rebased, BaselineRow, AcceptRow, VisionTypeOK
<1>5. /\ \A p \in Scans : p # q => scan'[p] = scan[p]
      /\ scan'[q] \in ScanRow /\ scan'[q].counts = scan[q].counts /\ scan'[q].status = "OK"
  <2>1. scan'[q] = [scan[q] EXCEPT !.status = "OK", !.expected = scan[q].counts]
    BY <1>1, <1>3, <1>a, VisionTypes
  <2> QED BY <2>1, <1>1, <1>3, <1>a, VisionTypes DEF ScanRow
<1>6. scan' \in [Scans -> ScanRow]
  BY <1>1, <1>5, <1>a, VisionTypes
<1>7. \A p \in Scans : scan'[p] # NoScan <=> scan[p] # NoScan
  BY <1>3, <1>5, VisionAssumption DEF Stored, NoScan
<1> HIDE DEF t
<1>8. /\ accepted' \in Seq(AcceptEntry) /\ Len(accepted') = Len(accepted) + 1
      /\ Committed' = Committed \cup {Len(accepted) + 1}
      /\ accepted'[Len(accepted) + 1].scan = q
      /\ \A i \in Committed : accepted'[i] = accepted[i] /\ accepted[i].scan \in Scans
      /\ \A b \in Acceptances : acceptance'[b] = IF b = a THEN Unasked ELSE acceptance[b]
  <2>1. \A i \in Committed : accepted[i].scan \in Scans
    BY <1>a, VisionTypes DEF AcceptEntry
  <2> QED BY <1>3, <1>a, <2>1, AcceptanceAdds DEF t
<1>9. acceptance' \in [Acceptances -> AcceptRow]
      /\ \A b \in Acceptances : acceptance'[b].since \in 0..Len(accepted')
  BY <1>1, <1>8, <1>a, VisionTypes
<1>10. VisionTypeOK'
  BY <1>1, <1>4, <1>6, <1>8, <1>9, <1>a DEF VisionTypeOK, ScanRow, AcceptRow, AcceptEntry
<1>11. UploadsComplete'
  <2>1. \A p \in Scans : scan'[p] # NoScan => scan'[p].counts \in Counts
    BY <1>3, <1>5, <1>7, <1>a DEF UploadsComplete, Stored
  <2>2. ASSUME NEW b \in Acceptances, acceptance'[b].scan # None
        PROVE  scan'[acceptance'[b].scan] # NoScan
    <3>1. PICK p \in Scans : p = acceptance[b].scan /\ acceptance'[b].scan = p /\ Stored(p)
      BY <2>2, <1>8, <1>a, VisionTypes DEF UploadsComplete, AcceptRow
    <3> QED BY <3>1, <1>7 DEF Stored
  <2> QED BY <1>1, <1>7, <2>1, <2>2, <1>a DEF UploadsComplete, Stored
<1>12. BaselineHeld'
  <2>1. SourceHeld' /\ CountsHeld'
    BY <1>3, <1>5, AcceptanceHolds DEF t
  <2>2. accepted' # <<>>
    BY <1>8, <1>a, VisionTypes
  <2>3. ASSUME NEW j \in Committed'
        PROVE  scan'[accepted'[j].scan] # NoScan /\ scan'[accepted'[j].scan].status = "OK"
    <3>1. CASE j \in Committed
      BY <3>1, <1>5, <1>7, <1>8, <1>a DEF BaselineHeld, Stored
    <3>2. CASE j = Len(accepted) + 1
      BY <3>2, <1>3, <1>5, <1>7, <1>8 DEF Stored
    <3> QED BY <3>1, <3>2, <1>8
  <2> QED BY <2>1, <2>2, <2>3 DEF BaselineHeld, Stored
<1> QED BY <1>10, <1>11, <1>12 DEF VisionInv

\* A request that loads the baseline, or gives up, holds what it says.
LEMMA AcceptanceMoves ==
  ASSUME VisionInv, NEW a \in Acceptances, LoadBaseline(a) \/ LoseAcceptance(a)
  PROVE  VisionInv'
<1>a. VisionTypeOK /\ UploadsComplete /\ BaselineHeld
  BY DEF VisionInv
<1> DEFINE t == acceptance'[a]
<1>1. UNCHANGED <<captureRoom, images, scan, roomBaseline, upload, accepted>>
  BY DEF LoadBaseline, LoseAcceptance
<1>2. /\ t \in AcceptRow /\ acceptance' = [acceptance EXCEPT ![a] = t]
      /\ t.since \in 0..Len(accepted)
      /\ t.scan # None => t.scan \in Scans /\ Stored(t.scan)
      /\ t.loaded = NoBaseline \/ t.loaded = roomBaseline
      /\ t.scan # None => t.loaded = roomBaseline
  <2>1. CASE LoadBaseline(a)
    <3>1. PICK s \in Scans :
            /\ Stored(s)
            /\ acceptance' = [acceptance EXCEPT ![a] =
                 [scan |-> s, loaded |-> roomBaseline, since |-> Len(accepted)]]
      BY <2>1 DEF LoadBaseline
    <3>2. t = [scan |-> s, loaded |-> roomBaseline, since |-> Len(accepted)]
      BY <3>1, <1>a, VisionTypes
    <3> QED BY <3>1, <3>2, <1>a, VisionTypes DEF AcceptRow, VisionTypeOK
  <2>2. CASE LoseAcceptance(a)
    <3>1. acceptance' = [acceptance EXCEPT ![a] = Unasked]
      BY <2>2 DEF LoseAcceptance
    <3>2. t = Unasked
      BY <3>1, <1>a, VisionTypes
    <3>3. acceptance' = [acceptance EXCEPT ![a] = t]
      BY <3>1, <3>2
    <3>4. /\ Unasked \in AcceptRow /\ Unasked.since \in 0..Len(accepted)
          /\ Unasked.scan = None /\ Unasked.loaded = NoBaseline
      BY <1>a, VisionTypes
    <3> HIDE DEF t
    <3> QED BY <3>2, <3>3, <3>4
  <2> QED BY <2>1, <2>2
<1>3. /\ \A b \in Acceptances : b # a => acceptance'[b] = acceptance[b]
      /\ acceptance' \in [Acceptances -> AcceptRow]
  BY <1>2, <1>a, VisionTypes
<1> HIDE DEF t
<1>4. VisionTypeOK'
  BY <1>1, <1>2, <1>3, <1>a DEF VisionTypeOK, AcceptRow, t
<1>5. UploadsComplete'
  BY <1>1, <1>2, <1>3, <1>a DEF UploadsComplete, Stored, t
<1>6. BaselineHeld'
  <2>1. Committed' = Committed /\ \A j : Unopposed(j)' = Unopposed(j)
    BY <1>1 DEF Committed, Unopposed
  <2>2. (SourceHeld => SourceHeld') /\ (CountsHeld => CountsHeld')
    BY <1>1, <1>2, <1>3, <2>1 DEF SourceHeld, CountsHeld, t
  <2> QED BY <1>1, <1>2, <1>3, <2>1, <2>2, <1>a DEF BaselineHeld, Stored, t
<1> QED BY <1>4, <1>5, <1>6 DEF VisionInv

LEMMA VisionStep == VisionInv /\ [VisionNext]_visionVars => VisionInv'
<1> SUFFICES ASSUME VisionInv, [VisionNext]_visionVars PROVE VisionInv'
  OBVIOUS
<1>1. CASE UNCHANGED visionVars
  <2>1. VisionTypeOK' /\ UploadsComplete'
    BY <1>1 DEF visionVars, VisionInv, VisionTypeOK, UploadsComplete, Stored
  <2> QED BY <1>1, <2>1, BaselineKept DEF visionVars, VisionInv
<1> QED
  BY <1>1, UploadStep, ScanCommits, AcceptanceCommits, AcceptanceMoves DEF VisionNext

\* Wherever uploads break off, a stored scan has its images and its room
\* (vision/service.py:50-96).
THEOREM StoredScansHaveImages == VisionSpec => []ScansHaveImages
<1>1. VisionInv => ScansHaveImages
  BY DEF VisionInv, UploadsComplete, ScansHaveImages
<1> QED BY <1>1, VisionStart, VisionStep, PTL DEF VisionSpec

\* However acceptances overlap, source and counts of a baseline are each of
\* one that no later acceptance had seen (vision/service.py:117-137).
THEOREM BaselinesPrevail == VisionSpec => []BaselineStands
<1>1. VisionInv => BaselineStands
  BY DEF VisionInv, BaselineHeld, SourceHeld, CountsHeld, BaselineStands
<1> QED BY <1>1, VisionStart, VisionStep, PTL DEF VisionSpec

-----------------------------------------------------------------------------
(* Sessions: who knew an old password is known until the sweep. *)

TokenRow == [user : Accounts \cup {NoUser}, era : 0..MaxEra, late : BOOLEAN, expired : BOOLEAN]
LoginRow == [user : Accounts \cup {NoUser}, era : 0..MaxEra, late : BOOLEAN]

LEMMA SessionTypes ==
  ASSUME SessionTypeOK
  PROVE  /\ user \in [Accounts -> [active : BOOLEAN, era : 0..MaxEra]]
         /\ token \in [Tokens -> TokenRow] /\ login \in [Logins -> LoginRow]
         /\ update \in [Updates -> Accounts \cup {NoUser}] /\ torn \subseteq Accounts
         /\ NoToken \in TokenRow /\ NoToken.user = NoUser
         /\ NoLogin \in LoginRow /\ NoLogin.user = NoUser
BY SessionAssumption DEF SessionTypeOK, TokenRow, LoginRow, NoToken, NoLogin

LEMMA SessionStart == SessionInit => SessionInv
<1> SUFFICES ASSUME SessionInit PROVE SessionInv
  OBVIOUS
<1>1. /\ NoToken \in TokenRow /\ NoToken.user = NoUser
      /\ NoLogin \in LoginRow /\ NoLogin.user = NoUser
  BY SessionAssumption DEF TokenRow, LoginRow, NoToken, NoLogin
<1>2. SessionTypeOK
  BY <1>1, SessionAssumption DEF SessionInit, SessionTypeOK, TokenRow, LoginRow
<1> QED BY <1>1, <1>2 DEF SessionInit, SessionInv, OldIsKnown

\* A change locks out nobody, or makes every session and login of its user
\* one of an old era.
LEMMA UpdateCommits ==
  ASSUME SessionInv, NEW h \in Updates, NEW u \in Accounts, NEW active \in BOOLEAN,
         NEW password \in BOOLEAN, CommitUpdate(h, u, active, password)
  PROVE  SessionInv'
<1> DEFINE lockout == password \/ ~ active
<1>a. SessionTypeOK /\ OldIsKnown
  BY DEF SessionInv
<1>1. /\ update[h] = NoUser /\ UNCHANGED <<token, torn>>
      /\ lockout => user[u].era < MaxEra
      /\ user' = [user EXCEPT ![u] =
           [active |-> active, era |-> IF lockout THEN user[u].era + 1 ELSE user[u].era]]
      /\ login' = [l \in Logins |-> IF lockout /\ login[l].user = u
                                    THEN [login[l] EXCEPT !.late = TRUE] ELSE login[l]]
      /\ update' = [update EXCEPT ![h] = IF lockout THEN u ELSE NoUser]
  BY DEF CommitUpdate
<1>2. user[u].era \in 0..MaxEra /\ MaxEra \in Nat
  BY <1>a, SessionTypes, SessionAssumption
<1>3. user'[u] \in [active : BOOLEAN, era : 0..MaxEra]
  BY <1>1, <1>2, <1>a, SessionTypes
<1>4. ASSUME NEW l \in Logins
      PROVE  /\ login'[l] \in LoginRow /\ login'[l].user = login[l].user
             /\ login'[l].era = login[l].era
             /\ login'[l].late <=> login[l].late \/ (lockout /\ login[l].user = u)
  BY <1>1, <1>a, SessionTypes DEF LoginRow
<1>5. SessionTypeOK'
  <2>1. user' \in [Accounts -> [active : BOOLEAN, era : 0..MaxEra]]
    BY <1>1, <1>3, <1>a, SessionTypes
  <2>2. login' \in [Logins -> LoginRow]
    BY <1>1, <1>4
  <2>3. update' \in [Updates -> Accounts \cup {NoUser}]
    BY <1>1, <1>a, SessionTypes
  <2> QED BY <1>1, <2>1, <2>2, <2>3, <1>a DEF SessionTypeOK, LoginRow
<1>6. /\ \A v \in Accounts : v # u \/ ~ lockout => user'[v].era = user[v].era
      /\ lockout => update'[h] = u
      /\ \A v \in Accounts : Pending(v) => Pending(v)'
  <2>1. ASSUME NEW v \in Accounts, Pending(v) PROVE Pending(v)'
    <3>1. CASE v \in torn
      BY <3>1, <1>1 DEF Pending
    <3>2. CASE \E g \in Updates : update[g] = v
      <4>1. PICK g \in Updates : update[g] = v
        BY <3>2
      <4>2. g # h
        BY <4>1, <1>1, SessionAssumption
      <4> QED BY <4>1, <4>2, <1>1, <1>a, SessionTypes DEF Pending
    <3> QED BY <2>1, <3>1, <3>2 DEF Pending
  <2> QED BY <1>1, <2>1, <1>a, SessionTypes
<1> HIDE DEF lockout
<1>7. OldIsKnown'
  <2>1. ASSUME NEW t \in Tokens, token'[t].user # NoUser,
               token'[t].era < user'[token'[t].user].era
        PROVE  token'[t].late \/ Pending(token[t].user)'
    <3>1. token'[t] = token[t] /\ token[t].user \in Accounts
      BY <2>1, <1>1, <1>a, SessionTypes DEF TokenRow
    <3>2. CASE token[t].user = u /\ lockout
      BY <3>1, <3>2, <1>1, <1>6 DEF Pending
    <3>3. CASE token[t].user # u \/ ~ lockout
      <4>1. user'[token[t].user].era = user[token[t].user].era
        BY <3>1, <3>3, <1>6
      <4>2. PICK v \in Accounts : v = token[t].user /\ (token[t].late \/ Pending(v))
        BY <2>1, <3>1, <4>1, <1>a DEF OldIsKnown
      <4> QED BY <3>1, <4>2, <1>6 DEF Pending
    <3> QED BY <3>2, <3>3
  <2>2. ASSUME NEW l \in Logins, login'[l].user # NoUser,
               login'[l].era < user'[login'[l].user].era
        PROVE  login'[l].late
    <3>1. login'[l].user = login[l].user /\ login[l].user \in Accounts
      BY <2>2, <1>4, <1>a, SessionTypes DEF LoginRow
    <3>2. CASE login[l].user # u \/ ~ lockout
      BY <2>2, <3>1, <3>2, <1>4, <1>6, <1>a DEF OldIsKnown
    <3> QED BY <3>2, <1>4
  <2> QED BY <2>1, <2>2 DEF OldIsKnown
<1> QED BY <1>5, <1>7 DEF SessionInv

LEMMA SessionStep == SessionInv /\ [SessionNext]_sessionVars => SessionInv'
<1> SUFFICES ASSUME SessionInv, [SessionNext]_sessionVars PROVE SessionInv'
  OBVIOUS
<1>a. SessionTypeOK /\ OldIsKnown
  BY DEF SessionInv
<1>1. ASSUME NEW l \in Logins, NEW u \in Accounts, Verify(l, u) PROVE SessionInv'
  <2>1. /\ login' = [login EXCEPT ![l] = [user |-> u, era |-> user[u].era, late |-> FALSE]]
        /\ UNCHANGED <<user, token, update, torn>>
    BY <1>1 DEF Verify
  <2>2. login'[l] \in LoginRow
    BY <2>1, <1>a, SessionTypes DEF LoginRow
  <2>3. SessionTypeOK'
    BY <2>1, <2>2, <1>a DEF SessionTypeOK, LoginRow
  <2>4. OldIsKnown'
    BY <2>1, <1>a, SessionTypes, SessionAssumption DEF OldIsKnown, Pending
  <2> QED BY <2>3, <2>4 DEF SessionInv
<1>2. ASSUME NEW l \in Logins, NEW t \in Tokens, StoreSession(l, t) PROVE SessionInv'
  <2>1. /\ token' = [token EXCEPT ![t] =
             [user |-> login[l].user, era |-> login[l].era, late |-> login[l].late,
              expired |-> FALSE]]
        /\ login' = [login EXCEPT ![l] = NoLogin]
        /\ UNCHANGED <<user, update, torn>>
    BY <1>2 DEF StoreSession
  <2>2. token'[t] \in TokenRow
    BY <2>1, <1>a, SessionTypes DEF LoginRow, TokenRow
  <2>3. SessionTypeOK'
    BY <2>1, <2>2, <1>a, SessionTypes DEF SessionTypeOK, LoginRow, TokenRow
  <2>4. OldIsKnown'
    BY <2>1, <1>a, SessionTypes DEF OldIsKnown, Pending
  <2> QED BY <2>3, <2>4 DEF SessionInv
<1>3. ASSUME NEW t \in Tokens, DeleteSession(t) \/ Expire(t) PROVE SessionInv'
  <2>1. UNCHANGED <<user, login, update, torn>>
    BY <1>3 DEF DeleteSession, Expire
  <2>2. /\ \A q \in Tokens : q # t => token'[q] = token[q]
        /\ token' \in [Tokens -> TokenRow]
        /\ \/ token'[t] = NoToken
           \/ /\ token'[t].user = token[t].user /\ token'[t].era = token[t].era
              /\ token'[t].late = token[t].late
    <3>1. token \in [Tokens -> TokenRow] /\ NoToken \in TokenRow
      BY <1>a, SessionTypes
    <3>2. CASE token' = [token EXCEPT ![t] = NoToken]
      <4> HIDE DEF NoToken
      <4> QED BY <3>1, <3>2
    <3>3. CASE token' = [token EXCEPT ![t].expired = TRUE]
      <4>1. [token[t] EXCEPT !.expired = TRUE] \in TokenRow
        BY <3>1 DEF TokenRow
      <4> QED BY <3>1, <3>3, <4>1 DEF TokenRow
    <3> QED BY <1>3, <3>2, <3>3 DEF DeleteSession, Expire
  <2>3. SessionTypeOK'
    BY <2>1, <2>2, <1>a DEF SessionTypeOK, TokenRow
  <2>4. OldIsKnown'
    BY <2>1, <2>2, <1>a, SessionTypes DEF OldIsKnown, Pending
  <2> QED BY <2>3, <2>4 DEF SessionInv
<1>4. ASSUME NEW h \in Updates, Sweep(h) PROVE SessionInv'
  <2> DEFINE u == update[h]
  <2>1. /\ u # NoUser /\ UNCHANGED <<user, login>>
        /\ token' = [t \in Tokens |-> IF t \in Swept(u) THEN NoToken ELSE token[t]]
        /\ update' = [update EXCEPT ![h] = NoUser] /\ torn' = torn \ {u}
    BY <1>4 DEF Sweep
  <2>2. token' \in [Tokens -> TokenRow]
    BY <2>1, <1>a, SessionTypes
  <2>3. SessionTypeOK'
    BY <2>1, <2>2, <1>a, SessionTypes DEF SessionTypeOK, TokenRow
  <2>4. ASSUME NEW t \in Tokens, token'[t].user # NoUser
        PROVE  token'[t] = token[t] /\ token[t].user # u
    BY <2>1, <2>4, <1>a, SessionTypes DEF Swept
  <2>5. \A v : v # u => (Pending(v) => v \in torn' \/ \E g \in Updates : update'[g] = v)
    BY <2>1, <1>a, SessionTypes DEF Pending
  <2> HIDE DEF u
  <2>6. OldIsKnown'
    BY <2>1, <2>4, <2>5, <1>a DEF OldIsKnown, Pending
  <2> QED BY <2>3, <2>6 DEF SessionInv
<1>5. CASE Stop
  <2>1. /\ login' = [l \in Logins |-> NoLogin]
        /\ torn' = torn \cup ({update[h] : h \in Updates} \ {NoUser})
        /\ update' = [h \in Updates |-> NoUser] /\ UNCHANGED <<user, token>>
    BY <1>5 DEF Stop
  <2>2. SessionTypeOK'
    BY <2>1, <1>a, SessionTypes DEF SessionTypeOK, LoginRow
  <2>3. \A t \in Tokens : token[t].user # NoUser /\ Pending(token[t].user) => token[t].user \in torn'
    BY <2>1 DEF Pending
  <2>4. OldIsKnown'
    BY <2>1, <2>3, <1>a, SessionTypes DEF OldIsKnown, Pending
  <2> QED BY <2>2, <2>4 DEF SessionInv
<1>6. CASE UNCHANGED sessionVars
  BY <1>6, <1>a DEF sessionVars, SessionInv, SessionTypeOK, OldIsKnown, Pending
<1> QED BY <1>1, <1>2, <1>3, <1>4, <1>5, <1>6, UpdateCommits DEF SessionNext

\* A lockout ends the sessions opened before it, but for logins under way and
\* changes cut off before their sweep (auth.py:164-181, identity/auth.py:49-70).
THEOREM LockoutsHold == SessionSpec => []LockoutHolds
<1>1. SessionInv => LockoutHolds
  BY DEF SessionInv, OldIsKnown, Pending, LockoutHolds, Authenticates
<1> QED BY <1>1, SessionStart, SessionStep, PTL DEF SessionSpec

=============================================================================
