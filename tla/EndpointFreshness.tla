------------------------- MODULE EndpointFreshness -------------------------
(***************************************************************************)
(* How fresh the knowledge of a computer is: reports set its status and    *)
(* the time it was last seen, the administrator's evaluation marks those   *)
(* not seen for long, and two views derive a connection status from both:  *)
(* the endpoint pages in Python, the dashboard's counts in SQL.            *)
(*                                                                         *)
(* The evaluation and a report of the bridge read without locks and write  *)
(* at their commits, a report only the columns it changes; the report of   *)
(* an agent holds the endpoint's row.                                      *)
(***************************************************************************)
EXTENDS Naturals

CONSTANTS
  Computers,    \* rows of managed_endpoints
  Sightings,    \* inventories being normalized
  Sweepers,     \* requests evaluating the endpoints
  NoComputer,
  StaleAfter,   \* endpoint_stale_after_hours
  LastHour      \* bound: the time the model ends

ASSUME FreshAssumption ==
  NoComputer \notin Computers /\ StaleAfter \in Nat /\ LastHour \in Nat

VARIABLES
  hour,         \* the time
  status,       \* per computer: the stored status
  lastSeen,     \* per computer: last_seen_at
  sighting,     \* per inventory: what its session loaded
  sweep,        \* per evaluation: the computers its query selected
  heard         \* of these, the ones a report was committed of since

freshVars == <<hour, status, lastSeen, sighting, sweep, heard>>

Unseen == [computer |-> NoComputer, received |-> 0, was |-> "ONLINE", alone |-> FALSE]

FreshInit ==
  /\ hour = 0
  /\ status = [c \in Computers |-> "ONLINE"]
  /\ lastSeen = [c \in Computers |-> 0]
  /\ sighting = [s \in Sightings |-> Unseen]
  /\ sweep = [w \in Sweepers |-> {}]
  /\ heard = [w \in Sweepers |-> {}]

PassHour ==
  /\ hour < LastHour
  /\ hour' = hour + 1
  /\ UNCHANGED <<status, lastSeen, sighting, sweep, heard>>

Stale(c) == lastSeen[c] + StaleAfter < hour

\* Sessions that hold one of cs in memory since before it was written.
Overtaken(cs) ==
  [s \in Sightings |-> IF sighting[s].computer \in cs
                       THEN [sighting[s] EXCEPT !.alone = FALSE] ELSE sighting[s]]

\* Evaluations that selected c before it was heard from.
HeardOf(c) == [w \in Sweepers |-> heard[w] \cup ({c} \cap sweep[w])]

\* An inventory was received and its endpoint identified.
LoadComputer(s) ==
  /\ sighting[s].computer = NoComputer
  /\ \E c \in Computers :
       sighting' = [sighting EXCEPT ![s] =
         [computer |-> c, received |-> hour, was |-> status[c], alone |-> TRUE]]
  /\ UNCHANGED <<hour, status, lastSeen, sweep, heard>>

\* Mutant: a conflict stays until somebody settles it.
KeepsConflict(s, c) ==
  IF status[c] = "IDENTITY_CONFLICT" \/ sighting[s].was = "ONLINE" THEN status[c] ELSE "ONLINE"

SeenStatus(s, c) == IF sighting[s].was = "ONLINE" THEN status[c] ELSE "ONLINE"

CommitSighting(s) ==
  LET c == sighting[s].computer
  IN  /\ c # NoComputer
      /\ status' = [status EXCEPT ![c] = SeenStatus(s, c)]
      /\ lastSeen' = [lastSeen EXCEPT ![c] = sighting[s].received]
      /\ sighting' = [Overtaken({c}) EXCEPT ![s] = Unseen]
      /\ heard' = HeardOf(c)
      /\ UNCHANGED <<hour, sweep>>

\* A report with an agent's own credential: the endpoint's row is locked when
\* it is read and held until the commit.
AgentReport(c) ==
  /\ status' = [status EXCEPT ![c] = "ONLINE"]
  /\ lastSeen' = [lastSeen EXCEPT ![c] = hour]
  /\ sighting' = Overtaken({c})
  /\ heard' = HeardOf(c)
  /\ UNCHANGED <<hour, sweep>>

\* An inventory carried identifiers of two computers; neither is seen by it.
Conflict(b, c) ==
  /\ b # c
  /\ status' = [status EXCEPT ![b] = "IDENTITY_CONFLICT", ![c] = "IDENTITY_CONFLICT"]
  /\ sighting' = Overtaken({b, c})
  /\ UNCHANGED <<hour, lastSeen, sweep, heard>>

SelectStale(w) ==
  /\ sweep[w] = {}
  /\ sweep' = [sweep EXCEPT ![w] =
       {c \in Computers : Stale(c) /\ status[c] # "REQUIRES_VERIFICATION"}]
  /\ heard' = [heard EXCEPT ![w] = {}]
  /\ UNCHANGED <<hour, status, lastSeen, sighting>>

CommitSweep(w) ==
  /\ sweep[w] # {}
  /\ status' = [c \in Computers |-> IF c \in sweep[w] THEN "REQUIRES_VERIFICATION"
                                    ELSE status[c]]
  /\ sweep' = [sweep EXCEPT ![w] = {}]
  /\ heard' = [heard EXCEPT ![w] = {}]
  /\ sighting' = Overtaken(sweep[w])
  /\ UNCHANGED <<hour, lastSeen>>

FreshNext ==
  \/ PassHour
  \/ \E s \in Sightings : LoadComputer(s) \/ CommitSighting(s)
  \/ \E c \in Computers : AgentReport(c) \/ \E b \in Computers : Conflict(b, c)
  \/ \E w \in Sweepers : SelectStale(w) \/ CommitSweep(w)

FreshSpec == FreshInit /\ [][FreshNext]_freshVars

-----------------------------------------------------------------------------
(* The two views. *)

ConnectionStatus(c) ==
  IF status[c] \in {"IDENTITY_CONFLICT", "OFFLINE"} THEN status[c]
  ELSE IF Stale(c) THEN "STALE" ELSE status[c]

\* The arms of the CASE, in their order.
EffectiveStatus(c) ==
  IF status[c] = "IDENTITY_CONFLICT" THEN "IDENTITY_CONFLICT"
  ELSE IF status[c] = "OFFLINE" THEN "OFFLINE"
  ELSE IF Stale(c) THEN "STALE" ELSE status[c]

-----------------------------------------------------------------------------
(* Properties *)

FreshTypeOK ==
  /\ hour \in 0..LastHour
  /\ status \in [Computers -> {"ONLINE", "REQUIRES_VERIFICATION", "IDENTITY_CONFLICT"}]
  /\ lastSeen \in [Computers -> 0..hour]
  /\ sighting \in
       [Sightings -> [computer : Computers \cup {NoComputer}, received : 0..hour,
                      was : {"ONLINE", "REQUIRES_VERIFICATION", "IDENTITY_CONFLICT"},
                      alone : BOOLEAN]]
  /\ sweep \in [Sweepers -> SUBSET Computers]
  /\ heard \in [Sweepers -> SUBSET Computers]

\* A report that loads its computer before another commit writes it, and an
\* evaluation that selects it before a report of it, can both leave a computer
\* that is being heard from in another state than online.  Nothing else can: a
\* report that commits over what it loaded shows its computer online, on its
\* page and in the counts of the dashboard, also while an evaluation is under
\* way, and an evaluation marks a computer heard from in time only if a report
\* of it was committed between its query and its commit
\* (normalizer.py:184-190, endpoints/service.py:9-40).
ReportsShow ==
  [][/\ \A s \in Sightings, c \in Computers :
          /\ sighting[s].computer = c /\ sighting'[s].computer = NoComputer
          /\ sighting[s].alone /\ hour <= sighting[s].received + StaleAfter
          => ConnectionStatus(c)' = "ONLINE" /\ EffectiveStatus(c)' = "ONLINE"
     /\ \A c \in Computers :
          /\ status[c] # "REQUIRES_VERIFICATION" /\ status'[c] = "REQUIRES_VERIFICATION"
          /\ ~ Stale(c)
          => \E w \in Sweepers : c \in sweep[w] \cap heard[w]]_freshVars

\* Nobody has written the computer of a report that is alone since the report
\* loaded it, and what an evaluation selected is as stale as it found it
\* unless it was heard from since.
AloneIsUntouched ==
  \A s \in Sightings : LET t == sighting[s]
                       IN  t.computer # NoComputer /\ t.alone => t.was = status[t.computer]

SelectedIsStale == \A w \in Sweepers : \A c \in sweep[w] \ heard[w] : Stale(c)

FreshInv == FreshTypeOK /\ AloneIsUntouched /\ SelectedIsStale

=============================================================================
