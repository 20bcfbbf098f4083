---------------------------- MODULE PhysicalStock ----------------------------
(***************************************************************************)
(* The registry of physical assets: rooms are inspected by hand, a         *)
(* discrepancy becomes an incident, and a decision on the incident moves   *)
(* or writes off units by an accounting act.  At the same time positions   *)
(* are edited and source files are imported again.                         *)
(*                                                                         *)
(* A decision locks its incident, then its asset; an import locks the rows *)
(* it found; an edit and an inspection read without locks, so what they    *)
(* read may be stale when they commit.                                     *)
(***************************************************************************)
EXTENDS Naturals, Sequences, FiniteSets, FiniteSetsExt, Functions

CONSTANTS
  Assets,      \* inventory numbers of one organization
  Rooms,       \* rooms; each has one name, which never changes
  Incidents,   \* rows of physical_incidents
  Deciders,    \* requests deciding an incident
  Importers,   \* requests applying a file
  Editors,     \* requests editing a position
  Inspectors,  \* requests saving an inspection
  Files,       \* rows of imported files: all but the number may be missing
  Forms,       \* what positions are created with
  EditFields,  \* fields that edits change
  MaxQuantity, \* bound on the quantity of a position
  None         \* no room, asset, incident or value

ASSUME StockAssumption ==
  /\ MaxQuantity \in Nat \ {0}
  /\ None \notin Assets \cup Rooms \cup Incidents \cup Nat \cup STRING
  /\ Forms \subseteq [quantity : 1..MaxQuantity, mode : {"INDIVIDUAL", "GROUPED"},
                      place : Rooms \cup {None}]
  /\ EditFields \subseteq {"quantity", "mode", "status", "room", "place"}
  /\ Files \subseteq
       [quantity : 1..MaxQuantity \cup {None}, mode : {"INDIVIDUAL", "GROUPED", None},
        status : {"ACTIVE", "WRITTEN_OFF", None}, located : BOOLEAN, place : Rooms \cup {None}]

\* A registry is a table: a sum over its positions exists.
ASSUME AssetsAssumption == IsFiniteSet(Assets)

VARIABLES
  asset,     \* per inventory number: its row
  incident,  \* per incident: its row
  acts,      \* the decisions MOVE and WRITE_OFF, in the order of commits
  decision,  \* per decider, importer, editor and inspector: what the
  import,    \*   handler holds in memory
  edit,
  inspection

vars == <<asset, incident, acts, decision, import, edit, inspection>>

Quantity == 1..MaxQuantity
Place == Rooms \cup {None}
Mode == {"INDIVIDUAL", "GROUPED"}
Status == {"ACTIVE", "WRITTEN_OFF"}

NoAsset == [status |-> "absent", quantity |-> 0, mode |-> "INDIVIDUAL",
            room |-> None, place |-> None]

\* room is the reference to a room, place the name kept beside it as text.
Position == [status : Status, quantity : Quantity, mode : Mode, room : Place, place : Place]
AssetRow == {NoAsset} \cup Position
IncidentRow == [status : {"free", "OPEN", "UNDER_REVIEW", "RESOLVED"},
                asset : Assets \cup {None}, room : Place,
                affected : 0..MaxQuantity]
Act == [incident : Incidents, action : {"MOVE", "WRITE_OFF"}, asset : Assets,
        destination : Assets \cup {None}, quantity : Quantity]
Decision == [step : {"idle", "incident", "asset"}, incident : Incidents \cup {None},
             row : AssetRow]
Import == [asset : Assets \cup {None}, old : AssetRow, new : AssetRow]
Field == {"status", "quantity", "mode", "room", "place"}
Edit == [asset : Assets \cup {None}, changed : SUBSET Field,
         row : [status : {"absent"} \cup Status, quantity : 0..MaxQuantity, mode : Mode,
                room : Place, place : Place]]
Inspection == [room : Place, affected : [Assets -> 0..MaxQuantity]]

NoIncident == [status |-> "free", asset |-> None, room |-> None, affected |-> 0]
NoDecision == [step |-> "idle", incident |-> None, row |-> NoAsset]
NoImport == [asset |-> None, old |-> NoAsset, new |-> NoAsset]
NoEdit == [asset |-> None, changed |-> {}, row |-> NoAsset]
NoInspection == [room |-> None, affected |-> [a \in Assets |-> 0]]

TypeOK ==
  /\ asset \in [Assets -> AssetRow]
  /\ incident \in [Incidents -> IncidentRow]
  /\ acts \in Seq(Act)
  /\ decision \in [Deciders -> Decision]
  /\ import \in [Importers -> Import]
  /\ edit \in [Editors -> Edit]
  /\ inspection \in [Inspectors -> Inspection]

Init ==
  /\ asset = [a \in Assets |-> NoAsset]
  /\ incident = [i \in Incidents |-> NoIncident]
  /\ acts = << >>
  /\ decision = [d \in Deciders |-> NoDecision]
  /\ import = [m \in Importers |-> NoImport]
  /\ edit = [e \in Editors |-> NoEdit]
  /\ inspection = [n \in Inspectors |-> NoInspection]

-----------------------------------------------------------------------------
Exists(a) == asset[a].status # "absent"

\* Mutant: incidents are read without a lock.
IncidentsUnlocked(i) == FALSE

\* Rows locked by transactions in progress.
LockedIncident(i) == \E d \in Deciders : decision[d].incident = i

\* Mutant: the asset is read without a lock.
AssetsUnlocked(a) == FALSE

LockedAsset(a) ==
  \/ \E d \in Deciders :
       decision[d].step = "asset" /\ incident[decision[d].incident].asset = a
  \/ \E m \in Importers : import[m].asset = a /\ import[m].old.status # "absent"

\* The assets with an accounting act: its source or its destination.
Accounted ==
  {a \in Assets : \E n \in DOMAIN acts : a \in {acts[n].asset, acts[n].destination}}

-----------------------------------------------------------------------------
(* Positions. *)

CreateAsset(a) ==
  /\ ~ Exists(a)
  /\ \E f \in Forms :
       asset' = [asset EXCEPT ![a] =
         [status |-> "ACTIVE", quantity |-> f.quantity, mode |-> f.mode,
          room |-> f.place, place |-> f.place]]
  /\ UNCHANGED <<incident, acts, decision, import, edit, inspection>>

\* The rows an edit of one field asks for.  Clearing the reference leaves the
\* text, clearing the text leaves the reference.
Edits(row, field) ==
  CASE field = "quantity" -> {[row EXCEPT !.quantity = q] : q \in Quantity}
    [] field = "mode" -> {[row EXCEPT !.mode = m] : m \in Mode}
    [] field = "status" -> {[row EXCEPT !.status = s] : s \in Status}
    [] field = "room" -> {[row EXCEPT !.room = None]}
         \cup {[row EXCEPT !.room = r, !.place = r] : r \in Rooms}
    [] field = "place" -> {[row EXCEPT !.place = None]}
         \cup {[row EXCEPT !.room = r, !.place = r] : r \in Rooms}

Merge(row, changed, now) == [f \in Field |-> IF f \in changed THEN row[f] ELSE now[f]]

LoadEdit(e) ==
  /\ edit[e].asset = None
  /\ \E a \in Assets, field \in EditFields :
       /\ Exists(a)
       /\ \E row \in Edits(asset[a], field) :
            LET changed == {f \in Field : row[f] # asset[a][f]}
            IN  edit' = [edit EXCEPT ![e] =
                  [asset |-> a, changed |-> changed, row |-> Merge(row, changed, NoAsset)]]
  /\ UNCHANGED <<asset, incident, acts, decision, import, inspection>>

\* Only the columns whose value changed are written.
CommitEdit(e) ==
  LET a == edit[e].asset
  IN  /\ a # None /\ ~ LockedAsset(a)
      /\ asset' = [asset EXCEPT ![a] = Merge(edit[e].row, edit[e].changed, asset[a])]
      /\ edit' = [edit EXCEPT ![e] = NoEdit]
      /\ UNCHANGED <<incident, acts, decision, import, inspection>>

-----------------------------------------------------------------------------
(* Inspections. *)

AssetsIn(r) == {a \in Assets : asset[a].room = r}

LoadRoom(n) ==
  /\ inspection[n].room = None
  /\ \E r \in Rooms, f \in [Assets -> 0..MaxQuantity] :
       /\ \A a \in Assets : f[a] <= IF a \in AssetsIn(r) THEN asset[a].quantity ELSE 0
       /\ \E a \in Assets : f[a] > 0
       /\ inspection' = [inspection EXCEPT ![n] = [room |-> r, affected |-> f]]
  /\ UNCHANGED <<asset, incident, acts, decision, import, edit>>

\* One incident for each position that is not all present.
CommitInspection(n) ==
  LET f == inspection[n].affected
      found == {a \in Assets : f[a] > 0}
  IN  /\ inspection[n].room # None
      /\ \E of \in Injection(found, {i \in Incidents : incident[i].status = "free"}) :
           incident' = [i \in Incidents |->
             IF i \in Range(of)
             THEN LET a == CHOOSE b \in found : of[b] = i
                  IN  [status |-> "OPEN", asset |-> a, room |-> inspection[n].room,
                       affected |-> f[a]]
             ELSE incident[i]]
      /\ inspection' = [inspection EXCEPT ![n] = NoInspection]
      /\ UNCHANGED <<asset, acts, decision, import, edit>>

-----------------------------------------------------------------------------
(* Decisions. *)

Undecided(i) == incident[i].status \in {"OPEN", "UNDER_REVIEW"}

LockIncident(d) ==
  /\ decision[d].step = "idle"
  /\ \E i \in Incidents :
       /\ Undecided(i) /\ ~ LockedIncident(i)
       /\ decision' = [decision EXCEPT ![d] =
                         [step |-> "incident", incident |-> i, row |-> NoAsset]]
  /\ UNCHANGED <<asset, incident, acts, import, edit, inspection>>

LockAsset(d) ==
  LET i == decision[d].incident
      a == incident[i].asset
  IN  /\ decision[d].step = "incident"
      /\ ~ LockedAsset(a)
      /\ asset[a].room = incident[i].room
      /\ decision' = [decision EXCEPT ![d].step = "asset", ![d].row = asset[a]]
      /\ UNCHANGED <<asset, incident, acts, import, edit, inspection>>

\* The position is elsewhere, or the input does not fit.
Refuse(d) ==
  /\ decision[d].step # "idle"
  /\ decision' = [decision EXCEPT ![d] = NoDecision]
  /\ UNCHANGED <<asset, incident, acts, import, edit, inspection>>

Decide(d, status) ==
  /\ incident' = [incident EXCEPT ![decision[d].incident].status = status]
  /\ decision' = [decision EXCEPT ![d] = NoDecision]
  /\ UNCHANGED <<import, edit, inspection>>

Investigate(d) ==
  /\ decision[d].step = "asset"
  /\ Decide(d, "UNDER_REVIEW")
  /\ UNCHANGED <<asset, acts>>

\* REPAIR and FALSE_POSITIVE.
Close(d) ==
  /\ decision[d].step = "asset"
  /\ Decide(d, "RESOLVED")
  /\ UNCHANGED <<asset, acts>>

\* The quantities an act may be about: all of the balance, or a part of a
\* group, within what the inspection found.
Amounts(d) ==
  LET row == decision[d].row
  IN  {q \in 1..row.quantity :
         /\ q <= incident[decision[d].incident].affected
         /\ row.mode = "GROUPED" \/ q = row.quantity}

Record(d, action, q, b) ==
  acts' = Append(acts, [incident |-> decision[d].incident, action |-> action,
                        asset |-> incident[decision[d].incident].asset,
                        destination |-> b, quantity |-> q])

Move(d) ==
  LET a == incident[decision[d].incident].asset
      row == decision[d].row
  IN  /\ decision[d].step = "asset"
      /\ \E q \in Amounts(d), r \in Rooms \ {row.room} :
           \/ /\ q = row.quantity
              /\ asset' = [asset EXCEPT ![a].room = r, ![a].place = r]
              /\ Record(d, "MOVE", q, a)
           \/ /\ q < row.quantity
              /\ \E b \in Assets :
                   /\ ~ Exists(b)
                   /\ asset' = [asset EXCEPT
                        ![a].quantity = row.quantity - q,
                        ![b] = [row EXCEPT !.quantity = q, !.room = r, !.place = r]]
                   /\ Record(d, "MOVE", q, b)
      /\ Decide(d, "RESOLVED")

WriteOff(d) ==
  LET a == incident[decision[d].incident].asset
      row == decision[d].row
  IN  /\ decision[d].step = "asset"
      /\ \E q \in Amounts(d) :
           /\ \/ /\ q < row.quantity
                 /\ asset' = [asset EXCEPT ![a].quantity = row.quantity - q]
              \/ /\ q = row.quantity
                 /\ asset' = [asset EXCEPT ![a].status = "WRITTEN_OFF",
                                           ![a].room = None, ![a].place = None]
           /\ Record(d, "WRITE_OFF", q, None)
      /\ Decide(d, "RESOLVED")

-----------------------------------------------------------------------------
(* Imports. *)

\* Mutant: acts are not looked for.
NothingPreserved(a) == FALSE

\* An accounting act has priority over a file.
Preserved(a) == a \in Accounted

Given(value, default) == IF value = None THEN default ELSE value

\* Mutant: a missing quantity is read as zero.
ImportedAsRead(a, f) ==
  [status |-> Given(f.status, "ACTIVE"), quantity |-> Given(f.quantity, 0), mode |-> "GROUPED",
   room |-> None, place |-> f.place]

\* What it makes of the position, before the room is looked up.
Imported(a, f) ==
  LET row == asset[a]
      q == Given(f.quantity, IF Exists(a) THEN row.quantity ELSE 1)
  IN  IF Preserved(a) THEN row
      ELSE [status |-> Given(f.status, IF Exists(a) THEN row.status ELSE "ACTIVE"),
            quantity |-> q,
            mode |-> Given(f.mode, IF q > 1 THEN "GROUPED" ELSE row.mode),
            room |-> row.room,
            place |-> IF f.located THEN f.place ELSE row.place]

\* The rows that exist are locked and read, then the acts are read.
LockRows(m) ==
  /\ import[m].asset = None
  /\ \E a \in Assets, f \in Files :
       LET new == Imported(a, f)
       IN  /\ ~ LockedAsset(a)
           /\ new.mode = "INDIVIDUAL" => new.quantity = 1
           /\ import' = [import EXCEPT ![m] = [asset |-> a, old |-> asset[a], new |-> new]]
  /\ UNCHANGED <<asset, incident, acts, decision, edit, inspection>>

\* A new number is inserted, unless another transaction was first.  The room
\* follows the text.
CommitImport(m) ==
  LET a == import[m].asset
      p == import[m].new.place
  IN  /\ a # None
      /\ import[m].old.status = "absent" => ~ Exists(a)
      /\ asset' = [asset EXCEPT ![a] = [import[m].new EXCEPT !.room = p]]
      /\ import' = [import EXCEPT ![m] = NoImport]
      /\ UNCHANGED <<incident, acts, decision, edit, inspection>>

FailImport(m) ==
  /\ import[m].asset # None
  /\ import[m].old.status = "absent" /\ Exists(import[m].asset)
  /\ import' = [import EXCEPT ![m] = NoImport]
  /\ UNCHANGED <<asset, incident, acts, decision, edit, inspection>>

-----------------------------------------------------------------------------
Next ==
  \/ \E a \in Assets : CreateAsset(a)
  \/ \E e \in Editors : LoadEdit(e) \/ CommitEdit(e)
  \/ \E n \in Inspectors : LoadRoom(n) \/ CommitInspection(n)
  \/ \E d \in Deciders :
       \/ LockIncident(d) \/ LockAsset(d) \/ Refuse(d)
       \/ Investigate(d) \/ Close(d) \/ Move(d) \/ WriteOff(d)
  \/ \E m \in Importers : LockRows(m) \/ CommitImport(m) \/ FailImport(m)

Spec == Init /\ [][Next]_vars

-----------------------------------------------------------------------------
(* Properties *)

\* Units of the positions in use.
Units(row) == IF row.status = "ACTIVE" THEN row.quantity ELSE 0

Stock(rows) == MapThenSumSet(LAMBDA a : Units(rows[a]), Assets)

\* One incident leads to one act, about no more than the inspection found,
\* whoever decides it at the same time.
OneActPerIncident ==
  \A m, n \in DOMAIN acts :
    /\ acts[m].incident = acts[n].incident => m = n
    /\ acts[n].quantity <= incident[acts[n].incident].affected

\* A move keeps the stock and a write-off of a position in use takes just its
\* units from it: edits, imports and other acts cannot come in between the
\* reading of a balance and its writing.
StockConserved ==
  [][acts' # acts =>
       LET act == acts'[Len(acts')]
       IN  Stock(asset') + (IF act.action = "WRITE_OFF" /\ asset[act.asset].status = "ACTIVE"
                            THEN act.quantity ELSE 0) = Stock(asset)]_vars

\* An act is about a position that is still where the inspection found it.
ActsWhereInspected ==
  [][acts' # acts =>
       LET act == acts'[Len(acts')]
       IN  asset[act.asset].room = incident[act.incident].room]_vars

Applied(a) == \E m \in Importers : import[m].asset = a /\ import'[m].asset = None

\* A file imported after an act brings back neither the quantity, the mode
\* nor the status of a position.
ActsOutliveImports ==
  [][\A a \in Accounted :
       Applied(a) => /\ asset'[a].quantity = asset[a].quantity
                     /\ asset'[a].status = asset[a].status
                     /\ asset'[a].mode = asset[a].mode]_vars

\* Nor does it move the position.
PlaceOutlivesImports ==
  [][\A a \in Accounted : Applied(a) => asset'[a].room = asset[a].room]_vars

-----------------------------------------------------------------------------
(* The inductive invariant behind the properties. *)

Subject(d) == incident[decision[d].incident].asset
Locking(m) == import[m].old.status # "absent"

\* An incident names the position and the room of its inspection.
IncidentsKnown ==
  \A i \in Incidents : incident[i].status # "free" =>
    incident[i].asset \in Assets /\ incident[i].room \in Rooms

\* A decision holds an undecided incident alone, and what it read of a locked
\* position is still so.
DecisionsHold ==
  \A d \in Deciders :
    /\ decision[d].step = "idle" => decision[d].incident = None
    /\ decision[d].step # "idle" =>
         /\ decision[d].incident \in Incidents
         /\ Undecided(decision[d].incident)
         /\ \A c \in Deciders : decision[c].incident = decision[d].incident => c = d
    /\ decision[d].step = "asset" =>
         /\ decision[d].row = asset[Subject(d)]
         /\ decision[d].row.room = incident[decision[d].incident].room

\* A position is locked by one transaction at most.
LocksApart ==
  /\ \A c, d \in Deciders :
       decision[c].step = "asset" /\ decision[d].step = "asset"
         /\ Subject(c) = Subject(d) => c = d
  /\ \A d \in Deciders, m \in Importers :
       decision[d].step = "asset" /\ Locking(m) => import[m].asset # Subject(d)
  /\ \A m, n \in Importers :
       Locking(m) /\ Locking(n) /\ import[m].asset = import[n].asset => m = n

\* An import of an existing position knows its row, and keeps it if an act
\* was made on it.
ImportsHold ==
  \A m \in Importers :
    LET a == import[m].asset
        new == import[m].new
    IN  /\ a # None => new \in Position
        /\ Locking(m) => a # None /\ import[m].old = asset[a]
        /\ Locking(m) /\ a \in Accounted =>
             new.quantity = asset[a].quantity /\ new.status = asset[a].status
               /\ new.mode = asset[a].mode

\* An edit is of an existing position, and what it changes has a value.
EditsHold ==
  \A e \in Editors : edit[e].asset # None =>
    /\ Exists(edit[e].asset)
    /\ "status" \in edit[e].changed => edit[e].row.status \in Status
    /\ "quantity" \in edit[e].changed => edit[e].row.quantity \in Quantity

\* The incidents of acts stay resolved and their positions stay.
ActsHold ==
  /\ \A a \in Accounted : Exists(a)
  /\ \A n \in DOMAIN acts : incident[acts[n].incident].status = "RESOLVED"
  /\ OneActPerIncident

IndInv ==
  TypeOK /\ IncidentsKnown /\ DecisionsHold /\ LocksApart /\ ImportsHold
    /\ EditsHold /\ ActsHold

=============================================================================
