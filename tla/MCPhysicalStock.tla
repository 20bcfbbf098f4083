--------------------------- MODULE MCPhysicalStock ---------------------------
(* Instances of PhysicalStock for TLC. *)
EXTENDS PhysicalStock, TLC

CONSTANTS r1, r2

VARIABLE scenario

\* A group of units and a single one, in two rooms.
GroupForm == [quantity |-> MaxQuantity, mode |-> "GROUPED", place |-> r1]
OneForm == {GroupForm}
TwoForms == {GroupForm, [quantity |-> 1, mode |-> "INDIVIDUAL", place |-> r2]}

\* A complete row, one of an old file with few columns, and one that writes off
\* and clears the room.
OldFiles ==
  {[quantity |-> 2, mode |-> None, status |-> "ACTIVE", located |-> TRUE, place |-> r1],
   [quantity |-> None, mode |-> None, status |-> None, located |-> FALSE, place |-> None],
   [quantity |-> 1, mode |-> "INDIVIDUAL", status |-> "WRITTEN_OFF", located |-> TRUE,
    place |-> None]}

\* Two kinds of behaviours, chosen at the start: acts on several positions by
\* deciders that overlap, without edits and imports; or edits and imports
\* while one position, one incident and one decider are used.
OneOfEach ==
  /\ Cardinality({a \in Assets : Exists(a) \/ \E m \in Importers : import[m].asset = a}) <= 1
  /\ Cardinality({i \in Incidents : incident[i] # NoIncident}) <= 1
  /\ Cardinality({d \in Deciders : decision[d] # NoDecision}) <= 1

Keep == UNCHANGED scenario /\ (scenario = "edits" => OneOfEach')
Edited == scenario = "edits" /\ Keep

StockNext ==
  \/ \E a \in Assets : CreateAsset(a) /\ Keep
  \/ \E e \in Editors : (LoadEdit(e) /\ Edited) \/ (CommitEdit(e) /\ Edited)
  \/ \E n \in Inspectors : (LoadRoom(n) /\ Keep) \/ (CommitInspection(n) /\ Keep)
  \/ \E d \in Deciders :
       \/ (LockIncident(d) /\ Keep) \/ (LockAsset(d) /\ Keep) \/ (Refuse(d) /\ Keep)
       \/ (Investigate(d) /\ Keep) \/ (Close(d) /\ Keep)
       \/ (Move(d) /\ Keep) \/ (WriteOff(d) /\ Keep)
  \/ \E m \in Importers :
       \/ (LockRows(m) /\ Edited) \/ (CommitImport(m) /\ Edited) \/ (FailImport(m) /\ Edited)

StockInit == Init /\ scenario \in {"acts", "edits"}

StockSpec == StockInit /\ [][StockNext]_<<vars, scenario>>

Symmetry ==
  Permutations(Assets) \cup Permutations(Incidents) \cup Permutations(Deciders)

=============================================================================
