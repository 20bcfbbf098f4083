----------------------------- MODULE AssetImport -----------------------------
(***************************************************************************)
(* What an imported file does to the registry of one organization: the     *)
(* rows of a workbook or of a table in a PDF, the lines of a state         *)
(* inventory statement, or those recognized on its scan become items; a    *)
(* file is refused as a whole or its selected items are written in one     *)
(* transaction.  PhysicalStock models what overlaps with it.               *)
(***************************************************************************)
EXTENDS Naturals, Sequences, FiniteSets, FiniteSetsExt

CONSTANTS
  Numbers,      \* inventory numbers
  MaxQuantity,  \* bound standing for the 1000000 of the source
  RoomNames,    \* names of rooms
  Files,        \* uploaded files: a kind, whether it has columns for the
                \*   location, and a sequence of rows
  NoValue       \* an empty cell, no place

VARIABLES
  position,     \* per inventory number: its row
  accounted,    \* numbers with an accounting act
  chosen        \* the file an administrator has chosen, or NoValue

importVars == <<position, accounted, chosen>>

Absent == [status |-> "absent", quantity |-> 0, mode |-> "INDIVIDUAL",
           place |-> NoValue, room |-> NoValue]

ImportInit ==
  /\ position = [n \in Numbers |-> Absent]
  /\ accounted = {}
  /\ chosen = NoValue

-----------------------------------------------------------------------------
(* From the rows of a file to its items. *)

\* Mutant: the range of a quantity is not checked.
AnyQuantity(r) ==
  /\ r.number # NoValue
  /\ r.mode \in {"INDIVIDUAL", "GROUPED", NoValue}
  /\ r.mode = "INDIVIDUAL" => r.quantity \in {1, NoValue}

\* A cell of quantity may hold what is not a whole number in range, a cell of
\* mode any word.
ValidRow(r) ==
  /\ r.number # NoValue
  /\ r.quantity \in 1..MaxQuantity \cup {NoValue}
  /\ r.mode \in {"INDIVIDUAL", "GROUPED", NoValue}
  /\ r.mode = "INDIVIDUAL" => r.quantity \in {1, NoValue}

\* The rows at a set of indices, in their order: the k-th index is the one that
\* k of them do not exceed.
RowsAt(rows, indices) ==
  LET nth(k) == CHOOSE i \in indices : Cardinality({j \in indices : j <= i}) = k
  IN  [k \in 1..Cardinality(indices) |-> rows[nth(k)]]

\* One row for each number, the last or the first, in the order of their first.
OneEach(rows, latest) ==
  LET same(i) == {j \in DOMAIN rows : rows[j].number = rows[i].number}
      kept == [i \in DOMAIN rows |-> rows[IF latest THEN Max(same(i)) ELSE Min(same(i))]]
  IN  RowsAt(kept, {i \in DOMAIN rows : i = Min(same(i))})

\* In a statement a row number that comes back replaces the former row; on a
\* scan the first row stands.  Both are groups in use, without a place.
FileItems(f) ==
  LET rows == RowsAt(f.rows, {i \in DOMAIN f.rows : ~ f.rows[i].blank})
      Item(r) == [number |-> r.number, quantity |-> r.quantity, located |-> f.located,
                  mode |-> IF f.kind = "table" THEN r.mode ELSE "GROUPED",
                  status |-> IF f.kind = "table" THEN r.status ELSE "ACTIVE",
                  place |-> IF f.located THEN r.place ELSE NoValue,
                  unverified |-> f.kind # "table" /\ r.quantity = NoValue]
      kept == CASE f.kind = "table" -> rows
                [] f.kind = "statement" -> OneEach(rows, TRUE)
                [] f.kind = "scan" -> OneEach(rows, FALSE)
  IN  [i \in DOMAIN kept |-> Item(kept[i])]

ASSUME ImportAssumption ==
  /\ MaxQuantity \in Nat \ {0} /\ NoValue \notin Files \cup {"absent"}
  /\ \A f \in Files :
       /\ f.kind \in {"table", "statement", "scan"}
       /\ Len(f.rows) \in Nat /\ DOMAIN f.rows = 1..Len(f.rows)
       /\ \A i \in DOMAIN f.rows :
            /\ f.rows[i].number \in Numbers \cup {NoValue}
            /\ f.rows[i].status \in {"ACTIVE", "WRITTEN_OFF", NoValue}
            /\ f.rows[i].place \in RoomNames \cup {NoValue}

-----------------------------------------------------------------------------
(* From the items to the rows of the registry. *)

Known(reg, item) == reg[item.number].status # "absent"

Given(value, default) == IF value = NoValue THEN default ELSE value

\* The row an item asks for; of a number with an act the balance, the status
\* and the place are kept.  The room follows the name of the place.
Planned(reg, item) ==
  LET row == reg[item.number]
      q == Given(item.quantity, IF Known(reg, item) THEN row.quantity ELSE 1)
      p == IF Known(reg, item) /\ ~ item.located THEN row.place ELSE item.place
  IN  IF Known(reg, item) /\ item.number \in accounted THEN [row EXCEPT !.room = row.place]
      ELSE [status |-> Given(item.status, IF Known(reg, item) THEN row.status ELSE "ACTIVE"),
            quantity |-> q, place |-> p, room |-> p,
            mode |-> Given(item.mode, IF q > 1 THEN "GROUPED" ELSE row.mode)]

Selected(f, excluded) == DOMAIN FileItems(f) \ excluded

\* Mutant: repeated numbers are not looked for.
RepeatsAllowed(f, excluded) == TRUE

NoRepeats(f, excluded) ==
  \A i, j \in Selected(f, excluded) : FileItems(f)[i].number = FileItems(f)[j].number => i = j

\* All rows of the file must be sound, also the excluded ones; what is known
\* of no position but by an unread quantity must be excluded.
Accepted(reg, f, excluded) ==
  LET items == FileItems(f)
  IN  /\ excluded \subseteq DOMAIN items /\ Selected(f, excluded) # {}
      /\ \A i \in DOMAIN items : ValidRow(items[i])
      /\ NoRepeats(f, excluded)
      /\ \A i \in DOMAIN items :
           Planned(reg, items[i]).mode = "INDIVIDUAL" => Planned(reg, items[i]).quantity = 1
      /\ \A i \in Selected(f, excluded) : items[i].unverified => Known(reg, items[i])

\* Items are written in their order.
Applied(reg, f, excluded) ==
  LET of(n) == {i \in Selected(f, excluded) : FileItems(f)[i].number = n}
  IN  [n \in Numbers |-> IF of(n) = {} THEN reg[n] ELSE Planned(reg, FileItems(f)[Max(of(n))])]

-----------------------------------------------------------------------------
\* The page sends a file for a preview, which writes nothing, and again with the
\* rows to leave out; the administrator may repeat that or give the file up.
Preview(f) ==
  /\ chosen = NoValue
  /\ chosen' = f
  /\ UNCHANGED <<position, accounted>>

Import(excluded) ==
  /\ chosen # NoValue
  /\ Accepted(position, chosen, excluded)
  /\ position' = Applied(position, chosen, excluded)
  /\ UNCHANGED <<accounted, chosen>>

GiveUp ==
  /\ chosen # NoValue
  /\ chosen' = NoValue
  /\ UNCHANGED <<position, accounted>>

\* An act moves a position or writes it off.
Account(n) ==
  /\ Known(position, [number |-> n])
  /\ \/ \E p \in RoomNames : position' = [position EXCEPT ![n].place = p, ![n].room = p]
     \/ position' = [position EXCEPT ![n].status = "WRITTEN_OFF", ![n].place = NoValue,
                                     ![n].room = NoValue]
  /\ accounted' = accounted \cup {n}
  /\ UNCHANGED chosen

\* An edit clears the reference to the room, or its name.
ClearPlace(n) ==
  /\ Known(position, [number |-> n])
  /\ \/ position' = [position EXCEPT ![n].room = NoValue]
     \/ position' = [position EXCEPT ![n].place = NoValue]
  /\ UNCHANGED <<accounted, chosen>>

ImportNext ==
  \/ \E f \in Files : Preview(f)
  \/ chosen # NoValue /\ \E excluded \in SUBSET DOMAIN chosen.rows : Import(excluded)
  \/ GiveUp
  \/ \E n \in Numbers : Account(n) \/ ClearPlace(n)

ImportSpec == ImportInit /\ [][ImportNext]_importVars

-----------------------------------------------------------------------------
(* Properties *)

ImportTypeOK ==
  /\ position \in
       [Numbers -> {Absent} \cup
          [status : {"ACTIVE", "WRITTEN_OFF"}, quantity : 1..MaxQuantity,
           mode : {"INDIVIDUAL", "GROUPED"}, place : RoomNames \cup {NoValue},
           room : RoomNames \cup {NoValue}]]
  /\ accounted \subseteq Numbers
  /\ chosen \in Files \cup {NoValue}

\* An import settles: once a file is applied, applying it or any part of it
\* again is accepted and changes nothing, and to import a part first and then
\* the whole file comes to the same as importing it at once, whatever the
\* registry held, was edited to and has acts about (admin_assets.py:539-667).
ImportSettles ==
  chosen # NoValue /\ Accepted(position, chosen, {}) =>
    LET whole == Applied(position, chosen, {})
    IN  \A excluded \in SUBSET DOMAIN FileItems(chosen) :
          Selected(chosen, excluded) # {} =>
            /\ Accepted(whole, chosen, excluded)
            /\ Applied(whole, chosen, excluded) = whole
            /\ Accepted(position, chosen, excluded)
            /\ Applied(Applied(position, chosen, excluded), chosen, {}) = whole

=============================================================================
