------------------------ MODULE PhysicalStockProofs ------------------------
(***************************************************************************)
(* The invariants of PhysicalStock hold for any number of positions,       *)
(* incidents, administrators, files and edits.                             *)
(***************************************************************************)
EXTENDS PhysicalStock, FiniteSetTheorems, WellFoundedInduction, TLAPS

-----------------------------------------------------------------------------
(* The sum of the stock. *)

LEMMA LeastOf ==
  ASSUME NEW S \in SUBSET Nat, S # {}
  PROVE  \E m \in S : \A k \in S : m <= k
<1>1. PICK m \in S : \A k \in S : <<k, m>> \notin OpToRel(<, Nat)
  BY NatLessThanWellFounded, WFMin, Zenon
<1>2. \A k \in S : ~ (k < m)
  BY <1>1 DEF OpToRel
<1> QED BY <1>2

(* The sum of q over the subsets of the positions, one element after the     *)
(* other, as the fold of the community modules takes them.                   *)
Pick(s) == CHOOSE x \in s : TRUE
Sum(g, q, s) == IF s = {} THEN 0 ELSE q[Pick(s)] + g[s \ {Pick(s)}]

\* Pick takes an element, and there is one less to take.
LEMMA Smaller ==
  ASSUME NEW s \in SUBSET Assets
  PROVE  /\ Cardinality(s) \in Nat
         /\ s # {} => /\ Pick(s) \in s
                      /\ s \ {Pick(s)} \in SUBSET Assets
                      /\ Cardinality(s) > 0
                      /\ Cardinality(s \ {Pick(s)}) = Cardinality(s) - 1
<1>1. IsFiniteSet(s)
  BY FS_Subset, AssetsAssumption
<1>2. Cardinality(s) \in Nat
  BY <1>1, FS_CardinalityType
<1>3. ASSUME s # {} PROVE Pick(s) \in s
  BY <1>3, Zenon DEF Pick
<1>4. ASSUME s # {} PROVE Cardinality(s) # 0
  BY <1>1, <1>4, FS_EmptySet
<1>5. ASSUME s # {} PROVE Cardinality(s \ {Pick(s)}) = Cardinality(s) - 1
  BY <1>1, <1>3, <1>5, FS_RemoveElement
<1> QED BY <1>2, <1>3, <1>4, <1>5

\* The recursion of the fold has a solution.
LEMMA SumsExist ==
  ASSUME NEW q \in [Assets -> Nat]
  PROVE  \E g \in [SUBSET Assets -> Nat] : \A s \in SUBSET Assets : g[s] = Sum(g, q, s)
<1> DEFINE Upto(g, n) == \A s \in SUBSET Assets : Cardinality(s) <= n => g[s] = Sum(g, q, s)
           Bad == {n \in Nat : ~ \E g \in [SUBSET Assets -> Nat] : Upto(g, n)}
<1>1. 0 \notin Bad
  <2> DEFINE g == [s \in SUBSET Assets |-> 0]
  <2>1. g \in [SUBSET Assets -> Nat]
    OBVIOUS
  <2>2. Upto(g, 0)
    <3> SUFFICES ASSUME NEW s \in SUBSET Assets, Cardinality(s) <= 0 PROVE g[s] = Sum(g, q, s)
      OBVIOUS
    <3>1. s # {} => Cardinality(s) > 0 /\ Cardinality(s) \in Nat
      BY Smaller
    <3>2. s = {}
      BY <3>1
    <3> QED BY <3>2 DEF Sum
  <2> QED BY <2>1, <2>2
<1>2. ASSUME NEW n \in Nat, n \notin Bad PROVE n + 1 \notin Bad
  <2>1. PICK g \in [SUBSET Assets -> Nat] : Upto(g, n)
    BY <1>2
  <2> DEFINE h == [s \in SUBSET Assets |-> IF Cardinality(s) <= n THEN g[s] ELSE Sum(g, q, s)]
  <2>2. ASSUME NEW s \in SUBSET Assets PROVE Sum(g, q, s) \in Nat
    <3>1. CASE s = {}
      BY <3>1 DEF Sum
    <3>2. CASE s # {}
      <4>1. q[Pick(s)] \in Nat /\ g[s \ {Pick(s)}] \in Nat
        BY <2>1, <3>2, Smaller
      <4> QED BY <3>2, <4>1 DEF Sum
    <3> QED BY <3>1, <3>2
  <2>3. h \in [SUBSET Assets -> Nat]
    BY <2>1, <2>2
  <2>4. ASSUME NEW s \in SUBSET Assets, Cardinality(s) <= n + 1
        PROVE  h[s] = Sum(h, q, s) /\ h[s] = Sum(g, q, s)
    <3>1. h[s] = Sum(g, q, s)
      BY <2>1
    <3>2. s # {} => h[s \ {Pick(s)}] = g[s \ {Pick(s)}]
      BY <2>4, Smaller
    <3>3. Sum(h, q, s) = Sum(g, q, s)
      BY <3>2 DEF Sum
    <3> QED BY <3>1, <3>3
  <2>5. Upto(h, n + 1)
    BY <2>4
  <2> QED BY <2>3, <2>5
<1>3. Bad = {}
  <2> SUFFICES ASSUME Bad # {} PROVE FALSE
    OBVIOUS
  <2>1. PICK m \in Bad : \A k \in Bad : m <= k
    <3> HIDE DEF Bad
    <3>1. Bad \in SUBSET Nat
      BY DEF Bad
    <3> QED BY <3>1, LeastOf
  <2>2. m \in Nat /\ m # 0
    BY <1>1
  <2> HIDE DEF Bad
  <2>3. m - 1 \in Nat /\ ~ (m <= m - 1) /\ (m - 1) + 1 = m
    BY <2>2
  <2>4. (m - 1) + 1 \notin Bad
    BY <1>2, <2>1, <2>3
  <2> QED BY <2>1, <2>3, <2>4
<1>4. Cardinality(Assets) \in Nat
  BY Smaller
<1>5. PICK g \in [SUBSET Assets -> Nat] : Upto(g, Cardinality(Assets))
  BY <1>3, <1>4
<1>6. \A s \in SUBSET Assets : Cardinality(s) <= Cardinality(Assets)
  BY FS_Subset, AssetsAssumption
<1> QED BY <1>5, <1>6

\* What the fold means, once its recursion is known to have a solution.
LEMMA StockUnfolded ==
  ASSUME NEW rows, NEW f,
         f = [s \in SUBSET Assets |->
                IF s = {} THEN 0 ELSE Units(rows[Pick(s)]) + f[s \ {Pick(s)}]]
  PROVE  \E g : /\ g = [s \in SUBSET Assets |->
                          IF s = {} THEN 0 ELSE Units(rows[Pick(s)]) + g[s \ {Pick(s)}]]
               /\ Stock(rows) = g[Assets]
BY Zenon DEF Stock, MapThenSumSet, MapThenFoldSet, Pick

\* The stock is such a sum.
LEMMA StockIsSum ==
  ASSUME NEW rows, NEW q \in [Assets -> Nat], \A a \in Assets : q[a] = Units(rows[a])
  PROVE  \E g \in [SUBSET Assets -> Nat] :
            /\ \A s \in SUBSET Assets : g[s] = Sum(g, q, s)
            /\ Stock(rows) = g[Assets]
<1> DEFINE Body(g) == [s \in SUBSET Assets |->
                        IF s = {} THEN 0 ELSE Units(rows[Pick(s)]) + g[s \ {Pick(s)}]]
<1>1. PICK f \in [SUBSET Assets -> Nat] : \A s \in SUBSET Assets : f[s] = Sum(f, q, s)
  BY SumsExist
<1>2. f = Body(f)
  <2>1. f = [s \in SUBSET Assets |-> f[s]]
    BY <1>1
  <2>2. \A s \in SUBSET Assets :
           f[s] = IF s = {} THEN 0 ELSE Units(rows[Pick(s)]) + f[s \ {Pick(s)}]
    BY <1>1, Smaller DEF Sum
  <2> QED BY <2>1, <2>2
<1>3. PICK g : g = Body(g) /\ Stock(rows) = g[Assets]
  BY <1>2, StockUnfolded
<1>4. \A s \in SUBSET Assets : g[s] = Sum(g, q, s)
  <2> SUFFICES ASSUME NEW s \in SUBSET Assets PROVE g[s] = Sum(g, q, s)
    OBVIOUS
  <2>1. g[s] = IF s = {} THEN 0 ELSE Units(rows[Pick(s)]) + g[s \ {Pick(s)}]
    BY <1>3
  <2>2. s # {} => q[Pick(s)] = Units(rows[Pick(s)])
    BY Smaller
  <2> QED BY <2>1, <2>2 DEF Sum
<1>5. DOMAIN g = SUBSET Assets
  BY <1>3
<1>6. \A s \in SUBSET Assets : g[s] = f[s]
  <2> DEFINE Bad == {n \in Nat : \E s \in SUBSET Assets : Cardinality(s) = n /\ g[s] # f[s]}
  <2>1. SUFFICES ASSUME Bad # {} PROVE FALSE
    BY Smaller
  <2>2. PICK m \in Bad : \A k \in Bad : m <= k
    <3> HIDE DEF Bad
    <3>1. Bad \in SUBSET Nat
      BY DEF Bad
    <3> QED BY <2>1, <3>1, LeastOf
  <2>3. PICK s \in SUBSET Assets : Cardinality(s) = m /\ g[s] # f[s]
    BY <2>2
  <2>4. s # {}
    BY <1>1, <1>4, <2>3 DEF Sum
  <2>5. g[s \ {Pick(s)}] = f[s \ {Pick(s)}]
    <3>1. Cardinality(s \ {Pick(s)}) \in Nat /\ ~ (m <= Cardinality(s \ {Pick(s)}))
      BY <2>3, <2>4, Smaller
    <3>2. Cardinality(s \ {Pick(s)}) \notin Bad
      BY <2>2, <3>1
    <3> QED BY <2>4, <3>1, <3>2, Smaller
  <2> QED BY <1>1, <1>4, <2>3, <2>4, <2>5 DEF Sum
<1>7. g = f
  BY <1>1, <1>5, <1>6, <1>3
<1> QED BY <1>1, <1>3, <1>7

\* Where one position changes, the stock changes by its units.
LEMMA StockOfOne ==
  ASSUME NEW rows, NEW new, NEW a \in Assets,
         \A b \in Assets : Units(rows[b]) \in Nat,
         \A b \in Assets : Units(new[b]) \in Nat,
         \A b \in Assets \ {a} : Units(new[b]) = Units(rows[b])
  PROVE  /\ Stock(rows) \in Nat /\ Stock(new) \in Nat
         /\ Stock(new) + Units(rows[a]) = Stock(rows) + Units(new[a])
<1> DEFINE q == [b \in Assets |-> Units(rows[b])]
           r == [b \in Assets |-> Units(new[b])]
<1>1. q \in [Assets -> Nat] /\ \A b \in Assets : q[b] = Units(rows[b])
  OBVIOUS
<1>2. r \in [Assets -> Nat] /\ \A b \in Assets : r[b] = Units(new[b])
  OBVIOUS
<1>3. \A b \in Assets \ {a} : r[b] = q[b]
  OBVIOUS
<1> HIDE DEF q, r
<1>4. PICK g \in [SUBSET Assets -> Nat] :
         (\A s \in SUBSET Assets : g[s] = Sum(g, q, s)) /\ Stock(rows) = g[Assets]
  BY <1>1, StockIsSum
<1>5. PICK h \in [SUBSET Assets -> Nat] :
         (\A s \in SUBSET Assets : h[s] = Sum(h, r, s)) /\ Stock(new) = h[Assets]
  BY <1>2, StockIsSum
<1> DEFINE Agree(s) == IF a \in s THEN h[s] + q[a] = g[s] + r[a] ELSE h[s] = g[s]
           Bad == {n \in Nat : \E s \in SUBSET Assets : Cardinality(s) = n /\ ~ Agree(s)}
<1>6. Bad = {}
  <2> SUFFICES ASSUME Bad # {} PROVE FALSE
    OBVIOUS
  <2>2. PICK m \in Bad : \A k \in Bad : m <= k
    <3> HIDE DEF Bad
    <3>1. Bad \in SUBSET Nat
      BY DEF Bad
    <3> QED BY <3>1, LeastOf
  <2>3. PICK s \in SUBSET Assets : Cardinality(s) = m /\ ~ Agree(s)
    BY <2>2
  <2>4. s # {}
    BY <1>4, <1>5, <2>3 DEF Sum
  <2> DEFINE x == Pick(s)
             t == s \ {x}
  <2>5. x \in s /\ x \in Assets /\ t \in SUBSET Assets
    BY <2>4, Smaller
  <2>6. Agree(t)
    <3>1. Cardinality(t) \in Nat /\ ~ (m <= Cardinality(t))
      BY <2>3, <2>4, Smaller
    <3>2. Cardinality(t) \notin Bad
      BY <2>2, <3>1
    <3> QED BY <2>5, <3>1, <3>2
  <2>7. g[s] = q[x] + g[t] /\ h[s] = r[x] + h[t]
    BY <1>4, <1>5, <2>4 DEF Sum
  <2>8. g[t] \in Nat /\ h[t] \in Nat /\ q[x] \in Nat /\ r[x] \in Nat /\ q[a] \in Nat /\ r[a] \in Nat
    BY <1>1, <1>2, <1>4, <1>5, <2>5
  <2> HIDE DEF x
  <2>9. CASE x = a
    BY <2>3, <2>5, <2>6, <2>7, <2>8, <2>9
  <2>10. CASE x # a
    <3>1. a \in s <=> a \in t
      BY <2>10
    <3>2. r[x] = q[x]
      BY <1>3, <2>5, <2>10
    <3> QED BY <2>3, <2>6, <2>7, <2>8, <3>1, <3>2
  <2> QED BY <2>9, <2>10
<1>7. Agree(Assets)
  <2>1. Cardinality(Assets) \in Nat
    BY Smaller
  <2> QED BY <1>6, <2>1
<1> QED BY <1>1, <1>2, <1>4, <1>5, <1>7

USE StockAssumption

-----------------------------------------------------------------------------
(* Types. *)

LEMMA NoValues ==
  /\ NoAsset \in AssetRow /\ NoAsset \notin Position
  /\ NoIncident \in IncidentRow
  /\ NoDecision \in Decision
  /\ NoImport \in Import
  /\ NoEdit \in Edit
  /\ NoInspection \in Inspection
BY DEF NoAsset, AssetRow, Position, Status, Quantity, Mode, Place, NoIncident, IncidentRow,
   NoDecision, Decision, NoImport, Import, NoEdit, Edit, NoInspection, Inspection

(* A row that is not absent has a balance, and is where text or reference say. *)
LEMMA Rows ==
  ASSUME NEW row \in AssetRow
  PROVE  /\ row.status # "absent" <=> row \in Position
         /\ row.quantity > 0 => row \in Position
         /\ row.room # None => row \in Position
         /\ row.quantity \in 0..MaxQuantity
BY DEF AssetRow, Position, NoAsset, Status, Quantity

LEMMA MergedRow ==
  ASSUME NEW row, NEW changed \in SUBSET Field, NEW now \in Position,
         row \in [status : {"absent"} \cup Status, quantity : 0..MaxQuantity, mode : Mode,
                  room : Place, place : Place],
         "status" \in changed => row.status \in Status,
         "quantity" \in changed => row.quantity \in Quantity
  PROVE  Merge(row, changed, now) \in Position
<1> DEFINE m == Merge(row, changed, now)
<1>1. m = [f \in Field |-> IF f \in changed THEN row[f] ELSE now[f]]  BY DEF Merge
<1>2. DOMAIN m = {"status", "quantity", "mode", "room", "place"}  BY <1>1 DEF Field
<1>3. /\ m["status"] = IF "status" \in changed THEN row.status ELSE now.status
      /\ m["quantity"] = IF "quantity" \in changed THEN row.quantity ELSE now.quantity
      /\ m["mode"] = IF "mode" \in changed THEN row.mode ELSE now.mode
      /\ m["room"] = IF "room" \in changed THEN row.room ELSE now.room
      /\ m["place"] = IF "place" \in changed THEN row.place ELSE now.place
  BY <1>1 DEF Field
<1>4. m = [status |-> m["status"], quantity |-> m["quantity"], mode |-> m["mode"],
           room |-> m["room"], place |-> m["place"]]
  BY <1>1, <1>2 DEF Field
<1>5. /\ m["status"] \in Status /\ m["quantity"] \in Quantity /\ m["mode"] \in Mode
      /\ m["room"] \in Place /\ m["place"] \in Place
  BY <1>3 DEF Position
<1> HIDE DEF m
<1>6. m \in Position  BY <1>4, <1>5 DEF Position
<1> QED  BY <1>6 DEF m

-----------------------------------------------------------------------------
(* Positions. *)

(* Rows that no transaction has locked may be written, if none goes away.    *)
LEMMA RowsWritten ==
  ASSUME IndInv, asset' \in [Assets -> AssetRow], edit' \in [Editors -> Edit],
         \A a \in Assets : Exists(a) => asset'[a].status # "absent",
         \A a \in Assets : LockedAsset(a) => asset'[a] = asset[a],
         \A e \in Editors : edit'[e] = edit[e] \/ edit'[e] = NoEdit,
         UNCHANGED <<incident, acts, decision, import, inspection>>
  PROVE  IndInv'
<1>1. TypeOK'  BY DEF IndInv, TypeOK
<1>2. IncidentsKnown'  BY DEF IndInv, IncidentsKnown
<1>3. DecisionsHold'
  <2> SUFFICES ASSUME NEW d \in Deciders, decision[d].step = "asset"
               PROVE  decision[d].row = asset'[Subject(d)]
    BY DEF IndInv, DecisionsHold, Undecided, Subject
  <2>1. LockedAsset(Subject(d))  BY DEF LockedAsset, Subject
  <2>2. Subject(d) \in Assets
    BY DEF IndInv, IncidentsKnown, DecisionsHold, Undecided, Subject
  <2> QED  BY <2>1, <2>2 DEF IndInv, DecisionsHold
<1>4. LocksApart'  BY DEF IndInv, LocksApart, Locking, Subject
<1>5. ImportsHold'
  <2> SUFFICES ASSUME NEW m \in Importers, Locking(m)
               PROVE  import[m].asset # None => asset'[import[m].asset] = asset[import[m].asset]
    BY DEF IndInv, ImportsHold, Locking, Accounted
  <2>1. import[m].asset # None => import[m].asset \in Assets
    BY DEF IndInv, TypeOK, Import
  <2> QED  BY <2>1 DEF LockedAsset, Locking
<1>6. EditsHold'
  <2> SUFFICES ASSUME NEW e \in Editors, edit'[e] = edit[e], edit[e].asset # None
               PROVE  asset'[edit[e].asset].status # "absent"
    BY DEF IndInv, EditsHold, Exists, NoEdit
  <2>1. edit[e].asset \in Assets  BY DEF IndInv, TypeOK, Edit
  <2> QED  BY <2>1 DEF IndInv, EditsHold
<1>7. ActsHold'
  <2>1. Accounted \subseteq Assets  BY DEF Accounted
  <2> QED  BY <2>1 DEF IndInv, ActsHold, Accounted, Exists, OneActPerIncident
<1> QED  BY <1>1, <1>2, <1>3, <1>4, <1>5, <1>6, <1>7 DEF IndInv

(* A locked position exists. *)
LEMMA LockedExist ==
  ASSUME IndInv, NEW a \in Assets, LockedAsset(a)
  PROVE  Exists(a)
<1>1. ASSUME NEW d \in Deciders, decision[d].step = "asset", Subject(d) = a
      PROVE  Exists(a)
  <2>1. asset[a].room = incident[decision[d].incident].room
    BY <1>1 DEF IndInv, DecisionsHold
  <2>2. asset[a].room \in Rooms
    BY <1>1, <2>1 DEF IndInv, IncidentsKnown, DecisionsHold, Undecided
  <2>3. asset[a] \in AssetRow  BY DEF IndInv, TypeOK
  <2> QED  BY <2>2, <2>3, Rows DEF Exists
<1>2. ASSUME NEW m \in Importers, import[m].asset = a, Locking(m)
      PROVE  Exists(a)
  BY <1>2 DEF IndInv, ImportsHold, Locking, Exists
<1> QED  BY <1>1, <1>2 DEF LockedAsset, Locking, Subject

LEMMA CreateAssetStep ==
  ASSUME IndInv, NEW a \in Assets, CreateAsset(a)
  PROVE  IndInv'
<1>1. PICK f \in Forms :
        asset' = [asset EXCEPT ![a] =
          [status |-> "ACTIVE", quantity |-> f.quantity, mode |-> f.mode,
           room |-> f.place, place |-> f.place]]
  BY DEF CreateAsset
<1>2. [status |-> "ACTIVE", quantity |-> f.quantity, mode |-> f.mode,
       room |-> f.place, place |-> f.place] \in Position
  BY DEF Position, Status, Quantity, Mode, Place
<1>3. asset' \in [Assets -> AssetRow]
  BY <1>1, <1>2 DEF IndInv, TypeOK, AssetRow
<1>4. \A b \in Assets : Exists(b) => asset'[b] = asset[b]
  BY <1>1 DEF CreateAsset, IndInv, TypeOK
<1> QED
  BY <1>3, <1>4, LockedExist, RowsWritten DEF CreateAsset, Exists, IndInv, TypeOK

LEMMA CommitEditStep ==
  ASSUME IndInv, NEW e \in Editors, CommitEdit(e)
  PROVE  IndInv'
<1> DEFINE a == edit[e].asset
           new == Merge(edit[e].row, edit[e].changed, asset[a])
<1>1. edit[e] \in Edit  BY DEF IndInv, TypeOK
<1>2. a \in Assets /\ asset[a] \in Position
  BY <1>1, Rows DEF CommitEdit, IndInv, TypeOK, Edit, EditsHold, Exists
<1>3. new \in Position
  BY <1>1, <1>2, MergedRow DEF CommitEdit, Edit, IndInv, EditsHold
<1>4. asset' = [asset EXCEPT ![a] = new] /\ ~ LockedAsset(a)  BY DEF CommitEdit
<1> HIDE DEF new
<1>5. asset' \in [Assets -> AssetRow]
  BY <1>3, <1>4 DEF IndInv, TypeOK, AssetRow
<1>6. \A b \in Assets : Exists(b) => asset'[b].status # "absent"
  BY <1>2, <1>3, <1>4 DEF IndInv, TypeOK, Exists, Position, Status
<1>7. \A b \in Assets : LockedAsset(b) => asset'[b] = asset[b]
  BY <1>4 DEF IndInv, TypeOK
<1>8. edit' = [edit EXCEPT ![e] = NoEdit]  BY DEF CommitEdit
<1>9. edit' \in [Editors -> Edit] /\ \A x \in Editors : edit'[x] = edit[x] \/ edit'[x] = NoEdit
  BY <1>8, NoValues DEF IndInv, TypeOK
<1> QED  BY <1>5, <1>6, <1>7, <1>9, RowsWritten DEF CommitEdit

-----------------------------------------------------------------------------
(* Decisions. *)

(* What a request that read a position knows. *)
LEMMA Deciding ==
  ASSUME IndInv, NEW d \in Deciders, decision[d].step = "asset"
  PROVE  /\ decision[d].incident \in Incidents
         /\ Undecided(decision[d].incident)
         /\ Subject(d) \in Assets
         /\ decision[d].row = asset[Subject(d)]
         /\ decision[d].row \in Position
         /\ LockedAsset(Subject(d))
<1>1. decision[d].incident \in Incidents /\ Undecided(decision[d].incident)
  BY DEF IndInv, DecisionsHold
<1>2. Subject(d) \in Assets /\ incident[decision[d].incident].room \in Rooms
  BY <1>1 DEF IndInv, IncidentsKnown, Undecided, Subject
<1>3. decision[d].row = asset[Subject(d)] /\ decision[d].row.room # None
  BY <1>2 DEF IndInv, DecisionsHold
<1>4. asset[Subject(d)] \in AssetRow  BY <1>2 DEF IndInv, TypeOK
<1>5. LockedAsset(Subject(d))  BY DEF LockedAsset, Subject
<1> QED  BY <1>1, <1>2, <1>3, <1>4, <1>5, Rows

(* The effect of a decision on incidents and requests. *)
LEMMA DecideEffect ==
  ASSUME IndInv, NEW d \in Deciders, decision[d].step = "asset",
         NEW status \in {"UNDER_REVIEW", "RESOLVED"}, Decide(d, status)
  PROVE  /\ incident' \in [Incidents -> IncidentRow]
         /\ decision' \in [Deciders -> Decision]
         /\ \A i \in Incidents :
              /\ incident'[i].asset = incident[i].asset
              /\ incident'[i].room = incident[i].room
              /\ incident'[i].affected = incident[i].affected
              /\ incident'[i].status =
                   IF i = decision[d].incident THEN status ELSE incident[i].status
         /\ \A c \in Deciders : decision'[c] = IF c = d THEN NoDecision ELSE decision[c]
<1>1. decision[d].incident \in Incidents  BY Deciding
<1>2. incident[decision[d].incident] \in IncidentRow  BY <1>1 DEF IndInv, TypeOK
<1>3. incident' = [incident EXCEPT ![decision[d].incident] =
                     [incident[decision[d].incident] EXCEPT !.status = status]]
  BY DEF Decide
<1>4. [incident[decision[d].incident] EXCEPT !.status = status] \in IncidentRow
  BY <1>2 DEF IncidentRow
<1>5. decision' = [decision EXCEPT ![d] = NoDecision]  BY DEF Decide
<1> QED  BY <1>1, <1>2, <1>3, <1>4, <1>5, NoValues DEF IndInv, TypeOK, IncidentRow

(* A decision, with the act it makes if any, keeps the invariant. *)
LEMMA Decided ==
  ASSUME IndInv, NEW d \in Deciders, decision[d].step = "asset",
         NEW status \in {"UNDER_REVIEW", "RESOLVED"}, Decide(d, status),
         asset' \in [Assets -> AssetRow],
         \A a \in Assets : Exists(a) => asset'[a].status # "absent",
         \A a \in Assets : Exists(a) /\ a # Subject(d) => asset'[a] = asset[a],
         \/ acts' = acts
         \/ \E act \in Act :
              /\ acts' = Append(acts, act)
              /\ status = "RESOLVED"
              /\ act.incident = decision[d].incident
              /\ act.quantity <= incident[act.incident].affected
              /\ act.asset = Subject(d)
              /\ act.destination \in {None, Subject(d)} \/ ~ Exists(act.destination)
              /\ act.destination # None => asset'[act.destination].status # "absent"
  PROVE  IndInv'
<1> DEFINE i == decision[d].incident
           s == Subject(d)
<1>0. acts \in Seq(Act)  BY DEF IndInv, TypeOK
<1>1. TypeOK'
  <2>1. acts' \in Seq(Act)  BY <1>0
  <2> QED  BY <2>1, DecideEffect DEF IndInv, TypeOK, Decide
<1>2. \A c \in Deciders \ {d} : decision[c].step # "idle" =>
        decision[c].incident \in Incidents /\ decision[c].incident # i /\ Subject(c)' = Subject(c)
  BY DecideEffect DEF IndInv, DecisionsHold, Subject
<1>3. IncidentsKnown'  BY DecideEffect, Deciding DEF IndInv, IncidentsKnown, Undecided
<1>4. \A c \in Deciders \ {d} : decision[c].step = "asset" =>
        Subject(c) \in Assets /\ Subject(c) # s /\ asset'[Subject(c)] = asset[Subject(c)]
  <2> SUFFICES ASSUME NEW c \in Deciders \ {d}, decision[c].step = "asset"
               PROVE  Subject(c) \in Assets /\ Subject(c) # s /\ asset'[Subject(c)] = asset[Subject(c)]
    OBVIOUS
  <2>1. Subject(c) # s  BY DEF IndInv, LocksApart
  <2>2. Subject(c) \in Assets /\ Exists(Subject(c))  BY Deciding, LockedExist
  <2> QED  BY <2>1, <2>2
<1>5. DecisionsHold'
  <2>1. ASSUME NEW c \in Deciders, c # d, decision[c].step # "idle"
        PROVE  /\ incident'[decision[c].incident].status = incident[decision[c].incident].status
               /\ incident'[decision[c].incident].room = incident[decision[c].incident].room
    BY <1>2, <2>1, DecideEffect
  <2>2. \A c \in Deciders : decision'[c] = IF c = d THEN NoDecision ELSE decision[c]
    BY DecideEffect
  <2>3. NoDecision.step = "idle" /\ NoDecision.incident = None  BY DEF NoDecision
  <2> SUFFICES ASSUME NEW c \in Deciders
               PROVE  /\ decision'[c].step = "idle" => decision'[c].incident = None
                      /\ decision'[c].step # "idle" =>
                           /\ decision'[c].incident \in Incidents
                           /\ incident'[decision'[c].incident].status \in {"OPEN", "UNDER_REVIEW"}
                           /\ \A b \in Deciders :
                                decision'[b].incident = decision'[c].incident => b = c
                      /\ decision'[c].step = "asset" =>
                           /\ decision'[c].row = asset'[Subject(c)']
                           /\ decision'[c].row.room = incident'[decision'[c].incident].room
    BY DEF DecisionsHold, Undecided
  <2>4. CASE c = d  BY <2>2, <2>3, <2>4
  <2>5. CASE c # d
    <3>1. decision'[c] = decision[c]  BY <2>2, <2>5
    <3>2. decision[c].step # "idle" => decision[c].incident # None
      BY DEF IndInv, DecisionsHold
    <3>3. decision[c].step # "idle" => \A b \in Deciders :
            decision'[b].incident = decision[c].incident => b = c
      BY <2>2, <2>3, <3>2 DEF IndInv, DecisionsHold
    <3>4. decision[c].step = "idle" => decision[c].incident = None
      BY DEF IndInv, DecisionsHold
    <3>5. decision[c].step # "idle" =>
            decision[c].incident \in Incidents /\ Undecided(decision[c].incident)
      BY DEF IndInv, DecisionsHold
    <3>6. decision[c].step = "asset" =>
            /\ decision[c].row = asset[Subject(c)]
            /\ decision[c].row.room = incident[decision[c].incident].room
      BY DEF IndInv, DecisionsHold
    <3> QED  BY <1>2, <1>4, <2>1, <2>5, <3>1, <3>3, <3>4, <3>5, <3>6 DEF Undecided
  <2> QED  BY <2>4, <2>5
<1>6. LocksApart'
  <2>1. \A c \in Deciders : decision'[c].step = "asset" =>
          c # d /\ decision[c].step = "asset" /\ Subject(c)' = Subject(c)
    BY <1>2, DecideEffect DEF NoDecision
  <2>2. import' = import  BY DEF Decide
  <2> QED  BY <2>1, <2>2 DEF IndInv, LocksApart, Locking
<1>7. \A a \in Accounted' : a \in Accounted \/ a = s \/ ~ Exists(a)
  <2>1. CASE acts' = acts  BY <2>1 DEF Accounted
  <2>2. ASSUME NEW act \in Act, acts' = Append(acts, act), act.asset = s,
               act.destination \in {None, s} \/ ~ Exists(act.destination)
        PROVE  \A a \in Accounted' : a \in Accounted \/ a = s \/ ~ Exists(a)
    BY <1>0, <2>2 DEF Accounted
  <2> QED  BY <2>1, <2>2
<1>8. ImportsHold'
  <2> SUFFICES ASSUME NEW m \in Importers, Locking(m)
               PROVE  LET a == import[m].asset
                      IN  asset'[a] = asset[a] /\ (a \in Accounted' => a \in Accounted)
    BY DEF Decide, IndInv, ImportsHold, Locking
  <2>1. import[m].asset # None /\ import[m].asset # s
    BY DEF IndInv, ImportsHold, LocksApart
  <2>2. import[m].asset \in Assets  BY <2>1 DEF IndInv, TypeOK, Import
  <2>3. Exists(import[m].asset)  BY <2>2, LockedExist DEF LockedAsset, Locking
  <2> QED  BY <1>7, <2>1, <2>2, <2>3
<1>9. EditsHold'
  <2>1. \A e \in Editors : edit[e].asset # None => edit[e].asset \in Assets
    BY DEF IndInv, TypeOK, Edit
  <2> QED  BY <2>1 DEF Decide, IndInv, EditsHold, Exists
<1>10. ActsHold'
  <2>0. \A n \in DOMAIN acts : acts[n] \in Act  BY <1>0
  <2>1. \A n \in DOMAIN acts : acts[n].incident \in Incidents /\ acts[n].incident # i
    BY <2>0, Deciding DEF IndInv, ActsHold, Act, Undecided
  <2>2. CASE acts' = acts
    BY <2>1, <2>2, DecideEffect
    DEF IndInv, ActsHold, Accounted, Exists, OneActPerIncident
  <2>3. ASSUME NEW act \in Act, acts' = Append(acts, act), status = "RESOLVED",
               act.incident = i, act.quantity <= incident[i].affected, act.asset = s,
               act.destination # None => asset'[act.destination].status # "absent"
        PROVE  ActsHold'
    <3>1. \A n \in DOMAIN acts' :
            \/ n \in DOMAIN acts /\ acts'[n] = acts[n]
            \/ n = Len(acts) + 1 /\ acts'[n] = act /\ n \notin DOMAIN acts
      BY <1>0, <2>3
    <3>2. s \in Assets /\ Exists(s) /\ i \in Incidents  BY Deciding, LockedExist
    <3>3. \A a \in Accounted' : asset'[a].status # "absent"
      BY <2>3, <3>1, <3>2 DEF IndInv, ActsHold, Accounted, Exists
    <3>4. \A n \in DOMAIN acts' : /\ incident'[acts'[n].incident].status = "RESOLVED"
                                  /\ acts'[n].quantity <= incident'[acts'[n].incident].affected
      BY <2>1, <2>3, <3>1, <3>2, DecideEffect DEF IndInv, ActsHold, OneActPerIncident
    <3>5. \A m, n \in DOMAIN acts' : acts'[m].incident = acts'[n].incident => m = n
      BY <2>1, <2>3, <3>1 DEF IndInv, ActsHold, OneActPerIncident
    <3> QED  BY <3>3, <3>4, <3>5 DEF ActsHold, Exists, OneActPerIncident
  <2> QED  BY <2>2, <2>3
<1> QED  BY <1>1, <1>3, <1>5, <1>6, <1>8, <1>9, <1>10 DEF IndInv

LEMMA CloseStep ==
  ASSUME IndInv, NEW d \in Deciders, Investigate(d) \/ Close(d)
  PROVE  IndInv'
<1>1. /\ decision[d].step = "asset"
      /\ asset' = asset /\ acts' = acts
      /\ \E status \in {"UNDER_REVIEW", "RESOLVED"} : Decide(d, status)
  BY DEF Investigate, Close
<1>2. /\ asset' \in [Assets -> AssetRow]
      /\ \A a \in Assets : asset'[a] = asset[a]
  BY <1>1 DEF IndInv, TypeOK
<1> QED  BY <1>1, <1>2, Decided DEF Exists

(* The quantity of an act. *)
LEMMA AmountsFit ==
  ASSUME IndInv, NEW d \in Deciders, decision[d].step = "asset", NEW q \in Amounts(d)
  PROVE  /\ q \in Quantity
         /\ q <= decision[d].row.quantity
         /\ decision[d].row.quantity \in Quantity
         /\ decision[d].row.quantity - q \in 0..MaxQuantity
         /\ q <= incident[decision[d].incident].affected
<1>1. decision[d].row \in Position  BY Deciding
<1>2. decision[d].row.quantity \in 1..MaxQuantity  BY <1>1 DEF Position, Quantity
<1> QED  BY <1>2 DEF Amounts, Quantity

LEMMA MoveStep ==
  ASSUME IndInv, NEW d \in Deciders, Move(d)
  PROVE  IndInv'
<1> DEFINE i == decision[d].incident
           s == Subject(d)
           row == decision[d].row
<1>1. decision[d].step = "asset" /\ Decide(d, "RESOLVED")  BY DEF Move
<1>2. PICK q \in Amounts(d), r \in Rooms \ {row.room} :
        \/ /\ q = row.quantity
           /\ asset' = [asset EXCEPT ![s].room = r, ![s].place = r]
           /\ Record(d, "MOVE", q, s)
        \/ /\ q < row.quantity
           /\ \E b \in Assets :
                /\ ~ Exists(b)
                /\ asset' = [asset EXCEPT
                     ![s].quantity = row.quantity - q,
                     ![b] = [row EXCEPT !.quantity = q, !.room = r, !.place = r]]
                /\ Record(d, "MOVE", q, b)
  BY DEF Move, Subject
<1>3. s \in Assets /\ i \in Incidents /\ row = asset[s] /\ row \in Position /\ Exists(s)
  BY <1>1, Deciding, LockedExist
<1>4. q \in Quantity /\ q <= incident[i].affected /\ row.quantity \in Quantity
  BY <1>1, AmountsFit
<1>5. CASE /\ asset' = [asset EXCEPT ![s].room = r, ![s].place = r]
           /\ Record(d, "MOVE", q, s)
  <2> DEFINE act == [incident |-> i, action |-> "MOVE", asset |-> s, destination |-> s,
                     quantity |-> q]
             new == [row EXCEPT !.room = r, !.place = r]
  <2>1. act \in Act /\ acts' = Append(acts, act)
    BY <1>3, <1>4, <1>5 DEF Act, Record, Subject
  <2>2. new \in Position /\ new.status # "absent"
    BY <1>3 DEF Position, Place, Status
  <2>3. asset' = [asset EXCEPT ![s] = new]  BY <1>3, <1>5 DEF IndInv, TypeOK
  <2> HIDE DEF new
  <2>4. /\ asset' \in [Assets -> AssetRow]
        /\ \A a \in Assets : a # s => asset'[a] = asset[a]
        /\ asset'[s].status # "absent"
    BY <1>3, <2>2, <2>3 DEF IndInv, TypeOK, AssetRow
  <2>5. \A a \in Assets : Exists(a) => asset'[a].status # "absent"
    BY <2>4 DEF Exists
  <2> QED  BY <1>1, <1>4, <2>1, <2>4, <2>5, Decided
<1>6. ASSUME NEW b \in Assets, q < row.quantity, ~ Exists(b),
             asset' = [asset EXCEPT
               ![s].quantity = row.quantity - q,
               ![b] = [row EXCEPT !.quantity = q, !.room = r, !.place = r]],
             Record(d, "MOVE", q, b)
      PROVE  IndInv'
  <2> DEFINE act == [incident |-> i, action |-> "MOVE", asset |-> s, destination |-> b,
                     quantity |-> q]
             new == [row EXCEPT !.quantity = q, !.room = r, !.place = r]
             rest == [row EXCEPT !.quantity = row.quantity - q]
  <2>0. b # s  BY SMTT(30), <1>3, <1>6
  <2>1. act \in Act /\ acts' = Append(acts, act)
    BY <1>3, <1>4, <1>6 DEF Act, Record, Subject
  <2>2. new \in Position /\ new.status # "absent"
    BY <1>3, <1>4 DEF Position, Place, Status
  <2>3. rest \in Position /\ rest.status # "absent"
    <3>1. row.quantity - q \in Quantity  BY <1>4, <1>6 DEF Quantity
    <3> QED  BY <1>3, <3>1 DEF Position, Status
  <2>4. asset' = [[asset EXCEPT ![s] = rest] EXCEPT ![b] = new]
    BY <1>3, <1>6, <2>0 DEF IndInv, TypeOK
  <2> HIDE DEF new, rest
  <2>5. /\ asset' \in [Assets -> AssetRow]
        /\ \A a \in Assets : a # s /\ a # b => asset'[a] = asset[a]
        /\ asset'[s].status # "absent" /\ asset'[b].status # "absent"
    BY <1>3, <2>0, <2>2, <2>3, <2>4 DEF IndInv, TypeOK, AssetRow
  <2>6. \A a \in Assets : Exists(a) => asset'[a].status # "absent"
    BY <2>5 DEF Exists
  <2>7. \A a \in Assets : Exists(a) /\ a # s => asset'[a] = asset[a]
    BY <1>6, <2>5
  <2>8. /\ act.incident = i /\ act.quantity <= incident[act.incident].affected
        /\ act.asset = Subject(d) /\ ~ Exists(act.destination)
        /\ asset'[act.destination].status # "absent"
    BY <1>4, <1>6, <2>5
  <2> HIDE DEF act
  <2> QED  BY ZenonT(30), <1>1, <2>1, <2>5, <2>6, <2>7, <2>8, Decided
<1> QED  BY <1>2, <1>5, <1>6

LEMMA WriteOffStep ==
  ASSUME IndInv, NEW d \in Deciders, WriteOff(d)
  PROVE  IndInv'
<1> DEFINE i == decision[d].incident
           s == Subject(d)
           row == decision[d].row
<1>1. decision[d].step = "asset" /\ Decide(d, "RESOLVED")  BY DEF WriteOff
<1>2. PICK q \in Amounts(d) :
        /\ \/ /\ q < row.quantity
              /\ asset' = [asset EXCEPT ![s].quantity = row.quantity - q]
           \/ /\ q = row.quantity
              /\ asset' = [asset EXCEPT ![s].status = "WRITTEN_OFF",
                                        ![s].room = None, ![s].place = None]
        /\ Record(d, "WRITE_OFF", q, None)
  BY DEF WriteOff, Subject
<1>3. s \in Assets /\ i \in Incidents /\ row = asset[s] /\ row \in Position
  BY <1>1, Deciding
<1>4. q \in Quantity /\ q <= incident[i].affected /\ row.quantity \in Quantity
  BY <1>1, AmountsFit
<1> DEFINE act == [incident |-> i, action |-> "WRITE_OFF", asset |-> s, destination |-> None,
                   quantity |-> q]
<1>5. act \in Act /\ acts' = Append(acts, act)
  BY <1>2, <1>3, <1>4 DEF Act, Record, Subject
<1>6. PICK new \in Position : asset' = [asset EXCEPT ![s] = new]
  <2>1. CASE q < row.quantity /\ asset' = [asset EXCEPT ![s].quantity = row.quantity - q]
    <3>1. row.quantity - q \in Quantity  BY <1>4, <2>1 DEF Quantity
    <3>2. [row EXCEPT !.quantity = row.quantity - q] \in Position
      BY <1>3, <3>1 DEF Position
    <3> QED  BY <1>3, <2>1, <3>2 DEF IndInv, TypeOK
  <2>2. CASE asset' = [asset EXCEPT ![s].status = "WRITTEN_OFF",
                                    ![s].room = None, ![s].place = None]
    <3>1. [row EXCEPT !.status = "WRITTEN_OFF", !.room = None, !.place = None] \in Position
      BY <1>3 DEF Position, Place, Status
    <3>2. asset' = [asset EXCEPT ![s] = [row EXCEPT !.status = "WRITTEN_OFF",
                                                    !.room = None, !.place = None]]
      BY <1>3, <2>2 DEF IndInv, TypeOK
    <3> QED  BY <3>1, <3>2
  <2> QED  BY <1>2, <2>1, <2>2
<1>7. /\ asset' \in [Assets -> AssetRow]
      /\ \A a \in Assets : a # s => asset'[a] = asset[a]
      /\ asset'[s].status # "absent"
  BY <1>3, <1>6 DEF IndInv, TypeOK, AssetRow, Position, Status
<1>8. \A a \in Assets : Exists(a) => asset'[a].status # "absent"
  BY <1>7 DEF Exists
<1> QED  BY <1>1, <1>4, <1>5, <1>7, <1>8, Decided

(* Locking an incident, then its position, and giving up change only what    *)
(* the request holds.                                                        *)
LEMMA HoldingStep ==
  ASSUME IndInv, NEW d \in Deciders, LockIncident(d) \/ LockAsset(d) \/ Refuse(d)
  PROVE  IndInv'
<1>0. UNCHANGED <<asset, incident, acts, import, edit, inspection>>
  BY DEF LockIncident, LockAsset, Refuse
<1>1. PICK new \in Decision :
        /\ decision' = [decision EXCEPT ![d] = new]
        /\ \/ new = NoDecision
           \/ /\ new.step = "incident"
              /\ new.incident \in Incidents
              /\ Undecided(new.incident) /\ ~ LockedIncident(new.incident)
           \/ /\ decision[d].step = "incident" /\ new.step = "asset"
              /\ new.incident = decision[d].incident
              /\ ~ LockedAsset(Subject(d))
              /\ asset[Subject(d)].room = incident[new.incident].room
              /\ new.row = asset[Subject(d)]
  <2>1. CASE LockIncident(d)
    <3>1. PICK i \in Incidents :
            /\ Undecided(i) /\ ~ LockedIncident(i)
            /\ decision' = [decision EXCEPT ![d] =
                              [step |-> "incident", incident |-> i, row |-> NoAsset]]
      BY <2>1 DEF LockIncident
    <3>2. [step |-> "incident", incident |-> i, row |-> NoAsset] \in Decision
      BY NoValues DEF Decision
    <3> QED  BY <3>1, <3>2
  <2>2. CASE LockAsset(d)
    <3> DEFINE new == [decision[d] EXCEPT !.step = "asset", !.row = asset[Subject(d)]]
    <3>1. decision' = [decision EXCEPT ![d] = new]
      BY <2>2 DEF LockAsset, Subject, IndInv, TypeOK
    <3>2. decision[d].incident \in Incidents /\ Undecided(decision[d].incident)
      BY <2>2 DEF LockAsset, IndInv, DecisionsHold
    <3>3. Subject(d) \in Assets
      BY <3>2 DEF IndInv, IncidentsKnown, Undecided, Subject
    <3>4. decision[d] \in Decision /\ asset[Subject(d)] \in AssetRow
      BY <3>3 DEF IndInv, TypeOK
    <3>5. new \in Decision  BY <3>4 DEF Decision
    <3>6. /\ new.step = "asset" /\ new.incident = decision[d].incident
          /\ new.row = asset[Subject(d)]
      BY <3>4 DEF Decision
    <3> HIDE DEF new
    <3> QED  BY <2>2, <3>1, <3>5, <3>6 DEF LockAsset, Subject
  <2>3. CASE Refuse(d)
    BY <2>3, NoValues DEF Refuse
  <2> QED  BY <2>1, <2>2, <2>3
<1>2. decision' \in [Deciders -> Decision]
      /\ \A c \in Deciders : decision'[c] = IF c = d THEN new ELSE decision[c]
  BY <1>1 DEF IndInv, TypeOK
<1>3. TypeOK'  BY <1>0, <1>2 DEF IndInv, TypeOK
<1>4. \A c \in Deciders :
        /\ decision[c].step = "idle" => decision[c].incident = None
        /\ decision[c].step # "idle" =>
             decision[c].incident \in Incidents /\ Undecided(decision[c].incident)
  BY DEF IndInv, DecisionsHold
<1>5. DecisionsHold'
  <2> SUFFICES ASSUME NEW c \in Deciders
               PROVE  /\ decision'[c].step = "idle" => decision'[c].incident = None
                      /\ decision'[c].step # "idle" =>
                           /\ decision'[c].incident \in Incidents
                           /\ Undecided(decision'[c].incident)
                           /\ \A b \in Deciders :
                                decision'[b].incident = decision'[c].incident => b = c
                      /\ decision'[c].step = "asset" =>
                           /\ decision'[c].row = asset[incident[decision'[c].incident].asset]
                           /\ decision'[c].row.room = incident[decision'[c].incident].room
    BY <1>0 DEF DecisionsHold, Undecided, Subject
  <2>1. CASE new = NoDecision
    BY <1>2, <1>4, <2>1 DEF NoDecision, IndInv, DecisionsHold, Subject
  <2>2. CASE /\ new.step = "incident"
             /\ new.incident \in Incidents
             /\ Undecided(new.incident) /\ ~ LockedIncident(new.incident)
    <3>1. \A b \in Deciders : decision[b].incident # new.incident
      BY <2>2 DEF LockedIncident
    <3> QED  BY <1>2, <1>4, <2>2, <3>1 DEF IndInv, DecisionsHold, Subject
  <2>3. CASE /\ decision[d].step = "incident" /\ new.step = "asset"
             /\ new.incident = decision[d].incident
             /\ ~ LockedAsset(Subject(d))
             /\ asset[Subject(d)].room = incident[new.incident].room
             /\ new.row = asset[Subject(d)]
    <3>1. \A b \in Deciders : decision'[b].incident = decision[b].incident
      BY <1>2, <2>3
    <3>2. CASE c = d
      BY <1>2, <1>4, <2>3, <3>1, <3>2 DEF IndInv, DecisionsHold, Subject
    <3>3. CASE c # d
      BY <1>2, <1>4, <3>1, <3>3 DEF IndInv, DecisionsHold, Subject
    <3> QED  BY <3>2, <3>3
  <2> QED  BY <1>1, <2>1, <2>2, <2>3
<1>6. LocksApart'
  <2>1. \A c \in Deciders : decision'[c].step = "asset" /\ c # d =>
          decision[c].step = "asset" /\ Subject(c)' = Subject(c)
    BY <1>0, <1>2 DEF Subject
  <2>2. decision'[d].step = "asset" =>
          /\ Subject(d)' = Subject(d)
          /\ ~ LockedAsset(Subject(d))
    BY <1>0, <1>1, <1>2 DEF NoDecision, Subject
  <2>3. decision'[d].step = "asset" =>
          /\ \A c \in Deciders : decision[c].step = "asset" => Subject(c) # Subject(d)
          /\ \A m \in Importers : Locking(m) => import[m].asset # Subject(d)
    BY <2>2 DEF LockedAsset, Locking, Subject
  <2> QED  BY <1>0, <2>1, <2>2, <2>3 DEF IndInv, LocksApart, Locking
<1> QED
  BY <1>0, <1>3, <1>5, <1>6
  DEF IndInv, IncidentsKnown, ImportsHold, EditsHold, ActsHold, Locking, Accounted, Exists,
      OneActPerIncident

-----------------------------------------------------------------------------
(* Edits and inspections being read. *)

LEMMA EditedRow ==
  ASSUME NEW row \in Position, NEW field \in EditFields, NEW new \in Edits(row, field)
  PROVE  new \in Position
<1>1. row.status \in Status /\ row.quantity \in Quantity /\ row.mode \in Mode
      /\ row.room \in Place /\ row.place \in Place
  BY DEF Position
<1>2. CASE field = "quantity"
  <2>1. PICK q \in Quantity : new = [row EXCEPT !.quantity = q]  BY <1>2 DEF Edits
  <2> QED  BY <2>1 DEF Position
<1>3. CASE field = "mode"
  <2>1. PICK m \in Mode : new = [row EXCEPT !.mode = m]  BY <1>3 DEF Edits
  <2> QED  BY <2>1 DEF Position
<1>4. CASE field = "status"
  <2>1. PICK s \in Status : new = [row EXCEPT !.status = s]  BY <1>4 DEF Edits
  <2> QED  BY <2>1 DEF Position
<1>5. CASE field = "room"
  <2>1. \/ new = [row EXCEPT !.room = None]
        \/ \E r \in Rooms : new = [row EXCEPT !.room = r, !.place = r]
    BY <1>5 DEF Edits
  <2> QED  BY <2>1 DEF Position, Place
<1>6. CASE field = "place"
  <2>1. \/ new = [row EXCEPT !.place = None]
        \/ \E r \in Rooms : new = [row EXCEPT !.room = r, !.place = r]
    BY <1>6 DEF Edits
  <2> QED  BY <2>1 DEF Position, Place
<1> QED  BY <1>2, <1>3, <1>4, <1>5, <1>6

LEMMA LoadedEdit ==
  ASSUME NEW a \in Assets, NEW row \in Position, NEW changed \in SUBSET Field
  PROVE  LET new == [asset |-> a, changed |-> changed, row |-> Merge(row, changed, NoAsset)]
         IN  /\ new \in Edit
             /\ "status" \in changed => new.row.status \in Status
             /\ "quantity" \in changed => new.row.quantity \in Quantity
<1> DEFINE m == Merge(row, changed, NoAsset)
<1>1. m = [f \in Field |-> IF f \in changed THEN row[f] ELSE NoAsset[f]]  BY DEF Merge
<1>2. /\ m["status"] = IF "status" \in changed THEN row.status ELSE "absent"
      /\ m["quantity"] = IF "quantity" \in changed THEN row.quantity ELSE 0
      /\ m["mode"] = IF "mode" \in changed THEN row.mode ELSE "INDIVIDUAL"
      /\ m["room"] = IF "room" \in changed THEN row.room ELSE None
      /\ m["place"] = IF "place" \in changed THEN row.place ELSE None
  BY <1>1 DEF Field, NoAsset
<1>3. m = [status |-> m["status"], quantity |-> m["quantity"], mode |-> m["mode"],
           room |-> m["room"], place |-> m["place"]]
  BY <1>1 DEF Field
<1>4. /\ m["status"] \in {"absent"} \cup Status /\ m["quantity"] \in 0..MaxQuantity
      /\ m["mode"] \in Mode /\ m["room"] \in Place /\ m["place"] \in Place
      /\ "status" \in changed => m["status"] \in Status
      /\ "quantity" \in changed => m["quantity"] \in Quantity
  BY <1>2 DEF Position, Mode, Place, Quantity
<1> HIDE DEF m
<1>5. [asset |-> a, changed |-> changed, row |-> m] \in Edit
  BY <1>3, <1>4 DEF Edit
<1> QED  BY <1>4, <1>5 DEF m

LEMMA LoadEditStep ==
  ASSUME IndInv, NEW e \in Editors, LoadEdit(e)
  PROVE  IndInv'
<1>0. PICK a \in Assets, field \in EditFields :
        /\ Exists(a)
        /\ \E row \in Edits(asset[a], field) :
             LET changed == {f \in Field : row[f] # asset[a][f]}
             IN  edit' = [edit EXCEPT ![e] =
                   [asset |-> a, changed |-> changed, row |-> Merge(row, changed, NoAsset)]]
  BY DEF LoadEdit
<1>1. PICK row \in Edits(asset[a], field) :
        LET changed == {f \in Field : row[f] # asset[a][f]}
        IN  edit' = [edit EXCEPT ![e] =
              [asset |-> a, changed |-> changed, row |-> Merge(row, changed, NoAsset)]]
  BY <1>0
<1> DEFINE changed == {f \in Field : row[f] # asset[a][f]}
           new == [asset |-> a, changed |-> changed, row |-> Merge(row, changed, NoAsset)]
<1>2. row \in Position
  BY <1>0, Rows, EditedRow DEF IndInv, TypeOK, Exists
<1>3. /\ new \in Edit /\ new.asset = a
      /\ "status" \in new.changed => new.row.status \in Status
      /\ "quantity" \in new.changed => new.row.quantity \in Quantity
  BY <1>2, LoadedEdit
<1>4. edit' = [edit EXCEPT ![e] = new]  BY <1>1
<1> HIDE DEF new
<1>5. UNCHANGED <<asset, incident, acts, decision, import, inspection>>  BY DEF LoadEdit
<1>6. TypeOK'  BY <1>3, <1>4, <1>5 DEF IndInv, TypeOK
<1>7. EditsHold'
  BY <1>0, <1>3, <1>4, <1>5 DEF IndInv, TypeOK, EditsHold, Exists
<1> QED
  BY <1>5, <1>6, <1>7
  DEF IndInv, IncidentsKnown, DecisionsHold, LocksApart, ImportsHold, ActsHold, Undecided,
      Subject, Locking, Accounted, Exists, OneActPerIncident

LEMMA LoadRoomStep ==
  ASSUME IndInv, NEW n \in Inspectors, LoadRoom(n)
  PROVE  IndInv'
<1>1. UNCHANGED <<asset, incident, acts, decision, import, edit>>  BY DEF LoadRoom
<1>2. PICK r \in Rooms, f \in [Assets -> 0..MaxQuantity] :
        inspection' = [inspection EXCEPT ![n] = [room |-> r, affected |-> f]]
  BY DEF LoadRoom
<1>3. [room |-> r, affected |-> f] \in Inspection  BY DEF Inspection, Place
<1>4. TypeOK'  BY <1>1, <1>2, <1>3 DEF IndInv, TypeOK
<1> QED
  BY <1>1, <1>4
  DEF IndInv, IncidentsKnown, DecisionsHold, LocksApart, ImportsHold, EditsHold, ActsHold,
      Undecided, Subject, Locking, Accounted, Exists, OneActPerIncident

(* An inspection touches free incidents only. *)
LEMMA CommitInspectionStep ==
  ASSUME IndInv, NEW n \in Inspectors, CommitInspection(n)
  PROVE  IndInv'
<1> DEFINE f == inspection[n].affected
           r == inspection[n].room
           found == {a \in Assets : f[a] > 0}
           free == {i \in Incidents : incident[i].status = "free"}
<1>0. UNCHANGED <<asset, acts, decision, import, edit>>  BY DEF CommitInspection
<1>1. r \in Rooms /\ f \in [Assets -> 0..MaxQuantity]
  BY DEF CommitInspection, IndInv, TypeOK, Inspection, Place
<1>2. PICK of \in Injection(found, free) :
        incident' = [i \in Incidents |->
          IF i \in Range(of)
          THEN LET a == CHOOSE b \in found : of[b] = i
               IN  [status |-> "OPEN", asset |-> a, room |-> r, affected |-> f[a]]
          ELSE incident[i]]
  BY DEF CommitInspection
<1>3. \A i \in Incidents :
        \/ incident'[i] = incident[i]
        \/ /\ incident[i].status = "free"
           /\ \E a \in Assets :
                incident'[i] = [status |-> "OPEN", asset |-> a, room |-> r, affected |-> f[a]]
  <2> SUFFICES ASSUME NEW i \in Incidents, i \in Range(of)
               PROVE  /\ incident[i].status = "free"
                      /\ \E a \in Assets :
                           incident'[i] = [status |-> "OPEN", asset |-> a, room |-> r,
                                           affected |-> f[a]]
    BY <1>2
  <2>1. of \in [found -> free]  BY DEF Injection
  <2>2. \E b \in found : of[b] = i  BY <2>1 DEF Range
  <2> DEFINE a == CHOOSE b \in found : of[b] = i
  <2>3. a \in found /\ of[a] = i  BY <2>2
  <2>4. incident'[i] = [status |-> "OPEN", asset |-> a, room |-> r, affected |-> f[a]]
    BY <1>2
  <2> HIDE DEF a
  <2> QED  BY <2>1, <2>3, <2>4
<1>4. \A i \in Incidents :
        /\ incident'[i] \in IncidentRow
        /\ \/ incident'[i] = incident[i]
           \/ incident'[i].asset \in Assets /\ incident'[i].room = r
  <2>1. f \in [Assets -> 0..MaxQuantity] /\ r \in Place  BY <1>1 DEF Place
  <2>2. \A i \in Incidents : incident[i] \in IncidentRow  BY DEF IndInv, TypeOK
  <2> HIDE DEF f, r, found, free
  <2>3. ASSUME NEW i \in Incidents, NEW a \in Assets,
               incident'[i] = [status |-> "OPEN", asset |-> a, room |-> r, affected |-> f[a]]
        PROVE  /\ incident'[i] \in IncidentRow
               /\ incident'[i].asset \in Assets /\ incident'[i].room = r
    BY <2>1, <2>3 DEF IncidentRow
  <2> QED  BY <1>3, <2>2, <2>3
<1>5. inspection' \in [Inspectors -> Inspection]
  BY NoValues DEF CommitInspection, IndInv, TypeOK
<1>6. TypeOK'
  <2>1. incident' \in [Incidents -> IncidentRow]  BY <1>2, <1>4
  <2> QED  BY <1>0, <1>5, <2>1 DEF IndInv, TypeOK
<1>7. IncidentsKnown'
  <2> HIDE DEF f, r
  <2> QED  BY <1>1, <1>4 DEF IndInv, IncidentsKnown
<1>8. \A i \in Incidents : incident[i].status # "free" => incident'[i] = incident[i]
  BY <1>3
<1>9. \A d \in Deciders : decision[d].step # "idle" =>
        /\ decision[d].incident \in Incidents
        /\ incident'[decision[d].incident] = incident[decision[d].incident]
  BY <1>8 DEF IndInv, DecisionsHold, Undecided
<1>10. DecisionsHold'
  BY <1>0, <1>9 DEF IndInv, DecisionsHold, Undecided, Subject
<1>11. LocksApart'
  <2>1. \A d \in Deciders : decision[d].step = "asset" => Subject(d)' = Subject(d)
    BY <1>0, <1>9 DEF Subject
  <2> QED  BY <1>0, <2>1 DEF IndInv, LocksApart, Locking
<1>12. ActsHold'
  <2>0. \A k \in DOMAIN acts : acts[k] \in Act  BY DEF IndInv, TypeOK
  <2>1. \A k \in DOMAIN acts : acts[k].incident \in Incidents  BY <2>0 DEF Act
  <2>2. \A k \in DOMAIN acts : incident'[acts[k].incident] = incident[acts[k].incident]
    BY <1>8, <2>1 DEF IndInv, ActsHold
  <2> QED  BY <1>0, <2>2 DEF IndInv, ActsHold, Accounted, Exists, OneActPerIncident
<1> QED
  BY <1>0, <1>6, <1>7, <1>10, <1>11, <1>12
  DEF IndInv, ImportsHold, EditsHold, Locking, Accounted, Exists

-----------------------------------------------------------------------------
(* Imports. *)

(* What an import makes of a row is a position; of one with an act, the same. *)
LEMMA ImportedRow ==
  ASSUME IndInv, NEW a \in Assets, NEW f \in Files
  PROVE  /\ Imported(a, f) \in Position
         /\ a \in Accounted => Imported(a, f) = asset[a]
<1>1. asset[a] \in AssetRow /\ (Exists(a) => asset[a] \in Position)
  BY Rows DEF IndInv, TypeOK, Exists
<1>2. CASE Preserved(a)
  BY <1>1, <1>2 DEF Preserved, Imported, IndInv, ActsHold
<1>3. CASE ~ Preserved(a)
  <2> DEFINE q == Given(f.quantity, IF Exists(a) THEN asset[a].quantity ELSE 1)
             status == Given(f.status, IF Exists(a) THEN asset[a].status ELSE "ACTIVE")
             mode == Given(f.mode, IF q > 1 THEN "GROUPED" ELSE asset[a].mode)
             place == IF f.located THEN f.place ELSE asset[a].place
  <2>1. /\ asset[a].mode \in Mode /\ asset[a].room \in Place /\ asset[a].place \in Place
        /\ Exists(a) => asset[a].quantity \in Quantity /\ asset[a].status \in Status
    BY <1>1 DEF AssetRow, Position, NoAsset, Mode, Place
  <2>2. /\ f.quantity \in Quantity \cup {None} /\ f.mode \in Mode \cup {None}
        /\ f.status \in Status \cup {None} /\ f.place \in Place
    BY DEF Quantity, Mode, Status, Place
  <2>3. q \in Quantity  BY <2>1, <2>2 DEF Given, Quantity
  <2>4. status \in Status  BY <2>1, <2>2 DEF Given, Status
  <2>5. mode \in Mode  BY <2>1, <2>2 DEF Given, Mode
  <2>6. place \in Place  BY <2>1, <2>2
  <2>7. Imported(a, f) = [status |-> status, quantity |-> q, mode |-> mode,
                          room |-> asset[a].room, place |-> place]
    BY <1>3 DEF Imported
  <2> HIDE DEF q, status, mode, place
  <2> QED  BY <1>3, <2>1, <2>3, <2>4, <2>5, <2>6, <2>7 DEF Position, Preserved
<1> QED  BY <1>2, <1>3

(* Reading and giving up change only what the import holds. *)
LEMMA LockRowsStep ==
  ASSUME IndInv, NEW m \in Importers, LockRows(m)
  PROVE  IndInv'
<1>1. PICK a \in Assets, f \in Files :
        /\ ~ LockedAsset(a)
        /\ import' = [import EXCEPT ![m] =
                        [asset |-> a, old |-> asset[a], new |-> Imported(a, f)]]
  BY DEF LockRows
<1> DEFINE new == [asset |-> a, old |-> asset[a], new |-> Imported(a, f)]
<1>2. asset[a] \in AssetRow  BY DEF IndInv, TypeOK
<1>3. Imported(a, f) \in AssetRow  BY ImportedRow DEF AssetRow
<1>4. /\ new \in Import /\ new.asset = a /\ new.old = asset[a] /\ new.new = Imported(a, f)
  BY <1>2, <1>3 DEF Import
<1>5. \A n \in Importers : import'[n] = IF n = m THEN new ELSE import[n]
  BY <1>1 DEF IndInv, TypeOK
<1>6. import' \in [Importers -> Import]
  BY <1>1, <1>4 DEF IndInv, TypeOK
<1> HIDE DEF new
<1>7. UNCHANGED <<asset, incident, acts, decision, edit, inspection>>  BY DEF LockRows
<1>8. a # None  OBVIOUS
<1>9. ImportsHold'
  <2>1. \A n \in Importers :
          LET b == import'[n].asset
              row == import'[n].new
          IN  /\ b # None => row \in Position
              /\ import'[n].old.status # "absent" => b # None /\ import'[n].old = asset[b]
              /\ import'[n].old.status # "absent" /\ b \in Accounted =>
                   row.quantity = asset[b].quantity /\ row.status = asset[b].status
                     /\ row.mode = asset[b].mode
    <3> SUFFICES ASSUME NEW n \in Importers
                 PROVE  LET b == import'[n].asset
                            row == import'[n].new
                        IN  /\ b # None => row \in Position
                            /\ import'[n].old.status # "absent" =>
                                 b # None /\ import'[n].old = asset[b]
                            /\ import'[n].old.status # "absent" /\ b \in Accounted =>
                                 row.quantity = asset[b].quantity
                                   /\ row.status = asset[b].status
                                   /\ row.mode = asset[b].mode
      OBVIOUS
    <3>1. CASE n = m  BY <1>4, <1>5, <1>8, <3>1, ImportedRow
    <3>2. CASE n # m  BY <1>5, <3>2 DEF IndInv, ImportsHold, Locking
    <3> QED  BY <3>1, <3>2
  <2> QED  BY <1>7, <2>1 DEF ImportsHold, Locking, Accounted
<1>10. LocksApart'
  <2>1. /\ \A d \in Deciders : decision[d].step = "asset" => Subject(d) # a
        /\ \A n \in Importers : Locking(n) => import[n].asset # a
    BY <1>1 DEF LockedAsset, Locking, Subject
  <2> QED  BY <1>4, <1>5, <1>7, <2>1 DEF IndInv, LocksApart, Locking, Subject
<1> QED
  BY <1>6, <1>7, <1>9, <1>10
  DEF IndInv, TypeOK, IncidentsKnown, DecisionsHold, EditsHold, ActsHold, Undecided, Subject,
      Accounted, Exists, OneActPerIncident

LEMMA FailImportStep ==
  ASSUME IndInv, NEW m \in Importers, FailImport(m)
  PROVE  IndInv'
<1>1. import' = [import EXCEPT ![m] = NoImport]
      /\ UNCHANGED <<asset, incident, acts, decision, edit, inspection>>
  BY DEF FailImport
<1>2. \A n \in Importers : import'[n] = IF n = m THEN NoImport ELSE import[n]
  BY <1>1 DEF IndInv, TypeOK
<1>3. import' \in [Importers -> Import]
  BY <1>1, NoValues DEF IndInv, TypeOK
<1>4. NoImport.asset = None /\ NoImport.old.status = "absent"
  BY DEF NoImport, NoAsset
<1>5. ImportsHold'  BY <1>1, <1>2, <1>4 DEF IndInv, ImportsHold, Locking, Accounted
<1>6. LocksApart'  BY <1>1, <1>2, <1>4 DEF IndInv, LocksApart, Locking, Subject
<1> QED
  BY <1>1, <1>3, <1>5, <1>6
  DEF IndInv, TypeOK, IncidentsKnown, DecisionsHold, EditsHold, ActsHold, Undecided, Subject,
      Accounted, Exists, OneActPerIncident

(* The row is written while it is locked, or the number is new. *)
LEMMA CommitImportStep ==
  ASSUME IndInv, NEW m \in Importers, CommitImport(m)
  PROVE  IndInv'
<1> DEFINE a == import[m].asset
           new == [import[m].new EXCEPT !.room = import[m].new.place]
<1>0. UNCHANGED <<incident, acts, decision, edit, inspection>>  BY DEF CommitImport
<1>1. /\ a # None
      /\ ~ Locking(m) => ~ Exists(a)
      /\ asset' = [asset EXCEPT ![a] = new]
      /\ import' = [import EXCEPT ![m] = NoImport]
  BY DEF CommitImport, Locking
<1>2. a \in Assets /\ import[m] \in Import
  BY <1>1 DEF IndInv, TypeOK, Import
<1>3. new \in Position /\ new.status # "absent"
      /\ new.quantity = import[m].new.quantity /\ new.status = import[m].new.status
      /\ new.mode = import[m].new.mode
  <2>1. import[m].new \in Position  BY <1>1 DEF IndInv, ImportsHold
  <2> QED  BY <2>1 DEF Position, Status
<1> HIDE DEF new
<1>4. /\ asset' \in [Assets -> AssetRow]
      /\ \A b \in Assets : asset'[b] = IF b = a THEN new ELSE asset[b]
  BY <1>1, <1>2, <1>3 DEF IndInv, TypeOK, AssetRow
<1>5. \A b \in Assets : Exists(b) => Exists(b)'
  BY <1>3, <1>4 DEF Exists
<1>6. /\ import' \in [Importers -> Import]
      /\ \A n \in Importers : import'[n] = IF n = m THEN NoImport ELSE import[n]
  BY <1>1, NoValues DEF IndInv, TypeOK
<1>7. NoImport.asset = None /\ NoImport.old.status = "absent"
  BY DEF NoImport, NoAsset
<1>8. TypeOK'  BY <1>0, <1>4, <1>6 DEF IndInv, TypeOK
<1>9. \A d \in Deciders : decision[d].step = "asset" =>
        Subject(d) \in Assets /\ Subject(d) # a
  <2> SUFFICES ASSUME NEW d \in Deciders, decision[d].step = "asset"
               PROVE  Subject(d) \in Assets /\ Subject(d) # a
    OBVIOUS
  <2>1. Subject(d) \in Assets /\ Exists(Subject(d))  BY Deciding, LockedExist
  <2>2. Locking(m) => Subject(d) # a  BY DEF IndInv, LocksApart
  <2> QED  BY <1>1, <2>1, <2>2
<1>10. DecisionsHold'
  <2>1. \A d \in Deciders : decision[d].step = "asset" =>
          asset'[Subject(d)] = asset[Subject(d)]
    BY <1>4, <1>9
  <2> QED  BY <1>0, <2>1 DEF IndInv, DecisionsHold, Undecided, Subject
<1>11. LocksApart'  BY <1>0, <1>6, <1>7 DEF IndInv, LocksApart, Locking, Subject
<1>12. \A n \in Importers \ {m} : Locking(n) =>
         import[n].asset \in Assets /\ import[n].asset # a
  <2> SUFFICES ASSUME NEW n \in Importers \ {m}, Locking(n)
               PROVE  import[n].asset \in Assets /\ import[n].asset # a
    OBVIOUS
  <2>1. import[n].asset # None /\ import[n].old = asset[import[n].asset]
    BY DEF IndInv, ImportsHold
  <2>2. import[n].asset \in Assets  BY <2>1 DEF IndInv, TypeOK, Import
  <2>3. Locking(m) => import[n].asset # a  BY DEF IndInv, LocksApart
  <2>4. Exists(import[n].asset)  BY <2>1 DEF Locking, Exists
  <2> QED  BY <1>1, <2>2, <2>3, <2>4
<1>13. ImportsHold'
  <2> SUFFICES ASSUME NEW n \in Importers
               PROVE  LET b == import'[n].asset
                          row == import'[n].new
                      IN  /\ b # None => row \in Position
                          /\ import'[n].old.status # "absent" =>
                               b # None /\ import'[n].old = asset'[b]
                          /\ import'[n].old.status # "absent" /\ b \in Accounted =>
                               row.quantity = asset'[b].quantity
                                 /\ row.status = asset'[b].status
                                 /\ row.mode = asset'[b].mode
    BY <1>0 DEF ImportsHold, Locking, Accounted
  <2>1. CASE n = m  BY <1>6, <1>7, <2>1
  <2>2. CASE n # m
    <3>1. import'[n] = import[n]  BY <1>6, <2>2
    <3>2. Locking(n) => asset'[import[n].asset] = asset[import[n].asset]
      BY <1>4, <1>12, <2>2
    <3> QED  BY <3>1, <3>2 DEF IndInv, ImportsHold, Locking
  <2> QED  BY <2>1, <2>2
<1>14. EditsHold'
  <2>1. \A e \in Editors : edit[e].asset # None => edit[e].asset \in Assets
    BY DEF IndInv, TypeOK, Edit
  <2> QED  BY <1>0, <1>5, <2>1 DEF IndInv, EditsHold, Exists
<1>15. ActsHold'
  BY <1>0, <1>5 DEF IndInv, ActsHold, Accounted, Exists, OneActPerIncident
<1> QED
  BY <1>0, <1>8, <1>10, <1>11, <1>13, <1>14, <1>15 DEF IndInv, IncidentsKnown

-----------------------------------------------------------------------------
LEMMA Invariance == Spec => []IndInv
<1>1. Init => IndInv
  <2> SUFFICES ASSUME Init PROVE IndInv  OBVIOUS
  <2>1. TypeOK  BY NoValues DEF Init, TypeOK
  <2>2. DOMAIN acts = {}  BY DEF Init
  <2>3. /\ NoIncident.status = "free" /\ NoImport.asset = None
        /\ NoImport.old.status = "absent" /\ NoEdit.asset = None
        /\ NoDecision.step = "idle" /\ NoDecision.incident = None
    BY DEF NoIncident, NoImport, NoEdit, NoDecision, NoAsset
  <2> QED
    BY <2>1, <2>2, <2>3
    DEF Init, IndInv, IncidentsKnown, DecisionsHold, LocksApart, ImportsHold, EditsHold,
        ActsHold, Locking, Accounted, OneActPerIncident
<1>2. IndInv /\ [Next]_vars => IndInv'
  <2> SUFFICES ASSUME IndInv, [Next]_vars PROVE IndInv'  OBVIOUS
  <2>1. CASE UNCHANGED vars
    BY <2>1 DEF vars, IndInv, TypeOK, IncidentsKnown, DecisionsHold, LocksApart, ImportsHold,
       EditsHold, ActsHold, Undecided, Subject, Locking, Accounted, Exists, OneActPerIncident
  <2>2. ASSUME NEW a \in Assets, CreateAsset(a) PROVE IndInv'
    BY <2>2, CreateAssetStep
  <2>3. ASSUME NEW e \in Editors, LoadEdit(e) \/ CommitEdit(e) PROVE IndInv'
    BY <2>3, LoadEditStep, CommitEditStep
  <2>4. ASSUME NEW n \in Inspectors, LoadRoom(n) \/ CommitInspection(n) PROVE IndInv'
    BY <2>4, LoadRoomStep, CommitInspectionStep
  <2>5. ASSUME NEW d \in Deciders,
               \/ LockIncident(d) \/ LockAsset(d) \/ Refuse(d)
               \/ Investigate(d) \/ Close(d) \/ Move(d) \/ WriteOff(d)
        PROVE  IndInv'
    BY <2>5, HoldingStep, CloseStep, MoveStep, WriteOffStep
  <2>6. ASSUME NEW m \in Importers, LockRows(m) \/ CommitImport(m) \/ FailImport(m)
        PROVE  IndInv'
    BY <2>6, LockRowsStep, CommitImportStep, FailImportStep
  <2> QED  BY <2>1, <2>2, <2>3, <2>4, <2>5, <2>6 DEF Next
<1> QED  BY <1>1, <1>2, PTL DEF Spec

(* Every reachable state is of the declared types (the rows of admin_assets  *)
(* .py, admin_locations.py and what their handlers hold).                    *)
THEOREM TypeCorrect == Spec => []TypeOK
BY Invariance, PTL DEF IndInv

(* One incident leads to one act at most, about no more than was found,      *)
(* whoever decides, edits and imports at the same time.                      *)
THEOREM IncidentsActOnce == Spec => []OneActPerIncident
<1>1. IndInv => OneActPerIncident  BY DEF IndInv, ActsHold
<1> QED  BY <1>1, Invariance, PTL

(* An act is about a position that is where the inspection found it: the row *)
(* a decision read is current until its commit.                              *)
THEOREM ActsAreLocal == Spec => ActsWhereInspected
<1>1. IndInv /\ [Next]_vars =>
        [acts' # acts =>
           LET act == acts'[Len(acts')]
           IN  asset[act.asset].room = incident[act.incident].room]_vars
  <2> SUFFICES ASSUME IndInv, Next, acts' # acts
               PROVE  LET act == acts'[Len(acts')]
                      IN  asset[act.asset].room = incident[act.incident].room
    BY DEF vars
  <2>1. PICK d \in Deciders : Move(d) \/ WriteOff(d)
    BY DEF Next, CreateAsset, LoadEdit, CommitEdit, LoadRoom, CommitInspection, LockIncident,
       LockAsset, Refuse, Investigate, Close, LockRows, CommitImport, FailImport
  <2>2. decision[d].step = "asset"  BY <2>1 DEF Move, WriteOff
  <2>3. PICK act : /\ acts' = Append(acts, act)
                   /\ act.incident = decision[d].incident /\ act.asset = Subject(d)
    <3>1. PICK action, q, b : Record(d, action, q, b)  BY <2>1 DEF Move, WriteOff
    <3> DEFINE act == [incident |-> decision[d].incident, action |-> action,
                       asset |-> Subject(d), destination |-> b, quantity |-> q]
    <3>2. acts' = Append(acts, act)  BY <3>1 DEF Record, Subject
    <3>3. act.incident = decision[d].incident /\ act.asset = Subject(d)  OBVIOUS
    <3> HIDE DEF act
    <3> QED  BY <3>2, <3>3
  <2>4. acts \in Seq(Act)  BY DEF IndInv, TypeOK
  <2>5. acts'[Len(acts')] = act  BY <2>3, <2>4
  <2>6. asset[Subject(d)].room = incident[decision[d].incident].room
    BY <2>2 DEF IndInv, DecisionsHold
  <2> QED  BY <2>3, <2>5, <2>6
<1> QED  BY <1>1, Invariance, PTL DEF Spec, ActsWhereInspected

(* No file imported after an act changes quantity, mode or status of its     *)
(* positions, whenever the file was read (ADR-006).                          *)
THEOREM ActsPrevail == Spec => ActsOutliveImports
<1>1. IndInv /\ [Next]_vars =>
        [\A a \in Accounted :
           Applied(a) => /\ asset'[a].quantity = asset[a].quantity
                         /\ asset'[a].status = asset[a].status
                         /\ asset'[a].mode = asset[a].mode]_vars
  <2> SUFFICES ASSUME IndInv, Next, NEW a \in Accounted, Applied(a)
               PROVE  /\ asset'[a].quantity = asset[a].quantity
                      /\ asset'[a].status = asset[a].status
                      /\ asset'[a].mode = asset[a].mode
    BY DEF vars
  <2>1. PICK m \in Importers : import[m].asset = a /\ import'[m].asset = None
    BY DEF Applied
  <2>2. a \in Assets /\ Exists(a)  BY DEF Accounted, IndInv, ActsHold
  <2>3. a # None  BY <2>2
  <2>4. PICK n \in Importers : LockRows(n) \/ CommitImport(n) \/ FailImport(n)
    BY <2>1, <2>3
    DEF Next, CreateAsset, LoadEdit, CommitEdit, LoadRoom, CommitInspection, LockIncident,
        LockAsset, Refuse, Investigate, Close, Move, WriteOff, Decide
  <2>5. n = m
    <3>1. \A k \in Importers : k # n => import'[k] = import[k]
      BY <2>4 DEF LockRows, CommitImport, FailImport, IndInv, TypeOK
    <3> QED  BY <2>1, <2>3, <3>1
  <2>6. CASE LockRows(n)  BY <2>1, <2>3, <2>5, <2>6 DEF LockRows
  <2>7. CASE FailImport(n)  BY <2>7 DEF FailImport
  <2>8. CASE CommitImport(n)
    <3> DEFINE new == import[m].new
    <3>1. Locking(m)  BY <2>1, <2>2, <2>5, <2>8 DEF CommitImport, Locking
    <3>2. new \in Position /\ new.quantity = asset[a].quantity
            /\ new.status = asset[a].status /\ new.mode = asset[a].mode
      BY <2>1, <2>3, <3>1 DEF IndInv, ImportsHold
    <3>3. asset'[a] = [new EXCEPT !.room = new.place]
      BY <2>1, <2>2, <2>5, <2>8 DEF CommitImport, IndInv, TypeOK
    <3> QED  BY <3>2, <3>3 DEF Position
  <2> QED  BY <2>4, <2>6, <2>7, <2>8
<1> QED  BY <1>1, Invariance, PTL DEF Spec, ActsOutliveImports

-----------------------------------------------------------------------------
(* The stock. *)

LEMMA UnitsCounted ==
  ASSUME NEW row \in AssetRow
  PROVE  /\ Units(row) \in Nat
         /\ row.status = "absent" => Units(row) = 0
BY DEF Units, AssetRow, NoAsset, Position, Quantity

\* A split takes from one position what it gives to a new one, a move as a
\* whole changes no units.
LEMMA MoveKeepsStock ==
  ASSUME IndInv, NEW d \in Deciders, Move(d)
  PROVE  /\ acts'[Len(acts')].action = "MOVE"
         /\ Stock(asset') = Stock(asset)
<1> DEFINE s == Subject(d)
           row == decision[d].row
<1>1. decision[d].step = "asset"  BY DEF Move
<1>2. PICK q \in Amounts(d), r \in Rooms \ {row.room} :
        \/ /\ asset' = [asset EXCEPT ![s].room = r, ![s].place = r]
           /\ Record(d, "MOVE", q, s)
        \/ /\ q < row.quantity
           /\ \E b \in Assets :
                /\ ~ Exists(b)
                /\ asset' = [asset EXCEPT
                     ![s].quantity = row.quantity - q,
                     ![b] = [row EXCEPT !.quantity = q, !.room = r, !.place = r]]
                /\ Record(d, "MOVE", q, b)
  BY DEF Move, Subject
<1>3. /\ s \in Assets /\ row = asset[s] /\ row \in Position /\ Exists(s)
      /\ asset \in [Assets -> AssetRow] /\ acts \in Seq(Act)
  BY <1>1, Deciding, LockedExist DEF IndInv, TypeOK
<1>4. acts'[Len(acts')].action = "MOVE"
  <2>1. PICK b : Record(d, "MOVE", q, b)  BY <1>2
  <2> DEFINE act == [incident |-> decision[d].incident, action |-> "MOVE", asset |-> s,
                     destination |-> b, quantity |-> q]
  <2>2. acts' = Append(acts, act) /\ act.action = "MOVE"  BY <2>1 DEF Record, Subject
  <2> HIDE DEF act
  <2> QED  BY <1>3, <2>2
<1>5. CASE asset' = [asset EXCEPT ![s].room = r, ![s].place = r]
  <2> DEFINE new == [row EXCEPT !.room = r, !.place = r]
  <2>1. asset' = [asset EXCEPT ![s] = new]  BY <1>3, <1>5
  <2>2. new.status = row.status /\ new.quantity = row.quantity
    BY <1>3 DEF Position
  <2>3. Units(new) = Units(asset[s])  BY <1>3, <2>2 DEF Units
  <2> HIDE DEF new
  <2>4. \A b \in Assets : Units(asset[b]) \in Nat /\ Units(asset'[b]) \in Nat
    BY <1>3, <2>1, <2>3, UnitsCounted
  <2>5. \A b \in Assets \ {s} : Units(asset'[b]) = Units(asset[b])
    BY <1>3, <2>1
  <2>6. Units(asset'[s]) = Units(asset[s])  BY <1>3, <2>1, <2>3
  <2>7. /\ Stock(asset) \in Nat /\ Stock(asset') \in Nat
        /\ Stock(asset') + Units(asset[s]) = Stock(asset) + Units(asset'[s])
    BY <1>3, <2>4, <2>5, StockOfOne
  <2> QED  BY <1>3, <1>4, <2>4, <2>6, <2>7
<1>6. ASSUME NEW b \in Assets, q < row.quantity, ~ Exists(b),
             asset' = [asset EXCEPT
               ![s].quantity = row.quantity - q,
               ![b] = [row EXCEPT !.quantity = q, !.room = r, !.place = r]]
      PROVE  Stock(asset') = Stock(asset)
  <2> DEFINE new == [row EXCEPT !.quantity = q, !.room = r, !.place = r]
             rest == [row EXCEPT !.quantity = row.quantity - q]
             mid == [asset EXCEPT ![s] = rest]
  <2>0. b # s  BY <1>3, <1>6
  <2>1. q \in Nat /\ row.quantity \in Nat /\ row.quantity - q \in Nat
    BY <1>1, <1>6, AmountsFit DEF Quantity
  <2>2. /\ new.status = row.status /\ new.quantity = q
        /\ rest.status = row.status /\ rest.quantity = row.quantity - q
    BY <1>3 DEF Position
  <2>3. asset' = [mid EXCEPT ![b] = new]
    BY <1>3, <1>6, <2>0
  <2>4. /\ Units(new) \in Nat /\ Units(rest) \in Nat /\ Units(row) \in Nat
        /\ Units(new) + Units(rest) = Units(row)
    BY <2>1, <2>2 DEF Units
  <2> HIDE DEF new, rest
  <2>5. /\ mid[s] = rest /\ mid[b] = asset[b] /\ asset'[b] = new
        /\ \A a \in Assets \ {s} : mid[a] = asset[a]
        /\ \A a \in Assets \ {b} : asset'[a] = mid[a]
    BY <1>3, <2>0, <2>3
  <2> HIDE DEF mid
  <2>6. Units(asset[b]) = 0  BY <1>3, <1>6, UnitsCounted DEF Exists
  <2>7. \A a \in Assets : Units(mid[a]) \in Nat
    BY <1>3, <2>4, <2>5, UnitsCounted
  <2>8. /\ Stock(asset) \in Nat /\ Stock(mid) \in Nat
        /\ Stock(mid) + Units(asset[s]) = Stock(asset) + Units(mid[s])
    <3>1. \A a \in Assets : Units(asset[a]) \in Nat
      BY <1>3, UnitsCounted
    <3>2. \A a \in Assets \ {s} : Units(mid[a]) = Units(asset[a])
      BY <2>5
    <3>3. s \in Assets  BY <1>3
    <3> QED  BY ZenonT(30), <2>7, <3>1, <3>2, <3>3, StockOfOne
  <2>9. /\ Stock(mid) \in Nat /\ Stock(asset') \in Nat
        /\ Stock(asset') + Units(mid[b]) = Stock(mid) + Units(asset'[b])
    <3>1. \A a \in Assets : Units(asset'[a]) \in Nat
      BY <2>4, <2>5, <2>7
    <3>2. \A a \in Assets \ {b} : Units(asset'[a]) = Units(mid[a])
      BY <2>5
    <3> QED  BY <2>7, <3>1, <3>2, StockOfOne
  <2>10. Stock(mid) + Units(row) = Stock(asset) + Units(rest)
    BY <1>3, <2>5, <2>8
  <2>11. Stock(asset') = Stock(mid) + Units(new)
    BY <2>5, <2>6, <2>9
  <2> QED  BY <2>4, <2>8, <2>9, <2>10, <2>11
<1> QED  BY <1>2, <1>4, <1>5, <1>6

LEMMA WriteOffTakesUnits ==
  ASSUME IndInv, NEW d \in Deciders, WriteOff(d)
  PROVE  LET act == acts'[Len(acts')]
         IN  /\ act.action = "WRITE_OFF" /\ act.asset = Subject(d)
             /\ Stock(asset') + (IF asset[Subject(d)].status = "ACTIVE" THEN act.quantity ELSE 0)
                  = Stock(asset)
<1> DEFINE s == Subject(d)
           row == decision[d].row
<1>1. decision[d].step = "asset"  BY DEF WriteOff
<1>2. PICK q \in Amounts(d) :
        /\ \/ /\ q < row.quantity
              /\ asset' = [asset EXCEPT ![s].quantity = row.quantity - q]
           \/ /\ q = row.quantity
              /\ asset' = [asset EXCEPT ![s].status = "WRITTEN_OFF", ![s].room = None,
                                        ![s].place = None]
        /\ Record(d, "WRITE_OFF", q, None)
  BY DEF WriteOff, Subject
<1>3. /\ s \in Assets /\ row = asset[s] /\ row \in Position
      /\ asset \in [Assets -> AssetRow] /\ acts \in Seq(Act)
  BY <1>1, Deciding, LockedExist DEF IndInv, TypeOK
<1>4. q \in Nat /\ row.quantity \in Nat /\ q <= row.quantity
  BY <1>1, AmountsFit DEF Quantity
<1>5. PICK act : /\ acts' = Append(acts, act)
                 /\ act.action = "WRITE_OFF" /\ act.asset = s /\ act.quantity = q
  <2> DEFINE act == [incident |-> decision[d].incident, action |-> "WRITE_OFF", asset |-> s,
                     destination |-> None, quantity |-> q]
  <2>1. acts' = Append(acts, act)  BY <1>2 DEF Record, Subject
  <2>2. act.action = "WRITE_OFF" /\ act.asset = s /\ act.quantity = q  OBVIOUS
  <2> HIDE DEF act
  <2> QED  BY <2>1, <2>2
<1>6. acts'[Len(acts')] = act  BY <1>3, <1>5
<1> DEFINE left == IF q < row.quantity THEN [row EXCEPT !.quantity = row.quantity - q]
                   ELSE [row EXCEPT !.status = "WRITTEN_OFF", !.room = None, !.place = None]
<1>7. asset' = [asset EXCEPT ![s] = left]
  <2>1. CASE q < row.quantity  BY <1>2, <1>3, <1>4, <2>1
  <2>2. CASE q = row.quantity  BY <1>2, <1>3, <1>4, <2>2, ~ (q < row.quantity)
  <2> QED  BY <1>4, <2>1, <2>2
<1>8. /\ Units(left) \in Nat
      /\ Units(left) + (IF row.status = "ACTIVE" THEN q ELSE 0) = Units(row)
  <2>1. CASE q < row.quantity
    <3>1. left.status = row.status /\ left.quantity = row.quantity - q
      BY <1>3, <2>1 DEF Position
    <3> QED  BY <1>4, <2>1, <3>1 DEF Units
  <2>2. CASE q = row.quantity
    <3>1. left.status = "WRITTEN_OFF"
      BY <1>3, <1>4, <2>2 DEF Position
    <3> QED  BY <1>4, <2>2, <3>1 DEF Units
  <2> QED  BY <1>4, <2>1, <2>2
<1> HIDE DEF left
<1>9. asset'[s] = left /\ \A b \in Assets \ {s} : asset'[b] = asset[b]
  BY <1>3, <1>7
<1>10. \A b \in Assets : Units(asset[b]) \in Nat /\ Units(asset'[b]) \in Nat
  BY <1>3, <1>8, <1>9, UnitsCounted
<1>11. /\ Stock(asset) \in Nat /\ Stock(asset') \in Nat
       /\ Stock(asset') + Units(asset[s]) = Stock(asset) + Units(asset'[s])
  <2>1. \A b \in Assets : Units(asset[b]) \in Nat  BY <1>10
  <2>2. \A b \in Assets : Units(asset'[b]) \in Nat  BY <1>10
  <2>3. \A b \in Assets \ {s} : Units(asset'[b]) = Units(asset[b])  BY <1>9
  <2>4. s \in Assets  BY <1>3
  <2> QED  BY ZenonT(30), <2>1, <2>2, <2>3, <2>4, StockOfOne
<1>12. Units(row) \in Nat /\ Stock(asset') + Units(row) = Stock(asset) + Units(left)
  BY <1>3, <1>9, <1>10, <1>11
<1>13. Stock(asset') + (IF row.status = "ACTIVE" THEN q ELSE 0) = Stock(asset)
  BY <1>4, <1>8, <1>11, <1>12
<1> QED  BY <1>3, <1>5, <1>6, <1>13

(* A move keeps the stock and a write-off takes just its units from it,      *)
(* whatever edits, imports and other decisions run beside it: the rows an    *)
(* act writes are those it locked and read (admin_locations.py:456-573).     *)
THEOREM StockIsConserved == Spec => StockConserved
<1>1. IndInv /\ [Next]_vars =>
        [acts' # acts =>
           LET act == acts'[Len(acts')]
           IN  Stock(asset') + (IF act.action = "WRITE_OFF" /\ asset[act.asset].status = "ACTIVE"
                                THEN act.quantity ELSE 0) = Stock(asset)]_vars
  <2> SUFFICES ASSUME IndInv, Next, acts' # acts
               PROVE  LET act == acts'[Len(acts')]
                      IN  Stock(asset') +
                            (IF act.action = "WRITE_OFF" /\ asset[act.asset].status = "ACTIVE"
                             THEN act.quantity ELSE 0) = Stock(asset)
    BY DEF vars
  <2>1. PICK d \in Deciders : Move(d) \/ WriteOff(d)
    BY DEF Next, CreateAsset, LoadEdit, CommitEdit, LoadRoom, CommitInspection, LockIncident,
       LockAsset, Refuse, Investigate, Close, LockRows, CommitImport, FailImport
  <2>2. CASE Move(d)
    <3>1. Stock(asset) \in Nat
      <4>1. asset \in [Assets -> AssetRow] /\ Subject(d) \in Assets
        BY <2>2, Deciding DEF IndInv, TypeOK, Move
      <4>2. \A b \in Assets : Units(asset[b]) \in Nat
        BY <4>1, UnitsCounted
      <4> QED  BY SMTT(30), <4>1, <4>2, StockOfOne
    <3> QED  BY <2>2, <3>1, MoveKeepsStock
  <2>3. CASE WriteOff(d)
    BY <2>3, WriteOffTakesUnits
  <2> QED  BY <2>1, <2>2, <2>3
<1> QED  BY <1>1, Invariance, PTL DEF Spec, StockConserved

=============================================================================
