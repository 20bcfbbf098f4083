SPECIFICATION StockSpec
CONSTANTS
  r1 = r1
  r2 = r2
  Rooms = {r1, r2}
  Inspectors = {s1}
  None = None
  MaxQuantity = 2
  Assets = {a1, a2}
  Forms <- TwoForms
  Incidents = {i1, i2, i3}
  Deciders = {d1, d2}
  Importers = {m1}
  Editors = {e1}
  EditFields = {"quantity", "room", "place"}
  Files <- OldFiles
SYMMETRY Symmetry
INVARIANTS
  TypeOK
  OneActPerIncident
PROPERTIES
  StockConserved
  ActsWhereInspected
  ActsOutliveImports
CHECK_DEADLOCK FALSE
