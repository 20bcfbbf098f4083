SPECIFICATION StockSpec
CONSTANTS
  r1 = r1
  r2 = r2
  Rooms = {r1, r2}
  Inspectors = {s1}
  None = None
  MaxQuantity = 2
  Assets = {a1, a2}
  Forms <- OneForm
  Incidents = {i1}
  Deciders = {d1}
  Importers = {m1}
  Editors = {e1}
  EditFields = {"room"}
  Files <- OldFiles
SYMMETRY Symmetry
PROPERTY PlaceOutlivesImports
CHECK_DEADLOCK FALSE
