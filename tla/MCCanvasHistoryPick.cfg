SPECIFICATION Spec
CONSTANTS
  t1 = t1
  d1 = d1
  p1 = p1
  i1 = i1
  c1 = c1
  f1 = f1
  Tokens = {t1}
  Drawings = {d1}
  Scene = Scene
  Players = {p1}
  GM = GM
  Own <- MCOwn
  Values = {v1, v2}
  Grids = {g1}
  Actions = {a1, a2}
  Requests = {r1}
  Images = {i1}
  Characters = {c1}
  Definitions = {f1}
  DefinitionOf <- MCDefinitionOf
  Picture <- MCPicture
  Nothing = Nothing
  Placed = {t1}
  Worn <- MCWorn
  Absent = Absent
  NoGrid = NoGrid
  MaxRev = 4
  MaxJournal = 4
  MaxOther = 0
SYMMETRY Symmetry
CHECK_DEADLOCK FALSE
PROPERTY PicksCompatible
