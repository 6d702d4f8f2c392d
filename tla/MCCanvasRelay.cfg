SPECIFICATION Spec
CONSTANTS
  gm = gm
  player = player
  s1 = s1
  s2 = s2
  None = None
  Members = {gm, player}
  GMs = {gm}
  Sockets = {s1, s2}
  MemberOf <- MCTwoTabs
  Scenes = {c1, c2}
  Slots = {k1, k2}
  Requests = {r1, r2}
  Commands = {p1, p2}
  MayFail = TRUE
  MaxInbox = 1
  MaxInputs = 3
  MaxRevision = 2
SYMMETRY MCSymmetry
INVARIANT TypeOK
INVARIANT PausedCanvasIsClean
INVARIANT RulersAreRetractable
INVARIANT CursorsAreRetractable
INVARIANT WritesExcludePause
PROPERTY AnnouncementsNeverRegress
