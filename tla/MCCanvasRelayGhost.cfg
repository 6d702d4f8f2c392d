SPECIFICATION Spec
CONSTANTS
  gm = gm
  player = player
  s1 = s1
  s2 = s2
  None = None
  Members = {gm, player}
  GMs = {gm}
  Sockets = {s1, s2}
  MemberOf <- MCTwoMembers
  Scenes = {c1, c2}
  Slots = {}
  Requests = {}
  Commands = {}
  MayFail = FALSE
  MaxInbox = 1
  MaxInputs = 4
  MaxRevision = 0
INVARIANT NoGhostRuler
