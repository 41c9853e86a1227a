CONSTANTS
  n1 = n1  n2 = n2  l1 = l1  l2 = l2  c1 = c1  c2 = c2 
  ann = ann  bob = bob  eve = eve  team = team  ghost = ghost  hi = hi
  None = None
  Node = {n1}
  Loop = {l1, l2}
  NodeOf <- TwoLoops
  Conn = {c1, c2}
  LoopOf <- FirstOnOne
  User = {ann, bob, eve}
  Group = {team}
  Members <- BigTeam
  UnknownGroup = ghost
  Body = {hi}
  Identities <- AnnAndBob
  Target = {team}
  FrameKind = {"register", "chat"}
  Ulp = 1
  FirstId = 1
  MaxId = 2
  MaxFrames = 4
  MaxFaults = 0
  MaxCrashes = 0
SPECIFICATION Spec
INVARIANT DrainGoesToUser
CHECK_DEADLOCK FALSE
