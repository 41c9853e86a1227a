CONSTANTS
  n1 = n1  n2 = n2  l1 = l1  l2 = l2  c1 = c1  c2 = c2 
  ann = ann  bob = bob  eve = eve  team = team  ghost = ghost  hi = hi
  None = None
  Node = {n1, n2}
  Loop = {l1, l2}
  NodeOf <- TwoNodes
  Conn = {c1, c2}
  LoopOf <- FirstOnOne
  User = {ann, bob}
  Group = {team}
  Members <- Pair
  UnknownGroup = ghost
  Body = {hi}
  Identities <- AnnAndBob
  Target = {team}
  FrameKind = {"register", "chat"}
  Ulp = 1
  FirstId = 1
  MaxId = 2
  MaxFrames = 3
  MaxFaults = 0
  MaxCrashes = 0
SPECIFICATION Spec
INVARIANT DeliveredToRecipient
INVARIANT PrunedBelowSent
CHECK_DEADLOCK FALSE
