SPECIFICATION PreparedSpec

CONSTANTS
  r1 = r1
  r2 = r2
  r3 = r3
  f1 = f1
  f2 = f2
  f3 = f3
  f4 = f4
  g1 = g1
  g2 = g2
  NoRequest = NoRequest
  NoGroup = NoGroup
  NoLive = NoLive
  Request <- ThreeRequests
  Fixtures <- TwoFixtures
  Groups <- MCGroups
  GroupOf <- BothInFirst
  Paired <- TwoFixtures
  Scores = {0}
  Coming <- TwoResults
  FirstStatus = {"LIVE"}

INVARIANTS
  TablesFollowResults
