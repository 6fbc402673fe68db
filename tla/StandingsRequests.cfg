SPECIFICATION BoundedSpec

CONSTANTS
  r1 = r1
  r2 = r2
  r3 = r3
  f1 = f1
  f2 = f2
  f3 = f3
  f4 = f4
  g1 = g1
  g2 = g2
  NoRequest = NoRequest
  NoGroup = NoGroup
  NoLive = NoLive
  Request <- ThreeRequests
  Fixtures <- FourFixtures
  Groups <- MCGroups
  GroupOf <- AllGroups
  Paired <- WithTeams
  Scores = {0, 1}
  Coming <- PairsAndTrios
  FirstStatus = {"UNDER_REVIEW", "COMPLETED", "gone"}

INVARIANTS
  TypeOK
  NeverVanish

PROPERTIES
  AloneRebuilds
  OwnResultShown
  EveryRebuildEnds
