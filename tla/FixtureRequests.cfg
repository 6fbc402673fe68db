SPECIFICATION BoundedSpec

CONSTANTS
  admin = admin
  official = official
  NoUser = NoUser
  NoRow = NoRow
  NoLive = NoLive
  Admins <- MCAdmins
  Officials <- MCOfficials
  r1 = r1
  r2 = r2
  r3 = r3
  NoRequest = NoRequest
  Plans = {0, 1}
  Scores = {0, 1}
  Deltas <- BothDeltas
  Periods = {0, 1}
  Request <- ThreeRequests
  Coming <- PairsAndTrios
  Origin <- AnyFixture
  Versions = {0, 1, 2}

INVARIANTS
  Inv
  LocksAreHeld
  NoOrphan

PROPERTIES
  OwnColumnsOnly
  AtomicWhenCurrent
  AuditExplains
  EveryRequestEnds
