SPECIFICATION FairSpec

CONSTANTS
  admin = admin
  official = official
  NoUser = NoUser
  NoRow = NoRow
  NoLive = NoLive
  Admins <- MCAdmins
  Officials <- MCOfficials
  r1 = r1
  r2 = r2
  r3 = r3
  NoRequest = NoRequest
  Plans = {0}
  Scores = {}
  Deltas = {1}
  Periods = {0}
  Request <- ThreeRequests
  Coming <- TwoScores
  Origin <- OnlyRunning
  Versions = {1}

INVARIANTS
  RetryAppliesOnce
