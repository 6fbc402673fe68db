SPECIFICATION BoundedSpec

CONSTANTS
  admin = admin
  official = official
  NoUser = NoUser
  NoRow = NoRow
  NoLive = NoLive
  Admins <- MCAdmins
  Officials <- MCOfficials
  Plans = {0, 1}
  Scores = {0, 1}
  Deltas <- BothDeltas
  Periods = {0, 1}
  Origin <- NewFixtures
  MaxVersion = 5

CHECK_DEADLOCK FALSE

INVARIANTS
  TypeOK
  ScoreboardInSync
  DraftsAreHidden

PROPERTIES
  NoWayBack
