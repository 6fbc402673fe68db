SPECIFICATION MCSpec

CONSTANTS
  r1 = r1
  r2 = r2
  r3 = r3
  r4 = r4
  s1 = s1
  s2 = s2
  s3 = s3
  s4 = s4
  Request = {r1, r2, r3, r4}
  p1 = p1
  p2 = p2
  Password = {p1, p2}
  MaxFailed = 2
  Seeding = {s1, s2, s3}
  Creating = {s3}
  Requesting = {s4}
  Nothing = Nothing
  SlugOf <- MCSlugOf
  EmailOf <- MCEmailOf
  Tallies <- MCTallies
  Points <- MCPoints

SYMMETRY Symmetry

CHECK_DEADLOCK FALSE

INVARIANTS
  TypeOK
  LockedAfterMany
  OneLivePerLogin
  ChangeEndsSessions
  MigrationRuns
  ReferencesHold
  OneSeason
  MedalsRanked

PROPERTIES
  SeasonStays
