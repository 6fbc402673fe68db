SPECIFICATION FairSpec

CONSTANTS
  i1 = i1
  i2 = i2
  c1 = c1
  c2 = c2
  c3 = c3
  e1 = e1
  e2 = e2
  e3 = e3
  x1 = x1
  NoFixture = NoFixture
  Live = Live
  Instance <- OneInstance
  Client <- LiveAndRoom
  Event <- TwoEvents
  HomeOf <- Together
  RoomOf <- MCRoomOf
  FixtureOf <- MCFixtureOf
  RedisAtStart = {"up", "down"}
  MaxOutages = 1

INVARIANTS
  NobodyDropped

PROPERTIES
  EveryEventArrives
  DeadSocketsPruned
