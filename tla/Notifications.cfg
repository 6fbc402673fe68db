SPECIFICATION MCSpec
CONSTANTS
  b1 = b1  b2 = b2  k1 = k1  k2 = k2  t1 = t1  t2 = t2
  w1 = w1  w2 = w2  r1 = r1  r2 = r2
  Browser = {b1, b2}
  Key = {k1, k2}
  All = All  UrgentOnly = UrgentOnly
  Topic = {t1, t2}
  TopicOf <- MCTopicOf
  Urgent = {k2}
  Worker = {w1, w2}
  Request = {r1, r2}
  First = First
  Registered = {b1, b2}
  Wishes <- MCWishes
  MaxCrashes = 1
INVARIANTS TypeOK NobodySkipped
PROPERTIES KeepsOutbox AloneReplaces EveryEventDispatched DeadPruned
