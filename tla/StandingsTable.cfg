SPECIFICATION Spec

CONSTANTS
  Team = {1, 2, 3}
  Guest = {4}
  Win = 3
  Draw = 1
  Loss = 0
  TieBreakerLists <- MCTieBreakerLists
  Goals = {0, 1}
  MaxResults = 3

CHECK_DEADLOCK FALSE

INVARIANTS
  RowsAddUp
  RankedByRules
  OrderIrrelevant

PROPERTIES
  WinNeverHurts
