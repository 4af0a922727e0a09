SPECIFICATION FairSpec
CONSTANTS
  Boards = {b1, b2}
  None = None
  WrittenValues = {1}
  OfflineThreshold = 2
  MaxClicks = 3
INVARIANTS LinkShown StaleOnlyAfterLoss
PROPERTIES ShownConverges OfflineShown
CHECK_DEADLOCK FALSE
