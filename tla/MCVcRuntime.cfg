SPECIFICATION FairSpec
CONSTANTS
  Clients = {c1, c2}
  QueueDepth = 1
INVARIANTS NoDanglingResult
PROPERTIES DestroyEnds ServedUntilDestroyed
CHECK_DEADLOCK FALSE
