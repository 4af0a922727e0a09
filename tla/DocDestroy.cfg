SPECIFICATION FairSpec
CONSTANTS
  Clients = {c1, c2}
  QueueDepth = 1
PROPERTIES OperationEnds
CHECK_DEADLOCK FALSE
