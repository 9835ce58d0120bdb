CONSTANTS
  MaxQueued = 2
  MaxClicks = 1
SPECIFICATION FairWorkerSpec
PROPERTY RecvReturns
CHECK_DEADLOCK FALSE
