CONSTANTS
  MaxQueued = 2
  MaxClicks = 3
SPECIFICATION FairWorkerSpec
INVARIANTS WorkerTypeOK NoMessageSlept SessionRecorded CarefulCrashesByTagOnly
PROPERTIES TcpStops PeerGoneNoticed WindowCloses
CHECK_DEADLOCK FALSE
