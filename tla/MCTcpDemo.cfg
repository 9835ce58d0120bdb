CONSTANTS
  client = client
  server = server
  End <- Ends
  Frame <- Three
  Header = 2
  Body <- Lengths
  Capacity = 4
SPECIFICATION FairDemoSpec
INVARIANTS DemoTypeOK
PROPERTIES WholeFrames SentIsPrinted DemoEnds
CHECK_DEADLOCK FALSE
