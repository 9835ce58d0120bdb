CONSTANTS
  s1 = s1
  s2 = s2
  s3 = s3
  r1 = r1
  r2 = r2
  Session = {s1, s2, s3}
  Plain = {s3}
  Room = {r1}
  MaxSent <- ThreeAndOne
  SockBuf = 1
SPECIFICATION FairSpec
INVARIANT NoGaps
PROPERTIES FrameReachesMembers ClosedLeave
