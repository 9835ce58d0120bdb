CONSTANTS
  s1 = s1
  s2 = s2
  s3 = s3
  r1 = r1
  r2 = r2
  Session = {s1, s2, s3}
  Plain = {}
  Room = {r1, r2}
  MaxSent <- TwoTalk
  SockBuf = 1
SYMMETRY Symmetry
SPECIFICATION Spec
INVARIANTS TypeOK Registry SameRoomOnly InOrder
PROPERTIES OnlyClosedLeave Implements
