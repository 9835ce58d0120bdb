CONSTANTS
  a = a
  b = b
  d = d
  Room <- OneRoom
  IdOf <- OwnId
  Client = {a, b, d}
  Identity = {a, b, d}
  MaxSent <- OneTalks
SYMMETRY Symmetry
SPECIFICATION ChatSpec
INVARIANTS KeyAgreement ShownIsPeers
CHECK_DEADLOCK FALSE
