CONSTANTS
  a = a
  b = b
  d = d
  Room <- OneRoom
  IdOf <- OwnId
  Client = {a, b, d}
  Identity = {a, b, d}
  MaxSent <- OneTalks
SPECIFICATION ChatSpec
PROPERTY BadFrameDropped
CHECK_DEADLOCK FALSE
