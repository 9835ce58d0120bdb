CONSTANTS
  a = a
  b = b
  d = d
  Room <- OneRoom
  IdOf <- OwnId
  Client = {a, b}
  Identity = {a, b}
  MaxSent <- BothTalk
SPECIFICATION FairChatSpec
PROPERTY HandshakeCompletes
CHECK_DEADLOCK FALSE
