CONSTANTS
  p1 = p1
  p2 = p2
  p3 = p3
  NoPeer = NoPeer
  Peers <- OnePeer
  MaxClients = 1
  MaxPending = 1
  FrameBudget = 1
SPECIFICATION PoliteSpec
PROPERTIES HooksRevoked
CHECK_DEADLOCK FALSE
