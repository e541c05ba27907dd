CONSTANTS
  p1 = p1
  p2 = p2
  p3 = p3
  NoPeer = NoPeer
  Peers <- TwoPeers
  MaxClients = 1
  MaxPending = 1
  FrameBudget = 1
SPECIFICATION FairSpec
INVARIANTS TypeOK ActiveCountExact RequestHasWaiter StoppedIsClean
PROPERTIES RequestEnds TickEnds StopReturns
CHECK_DEADLOCK FALSE
