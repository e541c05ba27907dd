CONSTANTS
  m1 = m1
  m2 = m2
  c1 = c1
  c2 = c2
  Methods <- OneMethod
  Calls <- TwoCalls
  Tiny <- OneMethod
  Inlined <- OneMethod
  MaxSessions = 1
  CountMask = 2
  MaxPatches = 2
SPECIFICATION Spec
INVARIANTS FlightCountExact
CHECK_DEADLOCK FALSE
