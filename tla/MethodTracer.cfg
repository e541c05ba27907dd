SPECIFICATION FairSpec
CONSTANTS
  m1 = m1
  m2 = m2
  c1 = c1
  c2 = c2
  Methods <- TwoMethods
  Calls <- TwoCalls
  Tiny <- TinyMethod
  Inlined <- TwoMethods
  MaxSessions = 2
  CountMask = 2
  MaxPatches = 2
INVARIANTS TypeOK StubOutlivesCall FlightCountExact ResetQuiescent ActiveIsArmed StoppedIsReclaimable
PROPERTIES HookOutlivesCall ControlReturns ShutdownEnds
CHECK_DEADLOCK FALSE
