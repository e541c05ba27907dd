CONSTANTS
  c1 = c1
  c2 = c2
  c3 = c3
  Calls <- ThreeThreads
  Size = 2
  MaxCalls = 3
  MaxResets = 1
SPECIFICATION Spec
INVARIANTS EntryWhole ReturnOfOwnCall RingDense
SYMMETRY ThreadSymmetry
CHECK_DEADLOCK FALSE
