SPECIFICATION Spec
CONSTANTS
  fast = fast
  eco = eco
  r1 = r1
  Layout <- MCLayout
  Caps = 2
  Reps = 1
  Stops = {r1}
  MaxSweeps = 2
CONSTRAINTS
  NoFailureYet
  OthersFirst
  SecondIsBrief
CHECK_DEADLOCK FALSE
INVARIANTS
  QuietIsStock
  OneSweep
  OneRunAfterStop
  CompleteIsFull
  RunsAsSwept
