SPECIFICATION Spec
CONSTANTS
  MaxRange = 64
  Ceiling = 20
  Idle = 4
  Busy = 16
  Onset = 2
  Grace = 1
  Window = 2
  Handlers = {h1, h2}
  Starts = {0, 60}
  Setups <- MCSetups
  Horizon = 9
SYMMETRY Symmetry
CHECK_DEADLOCK FALSE
INVARIANTS
  TypeOK
  SegmentIsTrue
  BurstIsReal
  KnownPowerCalibrates
  LedgerIsConsented
  ReceiptsAddUp
