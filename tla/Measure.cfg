SPECIFICATION MSpec
CONSTANTS
  c1 = c1
  c2 = c2
  Clients = {c1, c2}
  MaxRange = 8
  Ceiling = 3
  Powers = {3}
  Starts = {4}
  Sources = {"counter", "synthetic"}
  Long = 2
  Asks <- CapOnly
  Timeout = 3
SYMMETRY Symmetry
CHECK_DEADLOCK FALSE
INVARIANTS
  LabelHolds
  SettingsComeBack
  EnergyIsDrawn
