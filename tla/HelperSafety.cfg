\* One daemon, two clients, every fault.
SPECIFICATION Spec
CONSTANTS
  c1 = c1
  c2 = c2
  p0 = p0
  Clients = {c1, c2}
  Policies <- MCPolicies
  Modes = {"active", "passive"}
  Governors = {"powersave", "performance"}
  DefaultGov = "powersave"
  MinFreq = 1
  BaseFreq = 2
  MaxFreq = 3
  Requests <- MCRequests
  InitialHw <- MCInitialHw
  Refusals <- MCRefusals
SYMMETRY MCSymmetry
PROPERTY ImplementsLease
INVARIANTS
  TypeOK
  OriginalHeld
  RecoveryFileHeld
  NoSessionNoChange
  RestoreAnswerTrue
