\* The restore command after a crash of the daemon.
SPECIFICATION Spec
CONSTANTS
  c1 = c1
  c2 = c2
  p0 = p0
  Clients = {c1}
  Policies <- MCPolicies
  Modes = {"active", "passive"}
  Governors = {"powersave", "performance"}
  DefaultGov = "powersave"
  MinFreq = 1
  BaseFreq = 2
  MaxFreq = 3
  Requests <- FewRequests
  InitialHw <- MCInitialHw
  Refusals <- MCRefusals
INVARIANT
  RestoreRecovers
