SPECIFICATION Spec
CONSTANTS
  Ids <- MCIds
  Rank <- MCRank
  Setups <- MCSetups
  Outcomes <- MCOutcomes
  Goals <- MCGoals
  Margins = {0, 50}
  Deadlines = {2, 4, 8}
  Targets = {25, 50}
  MaxAsks = 2
  MaxTurns = 2
  MaxRuns = 3
CHECK_DEADLOCK FALSE
INVARIANTS
  TypeOK
  OneAnswer
  PairIsSelected
  TighterCostsMore
  FloorDecides
  MatchLosesNothing
