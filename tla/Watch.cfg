SPECIFICATION Spec
CONSTANTS
  h1 = h1
  MaxServices = 2
  MaxPollers = 2
  Handlers = {h1}
  Once = {1}
CHECK_DEADLOCK FALSE
INVARIANTS
  Guarded
  DisarmedIsNotRenewed
CONSTRAINT NotCrossedYet
