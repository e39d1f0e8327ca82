\* One experiment: its sweep, its validation, one request at a time.
SPECIFICATION Spec
CONSTANTS
  e1 = e1
  h1 = h1
  h2 = h2
  Experiments = {e1}
  Slots = {h1}
  Points = 2
  Pairs = 1
CONSTRAINTS
  NoFailureYet
  ValidatesKnown
INVARIANTS
  TypeOK
  QuietIsStock
PROPERTY
  OneRunAfterCancel
