\* One process on its own: the plain successful run.
SPECIFICATION Spec
CONSTANTS
  r1 = r1
  r2 = r2
  Runs = {r1}
INVARIANT CompletionRestores
