\* Two run-fixed processes with their own caps, one helper.
SPECIFICATION Spec
CONSTANTS
  r1 = r1
  r2 = r2
  Runs = {r1, r2}
SYMMETRY MCSymmetry
INVARIANTS
  TypeOK
  AuditIsPath
  MeasuredAsLabelled
  ExitIsStock
