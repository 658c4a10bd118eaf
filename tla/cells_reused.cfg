SPECIFICATION Spec
CONSTANTS
  r1 = r1
  r2 = r2
  k1 = k1
  k2 = k2
  Rows = {r1, r2}
  Cells = {k1, k2}
  MaxWrites = 2
  MaxVisits = 2
  None = None
CHECK_DEADLOCK FALSE
SYMMETRY Alike
INVARIANTS TypeOK PreviewHonest OffAfterDeletion
