SPECIFICATION Spec
CONSTANTS
  ann = ann
  bob = bob
  n1 = n1
  n2 = n2
  n3 = n3
  None = None
  p0 = p0
  p1 = p1
  p2 = p2
  p3 = p3
  Slots = {p0, p1, p2, p3}
  Users = {ann, bob}
  Names = {n1, n2, n3}
  Editors = {ann, bob}
  MaxVisits = 2
  MaxPages = 2
  MaxPicked = 4
  MaxSaves = 2
  MaxFailures = 1
INVARIANTS TypeOK SharedOnlyIfOvertaken DismissedSaved StuckOnlyPastFour
SYMMETRY Alike
