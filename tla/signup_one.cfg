SPECIFICATION Spec
CONSTANTS
  ann = ann
  bob = bob
  n1 = n1
  n2 = n2
  x1 = x1
  x2 = x2
  c1 = c1
  Pending = Pending
  Total = Total
  Admin = Admin
  None = None
  Users = {ann, bob}
  Signers = {ann}
  Names = {n1, n2}
  Universities = {x1, x2}
  Courses = {c1, Pending}
  MaxConfirms = 2
  MaxWrites = 6
  MaxEvents = 1
SYMMETRY Alike
CHECK_DEADLOCK FALSE
INVARIANTS TypeOK Backed ListedAreMembers ListedAreNamed NamesUnique FinishedListed OverlaysEnd
