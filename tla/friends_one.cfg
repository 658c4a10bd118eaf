SPECIFICATION Spec
CONSTANTS
  ann = ann
  bob = bob
  cat = cat
  None = None
  Users = {ann, bob}
  Visits <- OneAsks
  Hosts = {bob}
  MaxWrites = 3
  MaxFailures = 1
  MaxVisits = 4
  MaxQueries = 1
INVARIANTS TypeOK FriendshipWasAsked SpinnerOnScreen TitleHonest
PROPERTY ImplementsFriendship
