SPECIFICATION Spec
CONSTANTS
  ann = ann
  bob = bob
  cat = cat
  None = None
  Users = {ann, bob}
  Visits <- OneAsks
  Hosts = {bob}
  MaxWrites = 3
  MaxFailures = 0
  MaxVisits = 3
  MaxQueries = 1
INVARIANT AddFriendOffered
