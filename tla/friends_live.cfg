SPECIFICATION FairSpec
CONSTANTS
  ann = ann
  bob = bob
  cat = cat
  None = None
  Users = {ann, bob}
  Visits <- SelfToo
  Hosts = {bob}
  MaxWrites = 2
  MaxFailures = 1
  MaxVisits = 3
  MaxQueries = 2
PROPERTIES TitleConverges RequestSurfaces
