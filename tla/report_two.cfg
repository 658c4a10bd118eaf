SPECIFICATION Spec
CONSTANTS
  ann = ann
  bob = bob
  cat = cat
  dan = dan
  Users = {ann, bob, cat, dan}
  Reporters = {ann, bob}
  Reported = {cat}
  MaxReports = 5
  MaxFailures = 2
INVARIANTS TypeOK ReasonsKept CountBounded CountExact
