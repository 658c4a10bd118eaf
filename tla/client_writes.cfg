SPECIFICATION FairSpec
CONSTANTS
  Users = {u1, u2}
  NoUser = NoUser
  MaxPending = 2
  MaxWrites = 3
  MaxEvents = 2
CHECK_DEADLOCK FALSE
INVARIANTS
  TypeOK PipelineIsPrefix AnswersMatch InCallersName ToldIsSeen
  LastWriteStands AssertionsHold
PROPERTIES KeepsPromise WritesSettle
