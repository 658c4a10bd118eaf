SPECIFICATION Spec
CONSTANTS
  ann = ann
  bob = bob
  cat = cat
  None = None
  Users = {ann, bob}
  Talks <- AnnWrites
  Readers = {ann}
  Chatting <- NobodyChatting
  MaxSends = 1
  MaxUploads = 1
  MaxVisits = 4
  MaxFailures = 0
INVARIANT EmptyListShown
