SPECIFICATION Spec
CONSTANTS
  ann = ann
  bob = bob
  cat = cat
  None = None
  Users = {ann, bob, cat}
  Talks <- BothToBob
  Readers = {bob}
  Chatting <- BothChatting
  MaxSends = 2
  MaxUploads = 1
  MaxVisits = 3
  MaxFailures = 1
INVARIANTS TypeOK LatestInLog LogsAgree InboxHonest
SYMMETRY Senders
