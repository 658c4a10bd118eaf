----------------------------- MODULE EditProfile -----------------------------
(***************************************************************************)
(* The page that edits one's own profile: EditProfilePage.swift and        *)
(* SelectProfilePicture.swift.                                             *)
(*                                                                         *)
(* Done asks whether the username is free, then commits the texts in one   *)
(* batch, then uploads each of the four pictures whose picker was opened.  *)
(* The page counts the pictures that are settled and dismisses itself when *)
(* the count is exactly four.  An overlay covers the whole page meanwhile; *)
(* any failure takes it off while the other requests go on.  Requests      *)
(* outlive their page: a page is followed after it has been left.          *)
(***************************************************************************)
EXTENDS Integers, Sequences, FiniteSets

CONSTANTS
  Users,
  Names,        \* usernames
  Slots,        \* ProfilePicUrl, Picture1, Picture2, Picture3
  Editors,      \* the users whose page is followed
  MaxVisits,    \* bound on the pages a user opens
  MaxPages,     \* bound on the pages that all users open
  MaxPicked,    \* bound on the pictures picked on all pages
  MaxSaves,     \* bound on taps on Done that pass the emoji check
  MaxFailures,  \* bound on requests that fail
  None

ASSUME EditProfileAssumption ==
  /\ Editors \subseteq Users
  /\ IsFiniteSet(Slots)
  /\ Cardinality(Slots) = 4
  /\ MaxVisits \in Nat
  /\ MaxPages \in Nat
  /\ MaxPicked \in Nat
  /\ MaxSaves \in Nat
  /\ MaxFailures \in Nat
  /\ None \notin Names

VARIABLES
  docs, outbox, \* see Firestore; the documents are <<user, username>>
  page,         \* per user and visit, an EditProfilePage
  covered,      \* per user, vSpinner is on the screen
  alert,        \* per user, the open page presents an alert
  calls,        \* the requests not answered yet
  overtaken,    \* history: see Overtaking
  saves, failures

vars == <<docs, outbox, page, covered, alert, calls, overtaken, saves, failures>>

INSTANCE Firestore WITH Clients <- Users

------------------------------------------------------------------------------
Visits == 1..MaxVisits

Pages == [
  status : {"unopened", "open", "left", "dismissed"},
  picked : SUBSET Slots,   \* profilepressed, pressed1..3; never reset
  count : 0..(4 * MaxSaves),
  stored : SUBSET Slots]   \* history: pictures saved since the page opened

Unopened == [status |-> "unopened", picked |-> {}, count |-> 0, stored |-> {}]

\* What a request remembers of the save it belongs to.
Tags == [user : Users, visit : Visits, save : 1..MaxSaves]

\* The requests of a save: the query for the typed username, the read of the
\* user's own, the change of Auth's display name, one upload per picture.  The
\* name None stands for an empty username, first name or surname.
Requests ==
  [kind : {"query"}, tag : Tags, name : Names \cup {None}]
    \cup [kind : {"own"}, tag : Tags, name : Names \cup {None}, free : BOOLEAN]
    \cup [kind : {"displayName"}, tag : Tags]
    \cup [kind : {"upload"}, tag : Tags, slot : Slots]

NoHandler == <<>>

Batches == [puts : SUBSET (Users \X Names), dels : SUBSET (Users \X Names),
            handler : Tags \cup {NoHandler}]

TypeOK ==
  /\ docs \in SUBSET (Users \X Names)
  /\ outbox \in [Users -> Seq(Batches)]
  /\ page \in [Editors -> [Visits -> Pages]]
  /\ covered \in [Editors -> BOOLEAN]
  /\ alert \in [Editors -> BOOLEAN]
  /\ calls \in SUBSET Requests
  /\ overtaken \in SUBSET (Users \X Names)
  /\ saves \in 0..MaxSaves
  /\ failures \in 0..MaxFailures

\* Every user has a name of their own.
Init ==
  /\ \E names \in [Users -> Names] :
       /\ \A a, b \in Users : names[a] = names[b] => a = b
       /\ docs = {<<a, names[a]>> : a \in Users}
  /\ outbox = [a \in Users |-> <<>>]
  /\ page = [u \in Editors |-> [v \in Visits |-> Unopened]]
  /\ covered = [u \in Editors |-> FALSE]
  /\ alert = [u \in Editors |-> FALSE]
  /\ calls = {}
  /\ overtaken = {}
  /\ saves = 0
  /\ failures = 0

Fail == failures < MaxFailures /\ failures' = failures + 1

------------------------------------------------------------------------------
(* What every handler uses *)

\* A page presents an alert when it is on the screen and presents none.
Alerted(u, v) ==
  alert' = [alert EXCEPT ![u] = @ \/ page[u][v].status = "open"]

showSpinner(u) == covered' = [covered EXCEPT ![u] = TRUE]

\* vSpinner is global: whichever page asks, the overlay on the screen goes.
removeSpinner(u) == covered' = [covered EXCEPT ![u] = FALSE]

\* Page v is ready to be dismissed in next, the new value of page.  A page
\* that presents an alert dismisses the alert instead.
Settle(u, v, next) ==
  IF next[u][v].count = 4
  THEN /\ removeSpinner(u)
       /\ page' = IF alert[u] \/ next[u][v].status # "open" THEN next
                  ELSE [next EXCEPT ![u][v].status = "dismissed"]
       /\ alert' = IF next[u][v].status # "open" THEN alert
                   ELSE [alert EXCEPT ![u] = FALSE]
  ELSE page' = next /\ UNCHANGED <<covered, alert>>

\* Nothing lies over page v.
Free(u, v) == page[u][v].status = "open" /\ ~ covered[u] /\ ~ alert[u]

------------------------------------------------------------------------------
(* The user *)

Opened == {w \in Editors \X Visits : page[w[1]][w[2]].status # "unopened"}

EditProfile(u) ==
  /\ Cardinality(Opened) < MaxPages
  /\ \A v \in Visits : page[u][v].status # "open"
  /\ \E v \in Visits :
       /\ \A w \in Visits : page[u][w].status = "unopened" <=> w >= v
       /\ page' = [page EXCEPT ![u][v].status = "open"]
  /\ UNCHANGED <<docs, outbox, covered, alert, calls, overtaken, saves, failures>>

Picked == {w \in Editors \X Visits \X Slots : w[3] \in page[w[1]][w[2]].picked}

\* The flag is set when the picker opens, whether or not a picture is chosen.
SelectImage(u, v) ==
  /\ Free(u, v)
  /\ Cardinality(Picked) < MaxPicked
  /\ \E slot \in Slots \ page[u][v].picked :
       page' = [page EXCEPT ![u][v].picked = @ \cup {slot}]
  /\ UNCHANGED <<docs, outbox, covered, alert, calls, overtaken, saves, failures>>

DismissEditProfile(u, v) ==
  /\ Free(u, v)
  /\ page' = [page EXCEPT ![u][v].status = "left"]
  /\ UNCHANGED <<docs, outbox, covered, alert, calls, overtaken, saves, failures>>

DismissAlert(u) ==
  /\ alert[u]
  /\ alert' = [alert EXCEPT ![u] = FALSE]
  /\ UNCHANGED <<docs, outbox, page, covered, calls, overtaken, saves, failures>>

\* Done, with flag emojis the page does not accept.
EmojiRejected(u, v) ==
  /\ Free(u, v)
  /\ alert' = [alert EXCEPT ![u] = TRUE]
  /\ UNCHANGED <<docs, outbox, page, covered, calls, overtaken, saves, failures>>

updateUserInfo(u, v) ==
  /\ Free(u, v)
  /\ saves < MaxSaves
  /\ saves' = saves + 1
  /\ showSpinner(u)
  /\ \E n \in Names \cup {None} :
       calls' = calls \cup
         {[kind |-> "query", name |-> n,
           tag |-> [user |-> u, visit |-> v, save |-> saves + 1]]}
  /\ UNCHANGED <<docs, outbox, page, alert, overtaken, failures>>

------------------------------------------------------------------------------
(* checkIfUsernameTaken *)

NameFree(u, n) == ~ \E a \in Users : n # None /\ Sees(u, <<a, n>>)

QueryAnswered(c) ==
  /\ c.kind = "query"
  /\ calls' = (calls \ {c}) \cup
       {[kind |-> "own", tag |-> c.tag, name |-> c.name,
         free |-> NameFree(c.tag.user, c.name)]}
  /\ UNCHANGED <<docs, outbox, page, covered, alert, overtaken, saves, failures>>

\* Mutant: takes every name for free.
Taken_Never(c) == FALSE

Taken(c) ==
  ~ c.free /\ ~ (c.name # None /\ Sees(c.tag.user, <<c.tag.user, c.name>>))

Rejected(c) ==
  /\ c.kind = "own"
  /\ c.name = None \/ Taken(c)
  /\ Alerted(c.tag.user, c.tag.visit)
  /\ removeSpinner(c.tag.user)
  /\ calls' = calls \ {c}
  /\ UNCHANGED <<docs, outbox, page, overtaken, saves, failures>>

\* The texts go out in one batch, the display name beside it.
CommitTexts(c) ==
  LET u == c.tag.user IN
  /\ c.kind = "own"
  /\ c.name # None
  /\ ~ Taken(c)
  /\ calls' = (calls \ {c}) \cup {[kind |-> "displayName", tag |-> c.tag]}
  /\ Enqueue(u, [puts |-> {<<u, c.name>>},
                 dels |-> {<<u, n>> : n \in Names \ {c.name}},
                 handler |-> c.tag])
  /\ UNCHANGED <<docs, page, covered, alert, overtaken, saves, failures>>

DisplayNameSet(c) ==
  /\ c.kind = "displayName"
  /\ calls' = calls \ {c}
  /\ UNCHANGED <<docs, outbox, page, covered, alert, overtaken, saves, failures>>

DisplayNameFailed(c) ==
  /\ c.kind = "displayName"
  /\ Fail
  /\ calls' = calls \ {c}
  /\ removeSpinner(c.tag.user)
  /\ UNCHANGED <<docs, outbox, page, alert, overtaken, saves>>

------------------------------------------------------------------------------
(* The pictures *)

\* User x has been told that name n is free, and has still to write it.
Passed(x, n) ==
  \/ \E c \in calls : c.kind = "own" /\ c.free /\ c.tag.user = x /\ c.name = n
  \/ \E i \in DOMAIN outbox[x] : <<x, n>> \in outbox[x][i].puts

\* The users whose check the name that u's oldest batch writes comes too late
\* for.
Overtaking(u) ==
  {w \in Users \X Names :
     w[1] # u /\ <<u, w[2]>> \in Head(outbox[u]).puts /\ Passed(w[1], w[2])}

\* Mutant: counts a picture before it is uploaded.
Counted_AtOnce(p) == 4

\* The pictures that need no upload count as settled at once.
Counted(p) == Cardinality(Slots \ p.picked)

BatchCommitted(u) ==
  /\ Commit(u)
  /\ overtaken' = overtaken \cup Overtaking(u)
  /\ LET tag == Head(outbox[u]).handler IN
     IF tag = NoHandler
     THEN UNCHANGED <<page, covered, alert, calls>>
     ELSE /\ calls' = calls \cup [kind : {"upload"}, tag : {tag},
                                  slot : page[u][tag.visit].picked]
          /\ Settle(u, tag.visit,
                    [page EXCEPT ![u][tag.visit].count = @ + Counted(page[u][tag.visit])])
  /\ UNCHANGED <<saves, failures>>

BatchRefused(u) ==
  /\ Refuse(u)
  /\ Fail
  /\ LET tag == Head(outbox[u]).handler IN
     IF tag = NoHandler
     THEN UNCHANGED <<covered, alert>>
     ELSE /\ removeSpinner(u)
          /\ Alerted(u, tag.visit)
  /\ UNCHANGED <<page, calls, overtaken, saves>>

\* Mutant: the last picture does not settle the page.
uploadData_NoSettle(c) ==
  LET u == c.tag.user  v == c.tag.visit IN
  /\ c.kind = "upload"
  /\ calls' = calls \ {c}
  /\ page' = [page EXCEPT ![u][v].count = @ + 1,
                          ![u][v].stored = @ \cup {c.slot}]
  /\ UNCHANGED <<docs, outbox, covered, alert, overtaken, saves, failures>>

\* The picture is in Storage and its URL in the user's document.
uploadData(c) ==
  LET u == c.tag.user  v == c.tag.visit IN
  /\ c.kind = "upload"
  /\ calls' = calls \ {c}
  /\ Settle(u, v, [page EXCEPT ![u][v].count = @ + 1,
                               ![u][v].stored = @ \cup {c.slot}])
  /\ UNCHANGED <<docs, outbox, overtaken, saves, failures>>

\* Mutant: takes a failed picture back from the count.
UploadFailed_Uncounts(c) ==
  LET u == c.tag.user  v == c.tag.visit IN
  /\ c.kind = "upload"
  /\ Fail
  /\ calls' = calls \ {c}
  /\ removeSpinner(u)
  /\ page' = [page EXCEPT ![u][v].count = @ - 1]
  /\ UNCHANGED <<docs, outbox, alert, overtaken, saves>>

\* No data, or Storage fails; then the write of the URL fails.
UploadFailed(c) ==
  LET u == c.tag.user  v == c.tag.visit IN
  /\ c.kind = "upload"
  /\ Fail
  /\ calls' = calls \ {c}
  /\ removeSpinner(u)
  /\ Alerted(u, v) \/ UNCHANGED alert
  /\ UNCHANGED <<docs, outbox, page, overtaken, saves>>

\* The app ends, or a failed query unwraps nil, and is started again.
Relaunch(u) ==
  /\ \E v \in Visits : page[u][v].status = "open"
  /\ page' = [page EXCEPT ![u] = [v \in Visits |->
                 IF @[v].status = "open" THEN [@[v] EXCEPT !.status = "left"] ELSE @[v]]]
  /\ covered' = [covered EXCEPT ![u] = FALSE]
  /\ alert' = [alert EXCEPT ![u] = FALSE]
  /\ calls' = {c \in calls : c.tag.user # u}
  /\ outbox' = [outbox EXCEPT ![u] =
                  [i \in DOMAIN @ |-> [@[i] EXCEPT !.handler = NoHandler]]]
  /\ UNCHANGED <<docs, overtaken, saves, failures>>

------------------------------------------------------------------------------
Tap ==
  \E u \in Editors :
    \/ EditProfile(u)
    \/ DismissAlert(u)
    \/ Relaunch(u)
    \/ \E v \in Visits :
         \/ SelectImage(u, v)
         \/ DismissEditProfile(u, v)
         \/ EmojiRejected(u, v)
         \/ updateUserInfo(u, v)

Answer(c) ==
  \/ QueryAnswered(c)
  \/ Rejected(c)
  \/ CommitTexts(c)
  \/ DisplayNameSet(c)
  \/ DisplayNameFailed(c)
  \/ uploadData(c)
  \/ UploadFailed(c)

\* The bound on visits is reached and every request has been answered.
Done ==
  /\ calls = {}
  /\ \A u \in Editors : outbox[u] = <<>> /\ (covered[u] \/ page[u][MaxVisits].status # "open")
  /\ UNCHANGED vars

Next ==
  \/ Tap
  \/ \E c \in calls : Answer(c)
  \/ \E u \in Editors : BatchCommitted(u) \/ BatchRefused(u)
  \/ Done

Spec == Init /\ [][Next]_vars

\* Every request is answered.
Fairness ==
  /\ \A u \in Editors : WF_vars(BatchCommitted(u))
  /\ WF_vars(\E c \in calls : Answer(c))

FairSpec == Spec /\ Fairness

------------------------------------------------------------------------------
(* Properties *)

\* The check of a username and its write are apart, so "This username has been
\* taken" (EditProfilePage.swift:437) can come too late; but it is the only way
\* for two users to end up with one name: one of them had passed the check
\* before the other's name arrived.
SharedOnlyIfOvertaken ==
  \A a, b \in Users, n \in Names :
    a # b /\ {<<a, n>>, <<b, n>>} \subseteq docs =>
      {<<a, n>>, <<b, n>>} \cap overtaken # {}

\* As long as no request has failed, a page dismisses itself only when every
\* picture whose picker was opened has been saved, in whatever order the
\* requests of this page and of the pages before it are answered.
DismissedSaved ==
  \A u \in Editors, v \in Visits :
    failures = 0 /\ page[u][v].status = "dismissed" =>
      page[u][v].picked \subseteq page[u][v].stored

Answered(u) ==
  /\ \A c \in calls : c.tag.user # u
  /\ \A i \in DOMAIN outbox[u] : outbox[u][i].handler = NoHandler

\* Whatever failed, was retried or belonged to an earlier page: the overlay is
\* left behind only by a page whose count has jumped past four.
StuckOnlyPastFour ==
  \A u \in Editors : Answered(u) /\ covered[u] =>
    \E v \in Visits : page[u][v].status = "open" /\ page[u][v].count > 4

\* A picture of the save has failed, every request is answered, and an alert
\* is up.
FellShort(u, v) ==
  /\ page[u][v].status = "open"
  /\ page[u][v].count \in 1..3
  /\ alert[u]
  /\ Answered(u)

\* "Something Went Wrong", "Try again Later" (SelectProfilePicture.swift:73), says
\* the page when a picture fails: every overlay that a save lays over it from
\* then on goes away again.
TryingAgainEnds ==
  \A u \in Editors, v \in Visits :
    [](FellShort(u, v) => [](covered[u] => <> ~ covered[u]))
==============================================================================
