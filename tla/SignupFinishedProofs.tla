------------------------ MODULE SignupFinishedProofs ------------------------
(***************************************************************************)
(* A proof about the sign-ups of Signup that go straight through: nothing  *)
(* failed, no page was left and no name confirmed again while a request    *)
(* was under way, and the developers changed no course.  Such a sign-up    *)
(* has one request under way at a time, under an overlay, and then neither *)
(* the page nor the profile can change: so the listing, made from the page *)
(* the user sees, names what the profile says when it arrives.             *)
(***************************************************************************)
EXTENDS SignupProofs

\* A signer's batches write the signer's own profile and listings.
Own(v, b) ==
  \A u \in Users \ {v} :
    /\ \A field \in Fields : \A x \in Options(field) :
         Profile(u, field, x) \notin b.puts \cup b.dels
    /\ \A x \in Universities, c \in Courses \cup {Total} :
         Listing(x, c, u) \notin b.puts \cup b.dels

OwnQueues == \A v \in Signers : \A i \in DOMAIN outbox[v] : Own(v, outbox[v][i])

\* The account is asked for on its page; leaving that abandons it.
AskedInv == \A u \in Signers : account[u] = "asked" => screen[u] = "email"

Unchanged == changes = 0 => outbox[Admin] = <<>>

Straight(u) == failures = 0 /\ changes = 0 /\ slips[u] \cap {"left", "again"} = {}

Confirms(u) == {c \in CallsOf(u) : c.kind # "createUser"}

\* No request is under way; the names are being confirmed; a batch is under way
\* that will be answered on the view the user sees.
Resting(u) == Confirms(u) = {} /\ outbox[u] = <<>>

Asking(u) ==
  /\ OnNames(u) /\ over[u] = Nothing /\ Covered(u)
  /\ outbox[u] = <<>>
  /\ \E c : Confirms(u) = {c}

Fits(u, h) ==
  /\ h # NoHandler /\ h.on = Shown(u) /\ Covered(u) /\ screen[u] = "names"
  /\ \/ h.by = "confirm" /\ pages[u] = <<>> /\ over[u] = Nothing
     \/ h.by = "choice" /\ over[u].kind = "sheet" /\ over[u].choice # 0
     \/ h.by = "listing" /\ OnPage(u) /\ over[u] = Nothing

Writing(u) ==
  /\ Confirms(u) = {}
  /\ Len(outbox[u]) = 1
  /\ Fits(u, Head(outbox[u]).handler)

\* The documents when the batch under way will have been applied.
After(u) ==
  IF outbox[u] = <<>> THEN docs
  ELSE (docs \ Head(outbox[u]).dels) \cup Head(outbox[u]).puts

\* The profile has no other university or course than the page.
Shows(u, field, y) ==
  y # None => \A x \in Options(field) : Profile(u, field, x) \in After(u) => x = y

Truthful(u) ==
  OnPage(u) =>
    /\ Len(pages[u]) = 1
    /\ over[u].kind = "sheet" => over[u].page = pages[u][1].id
    /\ Shows(u, "University", pages[u][1].University)
    /\ Shows(u, "Course", pages[u][1].Course)

Complete(u) ==
  \A x \in Universities, c \in Courses :
    {Profile(u, "University", x), Profile(u, "Course", c)} \subseteq docs =>
      {Listing(x, Total, u), Listing(x, c, u)} \subseteq docs

\* The listing under way is the one of the page.
ListingSent(u) ==
  /\ Writing(u) /\ Head(outbox[u]).handler.by = "listing"
  /\ None \notin {pages[u][1].University, pages[u][1].Course}
  /\ Head(outbox[u]).puts = Entries(u, pages[u][1])

OnCourse(u) ==
  /\ Resting(u) \/ Asking(u) \/ Writing(u)
  /\ Truthful(u)
  /\ count[u].listings > 0 =>
       (screen[u] = "home" /\ Resting(u) /\ Complete(u)) \/ ListingSent(u)

CommonInv == OwnQueues /\ AskedInv /\ Unchanged

StraightInv == CommonInv /\ \A u \in Signers : Straight(u) => OnCourse(u)

------------------------------------------------------------------------------
(* What all sign-ups have in common *)

LEMMA OwnCopied ==
  ASSUME OwnQueues, \A v \in Signers : Copies(outbox[v], outbox'[v])
  PROVE  OwnQueues'
<1>. SUFFICES ASSUME NEW v \in Signers, NEW i \in DOMAIN outbox'[v]
     PROVE  Own(v, outbox'[v][i])
  BY DEF OwnQueues, Own
<1>1. PICK j \in DOMAIN outbox[v] :
        outbox'[v][i].puts = outbox[v][j].puts /\ outbox'[v][i].dels = outbox[v][j].dels
  BY DEF Copies
<1>2. Own(v, outbox[v][j])
  BY DEF OwnQueues
<1>. QED  BY <1>1, <1>2 DEF Own

LEMMA OwnAppended ==
  ASSUME Queues, OwnQueues, NEW s \in Clients, NEW b \in SafeBatches, Enqueue(s, b),
         s \in Signers => Own(s, b)
  PROVE  OwnQueues'
<1>1. outbox[s] \in Seq(SafeBatches) /\
      \A v \in Clients : outbox'[v] = IF v = s THEN Append(outbox[s], b) ELSE outbox[v]
  BY DEF Queues, Enqueue
<1>2. \A i \in DOMAIN Append(outbox[s], b) :
        \/ i \in DOMAIN outbox[s] /\ Append(outbox[s], b)[i] = outbox[s][i]
        \/ Append(outbox[s], b)[i] = b
  BY <1>1, LenProperties
<1>3. ASSUME NEW v \in Signers, NEW i \in DOMAIN outbox'[v]
      PROVE  Own(v, outbox'[v][i])
  <2>0. v \in Clients
    BY DEF Clients
  <2>1. CASE v = s
    BY <1>1, <1>2, <1>3, <2>0, <2>1 DEF OwnQueues
  <2>2. CASE v # s
    BY <1>1, <1>3, <2>0, <2>2 DEF OwnQueues
  <2>. QED  BY <2>1, <2>2
<1>. QED  BY <1>3 DEF OwnQueues, Own

\* What the code writes, once more.
LEMMA OwnBatches ==
  ASSUME NEW u \in Signers
  PROVE  /\ \A field \in Fields : \A x, n : Own(u, Choice(u, field, x, n))
         /\ \A page, handler : Own(u, [puts |-> Entries(u, page), dels |-> {}, handler |-> handler])
         /\ \A name, handler : Own(u, [puts |-> {Username(u, m) : m \in {name} \cap Names},
                                       dels |-> {Username(u, m) : m \in Names \ {name}},
                                       handler |-> handler])
<1>0. u \in Users
  BY SignupAssumption
<1>1. ASSUME NEW field \in Fields, NEW x, NEW n PROVE Own(u, Choice(u, field, x, n))
  <2>1. \A v \in Users \ {u} : \A f \in Fields : \A y, z :
          Profile(v, f, y) # Profile(u, field, z) /\ Profile(v, f, y) # Member(field, z, u)
    BY <1>0, Kinds
  <2>2. \A v \in Users : \A y, c, z :
          Listing(y, c, v) # Profile(u, field, z) /\ Listing(y, c, v) # Member(field, z, u)
    BY <1>0, Kinds
  <2>. QED  BY <2>1, <2>2 DEF Own, Choice
<1>2. ASSUME NEW page, NEW handler
      PROVE  Own(u, [puts |-> Entries(u, page), dels |-> {}, handler |-> handler])
  <2>1. \A v \in Users : \A f \in Fields : \A y, z, c : Profile(v, f, y) # Listing(z, c, u)
    BY <1>0, Kinds
  <2>2. \A v \in Users \ {u} : \A y, c, z, d : Listing(y, c, v) # Listing(z, d, u)
    BY DEF Listing
  <2>. QED  BY <2>1, <2>2 DEF Own, Entries
<1>3. ASSUME NEW name, NEW handler
      PROVE  Own(u, [puts |-> {Username(u, m) : m \in {name} \cap Names},
                     dels |-> {Username(u, m) : m \in Names \ {name}},
                     handler |-> handler])
  <2>1. \A v \in Users : \A f \in Fields : \A y, m : Profile(v, f, y) # Username(u, m)
    BY <1>0, Kinds
  <2>2. \A v \in Users : \A y, c, m : Listing(y, c, v) # Username(u, m)
    BY DEF Listing, Username
  <2>. QED  BY <2>1, <2>2 DEF Own
<1>. QED  BY <1>1, <1>2, <1>3

LEMMA TapCommon ==
  ASSUME TypeInv, CommonInv, NEW u \in Signers, Tap(u)
  PROVE  CommonInv'
<1>0. u \in Clients /\ Admin \in Clients /\ u # Admin /\ Types /\ Queues
  BY SignupAssumption DEF Clients, TypeInv
<1>1. OwnQueues' /\ outbox'[Admin] = outbox[Admin]
  <2>1. CASE didSelectRow(u)
    <3>. DEFINE n == count[u].choices + 1
                field == over[u].field
    <3>1. over[u].kind = "sheet" /\ MayWrite(u)
      BY <2>1 DEF didSelectRow
    <3>2. PICK x \in Options(field) : Enqueue(u, Choice(u, field, x, n))
      BY <2>1 DEF didSelectRow
    <3>3. field \in Fields
      BY <1>0, <3>1, SheetShape
    <3>4. n \in 1..MaxWrites
      <4>1. count[u] \in Counts
        BY <1>0 DEF Types, Counts
      <4>. QED  BY <3>1, <4>1, SignupAssumption DEF MayWrite, Counts
    <3>5. Choice(u, field, x, n) \in SafeBatches /\ Own(u, Choice(u, field, x, n))
      BY <3>3, <3>4, ChoiceBatch, OwnBatches
    <3>. QED  BY <1>0, <3>2, <3>5, OwnAppended, QueueElsewhere DEF CommonInv
  <2>2. CASE nextPage(u)
    <3>. DEFINE n == count[u].listings + 1
                page == Last(pages[u])
                b == [puts |-> Entries(u, page), dels |-> {},
                      handler |-> [by |-> "listing", n |-> n, on |-> PageView(page.id)]]
    <3>1. OnPage(u) /\ MayWrite(u) /\ None \notin {page.University, page.Course} /\ Enqueue(u, b)
      BY <2>2 DEF nextPage
    <3>2. n \in 1..MaxWrites
      <4>1. count[u] \in Counts
        BY <1>0 DEF Types, Counts
      <4>. QED  BY <3>1, <4>1, SignupAssumption DEF MayWrite, Counts
    <3>3. page \in Pages
      BY <1>0, <3>1, TopPage
    <3>4. b \in SafeBatches /\ Own(u, b)
      BY <3>1, <3>2, <3>3, ListingBatch, OwnBatches
    <3>. HIDE DEF b
    <3>. QED  BY <1>0, <3>1, <3>4, OwnAppended, QueueElsewhere DEF CommonInv
  <2>3. CASE UNCHANGED outbox
    BY <2>3 DEF CommonInv, OwnQueues, Own
  <2>4. didSelectRow(u) \/ nextPage(u) \/ UNCHANGED outbox
    BY DEF Tap, SignUp, confirmEmailPassword, Type, ConfirmNames, ShowSheet, Incomplete, Back,
           Dismiss
  <2>. QED  BY <2>1, <2>2, <2>3, <2>4
<1>2. changes' = changes
  BY DEF Tap, SignUp, confirmEmailPassword, Type, ConfirmNames, ShowSheet, didSelectRow,
         Incomplete, nextPage, Back, Dismiss
<1>3. AskedInv'
  <2>. SUFFICES ASSUME NEW v \in Signers, account'[v] = "asked" PROVE screen'[v] = "email"
    BY DEF AskedInv
  <2>1. account[v] = "asked" => screen[v] = "email"
    BY DEF CommonInv, AskedInv
  <2>2. CASE SignUp(u)
    BY <1>0, <2>1, <2>2 DEF SignUp, Types
  <2>3. CASE confirmEmailPassword(u)
    BY <1>0, <2>1, <2>3 DEF confirmEmailPassword, Types
  <2>4. CASE Back(u)
    BY <1>0, <2>1, <2>4 DEF Back, Types
  <2>5. CASE UNCHANGED <<account, screen>>
    BY <2>1, <2>5
  <2>6. SignUp(u) \/ confirmEmailPassword(u) \/ Back(u) \/ UNCHANGED <<account, screen>>
    BY DEF Tap, Type, ConfirmNames, ShowSheet, didSelectRow, Incomplete, nextPage, Dismiss
  <2>. QED  BY <2>2, <2>3, <2>4, <2>5, <2>6
<1>. QED  BY <1>1, <1>2, <1>3 DEF CommonInv, Unchanged

LEMMA AnswerCommon ==
  ASSUME TypeInv, CommonInv, NEW c \in calls, Answer(c)
  PROVE  CommonInv'
<1>0. /\ c \in Requests /\ c.user \in Signers /\ c.user \in Clients
      /\ Admin \in Clients /\ c.user # Admin /\ Types /\ Queues
  <2>1. Types /\ Queues /\ c \in Requests
    BY DEF TypeInv, Types
  <2>2. c.user \in Signers
    BY <2>1, RequestShapes
  <2>. QED  BY <2>1, <2>2, SignupAssumption DEF Clients
<1>1. OwnQueues' /\ outbox'[Admin] = outbox[Admin]
  <2>1. CASE PicturesFetched(c)
    <3>. DEFINE b == [puts |-> {Username(c.user, m) : m \in {c.name} \cap Names},
                      dels |-> {Username(c.user, m) : m \in Names \ {c.name}},
                      handler |-> [by |-> "confirm", n |-> c.n, on |-> NamesView]]
    <3>1. Enqueue(c.user, b) /\ c.kind = "pictures"
      BY <2>1 DEF PicturesFetched
    <3>2. b \in SafeBatches
      BY <1>0, <3>1, RequestShapes, NamesBatch
    <3>3. Own(c.user, b)
      BY <1>0, OwnBatches
    <3>. HIDE DEF b
    <3>. QED  BY <1>0, <3>1, <3>2, <3>3, OwnAppended, QueueElsewhere DEF CommonInv
  <2>2. CASE UNCHANGED outbox
    BY <2>2 DEF CommonInv, OwnQueues, Own
  <2>3. PicturesFetched(c) \/ UNCHANGED outbox
    BY DEF Answer, UserCreated, UserRefused, NamesRejected, NamesAccepted, TokenFetched,
           NamesDropped
  <2>. QED  BY <2>1, <2>2, <2>3
<1>2. changes' = changes
  BY DEF Answer, UserCreated, UserRefused, NamesRejected, NamesAccepted, TokenFetched,
         NamesDropped, PicturesFetched
<1>3. AskedInv'
  <2>. SUFFICES ASSUME NEW v \in Signers, account'[v] = "asked" PROVE screen'[v] = "email"
    BY DEF AskedInv
  <2>1. account[v] = "asked" => screen[v] = "email"
    BY DEF CommonInv, AskedInv
  <2>2. CASE UserCreated(c)
    BY <1>0, <2>1, <2>2 DEF UserCreated, Types
  <2>3. CASE UserRefused(c)
    BY <1>0, <2>1, <2>3 DEF UserRefused, Types
  <2>4. CASE UNCHANGED <<account, screen>>
    BY <2>1, <2>4
  <2>5. UserCreated(c) \/ UserRefused(c) \/ UNCHANGED <<account, screen>>
    BY DEF Answer, NamesRejected, NamesAccepted, TokenFetched, NamesDropped, PicturesFetched
  <2>. QED  BY <2>2, <2>3, <2>4, <2>5
<1>. QED  BY <1>1, <1>2, <1>3 DEF CommonInv, Unchanged

LEMMA BatchCommon ==
  ASSUME TypeInv, OverlayInv, CommonInv, NEW u \in Signers,
         BatchCommitted(u) \/ BatchRefused(u) \/ Relaunch(u)
  PROVE  CommonInv'
<1>0. u \in Clients /\ Admin \in Clients /\ u # Admin /\ Types /\ Queues
  BY SignupAssumption DEF Clients, TypeInv
<1>1. OwnQueues'
  <2>1. \A v \in Clients : Copies(outbox[v], outbox'[v])
    BY <1>0, TailCopies, SilencedCopies DEF BatchCommitted, BatchRefused, Relaunch, Commit, Refuse
  <2>. QED  BY <2>1, OwnCopied DEF Clients, CommonInv
<1>2. outbox'[Admin] = outbox[Admin]
  BY <1>0 DEF BatchCommitted, BatchRefused, Relaunch, Commit, Refuse, Queues
<1>3. changes' = changes
  BY DEF BatchCommitted, BatchRefused, Relaunch
<1>4. AskedInv'
  <2>. SUFFICES ASSUME NEW v \in Signers, account'[v] = "asked" PROVE screen'[v] = "email"
    BY DEF AskedInv
  <2>0. account' = account
    BY DEF BatchCommitted, BatchRefused, Relaunch
  <2>1. screen[v] = "email"
    BY <2>0 DEF CommonInv, AskedInv
  <2>2. CASE UNCHANGED screen
    BY <2>1, <2>2
  <2>3. CASE Relaunch(u)
    BY <1>0, <2>0, <2>1, <2>3 DEF Relaunch, Types
  <2>4. CASE BatchCommitted(u) /\ Listed(u, Head(outbox[u]).handler.on)
    <3>1. CASE \A i \in DOMAIN pages[u] : PageView(pages[u][i].id) # Head(outbox[u]).handler.on
      BY <2>1, <2>4, <3>1 DEF Listed
    <3>2. ASSUME NEW i \in DOMAIN pages[u] PROVE screen'[v] = "email"
      <4>1. OnPage(u)
        BY <3>2, EmptySeq, LenProperties DEF OnPage
      <4>2. screen[u] = "names"
        BY <4>1 DEF OverlayInv, Stacked
      <4>3. u # v
        BY <2>1, <4>2
      <4>. QED  BY <1>0, <2>1, <2>4, <4>3 DEF Listed, Types
    <3>. QED  BY <3>1, <3>2
  <2>5. \/ UNCHANGED screen \/ Relaunch(u)
        \/ BatchCommitted(u) /\ Listed(u, Head(outbox[u]).handler.on)
    BY DEF BatchCommitted, BatchRefused, NamesStored, ChoiceStored
  <2>. QED  BY <2>2, <2>3, <2>4, <2>5
<1>. QED  BY <1>1, <1>2, <1>3, <1>4 DEF CommonInv, Unchanged

LEMMA CourseCommon ==
  ASSUME TypeInv, CommonInv,
         (\E u \in Signers : changeCourse(u)) \/ CourseChanged \/ CourseRefused
  PROVE  CommonInv' /\ changes' # 0
<1>0. Admin \in Clients /\ Admin \notin Signers /\ Types /\ Queues /\ changes \in Nat
  BY SignupAssumption DEF Clients, TypeInv, Types
<1>1. OwnQueues' /\ AskedInv'
  <2>1. ASSUME NEW v \in Signers PROVE outbox'[v] = outbox[v]
    BY CourseElsewhere DEF Untouched
  <2>2. UNCHANGED <<account, screen>>
    BY DEF changeCourse, CourseChanged, CourseRefused
  <2>. QED  BY <2>1, <2>2 DEF CommonInv, OwnQueues, Own, AskedInv
<1>2. changes' # 0
  BY <1>0 DEF changeCourse, CourseChanged, CourseRefused, Commit, Refuse, CommonInv, Unchanged
<1>. QED  BY <1>1, <1>2 DEF CommonInv, Unchanged

------------------------------------------------------------------------------
(* What others do *)

LEMMA StraightBefore ==
  ASSUME TypeInv, [Next]_vars, NEW u \in Signers, Straight(u)'
  PROVE  Straight(u) /\ failures' = failures /\ changes' = changes
         /\ "left" \notin slips'[u] /\ "again" \notin slips'[u]
<1>1. /\ failures \in Nat /\ (failures' = failures \/ failures' = failures + 1)
      /\ changes \in Nat /\ (changes' = changes \/ changes' = changes + 1)
      /\ slips[u] \subseteq slips'[u]
  BY HistoryGrows
<1>2. failures' = 0 /\ changes' = 0 /\ slips'[u] \cap {"left", "again"} = {}
  BY DEF Straight
<1>3. failures' = failures /\ changes' = changes
  BY <1>1, <1>2
<1>. QED  BY <1>1, <1>2, <1>3 DEF Straight

\* The server keeps what it has of the profile and the listings of u.
SameRecords(u) ==
  /\ \A field \in Fields : \A x \in Options(field) :
       Profile(u, field, x) \in docs' <=> Profile(u, field, x) \in docs
  /\ \A x \in Universities, c \in Courses \cup {Total} :
       Listing(x, c, u) \in docs' <=> Listing(x, c, u) \in docs

LEMMA OthersRecords ==
  ASSUME TypeInv, OwnQueues, NEW v \in Signers, Commit(v), NEW u \in Users, u # v
  PROVE  SameRecords(u)
<1>1. v \in Clients /\ outbox[v] \in Seq(SafeBatches) /\ outbox[v] # <<>>
  BY DEF Clients, TypeInv, Queues, Commit
<1>2. 1 \in DOMAIN outbox[v] /\ Head(outbox[v]) = outbox[v][1]
  BY <1>1, LenProperties, EmptySeq
<1>3. Own(v, Head(outbox[v]))
  BY <1>2 DEF OwnQueues
<1>. QED  BY <1>3 DEF Commit, Own, SameRecords

LEMMA SameAfter ==
  ASSUME NEW u \in Signers, SameRecords(u), outbox'[u] = outbox[u]
  PROVE  /\ \A field \in Fields : \A y : Shows(u, field, y) <=> Shows(u, field, y)'
         /\ Complete(u) => Complete(u)'
<1>1. \A field \in Fields : \A x \in Options(field) :
        Profile(u, field, x) \in After(u)' <=> Profile(u, field, x) \in After(u)
  BY DEF SameRecords, After
<1>2. \A field \in Fields : \A y : Shows(u, field, y) <=> Shows(u, field, y)'
  BY <1>1 DEF Shows
<1>3. Complete(u) => Complete(u)'
  <2>1. /\ "University" \in Fields /\ Options("University") = Universities
        /\ "Course" \in Fields /\ Options("Course") = Courses
    BY DEF Fields, Options
  <2>. QED  BY <2>1 DEF Complete, SameRecords
<1>. QED  BY <1>2, <1>3

\* The device of u stays as it is, but for the fields of the names.
LEMMA StillOnCourse ==
  ASSUME NEW u \in Signers, OnCourse(u),
         overlays'[u] = overlays[u], over'[u] = over[u], pages'[u] = pages[u],
         screen'[u] = screen[u], count'[u] = count[u], outbox'[u] = outbox[u],
         Confirms(u)' = Confirms(u), SameRecords(u)
  PROVE  OnCourse(u)'
<1>1. /\ OnNames(u)' = OnNames(u) /\ OnPage(u)' = OnPage(u)
      /\ Shown(u)' = Shown(u) /\ Covered(u)' = Covered(u)
  BY DEF OnNames, OnPage, Shown, Covered
<1>2. Resting(u)' = Resting(u) /\ Asking(u)' = Asking(u) /\ Writing(u)' = Writing(u)
  BY <1>1 DEF Resting, Asking, Writing, Fits
<1>3. Truthful(u)'
  <2>1. Truthful(u) /\ {"University", "Course"} = Fields
    BY DEF OnCourse, Fields
  <2>. QED  BY <1>1, <2>1, SameAfter DEF Truthful
<1>4. (Complete(u) => Complete(u)') /\ (ListingSent(u) => ListingSent(u)')
  BY <1>2, SameAfter DEF ListingSent
<1>. QED  BY <1>2, <1>3, <1>4 DEF OnCourse

\* Without a request under way: pages are kept or left, nothing is sent.
LEMMA RestedOnCourse ==
  ASSUME TypeInv, NEW u \in Signers, OnCourse(u), Resting(u), Resting(u)', UNCHANGED docs,
         count'[u].listings = count[u].listings, screen[u] = "home" => screen'[u] = "home",
         pages'[u] \in {pages[u], <<>>},
         over'[u].kind = "sheet" /\ pages'[u] # <<>> =>
           over'[u].page = IF over[u].kind = "sheet" THEN over[u].page ELSE Last(pages[u]).id
  PROVE  OnCourse(u)'
<1>1. Truthful(u) /\ outbox[u] = <<>> /\ outbox'[u] = <<>>
  BY DEF OnCourse, Resting
<1>2. SameRecords(u)
  BY DEF SameRecords
<1>3. Truthful(u)'
  <2>1. CASE pages'[u] = <<>>
    BY <2>1 DEF Truthful, OnPage
  <2>2. CASE pages'[u] = pages[u] /\ pages[u] # <<>>
    <3>1. /\ Len(pages[u]) = 1
          /\ over[u].kind = "sheet" => over[u].page = pages[u][1].id
          /\ Shows(u, "University", pages[u][1].University)
          /\ Shows(u, "Course", pages[u][1].Course)
      BY <1>1, <2>2 DEF Truthful, OnPage
    <3>2. Shows(u, "University", pages[u][1].University)' /\ Shows(u, "Course", pages[u][1].Course)'
      <4>1. {"University", "Course"} = Fields
        BY DEF Fields
      <4>. QED  BY <1>1, <1>2, <2>2, <3>1, <4>1, SameAfter
    <3>. QED  BY <2>2, <3>1, <3>2 DEF Truthful, Last
  <2>. QED  BY <2>1, <2>2
<1>4. count[u].listings > 0 => screen[u] = "home" /\ Complete(u)
  <2>1. ~ Writing(u)
    BY <1>1, EmptySeq DEF Writing
  <2>. QED  BY <2>1 DEF OnCourse, ListingSent
<1>5. Complete(u) => Complete(u)'
  BY <1>1, <1>2, SameAfter
<1>. QED  BY <1>3, <1>4, <1>5 DEF OnCourse

\* A request under way keeps everything else from happening.
LEMMA BusyOnCourse ==
  ASSUME TypeInv, NEW u \in Signers, OnCourse(u), ~ Resting(u)
  PROVE  /\ Busy(u) /\ Covered(u) /\ screen[u] = "names" /\ over[u] # Alert
         /\ over[u].kind = "sheet" => over[u].choice # 0
<1>1. CASE Asking(u)
  <2>1. Busy(u)
    BY <1>1 DEF Asking, Confirms, CallsOf, Busy
  <2>. QED  BY <1>1, <2>1 DEF Asking, OnNames, Nothing, Alert
<1>2. CASE Writing(u)
  <2>1. u \in Clients /\ outbox[u] \in Seq(SafeBatches)
    BY DEF Clients, TypeInv, Queues
  <2>2. 1 \in DOMAIN outbox[u] /\ Head(outbox[u]) = outbox[u][1]
    BY <1>2, <2>1, LenProperties DEF Writing
  <2>3. Busy(u)
    BY <1>2, <2>2 DEF Writing, Fits, Busy
  <2>. QED  BY <1>2, <2>3 DEF Writing, Fits, Nothing, Alert
<1>. QED  BY <1>1, <1>2 DEF OnCourse

------------------------------------------------------------------------------
(* What the user does *)

\* With nothing under way and no home page, nothing has been listed.
LEMMA NotListed ==
  ASSUME NEW u \in Signers, OnCourse(u), ~ Writing(u), screen[u] # "home"
  PROVE  ~ (count[u].listings > 0)
  BY DEF OnCourse, ListingSent

LEMMA RestingIsNotWriting ==
  ASSUME NEW u, Resting(u)
  PROVE  ~ Writing(u)
  BY EmptySeq DEF Resting, Writing

LEMMA ConfirmsAre ==
  ASSUME NEW u
  PROVE  /\ Confirms(u) = {c \in calls : c.user = u /\ c.kind # "createUser"}
         /\ Confirms(u)' = {c \in calls' : c.user = u /\ c.kind # "createUser"}
  BY DEF Confirms, CallsOf

LEMMA ConfirmNamesOnCourse ==
  ASSUME TypeInv, NEW u \in Signers, OnCourse(u), ConfirmNames(u), "again" \notin slips'[u]
  PROVE  OnCourse(u)'
<1>. DEFINE n == count[u].confirms + 1
            o == [by |-> "confirm", n |-> n, on |-> NamesView]
            c == [kind |-> "query", user |-> u, n |-> n, name |-> typed[u]]
<1>1. /\ OnNames(u) /\ over[u] = Nothing
      /\ count' = [count EXCEPT ![u].confirms = n]
      /\ showSpinner(u, o) /\ calls' = calls \cup {c}
      /\ Slip(u, "again", Confirming(u) \/ Covered(u))
      /\ UNCHANGED <<outbox, screen, pages, over>>
  BY DEF ConfirmNames
<1>2. ~ Covered(u)
  BY <1>1 DEF Slip, TypeInv, Types
<1>3. Resting(u)
  BY <1>2, BusyOnCourse
<1>4. c.user = u /\ c.kind # "createUser" /\ o.on = NamesView
  OBVIOUS
<1>5. o \in overlays'[u]
  BY <1>1 DEF showSpinner, TypeInv, Types
<1>6. count'[u].listings = count[u].listings
  <2>1. count \in [Signers -> Counts]
    BY DEF TypeInv, Types, Counts
  <2>. QED  BY <1>1, <2>1 DEF Counts
<1>. HIDE DEF o, c
<1>7. Confirms(u)' = {c}
  BY <1>1, <1>3, <1>4, ConfirmsAre DEF Resting
<1>8. Covered(u)'
  BY <1>1, <1>4, <1>5 DEF Covered, Shown, OnNames, OnPage, Nothing
<1>9. Asking(u)'
  BY <1>1, <1>3, <1>7, <1>8 DEF Asking, OnNames, Resting
<1>10. Truthful(u)'
  BY <1>1 DEF Truthful, OnPage, OnNames
<1>11. ~ (count[u].listings > 0)
  BY <1>1, <1>3, NotListed, RestingIsNotWriting DEF OnNames
<1>. QED  BY <1>6, <1>9, <1>10, <1>11 DEF OnCourse

\* One batch is queued by a user who rests.
LEMMA FirstBatch ==
  ASSUME TypeInv, NEW u \in Signers, outbox[u] = <<>>, NEW b \in SafeBatches, Enqueue(u, b)
  PROVE  /\ outbox'[u] = <<b>> /\ Len(outbox'[u]) = 1 /\ Head(outbox'[u]) = b
         /\ outbox'[u] # <<>>
<1>1. outbox'[u] = Append(<<>>, b)
  BY DEF Clients, TypeInv, Queues, Enqueue
<1>. QED  BY <1>1

LEMMA didSelectRowOnCourse ==
  ASSUME TypeInv, NEW u \in Signers, Stacked(u), OnCourse(u), didSelectRow(u)
  PROVE  OnCourse(u)'
<1>0. PICK n, field : n = count[u].choices + 1 /\ field = over[u].field
  OBVIOUS
<1>. DEFINE o == [by |-> "choice", n |-> n, on |-> SheetView(n)]
<1>1. /\ over[u].kind = "sheet" /\ over[u].choice = 0 /\ MayWrite(u)
      /\ count' = [count EXCEPT ![u].choices = n]
      /\ over' = [over EXCEPT ![u].choice = n]
      /\ showSpinner(u, o)
      /\ UNCHANGED <<docs, screen, calls>>
  BY <1>0 DEF didSelectRow
<1>2. PICK x \in Options(field) :
        /\ Enqueue(u, Choice(u, field, x, n))
        /\ pages' = [pages EXCEPT ![u] = Chosen(u, field, x, over[u].page)]
  BY <1>0 DEF didSelectRow, Chosen
<1>. DEFINE b == Choice(u, field, x, n)
<1>3. field \in Fields /\ u \in Users
  BY <1>0, <1>1, SheetShape, SignupAssumption DEF TypeInv
<1>4. n \in 1..MaxWrites
  <2>1. count[u] \in Counts
    BY DEF TypeInv, Types, Counts
  <2>. QED  BY <1>0, <1>1, <2>1, SignupAssumption DEF MayWrite, Counts
<1>5. b \in SafeBatches
  BY <1>3, <1>4, ChoiceBatch
<1>6. b.handler = o /\ o.on = SheetView(n) /\ o.by = "choice" /\ o # NoHandler
  BY HandlersThere DEF Choice
<1>7. Resting(u)
  BY <1>1, BusyOnCourse
<1>8. OnPage(u) /\ screen[u] = "names"
  BY <1>1 DEF Stacked
<1>9. /\ count'[u].listings = count[u].listings
      /\ over'[u] = [over[u] EXCEPT !.choice = n]
  <2>1. count \in [Signers -> Counts]
    BY DEF TypeInv, Types, Counts
  <2>. QED  BY <1>1, <2>1 DEF Counts, TypeInv, Types
<1>10. /\ over'[u].kind = "sheet" /\ over'[u].choice = n /\ over'[u].page = over[u].page
       /\ over'[u].choice # 0
  <2>1. over[u] \in [kind : {"sheet"}, field : Fields, choice : 0..MaxWrites, page : 1..MaxConfirms]
    BY <1>1 DEF TypeInv, Types, Presented, Nothing, Alert
  <2>. QED  BY <1>4, <1>9, <2>1
<1>11. o \in overlays'[u]
  BY <1>1 DEF showSpinner, TypeInv, Types
<1>12. \A f \in Fields : \A y \in Options(f) :
         /\ Profile(u, f, y) \in (docs \ b.dels) \cup b.puts /\ f = field => y = x
         /\ Profile(u, f, y) \in (docs \ b.dels) \cup b.puts /\ f # field =>
              Profile(u, f, y) \in docs
  <2>. SUFFICES ASSUME NEW f \in Fields, NEW y \in Options(f),
                       Profile(u, f, y) \in (docs \ b.dels) \cup b.puts
       PROVE  IF f = field THEN y = x ELSE Profile(u, f, y) \in docs
    OBVIOUS
  <2>1. Profile(u, f, y) # Member(field, x, u)
    BY <1>3, Kinds
  <2>2. Profile(u, f, y) = Profile(u, field, x) => f = field /\ y = x
    BY <1>3, Kinds
  <2>3. CASE f = field /\ y # x
    BY <2>1, <2>2, <2>3 DEF Choice
  <2>4. CASE f # field
    BY <2>1, <2>2, <2>4 DEF Choice
  <2>. QED  BY <2>3, <2>4
<1>. HIDE DEF b, o
<1>13. outbox'[u] = <<b>> /\ Len(outbox'[u]) = 1 /\ Head(outbox'[u]) = b /\ outbox'[u] # <<>>
  BY <1>2, <1>5, <1>7, FirstBatch DEF Resting, b
<1>14. Writing(u)'
  <2>1. Covered(u)' /\ o.on = Shown(u)'
    BY <1>6, <1>10, <1>11 DEF Covered, Shown
  <2>2. Fits(u, o)'
    BY <1>1, <1>6, <1>8, <1>10, <2>1 DEF Fits
  <2>3. Confirms(u)' = {}
    BY <1>1, <1>7, ConfirmsAre DEF Resting
  <2>. QED  BY <1>6, <1>13, <2>2, <2>3 DEF Writing
<1>15. Truthful(u)'
  <2>. DEFINE p == pages[u][1]
  <2>1. /\ Len(pages[u]) = 1 /\ over[u].page = p.id
        /\ Shows(u, "University", p.University) /\ Shows(u, "Course", p.Course)
    BY <1>1, <1>8 DEF OnCourse, Truthful
  <2>2. pages[u] \in Seq(Pages) /\ DOMAIN pages[u] = {1} /\ p \in Pages
    <3>1. pages[u] \in Seq(Pages)
      BY DEF TypeInv, Types
    <3>2. DOMAIN pages[u] = 1..Len(pages[u]) /\ 1..1 = {1}
      BY <3>1, LenProperties
    <3>. QED  BY <2>1, <3>1, <3>2, ElementOfSeq
  <2>3. pages'[u] = Chosen(u, field, x, over[u].page) /\ pages'[u] \in Seq(Pages)
    BY <1>2, <1>3, PagesChosen DEF TypeInv, Types
  <2>4. Len(pages'[u]) = 1 /\ pages'[u][1] = [p EXCEPT ![field] = x]
    <3>1. DOMAIN pages'[u] = {1} /\ pages'[u][1] = [p EXCEPT ![field] = x]
      BY <2>1, <2>2, <2>3 DEF Chosen
    <3>2. Len(pages'[u]) \in Nat /\ DOMAIN pages'[u] = 1..Len(pages'[u])
      BY <2>3, LenProperties
    <3>3. \A k \in Nat : 1..k = {1} => k = 1
      <4>1. \A k \in Nat : 1..k = {1} => 1 \in 1..k /\ 2 \notin 1..k
        OBVIOUS
      <4>. QED  BY <4>1
    <3>. QED  BY <3>1, <3>2, <3>3
  <2>5. After(u) = docs /\ After(u)' = (docs \ b.dels) \cup b.puts
    BY <1>1, <1>7, <1>13 DEF After, Resting
  <2>6. \A f \in Fields : \A y : f # field /\ Shows(u, f, y) => Shows(u, f, y)'
    BY <1>12, <2>5 DEF Shows
  <2>7. Shows(u, field, x)'
    BY <1>3, <1>12, <2>5 DEF Shows
  <2>8. CASE field = "University"
    <3>1. [p EXCEPT !.University = x] = [id |-> p.id, University |-> x, Course |-> p.Course]
      BY <2>2 DEF Pages
    <3>2. "Course" \in Fields /\ "Course" # field
      BY <2>8 DEF Fields
    <3>. QED  BY <1>10, <2>1, <2>4, <2>6, <2>7, <2>8, <3>1, <3>2 DEF Truthful
  <2>9. CASE field = "Course"
    <3>1. [p EXCEPT !.Course = x] = [id |-> p.id, University |-> p.University, Course |-> x]
      BY <2>2 DEF Pages
    <3>2. "University" \in Fields /\ "University" # field
      BY <2>9 DEF Fields
    <3>. QED  BY <1>10, <2>1, <2>4, <2>6, <2>7, <2>9, <3>1, <3>2 DEF Truthful
  <2>. QED  BY <1>3, <2>8, <2>9 DEF Fields
<1>16. ~ (count[u].listings > 0)
  BY <1>7, <1>8, NotListed, RestingIsNotWriting
<1>. QED  BY <1>9, <1>14, <1>15, <1>16 DEF OnCourse

LEMMA nextPageOnCourse ==
  ASSUME TypeInv, NEW u \in Signers, Stacked(u), OnCourse(u), nextPage(u)
  PROVE  OnCourse(u)'
<1>0. PICK n, page : n = count[u].listings + 1 /\ page = Last(pages[u])
  OBVIOUS
<1>. DEFINE o == [by |-> "listing", n |-> n, on |-> PageView(page.id)]
            b == [puts |-> Entries(u, page), dels |-> {}, handler |-> o]
<1>1. /\ OnPage(u) /\ over[u] = Nothing /\ ~ Covered(u) /\ MayWrite(u)
      /\ None \notin {page.University, page.Course}
      /\ showSpinner(u, o) /\ Enqueue(u, b)
      /\ UNCHANGED <<docs, screen, pages, over, calls>>
  BY <1>0 DEF nextPage
<1>2. u \in Users /\ screen[u] = "names"
  BY <1>1, SignupAssumption DEF Stacked
<1>3. n \in 1..MaxWrites
  <2>1. count[u] \in Counts
    BY DEF TypeInv, Types, Counts
  <2>. QED  BY <1>0, <1>1, <2>1, SignupAssumption DEF MayWrite, Counts
<1>4. page \in Pages
  BY <1>0, <1>1, TopPage DEF TypeInv
<1>5. b \in SafeBatches
  BY <1>1, <1>3, <1>4, ListingBatch
<1>6. /\ b.handler = o /\ b.puts = Entries(u, page) /\ b.dels = {}
      /\ o.on = PageView(page.id) /\ o.by = "listing" /\ o # NoHandler
  BY HandlersThere
<1>7. Resting(u)
  BY <1>1, BusyOnCourse
<1>8. o \in overlays'[u]
  BY <1>1 DEF showSpinner, TypeInv, Types
<1>9. \A f \in Fields : \A y \in Options(f) :
        Profile(u, f, y) \in (docs \ b.dels) \cup b.puts => Profile(u, f, y) \in docs
  <2>1. \A f \in Fields : \A y, z, c : Profile(u, f, y) # Listing(z, c, u)
    BY <1>2, Kinds
  <2>. QED  BY <1>6, <2>1 DEF Entries
<1>. HIDE DEF b, o
<1>10. outbox'[u] = <<b>> /\ Len(outbox'[u]) = 1 /\ Head(outbox'[u]) = b /\ outbox'[u] # <<>>
  BY <1>1, <1>5, <1>7, FirstBatch DEF Resting
<1>11. Writing(u)'
  <2>1. Covered(u)' /\ o.on = Shown(u)'
    BY <1>0, <1>1, <1>6, <1>8 DEF Covered, Shown, OnPage, Nothing
  <2>2. Fits(u, o)'
    BY <1>1, <1>2, <1>6, <2>1 DEF Fits, OnPage
  <2>3. Confirms(u)' = {}
    BY <1>1, <1>7, ConfirmsAre DEF Resting
  <2>. QED  BY <1>6, <1>10, <2>2, <2>3 DEF Writing
<1>12. page = pages[u][1]
  BY <1>0, <1>1 DEF OnCourse, Truthful, Last
<1>13. Truthful(u)'
  <2>1. /\ Len(pages[u]) = 1
        /\ Shows(u, "University", pages[u][1].University) /\ Shows(u, "Course", pages[u][1].Course)
    BY <1>1 DEF OnCourse, Truthful
  <2>2. After(u) = docs /\ After(u)' = (docs \ b.dels) \cup b.puts
    BY <1>1, <1>7, <1>10 DEF After, Resting
  <2>3. \A f \in Fields : \A y : Shows(u, f, y) => Shows(u, f, y)'
    BY <1>9, <2>2 DEF Shows
  <2>4. {"University", "Course"} = Fields
    BY DEF Fields
  <2>. QED  BY <1>1, <2>1, <2>3, <2>4 DEF Truthful, Nothing
<1>14. ListingSent(u)'
  BY <1>1, <1>6, <1>10, <1>11, <1>12 DEF ListingSent
<1>. QED  BY <1>11, <1>13, <1>14 DEF OnCourse

LEMMA LeaveOnCourse ==
  ASSUME TypeInv, NEW u \in Signers, OnCourse(u), Back(u) \/ Dismiss(u), "left" \notin slips'[u]
  PROVE  OnCourse(u)'
<1>1. UNCHANGED <<docs, outbox, calls, count>>
  BY DEF Back, Dismiss
<1>2. Resting(u)
  <2>1. CASE Back(u)
    <3>1. ~ Busy(u)
      BY <2>1 DEF Back, Slip, TypeInv, Types
    <3>. QED  BY <3>1, BusyOnCourse
  <2>2. CASE Dismiss(u)
    <3>1. ~ (Busy(u) /\ over[u] # Alert)
      BY <2>2 DEF Dismiss, Slip, TypeInv, Types
    <3>. QED  BY <3>1, BusyOnCourse
  <2>. QED  BY <2>1, <2>2
<1>3. Resting(u)'
  BY <1>1, <1>2, ConfirmsAre DEF Resting
<1>4. CASE Back(u)
  <2>1. over'[u] = Nothing /\ screen[u] # "home"
    BY <1>4 DEF Back
  <2>2. pages'[u] \in {pages[u], <<>>}
    <3>1. CASE OnPage(u)
      <4>1. pages[u] \in Seq(Pages) /\ Len(pages[u]) = 1
        BY <3>1 DEF TypeInv, Types, OnCourse, Truthful
      <4>2. pages'[u] = SubSeq(pages[u], 1, Len(pages[u]) - 1)
        BY <1>4, <3>1 DEF Back, TypeInv, Types
      <4>3. SubSeq(pages[u], 1, 0) = <<>>
        BY <4>1
      <4>. QED  BY <4>1, <4>2, <4>3
    <3>2. CASE ~ OnPage(u)
      BY <1>4, <3>2 DEF Back
    <3>. QED  BY <3>1, <3>2
  <2>. QED  BY <1>1, <1>2, <1>3, <2>1, <2>2, RestedOnCourse DEF Nothing
<1>5. CASE Dismiss(u)
  <2>1. over'[u] = Nothing /\ UNCHANGED <<screen, pages>>
    BY <1>5 DEF Dismiss, TypeInv, Types
  <2>. QED  BY <1>1, <1>2, <1>3, <2>1, RestedOnCourse DEF Nothing
<1>. QED  BY <1>4, <1>5

LEMMA TapOnCourse ==
  ASSUME TypeInv, [Next]_vars, NEW u \in Signers, Stacked(u), OnCourse(u), Straight(u)', Tap(u)
  PROVE  OnCourse(u)'
<1>1. "left" \notin slips'[u] /\ "again" \notin slips'[u]
  BY StraightBefore
<1>2. CASE SignUp(u) \/ confirmEmailPassword(u)
  <2>1. /\ UNCHANGED <<docs, outbox, pages, over, count>>
        /\ screen[u] \in {"start", "email"}
    BY <1>2 DEF SignUp, confirmEmailPassword
  <2>2. Resting(u)
    BY <2>1, BusyOnCourse
  <2>3. Confirms(u)' = Confirms(u)
    <3>1. PICK d : d = [kind |-> "createUser", user |-> u]
      OBVIOUS
    <3>2. calls' = calls \/ calls' = calls \cup {d}
      BY <1>2, <3>1 DEF SignUp, confirmEmailPassword
    <3>3. d.kind = "createUser"
      BY <3>1
    <3>. QED  BY <3>2, <3>3, ConfirmsAre
  <2>4. Resting(u)'
    BY <2>1, <2>2, <2>3 DEF Resting
  <2>5. over[u].kind # "sheet"
    BY <2>1, BusyOnCourse DEF Stacked
  <2>. QED  BY <2>1, <2>2, <2>4, <2>5, RestedOnCourse
<1>3. CASE Type(u)
  <2>1. UNCHANGED <<overlays, over, pages, screen, count, outbox, docs, calls>>
    BY <1>3 DEF Type
  <2>2. Confirms(u)' = Confirms(u)
    BY <2>1, ConfirmsAre
  <2>. QED  BY <2>1, <2>2, StillOnCourse DEF SameRecords
<1>4. CASE ConfirmNames(u)
  BY <1>1, <1>4, ConfirmNamesOnCourse
<1>5. CASE (\E field \in Fields : ShowSheet(u, field)) \/ Incomplete(u)
  <2>1. /\ UNCHANGED <<docs, outbox, pages, screen, count, calls>>
        /\ ~ Covered(u) /\ over[u] = Nothing
    BY <1>5 DEF ShowSheet, Incomplete
  <2>2. Resting(u)
    BY <2>1, BusyOnCourse
  <2>3. Resting(u)'
    BY <2>1, <2>2, ConfirmsAre DEF Resting
  <2>4. over'[u].kind = "sheet" => over'[u].page = Last(pages[u]).id
    BY <1>5 DEF ShowSheet, Incomplete, Alert, TypeInv, Types
  <2>. QED  BY <2>1, <2>2, <2>3, <2>4, RestedOnCourse DEF Nothing
<1>6. CASE didSelectRow(u)
  BY <1>6, didSelectRowOnCourse
<1>7. CASE nextPage(u)
  BY <1>7, nextPageOnCourse
<1>8. CASE Back(u) \/ Dismiss(u)
  BY <1>1, <1>8, LeaveOnCourse
<1>. QED  BY <1>2, <1>3, <1>4, <1>5, <1>6, <1>7, <1>8 DEF Tap

------------------------------------------------------------------------------
(* What is answered *)

\* The names are confirmed in one request after the other.
LEMMA AskingConfirms ==
  ASSUME Types, NEW c \in calls, NEW u \in Signers, u = c.user, c.kind # "createUser", OnCourse(u)
  PROVE  Asking(u) /\ Confirms(u) = {c} /\ ~ (count[u].listings > 0)
<1>1. c \in Confirms(u)
  BY ConfirmsAre
<1>2. Asking(u)
  BY <1>1 DEF OnCourse, Resting, Writing
<1>3. Confirms(u) = {c}
  BY <1>1, <1>2 DEF Asking
<1>4. ~ (count[u].listings > 0)
  BY <1>1, <1>2, NotListed DEF Writing, Asking, OnNames
<1>. QED  BY <1>2, <1>3, <1>4

LEMMA AskedOn ==
  ASSUME Types, NEW c \in calls, NEW u \in Signers, u = c.user, c.kind # "createUser", OnCourse(u),
         NEW d, d.user = u, d.kind # "createUser", calls' = (calls \ {c}) \cup {d},
         UNCHANGED <<overlays, over, pages, screen, count, outbox>>
  PROVE  OnCourse(u)'
<1>1. Asking(u) /\ Confirms(u) = {c} /\ ~ (count[u].listings > 0)
  BY AskingConfirms
<1>2. Confirms(u)' = {d}
  BY <1>1, ConfirmsAre
<1>3. Asking(u)'
  BY <1>1, <1>2 DEF Asking, OnNames, Covered, Shown, OnPage
<1>4. Truthful(u)'
  BY <1>1 DEF Asking, OnNames, Truthful, OnPage
<1>. QED  BY <1>1, <1>3, <1>4 DEF OnCourse

LEMMA UserCreatedOnCourse ==
  ASSUME TypeInv, AskedInv, NEW c \in calls, NEW u \in Signers, u = c.user, Stacked(u), OnCourse(u),
         UserCreated(c)
  PROVE  OnCourse(u)'
<1>1. /\ UNCHANGED <<docs, outbox, pages, over, overlays, count>>
      /\ c.kind = "createUser" /\ calls' = calls \ {c}
  BY DEF UserCreated
<1>2. Confirms(u)' = Confirms(u)
  BY <1>1, ConfirmsAre
<1>3. CASE account[u] = "asked"
  <2>1. screen[u] = "email"
    BY <1>3 DEF AskedInv
  <2>2. Resting(u)
    BY <2>1, BusyOnCourse
  <2>3. Resting(u)'
    BY <1>1, <1>2, <2>2 DEF Resting
  <2>4. over[u].kind # "sheet"
    BY <2>1 DEF Stacked
  <2>. QED  BY <1>1, <2>1, <2>2, <2>3, <2>4, RestedOnCourse
<1>4. CASE account[u] # "asked"
  <2>1. screen' = screen
    BY <1>4 DEF UserCreated
  <2>. QED  BY <1>1, <1>2, <2>1, StillOnCourse DEF SameRecords
<1>. QED  BY <1>3, <1>4

LEMMA PicturesOnCourse ==
  ASSUME TypeInv, NEW c \in calls, NEW u \in Signers, u = c.user, OnCourse(u), PicturesFetched(c)
  PROVE  OnCourse(u)'
<1>. DEFINE o == [by |-> "confirm", n |-> c.n, on |-> NamesView]
            b == [puts |-> {Username(u, m) : m \in {c.name} \cap Names},
                  dels |-> {Username(u, m) : m \in Names \ {c.name}}, handler |-> o]
<1>1. /\ Enqueue(u, b) /\ c.kind = "pictures" /\ calls' = calls \ {c}
      /\ UNCHANGED <<overlays, over, pages, screen, count>>
  BY DEF PicturesFetched
<1>2. b \in SafeBatches
  BY <1>1, RequestShapes, NamesBatch DEF TypeInv, Types
<1>3. b.handler = o /\ o.on = NamesView /\ o.by = "confirm" /\ o # NoHandler
  BY HandlersThere
<1>. HIDE DEF b, o
<1>4. Asking(u) /\ Confirms(u) = {c} /\ ~ (count[u].listings > 0)
  BY <1>1, AskingConfirms DEF TypeInv
<1>5. Len(outbox'[u]) = 1 /\ Head(outbox'[u]) = b
  BY <1>1, <1>2, <1>4, FirstBatch DEF Asking
<1>6. Confirms(u)' = {}
  BY <1>1, <1>4, ConfirmsAre
<1>7. Writing(u)'
  <2>1. /\ Covered(u)' /\ Shown(u)' = NamesView
        /\ pages'[u] = <<>> /\ over'[u] = Nothing /\ screen'[u] = "names"
    BY <1>1, <1>4 DEF Asking, OnNames, Covered, Shown, OnPage, Nothing
  <2>2. Fits(u, o)'
    BY <1>3, <2>1 DEF Fits
  <2>. QED  BY <1>3, <1>5, <1>6, <2>2 DEF Writing
<1>8. Truthful(u)'
  BY <1>1, <1>4 DEF Asking, OnNames, Truthful, OnPage
<1>. QED  BY <1>1, <1>4, <1>7, <1>8 DEF OnCourse

LEMMA AnswerOnCourse ==
  ASSUME TypeInv, AskedInv, [Next]_vars, NEW c \in calls, NEW u \in Signers, u = c.user,
         Stacked(u), OnCourse(u), Straight(u)', Answer(c)
  PROVE  OnCourse(u)'
<1>0. Types /\ c \in Requests
  BY DEF TypeInv, Types
<1>1. CASE UserCreated(c)
  BY <1>1, UserCreatedOnCourse
<1>2. CASE UserRefused(c) \/ NamesDropped(c)
  <2>1. Fail
    BY <1>2 DEF UserRefused, NamesDropped
  <2>. QED  BY <1>0, <2>1, StraightBefore DEF Fail, Types
<1>3. CASE NamesRejected(c)
  <2>1. /\ c.kind = "query" /\ calls' = calls \ {c}
        /\ UNCHANGED <<outbox, pages, screen, count>>
    BY <1>3 DEF NamesRejected
  <2>2. Asking(u) /\ Confirms(u) = {c} /\ ~ (count[u].listings > 0)
    BY <1>0, <2>1, AskingConfirms
  <2>3. Resting(u)'
    BY <2>1, <2>2, ConfirmsAre DEF Resting, Asking
  <2>4. Truthful(u)'
    BY <2>1, <2>2 DEF Asking, OnNames, Truthful, OnPage
  <2>. QED  BY <2>1, <2>2, <2>3, <2>4 DEF OnCourse
<1>4. CASE NamesAccepted(c)
  <2>. DEFINE d == [c EXCEPT !.kind = "token"]
  <2>1. /\ c.kind = "query" /\ calls' = (calls \ {c}) \cup {d}
        /\ UNCHANGED <<overlays, over, pages, screen, count, outbox>>
    BY <1>4 DEF NamesAccepted
  <2>2. d.user = u /\ d.kind # "createUser"
    BY <1>0, <2>1, RequestShapes
  <2>. HIDE DEF d
  <2>. QED  BY <1>0, <2>1, <2>2, AskedOn
<1>5. CASE TokenFetched(c)
  <2>1. PICK d : d = [c EXCEPT !.kind = "pictures", !.name = typed[c.user]]
    OBVIOUS
  <2>2. /\ c.kind = "token" /\ calls' = (calls \ {c}) \cup {d}
        /\ UNCHANGED <<overlays, over, pages, screen, count, outbox>>
    BY <1>5, <2>1 DEF TokenFetched
  <2>3. d.user = u /\ d.kind # "createUser"
    BY <1>0, <2>1, <2>2, RequestShapes
  <2>. QED  BY <1>0, <2>2, <2>3, AskedOn
<1>6. CASE PicturesFetched(c)
  BY <1>6, PicturesOnCourse
<1>. QED  BY <1>1, <1>2, <1>3, <1>4, <1>5, <1>6 DEF Answer

\* The batch under way is acknowledged on the view it was sent from.
LEMMA CommittedOnCourse ==
  ASSUME TypeInv, NEW u \in Signers, OnCourse(u), BatchCommitted(u)
  PROVE  OnCourse(u)'
<1>0. PICK b : b = Head(outbox[u])
  OBVIOUS
<1>. DEFINE h == b.handler
<1>1. /\ u \in Clients /\ outbox[u] \in Seq(SafeBatches) /\ outbox[u] # <<>>
      /\ docs' = (docs \ b.dels) \cup b.puts
      /\ outbox' = [outbox EXCEPT ![u] = Tail(@)]
      /\ UNCHANGED <<calls, count>>
  BY <1>0 DEF BatchCommitted, Commit, Clients, TypeInv, Queues
<1>2. Writing(u) /\ Confirms(u) = {}
  BY <1>1 DEF OnCourse, Resting, Asking, Writing
<1>3. outbox'[u] = <<>>
  <2>0. PICK t : t = Tail(outbox[u])
    OBVIOUS
  <2>1. outbox'[u] = t
    BY <1>1, <2>0 DEF TypeInv, Queues
  <2>2. t \in Seq(SafeBatches) /\ Len(t) = Len(outbox[u]) - 1
    BY <1>1, <2>0, HeadTailProperties
  <2>3. Len(t) = 0
    BY <1>2, <2>2 DEF Writing
  <2>4. t # <<>> => Len(t) \in Nat \ {0}
    BY <2>2, EmptySeq
  <2>. QED  BY <2>1, <2>3, <2>4
<1>4. Resting(u)'
  BY <1>1, <1>2, <1>3, ConfirmsAre DEF Resting
<1>5. After(u)' = docs' /\ docs' = After(u)
  BY <1>0, <1>1, <1>3 DEF After
<1>6. \A f, y : Shows(u, f, y) => Shows(u, f, y)'
  BY <1>5 DEF Shows
<1>7. Fits(u, h)
  BY <1>0, <1>2 DEF Writing
<1>8. pages \in [Signers -> Seq(Pages)] /\ over \in [Signers -> Presented]
      /\ screen \in [Signers -> {"start", "email", "names", "home"}]
  BY DEF TypeInv, Types
<1>9. CASE h.by = "confirm"
  <2>1. pages[u] = <<>> /\ over[u] = Nothing /\ screen[u] = "names" /\ NamesStored(u, h.n)
    BY <1>0, <1>7, <1>9 DEF Fits, BatchCommitted
  <2>2. PICK p : p = [id |-> h.n, University |-> None, Course |-> None]
    OBVIOUS
  <2>3. pages'[u] = Append(<<>>, p)
    BY <1>8, <2>1, <2>2 DEF NamesStored
  <2>4. Len(pages'[u]) = 1 /\ pages'[u][1] = p
    BY <2>3
  <2>5. p.University = None /\ p.Course = None
    BY <2>2
  <2>6. Truthful(u)'
    BY <2>1, <2>4, <2>5 DEF Truthful, Shows, NamesStored, Nothing
  <2>7. ~ (count[u].listings > 0)
    BY <1>0, <1>2, <1>9, <2>1 DEF OnCourse, ListingSent
  <2>. QED  BY <1>1, <1>4, <2>6, <2>7 DEF OnCourse
<1>10. CASE h.by = "choice"
  <2>1. screen[u] = "names" /\ ChoiceStored(u, h.n)
    BY <1>0, <1>7, <1>10 DEF Fits, BatchCommitted
  <2>2. UNCHANGED pages /\ over'[u] \in {over[u], Nothing}
    BY <1>8, <2>1 DEF ChoiceStored
  <2>3. Truthful(u)'
    BY <1>6, <2>2 DEF OnCourse, Truthful, OnPage, Nothing
  <2>4. ~ (count[u].listings > 0)
    BY <1>0, <1>10, <2>1 DEF OnCourse, ListingSent
  <2>. QED  BY <1>1, <1>4, <2>3, <2>4 DEF OnCourse
<1>11. CASE h.by = "listing"
  <2>1. /\ OnPage(u) /\ over[u] = Nothing /\ h.on = PageView(Last(pages[u]).id)
        /\ Listed(u, h.on)
    BY <1>0, <1>7, <1>11 DEF Fits, BatchCommitted, Shown, Nothing
  <2>2. Len(pages[u]) \in DOMAIN pages[u]
    BY <1>8, <2>1, LenProperties, EmptySeq DEF OnPage
  <2>3. screen'[u] = "home" /\ pages'[u] = <<>>
    BY <1>8, <2>1, <2>2 DEF Listed, Last
  <2>4. Truthful(u)'
    BY <2>3 DEF Truthful, OnPage
  <2>5. ASSUME count[u].listings > 0 PROVE Complete(u)'
    <3>. SUFFICES ASSUME NEW x \in Universities, NEW c \in Courses,
                         Profile(u, "University", x) \in docs', Profile(u, "Course", c) \in docs'
         PROVE  Listing(x, Total, u) \in docs' /\ Listing(x, c, u) \in docs'
      BY DEF Complete
    <3>1. ListingSent(u)
      BY <1>4, <1>7, <2>5 DEF OnCourse, Fits
    <3>2. b.puts = Entries(u, pages[u][1])
      BY <1>0, <3>1 DEF ListingSent
    <3>3. pages[u][1].University = x /\ pages[u][1].Course = c
      <4>1. Options("University") = Universities /\ Options("Course") = Courses
        BY DEF Options
      <4>2. /\ Shows(u, "University", pages[u][1].University)
            /\ Shows(u, "Course", pages[u][1].Course)
        BY <2>1 DEF OnCourse, Truthful
      <4>. QED  BY <1>5, <3>1, <4>1, <4>2 DEF Shows, ListingSent
    <3>. QED  BY <1>1, <3>2, <3>3 DEF Entries
  <2>. QED  BY <1>1, <1>4, <2>3, <2>4, <2>5 DEF OnCourse
<1>. QED  BY <1>7, <1>9, <1>10, <1>11 DEF Fits

LEMMA RelaunchOnCourse ==
  ASSUME TypeInv, NEW u \in Signers, OnCourse(u), Relaunch(u), "left" \notin slips'[u]
  PROVE  OnCourse(u)'
<1>1. ~ Busy(u)
  BY DEF Relaunch, Slip, TypeInv, Types
<1>2. Resting(u)
  BY <1>1, BusyOnCourse
<1>3. /\ pages'[u] = <<>> /\ over'[u] = Nothing /\ screen[u] # "home"
      /\ UNCHANGED <<docs, count>> /\ calls' \subseteq calls
  BY DEF Relaunch, TypeInv, Types
<1>4. outbox'[u] = <<>>
  <2>1. u \in Clients /\ Queues
    BY DEF Clients, TypeInv
  <2>2. outbox'[u] = [i \in DOMAIN outbox[u] |-> [outbox[u][i] EXCEPT !.handler = NoHandler]]
    BY <2>1 DEF Relaunch, Queues
  <2>3. DOMAIN outbox[u] = {}
    BY <1>2, EmptySeq, LenProperties DEF Resting
  <2>4. Queues'
    BY <2>1, Silenced DEF Relaunch
  <2>5. outbox'[u] \in Seq(SafeBatches) /\ DOMAIN outbox'[u] = {}
    BY <2>1, <2>2, <2>3, <2>4 DEF Queues
  <2>6. Len(outbox'[u]) = 0
    <3>1. Len(outbox'[u]) \in Nat /\ 1..Len(outbox'[u]) = {}
      BY <2>5, LenProperties
    <3>2. \A k \in Nat : 1..k = {} => k = 0
      <4>1. \A k \in Nat : k # 0 => 1 \in 1..k
        OBVIOUS
      <4>. QED  BY <4>1
    <3>. QED  BY <3>1, <3>2
  <2>. QED  BY <2>5, <2>6, EmptySeq
<1>5. Resting(u)'
  BY <1>2, <1>3, <1>4, ConfirmsAre DEF Resting
<1>. QED  BY <1>2, <1>3, <1>5, RestedOnCourse

------------------------------------------------------------------------------
(* The theorem *)

LEMMA NextStraight ==
  ASSUME Inv, OverlayInv, StraightInv, [Next]_vars
  PROVE  StraightInv'
<1>0. TypeInv /\ Types /\ CommonInv /\ OwnQueues /\ AskedInv
  BY DEF Inv, TypeInv, StraightInv, CommonInv
<1>1. CommonInv'
  <2>1. ASSUME UNCHANGED vars PROVE CommonInv'
    BY <1>0, <2>1 DEF vars, CommonInv, OwnQueues, Own, AskedInv, Unchanged
  <2>. QED  BY <1>0, <2>1, StepCases, TapCommon, AnswerCommon, BatchCommon, CourseCommon
<1>2. ASSUME NEW v \in Signers, Straight(v)' PROVE OnCourse(v)'
  <2>0. /\ Straight(v) /\ failures' = failures /\ changes' = 0
        /\ "left" \notin slips'[v] /\ "again" \notin slips'[v]
    BY <1>0, <1>2, StraightBefore DEF Straight
  <2>1. OnCourse(v) /\ Stacked(v) /\ v \in Users
    BY <2>0, SignupAssumption DEF StraightInv, OverlayInv
  <2>2. ASSUME Untouched(v), SameRecords(v) PROVE OnCourse(v)'
    <3>1. Confirms(v)' = Confirms(v)
      <4>1. CallsOf(v)' = CallsOf(v)
        BY <2>2 DEF Untouched
      <4>. QED  BY <4>1 DEF Confirms
    <3>. QED  BY <2>1, <2>2, <3>1, StillOnCourse DEF Untouched
  <2>3. ASSUME NEW u \in Signers,
               Tap(u) \/ BatchCommitted(u) \/ BatchRefused(u) \/ Relaunch(u)
        PROVE  OnCourse(v)'
    <3>1. CASE u = v
      <4>1. CASE BatchRefused(u)
        BY <1>0, <2>0, <4>1 DEF BatchRefused, Fail, Types
      <4>. QED  BY <1>0, <1>2, <2>0, <2>1, <2>3, <3>1, <4>1, TapOnCourse, CommittedOnCourse,
                   RelaunchOnCourse
    <3>2. CASE u # v
      <4>1. Untouched(v)
        BY <1>0, <2>3, <3>2, TapElsewhere, BatchElsewhere
      <4>2. UNCHANGED docs \/ Commit(u)
        BY <2>3 DEF Tap, SignUp, confirmEmailPassword, Type, ConfirmNames, ShowSheet,
               didSelectRow, Incomplete, nextPage, Back, Dismiss, BatchCommitted, BatchRefused,
               Refuse, Relaunch
      <4>3. SameRecords(v)
        <5>1. CASE UNCHANGED docs
          BY <5>1 DEF SameRecords
        <5>2. CASE Commit(u)
          BY <1>0, <2>1, <3>2, <5>2, OthersRecords
        <5>. QED  BY <4>2, <5>1, <5>2
      <4>. QED  BY <2>2, <4>1, <4>3
    <3>. QED  BY <3>1, <3>2
  <2>4. ASSUME NEW c \in calls, c.user \in Signers, Answer(c) PROVE OnCourse(v)'
    <3>1. CASE c.user = v
      BY <1>0, <1>2, <2>1, <2>4, <3>1, AnswerOnCourse
    <3>2. CASE c.user # v
      <4>1. Untouched(v)
        BY <1>0, <2>4, <3>2, AnswerElsewhere
      <4>2. UNCHANGED docs
        BY <2>4 DEF Answer, UserCreated, UserRefused, NamesRejected, NamesAccepted, TokenFetched,
               NamesDropped, PicturesFetched
      <4>. QED  BY <2>2, <4>1, <4>2 DEF SameRecords
    <3>. QED  BY <3>1, <3>2
  <2>5. ~ ((\E u \in Signers : changeCourse(u)) \/ CourseChanged \/ CourseRefused)
    BY <1>0, <2>0, CourseCommon
  <2>6. ASSUME UNCHANGED vars PROVE OnCourse(v)'
    BY <2>2, <2>6 DEF vars, Untouched, CallsOf, SameRecords
  <2>. QED  BY <1>0, <2>3, <2>4, <2>5, <2>6, StepCases
<1>. QED  BY <1>1, <1>2 DEF StraightInv

LEMMA InitStraight == Init => StraightInv
<1>. SUFFICES ASSUME Init PROVE StraightInv
  OBVIOUS
<1>1. CommonInv
  BY EmptySeq, LenProperties DEF Init, CommonInv, OwnQueues, AskedInv, Unchanged
<1>2. ASSUME NEW u \in Signers PROVE OnCourse(u)
  <2>1. Resting(u) /\ ~ OnPage(u) /\ count[u].listings = 0
    BY DEF Init, Resting, Confirms, CallsOf, OnPage
  <2>. QED  BY <2>1 DEF OnCourse, Truthful
<1>. QED  BY <1>1, <1>2 DEF StraightInv

\* A sign-up that has gone straight through its four screens
\* (UniAndCourse.swift:176) is listed under the university and the course of its
\* profile, whatever the sign-ups next to it do, leave or try again.
THEOREM FinishedIsListed == Spec => []FinishedListed
<1>1. Init => OverlayInv
  BY DEF Init, OverlayInv, Stacked, Overlaid, OnPage, Nothing
<1>2. Inv /\ OverlayInv /\ [Next]_vars => OverlayInv'
  BY NextOverlays DEF Inv
<1>3. Inv /\ OverlayInv /\ StraightInv /\ [Next]_vars => StraightInv'
  BY NextStraight
<1>4. StraightInv => FinishedListed
  <2>. SUFFICES ASSUME StraightInv, NEW u \in Signers, NEW x \in Universities, NEW c \in Courses,
                       screen[u] = "home", count[u].listings > 0, outbox[u] = <<>>,
                       failures = 0, changes = 0, slips[u] \cap {"left", "again"} = {},
                       {Profile(u, "University", x), Profile(u, "Course", c)} \subseteq docs
       PROVE  {Listing(x, Total, u), Listing(x, c, u)} \subseteq docs
    BY DEF FinishedListed
  <2>1. OnCourse(u)
    BY DEF StraightInv, Straight
  <2>2. ~ Writing(u)
    BY DEF Writing, Fits
  <2>3. Complete(u)
    BY <2>1, <2>2 DEF OnCourse, ListingSent
  <2>. QED  BY <2>3 DEF Complete
<1>. QED  BY <1>1, <1>2, <1>3, <1>4, InitStraight, InvHolds, PTL DEF Spec
==============================================================================
