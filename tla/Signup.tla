------------------------------- MODULE Signup -------------------------------
(***************************************************************************)
(* Signing up: EmailPassword.swift, NameAndUsername.swift,                 *)
(* UniAndCourse.swift with the sheets University.swift and Course.swift,   *)
(* and the page with which the developers give a course to a user who      *)
(* chose "Pending Addition" (ChangePeoplesCourses.swift).                  *)
(*                                                                         *)
(* Four screens make four writes: the account, the names, a university and *)
(* a course, and the listing under both.  Each screen is pushed when the   *)
(* write of the one before is acknowledged.  A request outlives its page:  *)
(* a swipe from the edge leaves a page under its overlay, a swipe down a   *)
(* sheet, and the return key works under an overlay too.                   *)
(***************************************************************************)
EXTENDS Integers, Sequences, FiniteSets

CONSTANTS
  Users,
  Signers,       \* the users whose sign-up is followed
  Admin,         \* the developers' device, on which nobody signs up
  Names,         \* usernames
  Universities,
  Courses,
  Pending,       \* the course "Pending Addition"
  Total,         \* the collection that lists every student of a university
  MaxConfirms,   \* bound on names confirmed, per user
  MaxWrites,     \* bound on rows chosen, listings sent and twice the names
                 \* confirmed together, per user
  MaxEvents,     \* bound on the users' failed requests and the developers'
                 \* changes together; a change may fail once more
  None

ASSUME SignupAssumption ==
  /\ Signers \subseteq Users
  /\ Admin \notin Signers
  /\ Pending \in Courses /\ Total \notin Courses
  /\ {MaxConfirms, MaxWrites, MaxEvents} \subseteq Nat

VARIABLES
  docs, outbox,  \* see Firestore
  account,       \* per user, the account
  screen,        \* per user, what the navigation controller shows
  pages,         \* per user, the UniAndCourse pages on top of the names
  typed,         \* per user, the username typed; None if a field is empty
  over,          \* per user, what is presented over the screen
  overlays,      \* per user, the overlays on the pages
  vSpinner,      \* per user, the overlay removeSpinner takes off
  calls,         \* the requests not answered yet
  count,         \* per user, how many confirms, choices and listings there were
  changes, failures,
  slips          \* history: what the user did while a request was under way

vars == <<docs, outbox, account, screen, pages, typed, over, overlays, vSpinner,
          calls, count, changes, failures, slips>>

INSTANCE Firestore WITH Clients <- Signers \cup {Admin}

------------------------------------------------------------------------------
Username(u, n) == <<"users", u, "username", n>>
Profile(u, field, x) == <<"users", u, field, x>>
Member(field, x, u) == <<"members", field, x, u>>
Listing(x, collection, u) == <<"Universities", x, collection, u>>

Options(field) == IF field = "University" THEN Universities ELSE Courses

Fields == {"University", "Course"}

Documents ==
  {Username(u, n) : u \in Users, n \in Names}
    \cup (UNION {{Profile(u, f, x) : u \in Users, x \in Options(f)} : f \in Fields})
    \cup (UNION {{Member(f, x, u) : u \in Users, x \in Options(f)} : f \in Fields})
    \cup {Listing(x, c, u) : x \in Universities, c \in Courses \cup {Total}, u \in Users}

\* A UniAndCourse page is known by the confirmation that pushed it.
Pages == [id : 1..MaxConfirms, University : Universities \cup {None},
          Course : Courses \cup {None}]

\* What is presented: nothing, an alert, or a sheet with the row chosen on it
\* (0 if none is) and the page it reports to.
Nothing == [kind |-> "nothing"]
Alert == [kind |-> "alert"]
Presented == {Nothing, Alert} \cup
  [kind : {"sheet"}, field : Fields, choice : 0..MaxWrites, page : 1..MaxConfirms]

\* The views an overlay can lie on, and the overlays, known by who shows them.
Views == [view : {"names"}, id : {0}] \cup [view : {"page"}, id : 1..MaxConfirms]
           \cup [view : {"sheet"}, id : 1..MaxWrites]
Overlays == [by : {"confirm", "choice", "listing"}, n : Nat, on : Views]

NoHandler == <<>>

Handlers == {NoHandler} \cup [by : {"confirm", "choice", "listing"}, n : Nat, on : Views]

Requests ==
  [kind : {"createUser"}, user : Signers]
    \cup [kind : {"query", "token", "pictures"}, user : Signers,
          n : 1..MaxConfirms, name : Names \cup {None}]

TypeOK ==
  /\ docs \subseteq Documents
  /\ \A u \in Signers \cup {Admin} : \A i \in DOMAIN outbox[u] :
       /\ outbox[u][i].puts \cup outbox[u][i].dels \subseteq Documents
       /\ outbox[u][i].handler \in Handlers
  /\ account \in [Signers -> {"none", "asked", "abandoned", "created"}]
  /\ screen \in [Signers -> {"start", "email", "names", "home"}]
  /\ pages \in [Signers -> Seq(Pages)]
  /\ typed \in [Signers -> Names \cup {None}]
  /\ over \in [Signers -> Presented]
  /\ \A u \in Signers : overlays[u] \subseteq Overlays
  /\ vSpinner \in [Signers -> Overlays \cup {None}]
  /\ calls \subseteq Requests
  /\ count \in [Signers -> [confirms : 0..MaxConfirms, choices : 0..MaxWrites,
                            listings : 0..MaxWrites]]
  /\ changes \in 0..MaxEvents
  /\ failures \in Nat
  /\ slips \in [Signers -> SUBSET {"retyped", "again", "left"}]

\* Every other user has signed up, and has a name of their own.
Init ==
  /\ \E names \in [Users \ Signers -> Names] :
       /\ \A a, b \in Users \ Signers : names[a] = names[b] => a = b
       /\ docs = {Username(a, names[a]) : a \in Users \ Signers}
  /\ outbox = [u \in Signers \cup {Admin} |-> <<>>]
  /\ account = [u \in Signers |-> "none"]
  /\ screen = [u \in Signers |-> "start"]
  /\ pages = [u \in Signers |-> <<>>]
  /\ typed = [u \in Signers |-> None]
  /\ over = [u \in Signers |-> Nothing]
  /\ overlays = [u \in Signers |-> {}]
  /\ vSpinner = [u \in Signers |-> None]
  /\ calls = {}
  /\ count = [u \in Signers |-> [confirms |-> 0, choices |-> 0, listings |-> 0]]
  /\ changes = 0
  /\ failures = 0
  /\ slips = [u \in Signers |-> {}]

Fail == failures + changes < MaxEvents /\ failures' = failures + 1

------------------------------------------------------------------------------
(* What every handler uses *)

Last(s) == s[Len(s)]

OnNames(u) == screen[u] = "names" /\ pages[u] = <<>>
OnPage(u) == pages[u] # <<>>

NamesView == [view |-> "names", id |-> 0]
PageView(id) == [view |-> "page", id |-> id]
SheetView(n) == [view |-> "sheet", id |-> n]

\* The view the user can touch.
Shown(u) ==
  IF over[u].kind = "sheet" THEN SheetView(over[u].choice)
  ELSE IF OnPage(u) THEN PageView(Last(pages[u]).id)
  ELSE NamesView

Covered(u) == \E o \in overlays[u] : o.on = Shown(u)

\* Without the view on top, whose overlays are gone with it.
Uncover(u) == overlays' = [overlays EXCEPT ![u] = {o \in @ : o.on # Shown(u)}]

\* An overlay is remembered for its removal; the one before is forgotten.
showSpinner(u, o) ==
  /\ overlays' = [overlays EXCEPT ![u] = @ \cup {o}]
  /\ vSpinner' = [vSpinner EXCEPT ![u] = o]

removeSpinner(u) ==
  /\ overlays' = [overlays EXCEPT ![u] = @ \ {vSpinner[u]}]
  /\ vSpinner' = [vSpinner EXCEPT ![u] = None]

\* A page presents an alert if it is the one on the screen.
Alerted(u, view) ==
  over' = IF over[u] = Nothing /\ screen[u] = "names" /\ Shown(u) = view
          THEN [over EXCEPT ![u] = Alert] ELSE over

MayWrite(u) ==
  2 * count[u].confirms + count[u].choices + count[u].listings < MaxWrites

Slip(u, what, when) ==
  slips' = IF when THEN [slips EXCEPT ![u] = @ \cup {what}] ELSE slips

Confirming(u) == \E c \in calls : c.user = u /\ c.kind # "createUser"

\* Requests of u that are on their way.
Busy(u) ==
  \/ \E c \in calls : c.user = u
  \/ \E i \in DOMAIN outbox[u] : outbox[u][i].handler # NoHandler

------------------------------------------------------------------------------
(* StartView and EmailPassword *)

SignUp(u) ==
  /\ screen[u] = "start"
  /\ screen' = [screen EXCEPT ![u] = "email"]
  /\ UNCHANGED <<docs, outbox, account, pages, typed, over, overlays, vSpinner,
                 calls, count, changes, failures, slips>>

\* One account is followed: no second request while one is under way.
confirmEmailPassword(u) ==
  /\ screen[u] = "email"
  /\ account[u] = "none"
  /\ account' = [account EXCEPT ![u] = "asked"]
  /\ calls' = calls \cup {[kind |-> "createUser", user |-> u]}
  /\ UNCHANGED <<docs, outbox, screen, pages, typed, over, overlays, vSpinner,
                 count, changes, failures, slips>>

\* The account exists; a page that has been left pushes nothing.
UserCreated(c) ==
  /\ c.kind = "createUser"
  /\ calls' = calls \ {c}
  /\ account' = [account EXCEPT ![c.user] = "created"]
  /\ screen' = IF account[c.user] = "asked"
               THEN [screen EXCEPT ![c.user] = "names"] ELSE screen
  /\ UNCHANGED <<docs, outbox, pages, typed, over, overlays, vSpinner, count,
                 changes, failures, slips>>

UserRefused(c) ==
  /\ c.kind = "createUser"
  /\ Fail
  /\ calls' = calls \ {c}
  /\ account' = [account EXCEPT ![c.user] = "none"]
  /\ UNCHANGED <<docs, outbox, screen, pages, typed, over, overlays, vSpinner,
                 count, changes, slips>>

------------------------------------------------------------------------------
(* NameAndUsername *)

\* The keyboard stays on the screen while an overlay covers the page.
Type(u) ==
  /\ OnNames(u)
  /\ over[u] = Nothing
  /\ \E n \in Names \cup {None} :
       /\ n # typed[u]
       /\ typed' = [typed EXCEPT ![u] = n]
  /\ Slip(u, "retyped", Confirming(u))
  /\ UNCHANGED <<docs, outbox, account, screen, pages, over, overlays, vSpinner,
                 calls, count, changes, failures>>

ConfirmNames(u) ==
  LET n == count[u].confirms + 1 IN
  /\ OnNames(u)
  /\ over[u] = Nothing
  /\ n <= MaxConfirms
  /\ MayWrite(u)
  /\ count' = [count EXCEPT ![u].confirms = n]
  /\ showSpinner(u, [by |-> "confirm", n |-> n, on |-> NamesView])
  /\ calls' = calls \cup {[kind |-> "query", user |-> u, n |-> n, name |-> typed[u]]}
  /\ Slip(u, "again", Confirming(u) \/ Covered(u))
  /\ UNCHANGED <<docs, outbox, account, screen, pages, typed, over, changes, failures>>

\* Mutant: every name is free.
Taken_Never(u, n) == FALSE

\* checkIfUsernameTaken: a name of one's own counts as taken as well.
Taken(u, n) == n # None /\ \E a \in Users : Sees(u, Username(a, n))

\* Mutant: returns before it takes the overlay off.
NamesRejected_Covered(c) ==
  /\ c.kind = "query"
  /\ typed[c.user] = None \/ Taken(c.user, c.name)
  /\ calls' = calls \ {c}
  /\ Alerted(c.user, NamesView)
  /\ UNCHANGED <<docs, outbox, account, screen, pages, typed, overlays, vSpinner,
                 count, changes, failures, slips>>

\* The fields are read again when the query is answered.
NamesRejected(c) ==
  /\ c.kind = "query"
  /\ typed[c.user] = None \/ Taken(c.user, c.name)
  /\ calls' = calls \ {c}
  /\ Alerted(c.user, NamesView)
  /\ removeSpinner(c.user)
  /\ UNCHANGED <<docs, outbox, account, screen, pages, typed, count, changes,
                 failures, slips>>

NamesAccepted(c) ==
  /\ c.kind = "query"
  /\ typed[c.user] # None
  /\ ~ Taken(c.user, c.name)
  /\ calls' = (calls \ {c}) \cup {[c EXCEPT !.kind = "token"]}
  /\ UNCHANGED <<docs, outbox, account, screen, pages, typed, over, overlays,
                 vSpinner, count, changes, failures, slips>>

\* The fields are read once more, for the batch, when the token is there.
TokenFetched(c) ==
  /\ c.kind = "token"
  /\ calls' = (calls \ {c}) \cup {[c EXCEPT !.kind = "pictures", !.name = typed[c.user]]}
  /\ UNCHANGED <<docs, outbox, account, screen, pages, typed, over, overlays,
                 vSpinner, count, changes, failures, slips>>

\* Neither a missing token nor missing pictures take the overlay off.
NamesDropped(c) ==
  /\ c.kind \in {"token", "pictures"}
  /\ Fail
  /\ calls' = calls \ {c}
  /\ UNCHANGED <<docs, outbox, account, screen, pages, typed, over, overlays,
                 vSpinner, count, changes, slips>>

PicturesFetched(c) ==
  /\ c.kind = "pictures"
  /\ calls' = calls \ {c}
  /\ Enqueue(c.user,
       [puts |-> {Username(c.user, m) : m \in {c.name} \cap Names},
        dels |-> {Username(c.user, m) : m \in Names \ {c.name}},
        handler |-> [by |-> "confirm", n |-> c.n, on |-> NamesView]])
  /\ UNCHANGED <<docs, account, screen, pages, typed, over, overlays, vSpinner,
                 count, changes, failures, slips>>

NamesStored(u, n) ==
  /\ removeSpinner(u)
  /\ pages' = IF screen[u] = "names"
              THEN [pages EXCEPT ![u] =
                      Append(@, [id |-> n, University |-> None, Course |-> None])]
              ELSE pages
  /\ UNCHANGED <<screen, over>>

------------------------------------------------------------------------------
(* UniAndCourse and its sheets *)

ShowSheet(u, field) ==
  /\ OnPage(u)
  /\ over[u] = Nothing
  /\ ~ Covered(u)
  /\ over' = [over EXCEPT ![u] = [kind |-> "sheet", field |-> field, choice |-> 0,
                                  page |-> Last(pages[u]).id]]
  /\ UNCHANGED <<docs, outbox, account, screen, pages, typed, overlays, vSpinner,
                 calls, count, changes, failures, slips>>

\* Mutant: writes the profile alone.
Choice_ProfileAlone(u, field, x, n) ==
  [puts |-> {Profile(u, field, x)},
   dels |-> {Profile(u, field, y) : y \in Options(field) \ {x}},
   handler |-> [by |-> "choice", n |-> n, on |-> SheetView(n)]]

\* Mutant: takes the membership of before away.
Choice_Moves(u, field, x, n) ==
  [puts |-> {Profile(u, field, x), Member(field, x, u)},
   dels |-> {Profile(u, field, y) : y \in Options(field) \ {x}} \cup
            {Member(field, y, u) : y \in Options(field) \ {x}},
   handler |-> [by |-> "choice", n |-> n, on |-> SheetView(n)]]

\* Mutant: a sheet that keeps the field of the one it was copied from.
Choice_CopiedField(u, field, x, n) ==
  [puts |-> {Profile(u, "University", x), Member(field, x, u)},
   dels |-> {Profile(u, "University", y) : y \in Options(field) \ {x}},
   handler |-> [by |-> "choice", n |-> n, on |-> SheetView(n)]]

\* The profile and the membership go out in one batch; a membership of before
\* stays.
Choice(u, field, x, n) ==
  [puts |-> {Profile(u, field, x), Member(field, x, u)},
   dels |-> {Profile(u, field, y) : y \in Options(field) \ {x}},
   handler |-> [by |-> "choice", n |-> n, on |-> SheetView(n)]]

\* The page has the new value before the write is acknowledged.
didSelectRow(u) ==
  LET n == count[u].choices + 1
      field == over[u].field IN
  /\ over[u].kind = "sheet"
  /\ over[u].choice = 0
  /\ MayWrite(u)
  /\ count' = [count EXCEPT ![u].choices = n]
  /\ over' = [over EXCEPT ![u].choice = n]
  /\ showSpinner(u, [by |-> "choice", n |-> n, on |-> SheetView(n)])
  /\ \E x \in Options(field) :
       /\ Enqueue(u, Choice(u, field, x, n))
       /\ pages' = [pages EXCEPT ![u] = [i \in DOMAIN @ |->
            IF @[i].id = over[u].page THEN [@[i] EXCEPT ![field] = x] ELSE @[i]]]
  /\ UNCHANGED <<docs, account, screen, typed, calls, changes, failures, slips>>

ChoiceStored(u, n) ==
  /\ removeSpinner(u)
  /\ over' = IF over[u].kind = "sheet" /\ over[u].choice = n
             THEN [over EXCEPT ![u] = Nothing] ELSE over
  /\ UNCHANGED <<screen, pages>>

Incomplete(u) ==
  /\ OnPage(u)
  /\ over[u] = Nothing
  /\ ~ Covered(u)
  /\ None \in {Last(pages[u]).University, Last(pages[u]).Course}
  /\ over' = [over EXCEPT ![u] = Alert]
  /\ vSpinner' = [vSpinner EXCEPT ![u] = None]
  /\ UNCHANGED <<docs, outbox, account, screen, pages, typed, overlays, calls, count,
                 changes, failures, slips>>

\* Mutant: lists the user under the university alone.
Entries_TotalAlone(u, page) == {Listing(page.University, Total, u)}

Entries(u, page) ==
  {Listing(page.University, Total, u), Listing(page.University, page.Course, u)}

nextPage(u) ==
  LET n == count[u].listings + 1
      page == Last(pages[u])
      handler == [by |-> "listing", n |-> n, on |-> PageView(page.id)] IN
  /\ OnPage(u)
  /\ over[u] = Nothing
  /\ ~ Covered(u)
  /\ None \notin {page.University, page.Course}
  /\ MayWrite(u)
  /\ count' = [count EXCEPT ![u].listings = n]
  /\ showSpinner(u, handler)
  /\ Enqueue(u, [puts |-> Entries(u, page), dels |-> {}, handler |-> handler])
  /\ UNCHANGED <<docs, account, screen, pages, typed, over, calls, changes, failures, slips>>

\* The navigation controller dismisses what it presents, or else itself; a page
\* that has been left has none.
Listed(u, view) ==
  /\ removeSpinner(u)
  /\ IF \A i \in DOMAIN pages[u] : PageView(pages[u][i].id) # view
     THEN UNCHANGED <<screen, pages, over>>
     ELSE IF over[u] # Nothing
     THEN over' = [over EXCEPT ![u] = Nothing] /\ UNCHANGED <<screen, pages>>
     ELSE /\ screen' = [screen EXCEPT ![u] = "home"]
          /\ pages' = [pages EXCEPT ![u] = <<>>]
          /\ UNCHANGED over

------------------------------------------------------------------------------
(* The answers to the batches *)

BatchCommitted(u) ==
  /\ Commit(u)
  /\ LET h == Head(outbox[u]).handler IN
     \/ h = NoHandler /\ UNCHANGED <<screen, pages, over, overlays, vSpinner>>
     \/ h # NoHandler /\ h.by = "confirm" /\ NamesStored(u, h.n)
     \/ h # NoHandler /\ h.by = "choice" /\ ChoiceStored(u, h.n)
     \/ h # NoHandler /\ h.by = "listing" /\ Listed(u, h.on)
  /\ UNCHANGED <<account, typed, calls, count, changes, failures, slips>>

\* Mutant: goes on to the next screen all the same.
BatchRefused_GoesOn(u) ==
  /\ Refuse(u)
  /\ Fail
  /\ LET h == Head(outbox[u]).handler IN
     IF h # NoHandler /\ h.by = "confirm"
     THEN NamesStored(u, h.n)
     ELSE UNCHANGED <<screen, pages, over, overlays, vSpinner>>
  /\ UNCHANGED <<account, typed, calls, count, changes, slips>>

\* The names and the listing present an alert, a sheet only prints; the overlay
\* stays on all three.
BatchRefused(u) ==
  /\ Refuse(u)
  /\ Fail
  /\ LET h == Head(outbox[u]).handler IN
     IF h # NoHandler /\ h.by \in {"confirm", "listing"}
     THEN Alerted(u, h.on) ELSE UNCHANGED over
  /\ UNCHANGED <<account, screen, pages, typed, overlays, vSpinner, calls, count,
                 changes, slips>>

------------------------------------------------------------------------------
(* Leaving *)

\* A swipe from the edge of the screen leaves the page on top.
Back(u) ==
  /\ over[u] = Nothing
  /\ screen[u] \in {"email", "names"}
  /\ IF OnPage(u)
     THEN /\ pages' = [pages EXCEPT ![u] = SubSeq(@, 1, Len(@) - 1)]
          /\ UNCHANGED <<account, screen>>
     ELSE /\ screen' = [screen EXCEPT ![u] = IF @ = "names" THEN "email" ELSE "start"]
          /\ account' = [account EXCEPT ![u] =
               IF screen[u] = "email" /\ @ = "asked" THEN "abandoned" ELSE @]
          /\ UNCHANGED pages
  /\ Uncover(u)
  /\ Slip(u, "left", Busy(u))
  /\ UNCHANGED <<docs, outbox, typed, over, vSpinner, calls, count, changes,
                 failures>>

\* The alert is confirmed, or the sheet swiped down.
Dismiss(u) ==
  /\ over[u] # Nothing
  /\ over' = [over EXCEPT ![u] = Nothing]
  /\ IF over[u] = Alert THEN UNCHANGED overlays ELSE Uncover(u)
  /\ Slip(u, "left", Busy(u) /\ over[u] # Alert)
  /\ UNCHANGED <<docs, outbox, account, screen, pages, typed, vSpinner, calls,
                 count, changes, failures>>

\* The app ends, or a failed query unwraps nil.  A user who is signed in comes
\* back to the home page, whatever is missing.
Relaunch(u) ==
  /\ screen[u] # "home"
  /\ account[u] \in {"none", "created"}
  /\ screen' = [screen EXCEPT ![u] = IF account[u] = "created" THEN "home" ELSE "start"]
  /\ pages' = [pages EXCEPT ![u] = <<>>]
  /\ over' = [over EXCEPT ![u] = Nothing]
  /\ overlays' = [overlays EXCEPT ![u] = {}]
  /\ vSpinner' = [vSpinner EXCEPT ![u] = None]
  /\ typed' = [typed EXCEPT ![u] = None]
  /\ calls' = {c \in calls : c.user # u}
  /\ outbox' = [outbox EXCEPT ![u] =
                  [i \in DOMAIN @ |-> [@[i] EXCEPT !.handler = NoHandler]]]
  /\ Slip(u, "left", Busy(u))
  /\ UNCHANGED <<docs, account, count, changes, failures>>

------------------------------------------------------------------------------
(* ChangePeoplesCourses *)

\* The developers type a course for a user they have seen as Pending, and any
\* university: nothing compares it with the user's.
changeCourse(u) ==
  /\ failures + changes < MaxEvents
  /\ changes' = changes + 1
  /\ Member("Course", Pending, u) \in docs
  /\ \E c \in Courses \ {Pending}, x \in Universities :
       Enqueue(Admin,
         [puts |-> {Profile(u, "Course", c), Member("Course", c, u), Listing(x, c, u)},
          dels |-> {Profile(u, "Course", d) : d \in Courses \ {c}} \cup
                   {Member("Course", Pending, u), Listing(x, Pending, u)},
          handler |-> NoHandler])
  /\ UNCHANGED <<docs, account, screen, pages, typed, over, overlays, vSpinner,
                 calls, count, failures, slips>>

CourseChanged ==
  /\ Commit(Admin)
  /\ UNCHANGED <<account, screen, pages, typed, over, overlays, vSpinner, calls,
                 count, changes, failures, slips>>

\* The refusal is only printed.
CourseRefused ==
  /\ Refuse(Admin)
  /\ failures' = failures + 1
  /\ UNCHANGED <<account, screen, pages, typed, over, overlays, vSpinner, calls,
                 count, changes, slips>>

------------------------------------------------------------------------------
Tap(u) ==
  \/ SignUp(u)
  \/ confirmEmailPassword(u)
  \/ Type(u)
  \/ ConfirmNames(u)
  \/ \E field \in Fields : ShowSheet(u, field)
  \/ didSelectRow(u)
  \/ Incomplete(u)
  \/ nextPage(u)
  \/ Back(u)
  \/ Dismiss(u)

Answer(c) ==
  \/ UserCreated(c)
  \/ UserRefused(c)
  \/ NamesRejected(c)
  \/ NamesAccepted(c)
  \/ TokenFetched(c)
  \/ NamesDropped(c)
  \/ PicturesFetched(c)

Next ==
  \/ \E u \in Signers : Tap(u) \/ BatchCommitted(u) \/ BatchRefused(u) \/ Relaunch(u)
  \/ \E c \in calls : Answer(c)
  \/ \E u \in Signers : changeCourse(u)
  \/ CourseChanged
  \/ CourseRefused

Spec == Init /\ [][Next]_vars

------------------------------------------------------------------------------
(* Properties *)

\* A profile that names a university or a course has the membership that the
\* search pages count and list, however the batches of a user and of the
\* developers (University.swift:94, ChangePeoplesCourses.swift:98) interleave.
Backed ==
  \A u \in Users, field \in Fields : \A x \in Options(field) :
    Profile(u, field, x) \in docs => Member(field, x, u) \in docs

\* Whoever is listed under a university or a course chose it before, unless a
\* request failed: the listing (UniAndCourse.swift:176) is another write than
\* the choices it is made from, and the developers take Pending back.  The
\* university they type may not be the user's, but it gives no place in the
\* total (ChangePeoplesCourses.swift:100).
ListedAreMembers ==
  \A u \in Users, x \in Universities, c \in Courses \cup {Total} :
    failures = 0 /\ Listing(x, c, u) \in docs =>
      /\ c = Total \/ changes = 0 => Member("University", x, u) \in docs
      /\ c \in {Pending, Total} \/ Member("Course", c, u) \in docs

\* Nobody is a member or listed without a username, through four screens that
\* write one after the other, refusals and restarts, unless the name was typed
\* anew while it was being checked (NameAndUsername.swift:249).
ListedAreNamed ==
  \A u \in Signers :
    /\ "retyped" \notin slips[u]
    /\ \E field \in Fields : \E x \in Options(field) : Member(field, x, u) \in docs
    => \E n \in Names : Username(u, n) \in docs

\* Unless it was typed anew while it was being checked, the name a sign-up
\* stores is not the name of a user who had signed up before: "This username
\* has been taken" (NameAndUsername.swift:236).  Between two sign-ups at once
\* nothing of the kind holds: each checks before the other writes.
NamesUnique ==
  \A u \in Signers, n \in Names : \A a \in Users \ Signers :
    {Username(u, n), Username(a, n)} \subseteq docs => "retyped" \in slips[u]

\* A sign-up that has reached the home page through its last screen is listed
\* under the university and the course of its profile, unless a request failed,
\* a page was left or confirmed again while its request was under way, or the
\* developers changed the course.
FinishedListed ==
  \A u \in Signers, x \in Universities, c \in Courses :
    /\ screen[u] = "home" /\ count[u].listings > 0 /\ outbox[u] = <<>>
    /\ failures = 0 /\ changes = 0
    /\ slips[u] \cap {"left", "again"} = {}
    /\ {Profile(u, "University", x), Profile(u, "Course", c)} \subseteq docs
    => {Listing(x, Total, u), Listing(x, c, u)} \subseteq docs

\* Once every request of a sign-up has been answered no screen is left under an
\* overlay, whichever answer took off whichever overlay, unless a request failed
\* or the return key confirmed the names under one: then the one overlay is
\* forgotten for the other (EditProfilePage.swift:818).
OverlaysEnd ==
  \A u \in Signers :
    ~ Busy(u) /\ screen[u] = "names" /\ Covered(u) =>
      failures > 0 \/ "again" \in slips[u]
=============================================================================
