------------------------------- MODULE Friends -------------------------------
(***************************************************************************)
(* Friend requests, friendships and blocks: the profile page of another    *)
(* user (SearchProfile.swift, FriendsLogic.swift) and the list of incoming *)
(* requests (FriendRequests.swift), over Firestore.                        *)
(*                                                                         *)
(* Each user runs the app on one device, with at most one profile page and *)
(* one request list open.  A profile page reacts to three kinds of         *)
(* snapshot listeners, each created inside the callback of the one before  *)
(* and never removed there; what each has delivered last is state.         *)
(***************************************************************************)
EXTENDS Integers, Sequences

CONSTANTS
  Users,
  Visits,       \* the pairs <<v, p>> such that v opens p's profile (a bound)
  Hosts,        \* the users who open their request list (a bound)
  MaxVisits,    \* bound on screens opened, covered, and on relaunches
  MaxWrites,    \* bound on the batches ever queued
  MaxFailures,  \* bound on refused batches and failed reads
  MaxQueries,   \* a list is not refreshed with more loads under way than this
  None

ASSUME FriendsAssumption ==
  /\ Visits \subseteq Users \X Users
  /\ Hosts \subseteq Users
  /\ MaxVisits \in Nat
  /\ MaxWrites \in Nat
  /\ MaxFailures \in Nat
  /\ MaxQueries \in Nat
  /\ None \notin Users

VARIABLES
  docs, outbox, \* see Firestore
  page,         \* per user, the profile page on the navigation stack
  list,         \* per user, the request list
  vSpinner,     \* per user, the screen whose overlay the global vSpinner holds
  asked,        \* history: requests that reached the server
  visits,       \* number of screens opened or covered and relaunches so far
  writes,       \* number of batches queued so far
  failures      \* number of failures so far

vars == <<docs, outbox, page, list, vSpinner, asked, visits, writes, failures>>

INSTANCE Firestore WITH Clients <- Users

------------------------------------------------------------------------------
(* Documents: each exists or not, and its path says all there is to it. *)

Requested(o, f) == <<"Requested", o, f>>   \* Friends/o/Requested/f
Accepted(o, f) == <<"Accepted", o, f>>     \* Friends/o/Accepted/f
Blocked(o, f) == <<"Blocked", o, f>>       \* Blocked/o/BlockedUsers/f

Documents == {"Requested", "Accepted", "Blocked"} \X Users \X Users

(* What the completion handler of a batch does once it is acknowledged. *)
Handlers == {"nothing", "reveal", "blocked", "hide", "unblocked"}

Batch(puts, dels, handler) == [puts |-> puts, dels |-> dels, handler |-> handler]
Batches == [puts : SUBSET Documents, dels : SUBSET Documents, handler : Handlers]

Write(u, batch) ==
  /\ writes < MaxWrites
  /\ writes' = writes + 1
  /\ Enqueue(u, batch)
  /\ UNCHANGED <<docs, asked, visits, failures>>

------------------------------------------------------------------------------
(* Screens *)

Seen == {"never", "absent", "exists", "removed"}
Titles == {"", "Friends", "Requested", "Blocked", "Add friend"}

Pages == [
  uid : Users \cup {None},     \* whose profile; None when no page is open
  visible : BOOLEAN,
  hidden : BOOLEAN,            \* AddFriendButton.isHidden
  checking : BOOLEAN,          \* the read of CheckIfBlocked is unanswered
  first : Seen,                \* quoteListener, on Accepted(uid, me)
  second : Seq(Seen),          \* quoteListener2 and those it overwrote
  third : Seq(Seen),           \* quoteListener3 and those it overwrote
  title : Titles,
  alert : {"none", "blocked", "unblocked"},
  overlays : Nat]

NoPage == [uid |-> None, visible |-> FALSE, hidden |-> FALSE,
           checking |-> FALSE, first |-> "removed", second |-> <<>>,
           third |-> <<>>, title |-> "", alert |-> "none", overlays |-> 0]

Lists == [
  open : BOOLEAN,
  queries : Nat,               \* getDocuments calls not yet answered
  fetching : [Users -> Nat],   \* reads of a requester's user document
  rows : [Users -> Nat],       \* the array requests, as a bag
  bound : SUBSET Users,        \* uids of the recognizers on reused cells
  overlays : Nat]

NoList == [open |-> FALSE, queries |-> 0, fetching |-> [f \in Users |-> 0],
           rows |-> [f \in Users |-> 0], bound |-> {}, overlays |-> 0]

Screens == {"none", "page", "list"}

TypeOK ==
  /\ docs \in SUBSET Documents
  /\ outbox \in [Users -> Seq(Batches)]
  /\ page \in [Users -> Pages]
  /\ list \in [Users -> Lists]
  /\ vSpinner \in [Users -> Screens]
  /\ asked \in SUBSET (Users \X Users)
  /\ visits \in 0..MaxVisits
  /\ writes \in 0..MaxWrites
  /\ failures \in 0..MaxFailures

Init ==
  /\ docs = {}
  /\ outbox = [u \in Users |-> <<>>]
  /\ page = [u \in Users |-> NoPage]
  /\ list = [u \in Users |-> NoList]
  /\ vSpinner = [u \in Users |-> "none"]
  /\ asked = {}
  /\ visits = 0
  /\ writes = 0
  /\ failures = 0

serverVars == <<docs, outbox, asked, writes>>

Visit == visits < MaxVisits /\ visits' = visits + 1

Fail == failures < MaxFailures /\ failures' = failures + 1

------------------------------------------------------------------------------
(* Acknowledgements.  removeSpinner takes away the one overlay the global  *)
(* vSpinner still refers to; alerts are shown by a page in the window.      *)

\* Mutant: removes an overlay without asking which one vSpinner holds.
Complete_DropsTwice(u, done) ==
  LET handler == Head(outbox[u]).handler
      hides == handler \in {"blocked", "hide"} \/ (handler = "reveal" /\ done)
      alerts == /\ handler \in {"blocked", "unblocked"}
                /\ page[u].visible
                /\ page[u].alert = "none"
  IN
  /\ page' = [page EXCEPT
       ![u].overlays = IF hides THEN @ - 1 ELSE @,
       ![u].alert = IF alerts THEN handler ELSE @]
  /\ list' = [list EXCEPT
       ![u].overlays = IF hides /\ vSpinner[u] = "list" THEN @ - 1 ELSE @]
  /\ vSpinner' = IF hides THEN [vSpinner EXCEPT ![u] = "none"] ELSE vSpinner

\* Mutant: forgets vSpinner = nil.
Complete_KeepsReference(u, done) ==
  LET handler == Head(outbox[u]).handler
      hides == handler \in {"blocked", "hide"} \/ (handler = "reveal" /\ done)
      alerts == /\ handler \in {"blocked", "unblocked"}
                /\ page[u].visible
                /\ page[u].alert = "none"
  IN
  /\ page' = [page EXCEPT
       ![u].overlays = IF hides /\ vSpinner[u] = "page" THEN @ - 1 ELSE @,
       ![u].alert = IF alerts THEN handler ELSE @]
  /\ list' = [list EXCEPT
       ![u].overlays = IF hides /\ vSpinner[u] = "list" THEN @ - 1 ELSE @]
  /\ UNCHANGED vSpinner

Complete(u, done) ==
  LET handler == Head(outbox[u]).handler
      hides == handler \in {"blocked", "hide"} \/ (handler = "reveal" /\ done)
      alerts == /\ handler \in {"blocked", "unblocked"}
                /\ page[u].visible
                /\ page[u].alert = "none"
  IN
  /\ page' = [page EXCEPT
       ![u].overlays = IF hides /\ vSpinner[u] = "page" THEN @ - 1 ELSE @,
       ![u].alert = IF alerts THEN handler ELSE @]
  /\ list' = [list EXCEPT
       ![u].overlays = IF hides /\ vSpinner[u] = "list" THEN @ - 1 ELSE @]
  /\ vSpinner' = IF hides THEN [vSpinner EXCEPT ![u] = "none"] ELSE vSpinner

Committed(u) ==
  /\ Commit(u)
  /\ asked' = asked \cup {w \in Users \X Users :
                            Requested(w[1], w[2]) \in Head(outbox[u]).puts}
  /\ Complete(u, TRUE)
  /\ UNCHANGED <<visits, writes, failures>>

Refused(u) ==
  /\ Refuse(u)
  /\ Fail
  /\ Complete(u, FALSE)
  /\ UNCHANGED <<asked, visits, writes>>

\* The handlers of a screen that is gone are called, but show nothing.
Orphan(u, f) ==
  [outbox EXCEPT ![u] = [i \in DOMAIN @ |->
                           [@[i] EXCEPT !.handler = f[outbox[u][i].handler]]]]

------------------------------------------------------------------------------
(* SearchProfile *)

OpenProfile(v, p) ==
  /\ Visit
  /\ page[v].uid = None
  /\ page' = [page EXCEPT ![v] =
       [NoPage EXCEPT !.uid = p, !.visible = TRUE, !.hidden = (p = v),
                      !.checking = TRUE, !.first = "never"]]
  /\ UNCHANGED <<serverVars, list, vSpinner, failures>>

\* The one read that hides the page from someone its owner has blocked.
CheckIfBlocked(v) ==
  /\ page[v].checking
  /\ \/ /\ page' = [page EXCEPT
             ![v].checking = FALSE,
             ![v].hidden = @ \/ Sees(v, Blocked(page[v].uid, v))]
        /\ UNCHANGED failures
     \/ /\ Fail
        /\ page' = [page EXCEPT ![v].checking = FALSE]
  /\ UNCHANGED <<serverVars, list, vSpinner, visits>>

Value(v, d) == IF Sees(v, d) THEN "exists" ELSE "absent"

\* A listener is due when what it delivered last is no longer what v reads.
Due(v, seen, d) == seen \notin {"removed", Value(v, d)}

AcceptedDue(v) == Due(v, page[v].first, Accepted(page[v].uid, v))
RequestedDue(v, i) == Due(v, page[v].second[i], Requested(page[v].uid, v))
BlockedDue(v, i) == Due(v, page[v].third[i], Blocked(v, page[v].uid))

\* Mutant: subscribes to the request only the first time.
areTheyFriends_Once(v) ==
  /\ AcceptedDue(v)
  /\ page' = IF Sees(v, Accepted(page[v].uid, v))
             THEN [page EXCEPT ![v].first = "exists", ![v].title = "Friends"]
             ELSE [page EXCEPT ![v].first = "absent",
                               ![v].second = IF @ = <<>> THEN <<"never">> ELSE @]
  /\ UNCHANGED <<serverVars, list, vSpinner, visits, failures>>

\* Mutant: has no branch for a document that does not exist.
areTheyFriends_NoElse(v) ==
  /\ AcceptedDue(v)
  /\ page' = IF Sees(v, Accepted(page[v].uid, v))
             THEN [page EXCEPT ![v].first = "exists", ![v].title = "Friends"]
             ELSE [page EXCEPT ![v].first = "absent"]
  /\ UNCHANGED <<serverVars, list, vSpinner, visits, failures>>

areTheyFriends(v) ==
  /\ AcceptedDue(v)
  /\ page' = IF Sees(v, Accepted(page[v].uid, v))
             THEN [page EXCEPT ![v].first = "exists", ![v].title = "Friends"]
             ELSE [page EXCEPT ![v].first = "absent",
                               ![v].second = Append(@, "never")]
  /\ UNCHANGED <<serverVars, list, vSpinner, visits, failures>>

checkIfRequested(v) ==
  \E i \in DOMAIN page[v].second :
    /\ RequestedDue(v, i)
    /\ page' = IF Sees(v, Requested(page[v].uid, v))
               THEN [page EXCEPT ![v].second[i] = "exists",
                                 ![v].title = "Requested"]
               ELSE [page EXCEPT ![v].second[i] = "absent",
                                 ![v].third = Append(@, "never")]
    /\ UNCHANGED <<serverVars, list, vSpinner, visits, failures>>

CheckIfYouBlockedThem(v) ==
  \E i \in DOMAIN page[v].third :
    /\ BlockedDue(v, i)
    /\ page' = IF Sees(v, Blocked(v, page[v].uid))
               THEN [page EXCEPT ![v].third[i] = "exists",
                                 ![v].title = "Blocked"]
               ELSE [page EXCEPT ![v].third[i] = "absent",
                                 ![v].title = "Add friend"]
    /\ UNCHANGED <<serverVars, list, vSpinner, visits, failures>>

\* The button can be tapped: it is on screen, with nothing laid over it.
Tappable(v) ==
  /\ page[v].uid # None
  /\ page[v].visible
  /\ ~ page[v].hidden
  /\ page[v].overlays = 0
  /\ page[v].alert = "none"

\* AddFriend does what the title says, not what the documents say.
handleRemoveFriend(v) ==
  /\ Tappable(v)
  /\ page[v].title = "Friends"
  /\ Write(v, Batch({}, {Accepted(page[v].uid, v)}, "nothing"))
  /\ UNCHANGED <<page, list, vSpinner>>

handleCancelRequest(v) ==
  /\ Tappable(v)
  /\ page[v].title = "Requested"
  /\ Write(v, Batch({}, {Requested(page[v].uid, v)}, "nothing"))
  /\ UNCHANGED <<page, list, vSpinner>>

handleUnblockUser(v) ==
  /\ Tappable(v)
  /\ page[v].title = "Blocked"
  /\ Write(v, Batch({}, {Blocked(v, page[v].uid)}, "unblocked"))
  /\ UNCHANGED <<page, list, vSpinner>>

handleRequestFriend(v) ==
  /\ Tappable(v)
  /\ page[v].title \notin {"Friends", "Requested", "Blocked"}
  /\ Write(v, Batch({Requested(page[v].uid, v)}, {}, "nothing"))
  /\ UNCHANGED <<page, list, vSpinner>>

\* Mutant: deletes the blocker's side of the friendship only.
blockuser_OneSide(v) ==
  LET p == page[v].uid IN
  /\ p # None
  /\ page[v].visible
  /\ page[v].alert = "none"
  /\ Write(v, Batch({Blocked(v, p)}, {Accepted(v, p)}, "blocked"))
  /\ page' = [page EXCEPT ![v].overlays = @ + 1]
  /\ vSpinner' = [vSpinner EXCEPT ![v] = "page"]
  /\ UNCHANGED list

\* The menu is in the navigation bar, which no overlay covers.
blockuser(v) ==
  LET p == page[v].uid IN
  /\ p # None
  /\ page[v].visible
  /\ page[v].alert = "none"
  /\ Write(v, Batch({Blocked(v, p)}, {Accepted(v, p), Accepted(p, v)}, "blocked"))
  /\ page' = [page EXCEPT ![v].overlays = @ + 1]
  /\ vSpinner' = [vSpinner EXCEPT ![v] = "page"]
  /\ UNCHANGED list

DismissAlert(v) ==
  /\ page[v].alert # "none"
  /\ page' = [page EXCEPT ![v].alert = "none"]
  /\ UNCHANGED <<serverVars, list, vSpinner, visits, failures>>

RemoveLast(s) == IF s = <<>> THEN s ELSE [s EXCEPT ![Len(s)] = "removed"]

\* Another screen is pushed: viewDidDisappear removes the handles it has.
Cover(v) ==
  /\ Visit
  /\ page[v].visible
  /\ page[v].alert = "none"
  /\ page' = [page EXCEPT ![v].visible = FALSE,
                          ![v].first = "removed",
                          ![v].second = RemoveLast(@),
                          ![v].third = RemoveLast(@)]
  /\ UNCHANGED <<serverVars, list, vSpinner, failures>>

\* Coming back calls viewWillAppear, which adds no listener.
Reveal(v) ==
  /\ page[v].uid # None
  /\ ~ page[v].visible
  /\ page' = [page EXCEPT ![v].visible = TRUE]
  /\ UNCHANGED <<serverVars, list, vSpinner, visits, failures>>

PopProfile(v) ==
  /\ page[v].visible
  /\ page[v].alert = "none"
  /\ page' = [page EXCEPT ![v] = NoPage]
  /\ vSpinner' = [vSpinner EXCEPT ![v] = IF @ = "page" THEN "none" ELSE @]
  /\ outbox' = Orphan(v, [h \in Handlers |-> CASE h = "blocked" -> "hide"
                                               [] h = "unblocked" -> "nothing"
                                               [] OTHER -> h])
  /\ UNCHANGED <<docs, list, asked, visits, writes, failures>>

------------------------------------------------------------------------------
(* FriendRequests *)

OpenRequests(o) ==
  /\ Visit
  /\ ~ list[o].open
  /\ ~ page[o].visible
  /\ list' = [list EXCEPT ![o] = [NoList EXCEPT !.open = TRUE, !.queries = 1]]
  /\ UNCHANGED <<serverVars, page, vSpinner, failures>>

\* A profile page, pushed over the list or in another tab, hides it.
OnScreen(o) == list[o].open /\ ~ page[o].visible

refreshfriendRequests(o) ==
  /\ OnScreen(o)
  /\ list[o].queries < MaxQueries
  /\ \A f \in Users : list[o].fetching[f] < MaxQueries
  /\ list' = [list EXCEPT ![o].rows = [f \in Users |-> 0],
                          ![o].queries = @ + 1]
  /\ UNCHANGED <<serverVars, page, vSpinner, visits, failures>>

\* Mutant: reads the requests this user has sent.
getFriendRequests_Sent(o) ==
  /\ list[o].queries > 0
  /\ \/ /\ list' = [list EXCEPT
             ![o].queries = @ - 1,
             ![o].fetching = [f \in Users |->
                @[f] + IF Sees(o, Requested(f, o)) THEN 1 ELSE 0]]
        /\ UNCHANGED failures
     \/ /\ Fail
        /\ list' = [list EXCEPT ![o].queries = @ - 1]
  /\ UNCHANGED <<serverVars, page, vSpinner, visits>>

\* getDocuments answers: one more read is started for every requester.
getFriendRequests(o) ==
  /\ list[o].queries > 0
  /\ \/ /\ list' = [list EXCEPT
             ![o].queries = @ - 1,
             ![o].fetching = [f \in Users |->
                @[f] + IF Sees(o, Requested(o, f)) THEN 1 ELSE 0]]
        /\ UNCHANGED failures
     \/ /\ Fail
        /\ list' = [list EXCEPT ![o].queries = @ - 1]
  /\ UNCHANGED <<serverVars, page, vSpinner, visits>>

\* The user document arrives: a row is appended and drawn in some cell.
RequesterLoaded(o, f) ==
  /\ list[o].fetching[f] > 0
  /\ \/ /\ list' = [list EXCEPT ![o].fetching[f] = @ - 1,
                                ![o].rows[f] = @ + 1,
                                ![o].bound = @ \cup {f}]
        /\ UNCHANGED failures
     \/ /\ Fail
        /\ list' = [list EXCEPT ![o].fetching[f] = @ - 1]
  /\ UNCHANGED <<serverVars, page, vSpinner, visits>>

\* A cell keeps the recognizers of every row it has ever shown, so a tap
\* on a row may be taken by the recognizer of another requester.
Tapped(o, f) ==
  /\ OnScreen(o)
  /\ list[o].overlays = 0
  /\ \E g \in Users : list[o].rows[g] > 0
  /\ f \in list[o].bound

\* Mutant: writes the friendship on the other side.
AcceptRequest_OtherSide(o, f) ==
  /\ Tapped(o, f)
  /\ Write(o, Batch({Accepted(f, o)}, {Requested(o, f)}, "reveal"))
  /\ list' = [list EXCEPT ![o].overlays = @ + 1]
  /\ vSpinner' = [vSpinner EXCEPT ![o] = "list"]
  /\ UNCHANGED page

AcceptRequest(o, f) ==
  /\ Tapped(o, f)
  /\ Write(o, Batch({Accepted(o, f)}, {Requested(o, f)}, "reveal"))
  /\ list' = [list EXCEPT ![o].overlays = @ + 1]
  /\ vSpinner' = [vSpinner EXCEPT ![o] = "list"]
  /\ UNCHANGED page

DeleteRequest(o, f) ==
  /\ Tapped(o, f)
  /\ Write(o, Batch({}, {Requested(o, f)}, "nothing"))
  /\ UNCHANGED <<page, list, vSpinner>>

CloseRequests(o) ==
  /\ OnScreen(o)
  /\ list' = [list EXCEPT ![o] = NoList]
  /\ vSpinner' = [vSpinner EXCEPT ![o] = IF @ = "list" THEN "none" ELSE @]
  /\ UNCHANGED <<serverVars, page, visits, failures>>

------------------------------------------------------------------------------

\* The app is killed and started again: Firestore keeps the outbox on disk.
Relaunch(u) ==
  /\ Visit
  /\ page[u].uid # None \/ list[u].open
  /\ page' = [page EXCEPT ![u] = NoPage]
  /\ list' = [list EXCEPT ![u] = NoList]
  /\ vSpinner' = [vSpinner EXCEPT ![u] = "none"]
  /\ outbox' = Orphan(u, [h \in Handlers |-> "nothing"])
  /\ UNCHANGED <<docs, asked, writes, failures>>

Taps(v) ==
  \/ handleRemoveFriend(v)
  \/ handleCancelRequest(v)
  \/ handleUnblockUser(v)
  \/ handleRequestFriend(v)
  \/ blockuser(v)

Navigation(v) ==
  \/ \E p \in Users : <<v, p>> \in Visits /\ OpenProfile(v, p)
  \/ DismissAlert(v)
  \/ Cover(v)
  \/ Reveal(v)
  \/ PopProfile(v)

Callbacks(v) ==
  \/ CheckIfBlocked(v)
  \/ areTheyFriends(v)
  \/ checkIfRequested(v)
  \/ CheckIfYouBlockedThem(v)

Requests(o) ==
  \/ OpenRequests(o)
  \/ refreshfriendRequests(o)
  \/ CloseRequests(o)
  \/ getFriendRequests(o)
  \/ \E f \in Users :
       RequesterLoaded(o, f) \/ AcceptRequest(o, f) \/ DeleteRequest(o, f)

\* The bound on visits is reached and every screen has been left.
Done ==
  /\ visits = MaxVisits
  /\ \A u \in Users :
       page[u].uid = None /\ ~ list[u].open /\ outbox[u] = <<>>
  /\ UNCHANGED vars

Next ==
  \/ Done
  \/ \E u \in Users : Committed(u) \/ Refused(u)
  \/ \E v \in Users : Taps(v) \/ Navigation(v) \/ Callbacks(v) \/ Relaunch(v)
  \/ \E o \in Hosts : Requests(o)

Spec == Init /\ [][Next]_vars

\* Firestore retries until the server answers, and a callback that is due is
\* run; nothing obliges a user to tap, or a server to refuse.
Fairness ==
  /\ \A u \in Users :
       /\ WF_vars(Committed(u))
       /\ WF_vars(CheckIfBlocked(u))
       /\ WF_vars(areTheyFriends(u))
       /\ WF_vars(checkIfRequested(u))
       /\ WF_vars(CheckIfYouBlockedThem(u))
       /\ WF_vars(getFriendRequests(u))
       /\ \A f \in Users : WF_vars(RequesterLoaded(u, f))

FairSpec == Spec /\ Fairness

------------------------------------------------------------------------------
(* Properties *)

\* Nobody becomes a friend who never asked: a friendship on the server stands
\* on a request its other side once sent, however late the tap, whichever
\* recognizer of a reused cell took it, and whatever was queued offline.
FriendshipWasAsked ==
  \A o, f \in Users : Accepted(o, f) \in docs => <<o, f>> \in asked

\* The overlay the global vSpinner refers to is still on its screen, so that
\* removeSpinner never takes away an overlay twice.
SpinnerOnScreen ==
  \A u \in Users :
    /\ vSpinner[u] = "page" => page[u].overlays > 0
    /\ vSpinner[u] = "list" => list[u].overlays > 0

Settled(v) ==
  /\ page[v].uid # None
  /\ page[v].first # "removed"
  /\ ~ AcceptedDue(v)
  /\ \A i \in DOMAIN page[v].second : ~ RequestedDue(v, i)
  /\ \A i \in DOMAIN page[v].third : ~ BlockedDue(v, i)

\* Once every callback has run, the button of a page that was never covered
\* claims no friendship, request or block that the viewer cannot read back,
\* and offers "Add friend" to nobody the viewer blocks, in whatever order the
\* listeners, those leaked by earlier callbacks included, have fired.
TitleHonest ==
  \A v \in Users : Settled(v) =>
    CASE page[v].title = "Friends" -> Sees(v, Accepted(page[v].uid, v))
      [] page[v].title = "Requested" -> Sees(v, Requested(page[v].uid, v))
      [] page[v].title = "Blocked" -> Sees(v, Blocked(v, page[v].uid))
      [] page[v].title = "Add friend" -> ~ Sees(v, Blocked(v, page[v].uid))
      [] page[v].title = "" -> FALSE

\* The documents behave as Friendship says, seen through queues and screens.
Pair(kind) == {w \in Users \X Users : <<kind, w[1], w[2]>> \in docs}

Abstract == INSTANCE Friendship WITH
  requested <- Pair("Requested"),
  accepted <- Pair("Accepted"),
  blocked <- Pair("Blocked")

ImplementsFriendship == Abstract!Spec

\* A profile page that stays on screen gets a title: the chain of listeners
\* created in callbacks comes to rest.
TitleConverges ==
  \A v \in Users :
    page[v].first = "never" ~>
      \/ page[v].first = "removed"
      \/ Settled(v) /\ page[v].title # ""

\* A request on the server when a list is loaded appears in that list, unless
\* it is taken back or the list is closed meanwhile, or something failed: a
\* query that fails is not made again.
RequestSurfaces ==
  \A o, f \in Users :
    (list[o].queries > 0 /\ Requested(o, f) \in docs) ~>
      \/ list[o].rows[f] > 0
      \/ ~ Sees(o, Requested(o, f))
      \/ ~ list[o].open
      \/ failures > 0

\* "Not Requested" is for those who are neither friends nor requested.
AddFriendOffered ==
  \A v \in Users :
    Settled(v) /\ page[v].title = "Add friend" =>
      ~ Sees(v, Accepted(page[v].uid, v))
==============================================================================
