---------------------------- MODULE FriendsProofs ----------------------------
(***************************************************************************)
(* Theorems about Friends, for all sets of users and all bounds.           *)
(*                                                                         *)
(* Inv is inductive: an overlay is only removed when vSpinner says there   *)
(* is one, which keeps the overlay counts natural, and a screen that is    *)
(* closed has no overlay for vSpinner to refer to.  AskedInv strengthens   *)
(* FriendshipWasAsked along the way a request takes: from the documents to *)
(* the rows and recognizers of a list, to an acceptance in an outbox, and  *)
(* back to the documents.                                                  *)
(***************************************************************************)
EXTENDS Friends, SequenceTheorems, TLAPS

ClosedPage(u) ==
  /\ ~ page[u].visible
  /\ ~ page[u].checking
  /\ page[u].first = "removed"
  /\ page[u].second = <<>>
  /\ page[u].third = <<>>
  /\ page[u].overlays = 0
  /\ page[u].alert = "none"

ClosedList(o) ==
  /\ list[o].queries = 0
  /\ \A f \in Users : list[o].fetching[f] = 0 /\ list[o].rows[f] = 0
  /\ list[o].overlays = 0

ClosedScreens ==
  \A u \in Users :
    /\ page[u].uid = None => ClosedPage(u)
    /\ ~ list[u].open => ClosedList(u)

Inv == TypeOK /\ SpinnerOnScreen /\ ClosedScreens

------------------------------------------------------------------------------
(* Lemmas about the shape of a step *)

LEMMA NoScreens == NoPage \in Pages /\ NoList \in Lists
<1>1. NoPage \in Pages
  BY DEF NoPage, Pages, Seen, Titles
<1>2. NoList \in Lists
  BY DEF NoList, Lists
<1> QED BY <1>1, <1>2

LEMMA ScreenTypes ==
  ASSUME Inv, NEW u \in Users
  PROVE  page[u] \in Pages /\ list[u] \in Lists
  BY DEF Inv, TypeOK

LEMMA NoPageFields ==
  /\ NoPage.uid = None
  /\ ~ NoPage.visible
  /\ ~ NoPage.checking
  /\ NoPage.first = "removed"
  /\ NoPage.second = <<>>
  /\ NoPage.third = <<>>
  /\ NoPage.overlays = 0
  /\ NoPage.alert = "none"
<1>1. /\ NoPage.uid = None /\ NoPage.first = "removed"
      /\ NoPage.overlays = 0 /\ NoPage.alert = "none"
  BY DEF NoPage
<1>2. NoPage.second = <<>> /\ NoPage.third = <<>>
  BY DEF NoPage
<1>3. ~ NoPage.visible /\ ~ NoPage.checking
  BY DEF NoPage
<1> QED BY <1>1, <1>2, <1>3

LEMMA NoListFields ==
  /\ ~ NoList.open
  /\ NoList.queries = 0
  /\ \A f \in Users : NoList.fetching[f] = 0 /\ NoList.rows[f] = 0
  /\ NoList.overlays = 0
<1>1. NoList.queries = 0 /\ NoList.overlays = 0
  BY DEF NoList
<1>2. \A f \in Users : NoList.fetching[f] = 0 /\ NoList.rows[f] = 0
  BY DEF NoList
<1>3. ~ NoList.open
  BY DEF NoList
<1> QED BY <1>1, <1>2, <1>3

\* What an acknowledgement does to a page.
LEMMA PageAcknowledged ==
  ASSUME NEW P \in Pages, NEW n \in Nat,
         NEW a \in {"none", "blocked", "unblocked"}
  PROVE  LET Q == [P EXCEPT !.overlays = n, !.alert = a] IN
         /\ Q \in Pages
         /\ Q.uid = P.uid
         /\ Q.visible = P.visible
         /\ Q.checking = P.checking
         /\ Q.first = P.first
         /\ Q.second = P.second
         /\ Q.third = P.third
         /\ Q.overlays = n
<1> DEFINE Q == [P EXCEPT !.overlays = n, !.alert = a]
<1>1. Q \in Pages
  BY DEF Pages
<1>2. Q.uid = P.uid /\ Q.overlays = n
  BY DEF Pages
<1>3. Q.visible = P.visible /\ Q.checking = P.checking /\ Q.first = P.first
  BY DEF Pages
<1>4. Q.second = P.second /\ Q.third = P.third
  BY DEF Pages
<1> QED BY <1>1, <1>2, <1>3, <1>4

LEMMA ListAcknowledged ==
  ASSUME NEW L \in Lists, NEW n \in Nat
  PROVE  LET M == [L EXCEPT !.overlays = n] IN
         /\ M \in Lists
         /\ M.open = L.open
         /\ M.queries = L.queries
         /\ M.fetching = L.fetching
         /\ M.rows = L.rows
         /\ M.bound = L.bound
         /\ M.overlays = n
<1> DEFINE M == [L EXCEPT !.overlays = n]
<1>1. M \in Lists
  BY DEF Lists
<1>2. M.open = L.open /\ M.queries = L.queries /\ M.overlays = n
  BY DEF Lists
<1>3. M.fetching = L.fetching /\ M.rows = L.rows /\ M.bound = L.bound
  BY DEF Lists
<1> QED BY <1>1, <1>2, <1>3

\* One listener of a sequence has delivered, or one more is created.
LEMMA ListenerTypes ==
  ASSUME NEW s \in Seq(Seen), NEW now \in Seen
  PROVE  /\ Append(s, now) \in Seq(Seen)
         /\ \A i \in DOMAIN s : [s EXCEPT ![i] = now] \in Seq(Seen)
<1>1. Append(s, now) \in Seq(Seen)
  OBVIOUS
<1>2. ASSUME NEW i \in DOMAIN s PROVE [s EXCEPT ![i] = now] \in Seq(Seen)
  BY ExceptSeq
<1> QED BY <1>1, <1>2

\* A page with listeners is open.
LEMMA ListeningPage ==
  ASSUME Inv, NEW v \in Users, NEW i \in DOMAIN page[v].third
  PROVE  page[v].uid # None
<1>1. page[v].uid = None => page[v].third = <<>>
  BY DEF Inv, ClosedScreens, ClosedPage
<1>2. page[v].third \in Seq(Seen)
  BY ScreenTypes DEF Pages
<1>3. page[v].third # <<>>
  BY <1>2
<1> QED BY <1>1, <1>3

\* A step that changes only the profile page of one user, and no overlay.
LEMMA PageStep ==
  ASSUME Inv, NEW v \in Users, NEW P \in Pages,
         page' = [page EXCEPT ![v] = P],
         P.overlays = page[v].overlays,
         P.uid # None,
         UNCHANGED <<serverVars, list, vSpinner>>,
         visits' \in 0..MaxVisits, failures' \in 0..MaxFailures
  PROVE  Inv'
<1>1. TypeOK'
  BY DEF Inv, TypeOK, serverVars
<1>2. SpinnerOnScreen'
  BY DEF Inv, TypeOK, SpinnerOnScreen
<1>3. ClosedScreens'
  BY DEF Inv, TypeOK, ClosedScreens, ClosedPage, ClosedList
<1> QED BY <1>1, <1>2, <1>3 DEF Inv

\* A step that changes only the request list of one user, and no overlay.
LEMMA ListStep ==
  ASSUME Inv, NEW o \in Users, NEW L \in Lists,
         list' = [list EXCEPT ![o] = L],
         L.overlays = list[o].overlays,
         L.open,
         UNCHANGED <<serverVars, page, vSpinner, visits>>,
         failures' \in 0..MaxFailures
  PROVE  Inv'
<1>1. TypeOK'
  BY DEF Inv, TypeOK, serverVars
<1>2. SpinnerOnScreen'
  BY DEF Inv, TypeOK, SpinnerOnScreen
<1>3. ClosedScreens'
  BY DEF Inv, TypeOK, ClosedScreens, ClosedPage, ClosedList
<1> QED BY <1>1, <1>2, <1>3 DEF Inv

LEMMA WriteTypes ==
  ASSUME TypeOK, NEW u \in Users, NEW batch \in Batches, Write(u, batch)
  PROVE  /\ docs' \in SUBSET Documents
         /\ outbox' \in [Users -> Seq(Batches)]
         /\ asked' \in SUBSET (Users \X Users)
         /\ visits' \in 0..MaxVisits
         /\ writes' \in 0..MaxWrites
         /\ failures' \in 0..MaxFailures
  BY FriendsAssumption DEF TypeOK, Write, Enqueue

\* A tap that does nothing but queue a batch.
LEMMA WriteStep ==
  ASSUME Inv, NEW u \in Users, NEW batch \in Batches, Write(u, batch),
         UNCHANGED <<page, list, vSpinner>>
  PROVE  Inv'
<1>1. TypeOK'
  BY WriteTypes DEF Inv, TypeOK
<1>2. SpinnerOnScreen' /\ ClosedScreens'
  BY DEF Inv, SpinnerOnScreen, ClosedScreens, ClosedPage, ClosedList
<1> QED BY <1>1, <1>2 DEF Inv

LEMMA DocumentTypes ==
  ASSUME NEW o \in Users, NEW f \in Users
  PROVE  /\ Requested(o, f) \in Documents
         /\ Accepted(o, f) \in Documents
         /\ Blocked(o, f) \in Documents
  BY DEF Requested, Accepted, Blocked, Documents

LEMMA BatchTypes ==
  ASSUME NEW puts \in SUBSET Documents, NEW dels \in SUBSET Documents,
         NEW handler \in Handlers
  PROVE  Batch(puts, dels, handler) \in Batches
  BY DEF Batch, Batches

LEMMA OrphanTypes ==
  ASSUME TypeOK, NEW u \in Users, NEW f \in [Handlers -> Handlers]
  PROVE  Orphan(u, f) \in [Users -> Seq(Batches)]
<1> DEFINE q == outbox[u]
           r == [i \in DOMAIN q |-> [q[i] EXCEPT !.handler = f[q[i].handler]]]
<1>1. q \in Seq(Batches)
  BY DEF TypeOK
<1>2. ASSUME NEW i \in DOMAIN q
      PROVE  [q[i] EXCEPT !.handler = f[q[i].handler]] \in Batches
  <2>1. q[i] \in Batches
    BY <1>1, <1>2
  <2> QED BY <2>1 DEF Batches
<1>3. r \in Seq(Batches)
  <2>1. Len(q) \in Nat /\ DOMAIN q = 1..Len(q)
    BY <1>1
  <2>2. r \in [1..Len(q) -> Batches]
    BY <1>2, <2>1
  <2> QED BY <2>1, <2>2, SeqDef
<1> QED BY <1>3 DEF TypeOK, Orphan

------------------------------------------------------------------------------
(* Inv is preserved by every action. *)

LEMMA CompleteInv ==
  ASSUME Inv, NEW u \in Users, NEW done \in BOOLEAN, outbox[u] # <<>>,
         Complete(u, done)
  PROVE  /\ page' \in [Users -> Pages]
         /\ list' \in [Users -> Lists]
         /\ vSpinner' \in [Users -> Screens]
         /\ SpinnerOnScreen'
         /\ ClosedScreens'
<1> DEFINE handler == Head(outbox[u]).handler
           hides == handler \in {"blocked", "hide"} \/ (handler = "reveal" /\ done)
           alerts == /\ handler \in {"blocked", "unblocked"}
                     /\ page[u].visible
                     /\ page[u].alert = "none"
           n == IF hides /\ vSpinner[u] = "page" THEN page[u].overlays - 1
                                                 ELSE page[u].overlays
           a == IF alerts THEN handler ELSE page[u].alert
           m == IF hides /\ vSpinner[u] = "list" THEN list[u].overlays - 1
                                                 ELSE list[u].overlays
           P == [page[u] EXCEPT !.overlays = n, !.alert = a]
           L == [list[u] EXCEPT !.overlays = m]
<1>1. page[u] \in Pages /\ list[u] \in Lists
  BY ScreenTypes
<1>2. page[u].overlays \in Nat /\ list[u].overlays \in Nat
  BY <1>1 DEF Pages, Lists
<1>3. n \in Nat /\ m \in Nat
  BY <1>2 DEF Inv, SpinnerOnScreen
<1>4. a \in {"none", "blocked", "unblocked"}
  BY <1>1 DEF Pages
<1>5. page' = [page EXCEPT ![u] = P] /\ list' = [list EXCEPT ![u] = L]
  BY DEF Complete
<1>6. vSpinner' = IF hides THEN [vSpinner EXCEPT ![u] = "none"] ELSE vSpinner
  BY DEF Complete
<1>7. vSpinner'[u] = "page" => n = page[u].overlays /\ vSpinner[u] = "page"
  BY <1>6 DEF Inv, TypeOK
<1>8. vSpinner'[u] = "list" => m = list[u].overlays /\ vSpinner[u] = "list"
  BY <1>6 DEF Inv, TypeOK
<1>9. \A w \in Users \ {u} : vSpinner'[w] = vSpinner[w]
  BY <1>6 DEF Inv, TypeOK
<1>10. page[u].overlays = 0 => n = 0
  BY DEF Inv, SpinnerOnScreen
<1>11. list[u].overlays = 0 => m = 0
  BY DEF Inv, SpinnerOnScreen
<1>12. vSpinner' \in [Users -> Screens]
  BY <1>6 DEF Inv, TypeOK, Screens
<1>18. ~ page[u].visible => a = page[u].alert
  BY Zenon
<1> HIDE DEF n, a, m
<1>13. /\ P \in Pages
       /\ P.uid = page[u].uid
       /\ P.visible = page[u].visible
       /\ P.checking = page[u].checking
       /\ P.first = page[u].first
       /\ P.second = page[u].second
       /\ P.third = page[u].third
       /\ P.overlays = n
  BY <1>1, <1>3, <1>4, PageAcknowledged
<1>19. P.alert = a
  BY <1>1, <1>4 DEF Pages
<1>14. /\ L \in Lists
       /\ L.open = list[u].open
       /\ L.queries = list[u].queries
       /\ L.fetching = list[u].fetching
       /\ L.rows = list[u].rows
       /\ L.overlays = m
  BY <1>1, <1>3, ListAcknowledged
<1> HIDE DEF P, L
<1>15. page' \in [Users -> Pages] /\ list' \in [Users -> Lists]
  BY <1>5, <1>13, <1>14 DEF Inv, TypeOK
<1>16. SpinnerOnScreen'
  BY <1>5, <1>7, <1>8, <1>9, <1>13, <1>14 DEF Inv, TypeOK, SpinnerOnScreen
<1>17. ClosedScreens'
  BY <1>5, <1>10, <1>11, <1>13, <1>14, <1>18, <1>19
     DEF Inv, TypeOK, ClosedScreens, ClosedPage, ClosedList
<1> QED BY <1>12, <1>15, <1>16, <1>17

LEMMA CommittedInv ==
  ASSUME Inv, NEW u \in Users, Committed(u)
  PROVE  Inv'
<1>1. outbox[u] \in Seq(Batches) /\ outbox[u] # <<>>
  BY DEF Inv, TypeOK, Committed, Commit
<1>2. Head(outbox[u]) \in Batches /\ Tail(outbox[u]) \in Seq(Batches)
  BY <1>1
<1>3. docs' \in SUBSET Documents
  BY <1>2 DEF Inv, TypeOK, Committed, Commit, Batches
<1>4. outbox' \in [Users -> Seq(Batches)]
  BY <1>2 DEF Inv, TypeOK, Committed, Commit
<1>5. asked' \in SUBSET (Users \X Users)
  BY DEF Inv, TypeOK, Committed
<1>6. visits' \in 0..MaxVisits /\ writes' \in 0..MaxWrites /\ failures' \in 0..MaxFailures
  BY DEF Inv, TypeOK, Committed
<1> QED BY <1>1, <1>3, <1>4, <1>5, <1>6, CompleteInv DEF Inv, TypeOK, Committed

LEMMA RefusedInv ==
  ASSUME Inv, NEW u \in Users, Refused(u)
  PROVE  Inv'
<1>1. outbox[u] \in Seq(Batches) /\ outbox[u] # <<>>
  BY DEF Inv, TypeOK, Refused, Refuse
<1>2. outbox' \in [Users -> Seq(Batches)]
  BY <1>1 DEF Inv, TypeOK, Refused, Refuse
<1>3. failures' \in 0..MaxFailures
  BY FriendsAssumption DEF Inv, TypeOK, Refused, Fail
<1>4. UNCHANGED <<docs, asked, visits, writes>>
  BY DEF Refused, Refuse
<1> QED BY <1>1, <1>2, <1>3, <1>4, CompleteInv DEF Inv, TypeOK, Refused

LEMMA OpenProfileInv ==
  ASSUME Inv, NEW v \in Users, NEW p \in Users, OpenProfile(v, p)
  PROVE  Inv'
<1> DEFINE P == [NoPage EXCEPT !.uid = p, !.visible = TRUE, !.hidden = (p = v),
                               !.checking = TRUE, !.first = "never"]
<1>1. P \in Pages /\ P.overlays = 0 /\ P.uid = p
  BY NoScreens DEF NoPage, Pages, Seen
<1>2. page[v].overlays = 0
  BY DEF Inv, ClosedScreens, ClosedPage, OpenProfile
<1>3. visits' \in 0..MaxVisits
  BY FriendsAssumption DEF Inv, TypeOK, OpenProfile, Visit
<1>4. page' = [page EXCEPT ![v] = P] /\ UNCHANGED <<serverVars, list, vSpinner>>
  BY DEF OpenProfile
<1>5. p # None /\ failures' \in 0..MaxFailures
  BY FriendsAssumption DEF Inv, TypeOK, OpenProfile
<1> HIDE DEF P
<1> QED BY <1>1, <1>2, <1>3, <1>4, <1>5, PageStep

LEMMA CheckIfBlockedInv ==
  ASSUME Inv, NEW v \in Users, CheckIfBlocked(v)
  PROVE  Inv'
<1> DEFINE P == [page[v] EXCEPT !.checking = FALSE,
                   !.hidden = @ \/ Sees(v, Blocked(page[v].uid, v))]
           Q == [page[v] EXCEPT !.checking = FALSE]
<1>1. page[v] \in Pages
  BY ScreenTypes
<1>2. P \in Pages /\ P.overlays = page[v].overlays /\ P.uid = page[v].uid
  BY <1>1 DEF Pages
<1>3. Q \in Pages /\ Q.overlays = page[v].overlays /\ Q.uid = page[v].uid
  BY <1>1 DEF Pages
<1>4. page[v].uid # None
  BY DEF Inv, ClosedScreens, ClosedPage, CheckIfBlocked
<1>5. page' = [page EXCEPT ![v] = P] \/ page' = [page EXCEPT ![v] = Q]
  BY DEF CheckIfBlocked
<1>6. failures' \in 0..MaxFailures /\ visits' \in 0..MaxVisits
  BY FriendsAssumption DEF Inv, TypeOK, CheckIfBlocked, Fail
<1>7. UNCHANGED <<serverVars, list, vSpinner>>
  BY DEF CheckIfBlocked
<1> QED BY <1>2, <1>3, <1>4, <1>5, <1>6, <1>7, PageStep

LEMMA areTheyFriendsInv ==
  ASSUME Inv, NEW v \in Users, areTheyFriends(v)
  PROVE  Inv'
<1> DEFINE second == Append(page[v].second, "never")
           P == [page[v] EXCEPT !.first = "exists", !.title = "Friends"]
           Q == [page[v] EXCEPT !.first = "absent", !.second = second]
<1>1. page[v] \in Pages /\ page[v].second \in Seq(Seen)
  BY ScreenTypes DEF Pages
<1>2. "exists" \in Seen /\ "absent" \in Seen /\ "never" \in Seen /\ "Friends" \in Titles
  BY DEF Seen, Titles
<1>3. second \in Seq(Seen)
  BY <1>1, <1>2, ListenerTypes
<1> HIDE DEF second
<1>4. page[v].uid # None
  BY DEF Inv, ClosedScreens, ClosedPage, areTheyFriends, AcceptedDue, Due
<1>5. page' = [page EXCEPT ![v] = P] \/ page' = [page EXCEPT ![v] = Q]
  BY DEF areTheyFriends, second
<1>6. UNCHANGED <<serverVars, list, vSpinner, visits, failures>>
  BY DEF areTheyFriends
<1>7. P \in Pages /\ Q \in Pages
  BY <1>1, <1>2, <1>3 DEF Pages
<1>8. /\ P.overlays = page[v].overlays /\ P.uid = page[v].uid
      /\ Q.overlays = page[v].overlays /\ Q.uid = page[v].uid
  BY <1>1 DEF Pages
<1>9. visits' \in 0..MaxVisits /\ failures' \in 0..MaxFailures
  BY <1>6 DEF Inv, TypeOK
<1> HIDE DEF P, Q
<1> QED BY <1>4, <1>5, <1>6, <1>7, <1>8, <1>9, PageStep

LEMMA checkIfRequestedInv ==
  ASSUME Inv, NEW v \in Users, checkIfRequested(v)
  PROVE  Inv'
<1> PICK i \in DOMAIN page[v].second :
      /\ page' = IF Sees(v, Requested(page[v].uid, v))
                 THEN [page EXCEPT ![v].second[i] = "exists",
                                   ![v].title = "Requested"]
                 ELSE [page EXCEPT ![v].second[i] = "absent",
                                   ![v].third = Append(@, "never")]
      /\ UNCHANGED <<serverVars, list, vSpinner, visits, failures>>
  BY DEF checkIfRequested
<1> DEFINE yes == [page[v].second EXCEPT ![i] = "exists"]
           no == [page[v].second EXCEPT ![i] = "absent"]
           third == Append(page[v].third, "never")
           P == [page[v] EXCEPT !.second = yes, !.title = "Requested"]
           Q == [page[v] EXCEPT !.second = no, !.third = third]
<1>1. page[v] \in Pages /\ page[v].second \in Seq(Seen) /\ page[v].third \in Seq(Seen)
  BY ScreenTypes DEF Pages
<1>2. "exists" \in Seen /\ "absent" \in Seen /\ "never" \in Seen /\ "Requested" \in Titles
  BY DEF Seen, Titles
<1>3. yes \in Seq(Seen) /\ no \in Seq(Seen) /\ third \in Seq(Seen)
  BY <1>1, <1>2, ListenerTypes
<1>4. page[v].uid # None
  BY DEF Inv, ClosedScreens, ClosedPage
<1>5. page' = [page EXCEPT ![v] = P] \/ page' = [page EXCEPT ![v] = Q]
  OBVIOUS
<1> HIDE DEF yes, no, third
<1>6. P \in Pages /\ Q \in Pages
  BY <1>1, <1>2, <1>3 DEF Pages
<1>7. /\ P.overlays = page[v].overlays /\ P.uid = page[v].uid
      /\ Q.overlays = page[v].overlays /\ Q.uid = page[v].uid
  BY <1>1 DEF Pages
<1>8. /\ UNCHANGED <<serverVars, list, vSpinner>>
      /\ visits' \in 0..MaxVisits
      /\ failures' \in 0..MaxFailures
  BY DEF Inv, TypeOK
<1> HIDE DEF P, Q
<1> QED BY <1>4, <1>5, <1>6, <1>7, <1>8, PageStep

LEMMA CheckIfYouBlockedThemInv ==
  ASSUME Inv, NEW v \in Users, CheckIfYouBlockedThem(v)
  PROVE  Inv'
<1> PICK i \in DOMAIN page[v].third :
      /\ page' = IF Sees(v, Blocked(v, page[v].uid))
                 THEN [page EXCEPT ![v].third[i] = "exists",
                                   ![v].title = "Blocked"]
                 ELSE [page EXCEPT ![v].third[i] = "absent",
                                   ![v].title = "Add friend"]
      /\ UNCHANGED <<serverVars, list, vSpinner, visits, failures>>
  BY DEF CheckIfYouBlockedThem
<1> DEFINE yes == [page[v].third EXCEPT ![i] = "exists"]
           no == [page[v].third EXCEPT ![i] = "absent"]
           P == [page[v] EXCEPT !.third = yes, !.title = "Blocked"]
           Q == [page[v] EXCEPT !.third = no, !.title = "Add friend"]
<1>1. page[v] \in Pages /\ page[v].second \in Seq(Seen) /\ page[v].third \in Seq(Seen)
  BY ScreenTypes DEF Pages
<1>2. /\ "exists" \in Seen /\ "absent" \in Seen
      /\ "Blocked" \in Titles /\ "Add friend" \in Titles
  BY DEF Seen, Titles
<1>3. yes \in Seq(Seen) /\ no \in Seq(Seen)
  BY <1>1, <1>2, ListenerTypes
<1>4. page[v].uid # None
  BY ListeningPage
<1>5. page' = [page EXCEPT ![v] = P] \/ page' = [page EXCEPT ![v] = Q]
  OBVIOUS
<1> HIDE DEF yes, no
<1>6. P \in Pages /\ Q \in Pages
  BY <1>1, <1>2, <1>3 DEF Pages
<1>7. /\ P.overlays = page[v].overlays /\ P.uid = page[v].uid
      /\ Q.overlays = page[v].overlays /\ Q.uid = page[v].uid
  BY <1>1 DEF Pages
<1>8. /\ UNCHANGED <<serverVars, list, vSpinner>>
      /\ visits' \in 0..MaxVisits
      /\ failures' \in 0..MaxFailures
  BY DEF Inv, TypeOK
<1> HIDE DEF P, Q
<1> QED BY <1>4, <1>5, <1>6, <1>7, <1>8, PageStep

\* The four answers of AddFriend, and DeleteRequest.
LEMMA TapInv ==
  ASSUME Inv, NEW v \in Users,
         \/ handleRemoveFriend(v)
         \/ handleCancelRequest(v)
         \/ handleUnblockUser(v)
         \/ handleRequestFriend(v)
         \/ \E f \in Users : DeleteRequest(v, f)
  PROVE  Inv'
<1> DEFINE p == page[v].uid
<1>1. ASSUME p \in Users
      PROVE  /\ Batch({}, {Accepted(p, v)}, "nothing") \in Batches
             /\ Batch({}, {Requested(p, v)}, "nothing") \in Batches
             /\ Batch({}, {Blocked(v, p)}, "unblocked") \in Batches
             /\ Batch({Requested(p, v)}, {}, "nothing") \in Batches
  BY <1>1, DocumentTypes DEF Batch, Batches, Handlers
<1>2. Tappable(v) => p \in Users
  BY ScreenTypes DEF Tappable, Pages
<1>3. CASE handleRemoveFriend(v)
  BY <1>1, <1>2, <1>3, WriteStep DEF handleRemoveFriend
<1>4. CASE handleCancelRequest(v)
  BY <1>1, <1>2, <1>4, WriteStep DEF handleCancelRequest
<1>5. CASE handleUnblockUser(v)
  BY <1>1, <1>2, <1>5, WriteStep DEF handleUnblockUser
<1>6. CASE handleRequestFriend(v)
  BY <1>1, <1>2, <1>6, WriteStep DEF handleRequestFriend
<1>7. ASSUME NEW f \in Users, DeleteRequest(v, f)
      PROVE  Inv'
  <2>1. Batch({}, {Requested(v, f)}, "nothing") \in Batches
    BY DocumentTypes DEF Batch, Batches, Handlers
  <2> QED BY <1>7, <2>1, WriteStep DEF DeleteRequest
<1> QED BY <1>3, <1>4, <1>5, <1>6, <1>7

LEMMA blockuserInv ==
  ASSUME Inv, NEW v \in Users, blockuser(v)
  PROVE  Inv'
<1> DEFINE p == page[v].uid
           batch == Batch({Blocked(v, p)}, {Accepted(v, p), Accepted(p, v)}, "blocked")
           P == [page[v] EXCEPT !.overlays = @ + 1]
<1>1. page[v] \in Pages
  BY ScreenTypes
<1>2. p \in Users /\ p # None
  BY <1>1 DEF blockuser, Pages
<1>3. batch \in Batches
  BY <1>2, DocumentTypes DEF Batch, Batches, Handlers
<1>4. /\ P \in Pages
      /\ P.overlays = page[v].overlays + 1
      /\ P.overlays > 0
      /\ P.uid = p
  BY <1>1 DEF Pages
<1>5. /\ Write(v, batch)
      /\ page' = [page EXCEPT ![v] = P]
      /\ vSpinner' = [vSpinner EXCEPT ![v] = "page"]
      /\ UNCHANGED list
  BY DEF blockuser
<1> HIDE DEF P, p, batch
<1>6. TypeOK'
  BY <1>3, <1>4, <1>5, WriteTypes DEF Inv, TypeOK, Screens
<1>7. SpinnerOnScreen'
  BY <1>4, <1>5 DEF Inv, TypeOK, SpinnerOnScreen
<1>8. ClosedScreens'
  BY <1>2, <1>4, <1>5 DEF Inv, TypeOK, ClosedScreens, ClosedPage, ClosedList
<1> QED BY <1>6, <1>7, <1>8 DEF Inv

LEMMA NavigationInv ==
  ASSUME Inv, NEW v \in Users, DismissAlert(v) \/ Reveal(v)
  PROVE  Inv'
<1> DEFINE P == [page[v] EXCEPT !.alert = "none"]
           Q == [page[v] EXCEPT !.visible = TRUE]
<1>1. page[v] \in Pages
  BY ScreenTypes
<1>2. visits' \in 0..MaxVisits /\ failures' \in 0..MaxFailures
  BY DEF Inv, TypeOK, DismissAlert, Reveal
<1>3. CASE DismissAlert(v)
  <2>1. P \in Pages /\ P.overlays = page[v].overlays /\ P.uid = page[v].uid
    BY <1>1 DEF Pages
  <2>2. page[v].uid # None
    BY <1>3 DEF Inv, ClosedScreens, ClosedPage, DismissAlert
  <2> QED BY <1>2, <1>3, <2>1, <2>2, PageStep DEF DismissAlert
<1>4. CASE Reveal(v)
  <2>1. Q \in Pages /\ Q.overlays = page[v].overlays /\ Q.uid = page[v].uid
    BY <1>1 DEF Pages
  <2> QED BY <1>2, <1>4, <2>1, PageStep DEF Reveal
<1> QED BY <1>3, <1>4

LEMMA CoverInv ==
  ASSUME Inv, NEW v \in Users, Cover(v)
  PROVE  Inv'
<1> DEFINE second == RemoveLast(page[v].second)
           third == RemoveLast(page[v].third)
           P == [page[v] EXCEPT !.visible = FALSE, !.first = "removed",
                                !.second = second, !.third = third]
<1>1. page[v] \in Pages /\ page[v].second \in Seq(Seen) /\ page[v].third \in Seq(Seen)
  BY ScreenTypes DEF Pages
<1>2. ASSUME NEW s \in Seq(Seen) PROVE RemoveLast(s) \in Seq(Seen)
  <2>1. CASE s = <<>>
    BY <2>1 DEF RemoveLast
  <2>2. CASE s # <<>>
    <3>1. Len(s) \in DOMAIN s
      BY <2>2
    <3>2. "removed" \in Seen
      BY DEF Seen
    <3> QED BY <2>2, <3>1, <3>2, ListenerTypes DEF RemoveLast
  <2> QED BY <2>1, <2>2
<1>3. second \in Seq(Seen) /\ third \in Seq(Seen)
  BY <1>1, <1>2
<1>4. page[v].uid # None
  BY DEF Inv, ClosedScreens, ClosedPage, Cover
<1>5. page' = [page EXCEPT ![v] = P] /\ UNCHANGED <<serverVars, list, vSpinner>>
  BY DEF Cover
<1> HIDE DEF second, third
<1>6. P \in Pages
  BY <1>1, <1>3 DEF Pages, Seen
<1>7. P.overlays = page[v].overlays /\ P.uid = page[v].uid
  BY <1>1 DEF Pages
<1>8. visits' \in 0..MaxVisits /\ failures' \in 0..MaxFailures
  BY FriendsAssumption DEF Inv, TypeOK, Cover, Visit
<1> HIDE DEF P
<1> QED BY <1>4, <1>5, <1>6, <1>7, <1>8, PageStep

LEMMA PopProfileInv ==
  ASSUME Inv, NEW v \in Users, PopProfile(v)
  PROVE  Inv'
<1> DEFINE f == [h \in Handlers |-> CASE h = "blocked" -> "hide"
                                      [] h = "unblocked" -> "nothing"
                                      [] OTHER -> h]
<1>1. f \in [Handlers -> Handlers]
  BY DEF Handlers
<1>2. outbox' \in [Users -> Seq(Batches)]
  <2>1. outbox' = Orphan(v, f)
    BY DEF PopProfile
  <2> HIDE DEF f
  <2> QED BY <1>1, <2>1, OrphanTypes DEF Inv
<1> HIDE DEF f
<1>3. page' = [page EXCEPT ![v] = NoPage]
  BY DEF PopProfile
<1>4. vSpinner' = [vSpinner EXCEPT ![v] = IF @ = "page" THEN "none" ELSE @]
  BY DEF PopProfile
<1>5. UNCHANGED <<docs, list, asked, visits, writes, failures>>
  BY DEF PopProfile
<1>6. TypeOK'
  BY <1>2, <1>3, <1>4, <1>5, NoScreens DEF Inv, TypeOK, Screens
<1>7. SpinnerOnScreen'
  BY <1>3, <1>4, <1>5 DEF Inv, TypeOK, SpinnerOnScreen
<1>8. ClosedScreens'
  BY <1>3, <1>5, NoPageFields DEF Inv, TypeOK, ClosedScreens, ClosedPage, ClosedList
<1> QED BY <1>6, <1>7, <1>8 DEF Inv

LEMMA OpenRequestsInv ==
  ASSUME Inv, NEW o \in Users, OpenRequests(o)
  PROVE  Inv'
<1> DEFINE L == [NoList EXCEPT !.open = TRUE, !.queries = 1]
<1>1. L \in Lists
  BY NoScreens DEF Lists
<1>2. L.open /\ L.overlays = 0
  <2>1. L.open
    BY NoScreens DEF Lists
  <2>2. L.overlays = 0
    BY NoScreens, NoListFields DEF Lists
  <2> QED BY <2>1, <2>2
<1>3. list' = [list EXCEPT ![o] = L]
  BY DEF OpenRequests
<1>4. list[o].overlays = 0
  BY DEF Inv, ClosedScreens, ClosedList, OpenRequests
<1>5. TypeOK'
  BY <1>1, <1>3, FriendsAssumption DEF Inv, TypeOK, OpenRequests, Visit, serverVars
<1> HIDE DEF L
<1>6. SpinnerOnScreen'
  BY <1>2, <1>3, <1>4 DEF Inv, TypeOK, SpinnerOnScreen, OpenRequests
<1>7. ClosedScreens'
  BY <1>2, <1>3 DEF Inv, TypeOK, ClosedScreens, ClosedPage, ClosedList, OpenRequests
<1> QED BY <1>5, <1>6, <1>7 DEF Inv

LEMMA LoadingInv ==
  ASSUME Inv, NEW o \in Users,
         \/ refreshfriendRequests(o)
         \/ getFriendRequests(o)
         \/ \E f \in Users : RequesterLoaded(o, f)
  PROVE  Inv'
<1>1. list[o] \in Lists
  BY ScreenTypes
<1>2. failures' \in 0..MaxFailures
  <2>1. CASE refreshfriendRequests(o)
    BY <2>1 DEF Inv, TypeOK, refreshfriendRequests
  <2>2. CASE getFriendRequests(o)
    BY <2>2, FriendsAssumption DEF Inv, TypeOK, getFriendRequests, Fail
  <2>3. CASE \E f \in Users : RequesterLoaded(o, f)
    <3>1. UNCHANGED failures \/ Fail
      BY <2>3, Zenon DEF RequesterLoaded
    <3> QED BY <3>1, FriendsAssumption DEF Inv, TypeOK, Fail
  <2> QED BY <2>1, <2>2, <2>3
<1>3. UNCHANGED <<serverVars, page, vSpinner, visits>>
  BY DEF refreshfriendRequests, getFriendRequests, RequesterLoaded
<1>4. /\ list[o].queries \in Nat
      /\ list[o].fetching \in [Users -> Nat]
      /\ list[o].rows \in [Users -> Nat]
      /\ list[o].bound \in SUBSET Users
  BY <1>1 DEF Lists
<1>5. CASE refreshfriendRequests(o)
  <2> DEFINE rows == [f \in Users |-> 0]
             n == list[o].queries + 1
             L == [list[o] EXCEPT !.rows = rows, !.queries = n]
  <2>1. rows \in [Users -> Nat] /\ n \in Nat
    BY <1>4
  <2>2. list' = [list EXCEPT ![o] = L] /\ list[o].open
    BY <1>5 DEF refreshfriendRequests, OnScreen
  <2> HIDE DEF rows, n
  <2>3. L \in Lists
    BY <1>1, <2>1 DEF Lists
  <2>4. L.overlays = list[o].overlays
    BY <1>1 DEF Lists
  <2>5. L.open
    BY <1>1, <2>2 DEF Lists
  <2> HIDE DEF L
  <2> QED BY <1>2, <1>3, <2>2, <2>3, <2>4, <2>5, ListStep
<1>6. CASE getFriendRequests(o)
  <2> DEFINE fetching == [f \in Users |-> list[o].fetching[f]
                            + IF Sees(o, Requested(o, f)) THEN 1 ELSE 0]
             n == list[o].queries - 1
             L == [list[o] EXCEPT !.queries = n, !.fetching = fetching]
             M == [list[o] EXCEPT !.queries = n]
  <2>1. fetching \in [Users -> Nat]
    BY <1>4
  <2>2. n \in Nat
    BY <1>4, <1>6 DEF getFriendRequests
  <2>3. list' = [list EXCEPT ![o] = L] \/ list' = [list EXCEPT ![o] = M]
    BY <1>6 DEF getFriendRequests
  <2>4. list[o].open
    BY <1>6 DEF Inv, ClosedScreens, ClosedList, getFriendRequests
  <2> HIDE DEF fetching, n
  <2>5. L \in Lists /\ M \in Lists
    BY <1>1, <2>1, <2>2 DEF Lists
  <2>6. L.overlays = list[o].overlays /\ M.overlays = list[o].overlays
    BY <1>1 DEF Lists
  <2>7. L.open /\ M.open
    BY <1>1, <2>4 DEF Lists
  <2> HIDE DEF L, M
  <2> QED BY <1>2, <1>3, <2>3, <2>5, <2>6, <2>7, ListStep
<1>7. ASSUME NEW f \in Users, RequesterLoaded(o, f)
      PROVE  Inv'
  <2> DEFINE fetching == [list[o].fetching EXCEPT ![f] = @ - 1]
             rows == [list[o].rows EXCEPT ![f] = @ + 1]
             bound == list[o].bound \cup {f}
             L == [list[o] EXCEPT !.fetching = fetching, !.rows = rows, !.bound = bound]
             M == [list[o] EXCEPT !.fetching = fetching]
  <2>8. list[o].fetching[f] > 0
    BY <1>7, Zenon DEF RequesterLoaded
  <2>1. list[o].fetching[f] - 1 \in Nat /\ list[o].rows[f] + 1 \in Nat
    BY <1>4, <2>8
  <2>2. /\ fetching \in [Users -> Nat]
        /\ rows \in [Users -> Nat]
        /\ bound \in SUBSET Users
    BY <1>4, <2>1
  <2>3. list' = [list EXCEPT ![o] = L] \/ list' = [list EXCEPT ![o] = M]
    <3>1. \/ list' = [list EXCEPT ![o].fetching[f] = @ - 1,
                                  ![o].rows[f] = @ + 1,
                                  ![o].bound = @ \cup {f}]
          \/ list' = [list EXCEPT ![o].fetching[f] = @ - 1]
      BY <1>7, Zenon DEF RequesterLoaded
    <3> QED BY <3>1
  <2>4. list[o].open
    BY <2>8 DEF Inv, ClosedScreens, ClosedList
  <2> HIDE DEF fetching, rows, bound
  <2>5. L \in Lists /\ M \in Lists
    BY <1>1, <2>2 DEF Lists
  <2>6. L.overlays = list[o].overlays /\ M.overlays = list[o].overlays
    BY <1>1 DEF Lists
  <2>7. L.open /\ M.open
    BY <1>1, <2>4 DEF Lists
  <2> HIDE DEF L, M
  <2> QED BY <1>2, <1>3, <2>3, <2>5, <2>6, <2>7, ListStep
<1> QED BY <1>5, <1>6, <1>7

LEMMA AcceptRequestInv ==
  ASSUME Inv, NEW o \in Users, NEW f \in Users, AcceptRequest(o, f)
  PROVE  Inv'
<1> DEFINE batch == Batch({Accepted(o, f)}, {Requested(o, f)}, "reveal")
           n == list[o].overlays + 1
           L == [list[o] EXCEPT !.overlays = n]
<1>1. list[o] \in Lists /\ list[o].overlays \in Nat /\ list[o].rows \in [Users -> Nat]
  BY ScreenTypes DEF Lists
<1>2. batch \in Batches
  BY DocumentTypes DEF Batch, Batches, Handlers
<1>3. n \in Nat /\ n > 0
  BY <1>1
<1>4. /\ Write(o, batch)
      /\ list' = [list EXCEPT ![o] = L]
      /\ vSpinner' = [vSpinner EXCEPT ![o] = "list"]
      /\ UNCHANGED page
  BY DEF AcceptRequest
<1>5. list[o].open
  BY DEF AcceptRequest, Tapped, OnScreen
<1> HIDE DEF n
<1>6. L \in Lists /\ L.open = list[o].open /\ L.overlays = n
  BY <1>1, <1>3, ListAcknowledged
<1> HIDE DEF L, batch
<1>7. TypeOK'
  BY <1>2, <1>4, <1>6, WriteTypes DEF Inv, TypeOK, Screens
<1>8. SpinnerOnScreen'
  BY <1>3, <1>4, <1>6 DEF Inv, TypeOK, SpinnerOnScreen
<1>9. ClosedScreens'
  BY <1>4, <1>5, <1>6 DEF Inv, TypeOK, ClosedScreens, ClosedPage, ClosedList
<1> QED BY <1>7, <1>8, <1>9 DEF Inv

LEMMA CloseRequestsInv ==
  ASSUME Inv, NEW o \in Users, CloseRequests(o)
  PROVE  Inv'
<1>1. /\ list' = [list EXCEPT ![o] = NoList]
      /\ vSpinner' = [vSpinner EXCEPT ![o] = IF @ = "list" THEN "none" ELSE @]
      /\ UNCHANGED <<serverVars, page, visits, failures>>
  BY DEF CloseRequests
<1>2. TypeOK'
  BY <1>1, NoScreens DEF Inv, TypeOK, Screens, serverVars
<1>3. SpinnerOnScreen'
  BY <1>1 DEF Inv, TypeOK, SpinnerOnScreen
<1>4. ClosedScreens'
  BY <1>1, NoListFields DEF Inv, TypeOK, ClosedScreens, ClosedPage, ClosedList
<1> QED BY <1>2, <1>3, <1>4 DEF Inv

LEMMA RelaunchInv ==
  ASSUME Inv, NEW u \in Users, Relaunch(u)
  PROVE  Inv'
<1> DEFINE f == [h \in Handlers |-> "nothing"]
<1>1. f \in [Handlers -> Handlers]
  BY DEF Handlers
<1>2. outbox' \in [Users -> Seq(Batches)]
  <2>1. outbox' = Orphan(u, f)
    BY DEF Relaunch
  <2> HIDE DEF f
  <2> QED BY <1>1, <2>1, OrphanTypes DEF Inv
<1> HIDE DEF f
<1>3. /\ page' = [page EXCEPT ![u] = NoPage]
      /\ list' = [list EXCEPT ![u] = NoList]
      /\ vSpinner' = [vSpinner EXCEPT ![u] = "none"]
      /\ UNCHANGED <<docs, asked, writes, failures>>
  BY DEF Relaunch
<1>4. visits' \in 0..MaxVisits
  BY FriendsAssumption DEF Inv, TypeOK, Relaunch, Visit
<1>5. TypeOK'
  BY <1>2, <1>3, <1>4, NoScreens DEF Inv, TypeOK, Screens
<1>6. SpinnerOnScreen'
  BY <1>3 DEF Inv, TypeOK, SpinnerOnScreen
<1>7. ClosedScreens'
  BY <1>3, NoPageFields, NoListFields
     DEF Inv, TypeOK, ClosedScreens, ClosedPage, ClosedList
<1> QED BY <1>5, <1>6, <1>7 DEF Inv

LEMMA InitInv == Init => Inv
<1> SUFFICES ASSUME Init PROVE Inv
  OBVIOUS
<1>1. TypeOK
  BY FriendsAssumption, NoScreens DEF Init, TypeOK, Screens
<1>2. SpinnerOnScreen
  BY DEF Init, SpinnerOnScreen
<1>3. ClosedScreens
  BY NoPageFields, NoListFields DEF Init, ClosedScreens, ClosedPage, ClosedList
<1> QED BY <1>1, <1>2, <1>3 DEF Inv

LEMMA NextInv == Inv /\ [Next]_vars => Inv'
<1> SUFFICES ASSUME Inv, [Next]_vars PROVE Inv'
  OBVIOUS
<1>1. CASE UNCHANGED vars \/ Done
  <2>1. UNCHANGED vars
    BY <1>1 DEF Done
  <2> QED BY <2>1 DEF vars, Inv, TypeOK, SpinnerOnScreen, ClosedScreens,
             ClosedPage, ClosedList
<1>2. ASSUME NEW u \in Users, Committed(u) \/ Refused(u)
      PROVE  Inv'
  BY <1>2, CommittedInv, RefusedInv
<1>3. ASSUME NEW v \in Users, Taps(v)
      PROVE  Inv'
  BY <1>3, TapInv, blockuserInv DEF Taps
<1>4. ASSUME NEW v \in Users, Navigation(v)
      PROVE  Inv'
  BY <1>4, OpenProfileInv, NavigationInv, CoverInv, PopProfileInv DEF Navigation
<1>5. ASSUME NEW v \in Users, Callbacks(v)
      PROVE  Inv'
  BY <1>5, CheckIfBlockedInv, areTheyFriendsInv, checkIfRequestedInv,
     CheckIfYouBlockedThemInv DEF Callbacks
<1>6. ASSUME NEW v \in Users, Relaunch(v)
      PROVE  Inv'
  BY <1>6, RelaunchInv
<1>7. ASSUME NEW o \in Users, Requests(o)
      PROVE  Inv'
  BY <1>7, OpenRequestsInv, LoadingInv, AcceptRequestInv, TapInv, CloseRequestsInv
     DEF Requests
<1>8. \A o \in Hosts : o \in Users
  BY FriendsAssumption
<1> QED BY <1>1, <1>2, <1>3, <1>4, <1>5, <1>6, <1>7, <1>8 DEF Next

LEMMA InvHolds == Spec => []Inv
<1>1. Init => Inv
  BY InitInv
<1>2. Inv /\ [Next]_vars => Inv'
  BY NextInv
<1> QED BY <1>1, <1>2, PTL DEF Spec

\* Every variable keeps its type: in particular no overlay is ever removed
\* from a screen that has none, so overlay counts stay natural.
THEOREM TypeCorrect == Spec => []TypeOK
<1>1. Inv => TypeOK
  BY DEF Inv
<1> QED BY <1>1, InvHolds, PTL

\* removeSpinner always finds the overlay that vSpinner refers to.
THEOREM SpinnerFound == Spec => []SpinnerOnScreen
<1>1. Inv => SpinnerOnScreen
  BY DEF Inv
<1> QED BY <1>1, InvHolds, PTL

------------------------------------------------------------------------------
(* A friendship was asked for. *)

DocumentsAsked ==
  \A o, f \in Users :
    Requested(o, f) \in docs \/ Accepted(o, f) \in docs => <<o, f>> \in asked

\* Nobody asks on its own behalf, and every acceptance answers a request.
BatchAsked(u, puts) ==
  \A o, f \in Users :
    /\ Requested(o, f) \in puts => o # u
    /\ Accepted(o, f) \in puts => <<o, f>> \in asked

QueuesAsked ==
  \A u \in Users : \A i \in DOMAIN outbox[u] : BatchAsked(u, outbox[u][i].puts)

RowsAsked ==
  \A o, f \in Users :
    list[o].fetching[f] > 0 \/ f \in list[o].bound => <<o, f>> \in asked

OwnPageHidden == \A v \in Users : page[v].uid = v => page[v].hidden

AskedInv == DocumentsAsked /\ QueuesAsked /\ RowsAsked /\ OwnPageHidden

LEMMA DocumentsDiffer ==
  ASSUME NEW o, NEW f, NEW p, NEW g
  PROVE  /\ Requested(o, f) = Requested(p, g) => o = p /\ f = g
         /\ Accepted(o, f) = Accepted(p, g) => o = p /\ f = g
         /\ Requested(o, f) # Accepted(p, g)
         /\ Requested(o, f) # Blocked(p, g)
         /\ Accepted(o, f) # Blocked(p, g)
  BY DEF Requested, Accepted, Blocked

\* What a user reads as its own request collection is on the server.
LEMMA SeenIsAsked ==
  ASSUME AskedInv, NEW o \in Users, NEW f \in Users, Sees(o, Requested(o, f))
  PROVE  <<o, f>> \in asked
<1>1. CASE Requested(o, f) \in docs
  BY <1>1 DEF AskedInv, DocumentsAsked
<1>2. CASE Requested(o, f) \notin docs
  <2>1. PICK i \in DOMAIN outbox[o] : Requested(o, f) \in outbox[o][i].puts
    BY <1>2 DEF Sees, Touching
  <2> QED BY <2>1 DEF AskedInv, QueuesAsked, BatchAsked
<1> QED BY <1>1, <1>2

LEMMA QueueAppended ==
  ASSUME Inv, AskedInv, NEW u \in Users, NEW batch \in Batches, Write(u, batch),
         BatchAsked(u, batch.puts)
  PROVE  DocumentsAsked' /\ QueuesAsked'
<1>1. UNCHANGED <<docs, asked>> /\ outbox' = [outbox EXCEPT ![u] = Append(@, batch)]
  BY DEF Write, Enqueue
<1>2. DocumentsAsked'
  BY <1>1 DEF AskedInv, DocumentsAsked
<1>3. ASSUME NEW w \in Users, NEW i \in DOMAIN outbox'[w]
      PROVE  BatchAsked(w, outbox'[w][i].puts)
  <2>1. CASE w # u
    BY <1>1, <1>3, <2>1 DEF Inv, TypeOK, AskedInv, QueuesAsked
  <2>2. CASE w = u
    <3>1. outbox[u] \in Seq(Batches) /\ outbox'[u] = Append(outbox[u], batch)
      BY <1>1 DEF Inv, TypeOK
    <3>2. CASE i \in DOMAIN outbox[u]
      <4>1. outbox'[u][i] = outbox[u][i]
        BY <3>1, <3>2
      <4> QED BY <2>2, <3>2, <4>1 DEF AskedInv, QueuesAsked
    <3>3. CASE i \notin DOMAIN outbox[u]
      <4>1. outbox'[u][i] = batch
        BY <1>3, <2>2, <3>1, <3>3
      <4> QED BY <2>2, <4>1
    <3> QED BY <3>2, <3>3
  <2> QED BY <2>1, <2>2
<1>4. QueuesAsked'
  BY <1>1, <1>3 DEF QueuesAsked, BatchAsked
<1> QED BY <1>2, <1>4

\* The oldest batch leaves the outbox, while asked may grow.
LEMMA QueueShortened ==
  ASSUME Inv, AskedInv, NEW u \in Users, outbox[u] # <<>>,
         outbox' = [outbox EXCEPT ![u] = Tail(@)], asked \subseteq asked'
  PROVE  QueuesAsked'
<1>1. ASSUME NEW w \in Users, NEW i \in DOMAIN outbox'[w]
      PROVE  BatchAsked(w, outbox'[w][i].puts)
  <2>1. CASE w # u
    BY <1>1, <2>1 DEF Inv, TypeOK, AskedInv, QueuesAsked
  <2>2. CASE w = u
    <3> DEFINE q == outbox[u]
               r == Tail(q)
    <3>1. q \in Seq(Batches) /\ q # <<>>
      BY DEF Inv, TypeOK
    <3>2. /\ r \in Seq(Batches)
          /\ Len(r) = Len(q) - 1
          /\ \A j \in 1..Len(r) : r[j] = q[j + 1]
      BY <3>1, HeadTailProperties
    <3>3. outbox'[u] = r
      BY DEF Inv, TypeOK
    <3> HIDE DEF q, r
    <3>4. i \in 1..Len(r)
      BY <1>1, <2>2, <3>2, <3>3
    <3>5. i + 1 \in DOMAIN q /\ outbox'[u][i] = q[i + 1]
      BY <3>1, <3>2, <3>3, <3>4
    <3> QED BY <2>2, <3>5 DEF AskedInv, QueuesAsked, q
  <2> QED BY <2>1, <2>2
<1> QED BY <1>1 DEF QueuesAsked, BatchAsked

\* Handlers are dropped, while the documents of every batch stay.
LEMMA QueueOrphaned ==
  ASSUME Inv, AskedInv, NEW u \in Users, NEW f \in [Handlers -> Handlers],
         outbox' = Orphan(u, f), UNCHANGED asked
  PROVE  QueuesAsked'
<1>1. ASSUME NEW w \in Users, NEW i \in DOMAIN outbox'[w]
      PROVE  BatchAsked(w, outbox'[w][i].puts)
  <2>1. CASE w # u
    BY <1>1, <2>1 DEF Inv, TypeOK, AskedInv, QueuesAsked, Orphan
  <2>2. CASE w = u
    <3>1. i \in DOMAIN outbox[u]
      BY <1>1, <2>2 DEF Inv, TypeOK, Orphan
    <3>2. outbox'[u][i] = [outbox[u][i] EXCEPT !.handler = f[outbox[u][i].handler]]
      BY <3>1 DEF Inv, TypeOK, Orphan
    <3>3. outbox[u][i] \in Batches
      BY <3>1 DEF Inv, TypeOK
    <3>4. outbox'[u][i].puts = outbox[u][i].puts
      BY <3>2, <3>3 DEF Batches
    <3> QED BY <2>2, <3>1, <3>4 DEF AskedInv, QueuesAsked
  <2> QED BY <2>1, <2>2
<1> QED BY <1>1 DEF QueuesAsked, BatchAsked

LEMMA PageReplaced ==
  ASSUME Inv, AskedInv, NEW v \in Users, NEW P, page' = [page EXCEPT ![v] = P],
         P.uid = v => P.hidden
  PROVE  OwnPageHidden'
  BY DEF Inv, TypeOK, AskedInv, OwnPageHidden

LEMMA ListReplaced ==
  ASSUME Inv, AskedInv, NEW o \in Users, NEW L, list' = [list EXCEPT ![o] = L],
         asked \subseteq asked',
         \A f \in Users :
           L.fetching[f] > 0 \/ f \in L.bound => <<o, f>> \in asked'
  PROVE  RowsAsked'
  BY DEF Inv, TypeOK, AskedInv, RowsAsked

LEMMA NoNewBatch ==
  ASSUME AskedInv, UNCHANGED <<docs, outbox, asked>>
  PROVE  DocumentsAsked' /\ QueuesAsked'
  BY DEF AskedInv, DocumentsAsked, QueuesAsked, BatchAsked

\* The callbacks and most of the navigation of a profile page.
LEMMA PageAsked ==
  ASSUME Inv, AskedInv, NEW v \in Users,
         Callbacks(v) \/ DismissAlert(v) \/ Cover(v) \/ Reveal(v)
  PROVE  AskedInv'
<1>1. UNCHANGED <<docs, outbox, asked, list>>
  BY DEF Callbacks, CheckIfBlocked, areTheyFriends, checkIfRequested,
     CheckIfYouBlockedThem, DismissAlert, Cover, Reveal, serverVars
<1>2. page[v] \in Pages /\ page[v].hidden \in BOOLEAN
  BY ScreenTypes DEF Pages
<1>3. PICK P : /\ page' = [page EXCEPT ![v] = P]
               /\ P.uid = page[v].uid
               /\ page[v].hidden => P.hidden
  <2>1. CASE CheckIfBlocked(v)
    <3> DEFINE P == [page[v] EXCEPT !.checking = FALSE,
                       !.hidden = @ \/ Sees(v, Blocked(page[v].uid, v))]
               Q == [page[v] EXCEPT !.checking = FALSE]
    <3>1. page' = [page EXCEPT ![v] = P] \/ page' = [page EXCEPT ![v] = Q]
      BY <2>1 DEF CheckIfBlocked
    <3>2. P.uid = page[v].uid /\ Q.uid = page[v].uid
      BY <1>2 DEF Pages
    <3>3. page[v].hidden => P.hidden /\ Q.hidden
      BY <1>2 DEF Pages
    <3> QED BY <3>1, <3>2, <3>3
  <2>2. CASE areTheyFriends(v)
    <3> DEFINE P == [page[v] EXCEPT !.first = "exists", !.title = "Friends"]
               Q == [page[v] EXCEPT !.first = "absent", !.second = Append(@, "never")]
    <3>1. page' = [page EXCEPT ![v] = P] \/ page' = [page EXCEPT ![v] = Q]
      BY <2>2 DEF areTheyFriends
    <3>2. P.uid = page[v].uid /\ Q.uid = page[v].uid
      BY <1>2 DEF Pages
    <3>3. page[v].hidden => P.hidden /\ Q.hidden
      BY <1>2 DEF Pages
    <3> QED BY <3>1, <3>2, <3>3
  <2>3. CASE checkIfRequested(v)
    <3> PICK i \in DOMAIN page[v].second :
          page' = IF Sees(v, Requested(page[v].uid, v))
                  THEN [page EXCEPT ![v].second[i] = "exists",
                                    ![v].title = "Requested"]
                  ELSE [page EXCEPT ![v].second[i] = "absent",
                                    ![v].third = Append(@, "never")]
      BY <2>3, Zenon DEF checkIfRequested
    <3> DEFINE P == [page[v] EXCEPT !.second[i] = "exists", !.title = "Requested"]
               Q == [page[v] EXCEPT !.second[i] = "absent",
                                    !.third = Append(@, "never")]
    <3>1. page' = [page EXCEPT ![v] = P] \/ page' = [page EXCEPT ![v] = Q]
      OBVIOUS
    <3>2. P.uid = page[v].uid /\ Q.uid = page[v].uid
      BY <1>2 DEF Pages
    <3>3. page[v].hidden => P.hidden /\ Q.hidden
      BY <1>2 DEF Pages
    <3> QED BY <3>1, <3>2, <3>3
  <2>4. CASE CheckIfYouBlockedThem(v)
    <3> PICK i \in DOMAIN page[v].third :
          page' = IF Sees(v, Blocked(v, page[v].uid))
                  THEN [page EXCEPT ![v].third[i] = "exists",
                                    ![v].title = "Blocked"]
                  ELSE [page EXCEPT ![v].third[i] = "absent",
                                    ![v].title = "Add friend"]
      BY <2>4, Zenon DEF CheckIfYouBlockedThem
    <3> DEFINE P == [page[v] EXCEPT !.third[i] = "exists", !.title = "Blocked"]
               Q == [page[v] EXCEPT !.third[i] = "absent", !.title = "Add friend"]
    <3>1. page' = [page EXCEPT ![v] = P] \/ page' = [page EXCEPT ![v] = Q]
      OBVIOUS
    <3>2. P.uid = page[v].uid /\ Q.uid = page[v].uid
      BY <1>2 DEF Pages
    <3>3. page[v].hidden => P.hidden /\ Q.hidden
      BY <1>2 DEF Pages
    <3> QED BY <3>1, <3>2, <3>3
  <2>5. CASE DismissAlert(v)
    <3> DEFINE P == [page[v] EXCEPT !.alert = "none"]
    <3>1. page' = [page EXCEPT ![v] = P]
      BY <2>5 DEF DismissAlert
    <3>2. P.uid = page[v].uid
      BY <1>2 DEF Pages
    <3>3. page[v].hidden => P.hidden
      BY <1>2 DEF Pages
    <3> QED BY <3>1, <3>2, <3>3
  <2>6. CASE Cover(v)
    <3> DEFINE P == [page[v] EXCEPT !.visible = FALSE, !.first = "removed",
                       !.second = RemoveLast(@), !.third = RemoveLast(@)]
    <3>1. page' = [page EXCEPT ![v] = P]
      BY <2>6 DEF Cover
    <3>2. P.uid = page[v].uid
      BY <1>2 DEF Pages
    <3>3. page[v].hidden => P.hidden
      BY <1>2 DEF Pages
    <3> QED BY <3>1, <3>2, <3>3
  <2>7. CASE Reveal(v)
    <3> DEFINE P == [page[v] EXCEPT !.visible = TRUE]
    <3>1. page' = [page EXCEPT ![v] = P]
      BY <2>7 DEF Reveal
    <3>2. P.uid = page[v].uid
      BY <1>2 DEF Pages
    <3>3. page[v].hidden => P.hidden
      BY <1>2 DEF Pages
    <3> QED BY <3>1, <3>2, <3>3
  <2> QED BY <2>1, <2>2, <2>3, <2>4, <2>5, <2>6, <2>7 DEF Callbacks
<1>4. OwnPageHidden'
  BY <1>3, PageReplaced DEF AskedInv, OwnPageHidden
<1>5. RowsAsked'
  BY <1>1 DEF AskedInv, RowsAsked
<1>6. DocumentsAsked' /\ QueuesAsked'
  BY <1>1, NoNewBatch
<1> QED BY <1>4, <1>5, <1>6 DEF AskedInv

LEMMA OpenProfileAsked ==
  ASSUME Inv, AskedInv, NEW v \in Users, NEW p \in Users, OpenProfile(v, p)
  PROVE  AskedInv'
<1> DEFINE P == [NoPage EXCEPT !.uid = p, !.visible = TRUE, !.hidden = (p = v),
                               !.checking = TRUE, !.first = "never"]
<1>1. page' = [page EXCEPT ![v] = P] /\ UNCHANGED <<docs, outbox, asked, list>>
  BY DEF OpenProfile, serverVars
<1>2. P.uid = p
  BY DEF NoPage
<1>3. p = v => P.hidden
  BY DEF NoPage
<1> HIDE DEF P
<1>4. OwnPageHidden'
  BY <1>1, <1>2, <1>3, PageReplaced
<1>5. RowsAsked'
  BY <1>1 DEF AskedInv, RowsAsked
<1>6. DocumentsAsked' /\ QueuesAsked'
  BY <1>1, NoNewBatch
<1> QED BY <1>4, <1>5, <1>6 DEF AskedInv

\* The documents a tap on the profile page writes.
LEMMA TapsAsked ==
  ASSUME Inv, AskedInv, NEW v \in Users, Taps(v)
  PROVE  AskedInv'
<1> DEFINE p == page[v].uid
<1>1. RowsAsked'
  BY DEF Taps, handleRemoveFriend, handleCancelRequest, handleUnblockUser,
     handleRequestFriend, blockuser, Write, AskedInv, RowsAsked
<1>2. p \in Users
  BY ScreenTypes, Zenon DEF Taps, handleRemoveFriend, handleCancelRequest,
     handleUnblockUser, handleRequestFriend, blockuser, Tappable, Pages
<1>3. OwnPageHidden'
  <2>1. CASE blockuser(v)
    <3> DEFINE P == [page[v] EXCEPT !.overlays = @ + 1]
    <3>1. page' = [page EXCEPT ![v] = P]
      BY <2>1 DEF blockuser
    <3>2. page[v] \in Pages
      BY ScreenTypes
    <3>3. P.uid = page[v].uid
      BY <3>2 DEF Pages
    <3>4. page[v].hidden => P.hidden
      BY <3>2 DEF Pages
    <3> HIDE DEF P
    <3> QED BY <3>1, <3>3, <3>4, PageReplaced DEF AskedInv, OwnPageHidden
  <2>2. CASE ~ blockuser(v)
    BY <2>2 DEF Taps, handleRemoveFriend, handleCancelRequest, handleUnblockUser,
       handleRequestFriend, AskedInv, OwnPageHidden
  <2> QED BY <2>1, <2>2
<1>4. PICK batch \in Batches : Write(v, batch) /\ BatchAsked(v, batch.puts)
  <2>1. /\ Batch({}, {Accepted(p, v)}, "nothing") \in Batches
        /\ Batch({}, {Requested(p, v)}, "nothing") \in Batches
        /\ Batch({}, {Blocked(v, p)}, "unblocked") \in Batches
        /\ Batch({Requested(p, v)}, {}, "nothing") \in Batches
        /\ Batch({Blocked(v, p)}, {Accepted(v, p), Accepted(p, v)}, "blocked") \in Batches
    BY <1>2, DocumentTypes DEF Batch, Batches, Handlers
  <2>2. ASSUME NEW dels, NEW handler
        PROVE  BatchAsked(v, Batch({}, dels, handler).puts)
    BY DEF BatchAsked, Batch
  <2>3. BatchAsked(v, {Blocked(v, p)})
    BY DocumentsDiffer DEF BatchAsked
  <2>4. CASE handleRequestFriend(v)
    <3>1. p # v
      BY <2>4, <1>2 DEF handleRequestFriend, Tappable, AskedInv, OwnPageHidden
    <3>2. BatchAsked(v, {Requested(p, v)})
      BY <3>1, DocumentsDiffer DEF BatchAsked
    <3>3. Batch({Requested(p, v)}, {}, "nothing").puts = {Requested(p, v)}
      BY DEF Batch
    <3> QED BY <2>1, <2>4, <3>2, <3>3 DEF handleRequestFriend
  <2>5. CASE blockuser(v)
    <3>1. Batch({Blocked(v, p)}, {Accepted(v, p), Accepted(p, v)}, "blocked").puts
            = {Blocked(v, p)}
      BY DEF Batch
    <3> QED BY <2>1, <2>3, <2>5, <3>1 DEF blockuser
  <2>6. CASE handleRemoveFriend(v)
    BY <2>1, <2>2, <2>6 DEF handleRemoveFriend
  <2>7. CASE handleCancelRequest(v)
    BY <2>1, <2>2, <2>7 DEF handleCancelRequest
  <2>8. CASE handleUnblockUser(v)
    BY <2>1, <2>2, <2>8 DEF handleUnblockUser
  <2> QED BY <2>4, <2>5, <2>6, <2>7, <2>8 DEF Taps
<1>5. DocumentsAsked' /\ QueuesAsked'
  BY <1>4, QueueAppended
<1> QED BY <1>1, <1>3, <1>5 DEF AskedInv

\* What an acknowledgement does to the screens disturbs no row and no uid.
LEMMA CompleteAsked ==
  ASSUME Inv, AskedInv, NEW u \in Users, NEW done \in BOOLEAN, Complete(u, done),
         asked \subseteq asked'
  PROVE  RowsAsked' /\ OwnPageHidden'
<1>1. page[u] \in Pages /\ list[u] \in Lists
  BY ScreenTypes
<1>2. PICK n, a : page' = [page EXCEPT ![u] = [page[u] EXCEPT !.overlays = n, !.alert = a]]
  BY Zenon DEF Complete
<1>3. PICK m : list' = [list EXCEPT ![u] = [list[u] EXCEPT !.overlays = m]]
  BY Zenon DEF Complete
<1> DEFINE P == [page[u] EXCEPT !.overlays = n, !.alert = a]
           L == [list[u] EXCEPT !.overlays = m]
<1>4. P.uid = page[u].uid
  BY <1>1 DEF Pages
<1>5. page[u].hidden => P.hidden
  BY <1>1 DEF Pages
<1>6. L.fetching = list[u].fetching /\ L.bound = list[u].bound
  BY <1>1 DEF Lists
<1>7. OwnPageHidden'
  <2>1. page' = [page EXCEPT ![u] = P]
    BY <1>2
  <2> HIDE DEF P
  <2> QED BY <1>4, <1>5, <2>1, PageReplaced DEF AskedInv, OwnPageHidden
<1>8. RowsAsked'
  <2>1. list' = [list EXCEPT ![u] = L]
    BY <1>3
  <2> HIDE DEF L
  <2> QED BY <1>6, <2>1, ListReplaced DEF AskedInv, RowsAsked
<1> QED BY <1>7, <1>8

LEMMA CommittedAsked ==
  ASSUME Inv, AskedInv, NEW u \in Users, Committed(u)
  PROVE  AskedInv'
<1> DEFINE batch == Head(outbox[u])
<1>1. outbox[u] \in Seq(Batches) /\ outbox[u] # <<>>
  BY DEF Inv, TypeOK, Committed, Commit
<1>2. /\ docs' = (docs \ batch.dels) \cup batch.puts
      /\ outbox' = [outbox EXCEPT ![u] = Tail(@)]
      /\ asked' = asked \cup {w \in Users \X Users :
                                Requested(w[1], w[2]) \in batch.puts}
      /\ Complete(u, TRUE)
  BY DEF Committed, Commit
<1>3. BatchAsked(u, batch.puts)
  BY <1>1 DEF AskedInv, QueuesAsked
<1>4. asked \subseteq asked'
  BY <1>2
<1> HIDE DEF batch
<1>5. DocumentsAsked'
  <2> SUFFICES ASSUME NEW o \in Users, NEW f \in Users,
                      Requested(o, f) \in docs' \/ Accepted(o, f) \in docs'
               PROVE  <<o, f>> \in asked'
    BY DEF DocumentsAsked
  <2>1. CASE Requested(o, f) \in docs \/ Accepted(o, f) \in docs
    BY <1>4, <2>1 DEF AskedInv, DocumentsAsked
  <2>2. CASE Requested(o, f) \in batch.puts
    BY <1>2, <2>2
  <2>3. CASE Accepted(o, f) \in batch.puts
    BY <1>3, <1>4, <2>3 DEF BatchAsked
  <2> QED BY <1>2, <2>1, <2>2, <2>3
<1>6. QueuesAsked'
  BY <1>1, <1>2, <1>4, QueueShortened
<1>7. RowsAsked' /\ OwnPageHidden'
  BY <1>2, <1>4, CompleteAsked
<1> QED BY <1>5, <1>6, <1>7 DEF AskedInv

LEMMA RefusedAsked ==
  ASSUME Inv, AskedInv, NEW u \in Users, Refused(u)
  PROVE  AskedInv'
<1>1. /\ outbox[u] # <<>>
      /\ outbox' = [outbox EXCEPT ![u] = Tail(@)]
      /\ UNCHANGED <<docs, asked>>
      /\ Complete(u, FALSE)
  BY DEF Refused, Refuse
<1>2. DocumentsAsked'
  BY <1>1 DEF AskedInv, DocumentsAsked
<1>3. QueuesAsked'
  BY <1>1, QueueShortened
<1>4. RowsAsked' /\ OwnPageHidden'
  BY <1>1, CompleteAsked
<1> QED BY <1>2, <1>3, <1>4 DEF AskedInv

\* Screens that go away take their handlers with them.
LEMMA LeavingAsked ==
  ASSUME Inv, AskedInv, NEW u \in Users,
         PopProfile(u) \/ CloseRequests(u) \/ Relaunch(u)
  PROVE  AskedInv'
<1>1. UNCHANGED <<docs, asked>>
  BY DEF PopProfile, CloseRequests, Relaunch, serverVars
<1>2. DocumentsAsked'
  BY <1>1 DEF AskedInv, DocumentsAsked
<1>3. outbox' = outbox \/ \E f \in [Handlers -> Handlers] : outbox' = Orphan(u, f)
  <2>1. CASE PopProfile(u)
    <3> DEFINE f == [h \in Handlers |-> CASE h = "blocked" -> "hide"
                                          [] h = "unblocked" -> "nothing"
                                          [] OTHER -> h]
    <3>1. f \in [Handlers -> Handlers]
      BY DEF Handlers
    <3>2. outbox' = Orphan(u, f)
      BY <2>1 DEF PopProfile
    <3> HIDE DEF f
    <3> QED BY <3>1, <3>2
  <2>2. CASE CloseRequests(u)
    BY <2>2 DEF CloseRequests, serverVars
  <2>3. CASE Relaunch(u)
    <3> DEFINE f == [h \in Handlers |-> "nothing"]
    <3>1. f \in [Handlers -> Handlers]
      BY DEF Handlers
    <3>2. outbox' = Orphan(u, f)
      BY <2>3 DEF Relaunch
    <3> HIDE DEF f
    <3> QED BY <3>1, <3>2
  <2> QED BY <2>1, <2>2, <2>3
<1>4. QueuesAsked'
  <2>1. CASE outbox' = outbox
    BY <1>1, <2>1 DEF AskedInv, QueuesAsked, BatchAsked
  <2>2. CASE \E f \in [Handlers -> Handlers] : outbox' = Orphan(u, f)
    BY <1>1, <2>2, QueueOrphaned
  <2> QED BY <1>3, <2>1, <2>2
<1>5. OwnPageHidden'
  <2>1. page' = page \/ page' = [page EXCEPT ![u] = NoPage]
    BY DEF PopProfile, CloseRequests, Relaunch
  <2>2. NoPage.uid # u
    BY NoPageFields, FriendsAssumption
  <2> QED BY <2>1, <2>2, PageReplaced DEF AskedInv, OwnPageHidden
<1>6. RowsAsked'
  <2>1. list' = list \/ list' = [list EXCEPT ![u] = NoList]
    BY DEF PopProfile, CloseRequests, Relaunch
  <2>2. \A f \in Users : ~ NoList.fetching[f] > 0 /\ f \notin NoList.bound
    BY DEF NoList
  <2> QED BY <1>1, <2>1, <2>2, ListReplaced DEF AskedInv, RowsAsked
<1> QED BY <1>2, <1>4, <1>5, <1>6 DEF AskedInv

\* A row on the list stands for a request the server once held.
LEMMA LoadingAsked ==
  ASSUME Inv, AskedInv, NEW o \in Users,
         \/ OpenRequests(o)
         \/ refreshfriendRequests(o)
         \/ getFriendRequests(o)
         \/ \E f \in Users : RequesterLoaded(o, f)
  PROVE  AskedInv'
<1>1. UNCHANGED <<docs, outbox, asked, page>>
  BY Zenon DEF OpenRequests, refreshfriendRequests, getFriendRequests,
     RequesterLoaded, serverVars
<1>2. DocumentsAsked' /\ QueuesAsked'
  BY <1>1, NoNewBatch
<1>3. OwnPageHidden'
  BY <1>1 DEF AskedInv, OwnPageHidden
<1>4. list[o] \in Lists /\ list[o].fetching \in [Users -> Nat]
  BY ScreenTypes DEF Lists
<1>5. PICK L : /\ list' = [list EXCEPT ![o] = L]
               /\ \A f \in Users :
                    L.fetching[f] > 0 \/ f \in L.bound => <<o, f>> \in asked
  <2>1. CASE OpenRequests(o)
    <3> DEFINE L == [NoList EXCEPT !.open = TRUE, !.queries = 1]
    <3>1. list' = [list EXCEPT ![o] = L]
      BY <2>1 DEF OpenRequests
    <3>2. L.bound = {}
      BY DEF NoList
    <3>3. L.fetching = [f \in Users |-> 0]
      BY DEF NoList
    <3> HIDE DEF L
    <3>4. ASSUME NEW f \in Users
          PROVE  ~ (L.fetching[f] > 0)
      <4>1. L.fetching[f] = 0
        BY <3>3
      <4> QED BY <4>1
    <3> QED BY <3>1, <3>2, <3>4
  <2>2. CASE refreshfriendRequests(o)
    <3> DEFINE L == [list[o] EXCEPT !.rows = [f \in Users |-> 0], !.queries = @ + 1]
    <3>1. list' = [list EXCEPT ![o] = L]
      BY <2>2 DEF refreshfriendRequests
    <3>2. L.fetching = list[o].fetching /\ L.bound = list[o].bound
      BY <1>4 DEF Lists
    <3> HIDE DEF L
    <3> QED BY <3>1, <3>2 DEF AskedInv, RowsAsked
  <2>3. CASE getFriendRequests(o)
    <3> DEFINE fetching == [f \in Users |-> list[o].fetching[f]
                              + IF Sees(o, Requested(o, f)) THEN 1 ELSE 0]
               L == [list[o] EXCEPT !.queries = @ - 1, !.fetching = fetching]
               M == [list[o] EXCEPT !.queries = @ - 1]
    <3>1. list' = [list EXCEPT ![o] = L] \/ list' = [list EXCEPT ![o] = M]
      BY <2>3 DEF getFriendRequests
    <3>2. ASSUME NEW f \in Users, fetching[f] > 0
          PROVE  <<o, f>> \in asked
      <4>1. list[o].fetching[f] > 0 \/ Sees(o, Requested(o, f))
        BY <1>4, <3>2
      <4> QED BY <4>1, SeenIsAsked DEF AskedInv, RowsAsked
    <3> HIDE DEF fetching
    <3>3. L.fetching = fetching /\ L.bound = list[o].bound
      BY <1>4 DEF Lists
    <3>4. M.fetching = list[o].fetching /\ M.bound = list[o].bound
      BY <1>4 DEF Lists
    <3> HIDE DEF L, M
    <3> QED BY <3>1, <3>2, <3>3, <3>4 DEF AskedInv, RowsAsked
  <2>4. ASSUME NEW g \in Users, RequesterLoaded(o, g)
        PROVE  \E L : /\ list' = [list EXCEPT ![o] = L]
                      /\ \A f \in Users :
                           L.fetching[f] > 0 \/ f \in L.bound => <<o, f>> \in asked
    <3> DEFINE fetching == [list[o].fetching EXCEPT ![g] = @ - 1]
               bound == list[o].bound \cup {g}
               L == [list[o] EXCEPT !.fetching = fetching, !.rows[g] = @ + 1,
                                    !.bound = bound]
               M == [list[o] EXCEPT !.fetching = fetching]
    <3>1. list[o].fetching[g] > 0
      BY <2>4, Zenon DEF RequesterLoaded
    <3>2. list' = [list EXCEPT ![o] = L] \/ list' = [list EXCEPT ![o] = M]
      <4>1. \/ list' = [list EXCEPT ![o].fetching[g] = @ - 1,
                                    ![o].rows[g] = @ + 1,
                                    ![o].bound = @ \cup {g}]
            \/ list' = [list EXCEPT ![o].fetching[g] = @ - 1]
        BY <2>4, Zenon DEF RequesterLoaded
      <4> QED BY <4>1
    <3>3. \A f \in Users : fetching[f] > 0 => list[o].fetching[f] > 0
      BY <1>4, <3>1
    <3> HIDE DEF fetching
    <3>4. L.fetching = fetching /\ L.bound = list[o].bound \cup {g}
      BY <1>4 DEF Lists
    <3>5. M.fetching = fetching /\ M.bound = list[o].bound
      BY <1>4 DEF Lists
    <3> HIDE DEF L, M
    <3> QED BY <3>1, <3>2, <3>3, <3>4, <3>5 DEF AskedInv, RowsAsked
  <2> QED BY <2>1, <2>2, <2>3, <2>4
<1>6. RowsAsked'
  BY <1>1, <1>5, ListReplaced
<1> QED BY <1>2, <1>3, <1>6 DEF AskedInv

\* A tap on a row, whichever recognizer takes it, answers a request.
LEMMA AnswerAsked ==
  ASSUME Inv, AskedInv, NEW o \in Users, NEW f \in Users,
         AcceptRequest(o, f) \/ DeleteRequest(o, f)
  PROVE  AskedInv'
<1>1. list[o] \in Lists
  BY ScreenTypes
<1>2. UNCHANGED <<page, asked>>
  BY DEF AcceptRequest, DeleteRequest, Write
<1>3. OwnPageHidden'
  BY <1>2 DEF AskedInv, OwnPageHidden
<1>4. RowsAsked'
  <2>1. CASE DeleteRequest(o, f)
    BY <1>2, <2>1 DEF DeleteRequest, AskedInv, RowsAsked
  <2>2. CASE AcceptRequest(o, f)
    <3> DEFINE L == [list[o] EXCEPT !.overlays = @ + 1]
    <3>1. list' = [list EXCEPT ![o] = L]
      BY <2>2 DEF AcceptRequest
    <3>2. L.fetching = list[o].fetching /\ L.bound = list[o].bound
      BY <1>1 DEF Lists
    <3> HIDE DEF L
    <3> QED BY <1>2, <3>1, <3>2, ListReplaced DEF AskedInv, RowsAsked
  <2> QED BY <2>1, <2>2
<1>5. PICK batch \in Batches : Write(o, batch) /\ BatchAsked(o, batch.puts)
  <2>1. CASE DeleteRequest(o, f)
    <3> DEFINE batch == Batch({}, {Requested(o, f)}, "nothing")
    <3>1. batch \in Batches
      BY DocumentTypes DEF Batch, Batches, Handlers
    <3>2. BatchAsked(o, batch.puts)
      BY DEF BatchAsked, Batch
    <3> QED BY <2>1, <3>1, <3>2 DEF DeleteRequest
  <2>2. CASE AcceptRequest(o, f)
    <3> DEFINE batch == Batch({Accepted(o, f)}, {Requested(o, f)}, "reveal")
    <3>1. batch \in Batches
      BY DocumentTypes DEF Batch, Batches, Handlers
    <3>2. <<o, f>> \in asked
      BY <2>2 DEF AcceptRequest, Tapped, AskedInv, RowsAsked
    <3>3. batch.puts = {Accepted(o, f)}
      BY DEF Batch
    <3>4. BatchAsked(o, {Accepted(o, f)})
      BY <3>2, DocumentsDiffer DEF BatchAsked
    <3> QED BY <2>2, <3>1, <3>3, <3>4 DEF AcceptRequest
  <2> QED BY <2>1, <2>2
<1>6. DocumentsAsked' /\ QueuesAsked'
  BY <1>5, QueueAppended
<1> QED BY <1>3, <1>4, <1>6 DEF AskedInv

LEMMA InitAsked == Init => AskedInv
<1> SUFFICES ASSUME Init PROVE AskedInv
  OBVIOUS
<1>1. DocumentsAsked
  BY DEF Init, DocumentsAsked
<1>2. QueuesAsked
  BY DEF Init, QueuesAsked
<1>3. RowsAsked
  <2>1. \A f \in Users : ~ NoList.fetching[f] > 0 /\ f \notin NoList.bound
    BY DEF NoList
  <2> QED BY <2>1 DEF Init, RowsAsked
<1>4. OwnPageHidden
  BY NoPageFields, FriendsAssumption DEF Init, OwnPageHidden
<1> QED BY <1>1, <1>2, <1>3, <1>4 DEF AskedInv

LEMMA NextAsked == Inv /\ AskedInv /\ [Next]_vars => AskedInv'
<1> SUFFICES ASSUME Inv, AskedInv, [Next]_vars PROVE AskedInv'
  OBVIOUS
<1>1. CASE UNCHANGED vars \/ Done
  <2>1. UNCHANGED vars
    BY <1>1 DEF Done
  <2> QED BY <2>1 DEF vars, AskedInv, DocumentsAsked, QueuesAsked, BatchAsked,
             RowsAsked, OwnPageHidden
<1>2. ASSUME NEW u \in Users, Committed(u) \/ Refused(u) \/ Relaunch(u)
      PROVE  AskedInv'
  BY <1>2, CommittedAsked, RefusedAsked, LeavingAsked
<1>3. ASSUME NEW v \in Users, Taps(v) \/ Callbacks(v)
      PROVE  AskedInv'
  BY <1>3, TapsAsked, PageAsked
<1>4. ASSUME NEW v \in Users, Navigation(v)
      PROVE  AskedInv'
  BY <1>4, OpenProfileAsked, PageAsked, LeavingAsked DEF Navigation
<1>5. ASSUME NEW o \in Users, Requests(o)
      PROVE  AskedInv'
  BY <1>5, LoadingAsked, AnswerAsked, LeavingAsked DEF Requests
<1>6. \A o \in Hosts : o \in Users
  BY FriendsAssumption
<1> QED BY <1>1, <1>2, <1>3, <1>4, <1>5, <1>6 DEF Next

\* Nobody becomes a friend who never asked, for any number of users, screens,
\* queued batches and failures: AcceptRequest answers only for a row that was
\* loaded, and a row is loaded only for a request the server held.
THEOREM FriendshipAsked == Spec => []FriendshipWasAsked
<1>1. Init => Inv /\ AskedInv
  BY InitInv, InitAsked
<1>2. (Inv /\ AskedInv) /\ [Next]_vars => (Inv /\ AskedInv)'
  BY NextInv, NextAsked
<1>3. AskedInv => FriendshipWasAsked
  BY DEF AskedInv, DocumentsAsked, FriendshipWasAsked
<1> QED BY <1>1, <1>2, <1>3, PTL DEF Spec

------------------------------------------------------------------------------
(* The documents behave as Friendship says. *)

\* The documents a batch touches, for one pair of users: what the taps of a
\* profile page and of a request list write.
Shape(b, o, f) ==
  \/ b.puts = {} /\ b.dels = {Accepted(o, f)}
  \/ b.puts = {} /\ b.dels = {Requested(o, f)}
  \/ b.puts = {} /\ b.dels = {Blocked(o, f)}
  \/ b.puts = {Requested(o, f)} /\ b.dels = {}
  \/ b.puts = {Blocked(o, f)} /\ b.dels = {Accepted(o, f), Accepted(f, o)}
  \/ b.puts = {Accepted(o, f)} /\ b.dels = {Requested(o, f)}

ShapedBatches == {b \in Batches : \E o, f \in Users : Shape(b, o, f)}

\* Only such batches wait, so the oldest one is one step of Friendship.
Shaped == outbox \in [Users -> Seq(ShapedBatches)]

LEMMA TapsShaped ==
  ASSUME Inv, Shaped, NEW v \in Users, Taps(v)
  PROVE  Shaped'
<1> DEFINE p == page[v].uid
<1>1. p \in Users
  BY ScreenTypes, Zenon DEF Taps, handleRemoveFriend, handleCancelRequest,
     handleUnblockUser, handleRequestFriend, blockuser, Tappable, Pages
<1> HIDE DEF p
<1>2. /\ Batch({}, {Accepted(p, v)}, "nothing") \in ShapedBatches
      /\ Batch({}, {Requested(p, v)}, "nothing") \in ShapedBatches
      /\ Batch({}, {Blocked(v, p)}, "unblocked") \in ShapedBatches
      /\ Batch({Requested(p, v)}, {}, "nothing") \in ShapedBatches
      /\ Batch({Blocked(v, p)}, {Accepted(v, p), Accepted(p, v)}, "blocked")
           \in ShapedBatches
  <2>1. /\ Batch({}, {Accepted(p, v)}, "nothing") \in Batches
        /\ Batch({}, {Requested(p, v)}, "nothing") \in Batches
        /\ Batch({}, {Blocked(v, p)}, "unblocked") \in Batches
        /\ Batch({Requested(p, v)}, {}, "nothing") \in Batches
        /\ Batch({Blocked(v, p)}, {Accepted(v, p), Accepted(p, v)}, "blocked") \in Batches
    BY <1>1, DocumentTypes DEF Batch, Batches, Handlers
  <2>2. /\ Shape(Batch({}, {Accepted(p, v)}, "nothing"), p, v)
        /\ Shape(Batch({}, {Requested(p, v)}, "nothing"), p, v)
        /\ Shape(Batch({}, {Blocked(v, p)}, "unblocked"), v, p)
        /\ Shape(Batch({Requested(p, v)}, {}, "nothing"), p, v)
        /\ Shape(Batch({Blocked(v, p)}, {Accepted(v, p), Accepted(p, v)}, "blocked"), v, p)
    BY DEF Batch, Shape
  <2> QED BY <1>1, <2>1, <2>2 DEF ShapedBatches
<1>3. PICK batch \in ShapedBatches : Write(v, batch)
  BY <1>2, Zenon DEF p, Taps, handleRemoveFriend, handleCancelRequest, handleUnblockUser,
     handleRequestFriend, blockuser
<1> QED BY <1>3 DEF Shaped, Write, Enqueue

LEMMA AnswerShaped ==
  ASSUME Shaped, NEW o \in Users, NEW f \in Users,
         AcceptRequest(o, f) \/ DeleteRequest(o, f)
  PROVE  Shaped'
<1>1. /\ Batch({Accepted(o, f)}, {Requested(o, f)}, "reveal") \in ShapedBatches
      /\ Batch({}, {Requested(o, f)}, "nothing") \in ShapedBatches
  <2>1. /\ Batch({Accepted(o, f)}, {Requested(o, f)}, "reveal") \in Batches
        /\ Batch({}, {Requested(o, f)}, "nothing") \in Batches
    BY DocumentTypes DEF Batch, Batches, Handlers
  <2>2. /\ Shape(Batch({Accepted(o, f)}, {Requested(o, f)}, "reveal"), o, f)
        /\ Shape(Batch({}, {Requested(o, f)}, "nothing"), o, f)
    BY DEF Batch, Shape
  <2> QED BY <2>1, <2>2 DEF ShapedBatches
<1>2. PICK batch \in ShapedBatches : Write(o, batch)
  BY <1>1 DEF AcceptRequest, DeleteRequest
<1> QED BY <1>2 DEF Shaped, Write, Enqueue

LEMMA OrphanShaped ==
  ASSUME Shaped, NEW u \in Users, NEW f \in [Handlers -> Handlers],
         outbox' = Orphan(u, f)
  PROVE  Shaped'
<1> DEFINE q == outbox[u]
           r == [i \in DOMAIN q |-> [q[i] EXCEPT !.handler = f[q[i].handler]]]
<1>1. q \in Seq(ShapedBatches)
  BY DEF Shaped
<1>2. ASSUME NEW i \in DOMAIN q
      PROVE  [q[i] EXCEPT !.handler = f[q[i].handler]] \in ShapedBatches
  <2> DEFINE b == [q[i] EXCEPT !.handler = f[q[i].handler]]
  <2>1. q[i] \in ShapedBatches
    BY <1>1, <1>2
  <2>2. q[i] \in Batches
    BY <2>1 DEF ShapedBatches
  <2>3. b \in Batches /\ b.puts = q[i].puts /\ b.dels = q[i].dels
    BY <2>2 DEF Batches
  <2> HIDE DEF b, q
  <2>4. b \in ShapedBatches
    BY <2>1, <2>3 DEF ShapedBatches, Shape
  <2> QED BY <2>4 DEF b
<1>3. r \in Seq(ShapedBatches)
  <2>1. Len(q) \in Nat /\ DOMAIN q = 1..Len(q)
    BY <1>1
  <2>2. r \in [1..Len(q) -> ShapedBatches]
    BY <1>2, <2>1
  <2> QED BY <2>1, <2>2, SeqDef
<1> QED BY <1>3 DEF Shaped, Orphan

LEMMA InitShaped == Init => Shaped
  BY DEF Init, Shaped

LEMMA NextShaped == Inv /\ Shaped /\ [Next]_vars => Shaped'
<1> SUFFICES ASSUME Inv, Shaped, [Next]_vars PROVE Shaped'
  OBVIOUS
<1>1. CASE UNCHANGED outbox
  BY <1>1 DEF Shaped
<1>2. ASSUME NEW u \in Users, Committed(u) \/ Refused(u)
      PROVE  Shaped'
  <2>1. outbox[u] # <<>> /\ outbox' = [outbox EXCEPT ![u] = Tail(@)]
    BY <1>2 DEF Committed, Commit, Refused, Refuse
  <2> QED BY <2>1 DEF Shaped
<1>3. ASSUME NEW v \in Users, Taps(v)
      PROVE  Shaped'
  BY <1>3, TapsShaped
<1>4. ASSUME NEW v \in Users, PopProfile(v) \/ Relaunch(v)
      PROVE  Shaped'
  <2> DEFINE f == [h \in Handlers |-> CASE h = "blocked" -> "hide"
                                        [] h = "unblocked" -> "nothing"
                                        [] OTHER -> h]
             g == [h \in Handlers |-> "nothing"]
  <2>1. f \in [Handlers -> Handlers] /\ g \in [Handlers -> Handlers]
    BY DEF Handlers
  <2>2. outbox' = Orphan(v, f) \/ outbox' = Orphan(v, g)
    BY <1>4 DEF PopProfile, Relaunch
  <2> HIDE DEF f, g
  <2> QED BY <2>1, <2>2, OrphanShaped
<1>5. ASSUME NEW o \in Hosts, NEW f \in Users, AcceptRequest(o, f) \/ DeleteRequest(o, f)
      PROVE  Shaped'
  BY <1>5, AnswerShaped, FriendsAssumption
<1>6. CASE ~ UNCHANGED outbox
  <2>1. \/ \E u \in Users : \/ Committed(u) \/ Refused(u) \/ Taps(u)
                            \/ PopProfile(u) \/ Relaunch(u)
        \/ \E o \in Hosts, f \in Users : AcceptRequest(o, f) \/ DeleteRequest(o, f)
    BY <1>6 DEF Next, vars, serverVars, Done, Navigation, OpenProfile, DismissAlert,
       Cover, Reveal, Callbacks, CheckIfBlocked, areTheyFriends, checkIfRequested,
       CheckIfYouBlockedThem, Requests, OpenRequests, refreshfriendRequests,
       CloseRequests, getFriendRequests, RequesterLoaded
  <2> QED BY <1>2, <1>3, <1>4, <1>5, <2>1
<1> QED BY <1>1, <1>6

LEMMA SamePairs ==
  ASSUME NEW S \in SUBSET (Users \X Users), NEW T \in SUBSET (Users \X Users),
         \A g, h \in Users : <<g, h>> \in S <=> <<g, h>> \in T
  PROVE  S = T
  OBVIOUS

\* A committed batch is one step of Friendship.
LEMMA CommittedAbstractly ==
  ASSUME Inv, AskedInv, Shaped, NEW u \in Users, Committed(u)
  PROVE  Abstract!Next
<1> DEFINE b == Head(outbox[u])
<1>1. outbox[u] \in Seq(ShapedBatches) /\ outbox[u] # <<>>
  BY DEF Shaped, Committed, Commit
<1>2. b \in ShapedBatches /\ 1 \in DOMAIN outbox[u] /\ b = outbox[u][1]
  BY <1>1
<1>3. PICK o \in Users, f \in Users : Shape(b, o, f)
  BY <1>2 DEF ShapedBatches
<1>4. \A g, h \in Users : Accepted(g, h) \in b.puts => <<g, h>> \in asked
  BY <1>2 DEF AskedInv, QueuesAsked, BatchAsked
<1>5. docs' = (docs \ b.dels) \cup b.puts
  BY DEF Committed, Commit
<1>6. asked' = asked \cup {w \in Users \X Users : Requested(w[1], w[2]) \in b.puts}
  BY DEF Committed
<1> HIDE DEF b
<1>7. asked \subseteq Users \X Users /\ asked' \subseteq Users \X Users
  BY <1>6 DEF Inv, TypeOK
<1> DEFINE R == Pair("Requested")
           A == Pair("Accepted")
           B == Pair("Blocked")
<1>8. /\ R \subseteq Users \X Users /\ A \subseteq Users \X Users
      /\ B \subseteq Users \X Users /\ R' \subseteq Users \X Users
      /\ A' \subseteq Users \X Users /\ B' \subseteq Users \X Users
  BY DEF Pair
<1>9. \A g, h \in Users :
        /\ <<g, h>> \in R <=> Requested(g, h) \in docs
        /\ <<g, h>> \in A <=> Accepted(g, h) \in docs
        /\ <<g, h>> \in B <=> Blocked(g, h) \in docs
        /\ <<g, h>> \in R' <=> Requested(g, h) \in docs'
        /\ <<g, h>> \in A' <=> Accepted(g, h) \in docs'
        /\ <<g, h>> \in B' <=> Blocked(g, h) \in docs'
        /\ <<g, h>> \in asked' <=> <<g, h>> \in asked \/ Requested(g, h) \in b.puts
  BY <1>6 DEF Pair, Requested, Accepted, Blocked
<1>10. \A g, h \in Users :
         /\ <<g, h>> \in R' <=> \/ <<g, h>> \in R /\ Requested(g, h) \notin b.dels
                               \/ Requested(g, h) \in b.puts
         /\ <<g, h>> \in A' <=> \/ <<g, h>> \in A /\ Accepted(g, h) \notin b.dels
                               \/ Accepted(g, h) \in b.puts
         /\ <<g, h>> \in B' <=> \/ <<g, h>> \in B /\ Blocked(g, h) \notin b.dels
                               \/ Blocked(g, h) \in b.puts
         /\ <<g, h>> \in asked' <=> <<g, h>> \in asked \/ Requested(g, h) \in b.puts
  BY <1>5, <1>9
<1> HIDE DEF R, A, B
<1>11. CASE b.puts = {} /\ b.dels = {Accepted(o, f)}
  <2>1. \A g, h :
          /\ Requested(g, h) \notin b.puts
          /\ Requested(g, h) \notin b.dels
          /\ Accepted(g, h) \notin b.puts
          /\ Accepted(g, h) \in b.dels <=> (g = o /\ h = f)
          /\ Blocked(g, h) \notin b.puts
          /\ Blocked(g, h) \notin b.dels
    BY <1>11 DEF Requested, Accepted, Blocked
  <2>2. R' = R
    <3>1. \A g, h \in Users : <<g, h>> \in R' <=> (<<g, h>> \in R)
      BY <1>10, <2>1
    <3> QED BY <1>7, <1>8, <3>1, SamePairs
  <2>3. A' = A \ {<<o, f>>}
    <3>1. \A g, h \in Users : <<g, h>> \in A' <=> (<<g, h>> \in A /\ ~ (g = o /\ h = f))
      BY <1>10, <2>1
    <3> QED BY <1>7, <1>8, <3>1, SamePairs
  <2>4. B' = B
    <3>1. \A g, h \in Users : <<g, h>> \in B' <=> (<<g, h>> \in B)
      BY <1>10, <2>1
    <3> QED BY <1>7, <1>8, <3>1, SamePairs
  <2>5. asked' = asked
    <3>1. \A g, h \in Users : <<g, h>> \in asked' <=> (<<g, h>> \in asked)
      BY <1>10, <2>1
    <3> QED BY <1>7, <1>8, <3>1, SamePairs
  <2> QED BY <2>2, <2>3, <2>4, <2>5 DEF Abstract!Next, Abstract!Unfriend, R, A, B
<1>12. CASE b.puts = {} /\ b.dels = {Requested(o, f)}
  <2>1. \A g, h :
          /\ Requested(g, h) \notin b.puts
          /\ Requested(g, h) \in b.dels <=> (g = o /\ h = f)
          /\ Accepted(g, h) \notin b.puts
          /\ Accepted(g, h) \notin b.dels
          /\ Blocked(g, h) \notin b.puts
          /\ Blocked(g, h) \notin b.dels
    BY <1>12 DEF Requested, Accepted, Blocked
  <2>2. R' = R \ {<<o, f>>}
    <3>1. \A g, h \in Users : <<g, h>> \in R' <=> (<<g, h>> \in R /\ ~ (g = o /\ h = f))
      BY <1>10, <2>1
    <3> QED BY <1>7, <1>8, <3>1, SamePairs
  <2>3. A' = A
    <3>1. \A g, h \in Users : <<g, h>> \in A' <=> (<<g, h>> \in A)
      BY <1>10, <2>1
    <3> QED BY <1>7, <1>8, <3>1, SamePairs
  <2>4. B' = B
    <3>1. \A g, h \in Users : <<g, h>> \in B' <=> (<<g, h>> \in B)
      BY <1>10, <2>1
    <3> QED BY <1>7, <1>8, <3>1, SamePairs
  <2>5. asked' = asked
    <3>1. \A g, h \in Users : <<g, h>> \in asked' <=> (<<g, h>> \in asked)
      BY <1>10, <2>1
    <3> QED BY <1>7, <1>8, <3>1, SamePairs
  <2> QED BY <2>2, <2>3, <2>4, <2>5 DEF Abstract!Next, Abstract!Drop, R, A, B
<1>13. CASE b.puts = {} /\ b.dels = {Blocked(o, f)}
  <2>1. \A g, h :
          /\ Requested(g, h) \notin b.puts
          /\ Requested(g, h) \notin b.dels
          /\ Accepted(g, h) \notin b.puts
          /\ Accepted(g, h) \notin b.dels
          /\ Blocked(g, h) \notin b.puts
          /\ Blocked(g, h) \in b.dels <=> (g = o /\ h = f)
    BY <1>13 DEF Requested, Accepted, Blocked
  <2>2. R' = R
    <3>1. \A g, h \in Users : <<g, h>> \in R' <=> (<<g, h>> \in R)
      BY <1>10, <2>1
    <3> QED BY <1>7, <1>8, <3>1, SamePairs
  <2>3. A' = A
    <3>1. \A g, h \in Users : <<g, h>> \in A' <=> (<<g, h>> \in A)
      BY <1>10, <2>1
    <3> QED BY <1>7, <1>8, <3>1, SamePairs
  <2>4. B' = B \ {<<o, f>>}
    <3>1. \A g, h \in Users : <<g, h>> \in B' <=> (<<g, h>> \in B /\ ~ (g = o /\ h = f))
      BY <1>10, <2>1
    <3> QED BY <1>7, <1>8, <3>1, SamePairs
  <2>5. asked' = asked
    <3>1. \A g, h \in Users : <<g, h>> \in asked' <=> (<<g, h>> \in asked)
      BY <1>10, <2>1
    <3> QED BY <1>7, <1>8, <3>1, SamePairs
  <2> QED BY <2>2, <2>3, <2>4, <2>5 DEF Abstract!Next, Abstract!Unblock, R, A, B
<1>14. CASE b.puts = {Requested(o, f)} /\ b.dels = {}
  <2>1. \A g, h :
          /\ Requested(g, h) \in b.puts <=> (g = o /\ h = f)
          /\ Requested(g, h) \notin b.dels
          /\ Accepted(g, h) \notin b.puts
          /\ Accepted(g, h) \notin b.dels
          /\ Blocked(g, h) \notin b.puts
          /\ Blocked(g, h) \notin b.dels
    BY <1>14 DEF Requested, Accepted, Blocked
  <2>2. R' = R \cup {<<o, f>>}
    <3>1. \A g, h \in Users : <<g, h>> \in R' <=> (<<g, h>> \in R \/ (g = o /\ h = f))
      BY <1>10, <2>1
    <3> QED BY <1>7, <1>8, <3>1, SamePairs
  <2>3. A' = A
    <3>1. \A g, h \in Users : <<g, h>> \in A' <=> (<<g, h>> \in A)
      BY <1>10, <2>1
    <3> QED BY <1>7, <1>8, <3>1, SamePairs
  <2>4. B' = B
    <3>1. \A g, h \in Users : <<g, h>> \in B' <=> (<<g, h>> \in B)
      BY <1>10, <2>1
    <3> QED BY <1>7, <1>8, <3>1, SamePairs
  <2>5. asked' = asked \cup {<<o, f>>}
    <3>1. \A g, h \in Users : <<g, h>> \in asked' <=> (<<g, h>> \in asked \/ (g = o /\ h = f))
      BY <1>10, <2>1
    <3> QED BY <1>7, <1>8, <3>1, SamePairs
  <2> QED BY <2>2, <2>3, <2>4, <2>5 DEF Abstract!Next, Abstract!Ask, R, A, B
<1>15. CASE b.puts = {Blocked(o, f)} /\ b.dels = {Accepted(o, f), Accepted(f, o)}
  <2>1. \A g, h :
          /\ Requested(g, h) \notin b.puts
          /\ Requested(g, h) \notin b.dels
          /\ Accepted(g, h) \notin b.puts
          /\ Accepted(g, h) \in b.dels <=> (g = o /\ h = f) \/ (g = f /\ h = o)
          /\ Blocked(g, h) \in b.puts <=> (g = o /\ h = f)
          /\ Blocked(g, h) \notin b.dels
    BY <1>15 DEF Requested, Accepted, Blocked
  <2>2. R' = R
    <3>1. \A g, h \in Users : <<g, h>> \in R' <=> (<<g, h>> \in R)
      BY <1>10, <2>1
    <3> QED BY <1>7, <1>8, <3>1, SamePairs
  <2>3. A' = A \ {<<o, f>>, <<f, o>>}
    <3>1. \A g, h \in Users : <<g, h>> \in A' <=> (<<g, h>> \in A /\ ~ (g = o /\ h = f) /\ ~ (g = f /\ h = o))
      BY <1>10, <2>1
    <3> QED BY <1>7, <1>8, <3>1, SamePairs
  <2>4. B' = B \cup {<<o, f>>}
    <3>1. \A g, h \in Users : <<g, h>> \in B' <=> (<<g, h>> \in B \/ (g = o /\ h = f))
      BY <1>10, <2>1
    <3> QED BY <1>7, <1>8, <3>1, SamePairs
  <2>5. asked' = asked
    <3>1. \A g, h \in Users : <<g, h>> \in asked' <=> (<<g, h>> \in asked)
      BY <1>10, <2>1
    <3> QED BY <1>7, <1>8, <3>1, SamePairs
  <2> QED BY <2>2, <2>3, <2>4, <2>5 DEF Abstract!Next, Abstract!Block, R, A, B
<1>16. CASE b.puts = {Accepted(o, f)} /\ b.dels = {Requested(o, f)}
  <2>1. \A g, h :
          /\ Requested(g, h) \notin b.puts
          /\ Requested(g, h) \in b.dels <=> (g = o /\ h = f)
          /\ Accepted(g, h) \in b.puts <=> (g = o /\ h = f)
          /\ Accepted(g, h) \notin b.dels
          /\ Blocked(g, h) \notin b.puts
          /\ Blocked(g, h) \notin b.dels
    BY <1>16 DEF Requested, Accepted, Blocked
  <2>2. R' = R \ {<<o, f>>}
    <3>1. \A g, h \in Users : <<g, h>> \in R' <=> (<<g, h>> \in R /\ ~ (g = o /\ h = f))
      BY <1>10, <2>1
    <3> QED BY <1>7, <1>8, <3>1, SamePairs
  <2>3. A' = A \cup {<<o, f>>}
    <3>1. \A g, h \in Users : <<g, h>> \in A' <=> (<<g, h>> \in A \/ (g = o /\ h = f))
      BY <1>10, <2>1
    <3> QED BY <1>7, <1>8, <3>1, SamePairs
  <2>4. B' = B
    <3>1. \A g, h \in Users : <<g, h>> \in B' <=> (<<g, h>> \in B)
      BY <1>10, <2>1
    <3> QED BY <1>7, <1>8, <3>1, SamePairs
  <2>5. asked' = asked
    <3>1. \A g, h \in Users : <<g, h>> \in asked' <=> (<<g, h>> \in asked)
      BY <1>10, <2>1
    <3> QED BY <1>7, <1>8, <3>1, SamePairs
  <2>6. <<o, f>> \in asked
    BY <1>4, <1>16
  <2> QED BY <2>2, <2>3, <2>4, <2>5, <2>6 DEF Abstract!Next, Abstract!Accept, R, A, B
<1> QED BY <1>3, <1>11, <1>12, <1>13, <1>14, <1>15, <1>16 DEF Shape

LEMMA NextAbstractly ==
  ASSUME Inv, AskedInv, Shaped, [Next]_vars
  PROVE  [Abstract!Next]_Abstract!vars
<1>1. CASE \E u \in Users : Committed(u)
  BY <1>1, CommittedAbstractly
<1>2. CASE ~ \E u \in Users : Committed(u)
  <2>1. ASSUME UNCHANGED vars \/ Done
        PROVE  UNCHANGED <<docs, asked>>
    <3>1. UNCHANGED vars
      BY <2>1 DEF Done
    <3> QED BY <3>1 DEF vars
  <2>2. ASSUME NEW u \in Users, Refused(u) \/ Relaunch(u)
        PROVE  UNCHANGED <<docs, asked>>
    BY <2>2 DEF Refused, Refuse, Relaunch
  <2>3. ASSUME NEW v \in Users, Taps(v)
        PROVE  UNCHANGED <<docs, asked>>
    BY <2>3 DEF Taps, handleRemoveFriend, handleCancelRequest, handleUnblockUser,
       handleRequestFriend, blockuser, Write
  <2>4. ASSUME NEW v \in Users, Navigation(v)
        PROVE  UNCHANGED <<docs, asked>>
    BY <2>4 DEF Navigation, OpenProfile, DismissAlert, Cover, Reveal, PopProfile,
       serverVars
  <2>5. ASSUME NEW v \in Users, Callbacks(v)
        PROVE  UNCHANGED <<docs, asked>>
    BY <2>5 DEF Callbacks, CheckIfBlocked, areTheyFriends, checkIfRequested,
       CheckIfYouBlockedThem, serverVars
  <2>6. ASSUME NEW o \in Hosts, Requests(o)
        PROVE  UNCHANGED <<docs, asked>>
    BY <2>6 DEF Requests, OpenRequests, refreshfriendRequests, CloseRequests,
       getFriendRequests, RequesterLoaded, AcceptRequest, DeleteRequest, Write,
       serverVars
  <2>7. UNCHANGED <<docs, asked>>
    BY <1>2, <2>1, <2>2, <2>3, <2>4, <2>5, <2>6 DEF Next
  <2>8. \A kind : Pair(kind)' = Pair(kind)
    BY <2>7 DEF Pair
  <2> QED BY <2>7, <2>8 DEF Abstract!vars
<1> QED BY <1>1, <1>2

\* Seen through screens, reused cells, queues and refusals, the documents of
\* the server change only as Friendship allows: a friendship begins with an
\* acceptance of what was asked, ends on the asker's side or with a block, and
\* a block ends it in both directions in the same step.
THEOREM FriendshipKept == Spec => ImplementsFriendship
<1>1. Init => Abstract!Init
  BY DEF Init, Abstract!Init, Pair
<1>2. Init => Inv /\ AskedInv /\ Shaped
  BY InitInv, InitAsked, InitShaped
<1>3. (Inv /\ AskedInv /\ Shaped) /\ [Next]_vars => (Inv /\ AskedInv /\ Shaped)'
  BY NextInv, NextAsked, NextShaped
<1>4. (Inv /\ AskedInv /\ Shaped) /\ [Next]_vars => [Abstract!Next]_Abstract!vars
  BY NextAbstractly
<1> QED BY <1>1, <1>2, <1>3, <1>4, PTL DEF Spec, ImplementsFriendship, Abstract!Spec

------------------------------------------------------------------------------
(* The title of the button is backed by a listener. *)

\* Some listener of this kind has delivered x last.
Delivered(s, x) == \E i \in DOMAIN s : s[i] = x

\* Each title stands on what the listener that set it delivered last, or else
\* a listener created since then has yet to deliver, and will set another.
Backed(P) ==
  P.first # "removed" =>
    /\ P.title = "Friends" => \/ P.first = "exists"
                              \/ Delivered(P.second, "never")
                              \/ Delivered(P.third, "never")
    /\ P.title = "Requested" => \/ Delivered(P.second, "exists")
                                \/ Delivered(P.third, "never")
    /\ P.title = "Blocked" => Delivered(P.third, "exists")
    /\ P.title = "Add friend" => Delivered(P.third, "absent")
    /\ P.title = "" => \/ P.first = "never"
                       \/ Delivered(P.second, "never")
                       \/ Delivered(P.third, "never")

TitlesBacked == \A v \in Users : Backed(page[v])

LEMMA DeliveredLast ==
  ASSUME NEW s \in Seq(Seen), NEW now \in Seen
  PROVE  /\ Delivered(Append(s, now), now)
         /\ \A x : Delivered(s, x) => Delivered(Append(s, now), x)
         /\ \A i \in DOMAIN s : Delivered([s EXCEPT ![i] = now], now)
<1>1. /\ DOMAIN Append(s, now) = 1..Len(s) + 1 /\ DOMAIN s = 1..Len(s)
      /\ Append(s, now)[Len(s) + 1] = now
      /\ \A i \in DOMAIN s : Append(s, now)[i] = s[i]
      /\ Len(s) \in Nat
  OBVIOUS
<1>2. Delivered(Append(s, now), now)
  BY <1>1 DEF Delivered
<1>3. ASSUME NEW x, Delivered(s, x)
      PROVE  Delivered(Append(s, now), x)
  BY <1>1, <1>3 DEF Delivered
<1>4. ASSUME NEW i \in DOMAIN s
      PROVE  Delivered([s EXCEPT ![i] = now], now)
  BY DEF Delivered
<1> QED BY <1>2, <1>3, <1>4

LEMMA PageBacked ==
  ASSUME Inv, TitlesBacked, NEW v \in Users, NEW P,
         page' = [page EXCEPT ![v] = P], Backed(P)
  PROVE  TitlesBacked'
  BY DEF Inv, TypeOK, TitlesBacked

\* A page whose listeners and title are as they were.
LEMMA SameListeners ==
  ASSUME NEW P, NEW Q, Backed(P),
         Q.first = P.first, Q.second = P.second, Q.third = P.third,
         Q.title = P.title
  PROVE  Backed(Q)
  BY DEF Backed

LEMMA NoPageBacked == Backed(NoPage)
  BY NoPageFields DEF Backed

LEMMA areTheyFriendsBacked ==
  ASSUME Inv, TitlesBacked, NEW v \in Users, areTheyFriends(v)
  PROVE  TitlesBacked'
<1> DEFINE second == Append(page[v].second, "never")
           P == [page[v] EXCEPT !.first = "exists", !.title = "Friends"]
           Q == [page[v] EXCEPT !.first = "absent", !.second = second]
<1>1. page[v] \in Pages /\ page[v].second \in Seq(Seen)
  BY ScreenTypes DEF Pages
<1>2. Backed(page[v]) /\ page[v].first # "removed"
  BY DEF TitlesBacked, areTheyFriends, AcceptedDue, Due
<1>3. Delivered(second, "never")
      /\ \A x : Delivered(page[v].second, x) => Delivered(second, x)
  BY <1>1, DeliveredLast DEF Seen
<1>4. page' = [page EXCEPT ![v] = P] \/ page' = [page EXCEPT ![v] = Q]
  BY DEF areTheyFriends
<1> HIDE DEF second
<1>5. P.first = "exists" /\ P.title = "Friends"
  BY <1>1 DEF Pages
<1>6. /\ Q.first = "absent" /\ Q.title = page[v].title
      /\ Q.second = second /\ Q.third = page[v].third
  BY <1>1 DEF Pages
<1> HIDE DEF P, Q
<1>7. Backed(P)
  BY <1>5 DEF Backed
<1>8. Backed(Q)
  BY <1>2, <1>3, <1>6 DEF Backed
<1> QED BY <1>4, <1>7, <1>8, PageBacked

LEMMA checkIfRequestedBacked ==
  ASSUME Inv, TitlesBacked, NEW v \in Users, checkIfRequested(v)
  PROVE  TitlesBacked'
<1> PICK i \in DOMAIN page[v].second :
      page' = IF Sees(v, Requested(page[v].uid, v))
              THEN [page EXCEPT ![v].second[i] = "exists",
                                ![v].title = "Requested"]
              ELSE [page EXCEPT ![v].second[i] = "absent",
                                ![v].third = Append(@, "never")]
  BY Zenon DEF checkIfRequested
<1> DEFINE second == [page[v].second EXCEPT ![i] = "exists"]
           other == [page[v].second EXCEPT ![i] = "absent"]
           third == Append(page[v].third, "never")
           P == [page[v] EXCEPT !.second = second, !.title = "Requested"]
           Q == [page[v] EXCEPT !.second = other, !.third = third]
<1>1. /\ page[v] \in Pages
      /\ page[v].second \in Seq(Seen) /\ page[v].third \in Seq(Seen)
  BY ScreenTypes DEF Pages
<1>2. Backed(page[v])
  BY DEF TitlesBacked
<1>3. Delivered(second, "exists")
  BY <1>1, DeliveredLast DEF Seen
<1>4. Delivered(third, "never")
      /\ \A x : Delivered(page[v].third, x) => Delivered(third, x)
  BY <1>1, DeliveredLast DEF Seen
<1>5. page' = [page EXCEPT ![v] = P] \/ page' = [page EXCEPT ![v] = Q]
  OBVIOUS
<1> HIDE DEF second, other, third
<1>6. P.second = second /\ P.title = "Requested"
  BY <1>1 DEF Pages
<1>7. /\ Q.first = page[v].first /\ Q.title = page[v].title
      /\ Q.second = other /\ Q.third = third
  BY <1>1 DEF Pages
<1> HIDE DEF P, Q
<1>8. Backed(P)
  BY <1>3, <1>6 DEF Backed
<1>9. Backed(Q)
  BY <1>2, <1>4, <1>7 DEF Backed
<1> QED BY <1>5, <1>8, <1>9, PageBacked

LEMMA CheckIfYouBlockedThemBacked ==
  ASSUME Inv, TitlesBacked, NEW v \in Users, CheckIfYouBlockedThem(v)
  PROVE  TitlesBacked'
<1> PICK i \in DOMAIN page[v].third :
      page' = IF Sees(v, Blocked(v, page[v].uid))
              THEN [page EXCEPT ![v].third[i] = "exists",
                                ![v].title = "Blocked"]
              ELSE [page EXCEPT ![v].third[i] = "absent",
                                ![v].title = "Add friend"]
  BY Zenon DEF CheckIfYouBlockedThem
<1> DEFINE third == [page[v].third EXCEPT ![i] = "exists"]
           other == [page[v].third EXCEPT ![i] = "absent"]
           P == [page[v] EXCEPT !.third = third, !.title = "Blocked"]
           Q == [page[v] EXCEPT !.third = other, !.title = "Add friend"]
<1>1. page[v] \in Pages /\ page[v].third \in Seq(Seen)
  BY ScreenTypes DEF Pages
<1>2. Delivered(third, "exists") /\ Delivered(other, "absent")
  BY <1>1, DeliveredLast DEF Seen
<1>3. page' = [page EXCEPT ![v] = P] \/ page' = [page EXCEPT ![v] = Q]
  OBVIOUS
<1> HIDE DEF third, other
<1>4. /\ P.third = third /\ P.title = "Blocked"
      /\ Q.third = other /\ Q.title = "Add friend"
  BY <1>1 DEF Pages
<1> HIDE DEF P, Q
<1>5. Backed(P) /\ Backed(Q)
  BY <1>2, <1>4 DEF Backed
<1> QED BY <1>3, <1>5, PageBacked

\* Steps that touch neither the listeners nor the title of a page, open one,
\* close it, or cover it.
LEMMA OtherPagesBacked ==
  ASSUME Inv, TitlesBacked, NEW v \in Users,
         \/ \E p \in Users : OpenProfile(v, p)
         \/ CheckIfBlocked(v) \/ DismissAlert(v) \/ Cover(v) \/ Reveal(v)
         \/ PopProfile(v) \/ Relaunch(v) \/ blockuser(v)
  PROVE  TitlesBacked'
<1>1. page[v] \in Pages /\ Backed(page[v])
  BY ScreenTypes DEF TitlesBacked
<1>2. ASSUME NEW p \in Users, OpenProfile(v, p)
      PROVE  TitlesBacked'
  <2> DEFINE P == [NoPage EXCEPT !.uid = p, !.visible = TRUE, !.hidden = (p = v),
                                 !.checking = TRUE, !.first = "never"]
  <2>1. P.first = "never" /\ P.title = ""
    BY DEF NoPage
  <2>2. page' = [page EXCEPT ![v] = P]
    BY <1>2 DEF OpenProfile
  <2> HIDE DEF P
  <2>3. Backed(P)
    BY <2>1 DEF Backed
  <2> QED BY <2>2, <2>3, PageBacked
<1>3. CASE CheckIfBlocked(v)
  <2> DEFINE P == [page[v] EXCEPT !.checking = FALSE,
                     !.hidden = @ \/ Sees(v, Blocked(page[v].uid, v))]
             Q == [page[v] EXCEPT !.checking = FALSE]
  <2>1. page' = [page EXCEPT ![v] = P] \/ page' = [page EXCEPT ![v] = Q]
    BY <1>3 DEF CheckIfBlocked
  <2>2. /\ P.first = page[v].first /\ P.second = page[v].second
        /\ P.third = page[v].third /\ P.title = page[v].title
    BY <1>1 DEF Pages
  <2>3. /\ Q.first = page[v].first /\ Q.second = page[v].second
        /\ Q.third = page[v].third /\ Q.title = page[v].title
    BY <1>1 DEF Pages
  <2> HIDE DEF P, Q
  <2> QED BY <1>1, <2>1, <2>2, <2>3, SameListeners, PageBacked
<1>4. CASE DismissAlert(v) \/ Reveal(v) \/ blockuser(v)
  <2> DEFINE P == [page[v] EXCEPT !.alert = "none"]
             Q == [page[v] EXCEPT !.visible = TRUE]
             R == [page[v] EXCEPT !.overlays = @ + 1]
  <2>1. \/ page' = [page EXCEPT ![v] = P] \/ page' = [page EXCEPT ![v] = Q]
        \/ page' = [page EXCEPT ![v] = R]
    BY <1>4 DEF DismissAlert, Reveal, blockuser
  <2>2. /\ P.first = page[v].first /\ P.second = page[v].second
        /\ P.third = page[v].third /\ P.title = page[v].title
    BY <1>1 DEF Pages
  <2>3. /\ Q.first = page[v].first /\ Q.second = page[v].second
        /\ Q.third = page[v].third /\ Q.title = page[v].title
    BY <1>1 DEF Pages
  <2>4. /\ R.first = page[v].first /\ R.second = page[v].second
        /\ R.third = page[v].third /\ R.title = page[v].title
    BY <1>1 DEF Pages
  <2> HIDE DEF P, Q, R
  <2> QED BY <1>1, <2>1, <2>2, <2>3, <2>4, SameListeners, PageBacked
<1>5. CASE Cover(v)
  <2> DEFINE P == [page[v] EXCEPT !.visible = FALSE, !.first = "removed",
                     !.second = RemoveLast(@), !.third = RemoveLast(@)]
  <2>1. page' = [page EXCEPT ![v] = P]
    BY <1>5 DEF Cover
  <2>2. P.first = "removed"
    BY <1>1 DEF Pages
  <2> HIDE DEF P
  <2>3. Backed(P)
    BY <2>2 DEF Backed
  <2> QED BY <2>1, <2>3, PageBacked
<1>6. CASE PopProfile(v) \/ Relaunch(v)
  <2>1. page' = [page EXCEPT ![v] = NoPage]
    BY <1>6 DEF PopProfile, Relaunch
  <2> QED BY <2>1, NoPageBacked, PageBacked
<1> QED BY <1>2, <1>3, <1>4, <1>5, <1>6

\* An acknowledgement takes an overlay away or shows an alert.
LEMMA CompleteBacked ==
  ASSUME Inv, TitlesBacked, NEW u \in Users, NEW done \in BOOLEAN, Complete(u, done)
  PROVE  TitlesBacked'
<1>1. page[u] \in Pages /\ Backed(page[u])
  BY ScreenTypes DEF TitlesBacked
<1>2. PICK n, a : page' = [page EXCEPT ![u] = [page[u] EXCEPT !.overlays = n, !.alert = a]]
  BY DEF Complete
<1> DEFINE P == [page[u] EXCEPT !.overlays = n, !.alert = a]
<1>3. /\ P.first = page[u].first /\ P.second = page[u].second
      /\ P.third = page[u].third /\ P.title = page[u].title
  BY <1>1 DEF Pages
<1> HIDE DEF P
<1> QED BY <1>1, <1>2, <1>3, SameListeners, PageBacked DEF P

LEMMA NextBacked == Inv /\ TitlesBacked /\ [Next]_vars => TitlesBacked'
<1> SUFFICES ASSUME Inv, TitlesBacked, [Next]_vars PROVE TitlesBacked'
  OBVIOUS
<1>1. CASE UNCHANGED vars \/ Done
  <2>1. UNCHANGED vars
    BY <1>1 DEF Done
  <2> QED BY <2>1 DEF vars, TitlesBacked
<1>2. ASSUME NEW u \in Users, Committed(u) \/ Refused(u)
      PROVE  TitlesBacked'
  BY <1>2, CompleteBacked DEF Committed, Refused
<1>3. ASSUME NEW v \in Users, Taps(v)
      PROVE  TitlesBacked'
  <2>1. CASE blockuser(v)
    BY <2>1, OtherPagesBacked
  <2>2. CASE ~ blockuser(v)
    BY <1>3, <2>2 DEF Taps, handleRemoveFriend, handleCancelRequest,
       handleUnblockUser, handleRequestFriend, TitlesBacked
  <2> QED BY <2>1, <2>2
<1>4. ASSUME NEW v \in Users, Navigation(v) \/ Relaunch(v)
      PROVE  TitlesBacked'
  BY <1>4, OtherPagesBacked DEF Navigation
<1>5. ASSUME NEW v \in Users, Callbacks(v)
      PROVE  TitlesBacked'
  BY <1>5, OtherPagesBacked, areTheyFriendsBacked, checkIfRequestedBacked,
     CheckIfYouBlockedThemBacked DEF Callbacks
<1>6. ASSUME NEW o \in Hosts, Requests(o)
      PROVE  TitlesBacked'
  <2>1. page' = page
    BY <1>6 DEF Requests, OpenRequests, refreshfriendRequests, CloseRequests,
       getFriendRequests, RequesterLoaded, AcceptRequest, DeleteRequest, Write
  <2> QED BY <2>1 DEF TitlesBacked
<1> QED BY <1>1, <1>2, <1>3, <1>4, <1>5, <1>6 DEF Next

LEMMA BackedHonest ==
  ASSUME Inv, TitlesBacked
  PROVE  TitleHonest
<1> SUFFICES ASSUME NEW v \in Users, Settled(v)
             PROVE  CASE page[v].title = "Friends" -> Sees(v, Accepted(page[v].uid, v))
                      [] page[v].title = "Requested" -> Sees(v, Requested(page[v].uid, v))
                      [] page[v].title = "Blocked" -> Sees(v, Blocked(v, page[v].uid))
                      [] page[v].title = "Add friend" -> ~ Sees(v, Blocked(v, page[v].uid))
                      [] page[v].title = "" -> FALSE
  BY Zenon DEF TitleHonest
<1>1. Backed(page[v]) /\ page[v].first # "removed"
  BY DEF TitlesBacked, Settled
<1>2. page[v].title \in Titles
  BY ScreenTypes DEF Pages
<1>3. /\ page[v].first # "never"
      /\ page[v].first = "exists" => Sees(v, Accepted(page[v].uid, v))
  BY DEF Settled, AcceptedDue, Due, Value
<1>4. /\ ~ Delivered(page[v].second, "never")
      /\ Delivered(page[v].second, "exists") => Sees(v, Requested(page[v].uid, v))
  BY DEF Settled, RequestedDue, Due, Value, Delivered
<1>5. /\ ~ Delivered(page[v].third, "never")
      /\ Delivered(page[v].third, "exists") => Sees(v, Blocked(v, page[v].uid))
      /\ Delivered(page[v].third, "absent") => ~ Sees(v, Blocked(v, page[v].uid))
  BY DEF Settled, BlockedDue, Due, Value, Delivered
<1> QED BY <1>1, <1>2, <1>3, <1>4, <1>5 DEF Backed, Titles

\* The button of a page at rest claims only what its viewer can read back, for
\* any number of listeners leaked by earlier callbacks and any order in which
\* they fire.
THEOREM TitleIsHonest == Spec => []TitleHonest
<1>1. Init => Inv /\ TitlesBacked
  <2>1. Init => TitlesBacked
    BY NoPageBacked DEF Init, TitlesBacked
  <2> QED BY <2>1, InitInv
<1>2. (Inv /\ TitlesBacked) /\ [Next]_vars => (Inv /\ TitlesBacked)'
  BY NextInv, NextBacked
<1>3. Inv /\ TitlesBacked => TitleHonest
  BY BackedHonest
<1> QED BY <1>1, <1>2, <1>3, PTL DEF Spec
==============================================================================
