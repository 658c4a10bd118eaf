---------------------------- MODULE SignupProofs ----------------------------
(***************************************************************************)
(* Proofs about Signup, for any users, names, universities, courses and    *)
(* bounds.  No property is inductive.  Those about the server need to hold *)
(* of what is queued and asked as well, for a batch is applied long after  *)
(* the state it was made from; the end of an overlay needs to be under way *)
(* from the moment the overlay is put up.                                  *)
(***************************************************************************)
EXTENDS Signup, SequenceTheorems, TLAPS

Clients == Signers \cup {Admin}

\* The handlers, with the bounds that their counters keep.
BoundedHandlers ==
  {NoHandler}
    \cup [by : {"confirm"}, n : 1..MaxConfirms, on : Views]
    \cup [by : {"choice", "listing"}, n : 1..MaxWrites, on : Views]

Batches == [puts : SUBSET Documents, dels : SUBSET Documents, handler : BoundedHandlers]

\* A batch that writes a profile writes the membership, and one that takes a
\* membership away takes the profile away.
Safe(b) ==
  \A u \in Users, field \in Fields : \A x \in Options(field) :
    /\ Profile(u, field, x) \in b.puts => Member(field, x, u) \in b.puts
    /\ Member(field, x, u) \in b.dels \ b.puts =>
         Profile(u, field, x) \in b.dels \ b.puts

SafeBatches == {b \in Batches : Safe(b)}

Queues == outbox \in [Clients -> Seq(SafeBatches)]

Types ==
  /\ docs \subseteq Documents
  /\ account \in [Signers -> {"none", "asked", "abandoned", "created"}]
  /\ screen \in [Signers -> {"start", "email", "names", "home"}]
  /\ pages \in [Signers -> Seq(Pages)]
  /\ typed \in [Signers -> Names \cup {None}]
  /\ over \in [Signers -> Presented]
  /\ overlays \in [Signers -> SUBSET Overlays]
  /\ vSpinner \in [Signers -> Overlays \cup {None}]
  /\ calls \subseteq Requests
  /\ count \in [Signers -> [confirms : 0..MaxConfirms, choices : 0..MaxWrites,
                            listings : 0..MaxWrites]]
  /\ changes \in 0..MaxEvents
  /\ failures \in Nat
  /\ slips \in [Signers -> SUBSET {"retyped", "again", "left"}]

TypeInv == Types /\ Queues

Retyped(u) == "retyped" \in slips[u]

Named(u) == \E n \in Names : Username(u, n) \in docs

\* No user who had signed up before has this name.
Free(n) == \A a \in Users \ Signers : Username(a, n) \notin docs

IsMember(u, set) == \E field \in Fields : \E x \in Options(field) : Member(field, x, u) \in set

\* Unless a name was typed anew: a batch makes nobody a member who has no name
\* already, replaces a name by another one, and that one is free.  The names of
\* those who had signed up before are left alone.
Honest(b) ==
  /\ \A u \in Signers :
       ~ Retyped(u) =>
         /\ IsMember(u, b.puts) => Named(u)
         /\ (\E n \in Names : Username(u, n) \in b.dels) =>
              \E n \in Names : Username(u, n) \in b.puts
         /\ \A n \in Names : Username(u, n) \in b.puts => Free(n)
  /\ \A a \in Users \ Signers : \A n \in Names : Username(a, n) \notin b.puts \cup b.dels

\* The batch whose answer pushes the next page has a name in it.
Naming(u, b) ==
  b.handler # NoHandler /\ b.handler.by = "confirm" =>
    Retyped(u) \/ \E n \in Names : Username(u, n) \in b.puts

HonestQueues ==
  /\ \A c \in Clients : \A i \in DOMAIN outbox[c] : Honest(outbox[c][i])
  /\ \A u \in Signers : \A i \in DOMAIN outbox[u] : Naming(u, outbox[u][i])

\* A page or a sheet is only shown to a user who has a name.
ScreensNamed ==
  \A u \in Signers : OnPage(u) \/ over[u].kind = "sheet" => Named(u) \/ Retyped(u)

\* What is known of the name while it is on its way to the batch.
Checked ==
  \A c \in calls :
    c.kind # "createUser" /\ ~ Retyped(c.user) =>
      /\ c.kind \in {"query", "token"} => c.name = typed[c.user]
      /\ c.kind \in {"token", "pictures"} => c.name \in Names /\ Free(c.name)

DocsInv == Backed /\ ListedAreNamed /\ NamesUnique

Inv == TypeInv /\ HonestQueues /\ ScreensNamed /\ Checked /\ DocsInv

------------------------------------------------------------------------------
(* Documents and batches *)

LEMMA Kinds ==
  ASSUME NEW u \in Users, NEW a \in Users, NEW f \in Fields, NEW g \in Fields,
         NEW x, NEW y, NEW n, NEW c, NEW d
  PROVE  /\ Profile(u, f, x) # Member(g, y, a)
         /\ Profile(u, f, x) # Username(a, n)
         /\ Profile(u, f, x) # Listing(y, c, a)
         /\ Member(f, x, u) # Username(a, n)
         /\ Member(f, x, u) # Listing(y, c, a)
         /\ Username(u, n) # Listing(y, c, a)
         /\ Profile(u, f, x) = Profile(a, g, y) => u = a /\ f = g /\ x = y
         /\ Member(f, x, u) = Member(g, y, a) => u = a /\ f = g /\ x = y
         /\ Username(u, x) = Username(a, y) => u = a /\ x = y
  BY DEF Profile, Member, Username, Listing, Fields

LEMMA InDocuments ==
  ASSUME NEW u \in Users
  PROVE  /\ \A n \in Names : Username(u, n) \in Documents
         /\ \A f \in Fields : \A x \in Options(f) :
              Profile(u, f, x) \in Documents /\ Member(f, x, u) \in Documents
         /\ \A x \in Universities, c \in Courses \cup {Total} : Listing(x, c, u) \in Documents
<1>1. ASSUME NEW n \in Names PROVE Username(u, n) \in Documents
  BY <1>1 DEF Documents
<1>2. ASSUME NEW f \in Fields, NEW x \in Options(f)
      PROVE  Profile(u, f, x) \in Documents /\ Member(f, x, u) \in Documents
  <2>1. Profile(u, f, x) \in {Profile(v, f, y) : v \in Users, y \in Options(f)}
    BY <1>2
  <2>2. Member(f, x, u) \in {Member(f, y, v) : v \in Users, y \in Options(f)}
    BY <1>2
  <2>3. Profile(u, f, x) \in UNION {{Profile(v, g, y) : v \in Users, y \in Options(g)} : g \in Fields}
    BY <1>2, <2>1
  <2>4. Member(f, x, u) \in UNION {{Member(g, y, v) : v \in Users, y \in Options(g)} : g \in Fields}
    BY <1>2, <2>2
  <2>. QED  BY <2>3, <2>4 DEF Documents
<1>3. ASSUME NEW x \in Universities, NEW c \in Courses \cup {Total}
      PROVE  Listing(x, c, u) \in Documents
  BY <1>3 DEF Documents
<1>. QED  BY <1>1, <1>2, <1>3

LEMMA Appended ==
  ASSUME Queues, NEW u \in Clients, NEW b \in SafeBatches, Enqueue(u, b)
  PROVE  Queues'
BY SMTT(20) DEF Queues, Enqueue

LEMMA Removed ==
  ASSUME Queues, NEW u \in Clients, outbox[u] # <<>>,
         outbox' = [outbox EXCEPT ![u] = Tail(@)]
  PROVE  /\ Queues'
         /\ Head(outbox[u]) \in SafeBatches
<1>1. outbox[u] \in Seq(SafeBatches)
  BY DEF Queues
<1>2. Tail(outbox[u]) \in Seq(SafeBatches) /\ Head(outbox[u]) \in SafeBatches
  BY <1>1, HeadTailProperties
<1>. QED  BY <1>2 DEF Queues

LEMMA Silenced ==
  ASSUME Queues, NEW u \in Clients,
         outbox' = [outbox EXCEPT ![u] =
                      [i \in DOMAIN @ |-> [@[i] EXCEPT !.handler = NoHandler]]]
  PROVE  Queues'
<1>. DEFINE q == outbox[u]
            r == [i \in DOMAIN q |-> [q[i] EXCEPT !.handler = NoHandler]]
<1>1. q \in Seq(SafeBatches) /\ Len(q) \in Nat /\ DOMAIN q = 1..Len(q)
  BY LenProperties DEF Queues
<1>2. ASSUME NEW b \in SafeBatches
      PROVE  [b EXCEPT !.handler = NoHandler] \in SafeBatches
  <2>1. [b EXCEPT !.handler = NoHandler] \in Batches
    BY DEF SafeBatches, Batches, BoundedHandlers
  <2>2. /\ [b EXCEPT !.handler = NoHandler].puts = b.puts
        /\ [b EXCEPT !.handler = NoHandler].dels = b.dels
    BY DEF SafeBatches, Batches
  <2>3. Safe([b EXCEPT !.handler = NoHandler])
    BY <2>2, Zenon DEF SafeBatches, Safe
  <2>. QED  BY <2>1, <2>3 DEF SafeBatches
<1>3. \A i \in 1..Len(q) : q[i] \in SafeBatches
  BY <1>1, ElementOfSeq
<1>4. r \in [1..Len(q) -> SafeBatches]
  BY <1>1, <1>2, <1>3
<1>5. r \in Seq(SafeBatches)
  BY <1>1, <1>4
<1>. QED  BY <1>5 DEF Queues

\* What the code writes.
LEMMA NamesBatch ==
  ASSUME NEW u \in Signers, NEW name, NEW n \in 1..MaxConfirms
  PROVE  [puts |-> {Username(u, m) : m \in {name} \cap Names},
          dels |-> {Username(u, m) : m \in Names \ {name}},
          handler |-> [by |-> "confirm", n |-> n, on |-> NamesView]] \in SafeBatches
<1>. DEFINE b == [puts |-> {Username(u, m) : m \in {name} \cap Names},
                  dels |-> {Username(u, m) : m \in Names \ {name}},
                  handler |-> [by |-> "confirm", n |-> n, on |-> NamesView]]
<1>1. u \in Users
  BY SignupAssumption
<1>2. b.puts \subseteq Documents /\ b.dels \subseteq Documents
  BY <1>1, InDocuments
<1>3. b.handler \in BoundedHandlers
  BY DEF BoundedHandlers, NamesView, Views
<1>4. Safe(b)
  <2>. SUFFICES ASSUME NEW v \in Users, NEW field \in Fields, NEW x \in Options(field)
       PROVE  Profile(v, field, x) \notin b.puts /\ Member(field, x, v) \notin b.dels
    BY DEF Safe
  <2>1. \A m : Profile(v, field, x) # Username(u, m) /\ Member(field, x, v) # Username(u, m)
    BY <1>1, Kinds
  <2>. QED  BY <2>1
<1>. QED  BY <1>2, <1>3, <1>4 DEF SafeBatches, Batches

LEMMA ChoiceBatch ==
  ASSUME NEW u \in Signers, NEW field \in Fields, NEW x \in Options(field),
         NEW n \in 1..MaxWrites
  PROVE  Choice(u, field, x, n) \in SafeBatches
<1>. DEFINE b == Choice(u, field, x, n)
<1>1. u \in Users
  BY SignupAssumption
<1>2. b.puts \subseteq Documents /\ b.dels \subseteq Documents
  BY <1>1, InDocuments DEF Choice
<1>3. b.handler \in BoundedHandlers
  BY DEF Choice, BoundedHandlers, SheetView, Views
<1>4. Safe(b)
  <2>. SUFFICES ASSUME NEW v \in Users, NEW f \in Fields, NEW y \in Options(f)
       PROVE  /\ Profile(v, f, y) \in b.puts => Member(f, y, v) \in b.puts
              /\ Member(f, y, v) \notin b.dels
    BY DEF Safe
  <2>1. \A z : Member(f, y, v) # Profile(u, field, z)
    BY <1>1, Kinds
  <2>2. Profile(v, f, y) # Member(field, x, u)
    BY <1>1, Kinds
  <2>3. Profile(v, f, y) = Profile(u, field, x) => v = u /\ f = field /\ y = x
    BY <1>1, Kinds
  <2>. QED  BY <2>1, <2>2, <2>3 DEF Choice
<1>. QED  BY <1>2, <1>3, <1>4 DEF SafeBatches, Batches, Choice

LEMMA ListingBatch ==
  ASSUME NEW u \in Signers, NEW page \in Pages, None \notin {page.University, page.Course},
         NEW n \in 1..MaxWrites
  PROVE  [puts |-> Entries(u, page), dels |-> {},
          handler |-> [by |-> "listing", n |-> n, on |-> PageView(page.id)]] \in SafeBatches
<1>. DEFINE b == [puts |-> Entries(u, page), dels |-> {},
                  handler |-> [by |-> "listing", n |-> n, on |-> PageView(page.id)]]
<1>1. u \in Users
  BY SignupAssumption
<1>2. page.University \in Universities /\ page.Course \in Courses /\ page.id \in 1..MaxConfirms
  BY DEF Pages
<1>3. b.puts \subseteq Documents
  BY <1>1, <1>2, InDocuments DEF Entries
<1>4. b.handler \in BoundedHandlers
  BY <1>2 DEF BoundedHandlers, PageView, Views
<1>5. Safe(b)
  BY <1>1, Kinds DEF Safe, Entries
<1>. QED  BY <1>3, <1>4, <1>5 DEF SafeBatches, Batches

LEMMA CourseBatch ==
  ASSUME NEW u \in Signers, NEW c \in Courses \ {Pending}, NEW x \in Universities
  PROVE  [puts |-> {Profile(u, "Course", c), Member("Course", c, u), Listing(x, c, u)},
          dels |-> {Profile(u, "Course", d) : d \in Courses \ {c}} \cup
                   {Member("Course", Pending, u), Listing(x, Pending, u)},
          handler |-> NoHandler] \in SafeBatches
<1>. DEFINE b == [puts |-> {Profile(u, "Course", c), Member("Course", c, u), Listing(x, c, u)},
                  dels |-> {Profile(u, "Course", d) : d \in Courses \ {c}} \cup
                           {Member("Course", Pending, u), Listing(x, Pending, u)},
                  handler |-> NoHandler]
<1>1. u \in Users /\ Pending \in Courses /\ "Course" \in Fields /\ Options("Course") = Courses
  BY SignupAssumption DEF Fields, Options
<1>2. b.puts \subseteq Documents /\ b.dels \subseteq Documents
  BY <1>1, InDocuments
<1>3. Safe(b)
  <2>. SUFFICES ASSUME NEW v \in Users, NEW field \in Fields, NEW y \in Options(field)
       PROVE  /\ Profile(v, field, y) \in b.puts => Member(field, y, v) \in b.puts
              /\ Member(field, y, v) \in b.dels \ b.puts =>
                   Profile(v, field, y) \in b.dels \ b.puts
    BY DEF Safe
  <2>1. Profile(v, field, y) \in b.puts => v = u /\ field = "Course" /\ y = c
    BY <1>1, Kinds
  <2>2. Member(field, y, v) \in b.dels => v = u /\ field = "Course" /\ y = Pending
    BY <1>1, Kinds
  <2>3. Profile(u, "Course", Pending) \in b.dels \ b.puts
    BY <1>1, Kinds
  <2>. QED  BY <2>1, <2>2, <2>3
<1>. QED  BY <1>2, <1>3 DEF SafeBatches, Batches, BoundedHandlers

------------------------------------------------------------------------------
(* Types *)

LEMMA RequestShapes ==
  ASSUME NEW c \in Requests
  PROVE  /\ c.user \in Signers
         /\ c.kind # "createUser" =>
              /\ c \in [kind : {"query", "token", "pictures"}, user : Signers,
                        n : 1..MaxConfirms, name : Names \cup {None}]
              /\ \A k \in {"query", "token", "pictures"} : [c EXCEPT !.kind = k] \in Requests
  BY DEF Requests

LEMMA Spinners ==
  ASSUME Types, NEW u \in Signers
  PROVE  /\ \A o \in Overlays : showSpinner(u, o) =>
              /\ overlays' \in [Signers -> SUBSET Overlays]
              /\ vSpinner' \in [Signers -> Overlays \cup {None}]
         /\ removeSpinner(u) =>
              /\ overlays' \in [Signers -> SUBSET Overlays]
              /\ vSpinner' \in [Signers -> Overlays \cup {None}]
         /\ Uncover(u) => overlays' \in [Signers -> SUBSET Overlays]
<1>1. overlays \in [Signers -> SUBSET Overlays] /\ vSpinner \in [Signers -> Overlays \cup {None}]
  BY DEF Types
<1>2. ASSUME NEW o \in Overlays, showSpinner(u, o)
      PROVE  /\ overlays' \in [Signers -> SUBSET Overlays]
             /\ vSpinner' \in [Signers -> Overlays \cup {None}]
  BY <1>1, <1>2 DEF showSpinner
<1>3. ASSUME removeSpinner(u)
      PROVE  /\ overlays' \in [Signers -> SUBSET Overlays]
             /\ vSpinner' \in [Signers -> Overlays \cup {None}]
  BY <1>1, <1>3 DEF removeSpinner
<1>4. ASSUME Uncover(u) PROVE overlays' \in [Signers -> SUBSET Overlays]
  BY <1>1, <1>4 DEF Uncover
<1>. QED  BY <1>2, <1>3, <1>4

LEMMA AlertTyped ==
  ASSUME Types, NEW u \in Signers, NEW view, Alerted(u, view)
  PROVE  over' \in [Signers -> Presented]
  BY DEF Types, Alerted, Presented, Alert

LEMMA SlipTyped ==
  ASSUME Types, NEW u \in Signers, NEW what \in {"retyped", "again", "left"}, NEW when,
         Slip(u, what, when)
  PROVE  slips' \in [Signers -> SUBSET {"retyped", "again", "left"}]
  BY DEF Types, Slip

LEMMA TopPage ==
  ASSUME Types, NEW u \in Signers, OnPage(u)
  PROVE  /\ Last(pages[u]) \in Pages
         /\ Last(pages[u]).id \in 1..MaxConfirms
         /\ SubSeq(pages[u], 1, Len(pages[u]) - 1) \in Seq(Pages)
<1>1. pages[u] \in Seq(Pages) /\ pages[u] # <<>>
  BY DEF Types, OnPage
<1>2. Len(pages[u]) \in Nat /\ Len(pages[u]) > 0 /\ pages[u] \in [1..Len(pages[u]) -> Pages]
  BY <1>1, EmptySeq, LenProperties
<1>3. Last(pages[u]) \in Pages
  BY <1>2 DEF Last
<1>4. Last(pages[u]).id \in 1..MaxConfirms
  BY <1>3 DEF Pages
<1>5. SubSeq(pages[u], 1, Len(pages[u]) - 1) \in Seq(Pages)
  BY <1>1, <1>2, SubSeqProperties
<1>. QED  BY <1>3, <1>4, <1>5

Counts == [confirms : 0..MaxConfirms, choices : 0..MaxWrites, listings : 0..MaxWrites]

LEMMA Counted ==
  ASSUME Types, NEW u \in Signers
  PROVE  /\ \A n \in 1..MaxConfirms :
              [count EXCEPT ![u].confirms = n] \in [Signers -> Counts]
         /\ \A n \in 1..MaxWrites :
              /\ [count EXCEPT ![u].choices = n] \in [Signers -> Counts]
              /\ [count EXCEPT ![u].listings = n] \in [Signers -> Counts]
<1>1. count \in [Signers -> Counts] /\ count[u] \in Counts
  BY DEF Types, Counts
<1>2. ASSUME NEW n \in 1..MaxConfirms
      PROVE  [count EXCEPT ![u].confirms = n] \in [Signers -> Counts]
  <2>1. [count[u] EXCEPT !.confirms = n] \in Counts
    BY <1>1, SignupAssumption DEF Counts
  <2>. QED  BY <1>1, <2>1
<1>3. ASSUME NEW n \in 1..MaxWrites
      PROVE  /\ [count EXCEPT ![u].choices = n] \in [Signers -> Counts]
             /\ [count EXCEPT ![u].listings = n] \in [Signers -> Counts]
  <2>1. [count[u] EXCEPT !.choices = n] \in Counts /\ [count[u] EXCEPT !.listings = n] \in Counts
    BY <1>1, SignupAssumption DEF Counts
  <2>. QED  BY <1>1, <2>1
<1>. QED  BY <1>2, <1>3

LEMMA InitTyped == Init => TypeInv
<1>. SUFFICES ASSUME Init PROVE TypeInv
  OBVIOUS
<1>1. docs \subseteq Documents
  <2>. PICK names \in [Users \ Signers -> Names] :
         docs = {Username(a, names[a]) : a \in Users \ Signers}
    BY DEF Init
  <2>. QED  BY InDocuments
<1>2. Queues
  BY EmptySeq DEF Init, Queues, Clients
<1>3. 0 \in 0..MaxConfirms /\ 0 \in 0..MaxWrites /\ 0 \in 0..MaxEvents
  BY SignupAssumption
<1>. QED  BY <1>1, <1>2, <1>3 DEF Init, TypeInv, Types, Presented, Nothing

LEMMA Tap1Typed ==
  ASSUME TypeInv, NEW u \in Signers, SignUp(u) \/ confirmEmailPassword(u) \/ Type(u)
  PROVE  TypeInv'
<1>1. Queues'
  BY DEF TypeInv, Queues, SignUp, confirmEmailPassword, Type
<1>2. CASE SignUp(u)
  BY <1>1, <1>2 DEF TypeInv, Types, SignUp
<1>3. CASE confirmEmailPassword(u)
  <2>1. [kind |-> "createUser", user |-> u] \in Requests
    BY DEF Requests
  <2>. QED  BY <1>1, <1>3, <2>1 DEF TypeInv, Types, confirmEmailPassword
<1>4. CASE Type(u)
  <2>1. slips' \in [Signers -> SUBSET {"retyped", "again", "left"}]
    BY <1>4, SlipTyped DEF Type, TypeInv
  <2>2. typed' \in [Signers -> Names \cup {None}]
    BY <1>4 DEF TypeInv, Types, Type
  <2>. QED  BY <1>1, <1>4, <2>1, <2>2 DEF TypeInv, Types, Type
<1>. QED  BY <1>2, <1>3, <1>4

LEMMA AccountTyped ==
  ASSUME TypeInv, NEW c \in calls, UserCreated(c) \/ UserRefused(c)
  PROVE  TypeInv'
<1>1. Queues' /\ c.user \in Signers
  BY RequestShapes DEF TypeInv, Types, Queues, UserCreated, UserRefused
<1>2. CASE UserCreated(c)
  BY <1>1, <1>2 DEF TypeInv, Types, UserCreated
<1>3. CASE UserRefused(c)
  <2>1. failures' \in Nat
    BY <1>3, SignupAssumption DEF UserRefused, Fail, TypeInv, Types
  <2>. QED  BY <1>1, <1>3, <2>1 DEF TypeInv, Types, UserRefused
<1>. QED  BY <1>2, <1>3

LEMMA ConfirmNamesTyped ==
  ASSUME TypeInv, NEW u \in Signers, ConfirmNames(u)
  PROVE  TypeInv'
<1>. DEFINE n == count[u].confirms + 1
<1>1. n \in 1..MaxConfirms /\ n \in Nat
  BY SignupAssumption DEF ConfirmNames, TypeInv, Types
<1>2. [by |-> "confirm", n |-> n, on |-> NamesView] \in Overlays
  BY <1>1 DEF Overlays, NamesView, Views
<1>3. /\ overlays' \in [Signers -> SUBSET Overlays]
      /\ vSpinner' \in [Signers -> Overlays \cup {None}]
  BY <1>2, Spinners DEF ConfirmNames, TypeInv
<1>4. count' \in [Signers -> Counts]
  BY <1>1, Counted DEF ConfirmNames, TypeInv
<1>5. calls' \subseteq Requests
  BY <1>1 DEF ConfirmNames, TypeInv, Types, Requests
<1>6. slips' \in [Signers -> SUBSET {"retyped", "again", "left"}]
  BY SlipTyped DEF ConfirmNames, TypeInv
<1>7. Queues'
  BY DEF TypeInv, Queues, ConfirmNames
<1>. QED  BY <1>3, <1>4, <1>5, <1>6, <1>7 DEF TypeInv, Types, ConfirmNames, Counts

LEMMA NamesTyped ==
  ASSUME TypeInv, NEW c \in calls,
         NamesRejected(c) \/ NamesAccepted(c) \/ TokenFetched(c) \/ NamesDropped(c)
  PROVE  TypeInv'
<1>0. c \in Requests /\ c.user \in Signers
  BY RequestShapes DEF TypeInv, Types
<1>1. Queues'
  BY DEF TypeInv, Queues, NamesRejected, NamesAccepted, TokenFetched, NamesDropped
<1>2. CASE NamesRejected(c)
  <2>1. /\ overlays' \in [Signers -> SUBSET Overlays]
        /\ vSpinner' \in [Signers -> Overlays \cup {None}]
        /\ over' \in [Signers -> Presented]
    BY <1>0, <1>2, Spinners, AlertTyped DEF NamesRejected, TypeInv
  <2>. QED  BY <1>1, <1>2, <2>1 DEF TypeInv, Types, NamesRejected
<1>3. CASE NamesAccepted(c)
  <2>1. calls' \subseteq Requests
    BY <1>0, <1>3, RequestShapes DEF TypeInv, Types, NamesAccepted
  <2>. QED  BY <1>1, <1>3, <2>1 DEF TypeInv, Types, NamesAccepted
<1>4. CASE TokenFetched(c)
  <2>1. typed[c.user] \in Names \cup {None}
    BY <1>0 DEF TypeInv, Types
  <2>2. c \in [kind : {"query", "token", "pictures"}, user : Signers,
               n : 1..MaxConfirms, name : Names \cup {None}]
    BY <1>0, <1>4, RequestShapes DEF TokenFetched
  <2>3. [c EXCEPT !.kind = "pictures", !.name = typed[c.user]] \in Requests
    BY <2>1, <2>2 DEF Requests
  <2>4. calls' \subseteq Requests
    BY <1>4, <2>3 DEF TypeInv, Types, TokenFetched
  <2>. QED  BY <1>1, <1>4, <2>4 DEF TypeInv, Types, TokenFetched
<1>5. CASE NamesDropped(c)
  <2>1. failures' \in Nat
    BY <1>5, SignupAssumption DEF NamesDropped, Fail, TypeInv, Types
  <2>. QED  BY <1>1, <1>5, <2>1 DEF TypeInv, Types, NamesDropped
<1>. QED  BY <1>2, <1>3, <1>4, <1>5

LEMMA PicturesTyped ==
  ASSUME TypeInv, NEW c \in calls, PicturesFetched(c)
  PROVE  TypeInv'
<1>1. c.user \in Signers /\ c.n \in 1..MaxConfirms
  BY RequestShapes DEF TypeInv, Types, PicturesFetched
<1>2. Queues'
  BY <1>1, NamesBatch, Appended DEF PicturesFetched, TypeInv, Clients
<1>. QED  BY <1>2 DEF PicturesFetched, TypeInv, Types

LEMMA PageTapTyped ==
  ASSUME TypeInv, NEW u \in Signers, NEW field \in Fields, ShowSheet(u, field) \/ Incomplete(u)
  PROVE  TypeInv'
<1>1. Queues'
  BY DEF TypeInv, Queues, ShowSheet, Incomplete
<1>2. CASE ShowSheet(u, field)
  <2>1. [kind |-> "sheet", field |-> field, choice |-> 0, page |-> Last(pages[u]).id] \in Presented
    BY <1>2, TopPage, SignupAssumption DEF ShowSheet, TypeInv, Presented
  <2>. QED  BY <1>1, <1>2, <2>1 DEF TypeInv, Types, ShowSheet
<1>3. CASE Incomplete(u)
  BY <1>1, <1>3 DEF TypeInv, Types, Incomplete, Presented
<1>. QED  BY <1>2, <1>3

LEMMA SheetShape ==
  ASSUME Types, NEW u \in Signers, over[u].kind = "sheet"
  PROVE  /\ over[u].field \in Fields
         /\ over[u].page \in 1..MaxConfirms
         /\ \A n \in 0..MaxWrites : [over[u] EXCEPT !.choice = n] \in Presented
<1>. DEFINE Sheets == [kind : {"sheet"}, field : Fields, choice : 0..MaxWrites,
                       page : 1..MaxConfirms]
<1>1. over[u] \in {Nothing, Alert} \cup Sheets
  BY DEF Types, Presented
<1>2. over[u] \in Sheets
  BY <1>1 DEF Nothing, Alert
<1>3. \A n \in 0..MaxWrites : [over[u] EXCEPT !.choice = n] \in Sheets
  BY <1>2
<1>. QED  BY <1>2, <1>3 DEF Presented

Chosen(u, field, x, id) ==
  [i \in DOMAIN pages[u] |->
     IF pages[u][i].id = id THEN [pages[u][i] EXCEPT ![field] = x] ELSE pages[u][i]]

LEMMA PagesChosen ==
  ASSUME Types, NEW u \in Signers, NEW field \in Fields, NEW x \in Options(field), NEW id
  PROVE  Chosen(u, field, x, id) \in Seq(Pages)
<1>. DEFINE q == pages[u]
<1>1. q \in Seq(Pages) /\ Len(q) \in Nat /\ DOMAIN q = 1..Len(q)
  BY LenProperties DEF Types
<1>2. ASSUME NEW p \in Pages PROVE [p EXCEPT ![field] = x] \in Pages
  <2>1. CASE field = "University"
    <3>1. x \in Universities
      BY <2>1 DEF Options
    <3>2. [p EXCEPT !.University = x] \in Pages
      BY <3>1 DEF Pages
    <3>. QED  BY <2>1, <3>2
  <2>2. CASE field = "Course"
    <3>1. x \in Courses
      BY <2>2 DEF Options
    <3>2. [p EXCEPT !.Course = x] \in Pages
      BY <3>1 DEF Pages
    <3>. QED  BY <2>2, <3>2
  <2>. QED  BY <2>1, <2>2 DEF Fields
<1>3. \A i \in 1..Len(q) : q[i] \in Pages
  BY <1>1, ElementOfSeq
<1>. DEFINE r == [i \in DOMAIN q |-> IF q[i].id = id THEN [q[i] EXCEPT ![field] = x] ELSE q[i]]
<1>4. r \in [1..Len(q) -> Pages]
  BY <1>1, <1>2, <1>3
<1>. QED  BY <1>1, <1>4 DEF Chosen

LEMMA didSelectRowTyped ==
  ASSUME TypeInv, NEW u \in Signers, didSelectRow(u)
  PROVE  TypeInv'
<1>. DEFINE n == count[u].choices + 1
            field == over[u].field
<1>1. n \in 1..MaxWrites /\ n \in 0..MaxWrites /\ n \in Nat
  <2>1. count[u] \in Counts
    BY DEF TypeInv, Types, Counts
  <2>. QED  BY <2>1, SignupAssumption DEF didSelectRow, MayWrite, Counts
<1>2. field \in Fields
  BY SheetShape DEF didSelectRow, TypeInv
<1>3. PICK x \in Options(field) :
        /\ Enqueue(u, Choice(u, field, x, n))
        /\ pages' = [pages EXCEPT ![u] = [i \in DOMAIN @ |->
             IF @[i].id = over[u].page THEN [@[i] EXCEPT ![field] = x] ELSE @[i]]]
  BY DEF didSelectRow
<1>4. Queues'
  BY <1>1, <1>2, <1>3, ChoiceBatch, Appended DEF TypeInv, Clients
<1>5. pages' \in [Signers -> Seq(Pages)]
  <2>1. Chosen(u, field, x, over[u].page) \in Seq(Pages)
    BY <1>2, PagesChosen DEF TypeInv
  <2>2. pages' = [pages EXCEPT ![u] = Chosen(u, field, x, over[u].page)]
    BY <1>3 DEF Chosen
  <2>. QED  BY <2>1, <2>2 DEF TypeInv, Types
<1>6. count' \in [Signers -> Counts]
  BY <1>1, Counted DEF didSelectRow, TypeInv
<1>7. over' \in [Signers -> Presented]
  <2>1. [over[u] EXCEPT !.choice = n] \in Presented
    BY <1>1, SheetShape DEF didSelectRow, TypeInv
  <2>. QED  BY <2>1 DEF didSelectRow, TypeInv, Types
<1>8. /\ overlays' \in [Signers -> SUBSET Overlays]
      /\ vSpinner' \in [Signers -> Overlays \cup {None}]
  <2>1. [by |-> "choice", n |-> n, on |-> SheetView(n)] \in Overlays
    BY <1>1 DEF Overlays, SheetView, Views
  <2>. QED  BY <2>1, Spinners DEF didSelectRow, TypeInv
<1>. QED  BY <1>4, <1>5, <1>6, <1>7, <1>8 DEF didSelectRow, TypeInv, Types, Counts

LEMMA nextPageTyped ==
  ASSUME TypeInv, NEW u \in Signers, nextPage(u)
  PROVE  TypeInv'
<1>. DEFINE n == count[u].listings + 1
            page == Last(pages[u])
<1>1. n \in 1..MaxWrites /\ n \in Nat
  <2>1. count[u] \in Counts
    BY DEF TypeInv, Types, Counts
  <2>. QED  BY <2>1, SignupAssumption DEF nextPage, MayWrite, Counts
<1>2. page \in Pages /\ page.id \in 1..MaxConfirms
  BY TopPage DEF nextPage, TypeInv
<1>3. Queues'
  BY <1>1, <1>2, ListingBatch, Appended DEF nextPage, TypeInv, Clients
<1>4. count' \in [Signers -> Counts]
  BY <1>1, Counted DEF nextPage, TypeInv
<1>5. /\ overlays' \in [Signers -> SUBSET Overlays]
      /\ vSpinner' \in [Signers -> Overlays \cup {None}]
  <2>1. [by |-> "listing", n |-> n, on |-> PageView(page.id)] \in Overlays
    BY <1>1, <1>2 DEF Overlays, PageView, Views
  <2>. QED  BY <2>1, Spinners DEF nextPage, TypeInv
<1>. QED  BY <1>3, <1>4, <1>5 DEF nextPage, TypeInv, Types, Counts

\* The batch at the head of a queue, and what its removal does to the types.
LEMMA Answered ==
  ASSUME TypeInv, NEW u \in Clients, Commit(u) \/ Refuse(u)
  PROVE  /\ Queues' /\ docs' \subseteq Documents
         /\ Head(outbox[u]) \in SafeBatches
         /\ LET h == Head(outbox[u]).handler IN
            h # NoHandler => /\ h.by \in {"confirm", "choice", "listing"}
                             /\ h.by = "confirm" => h.n \in 1..MaxConfirms
<1>1. outbox[u] # <<>> /\ outbox' = [outbox EXCEPT ![u] = Tail(@)]
  BY DEF Commit, Refuse
<1>2. Queues' /\ Head(outbox[u]) \in SafeBatches
  BY <1>1, Removed DEF TypeInv
<1>3. docs' \subseteq Documents
  BY <1>2 DEF Commit, Refuse, TypeInv, Types, SafeBatches, Batches
<1>4. Head(outbox[u]).handler \in BoundedHandlers
  BY <1>2 DEF SafeBatches, Batches
<1>. QED  BY <1>2, <1>3, <1>4 DEF BoundedHandlers

LEMMA CommittedTyped ==
  ASSUME TypeInv, NEW u \in Signers, BatchCommitted(u)
  PROVE  TypeInv'
<1>. DEFINE h == Head(outbox[u]).handler
<1>1. u \in Clients /\ Commit(u)
  BY DEF Clients, BatchCommitted
<1>2. Queues' /\ docs' \subseteq Documents
  BY <1>1, Answered
<1>3. /\ screen' \in [Signers -> {"start", "email", "names", "home"}]
      /\ pages' \in [Signers -> Seq(Pages)]
      /\ over' \in [Signers -> Presented]
      /\ overlays' \in [Signers -> SUBSET Overlays]
      /\ vSpinner' \in [Signers -> Overlays \cup {None}]
  <2>1. CASE UNCHANGED <<screen, pages, over, overlays, vSpinner>>
    BY <2>1 DEF TypeInv, Types
  <2>2. CASE h # NoHandler /\ h.by = "confirm" /\ NamesStored(u, h.n)
    <3>1. [id |-> h.n, University |-> None, Course |-> None] \in Pages
      BY <1>1, <2>2, Answered DEF Pages
    <3>2. pages' \in [Signers -> Seq(Pages)]
      BY <2>2, <3>1 DEF NamesStored, TypeInv, Types
    <3>. QED  BY <2>2, <3>2, Spinners DEF NamesStored, TypeInv, Types
  <2>3. CASE ChoiceStored(u, h.n)
    <3>1. over' \in [Signers -> Presented]
      BY <2>3 DEF ChoiceStored, TypeInv, Types, Presented
    <3>. QED  BY <2>3, <3>1, Spinners DEF ChoiceStored, TypeInv, Types
  <2>4. CASE Listed(u, h.on)
    <3>1. over' \in [Signers -> Presented]
      BY <2>4 DEF Listed, TypeInv, Types, Presented
    <3>2. screen' \in [Signers -> {"start", "email", "names", "home"}]
      BY <2>4 DEF Listed, TypeInv, Types
    <3>3. pages' \in [Signers -> Seq(Pages)]
      <4>1. pages' \in {pages, [pages EXCEPT ![u] = <<>>]}
        BY <2>4 DEF Listed
      <4>2. <<>> \in Seq(Pages)
        BY EmptySeq
      <4>. QED  BY <4>1, <4>2 DEF TypeInv, Types
    <3>. QED  BY <2>4, <3>1, <3>2, <3>3, Spinners DEF Listed, TypeInv
  <2>. QED  BY <2>1, <2>2, <2>3, <2>4 DEF BatchCommitted
<1>. QED  BY <1>2, <1>3 DEF BatchCommitted, TypeInv, Types

LEMMA RefusedTyped ==
  ASSUME TypeInv, NEW u \in Signers, BatchRefused(u)
  PROVE  TypeInv'
<1>1. u \in Clients /\ Refuse(u)
  BY DEF Clients, BatchRefused
<1>2. Queues' /\ docs' \subseteq Documents
  BY <1>1, Answered
<1>3. over' \in [Signers -> Presented]
  <2>1. CASE UNCHANGED over
    BY <2>1 DEF TypeInv, Types
  <2>2. CASE Alerted(u, Head(outbox[u]).handler.on)
    BY <2>2, AlertTyped DEF TypeInv
  <2>. QED  BY <2>1, <2>2 DEF BatchRefused
<1>4. failures' \in Nat
  BY SignupAssumption DEF BatchRefused, Fail, TypeInv, Types
<1>. QED  BY <1>2, <1>3, <1>4 DEF BatchRefused, TypeInv, Types

LEMMA BackTyped ==
  ASSUME TypeInv, NEW u \in Signers, Back(u)
  PROVE  TypeInv'
<1>1. Queues'
  BY DEF TypeInv, Queues, Back
<1>2. slips' \in [Signers -> SUBSET {"retyped", "again", "left"}]
  BY SlipTyped DEF Back, TypeInv
<1>3. overlays' \in [Signers -> SUBSET Overlays]
  BY Spinners DEF Back, TypeInv
<1>4. pages' \in [Signers -> Seq(Pages)]
  <2>1. CASE OnPage(u)
    <3>1. pages' = [pages EXCEPT ![u] = SubSeq(@, 1, Len(@) - 1)]
      BY <2>1 DEF Back
    <3>. QED  BY <2>1, <3>1, TopPage DEF TypeInv, Types
  <2>2. CASE ~ OnPage(u)
    BY <2>2 DEF Back, TypeInv, Types
  <2>. QED  BY <2>1, <2>2
<1>5. screen' \in [Signers -> {"start", "email", "names", "home"}]
  <2>1. CASE OnPage(u)
    BY <2>1 DEF Back, TypeInv, Types
  <2>2. CASE ~ OnPage(u)
    <3>1. screen' = [screen EXCEPT ![u] = IF @ = "names" THEN "email" ELSE "start"]
      BY <2>2 DEF Back
    <3>. QED  BY <3>1 DEF TypeInv, Types
  <2>. QED  BY <2>1, <2>2
<1>6. account' \in [Signers -> {"none", "asked", "abandoned", "created"}]
  BY DEF Back, TypeInv, Types
<1>. QED  BY <1>1, <1>2, <1>3, <1>4, <1>5, <1>6 DEF Back, TypeInv, Types

LEMMA DismissTyped ==
  ASSUME TypeInv, NEW u \in Signers, Dismiss(u)
  PROVE  TypeInv'
<1>1. Queues'
  BY DEF TypeInv, Queues, Dismiss
<1>2. slips' \in [Signers -> SUBSET {"retyped", "again", "left"}]
  BY SlipTyped DEF Dismiss, TypeInv
<1>3. overlays' \in [Signers -> SUBSET Overlays]
  BY Spinners DEF Dismiss, TypeInv, Types
<1>4. over' \in [Signers -> Presented]
  BY DEF Dismiss, TypeInv, Types, Presented
<1>. QED  BY <1>1, <1>2, <1>3, <1>4 DEF Dismiss, TypeInv, Types

LEMMA RelaunchTyped ==
  ASSUME TypeInv, NEW u \in Signers, Relaunch(u)
  PROVE  TypeInv'
<1>1. Queues'
  BY Silenced DEF Relaunch, TypeInv, Clients
<1>2. slips' \in [Signers -> SUBSET {"retyped", "again", "left"}]
  BY SlipTyped DEF Relaunch, TypeInv
<1>3. over' \in [Signers -> Presented]
  BY DEF Relaunch, TypeInv, Types, Presented
<1>4. pages' \in [Signers -> Seq(Pages)]
  BY EmptySeq DEF Relaunch, TypeInv, Types
<1>5. /\ overlays' \in [Signers -> SUBSET Overlays]
      /\ vSpinner' \in [Signers -> Overlays \cup {None}]
      /\ typed' \in [Signers -> Names \cup {None}]
  BY DEF Relaunch, TypeInv, Types
<1>6. screen' \in [Signers -> {"start", "email", "names", "home"}]
  BY DEF Relaunch, TypeInv, Types
<1>. QED  BY <1>1, <1>2, <1>3, <1>4, <1>5, <1>6 DEF Relaunch, TypeInv, Types

LEMMA CourseTyped ==
  ASSUME TypeInv, (\E u \in Signers : changeCourse(u)) \/ CourseChanged \/ CourseRefused
  PROVE  TypeInv'
<1>0. Admin \in Clients
  BY DEF Clients
<1>1. ASSUME NEW u \in Signers, changeCourse(u) PROVE TypeInv'
  <2>1. Queues'
    BY <1>0, <1>1, CourseBatch, Appended DEF changeCourse, TypeInv
  <2>2. changes' \in 0..MaxEvents
    BY <1>1, SignupAssumption DEF changeCourse, TypeInv, Types
  <2>. QED  BY <1>1, <2>1, <2>2 DEF changeCourse, TypeInv, Types
<1>2. ASSUME CourseChanged PROVE TypeInv'
  BY <1>0, <1>2, Answered DEF CourseChanged, TypeInv, Types
<1>3. ASSUME CourseRefused PROVE TypeInv'
  BY <1>0, <1>3, Answered DEF CourseRefused, TypeInv, Types
<1>. QED  BY <1>1, <1>2, <1>3

------------------------------------------------------------------------------
(* Names *)

\* What no step takes back.
Progress ==
  /\ \A u \in Signers : Retyped(u) => Retyped(u)'
  /\ \A u \in Signers : Named(u) => Named(u)' \/ Retyped(u)'
  /\ \A n \in Names : Free(n) => Free(n)'

LEMMA StaysHonest ==
  ASSUME Progress, NEW b, Honest(b)
  PROVE  Honest(b)'
  BY DEF Progress, Honest

LEMMA StaysNaming ==
  ASSUME Progress, NEW u \in Signers, NEW b, Naming(u, b)
  PROVE  Naming(u, b)'
  BY DEF Progress, Naming

LEMMA QueueKept ==
  ASSUME Progress, HonestQueues, UNCHANGED outbox
  PROVE  HonestQueues'
<1>1. ASSUME NEW c \in Clients, NEW i \in DOMAIN outbox[c] PROVE Honest(outbox[c][i])'
  BY StaysHonest, Zenon DEF HonestQueues
<1>2. ASSUME NEW u \in Signers, NEW i \in DOMAIN outbox[u] PROVE Naming(u, outbox[u][i])'
  BY StaysNaming, Zenon DEF HonestQueues
<1>. QED  BY <1>1, <1>2 DEF HonestQueues

\* Batches are handed on from one queue to the other, perhaps without handlers.
Copies(q, r) ==
  \A i \in DOMAIN r : \E j \in DOMAIN q :
    /\ r[i].puts = q[j].puts /\ r[i].dels = q[j].dels
    /\ r[i].handler \in {q[j].handler, NoHandler}

LEMMA CopiesKept ==
  ASSUME Progress, HonestQueues,
         \A c \in Clients : Copies(outbox[c], outbox'[c])
  PROVE  HonestQueues'
<1>1. ASSUME NEW c \in Clients, NEW i \in DOMAIN outbox'[c] PROVE Honest(outbox[c][i])'
  <2>1. PICK j \in DOMAIN outbox[c] :
          /\ outbox'[c][i].puts = outbox[c][j].puts
          /\ outbox'[c][i].dels = outbox[c][j].dels
    BY <1>1 DEF Copies
  <2>2. Honest(outbox[c][j])
    BY DEF HonestQueues
  <2>3. \A b : Honest(b) => Honest(b)'
    BY StaysHonest
  <2>. QED  BY <2>1, <2>2, <2>3 DEF Honest
<1>2. ASSUME NEW u \in Signers, NEW i \in DOMAIN outbox'[u] PROVE Naming(u, outbox[u][i])'
  <2>0. u \in Clients
    BY DEF Clients
  <2>1. PICK j \in DOMAIN outbox[u] :
          /\ outbox'[u][i].puts = outbox[u][j].puts
          /\ outbox'[u][i].handler \in {outbox[u][j].handler, NoHandler}
    BY <1>2, <2>0 DEF Copies
  <2>2. Naming(u, outbox[u][j])
    BY DEF HonestQueues
  <2>3. \A b : Naming(u, b) => Naming(u, b)'
    BY StaysNaming
  <2>. QED  BY <2>1, <2>2, <2>3 DEF Naming
<1>. QED  BY <1>1, <1>2 DEF HonestQueues

LEMMA TailCopies ==
  ASSUME Queues, NEW u \in Clients, outbox[u] # <<>>,
         outbox' = [outbox EXCEPT ![u] = Tail(@)]
  PROVE  \A c \in Clients : Copies(outbox[c], outbox'[c])
<1>1. \A c \in Clients : outbox'[c] = IF c = u THEN Tail(outbox[u]) ELSE outbox[c]
  BY DEF Queues
<1>2. outbox[u] \in Seq(SafeBatches)
  BY DEF Queues
<1>3. Copies(outbox[u], Tail(outbox[u]))
  <2>1. ASSUME NEW i \in DOMAIN Tail(outbox[u])
        PROVE  i + 1 \in DOMAIN outbox[u] /\ Tail(outbox[u])[i] = outbox[u][i + 1]
    BY <1>2, LenProperties, HeadTailProperties
  <2>. QED  BY <2>1 DEF Copies
<1>4. \A c \in Clients : Copies(outbox[c], outbox[c])
  BY DEF Copies
<1>. QED  BY <1>1, <1>3, <1>4

LEMMA TailKept ==
  ASSUME Queues, Progress, HonestQueues, NEW u \in Clients, outbox[u] # <<>>,
         outbox' = [outbox EXCEPT ![u] = Tail(@)]
  PROVE  HonestQueues'
BY TailCopies, CopiesKept

LEMMA SilencedCopies ==
  ASSUME Queues, NEW u \in Clients,
         outbox' = [outbox EXCEPT ![u] =
                      [i \in DOMAIN @ |-> [@[i] EXCEPT !.handler = NoHandler]]]
  PROVE  \A c \in Clients : Copies(outbox[c], outbox'[c])
<1>. DEFINE r == [i \in DOMAIN outbox[u] |-> [outbox[u][i] EXCEPT !.handler = NoHandler]]
<1>1. \A c \in Clients : outbox'[c] = IF c = u THEN r ELSE outbox[c]
  BY DEF Queues
<1>2. ASSUME NEW i \in DOMAIN outbox[u]
      PROVE  /\ r[i].puts = outbox[u][i].puts /\ r[i].dels = outbox[u][i].dels
             /\ r[i].handler = NoHandler
  <2>1. outbox[u] \in Seq(SafeBatches)
    BY DEF Queues
  <2>2. outbox[u][i] \in Batches
    BY <2>1, LenProperties, ElementOfSeq DEF SafeBatches
  <2>. QED  BY <2>2 DEF Batches
<1>3. Copies(outbox[u], r)
  BY <1>2 DEF Copies
<1>4. \A c \in Clients : Copies(outbox[c], outbox[c])
  BY DEF Copies
<1>. QED  BY <1>1, <1>3, <1>4

LEMMA SilencedKept ==
  ASSUME Queues, Progress, HonestQueues, NEW u \in Clients,
         outbox' = [outbox EXCEPT ![u] =
                      [i \in DOMAIN @ |-> [@[i] EXCEPT !.handler = NoHandler]]]
  PROVE  HonestQueues'
BY SilencedCopies, CopiesKept

LEMMA AppendedKept ==
  ASSUME Queues, Progress, HonestQueues, NEW u \in Clients, NEW b \in SafeBatches,
         Enqueue(u, b), Honest(b), u \in Signers => Naming(u, b)
  PROVE  HonestQueues'
<1>1. outbox[u] \in Seq(SafeBatches)
  BY DEF Queues
<1>2. \A c \in Clients : outbox'[c] = IF c = u THEN Append(outbox[u], b) ELSE outbox[c]
  BY DEF Queues, Enqueue
<1>3. \A i \in DOMAIN Append(outbox[u], b) :
        \/ i \in DOMAIN outbox[u] /\ Append(outbox[u], b)[i] = outbox[u][i]
        \/ Append(outbox[u], b)[i] = b
  BY <1>1, LenProperties
<1>4. ASSUME NEW c \in Clients, NEW i \in DOMAIN outbox'[c]
      PROVE  Honest(outbox'[c][i])
  <2>1. CASE c = u
    BY <1>2, <1>3, <1>4, <2>1 DEF HonestQueues
  <2>2. CASE c # u
    BY <1>2, <1>4, <2>2 DEF HonestQueues
  <2>. QED  BY <2>1, <2>2
<1>5. ASSUME NEW v \in Signers, NEW i \in DOMAIN outbox'[v]
      PROVE  Naming(v, outbox'[v][i])
  <2>0. v \in Clients
    BY DEF Clients
  <2>1. CASE v = u
    BY <1>2, <1>3, <1>5, <2>0, <2>1 DEF HonestQueues
  <2>2. CASE v # u
    BY <1>2, <1>5, <2>0, <2>2 DEF HonestQueues
  <2>. QED  BY <2>1, <2>2
<1>6. ASSUME NEW c \in Clients, NEW i \in DOMAIN outbox'[c] PROVE Honest(outbox[c][i])'
  BY <1>4, <1>6, StaysHonest
<1>7. ASSUME NEW v \in Signers, NEW i \in DOMAIN outbox'[v] PROVE Naming(v, outbox[v][i])'
  BY <1>5, <1>7, StaysNaming
<1>. QED  BY <1>6, <1>7 DEF HonestQueues

LEMMA Idle ==
  ASSUME UNCHANGED docs, \A u \in Signers : slips[u] \subseteq slips'[u]
  PROVE  /\ Progress
         /\ DocsInv => DocsInv'
<1>1. Progress
  BY DEF Progress, Retyped, Named, Free
<1>2. Backed => Backed'
  BY DEF Backed
<1>3. ListedAreNamed => ListedAreNamed'
  BY DEF ListedAreNamed
<1>4. NamesUnique => NamesUnique'
  BY DEF NamesUnique
<1>. QED  BY <1>1, <1>2, <1>3, <1>4 DEF DocsInv

LEMMA SlipsGrow ==
  ASSUME Types, NEW u \in Signers, NEW what, NEW when, Slip(u, what, when)
  PROVE  /\ \A v \in Signers : slips[v] \subseteq slips'[v]
         /\ when /\ what = "retyped" => Retyped(u)'
  BY DEF Types, Slip, Retyped

LEMMA CommitKept ==
  ASSUME Inv, NEW c \in Clients, Commit(c), UNCHANGED slips
  PROVE  Progress /\ DocsInv' /\ HonestQueues'
<1>. DEFINE b == Head(outbox[c])
<1>1. /\ docs' = (docs \ b.dels) \cup b.puts
      /\ outbox[c] # <<>>
      /\ outbox' = [outbox EXCEPT ![c] = Tail(@)]
  BY DEF Commit
<1>2. outbox[c] \in Seq(SafeBatches) /\ b \in SafeBatches
  BY <1>1, Removed DEF Inv, TypeInv, Queues
<1>3. Safe(b)
  BY <1>2 DEF SafeBatches
<1>4. Honest(b)
  <2>1. 1 \in DOMAIN outbox[c] /\ b = outbox[c][1]
    BY <1>1, <1>2, LenProperties, EmptySeq
  <2>. QED  BY <2>1 DEF Inv, HonestQueues
<1>. HIDE DEF b
<1>5. Backed'
  <2>. SUFFICES ASSUME NEW u \in Users, NEW field \in Fields, NEW x \in Options(field),
                       Profile(u, field, x) \in docs'
       PROVE  Member(field, x, u) \in docs'
    BY DEF Backed
  <2>1. Profile(u, field, x) \in docs => Member(field, x, u) \in docs
    BY DEF Inv, DocsInv, Backed
  <2>. QED  BY <1>1, <1>3, <2>1 DEF Safe
<1>6. \A a \in Users \ Signers : \A n \in Names :
        Username(a, n) \in docs' <=> Username(a, n) \in docs
  BY <1>1, <1>4 DEF Honest
<1>7. \A n \in Names : Free(n) <=> Free(n)'
  BY <1>6 DEF Free
<1>8. \A u \in Signers : ~ Retyped(u) /\ Named(u) => Named(u)'
  BY <1>1, <1>4 DEF Honest, Named
<1>9. Progress
  BY <1>7, <1>8 DEF Progress, Retyped
<1>10. ListedAreNamed'
  <2>. SUFFICES ASSUME NEW u \in Signers, ~ Retyped(u), IsMember(u, docs')
       PROVE  Named(u)'
    BY DEF ListedAreNamed, Retyped, Named, IsMember
  <2>1. CASE IsMember(u, docs)
    <3>1. Named(u)
      BY <2>1 DEF Inv, DocsInv, ListedAreNamed, Retyped, Named, IsMember
    <3>. QED  BY <1>8, <3>1
  <2>2. CASE IsMember(u, b.puts)
    BY <1>4, <1>8, <2>2 DEF Honest
  <2>. QED  BY <1>1, <2>1, <2>2 DEF IsMember
<1>11. NamesUnique'
  <2>. SUFFICES ASSUME NEW u \in Signers, NEW n \in Names, NEW a \in Users \ Signers,
                       Username(u, n) \in docs', Username(a, n) \in docs', ~ Retyped(u)
       PROVE  FALSE
    BY DEF NamesUnique, Retyped
  <2>1. Username(a, n) \in docs
    BY <1>6
  <2>2. CASE Username(u, n) \in docs
    BY <2>1, <2>2 DEF Inv, DocsInv, NamesUnique, Retyped
  <2>3. CASE Username(u, n) \in b.puts
    BY <1>4, <2>1, <2>3 DEF Honest, Free
  <2>. QED  BY <1>1, <2>2, <2>3
<1>12. HonestQueues'
  BY <1>1, <1>9, TailKept DEF Inv, TypeInv
<1>. QED  BY <1>5, <1>9, <1>10, <1>11, <1>12 DEF DocsInv

LEMMA ScreensKept ==
  ASSUME Progress, ScreensNamed,
         \A u \in Signers : (OnPage(u) \/ over[u].kind = "sheet")' =>
                            OnPage(u) \/ over[u].kind = "sheet"
  PROVE  ScreensNamed'
  BY DEF Progress, ScreensNamed

LEMMA CheckedKept ==
  ASSUME Progress, Checked, Types, calls' \subseteq calls, UNCHANGED typed
  PROVE  Checked'
<1>. SUFFICES ASSUME NEW c \in calls', c.kind # "createUser", ~ Retyped(c.user)'
     PROVE  /\ c.kind \in {"query", "token"} => c.name = typed[c.user]
            /\ c.kind \in {"token", "pictures"} => c.name \in Names /\ Free(c.name)'
  BY DEF Checked
<1>1. c \in calls /\ c.user \in Signers
  BY RequestShapes DEF Types
<1>2. ~ Retyped(c.user)
  BY <1>1 DEF Progress
<1>3. /\ c.kind \in {"query", "token"} => c.name = typed[c.user]
      /\ c.kind \in {"token", "pictures"} => c.name \in Names /\ Free(c.name)
  BY <1>1, <1>2 DEF Checked
<1>. QED  BY <1>3 DEF Progress

------------------------------------------------------------------------------
(* The actions *)

NameInv == HonestQueues /\ ScreensNamed /\ Checked /\ DocsInv

LEMMA InitNamed == Init => NameInv
<1>. SUFFICES ASSUME Init PROVE NameInv
  OBVIOUS
<1>1. PICK names \in [Users \ Signers -> Names] :
        docs = {Username(a, names[a]) : a \in Users \ Signers}
  BY DEF Init
<1>2. \A u \in Users, f \in Fields : \A x : Profile(u, f, x) \notin docs /\ Member(f, x, u) \notin docs
  <2>. SUFFICES ASSUME NEW u \in Users, NEW f \in Fields, NEW x
       PROVE  Profile(u, f, x) \notin docs /\ Member(f, x, u) \notin docs
    OBVIOUS
  <2>1. \A a \in Users : /\ Profile(u, f, x) # Username(a, names[a])
                         /\ Member(f, x, u) # Username(a, names[a])
    BY Kinds
  <2>. QED  BY <1>1, <2>1
<1>3. \A u \in Signers, n \in Names : Username(u, n) \notin docs
  <2>. SUFFICES ASSUME NEW u \in Signers, NEW n \in Names PROVE Username(u, n) \notin docs
    OBVIOUS
  <2>1. \A a \in Users \ Signers : Username(u, n) # Username(a, names[a])
    BY SignupAssumption DEF Username
  <2>. QED  BY <1>1, <2>1
<1>4. DocsInv
  BY <1>2, <1>3, SignupAssumption DEF DocsInv, Backed, ListedAreNamed, NamesUnique
<1>5. \A c \in Clients : outbox[c] = <<>> /\ DOMAIN outbox[c] = {}
  BY DEF Init, Clients
<1>6. HonestQueues
  BY <1>5 DEF HonestQueues, Clients
<1>7. ScreensNamed /\ Checked
  BY DEF Init, ScreensNamed, Checked, OnPage, Nothing
<1>. QED  BY <1>4, <1>6, <1>7 DEF NameInv

\* Steps that only move screens, or drop requests.
LEMMA QuietNamed ==
  ASSUME Inv, UNCHANGED <<docs, outbox, typed>>, calls' \subseteq calls,
         \A u \in Signers : slips[u] \subseteq slips'[u],
         \A u \in Signers : (OnPage(u) \/ over[u].kind = "sheet")' =>
                            OnPage(u) \/ over[u].kind = "sheet"
  PROVE  NameInv'
<1>1. Progress /\ DocsInv'
  BY Idle DEF Inv
<1>2. HonestQueues'
  BY <1>1, QueueKept DEF Inv
<1>3. ScreensNamed' /\ Checked'
  BY <1>1, ScreensKept, CheckedKept DEF Inv, TypeInv
<1>. QED  BY <1>1, <1>2, <1>3 DEF NameInv

LEMMA AlertShown ==
  ASSUME Types, NEW u \in Signers, NEW view, Alerted(u, view)
  PROVE  \A v \in Signers : over'[v].kind = "sheet" => over[v].kind = "sheet"
  BY DEF Types, Alerted, Alert

LEMMA confirmEmailPasswordNamed ==
  ASSUME Inv, NEW u \in Signers, confirmEmailPassword(u)
  PROVE  NameInv'
<1>1. UNCHANGED <<docs, outbox, typed, slips, pages, over>>
  BY DEF confirmEmailPassword
<1>2. Progress /\ DocsInv' /\ HonestQueues' /\ ScreensNamed'
  BY <1>1, Idle, QueueKept, ScreensKept DEF Inv, OnPage
<1>3. Checked'
  BY <1>1 DEF confirmEmailPassword, Checked, Retyped, Free, Inv
<1>. QED  BY <1>2, <1>3 DEF NameInv

LEMMA TypeNamed ==
  ASSUME Inv, NEW u \in Signers, Type(u)
  PROVE  NameInv'
<1>1. UNCHANGED <<docs, outbox, pages, over, calls>> /\ Slip(u, "retyped", Confirming(u))
  BY DEF Type
<1>2. Progress /\ DocsInv' /\ HonestQueues' /\ ScreensNamed'
  BY <1>1, SlipsGrow, Idle, QueueKept, ScreensKept DEF Inv, TypeInv, OnPage
<1>3. Checked'
  <2>. SUFFICES ASSUME NEW c \in calls, c.kind # "createUser", ~ Retyped(c.user)'
       PROVE  /\ c.kind \in {"query", "token"} => c.name = typed'[c.user]
              /\ c.kind \in {"token", "pictures"} => c.name \in Names /\ Free(c.name)'
    BY <1>1 DEF Checked
  <2>1. c.user \in Signers
    BY RequestShapes DEF Inv, TypeInv, Types
  <2>2. ~ Retyped(c.user)
    BY <1>2, <2>1 DEF Progress
  <2>3. c.user # u
    BY <1>1, SlipsGrow DEF Confirming, Inv, TypeInv
  <2>4. typed'[c.user] = typed[c.user]
    BY <2>1, <2>3 DEF Type, Inv, TypeInv, Types
  <2>5. /\ c.kind \in {"query", "token"} => c.name = typed[c.user]
        /\ c.kind \in {"token", "pictures"} => c.name \in Names /\ Free(c.name)
    BY <2>2 DEF Inv, Checked
  <2>. QED  BY <1>2, <2>4, <2>5 DEF Progress
<1>. QED  BY <1>2, <1>3 DEF NameInv

\* A request takes another's place, or is new: the others are as they were.
LEMMA CheckedNext ==
  ASSUME Progress, Checked, Types, UNCHANGED typed, NEW d, calls' \subseteq calls \cup {d},
         ~ Retyped(d.user)' =>
           /\ d.kind \in {"query", "token"} => d.name = typed[d.user]
           /\ d.kind \in {"token", "pictures"} => d.name \in Names /\ Free(d.name)'
  PROVE  Checked'
<1>. SUFFICES ASSUME NEW c \in calls', c.kind # "createUser", ~ Retyped(c.user)'
     PROVE  /\ c.kind \in {"query", "token"} => c.name = typed[c.user]
            /\ c.kind \in {"token", "pictures"} => c.name \in Names /\ Free(c.name)'
  BY DEF Checked
<1>1. CASE c = d
  BY <1>1
<1>2. CASE c \in calls
  <2>1. c.user \in Signers
    BY <1>2, RequestShapes DEF Types
  <2>2. ~ Retyped(c.user)
    BY <2>1 DEF Progress
  <2>. QED  BY <1>2, <2>2 DEF Progress, Checked
<1>. QED  BY <1>1, <1>2

LEMMA ConfirmNamesNamed ==
  ASSUME Inv, NEW u \in Signers, ConfirmNames(u)
  PROVE  NameInv'
<1>1. UNCHANGED <<docs, outbox, pages, over, typed>>
      /\ Slip(u, "again", Confirming(u) \/ Covered(u))
  BY DEF ConfirmNames
<1>2. Progress /\ DocsInv' /\ HonestQueues' /\ ScreensNamed'
  BY <1>1, SlipsGrow, Idle, QueueKept, ScreensKept DEF Inv, TypeInv, OnPage
<1>. DEFINE d == [kind |-> "query", user |-> u, n |-> count[u].confirms + 1, name |-> typed[u]]
<1>3. calls' \subseteq calls \cup {d}
  BY DEF ConfirmNames
<1>4. d.kind = "query" /\ d.user = u /\ d.name = typed[u]
  OBVIOUS
<1>. HIDE DEF d
<1>5. Checked'
  BY <1>1, <1>2, <1>3, <1>4, CheckedNext DEF Inv, TypeInv
<1>. QED  BY <1>2, <1>5 DEF NameInv

LEMMA NamesRejectedNamed ==
  ASSUME Inv, NEW c \in calls, NamesRejected(c) \/ NamesDropped(c)
  PROVE  NameInv'
<1>1. c.user \in Signers
  BY RequestShapes DEF Inv, TypeInv, Types
<1>2. /\ UNCHANGED <<docs, outbox, typed, slips, pages>> /\ calls' \subseteq calls
      /\ UNCHANGED over \/ Alerted(c.user, NamesView)
  BY DEF NamesRejected, NamesDropped
<1>3. \A v \in Signers : over'[v].kind = "sheet" => over[v].kind = "sheet"
  BY <1>1, <1>2, AlertShown DEF Inv, TypeInv
<1>. QED  BY <1>2, <1>3, QuietNamed DEF OnPage

LEMMA NamesAcceptedNamed ==
  ASSUME Inv, NEW c \in calls, NamesAccepted(c)
  PROVE  NameInv'
<1>1. UNCHANGED <<docs, outbox, typed, slips, pages, over>>
  BY DEF NamesAccepted
<1>2. Progress /\ DocsInv' /\ HonestQueues' /\ ScreensNamed'
  BY <1>1, Idle, QueueKept, ScreensKept DEF Inv, OnPage
<1>3. c.user \in Signers /\ c.user \in Clients /\ c \in Requests /\ c.kind = "query"
  BY RequestShapes DEF Inv, TypeInv, Types, Clients, NamesAccepted
<1>. DEFINE d == [c EXCEPT !.kind = "token"]
<1>4. d.kind = "token" /\ d.user = c.user /\ d.name = c.name
  <2>1. c \in [kind : {"query", "token", "pictures"}, user : Signers,
               n : 1..MaxConfirms, name : Names \cup {None}]
    BY <1>3, RequestShapes
  <2>. QED  BY <2>1
<1>5. calls' \subseteq calls \cup {d}
  BY DEF NamesAccepted
<1>. HIDE DEF d
<1>6. ASSUME ~ Retyped(c.user)
      PROVE  c.name = typed[c.user] /\ c.name \in Names /\ Free(c.name)
  <2>1. c.name = typed[c.user]
    BY <1>3, <1>6 DEF Inv, Checked
  <2>2. c.name # None /\ c.name \in Names
    BY <1>3, <2>1 DEF NamesAccepted, Inv, TypeInv, Types
  <2>3. ASSUME NEW a \in Users \ Signers PROVE Username(a, c.name) \notin docs
    <3>1. ~ Sees(c.user, Username(a, c.name))
      BY <2>2 DEF NamesAccepted, Taken
    <3>2. Touching(outbox[c.user], Username(a, c.name)) = {}
      <4>1. \A i \in DOMAIN outbox[c.user] : Honest(outbox[c.user][i])
        BY <1>3 DEF Inv, HonestQueues
      <4>. QED  BY <2>2, <4>1 DEF Touching, Honest
    <3>. QED  BY <3>1, <3>2 DEF Sees
  <2>. QED  BY <2>1, <2>2, <2>3 DEF Free
<1>7. Checked'
  <2>1. ~ Retyped(d.user)' => d.name = typed[d.user] /\ d.name \in Names /\ Free(d.name)'
    BY <1>2, <1>3, <1>4, <1>6 DEF Progress
  <2>. QED  BY <1>1, <1>2, <1>5, <2>1, CheckedNext DEF Inv, TypeInv
<1>. QED  BY <1>2, <1>7 DEF NameInv

LEMMA TokenFetchedNamed ==
  ASSUME Inv, NEW c \in calls, TokenFetched(c)
  PROVE  NameInv'
<1>1. UNCHANGED <<docs, outbox, typed, slips, pages, over>>
  BY DEF TokenFetched
<1>2. Progress /\ DocsInv' /\ HonestQueues' /\ ScreensNamed'
  BY <1>1, Idle, QueueKept, ScreensKept DEF Inv, OnPage
<1>3. c.user \in Signers /\ c \in Requests /\ c.kind = "token"
  BY RequestShapes DEF Inv, TypeInv, Types, TokenFetched
<1>. PICK d : d = [c EXCEPT !.kind = "pictures", !.name = typed[c.user]]
  OBVIOUS
<1>4. d.kind = "pictures" /\ d.user = c.user /\ d.name = typed[c.user]
  <2>1. c \in [kind : {"query", "token", "pictures"}, user : Signers,
               n : 1..MaxConfirms, name : Names \cup {None}]
    BY <1>3, RequestShapes
  <2>. QED  BY <2>1
<1>5. calls' \subseteq calls \cup {d}
  BY DEF TokenFetched
<1>6. ~ Retyped(c.user) => c.name = typed[c.user] /\ c.name \in Names /\ Free(c.name)
  BY <1>3 DEF Inv, Checked
<1>7. Checked'
  <2>1. ~ Retyped(d.user)' => d.name \in Names /\ Free(d.name)'
    BY <1>2, <1>3, <1>4, <1>6 DEF Progress
  <2>. QED  BY <1>1, <1>2, <1>4, <1>5, <2>1, CheckedNext DEF Inv, TypeInv
<1>. QED  BY <1>2, <1>7 DEF NameInv

\* A step that only queues a batch.
LEMMA QueuedNamed ==
  ASSUME Inv, NEW u \in Clients, NEW b \in SafeBatches, Enqueue(u, b), Honest(b),
         u \in Signers => Naming(u, b),
         UNCHANGED <<docs, typed, slips>>, calls' \subseteq calls,
         \A v \in Signers : (OnPage(v) \/ over[v].kind = "sheet")' =>
                            OnPage(v) \/ over[v].kind = "sheet"
  PROVE  NameInv'
<1>1. Progress /\ DocsInv'
  BY Idle DEF Inv
<1>2. HonestQueues'
  BY <1>1, AppendedKept DEF Inv, TypeInv
<1>3. ScreensNamed' /\ Checked'
  BY <1>1, ScreensKept, CheckedKept DEF Inv, TypeInv
<1>. QED  BY <1>1, <1>2, <1>3 DEF NameInv

LEMMA PicturesNamed ==
  ASSUME Inv, NEW c \in calls, PicturesFetched(c)
  PROVE  NameInv'
<1>1. /\ c.user \in Signers /\ c.user \in Clients /\ c.user \in Users
      /\ c \in Requests /\ c.kind = "pictures" /\ c.n \in 1..MaxConfirms
  BY RequestShapes, SignupAssumption DEF Inv, TypeInv, Types, Clients, PicturesFetched
<1>. DEFINE u == c.user
            b == [puts |-> {Username(u, m) : m \in {c.name} \cap Names},
                  dels |-> {Username(u, m) : m \in Names \ {c.name}},
                  handler |-> [by |-> "confirm", n |-> c.n, on |-> NamesView]]
<1>2. b \in SafeBatches
  BY <1>1, NamesBatch
<1>3. ~ Retyped(u) => c.name \in Names /\ Free(c.name)
  BY <1>1 DEF Inv, Checked
<1>4. ~ Retyped(u) => Username(u, c.name) \in b.puts
  BY <1>3
<1>5. Honest(b)
  <2>1. ASSUME NEW v \in Signers, ~ Retyped(v)
        PROVE  /\ ~ IsMember(v, b.puts)
               /\ (\E n \in Names : Username(v, n) \in b.dels) =>
                    \E n \in Names : Username(v, n) \in b.puts
               /\ \A n \in Names : Username(v, n) \in b.puts => Free(n)
    <3>0. v \in Users
      BY SignupAssumption
    <3>1. \A f \in Fields : \A x, m : Member(f, x, v) # Username(u, m)
      BY <1>1, <3>0, Kinds
    <3>2. ~ IsMember(v, b.puts)
      BY <3>1 DEF IsMember
    <3>3. \A n, m : Username(v, n) = Username(u, m) => v = u /\ n = m
      BY DEF Username
    <3>4. ASSUME NEW n \in Names, Username(v, n) \in b.dels
          PROVE  \E k \in Names : Username(v, k) \in b.puts
      <4>1. v = u
        BY <3>3, <3>4
      <4>. QED  BY <1>3, <1>4, <2>1, <4>1
    <3>5. ASSUME NEW n \in Names, Username(v, n) \in b.puts PROVE Free(n)
      <4>1. v = u /\ n = c.name
        BY <3>3, <3>5
      <4>. QED  BY <1>3, <2>1, <4>1
    <3>. QED  BY <3>2, <3>4, <3>5
  <2>2. ASSUME NEW a \in Users \ Signers, NEW n \in Names
        PROVE  Username(a, n) \notin b.puts \cup b.dels
    <3>1. \A m : Username(a, n) # Username(u, m)
      BY <1>1 DEF Username
    <3>. QED  BY <3>1
  <2>. QED  BY <2>1, <2>2, Zenon DEF Honest
<1>6. Naming(u, b)
  BY <1>3, <1>4 DEF Naming
<1>7. Enqueue(u, b) /\ UNCHANGED <<docs, typed, slips, pages, over>> /\ calls' \subseteq calls
  BY DEF PicturesFetched
<1>. HIDE DEF b, u
<1>. QED  BY <1>1, <1>2, <1>5, <1>6, <1>7, QueuedNamed DEF OnPage, u

LEMMA ShowSheetNamed ==
  ASSUME Inv, NEW u \in Signers, NEW field \in Fields, ShowSheet(u, field)
  PROVE  NameInv'
<1>1. UNCHANGED <<docs, outbox, typed, slips, pages, calls>> /\ OnPage(u)
  BY DEF ShowSheet
<1>2. \A v \in Signers : v # u => over'[v] = over[v]
  BY DEF ShowSheet, Inv, TypeInv, Types
<1>3. ASSUME NEW v \in Signers, (OnPage(v) \/ over[v].kind = "sheet")'
      PROVE  OnPage(v) \/ over[v].kind = "sheet"
  BY <1>1, <1>2, <1>3 DEF OnPage
<1>. QED  BY <1>1, <1>3, QuietNamed

LEMMA IncompleteNamed ==
  ASSUME Inv, NEW u \in Signers, Incomplete(u)
  PROVE  NameInv'
<1>1. UNCHANGED <<docs, outbox, typed, slips, pages, calls>> /\ OnPage(u)
  BY DEF Incomplete
<1>2. \A v \in Signers : v # u => over'[v] = over[v]
  BY DEF Incomplete, Inv, TypeInv, Types
<1>3. ASSUME NEW v \in Signers, (OnPage(v) \/ over[v].kind = "sheet")'
      PROVE  OnPage(v) \/ over[v].kind = "sheet"
  BY <1>1, <1>2, <1>3 DEF OnPage
<1>. QED  BY <1>1, <1>3, QuietNamed

\* A batch without names, of a user who has one.
LEMMA NamelessHonest ==
  ASSUME NEW u \in Users, NEW b,
         \A a \in Users : \A n : Username(a, n) \notin b.puts \cup b.dels,
         \A v \in Users : IsMember(v, b.puts) => v = u,
         u \in Signers => Named(u) \/ Retyped(u)
  PROVE  Honest(b)
  BY SignupAssumption DEF Honest

LEMMA didSelectRowNamed ==
  ASSUME Inv, NEW u \in Signers, didSelectRow(u)
  PROVE  NameInv'
<1>. DEFINE n == count[u].choices + 1
            field == over[u].field
<1>1. u \in Users /\ u \in Clients /\ field \in Fields /\ over[u].kind = "sheet"
  BY SheetShape, SignupAssumption DEF didSelectRow, Inv, TypeInv, Clients
<1>2. n \in 1..MaxWrites
  <2>1. count[u] \in Counts
    BY DEF Inv, TypeInv, Types, Counts
  <2>. QED  BY <2>1, SignupAssumption DEF didSelectRow, MayWrite, Counts
<1>3. PICK x \in Options(field) : /\ Enqueue(u, Choice(u, field, x, n))
        /\ pages' = [pages EXCEPT ![u] = [i \in DOMAIN @ |->
             IF @[i].id = over[u].page THEN [@[i] EXCEPT ![field] = x] ELSE @[i]]]
  BY DEF didSelectRow
<1>. DEFINE b == Choice(u, field, x, n)
<1>4. b \in SafeBatches
  BY <1>1, <1>2, ChoiceBatch
<1>5. Honest(b)
  <2>1. \A a \in Users : \A m : Username(a, m) \notin b.puts \cup b.dels
    <3>. SUFFICES ASSUME NEW a \in Users, NEW m PROVE Username(a, m) \notin b.puts \cup b.dels
      OBVIOUS
    <3>1. \A y : Username(a, m) # Profile(u, field, y) /\ Username(a, m) # Member(field, y, u)
      BY <1>1 DEF Username, Profile, Member, Fields
    <3>. QED  BY <3>1 DEF Choice
  <2>2. \A v \in Users : IsMember(v, b.puts) => v = u
    <3>. SUFFICES ASSUME NEW v \in Users, NEW f \in Fields, NEW y \in Options(f),
                         Member(f, y, v) \in b.puts
         PROVE  v = u
      BY DEF IsMember
    <3>1. Member(f, y, v) # Profile(u, field, x)
      BY <1>1, Kinds
    <3>2. Member(f, y, v) = Member(field, x, u) => v = u
      BY <1>1, Kinds
    <3>. QED  BY <3>1, <3>2 DEF Choice
  <2>3. Named(u) \/ Retyped(u)
    BY <1>1 DEF Inv, ScreensNamed
  <2>. HIDE DEF b
  <2>. QED  BY <1>1, <2>1, <2>2, <2>3, NamelessHonest
<1>6. Naming(u, b)
  BY DEF Naming, Choice
<1>7. \A v \in Signers : (OnPage(v) \/ over[v].kind = "sheet")' =>
                         OnPage(v) \/ over[v].kind = "sheet"
  <2>. SUFFICES ASSUME NEW v \in Signers, v # u,
                       (OnPage(v) \/ over[v].kind = "sheet")'
       PROVE  OnPage(v) \/ over[v].kind = "sheet"
    BY <1>1
  <2>1. over'[v] = over[v]
    BY DEF didSelectRow, Inv, TypeInv, Types
  <2>2. pages'[v] = pages[v]
    BY <1>3 DEF Inv, TypeInv, Types
  <2>. QED  BY <2>1, <2>2 DEF OnPage
<1>8. UNCHANGED <<docs, typed, slips, calls>>
  BY DEF didSelectRow
<1>. HIDE DEF b
<1>. QED  BY <1>1, <1>3, <1>4, <1>5, <1>6, <1>7, <1>8, QueuedNamed DEF b

LEMMA nextPageNamed ==
  ASSUME Inv, NEW u \in Signers, nextPage(u)
  PROVE  NameInv'
<1>1. u \in Users /\ u \in Clients /\ OnPage(u)
  BY SignupAssumption DEF nextPage, Clients
<1>. PICK n, page : n = count[u].listings + 1 /\ page = Last(pages[u])
  OBVIOUS
<1>. DEFINE b == [puts |-> Entries(u, page), dels |-> {},
                  handler |-> [by |-> "listing", n |-> n, on |-> PageView(page.id)]]
<1>2. b \in SafeBatches
  <2>1. count[u] \in Counts
    BY DEF Inv, TypeInv, Types, Counts
  <2>2. n \in 1..MaxWrites
    BY <2>1, SignupAssumption DEF nextPage, MayWrite, Counts
  <2>3. page \in Pages
    BY <1>1, TopPage DEF Inv, TypeInv
  <2>. QED  BY <2>2, <2>3, ListingBatch DEF nextPage
<1>3. Honest(b)
  <2>1. \A a \in Users : \A m : Username(a, m) \notin b.puts \cup b.dels
    BY DEF Username, Entries, Listing
  <2>2. \A v \in Users : ~ IsMember(v, b.puts)
    BY DEF IsMember, Entries, Listing, Member, Fields
  <2>3. Named(u) \/ Retyped(u)
    BY <1>1 DEF Inv, ScreensNamed
  <2>. HIDE DEF b
  <2>. QED  BY <1>1, <2>1, <2>2, <2>3, NamelessHonest
<1>4. Naming(u, b)
  BY DEF Naming
<1>5. Enqueue(u, b) /\ UNCHANGED <<docs, typed, slips, calls, pages, over>>
  BY DEF nextPage
<1>. HIDE DEF b
<1>. QED  BY <1>1, <1>2, <1>3, <1>4, <1>5, QueuedNamed DEF OnPage

LEMMA changeCourseNamed ==
  ASSUME Inv, NEW u \in Signers, changeCourse(u)
  PROVE  NameInv'
<1>1. u \in Users /\ Admin \in Clients
  BY SignupAssumption DEF Clients
<1>2. PICK c \in Courses \ {Pending}, x \in Universities :
        Enqueue(Admin,
          [puts |-> {Profile(u, "Course", c), Member("Course", c, u), Listing(x, c, u)},
           dels |-> {Profile(u, "Course", d) : d \in Courses \ {c}} \cup
                    {Member("Course", Pending, u), Listing(x, Pending, u)},
           handler |-> NoHandler])
  BY DEF changeCourse
<1>. DEFINE b == [puts |-> {Profile(u, "Course", c), Member("Course", c, u), Listing(x, c, u)},
                  dels |-> {Profile(u, "Course", d) : d \in Courses \ {c}} \cup
                           {Member("Course", Pending, u), Listing(x, Pending, u)},
                  handler |-> NoHandler]
<1>3. b \in SafeBatches
  BY CourseBatch
<1>4. Honest(b)
  <2>1. \A a \in Users : \A m : Username(a, m) \notin b.puts \cup b.dels
    <3>. SUFFICES ASSUME NEW a \in Users, NEW m PROVE Username(a, m) \notin b.puts \cup b.dels
      OBVIOUS
    <3>1. /\ \A d : /\ Username(a, m) # Profile(u, "Course", d)
                    /\ Username(a, m) # Member("Course", d, u)
          /\ \A d : Username(a, m) # Listing(x, d, u)
      BY DEF Username, Profile, Member, Listing
    <3>. QED  BY <3>1
  <2>2. \A v \in Users : IsMember(v, b.puts) => v = u
    <3>. SUFFICES ASSUME NEW v \in Users, NEW f \in Fields, NEW y \in Options(f),
                         Member(f, y, v) \in b.puts
         PROVE  v = u
      BY DEF IsMember
    <3>1. /\ Member(f, y, v) # Profile(u, "Course", c)
          /\ Member(f, y, v) # Listing(x, c, u)
          /\ Member(f, y, v) = Member("Course", c, u) => v = u
      BY DEF Member, Profile, Listing
    <3>. QED  BY <3>1
  <2>3. Named(u) \/ Retyped(u)
    <3>1. IsMember(u, docs)
      <4>1. Pending \in Options("Course") /\ "Course" \in Fields
        BY SignupAssumption DEF Options, Fields
      <4>. QED  BY <4>1 DEF changeCourse, IsMember
    <3>. QED  BY <3>1 DEF Inv, DocsInv, ListedAreNamed, IsMember, Named, Retyped
  <2>. HIDE DEF b
  <2>. QED  BY <1>1, <2>1, <2>2, <2>3, NamelessHonest
<1>5. \A v : Naming(v, b)
  BY DEF Naming
<1>6. Enqueue(Admin, b) /\ UNCHANGED <<docs, typed, slips, calls, pages, over>>
  BY <1>2 DEF changeCourse
<1>. HIDE DEF b
<1>. QED  BY <1>1, <1>3, <1>4, <1>5, <1>6, QueuedNamed DEF OnPage

LEMMA CourseChangedNamed ==
  ASSUME Inv, CourseChanged
  PROVE  NameInv'
<1>1. Admin \in Clients /\ Commit(Admin) /\ UNCHANGED <<typed, slips, calls, pages, over>>
  BY DEF Clients, CourseChanged
<1>2. Progress /\ DocsInv' /\ HonestQueues'
  BY <1>1, CommitKept
<1>3. ScreensNamed' /\ Checked'
  BY <1>1, <1>2, ScreensKept, CheckedKept DEF Inv, TypeInv, OnPage
<1>. QED  BY <1>2, <1>3 DEF NameInv

LEMMA CourseRefusedNamed ==
  ASSUME Inv, CourseRefused
  PROVE  NameInv'
<1>1. /\ Admin \in Clients /\ UNCHANGED <<docs, typed, slips, calls, pages, over>>
      /\ outbox[Admin] # <<>> /\ outbox' = [outbox EXCEPT ![Admin] = Tail(@)]
  BY DEF Clients, CourseRefused, Refuse
<1>2. Progress /\ DocsInv'
  BY <1>1, Idle DEF Inv
<1>3. HonestQueues'
  BY <1>1, <1>2, TailKept DEF Inv, TypeInv
<1>4. ScreensNamed' /\ Checked'
  BY <1>1, <1>2, ScreensKept, CheckedKept DEF Inv, TypeInv, OnPage
<1>. QED  BY <1>2, <1>3, <1>4 DEF NameInv

LEMMA CommittedNamed ==
  ASSUME Inv, NEW u \in Signers, BatchCommitted(u)
  PROVE  NameInv'
<1>. DEFINE b == Head(outbox[u])
            h == b.handler
<1>1. u \in Clients /\ Commit(u) /\ UNCHANGED <<typed, slips, calls>>
  BY DEF Clients, BatchCommitted
<1>2. Progress /\ DocsInv' /\ HonestQueues'
  BY <1>1, CommitKept
<1>3. Checked'
  BY <1>1, <1>2, CheckedKept DEF Inv, TypeInv
<1>4. ScreensNamed'
  <2>1. CASE UNCHANGED <<screen, pages, over, overlays, vSpinner>>
    BY <1>2, <2>1, ScreensKept DEF Inv, OnPage
  <2>2. CASE h # NoHandler /\ h.by = "confirm" /\ NamesStored(u, h.n)
    <3>1. Retyped(u) \/ Named(u)'
      <4>1. Naming(u, b)
        <5>1. outbox[u] \in Seq(SafeBatches) /\ outbox[u] # <<>>
          BY <1>1 DEF Inv, TypeInv, Queues, Commit
        <5>2. 1 \in DOMAIN outbox[u] /\ b = outbox[u][1]
          BY <5>1, LenProperties, EmptySeq
        <5>. QED  BY <5>2 DEF Inv, HonestQueues
      <4>2. b.puts \subseteq docs'
        BY <1>1 DEF Commit
      <4>. QED  BY <2>2, <4>1, <4>2 DEF Naming, Named
    <3>2. \A v \in Signers : v # u => pages'[v] = pages[v]
      BY <2>2 DEF NamesStored, Inv, TypeInv, Types
    <3>. QED  BY <1>2, <2>2, <3>1, <3>2 DEF NamesStored, ScreensNamed, Progress, OnPage, Inv
  <2>3. CASE ChoiceStored(u, h.n)
    <3>1. pages' = pages /\ \A v \in Signers : over'[v].kind = "sheet" => over[v].kind = "sheet"
      BY <2>3 DEF ChoiceStored, Nothing, Inv, TypeInv, Types
    <3>. QED  BY <1>2, <3>1, ScreensKept DEF Inv, OnPage
  <2>4. CASE Listed(u, h.on)
    <3>1. \A v \in Signers : over'[v].kind = "sheet" => over[v].kind = "sheet"
      <4>1. over' \in {over, [over EXCEPT ![u] = Nothing]}
        BY <2>4 DEF Listed
      <4>2. over \in [Signers -> Presented]
        BY DEF Inv, TypeInv, Types
      <4>3. \A v \in Signers : over'[v] \in {over[v], Nothing}
        BY <4>1, <4>2
      <4>. QED  BY <4>3 DEF Nothing
    <3>2. pages' \in {pages, [pages EXCEPT ![u] = <<>>]}
      BY <2>4 DEF Listed
    <3>3. \A v \in Signers : pages'[v] # <<>> => pages[v] # <<>>
      BY <3>2 DEF Inv, TypeInv, Types
    <3>. QED  BY <1>2, <3>1, <3>3, ScreensKept DEF Inv, OnPage
  <2>. QED  BY <2>1, <2>2, <2>3, <2>4 DEF BatchCommitted
<1>. QED  BY <1>2, <1>3, <1>4 DEF NameInv

LEMMA RefusedNamed ==
  ASSUME Inv, NEW u \in Signers, BatchRefused(u)
  PROVE  NameInv'
<1>1. /\ u \in Clients /\ UNCHANGED <<docs, typed, slips, calls, pages>>
      /\ outbox[u] # <<>> /\ outbox' = [outbox EXCEPT ![u] = Tail(@)]
  BY DEF Clients, BatchRefused, Refuse
<1>2. Progress /\ DocsInv'
  BY <1>1, Idle DEF Inv
<1>3. HonestQueues'
  BY <1>1, <1>2, TailKept DEF Inv, TypeInv
<1>4. \A v \in Signers : over'[v].kind = "sheet" => over[v].kind = "sheet"
  BY AlertShown DEF BatchRefused, Inv, TypeInv
<1>5. ScreensNamed' /\ Checked'
  BY <1>1, <1>2, <1>4, ScreensKept, CheckedKept DEF Inv, TypeInv, OnPage
<1>. QED  BY <1>2, <1>3, <1>5 DEF NameInv

LEMMA BackNamed ==
  ASSUME Inv, NEW u \in Signers, Back(u)
  PROVE  NameInv'
<1>1. UNCHANGED <<docs, outbox, typed, calls, over>> /\ Slip(u, "left", Busy(u))
  BY DEF Back
<1>2. \A v \in Signers : pages'[v] # <<>> => pages[v] # <<>>
  <2>1. CASE OnPage(u)
    BY <2>1 DEF Back, OnPage, Inv, TypeInv, Types
  <2>2. CASE ~ OnPage(u)
    BY <2>2 DEF Back
  <2>. QED  BY <2>1, <2>2
<1>. QED  BY <1>1, <1>2, SlipsGrow, QuietNamed DEF OnPage, Inv, TypeInv

LEMMA DismissNamed ==
  ASSUME Inv, NEW u \in Signers, Dismiss(u)
  PROVE  NameInv'
<1>1. UNCHANGED <<docs, outbox, typed, calls, pages>>
      /\ Slip(u, "left", Busy(u) /\ over[u] # Alert)
  BY DEF Dismiss
<1>2. \A v \in Signers : over'[v].kind = "sheet" => over[v].kind = "sheet"
  BY DEF Dismiss, Nothing, Inv, TypeInv, Types
<1>. QED  BY <1>1, <1>2, SlipsGrow, QuietNamed DEF OnPage, Inv, TypeInv

LEMMA RelaunchNamed ==
  ASSUME Inv, NEW u \in Signers, Relaunch(u)
  PROVE  NameInv'
<1>1. UNCHANGED docs /\ Slip(u, "left", Busy(u)) /\ u \in Clients
  BY DEF Relaunch, Clients
<1>2. Progress /\ DocsInv'
  BY <1>1, SlipsGrow, Idle DEF Inv, TypeInv
<1>3. HonestQueues'
  BY <1>1, <1>2, SilencedKept DEF Relaunch, Inv, TypeInv
<1>4. \A v \in Signers : /\ pages'[v] # <<>> => pages[v] # <<>>
                         /\ over'[v].kind = "sheet" => over[v].kind = "sheet"
  BY DEF Relaunch, Nothing, Inv, TypeInv, Types
<1>5. ScreensNamed'
  BY <1>2, <1>4, ScreensKept DEF OnPage, Inv
<1>6. Checked'
  <2>. SUFFICES ASSUME NEW c \in calls', c.kind # "createUser", ~ Retyped(c.user)'
       PROVE  /\ c.kind \in {"query", "token"} => c.name = typed'[c.user]
              /\ c.kind \in {"token", "pictures"} => c.name \in Names /\ Free(c.name)'
    BY DEF Checked
  <2>1. c \in calls /\ c.user # u
    BY DEF Relaunch
  <2>2. c.user \in Signers
    BY <2>1, RequestShapes DEF Inv, TypeInv, Types
  <2>3. typed'[c.user] = typed[c.user]
    BY <2>1, <2>2 DEF Relaunch, Inv, TypeInv, Types
  <2>4. ~ Retyped(c.user)
    BY <1>2, <2>2 DEF Progress
  <2>5. /\ c.kind \in {"query", "token"} => c.name = typed[c.user]
        /\ c.kind \in {"token", "pictures"} => c.name \in Names /\ Free(c.name)
    BY <2>1, <2>4 DEF Inv, Checked
  <2>. QED  BY <1>2, <2>3, <2>5 DEF Progress
<1>. QED  BY <1>2, <1>3, <1>5, <1>6 DEF NameInv

------------------------------------------------------------------------------
(* The theorems *)

LEMMA StepInv == Inv /\ [Next]_vars => Inv'
<1>. SUFFICES ASSUME Inv, [Next]_vars PROVE TypeInv' /\ NameInv'
  BY DEF Inv, NameInv
<1>0. TypeInv
  BY DEF Inv
<1>1. ASSUME NEW u \in Signers, Tap(u) PROVE TypeInv' /\ NameInv'
  <2>1. CASE SignUp(u)
    <3>1. TypeInv'
      BY <1>0, <2>1, Tap1Typed
    <3>2. UNCHANGED <<docs, outbox, typed, slips, pages, over, calls>>
      BY <2>1 DEF SignUp
    <3>. QED  BY <3>1, <3>2, QuietNamed DEF OnPage
  <2>2. CASE confirmEmailPassword(u)
    BY <1>0, <2>2, Tap1Typed, confirmEmailPasswordNamed
  <2>3. CASE Type(u)
    BY <1>0, <2>3, Tap1Typed, TypeNamed
  <2>4. CASE ConfirmNames(u)
    BY <1>0, <2>4, ConfirmNamesTyped, ConfirmNamesNamed
  <2>5. CASE \E field \in Fields : ShowSheet(u, field)
    BY <1>0, <2>5, PageTapTyped, ShowSheetNamed
  <2>6. CASE didSelectRow(u)
    BY <1>0, <2>6, didSelectRowTyped, didSelectRowNamed
  <2>7. CASE Incomplete(u)
    <3>1. "Course" \in Fields
      BY DEF Fields
    <3>. QED  BY <1>0, <2>7, <3>1, PageTapTyped, IncompleteNamed
  <2>8. CASE nextPage(u)
    BY <1>0, <2>8, nextPageTyped, nextPageNamed
  <2>9. CASE Back(u)
    BY <1>0, <2>9, BackTyped, BackNamed
  <2>10. CASE Dismiss(u)
    BY <1>0, <2>10, DismissTyped, DismissNamed
  <2>. QED  BY <1>1, <2>1, <2>2, <2>3, <2>4, <2>5, <2>6, <2>7, <2>8, <2>9, <2>10 DEF Tap
<1>2. ASSUME NEW c \in calls, Answer(c) PROVE TypeInv' /\ NameInv'
  <2>1. CASE UserCreated(c) \/ UserRefused(c)
    <3>1. TypeInv'
      BY <1>0, <2>1, AccountTyped
    <3>2. UNCHANGED <<docs, outbox, typed, slips, pages, over>> /\ calls' \subseteq calls
      BY <2>1 DEF UserCreated, UserRefused
    <3>. QED  BY <3>1, <3>2, QuietNamed DEF OnPage
  <2>2. CASE NamesRejected(c) \/ NamesDropped(c)
    BY <1>0, <2>2, NamesTyped, NamesRejectedNamed
  <2>3. CASE NamesAccepted(c)
    BY <1>0, <2>3, NamesTyped, NamesAcceptedNamed
  <2>4. CASE TokenFetched(c)
    BY <1>0, <2>4, NamesTyped, TokenFetchedNamed
  <2>5. CASE PicturesFetched(c)
    BY <1>0, <2>5, PicturesTyped, PicturesNamed
  <2>. QED  BY <1>2, <2>1, <2>2, <2>3, <2>4, <2>5 DEF Answer
<1>3. ASSUME NEW u \in Signers, BatchCommitted(u) PROVE TypeInv' /\ NameInv'
  BY <1>0, <1>3, CommittedTyped, CommittedNamed
<1>4. ASSUME NEW u \in Signers, BatchRefused(u) PROVE TypeInv' /\ NameInv'
  BY <1>0, <1>4, RefusedTyped, RefusedNamed
<1>5. ASSUME NEW u \in Signers, Relaunch(u) PROVE TypeInv' /\ NameInv'
  BY <1>0, <1>5, RelaunchTyped, RelaunchNamed
<1>6. ASSUME NEW u \in Signers, changeCourse(u) PROVE TypeInv' /\ NameInv'
  BY <1>0, <1>6, CourseTyped, changeCourseNamed
<1>7. ASSUME CourseChanged PROVE TypeInv' /\ NameInv'
  BY <1>0, <1>7, CourseTyped, CourseChangedNamed
<1>8. ASSUME CourseRefused PROVE TypeInv' /\ NameInv'
  BY <1>0, <1>8, CourseTyped, CourseRefusedNamed
<1>9. CASE UNCHANGED vars
  <2>1. TypeInv'
    BY <1>0, <1>9 DEF vars, TypeInv, Types, Queues
  <2>. QED  BY <1>9, <2>1, QuietNamed DEF vars, OnPage
<1>. QED  BY <1>1, <1>2, <1>3, <1>4, <1>5, <1>6, <1>7, <1>8, <1>9 DEF Next

LEMMA InvHolds == Spec => []Inv
<1>1. Init => Inv
  BY InitTyped, InitNamed DEF Inv, NameInv
<1>. QED  BY <1>1, StepInv, PTL DEF Spec

\* Every variable keeps its type: in particular every page on the screen was
\* pushed by a confirmation, and every overlay lies on a view there can be.
THEOREM TypeCorrect == Spec => []TypeOK
<1>1. TypeInv => TypeOK
  <2>. SUFFICES ASSUME TypeInv PROVE TypeOK
    OBVIOUS
  <2>1. ASSUME NEW u \in Signers \cup {Admin}, NEW i \in DOMAIN outbox[u]
        PROVE  /\ outbox[u][i].puts \cup outbox[u][i].dels \subseteq Documents
               /\ outbox[u][i].handler \in Handlers
    <3>1. outbox[u] \in Seq(SafeBatches)
      BY DEF TypeInv, Queues, Clients
    <3>2. outbox[u][i] \in Batches
      BY <3>1, LenProperties, ElementOfSeq DEF SafeBatches
    <3>3. BoundedHandlers \subseteq Handlers
      BY SignupAssumption DEF BoundedHandlers, Handlers
    <3>. QED  BY <3>2, <3>3 DEF Batches
  <2>2. \A u \in Signers : overlays[u] \subseteq Overlays
    BY DEF TypeInv, Types
  <2>. QED  BY <2>1, <2>2 DEF TypeInv, Types, TypeOK
<1>. QED  BY <1>1, InvHolds, PTL DEF Inv

\* However the batches of users and developers interleave, are refused or
\* outlive a restart, a profile that names a university or a course has the
\* membership that the search pages count.
THEOREM ProfilesBacked == Spec => []Backed
<1>1. Inv => Backed
  BY DEF Inv, DocsInv
<1>. QED  BY <1>1, InvHolds, PTL

\* Nobody is a member without a username, for any number of users signing up.
THEOREM MembersNamed == Spec => []ListedAreNamed
<1>1. Inv => ListedAreNamed
  BY DEF Inv, DocsInv
<1>. QED  BY <1>1, InvHolds, PTL

\* The check of a username, made three requests before it is written, keeps a
\* sign-up from taking the name of a user who had signed up before.
THEOREM NamesFree == Spec => []NamesUnique
<1>1. Inv => NamesUnique
  BY DEF Inv, DocsInv
<1>. QED  BY <1>1, InvHolds, PTL

------------------------------------------------------------------------------
(* What a step does not touch *)

CallsOf(u) == {c \in calls : c.user = u}

\* The device of v stays as it is.
Untouched(v) ==
  /\ overlays'[v] = overlays[v] /\ vSpinner'[v] = vSpinner[v]
  /\ over'[v] = over[v] /\ pages'[v] = pages[v] /\ screen'[v] = screen[v]
  /\ count'[v] = count[v] /\ slips'[v] = slips[v]
  /\ outbox'[v] = outbox[v]
  /\ CallsOf(v)' = CallsOf(v)

LEMMA QueueElsewhere ==
  ASSUME Queues, NEW u \in Clients, NEW v \in Clients, v # u
  PROVE  /\ \A b : Enqueue(u, b) => outbox'[v] = outbox[v]
         /\ Commit(u) \/ Refuse(u) => outbox'[v] = outbox[v]
  BY DEF Queues, Enqueue, Commit, Refuse

LEMMA SlipElsewhere ==
  ASSUME Types, NEW u \in Signers, NEW v \in Signers, v # u, NEW what, NEW when,
         Slip(u, what, when)
  PROVE  slips'[v] = slips[v]
  BY DEF Types, Slip

LEMMA SpinnerElsewhere ==
  ASSUME Types, NEW u \in Signers, NEW v \in Signers, v # u
  PROVE  /\ \A o : showSpinner(u, o) => overlays'[v] = overlays[v] /\ vSpinner'[v] = vSpinner[v]
         /\ removeSpinner(u) => overlays'[v] = overlays[v] /\ vSpinner'[v] = vSpinner[v]
         /\ Uncover(u) => overlays'[v] = overlays[v]
         /\ \A view : Alerted(u, view) => over'[v] = over[v]
  BY DEF Types, showSpinner, removeSpinner, Uncover, Alerted

LEMMA TapElsewhere ==
  ASSUME TypeInv, NEW u \in Signers, NEW v \in Signers, v # u, Tap(u)
  PROVE  Untouched(v)
<1>0. u \in Clients /\ v \in Clients
  BY DEF Clients
<1>1. CASE SignUp(u)
  BY <1>1 DEF SignUp, Untouched, CallsOf, TypeInv, Types
<1>2. CASE confirmEmailPassword(u)
  <2>1. CallsOf(v)' = CallsOf(v)
    BY <1>2 DEF confirmEmailPassword, CallsOf
  <2>. QED  BY <1>2, <2>1 DEF confirmEmailPassword, Untouched
<1>3. CASE Type(u)
  BY <1>3, SlipElsewhere DEF Type, Untouched, CallsOf, TypeInv
<1>4. CASE ConfirmNames(u)
  <2>1. CallsOf(v)' = CallsOf(v)
    BY <1>4 DEF ConfirmNames, CallsOf
  <2>2. count'[v] = count[v]
    BY <1>4 DEF ConfirmNames, TypeInv, Types
  <2>. QED  BY <1>4, <2>1, <2>2, SlipElsewhere, SpinnerElsewhere
            DEF ConfirmNames, Untouched, TypeInv
<1>5. CASE \E field \in Fields : ShowSheet(u, field)
  BY <1>5 DEF ShowSheet, Untouched, CallsOf, TypeInv, Types
<1>6. CASE didSelectRow(u)
  <2>1. outbox'[v] = outbox[v]
    BY <1>0, <1>6, QueueElsewhere DEF didSelectRow, TypeInv
  <2>2. /\ count'[v] = count[v] /\ over'[v] = over[v] /\ pages'[v] = pages[v]
    BY <1>6 DEF didSelectRow, TypeInv, Types
  <2>. QED  BY <1>6, <2>1, <2>2, SpinnerElsewhere DEF didSelectRow, Untouched, CallsOf, TypeInv
<1>7. CASE Incomplete(u)
  BY <1>7 DEF Incomplete, Untouched, CallsOf, TypeInv, Types
<1>8. CASE nextPage(u)
  <2>1. outbox'[v] = outbox[v]
    BY <1>0, <1>8, QueueElsewhere DEF nextPage, TypeInv
  <2>2. count'[v] = count[v]
    BY <1>8 DEF nextPage, TypeInv, Types
  <2>. QED  BY <1>8, <2>1, <2>2, SpinnerElsewhere DEF nextPage, Untouched, CallsOf, TypeInv
<1>9. CASE Back(u)
  <2>1. pages'[v] = pages[v] /\ screen'[v] = screen[v]
    BY <1>9 DEF Back, TypeInv, Types
  <2>. QED  BY <1>9, <2>1, SlipElsewhere, SpinnerElsewhere
            DEF Back, Untouched, CallsOf, TypeInv
<1>10. CASE Dismiss(u)
  <2>1. over'[v] = over[v] /\ overlays'[v] = overlays[v]
    BY <1>10, SpinnerElsewhere DEF Dismiss, TypeInv, Types
  <2>. QED  BY <1>10, <2>1, SlipElsewhere DEF Dismiss, Untouched, CallsOf, TypeInv
<1>. QED  BY <1>1, <1>2, <1>3, <1>4, <1>5, <1>6, <1>7, <1>8, <1>9, <1>10 DEF Tap

LEMMA AnswerElsewhere ==
  ASSUME TypeInv, NEW c \in calls, NEW v \in Signers, v # c.user, Answer(c)
  PROVE  Untouched(v)
<1>0. c \in Requests /\ c.user \in Signers /\ c.user \in Clients /\ v \in Clients
  BY RequestShapes DEF TypeInv, Types, Clients
<1>1. CASE UserCreated(c)
  <2>1. CallsOf(v)' = CallsOf(v) /\ screen'[v] = screen[v]
    BY <1>0, <1>1 DEF UserCreated, CallsOf, TypeInv, Types
  <2>. QED  BY <1>1, <2>1 DEF UserCreated, Untouched
<1>2. CASE UserRefused(c) \/ NamesDropped(c)
  <2>1. CallsOf(v)' = CallsOf(v)
    BY <1>2 DEF UserRefused, NamesDropped, CallsOf
  <2>. QED  BY <1>2, <2>1 DEF UserRefused, NamesDropped, Untouched
<1>3. CASE NamesRejected(c)
  <2>1. CallsOf(v)' = CallsOf(v)
    BY <1>3 DEF NamesRejected, CallsOf
  <2>. QED  BY <1>0, <1>3, <2>1, SpinnerElsewhere DEF NamesRejected, Untouched, TypeInv
<1>4. CASE NamesAccepted(c)
  <2>1. [c EXCEPT !.kind = "token"].user = c.user
    BY <1>0, <1>4, RequestShapes DEF NamesAccepted
  <2>2. CallsOf(v)' = CallsOf(v)
    BY <1>4, <2>1 DEF NamesAccepted, CallsOf
  <2>. QED  BY <1>4, <2>2 DEF NamesAccepted, Untouched
<1>5. CASE TokenFetched(c)
  <2>1. [c EXCEPT !.kind = "pictures", !.name = typed[c.user]].user = c.user
    BY <1>0, <1>5, RequestShapes DEF TokenFetched
  <2>2. CallsOf(v)' = CallsOf(v)
    BY <1>5, <2>1 DEF TokenFetched, CallsOf
  <2>. QED  BY <1>5, <2>2 DEF TokenFetched, Untouched
<1>6. CASE PicturesFetched(c)
  <2>1. CallsOf(v)' = CallsOf(v)
    BY <1>6 DEF PicturesFetched, CallsOf
  <2>2. outbox'[v] = outbox[v]
    BY <1>0, <1>6, QueueElsewhere DEF PicturesFetched, TypeInv
  <2>. QED  BY <1>6, <2>1, <2>2 DEF PicturesFetched, Untouched
<1>. QED  BY <1>1, <1>2, <1>3, <1>4, <1>5, <1>6 DEF Answer

LEMMA BatchElsewhere ==
  ASSUME TypeInv, NEW u \in Signers, NEW v \in Signers, v # u,
         BatchCommitted(u) \/ BatchRefused(u) \/ Relaunch(u)
  PROVE  Untouched(v)
<1>0. u \in Clients /\ v \in Clients
  BY DEF Clients
<1>1. CASE BatchCommitted(u)
  <2>. DEFINE h == Head(outbox[u]).handler
  <2>1. outbox'[v] = outbox[v]
    BY <1>0, <1>1, QueueElsewhere DEF BatchCommitted, TypeInv
  <2>2. /\ overlays'[v] = overlays[v] /\ vSpinner'[v] = vSpinner[v]
        /\ over'[v] = over[v] /\ pages'[v] = pages[v] /\ screen'[v] = screen[v]
    <3>1. CASE UNCHANGED <<screen, pages, over, overlays, vSpinner>>
      BY <3>1
    <3>2. CASE NamesStored(u, h.n)
      BY <3>2, SpinnerElsewhere DEF NamesStored, TypeInv, Types
    <3>3. CASE ChoiceStored(u, h.n)
      BY <3>3, SpinnerElsewhere DEF ChoiceStored, TypeInv, Types
    <3>4. CASE Listed(u, h.on)
      <4>1. /\ over' \in {over, [over EXCEPT ![u] = Nothing]}
            /\ pages' \in {pages, [pages EXCEPT ![u] = <<>>]}
            /\ screen' \in {screen, [screen EXCEPT ![u] = "home"]}
        BY <3>4 DEF Listed
      <4>2. removeSpinner(u)
        BY <3>4 DEF Listed
      <4>. QED  BY <4>1, <4>2, SpinnerElsewhere DEF TypeInv, Types
    <3>. QED  BY <1>1, <3>1, <3>2, <3>3, <3>4 DEF BatchCommitted
  <2>. QED  BY <1>1, <2>1, <2>2 DEF BatchCommitted, Untouched, CallsOf
<1>2. CASE BatchRefused(u)
  <2>1. outbox'[v] = outbox[v]
    BY <1>0, <1>2, QueueElsewhere DEF BatchRefused, TypeInv
  <2>2. over'[v] = over[v]
    BY <1>2, SpinnerElsewhere DEF BatchRefused, TypeInv
  <2>. QED  BY <1>2, <2>1, <2>2 DEF BatchRefused, Untouched, CallsOf
<1>3. CASE Relaunch(u)
  <2>1. CallsOf(v)' = CallsOf(v)
    BY <1>3 DEF Relaunch, CallsOf
  <2>2. outbox'[v] = outbox[v]
    BY <1>0, <1>3 DEF Relaunch, TypeInv, Queues
  <2>3. /\ overlays'[v] = overlays[v] /\ vSpinner'[v] = vSpinner[v]
        /\ over'[v] = over[v] /\ pages'[v] = pages[v] /\ screen'[v] = screen[v]
    BY <1>3 DEF Relaunch, TypeInv, Types
  <2>. QED  BY <1>3, <2>1, <2>2, <2>3, SlipElsewhere DEF Relaunch, Untouched, TypeInv
<1>. QED  BY <1>1, <1>2, <1>3

LEMMA CourseElsewhere ==
  ASSUME TypeInv, NEW v \in Signers,
         (\E u \in Signers : changeCourse(u)) \/ CourseChanged \/ CourseRefused
  PROVE  Untouched(v)
<1>0. Admin \in Clients /\ v \in Clients /\ v # Admin
  BY SignupAssumption DEF Clients
<1>1. ASSUME NEW u \in Signers, changeCourse(u) PROVE Untouched(v)
  <2>1. outbox'[v] = outbox[v]
    BY <1>0, <1>1, QueueElsewhere DEF changeCourse, TypeInv
  <2>. QED  BY <1>1, <2>1 DEF changeCourse, Untouched, CallsOf
<1>2. ASSUME CourseChanged PROVE Untouched(v)
  <2>1. outbox'[v] = outbox[v]
    BY <1>0, <1>2, QueueElsewhere DEF CourseChanged, TypeInv
  <2>. QED  BY <1>2, <2>1 DEF CourseChanged, Untouched, CallsOf
<1>3. ASSUME CourseRefused PROVE Untouched(v)
  <2>1. outbox'[v] = outbox[v]
    BY <1>0, <1>3, QueueElsewhere DEF CourseRefused, TypeInv
  <2>. QED  BY <1>3, <2>1 DEF CourseRefused, Untouched, CallsOf
<1>. QED  BY <1>1, <1>2, <1>3

------------------------------------------------------------------------------
(* Overlays *)

\* Requests of u that will take an overlay off.
Working(u) ==
  \/ Confirming(u)
  \/ \E i \in DOMAIN outbox[u] : outbox[u][i].handler # NoHandler

\* Pages lie on the names, and a sheet lies on a page.
Stacked(u) ==
  /\ over[u].kind = "sheet" => OnPage(u)
  /\ OnPage(u) => screen[u] = "names"

\* Nothing of u failed, and no names were confirmed under an overlay.
Smooth(u) == failures = 0 /\ "again" \notin slips[u]

\* Then the one overlay there is lies on what u sees, is the one that
\* removeSpinner takes off, and a request is under way that will do so.
Overlaid(u) ==
  Smooth(u) => \A o \in overlays[u] :
    /\ o = vSpinner[u] /\ o.on = Shown(u)
    /\ screen[u] = "names"
    /\ Working(u)

OverlayInv == \A u \in Signers : Stacked(u) /\ Overlaid(u)

LEMMA WorkingIs ==
  ASSUME NEW u
  PROVE  Working(u) <=> \/ \E c \in CallsOf(u) : c.kind # "createUser"
                        \/ \E i \in DOMAIN outbox[u] : outbox[u][i].handler # NoHandler
  BY DEF Working, Confirming, CallsOf

\* What is counted and remembered is never forgotten.
LEMMA HistoryGrows ==
  ASSUME TypeInv, [Next]_vars, NEW u \in Signers
  PROVE  /\ failures \in Nat /\ (failures' = failures \/ failures' = failures + 1)
         /\ changes \in Nat /\ (changes' = changes \/ changes' = changes + 1)
         /\ slips[u] \subseteq slips'[u]
<1>1. failures \in Nat /\ (failures' = failures \/ failures' = failures + 1)
  <2>1. failures \in Nat
    BY SignupAssumption DEF TypeInv, Types
  <2>2. failures' = failures \/ failures' = failures + 1
    BY DEF Next, vars, Tap, Answer, SignUp, confirmEmailPassword, Type, ConfirmNames, ShowSheet,
           didSelectRow, Incomplete, nextPage, Back, Dismiss, UserCreated, UserRefused,
           NamesRejected, NamesAccepted, TokenFetched, NamesDropped, PicturesFetched,
           BatchCommitted, BatchRefused, Relaunch, changeCourse, CourseChanged, CourseRefused, Fail
  <2>. QED  BY <2>1, <2>2
<1>2. slips[u] \subseteq slips'[u]
  <2>1. \/ slips' = slips
        \/ \E v \in Signers : \E what, when : Slip(v, what, when)
    BY DEF Next, vars, Tap, Answer, SignUp, confirmEmailPassword, Type, ConfirmNames, ShowSheet,
           didSelectRow, Incomplete, nextPage, Back, Dismiss, UserCreated, UserRefused,
           NamesRejected, NamesAccepted, TokenFetched, NamesDropped, PicturesFetched,
           BatchCommitted, BatchRefused, Relaunch, changeCourse, CourseChanged, CourseRefused
  <2>. QED  BY <2>1, SlipsGrow DEF TypeInv
<1>3. changes \in Nat /\ (changes' = changes \/ changes' = changes + 1)
  <2>1. changes \in Nat
    BY SignupAssumption DEF TypeInv, Types
  <2>. QED  BY <2>1 DEF Next, vars, Tap, Answer, SignUp, confirmEmailPassword, Type,
           ConfirmNames, ShowSheet, didSelectRow, Incomplete, nextPage, Back, Dismiss,
           UserCreated, UserRefused, NamesRejected, NamesAccepted, TokenFetched, NamesDropped,
           PicturesFetched, BatchCommitted, BatchRefused, Relaunch, changeCourse, CourseChanged,
           CourseRefused
<1>. QED  BY <1>1, <1>2, <1>3

LEMMA SmoothBefore ==
  ASSUME TypeInv, [Next]_vars, NEW u \in Signers, Smooth(u)'
  PROVE  Smooth(u) /\ failures' = failures
BY HistoryGrows DEF Smooth

LEMMA OverlayElsewhere ==
  ASSUME TypeInv, [Next]_vars, NEW u \in Signers, Stacked(u), Overlaid(u), Untouched(u)
  PROVE  Stacked(u)' /\ Overlaid(u)'
<1>1. Shown(u)' = Shown(u)
  BY DEF Shown, OnPage, Untouched
<1>2. Working(u) => Working(u)'
  <2>1. CallsOf(u)' = CallsOf(u) /\ outbox'[u] = outbox[u]
    BY DEF Untouched
  <2>2. Working(u)' <=> \/ \E c \in CallsOf(u)' : c.kind # "createUser"
                        \/ \E i \in DOMAIN outbox'[u] : outbox'[u][i].handler # NoHandler
    BY DEF Working, Confirming, CallsOf
  <2>. QED  BY <2>1, <2>2, WorkingIs
<1>3. Stacked(u)'
  BY DEF Stacked, OnPage, Untouched
<1>4. Overlaid(u)'
  BY <1>1, <1>2, SmoothBefore DEF Overlaid, Untouched
<1>. QED  BY <1>3, <1>4

\* What the user does not see is never covered.
LEMMA Uncovered ==
  ASSUME Types, NEW u \in Signers, Overlaid(u), Smooth(u)
  PROVE  /\ ~ Covered(u) => overlays[u] = {}
         /\ over[u].kind = "sheet" /\ over[u].choice = 0 => overlays[u] = {}
         /\ removeSpinner(u) => overlays'[u] = {}
         /\ Uncover(u) => overlays'[u] = {}
<1>1. \A o \in overlays[u] : o = vSpinner[u] /\ o.on = Shown(u)
  BY DEF Overlaid
<1>2. overlays \in [Signers -> SUBSET Overlays]
  BY DEF Types
<1>3. ~ Covered(u) => overlays[u] = {}
  BY <1>1 DEF Covered
<1>4. ASSUME over[u].kind = "sheet", over[u].choice = 0 PROVE overlays[u] = {}
  <2>. SUFFICES ASSUME NEW o \in overlays[u] PROVE FALSE
    OBVIOUS
  <2>1. o.on = SheetView(0)
    BY <1>1, <1>4 DEF Shown
  <2>2. o.on \in Views
    BY <1>2 DEF Overlays
  <2>3. SheetView(0).view = "sheet" /\ SheetView(0).id = 0
    BY DEF SheetView
  <2>. QED  BY <2>1, <2>2, <2>3 DEF Views
<1>5. removeSpinner(u) => overlays'[u] = {}
  BY <1>1, <1>2 DEF removeSpinner
<1>6. Uncover(u) => overlays'[u] = {}
  BY <1>1, <1>2 DEF Uncover
<1>. QED  BY <1>3, <1>4, <1>5, <1>6

LEMMA BareOverlaid ==
  ASSUME NEW u \in Signers, overlays'[u] = {}
  PROVE  Overlaid(u)'
  BY DEF Overlaid

\* A first overlay, with its request.
LEMMA FirstOverlay ==
  ASSUME Types, NEW u \in Signers, NEW o, overlays[u] = {}, showSpinner(u, o),
         o.on = Shown(u)', screen'[u] = "names", Working(u)'
  PROVE  Overlaid(u)'
<1>1. overlays'[u] = {o} /\ vSpinner'[u] = o
  BY DEF Types, showSpinner
<1>. QED  BY <1>1 DEF Overlaid

\* An overlay stays where it was.
LEMMA SameOverlay ==
  ASSUME NEW u \in Signers, Overlaid(u), Smooth(u),
         overlays'[u] = overlays[u], vSpinner'[u] = vSpinner[u], Shown(u)' = Shown(u),
         screen[u] = "names" => screen'[u] = "names", Working(u) => Working(u)'
  PROVE  Overlaid(u)'
  BY DEF Overlaid

LEMMA EnqueuedWorks ==
  ASSUME Queues, NEW u \in Clients, NEW b \in SafeBatches, Enqueue(u, b)
  PROVE  /\ Working(u) /\ CallsOf(u) \subseteq CallsOf(u)' => Working(u)'
         /\ b.handler # NoHandler => Working(u)'
<1>1. outbox'[u] = Append(outbox[u], b) /\ outbox[u] \in Seq(SafeBatches)
  BY DEF Queues, Enqueue
<1>2. /\ Len(outbox[u]) + 1 \in DOMAIN outbox'[u]
      /\ outbox'[u][Len(outbox[u]) + 1] = b
      /\ \A i \in DOMAIN outbox[u] : i \in DOMAIN outbox'[u] /\ outbox'[u][i] = outbox[u][i]
  BY <1>1, LenProperties
<1>3. Working(u)' <=> \/ \E c \in CallsOf(u)' : c.kind # "createUser"
                      \/ \E i \in DOMAIN outbox'[u] : outbox'[u][i].handler # NoHandler
  BY DEF Working, Confirming, CallsOf
<1>. QED  BY <1>2, <1>3, WorkingIs

LEMMA HandlersThere ==
  ASSUME NEW by, NEW n, NEW on
  PROVE  [by |-> by, n |-> n, on |-> on] # NoHandler
<1>1. DOMAIN [by |-> by, n |-> n, on |-> on] = {"by", "n", "on"}
  OBVIOUS
<1>2. DOMAIN NoHandler = {}
  BY EmptySeq, LenProperties DEF NoHandler
<1>. QED  BY <1>1, <1>2

LEMMA TapOverlays ==
  ASSUME TypeInv, [Next]_vars, NEW u \in Signers, Stacked(u), Overlaid(u), Tap(u)
  PROVE  Stacked(u)' /\ Overlaid(u)'
<1>0. u \in Clients /\ Types /\ Queues
  BY DEF Clients, TypeInv
<1>1. SUFFICES Stacked(u)' /\ (Smooth(u)' => Overlaid(u)')
  BY DEF Overlaid, Smooth
<1>2. Smooth(u)' => Smooth(u)
  BY SmoothBefore
<1>3. CASE SignUp(u)
  <2>1. screen[u] = "start" /\ screen'[u] = "email" /\ UNCHANGED <<over, pages, overlays>>
    BY <1>3 DEF SignUp, TypeInv, Types
  <2>2. Stacked(u)'
    BY <2>1 DEF Stacked, OnPage
  <2>3. Smooth(u) => overlays[u] = {}
    BY <2>1 DEF Overlaid
  <2>. QED  BY <1>2, <2>1, <2>2, <2>3, BareOverlaid
<1>4. CASE confirmEmailPassword(u)
  <2>1. UNCHANGED <<over, pages, overlays, vSpinner, screen, outbox>> /\ calls \subseteq calls'
    BY <1>4 DEF confirmEmailPassword
  <2>2. Working(u) => Working(u)'
    BY <2>1 DEF Working, Confirming
  <2>. QED  BY <1>2, <2>1, <2>2, SameOverlay DEF Stacked, OnPage, Shown
<1>5. CASE Type(u)
  BY <1>2, <1>5, SameOverlay DEF Type, Stacked, OnPage, Shown, Working, Confirming
<1>6. CASE ConfirmNames(u)
  <2>. DEFINE n == count[u].confirms + 1
              o == [by |-> "confirm", n |-> n, on |-> NamesView]
  <2>1. /\ UNCHANGED <<over, pages, screen, outbox>> /\ showSpinner(u, o)
        /\ OnNames(u) /\ over[u] = Nothing
        /\ [kind |-> "query", user |-> u, n |-> n, name |-> typed[u]] \in calls'
        /\ Slip(u, "again", Confirming(u) \/ Covered(u))
    BY <1>6 DEF ConfirmNames
  <2>2. Stacked(u)'
    BY <2>1 DEF Stacked, OnPage
  <2>3. ASSUME Smooth(u)' PROVE overlays[u] = {}
    <3>1. ~ Covered(u)
      BY <1>0, <2>1, <2>3 DEF Smooth, Slip, Types
    <3>. QED  BY <1>0, <1>2, <2>3, <3>1, Uncovered
  <2>4. Shown(u)' = NamesView /\ screen'[u] = "names"
    BY <2>1 DEF Shown, OnNames, OnPage, Nothing
  <2>5. Working(u)'
    BY <2>1 DEF Working, Confirming
  <2>6. o.on = NamesView
    OBVIOUS
  <2>. HIDE DEF o
  <2>. QED  BY <1>0, <2>1, <2>2, <2>3, <2>4, <2>5, <2>6, FirstOverlay
<1>7. ASSUME NEW field \in Fields, ShowSheet(u, field)
      PROVE  Stacked(u)' /\ (Smooth(u)' => Overlaid(u)')
  <2>1. OnPage(u) /\ ~ Covered(u) /\ UNCHANGED <<pages, screen, overlays>>
    BY <1>7 DEF ShowSheet
  <2>2. Stacked(u)'
    BY <2>1 DEF Stacked, OnPage
  <2>. QED  BY <1>0, <1>2, <2>1, <2>2, Uncovered, BareOverlaid
<1>8. CASE didSelectRow(u)
  <2>. DEFINE n == count[u].choices + 1
              field == over[u].field
              o == [by |-> "choice", n |-> n, on |-> SheetView(n)]
  <2>1. /\ over[u].kind = "sheet" /\ over[u].choice = 0 /\ MayWrite(u)
        /\ over' = [over EXCEPT ![u].choice = n]
        /\ showSpinner(u, o) /\ UNCHANGED screen
    BY <1>8 DEF didSelectRow
  <2>2. PICK x \in Options(field) :
          /\ Enqueue(u, Choice(u, field, x, n))
          /\ pages' = [pages EXCEPT ![u] = Chosen(u, field, x, over[u].page)]
    BY <1>8 DEF didSelectRow, Chosen
  <2>3. over'[u].kind = "sheet" /\ over'[u].choice = n
    <3>1. over'[u] = [over[u] EXCEPT !.choice = n]
      BY <1>0, <2>1 DEF Types
    <3>2. over[u] \in [kind : {"sheet"}, field : Fields, choice : 0..MaxWrites, page : 1..MaxConfirms]
      BY <1>0, <2>1 DEF Types, Presented, Nothing, Alert
    <3>. QED  BY <3>1, <3>2
  <2>4. OnPage(u)' /\ screen'[u] = "names"
    <3>1. OnPage(u) /\ screen[u] = "names"
      BY <2>1 DEF Stacked
    <3>2. DOMAIN Chosen(u, field, x, over[u].page) = DOMAIN pages[u]
      BY DEF Chosen
    <3>3. pages[u] \in Seq(Pages) /\ pages[u] # <<>>
      BY <1>0, <3>1 DEF Types, OnPage
    <3>4. 1 \in DOMAIN pages[u]
      BY <3>3, LenProperties, EmptySeq
    <3>5. DOMAIN << >> = {}
      BY EmptySeq, LenProperties
    <3>6. pages'[u] # <<>>
      BY <1>0, <2>2, <3>2, <3>4, <3>5 DEF Types
    <3>. QED  BY <2>1, <3>1, <3>6 DEF OnPage
  <2>5. Stacked(u)'
    BY <2>4 DEF Stacked
  <2>6. Smooth(u)' => overlays[u] = {}
    BY <1>0, <1>2, <2>1, Uncovered
  <2>7. Working(u)'
    <3>1. n \in 1..MaxWrites
      <4>1. count[u] \in Counts
        BY <1>0 DEF Types, Counts
      <4>. QED  BY <2>1, <4>1, SignupAssumption DEF MayWrite, Counts
    <3>2. field \in Fields
      BY <1>0, <2>1, SheetShape
    <3>3. Choice(u, field, x, n) \in SafeBatches
      BY <3>1, <3>2, ChoiceBatch
    <3>4. Choice(u, field, x, n).handler = o
      BY DEF Choice
    <3>5. o # NoHandler
      BY HandlersThere
    <3>. HIDE DEF o
    <3>. QED  BY <1>0, <2>2, <3>3, <3>4, <3>5, EnqueuedWorks
  <2>8. o.on = Shown(u)'
    BY <2>3 DEF Shown
  <2>. HIDE DEF o
  <2>. QED  BY <1>0, <2>1, <2>4, <2>5, <2>6, <2>7, <2>8, FirstOverlay
<1>9. CASE Incomplete(u)
  <2>1. OnPage(u) /\ ~ Covered(u) /\ UNCHANGED <<pages, screen, overlays>>
    BY <1>9 DEF Incomplete
  <2>2. Stacked(u)'
    BY <2>1 DEF Stacked, OnPage
  <2>. QED  BY <1>0, <1>2, <2>1, <2>2, Uncovered, BareOverlaid
<1>10. CASE nextPage(u)
  <2>. DEFINE n == count[u].listings + 1
              page == Last(pages[u])
              o == [by |-> "listing", n |-> n, on |-> PageView(page.id)]
              b == [puts |-> Entries(u, page), dels |-> {}, handler |-> o]
  <2>1. /\ OnPage(u) /\ over[u] = Nothing /\ ~ Covered(u) /\ MayWrite(u)
        /\ None \notin {page.University, page.Course}
        /\ UNCHANGED <<pages, screen, over>> /\ showSpinner(u, o) /\ Enqueue(u, b)
    BY <1>10 DEF nextPage
  <2>2. Stacked(u)' /\ screen'[u] = "names"
    BY <2>1 DEF Stacked, OnPage
  <2>3. Smooth(u)' => overlays[u] = {}
    BY <1>0, <1>2, <2>1, Uncovered
  <2>4. Shown(u)' = PageView(page.id)
    BY <2>1 DEF Shown, OnPage, Nothing
  <2>5. Working(u)'
    <3>1. n \in 1..MaxWrites
      <4>1. count[u] \in Counts
        BY <1>0 DEF Types, Counts
      <4>. QED  BY <2>1, <4>1, SignupAssumption DEF MayWrite, Counts
    <3>2. page \in Pages
      BY <1>0, <2>1, TopPage
    <3>3. b \in SafeBatches
      BY <2>1, <3>1, <3>2, ListingBatch
    <3>4. b.handler = o
      OBVIOUS
    <3>5. o # NoHandler
      BY HandlersThere
    <3>. HIDE DEF o, b
    <3>. QED  BY <1>0, <2>1, <3>3, <3>4, <3>5, EnqueuedWorks
  <2>6. o.on = PageView(page.id)
    OBVIOUS
  <2>. HIDE DEF o
  <2>. QED  BY <1>0, <2>1, <2>2, <2>3, <2>4, <2>5, <2>6, FirstOverlay
<1>11. CASE Back(u)
  <2>1. over[u] = Nothing /\ Uncover(u) /\ UNCHANGED over
    BY <1>11 DEF Back
  <2>2. Stacked(u)'
    BY <1>0, <1>11, <2>1 DEF Back, Stacked, OnPage, Nothing, Types
  <2>. QED  BY <1>0, <1>2, <2>1, <2>2, Uncovered, BareOverlaid
<1>12. CASE Dismiss(u)
  <2>1. over'[u] = Nothing /\ UNCHANGED <<pages, screen, vSpinner, calls, outbox>>
    BY <1>0, <1>12 DEF Dismiss, Types
  <2>2. Stacked(u)'
    BY <2>1 DEF Stacked, OnPage, Nothing
  <2>3. CASE over[u] = Alert
    <3>1. Shown(u)' = Shown(u) /\ UNCHANGED overlays
      BY <1>12, <2>1, <2>3 DEF Dismiss, Shown, OnPage, Nothing, Alert
    <3>2. Working(u) => Working(u)'
      BY <2>1 DEF Working, Confirming
    <3>. QED  BY <1>2, <2>1, <2>2, <3>1, <3>2, SameOverlay
  <2>4. CASE over[u] # Alert
    <3>1. Uncover(u)
      BY <1>12, <2>4 DEF Dismiss
    <3>. QED  BY <1>0, <1>2, <2>2, <3>1, Uncovered, BareOverlaid
  <2>. QED  BY <2>3, <2>4
<1>. QED  BY <1>3, <1>4, <1>5, <1>6, <1>7, <1>8, <1>9, <1>10, <1>11, <1>12 DEF Tap

LEMMA AnswerOverlays ==
  ASSUME TypeInv, [Next]_vars, NEW c \in calls, NEW u \in Signers, u = c.user,
         Stacked(u), Overlaid(u), Answer(c)
  PROVE  Stacked(u)' /\ Overlaid(u)'
<1>0. u \in Clients /\ Types /\ Queues /\ c \in Requests
  BY DEF Clients, TypeInv, Types
<1>1. SUFFICES Stacked(u)' /\ (Smooth(u)' => Overlaid(u)')
  BY DEF Overlaid, Smooth
<1>2. /\ Smooth(u)' => Smooth(u)
      /\ Smooth(u)' => failures' = failures
  BY SmoothBefore
<1>3. CASE UserCreated(c)
  <2>1. /\ UNCHANGED <<over, pages, overlays, vSpinner, outbox>>
        /\ screen[u] = "names" => screen'[u] = "names"
        /\ OnPage(u) => screen'[u] = "names"
        /\ calls' = calls \ {c} /\ c.kind = "createUser"
    BY <1>0, <1>3 DEF UserCreated, Types, Stacked
  <2>2. Working(u) => Working(u)'
    BY <2>1 DEF Working, Confirming
  <2>. QED  BY <1>2, <2>1, <2>2, SameOverlay DEF Stacked, OnPage, Shown
<1>4. CASE UserRefused(c) \/ NamesDropped(c)
  <2>1. Fail /\ UNCHANGED <<over, pages, screen>>
    BY <1>4 DEF UserRefused, NamesDropped
  <2>2. failures' # failures
    BY <1>0, <2>1, SignupAssumption DEF Fail, Types
  <2>. QED  BY <1>2, <2>1, <2>2 DEF Stacked, OnPage
<1>5. CASE NamesRejected(c)
  <2>1. removeSpinner(u) /\ UNCHANGED <<pages, screen>> /\ Alerted(u, NamesView)
    BY <1>5 DEF NamesRejected
  <2>2. Stacked(u)'
    BY <1>0, <2>1, AlertShown DEF Stacked, OnPage
  <2>. QED  BY <1>0, <1>2, <2>1, <2>2, Uncovered, BareOverlaid
<1>6. CASE NamesAccepted(c)
  <2>1. /\ UNCHANGED <<over, pages, overlays, vSpinner, outbox, screen>>
        /\ [c EXCEPT !.kind = "token"] \in calls' /\ c.kind = "query"
    BY <1>6 DEF NamesAccepted
  <2>2. [c EXCEPT !.kind = "token"].user = u /\ [c EXCEPT !.kind = "token"].kind = "token"
    BY <1>0, <2>1, RequestShapes
  <2>3. Working(u)'
    BY <2>1, <2>2 DEF Working, Confirming
  <2>. QED  BY <1>2, <2>1, <2>3, SameOverlay DEF Stacked, OnPage, Shown
<1>7. CASE TokenFetched(c)
  <2>. DEFINE d == [c EXCEPT !.kind = "pictures", !.name = typed[c.user]]
  <2>1. /\ UNCHANGED <<over, pages, overlays, vSpinner, outbox, screen>>
        /\ d \in calls' /\ c.kind = "token"
    BY <1>7 DEF TokenFetched
  <2>2. d.user = u /\ d.kind = "pictures"
    BY <1>0, <2>1, RequestShapes
  <2>3. Working(u)'
    BY <2>1, <2>2 DEF Working, Confirming
  <2>. QED  BY <1>2, <2>1, <2>3, SameOverlay DEF Stacked, OnPage, Shown
<1>8. CASE PicturesFetched(c)
  <2>. DEFINE b == [puts |-> {Username(u, m) : m \in {c.name} \cap Names},
                    dels |-> {Username(u, m) : m \in Names \ {c.name}},
                    handler |-> [by |-> "confirm", n |-> c.n, on |-> NamesView]]
  <2>1. UNCHANGED <<over, pages, overlays, vSpinner, screen>> /\ Enqueue(u, b) /\ c.kind = "pictures"
    BY <1>8 DEF PicturesFetched
  <2>2. b \in SafeBatches
    BY <1>0, <2>1, RequestShapes, NamesBatch
  <2>3. b.handler # NoHandler
    BY HandlersThere
  <2>. HIDE DEF b
  <2>4. Working(u)'
    BY <1>0, <2>1, <2>2, <2>3, EnqueuedWorks
  <2>. QED  BY <1>2, <2>1, <2>4, SameOverlay DEF Stacked, OnPage, Shown
<1>. QED  BY <1>3, <1>4, <1>5, <1>6, <1>7, <1>8 DEF Answer

LEMMA BatchOverlays ==
  ASSUME TypeInv, [Next]_vars, NEW u \in Signers, Stacked(u), Overlaid(u),
         BatchCommitted(u) \/ BatchRefused(u) \/ Relaunch(u)
  PROVE  Stacked(u)' /\ Overlaid(u)'
<1>0. u \in Clients /\ Types /\ Queues
  BY DEF Clients, TypeInv
<1>1. SUFFICES Stacked(u)' /\ (Smooth(u)' => Overlaid(u)')
  BY DEF Overlaid, Smooth
<1>2. /\ Smooth(u)' => Smooth(u)
      /\ Smooth(u)' => failures' = failures
  BY SmoothBefore
<1>3. CASE BatchCommitted(u)
  <2>. DEFINE h == Head(outbox[u]).handler
  <2>1. CASE h = NoHandler /\ UNCHANGED <<screen, pages, over, overlays, vSpinner>>
    <3>1. outbox[u] # <<>> /\ outbox'[u] = Tail(outbox[u]) /\ outbox[u] \in Seq(SafeBatches)
          /\ UNCHANGED calls
      BY <1>0, <1>3 DEF BatchCommitted, Commit, Queues
    <3>2. ASSUME NEW i \in DOMAIN outbox[u], outbox[u][i].handler # NoHandler
          PROVE  i - 1 \in DOMAIN outbox'[u] /\ outbox'[u][i - 1] = outbox[u][i]
      <4>1. i # 1
        BY <2>1, <3>1, <3>2
      <4>. QED  BY <3>1, <4>1, LenProperties, HeadTailProperties
    <3>3. Working(u) => Working(u)'
      BY <3>1, <3>2 DEF Working, Confirming
    <3>. QED  BY <1>2, <2>1, <3>3, SameOverlay DEF Stacked, OnPage, Shown
  <2>2. CASE NamesStored(u, h.n)
    <3>1. removeSpinner(u)
      BY <2>2 DEF NamesStored
    <3>2. /\ screen' = screen /\ over' = over
          /\ OnPage(u) => OnPage(u)'
          /\ OnPage(u)' => screen[u] = "names"
      <4>1. pages[u] \in Seq(Pages) /\ pages \in [Signers -> Seq(Pages)]
        BY <1>0 DEF Types
      <4>2. \A p : Append(pages[u], p) # <<>>
        BY <4>1
      <4>3. screen' = screen /\ over' = over
        BY <2>2 DEF NamesStored
      <4>4. CASE screen[u] = "names"
        <5>1. \E p : pages' = [pages EXCEPT ![u] = Append(@, p)]
          BY <2>2, <4>4 DEF NamesStored
        <5>2. pages'[u] # <<>>
          BY <4>1, <4>2, <5>1
        <5>. QED  BY <4>3, <4>4, <5>2 DEF OnPage
      <4>5. CASE screen[u] # "names"
        <5>1. pages' = pages
          BY <2>2, <4>5 DEF NamesStored
        <5>. QED  BY <4>3, <5>1 DEF OnPage, Stacked
      <4>. QED  BY <4>4, <4>5
    <3>3. Stacked(u)'
      BY <3>2 DEF Stacked, OnPage
    <3>. QED  BY <1>0, <1>2, <3>1, <3>3, Uncovered, BareOverlaid
  <2>3. CASE ChoiceStored(u, h.n)
    <3>1. removeSpinner(u)
      BY <2>3 DEF ChoiceStored
    <3>2. Stacked(u)'
      BY <1>0, <2>3 DEF ChoiceStored, Stacked, OnPage, Types, Nothing
    <3>. QED  BY <1>0, <1>2, <3>1, <3>2, Uncovered, BareOverlaid
  <2>4. CASE Listed(u, h.on)
    <3>1. removeSpinner(u)
      BY <2>4 DEF Listed
    <3>2. Stacked(u)'
      BY <1>0, <2>4 DEF Listed, Stacked, OnPage, Types, Nothing
    <3>. QED  BY <1>0, <1>2, <3>1, <3>2, Uncovered, BareOverlaid
  <2>. QED  BY <1>3, <2>1, <2>2, <2>3, <2>4 DEF BatchCommitted
<1>4. CASE BatchRefused(u)
  <2>1. Fail /\ UNCHANGED <<pages, screen>> /\ (UNCHANGED over \/ \E view : Alerted(u, view))
    BY <1>4 DEF BatchRefused
  <2>2. failures' # failures
    BY <1>0, <2>1, SignupAssumption DEF Fail, Types
  <2>3. Stacked(u)'
    BY <1>0, <2>1, AlertShown DEF Stacked, OnPage
  <2>. QED  BY <1>2, <2>2, <2>3
<1>5. CASE Relaunch(u)
  <2>1. pages'[u] = <<>> /\ over'[u] = Nothing /\ overlays'[u] = {}
    BY <1>0, <1>5 DEF Relaunch, Types
  <2>. QED  BY <2>1, BareOverlaid DEF Stacked, OnPage, Nothing
<1>. QED  BY <1>3, <1>4, <1>5

\* A step is one of a device, or of the developers.
LEMMA StepCases ==
  ASSUME [Next]_vars, TypeInv
  PROVE  \/ \E u \in Signers : Tap(u) \/ BatchCommitted(u) \/ BatchRefused(u) \/ Relaunch(u)
         \/ \E c \in calls : c.user \in Signers /\ Answer(c)
         \/ (\E u \in Signers : changeCourse(u)) \/ CourseChanged \/ CourseRefused
         \/ UNCHANGED vars
  BY RequestShapes DEF Next, TypeInv, Types

LEMMA NextOverlays ==
  ASSUME TypeInv, OverlayInv, [Next]_vars
  PROVE  OverlayInv'
<1>. SUFFICES ASSUME NEW v \in Signers
     PROVE  Stacked(v)' /\ Overlaid(v)'
  BY DEF OverlayInv
<1>0. Stacked(v) /\ Overlaid(v)
  BY DEF OverlayInv
<1>1. CASE Untouched(v)
  BY <1>0, <1>1, OverlayElsewhere
<1>2. ASSUME NEW u \in Signers,
             Tap(u) \/ BatchCommitted(u) \/ BatchRefused(u) \/ Relaunch(u)
      PROVE  Stacked(v)' /\ Overlaid(v)'
  <2>1. CASE v = u
    BY <1>0, <1>2, <2>1, TapOverlays, BatchOverlays
  <2>2. CASE v # u
    BY <1>1, <1>2, <2>2, TapElsewhere, BatchElsewhere
  <2>. QED  BY <2>1, <2>2
<1>3. ASSUME NEW c \in calls, Answer(c)
      PROVE  Stacked(v)' /\ Overlaid(v)'
  <2>1. CASE v = c.user
    BY <1>0, <1>3, <2>1, AnswerOverlays
  <2>2. CASE v # c.user
    BY <1>1, <1>3, <2>2, AnswerElsewhere
  <2>. QED  BY <2>1, <2>2
<1>4. CASE (\E u \in Signers : changeCourse(u)) \/ CourseChanged \/ CourseRefused
  BY <1>1, <1>4, CourseElsewhere
<1>5. CASE UNCHANGED vars
  BY <1>1, <1>5 DEF vars, Untouched, CallsOf
<1>. QED  BY <1>2, <1>3, <1>4, <1>5, StepCases

\* When every request of a sign-up has been answered no screen is left under an
\* overlay (EditProfilePage.swift:818), whatever page it was shown by and
\* whatever answer took it off, unless a request failed or the names were
\* confirmed under an overlay.
THEOREM OverlaysTakenOff == Spec => []OverlaysEnd
<1>1. Init => OverlayInv
  BY DEF Init, OverlayInv, Stacked, Overlaid, OnPage, Nothing
<1>2. Inv /\ OverlayInv /\ [Next]_vars => OverlayInv'
  BY NextOverlays DEF Inv
<1>3. OverlayInv /\ Inv => OverlaysEnd
  <2>. SUFFICES ASSUME OverlayInv, Inv, NEW u \in Signers, ~ Busy(u), Covered(u), ~ Smooth(u) => FALSE
       PROVE  FALSE
    BY SignupAssumption DEF OverlaysEnd, Smooth, Inv, TypeInv, Types
  <2>1. Working(u)
    BY DEF OverlayInv, Overlaid, Covered
  <2>. QED  BY <2>1 DEF Working, Busy, Confirming
<1>. QED  BY <1>1, <1>2, <1>3, InvHolds, PTL DEF Spec

------------------------------------------------------------------------------
(* Memberships of those who are listed *)

\* The memberships that nobody takes away.
Lasting(d) ==
  \E u \in Users :
    \/ \E x \in Universities : d = Member("University", x, u)
    \/ \E c \in Courses \ {Pending} : d = Member("Course", c, u)

Keeps(b) == \A d \in b.dels : ~ Lasting(d)

\* What the first k batches of q put.
Puts(q, k) == {d \in Documents : \E j \in DOMAIN q : j <= k /\ d \in q[j].puts}

\* Of everyone listed in S the memberships are in T; of a university typed by
\* hand only if it is listed in the total.
ListedIn(S, T, hand) ==
  \A u \in Users, x \in Universities, c \in Courses \cup {Total} :
    Listing(x, c, u) \in S =>
      /\ c = Total \/ ~ hand => Member("University", x, u) \in T
      /\ c \in {Pending, Total} \/ Member("Course", c, u) \in T

\* The developers may have typed a university that is not the user's.
ByHand == changes # 0

\* The memberships of what page p of u shows are in T.
PageListed(u, p, T) ==
  /\ p.University # None => Member("University", p.University, u) \in T
  /\ p.Course \notin {None, Pending} => Member("Course", p.Course, u) \in T

KeptQueues == \A s \in Clients : \A i \in DOMAIN outbox[s] : Keeps(outbox[s][i])

\* A listing comes after the memberships, on the server as in a queue.
ListedQueues ==
  \A s \in Clients : \A i \in DOMAIN outbox[s] :
    ListedIn(outbox[s][i].puts, docs \cup Puts(outbox[s], i), ByHand)

ListedPages ==
  \A u \in Signers : \A i \in DOMAIN pages[u] :
    PageListed(u, pages[u][i], docs \cup Puts(outbox[u], Len(outbox[u])))

MemberInv ==
  /\ KeptQueues
  /\ failures = 0 => ListedIn(docs, docs, ByHand) /\ ListedQueues /\ ListedPages

LEMMA ListedGrows ==
  ASSUME NEW S, NEW R, NEW T, NEW U, NEW before \in BOOLEAN, NEW hand \in BOOLEAN,
         ListedIn(S, T, before), R \subseteq S, before => hand,
         \A d : Lasting(d) /\ d \in T => d \in U
  PROVE  ListedIn(R, U, hand)
<1>. SUFFICES ASSUME NEW u \in Users, NEW x \in Universities, NEW c \in Courses \cup {Total},
                     Listing(x, c, u) \in R
     PROVE  /\ c = Total \/ ~ hand => Member("University", x, u) \in U
            /\ c \in {Pending, Total} \/ Member("Course", c, u) \in U
  BY DEF ListedIn
<1>1. /\ c = Total \/ ~ hand => Member("University", x, u) \in T
      /\ c \in {Pending, Total} \/ Member("Course", c, u) \in T
  BY DEF ListedIn
<1>2. Lasting(Member("University", x, u))
  BY DEF Lasting
<1>3. c \in {Pending, Total} \/ Lasting(Member("Course", c, u))
  BY DEF Lasting
<1>. QED  BY <1>1, <1>2, <1>3

LEMMA PageGrows ==
  ASSUME NEW u \in Users, NEW p \in Pages, NEW T, NEW U, PageListed(u, p, T),
         \A d : Lasting(d) /\ d \in T => d \in U
  PROVE  PageListed(u, p, U)
<1>1. p.University # None => Lasting(Member("University", p.University, u))
  BY DEF Pages, Lasting
<1>2. p.Course \notin {None, Pending} => Lasting(Member("Course", p.Course, u))
  BY DEF Pages, Lasting
<1>. QED  BY <1>1, <1>2 DEF PageListed

LEMMA EmptyPage ==
  ASSUME NEW u, NEW id, NEW T
  PROVE  PageListed(u, [id |-> id, University |-> None, Course |-> None], T)
  BY DEF PageListed

LEMMA KeepsOthers ==
  ASSUME NEW u \in Users
  PROVE  /\ \A n : ~ Lasting(Username(u, n))
         /\ \A f \in Fields : \A x : ~ Lasting(Profile(u, f, x))
         /\ ~ Lasting(Member("Course", Pending, u))
         /\ \A x, c : ~ Lasting(Listing(x, c, u))
<1>1. {"University", "Course"} = Fields
  BY DEF Fields
<1>2. \A n : ~ Lasting(Username(u, n))
  BY <1>1, Kinds DEF Lasting
<1>3. \A f \in Fields : \A x : ~ Lasting(Profile(u, f, x))
  BY <1>1, Kinds DEF Lasting
<1>4. ~ Lasting(Member("Course", Pending, u))
  BY DEF Lasting, Member
<1>5. \A x, c : ~ Lasting(Listing(x, c, u))
  BY DEF Lasting, Listing, Member
<1>. QED  BY <1>2, <1>3, <1>4, <1>5

\* Queues
LEMMA AppendPuts ==
  ASSUME NEW q \in Seq(SafeBatches), NEW b \in SafeBatches
  PROVE  LET r == Append(q, b) IN
         /\ DOMAIN r = DOMAIN q \cup {Len(q) + 1}
         /\ \A i \in DOMAIN q : r[i] = q[i] /\ Puts(r, i) = Puts(q, i)
         /\ r[Len(q) + 1] = b
         /\ Len(r) = Len(q) + 1
         /\ Puts(r, Len(r)) = Puts(q, Len(q)) \cup b.puts
<1>. DEFINE r == Append(q, b)
<1>1. /\ Len(q) \in Nat /\ DOMAIN q = 1..Len(q)
      /\ Len(r) = Len(q) + 1 /\ DOMAIN r = 1..(Len(q) + 1)
      /\ r[Len(q) + 1] = b
      /\ \A i \in DOMAIN q : r[i] = q[i]
  BY LenProperties
<1>2. b.puts \subseteq Documents
  BY DEF SafeBatches, Batches
<1>. HIDE DEF r
<1>3. \A i \in DOMAIN q : Puts(r, i) = Puts(q, i)
  BY <1>1 DEF Puts
<1>4. Puts(r, Len(r)) = Puts(q, Len(q)) \cup b.puts
  <2>1. ASSUME NEW d \in Documents
        PROVE  (\E j \in DOMAIN r : j <= Len(r) /\ d \in r[j].puts) <=>
               (\E j \in DOMAIN q : j <= Len(q) /\ d \in q[j].puts) \/ d \in b.puts
    BY <1>1
  <2>. QED  BY <1>2, <2>1 DEF Puts
<1>. QED  BY <1>1, <1>3, <1>4 DEF r

LEMMA TailPuts ==
  ASSUME NEW q \in Seq(SafeBatches), q # <<>>
  PROVE  LET r == Tail(q) IN
         /\ Len(r) = Len(q) - 1
         /\ \A i \in DOMAIN r : /\ i + 1 \in DOMAIN q
                                /\ r[i] = q[i + 1]
         /\ \A i \in 0..Len(r) : Puts(q, i + 1) \subseteq Head(q).puts \cup Puts(r, i)
         /\ Puts(q, 1) \subseteq Head(q).puts
<1>. DEFINE r == Tail(q)
<1>1. /\ Len(q) \in Nat \ {0} /\ DOMAIN q = 1..Len(q)
      /\ Len(r) = Len(q) - 1 /\ DOMAIN r = 1..(Len(q) - 1)
      /\ Head(q) = q[1]
      /\ \A i \in DOMAIN r : r[i] = q[i + 1]
  BY LenProperties, EmptySeq, HeadTailProperties
<1>. HIDE DEF r
<1>2. ASSUME NEW i \in 0..Len(r), NEW d \in Puts(q, i + 1)
      PROVE  d \in Head(q).puts \cup Puts(r, i)
  <2>1. PICK j \in DOMAIN q : j <= i + 1 /\ d \in q[j].puts
    BY <1>2 DEF Puts
  <2>2. CASE j = 1
    BY <1>1, <2>1, <2>2
  <2>3. CASE j # 1
    <3>1. j - 1 \in DOMAIN r /\ j - 1 <= i /\ d \in r[j - 1].puts
      BY <1>1, <1>2, <2>1, <2>3
    <3>. QED  BY <1>2, <3>1 DEF Puts
  <2>. QED  BY <2>2, <2>3
<1>3. Puts(q, 1) \subseteq Head(q).puts
  BY <1>1 DEF Puts
<1>. QED  BY <1>1, <1>2, <1>3 DEF r

\* A batch is queued, and pages may change with it.
LEMMA QueuedMembers ==
  ASSUME Inv, MemberInv, NEW s \in Clients, NEW b \in SafeBatches, Enqueue(s, b), Keeps(b),
         UNCHANGED <<docs, failures>>, ByHand => ByHand',
         failures = 0 => ListedIn(b.puts, docs \cup Puts(outbox[s], Len(outbox[s])) \cup b.puts,
                                  ByHand'),
         failures = 0 => \A u \in Signers : \A i \in DOMAIN pages'[u] :
           PageListed(u, pages'[u][i], docs \cup Puts(outbox'[u], Len(outbox'[u])))
  PROVE  MemberInv'
<1>. DEFINE q == outbox[s]
            r == Append(q, b)
<1>1. q \in Seq(SafeBatches) /\ \A t \in Clients : outbox'[t] = IF t = s THEN r ELSE outbox[t]
  BY DEF Inv, TypeInv, Queues, Enqueue
<1>2. /\ DOMAIN r = DOMAIN q \cup {Len(q) + 1}
      /\ \A i \in DOMAIN q : r[i] = q[i] /\ Puts(r, i) = Puts(q, i)
      /\ r[Len(q) + 1] = b
      /\ Len(r) = Len(q) + 1
      /\ Puts(r, Len(r)) = Puts(q, Len(q)) \cup b.puts
  BY <1>1, AppendPuts
<1>. HIDE DEF r
<1>3. KeptQueues'
  BY <1>1, <1>2 DEF KeptQueues, MemberInv
<1>5. failures = 0 => ListedIn(docs, docs, ByHand)'
  <2>1. ByHand \in BOOLEAN /\ ByHand' \in BOOLEAN
    BY DEF ByHand
  <2>2. failures = 0 => ListedIn(docs, docs, ByHand')
    BY <2>1, ListedGrows DEF MemberInv
  <2>. QED  BY <2>2
<1>4. ASSUME failures = 0 PROVE ListedQueues'
  <2>. SUFFICES ASSUME NEW t \in Clients, NEW i \in DOMAIN outbox'[t]
       PROVE  ListedIn(outbox'[t][i].puts, docs \cup Puts(outbox'[t], i), ByHand')
    BY DEF ListedQueues
  <2>1. \A j \in DOMAIN outbox[t] :
          ListedIn(outbox[t][j].puts, docs \cup Puts(outbox[t], j), ByHand')
    <3>. SUFFICES ASSUME NEW j \in DOMAIN outbox[t]
         PROVE  ListedIn(outbox[t][j].puts, docs \cup Puts(outbox[t], j), ByHand')
      OBVIOUS
    <3>1. ListedIn(outbox[t][j].puts, docs \cup Puts(outbox[t], j), ByHand)
      BY <1>4 DEF MemberInv, ListedQueues
    <3>2. ByHand \in BOOLEAN /\ ByHand' \in BOOLEAN
      BY DEF ByHand
    <3>. QED  BY <3>1, <3>2, ListedGrows
  <2>2. CASE t # s \/ i \in DOMAIN q
    BY <1>1, <1>2, <2>1, <2>2
  <2>3. CASE t = s /\ i = Len(q) + 1
    <3>1. outbox'[t][i] = b /\ Puts(outbox'[t], i) = Puts(q, Len(q)) \cup b.puts
      BY <1>1, <1>2, <2>3
    <3>. QED  BY <1>4, <3>1
  <2>. QED  BY <1>1, <1>2, <2>2, <2>3
<1>. QED  BY <1>3, <1>4, <1>5 DEF MemberInv, ListedPages

\* The queues stay as they are, and pages show nothing new.
LEMMA IdleMembers ==
  ASSUME Inv, MemberInv, UNCHANGED <<docs, outbox, changes>>, failures' = 0 => failures = 0,
         \A u \in Signers : \A i \in DOMAIN pages'[u] : \E j \in DOMAIN pages[u] :
           pages'[u][i] = pages[u][j]
  PROVE  MemberInv'
<1>1. KeptQueues' /\ (ListedQueues => ListedQueues')
  BY DEF KeptQueues, ListedQueues, MemberInv, ByHand
<1>2. ListedPages => ListedPages'
  BY DEF ListedPages
<1>. QED  BY <1>1, <1>2 DEF MemberInv, ByHand

LEMMA CommitMembers ==
  ASSUME Inv, MemberInv, NEW s \in Clients, Commit(s), UNCHANGED <<failures, changes>>,
         \A u \in Signers : \A i \in DOMAIN pages'[u] :
           \/ \E j \in DOMAIN pages[u] : pages'[u][i] = pages[u][j]
           \/ \E id : pages'[u][i] = [id |-> id, University |-> None, Course |-> None]
  PROVE  MemberInv'
<1>. DEFINE q == outbox[s]
            r == Tail(q)
            b == Head(q)
<1>1. /\ q \in Seq(SafeBatches) /\ q # <<>>
      /\ docs' = (docs \ b.dels) \cup b.puts
      /\ \A t \in Clients : outbox'[t] = IF t = s THEN r ELSE outbox[t]
  BY DEF Inv, TypeInv, Queues, Commit
<1>2. /\ Len(r) = Len(q) - 1
      /\ \A i \in DOMAIN r : i + 1 \in DOMAIN q /\ r[i] = q[i + 1]
      /\ \A i \in 0..Len(r) : Puts(q, i + 1) \subseteq b.puts \cup Puts(r, i)
      /\ Puts(q, 1) \subseteq b.puts
  BY <1>1, TailPuts
<1>3. /\ 1 \in DOMAIN q /\ b = q[1] /\ Len(q) \in Nat \ {0} /\ Len(r) \in Nat
      /\ DOMAIN r = 1..Len(r)
  BY <1>1, LenProperties, EmptySeq, HeadTailProperties
<1>. HIDE DEF b, r
<1>4. \A d : Lasting(d) /\ d \in docs => d \in docs'
  BY <1>1, <1>3 DEF MemberInv, KeptQueues, Keeps
<1>5. KeptQueues'
  BY <1>1, <1>2 DEF KeptQueues, MemberInv
<1>0. ByHand \in BOOLEAN /\ ByHand' = ByHand
  BY DEF ByHand
<1>6. ASSUME failures = 0 PROVE ListedIn(docs, docs, ByHand)'
  <2>1. ListedIn(docs, docs', ByHand)
    BY <1>0, <1>4, <1>6, ListedGrows DEF MemberInv
  <2>2. ListedIn(b.puts, docs \cup Puts(q, 1), ByHand)
    BY <1>3, <1>6 DEF MemberInv, ListedQueues
  <2>3. \A d : Lasting(d) /\ d \in docs \cup Puts(q, 1) => d \in docs'
    BY <1>1, <1>2, <1>4
  <2>4. ListedIn(b.puts, docs', ByHand)
    BY <1>0, <2>2, <2>3, ListedGrows
  <2>5. docs' \subseteq docs \cup b.puts
    BY <1>1
  <2>6. ListedIn(docs', docs', ByHand)
    BY <2>1, <2>4, <2>5 DEF ListedIn
  <2>. QED  BY <1>0, <2>6
<1>7. ASSUME failures = 0 PROVE ListedQueues'
  <2>. SUFFICES ASSUME NEW t \in Clients, NEW i \in DOMAIN outbox'[t]
       PROVE  ListedIn(outbox'[t][i].puts, docs' \cup Puts(outbox'[t], i), ByHand)
    BY <1>0 DEF ListedQueues
  <2>1. \A j \in DOMAIN outbox[t] :
          ListedIn(outbox[t][j].puts, docs \cup Puts(outbox[t], j), ByHand)
    BY <1>7 DEF MemberInv, ListedQueues
  <2>2. CASE t # s
    <3>1. outbox'[t] = outbox[t]
      BY <1>1, <2>2
    <3>2. ListedIn(outbox[t][i].puts, docs \cup Puts(outbox[t], i), ByHand)
      BY <2>1, <3>1
    <3>3. \A d : Lasting(d) /\ d \in docs \cup Puts(outbox[t], i) => d \in docs' \cup Puts(outbox[t], i)
      BY <1>4
    <3>. QED  BY <3>1, <3>2, <3>3, <1>0, ListedGrows
  <2>3. CASE t = s
    <3>1. outbox'[t] = r /\ i \in DOMAIN r /\ i \in 0..Len(r)
      BY <1>1, <1>3, <2>3
    <3>2. ListedIn(r[i].puts, docs \cup Puts(q, i + 1), ByHand)
      BY <1>2, <2>1, <2>3, <3>1
    <3>3. \A d : Lasting(d) /\ d \in docs \cup Puts(q, i + 1) => d \in docs' \cup Puts(r, i)
      BY <1>1, <1>2, <1>4, <3>1
    <3>. QED  BY <3>1, <3>2, <3>3, <1>0, ListedGrows
  <2>. QED  BY <2>2, <2>3
<1>8. ASSUME failures = 0 PROVE ListedPages'
  <2>. SUFFICES ASSUME NEW u \in Signers, NEW i \in DOMAIN pages'[u]
       PROVE  PageListed(u, pages'[u][i], docs' \cup Puts(outbox'[u], Len(outbox'[u])))
    BY DEF ListedPages
  <2>1. CASE \E id : pages'[u][i] = [id |-> id, University |-> None, Course |-> None]
    BY <2>1, EmptyPage
  <2>2. ASSUME NEW j \in DOMAIN pages[u], pages'[u][i] = pages[u][j]
        PROVE  PageListed(u, pages'[u][i], docs' \cup Puts(outbox'[u], Len(outbox'[u])))
    <3>1. PageListed(u, pages[u][j], docs \cup Puts(outbox[u], Len(outbox[u])))
      BY <1>8 DEF MemberInv, ListedPages
    <3>2. u \in Users /\ u \in Clients /\ pages[u][j] \in Pages
      <4>1. pages[u] \in Seq(Pages)
        BY DEF Inv, TypeInv, Types
      <4>. QED  BY <4>1, LenProperties, ElementOfSeq, SignupAssumption DEF Clients
    <3>3. \A d : Lasting(d) /\ d \in docs \cup Puts(outbox[u], Len(outbox[u])) =>
                   d \in docs' \cup Puts(outbox'[u], Len(outbox'[u]))
      <4>1. CASE u = s
        <5>1. Len(r) \in 0..Len(r) /\ Len(r) + 1 = Len(q) /\ outbox'[u] = r
          BY <1>1, <1>2, <1>3, <3>2, <4>1
        <5>. QED  BY <1>1, <1>2, <1>4, <4>1, <5>1
      <4>2. CASE u # s
        BY <1>1, <1>4, <3>2, <4>2
      <4>. QED  BY <4>1, <4>2
    <3>. QED  BY <2>2, <3>1, <3>2, <3>3, PageGrows
  <2>. QED  BY <2>1, <2>2
<1>. QED  BY <1>5, <1>6, <1>7, <1>8 DEF MemberInv

\* A request fails: whoever is listed from here on may have chosen in vain.
LEMMA FailedMembers ==
  ASSUME Inv, MemberInv, failures' = failures + 1,
         \/ UNCHANGED outbox
         \/ \E s \in Clients : outbox[s] # <<>> /\ outbox' = [outbox EXCEPT ![s] = Tail(@)]
  PROVE  MemberInv'
<1>1. failures' # 0
  BY DEF Inv, TypeInv, Types
<1>2. CASE UNCHANGED outbox
  BY <1>1, <1>2 DEF MemberInv, KeptQueues
<1>3. ASSUME NEW s \in Clients, outbox[s] # <<>>, outbox' = [outbox EXCEPT ![s] = Tail(@)]
      PROVE  MemberInv'
  <2>1. /\ outbox[s] \in Seq(SafeBatches)
        /\ \A t \in Clients : outbox'[t] = IF t = s THEN Tail(outbox[s]) ELSE outbox[t]
    BY <1>3 DEF Inv, TypeInv, Queues
  <2>2. \A i \in DOMAIN Tail(outbox[s]) :
          i + 1 \in DOMAIN outbox[s] /\ Tail(outbox[s])[i] = outbox[s][i + 1]
    BY <1>3, <2>1, TailPuts
  <2>3. KeptQueues'
    BY <2>1, <2>2 DEF KeptQueues, MemberInv
  <2>. QED  BY <1>1, <2>3 DEF MemberInv
<1>. QED  BY <1>2, <1>3

\* A batch that has lost its handler still writes what it wrote.
LEMMA RelaunchMembers ==
  ASSUME Inv, MemberInv, NEW u \in Signers, Relaunch(u)
  PROVE  MemberInv'
<1>. DEFINE q == outbox[u]
            r == [i \in DOMAIN q |-> [q[i] EXCEPT !.handler = NoHandler]]
<1>1. /\ u \in Clients /\ q \in Seq(SafeBatches)
      /\ \A t \in Clients : outbox'[t] = IF t = u THEN r ELSE outbox[t]
      /\ \A v \in Signers : pages'[v] = IF v = u THEN <<>> ELSE pages[v]
      /\ UNCHANGED <<docs, failures, changes>>
  BY DEF Relaunch, Clients, Inv, TypeInv, Types, Queues
<1>2. \A i \in DOMAIN q : q[i] \in Batches
  BY <1>1, LenProperties, ElementOfSeq DEF SafeBatches
<1>3. /\ DOMAIN r = DOMAIN q
      /\ \A i \in DOMAIN q : r[i].puts = q[i].puts /\ r[i].dels = q[i].dels
  BY <1>2 DEF Batches
<1>4. /\ \A t \in Clients : DOMAIN outbox'[t] = DOMAIN outbox[t]
      /\ \A t \in Clients : \A i \in DOMAIN outbox[t] :
           outbox'[t][i].puts = outbox[t][i].puts /\ outbox'[t][i].dels = outbox[t][i].dels
  BY <1>1, <1>3
<1>5. \A t \in Clients : \A k : Puts(outbox'[t], k) = Puts(outbox[t], k)
  BY <1>4 DEF Puts
<1>6. KeptQueues'
  BY <1>4 DEF MemberInv, KeptQueues, Keeps
<1>7. ListedQueues => ListedQueues'
  BY <1>1, <1>4, <1>5, Zenon DEF ListedQueues, ByHand
<1>8. ListedPages => ListedPages'
  <2>. SUFFICES ASSUME ListedPages, NEW v \in Signers, NEW i \in DOMAIN pages'[v]
       PROVE  PageListed(v, pages'[v][i], docs \cup Puts(outbox'[v], Len(outbox'[v])))
    BY <1>1 DEF ListedPages
  <2>1. v # u
    BY <1>1, EmptySeq
  <2>. QED  BY <1>1, <2>1 DEF ListedPages, Clients
<1>. QED  BY <1>1, <1>6, <1>7, <1>8 DEF MemberInv, ByHand

\* The membership goes into the queue with the value that the page shows.
LEMMA didSelectRowMembers ==
  ASSUME Inv, MemberInv, NEW u \in Signers, didSelectRow(u)
  PROVE  MemberInv'
<1>. DEFINE n == count[u].choices + 1
            field == over[u].field
            id == over[u].page
            q == outbox[u]
<1>1. u \in Users /\ u \in Clients /\ field \in Fields
  BY SheetShape, SignupAssumption DEF didSelectRow, Inv, TypeInv, Clients
<1>2. n \in 1..MaxWrites
  <2>1. count[u] \in Counts
    BY DEF Inv, TypeInv, Types, Counts
  <2>. QED  BY <2>1, SignupAssumption DEF didSelectRow, MayWrite, Counts
<1>3. PICK x \in Options(field) : /\ Enqueue(u, Choice(u, field, x, n))
        /\ pages' = [pages EXCEPT ![u] = [i \in DOMAIN @ |->
             IF @[i].id = over[u].page THEN [@[i] EXCEPT ![field] = x] ELSE @[i]]]
  BY DEF didSelectRow
<1>. DEFINE b == Choice(u, field, x, n)
<1>4. b \in SafeBatches
  BY <1>1, <1>2, ChoiceBatch
<1>5. Keeps(b)
  BY <1>1, KeepsOthers DEF Keeps, Choice
<1>6. ASSUME NEW T PROVE ListedIn(b.puts, T, ByHand')
  <2>1. \A v \in Users : \A y, c : Listing(y, c, v) \notin b.puts
    BY <1>1, Kinds DEF Choice
  <2>. QED  BY <2>1 DEF ListedIn
<1>7. Member(field, x, u) \in b.puts
  BY DEF Choice
<1>8. /\ pages[u] \in Seq(Pages)
      /\ \A v \in Signers : pages'[v] = IF v = u THEN Chosen(u, field, x, id) ELSE pages[v]
      /\ q \in Seq(SafeBatches)
      /\ \A t \in Clients : outbox'[t] = IF t = u THEN Append(q, b) ELSE outbox[t]
  BY <1>1, <1>3 DEF Inv, TypeInv, Types, Queues, Enqueue, Chosen
<1>9. Puts(Append(q, b), Len(Append(q, b))) = Puts(q, Len(q)) \cup b.puts
  BY <1>4, <1>8, AppendPuts
<1>. HIDE DEF b
<1>10. ASSUME failures = 0, NEW v \in Signers, NEW i \in DOMAIN pages'[v]
       PROVE  PageListed(v, pages'[v][i], docs \cup Puts(outbox'[v], Len(outbox'[v])))
  <2>0. v \in Clients
    BY DEF Clients
  <2>1. \A j \in DOMAIN pages[v] :
          PageListed(v, pages[v][j], docs \cup Puts(outbox[v], Len(outbox[v])))
    BY <1>10 DEF MemberInv, ListedPages
  <2>2. CASE v # u
    BY <1>8, <2>0, <2>1, <2>2
  <2>3. CASE v = u
    <3>. DEFINE T == docs \cup Puts(q, Len(q))
                U == docs \cup Puts(outbox'[u], Len(outbox'[u]))
                p == pages[u][i]
    <3>1. T \subseteq U /\ Member(field, x, u) \in U
      BY <1>1, <1>7, <1>8, <1>9
    <3>2. /\ i \in DOMAIN pages[u] /\ p \in Pages
          /\ pages'[u][i] = IF p.id = id THEN [p EXCEPT ![field] = x] ELSE p
      BY <1>8, <1>10, <2>3, LenProperties, ElementOfSeq DEF Chosen
    <3>. HIDE DEF T, U, p
    <3>3. PageListed(u, p, T)
      BY <2>1, <2>3, <3>2 DEF T, p
    <3>4. PageListed(u, p, U)
      BY <1>1, <3>1, <3>2, <3>3, PageGrows
    <3>5. PageListed(u, [p EXCEPT ![field] = x], U)
      <4>1. CASE field = "University"
        <5>1. [p EXCEPT !.University = x] =
                [id |-> p.id, University |-> x, Course |-> p.Course]
          BY <3>2 DEF Pages
        <5>. QED  BY <3>1, <3>4, <4>1, <5>1 DEF PageListed
      <4>2. CASE field = "Course"
        <5>1. [p EXCEPT !.Course = x] =
                [id |-> p.id, University |-> p.University, Course |-> x]
          BY <3>2 DEF Pages
        <5>. QED  BY <3>1, <3>4, <4>2, <5>1 DEF PageListed
      <4>. QED  BY <1>1, <4>1, <4>2 DEF Fields
    <3>. QED  BY <2>3, <3>2, <3>4, <3>5 DEF U
  <2>. QED  BY <2>2, <2>3
<1>11. UNCHANGED <<docs, failures, changes>> /\ Enqueue(u, b)
  BY <1>3 DEF didSelectRow, b
<1>12. ByHand' = ByHand
  BY <1>11 DEF ByHand
<1>. QED  BY <1>1, <1>4, <1>5, <1>6, <1>10, <1>11, <1>12, QueuedMembers

\* A listing is sent from what the page shows, behind the memberships.
LEMMA nextPageMembers ==
  ASSUME Inv, MemberInv, NEW u \in Signers, nextPage(u)
  PROVE  MemberInv'
<1>1. u \in Users /\ u \in Clients /\ OnPage(u)
  BY SignupAssumption DEF nextPage, Clients
<1>. PICK n, page : n = count[u].listings + 1 /\ page = Last(pages[u])
  OBVIOUS
<1>. DEFINE b == [puts |-> Entries(u, page), dels |-> {},
                  handler |-> [by |-> "listing", n |-> n, on |-> PageView(page.id)]]
<1>2. page \in Pages /\ None \notin {page.University, page.Course}
  BY <1>1, TopPage DEF Inv, TypeInv, nextPage
<1>3. b \in SafeBatches
  <2>1. count[u] \in Counts
    BY DEF Inv, TypeInv, Types, Counts
  <2>2. n \in 1..MaxWrites
    BY <2>1, SignupAssumption DEF nextPage, MayWrite, Counts
  <2>. QED  BY <1>2, <2>2, ListingBatch
<1>4. Enqueue(u, b) /\ UNCHANGED <<docs, pages, failures, changes>>
  BY DEF nextPage
<1>10. ByHand' = ByHand
  BY <1>4 DEF ByHand
<1>5. Keeps(b)
  BY DEF Keeps
<1>6. /\ outbox[u] \in Seq(SafeBatches)
      /\ \A t \in Clients : outbox'[t] = IF t = u THEN Append(outbox[u], b) ELSE outbox[t]
  BY <1>1, <1>4 DEF Inv, TypeInv, Queues, Enqueue
<1>7. Puts(Append(outbox[u], b), Len(Append(outbox[u], b))) =
        Puts(outbox[u], Len(outbox[u])) \cup b.puts
  BY <1>3, <1>6, AppendPuts
<1>8. ASSUME failures = 0
      PROVE  ListedIn(b.puts, docs \cup Puts(outbox[u], Len(outbox[u])) \cup b.puts,
                       ByHand')
  <2>1. PageListed(u, page, docs \cup Puts(outbox[u], Len(outbox[u])))
    <3>1. Len(pages[u]) \in DOMAIN pages[u]
      BY <1>1, LenProperties, EmptySeq DEF Inv, TypeInv, Types, OnPage
    <3>. QED  BY <1>8, <3>1 DEF MemberInv, ListedPages, Last
  <2>2. ASSUME NEW v \in Users, NEW x \in Universities, NEW c \in Courses \cup {Total},
               Listing(x, c, v) \in b.puts
        PROVE  v = u /\ x = page.University /\ c \in {Total, page.Course}
    BY <2>2 DEF Entries, Listing
  <2>. QED  BY <1>2, <2>1, <2>2 DEF ListedIn, PageListed
<1>9. ASSUME failures = 0, NEW v \in Signers, NEW i \in DOMAIN pages'[v]
      PROVE  PageListed(v, pages'[v][i], docs \cup Puts(outbox'[v], Len(outbox'[v])))
  <2>1. v \in Clients /\ v \in Users /\ pages[v] \in Seq(Pages)
    BY SignupAssumption DEF Clients, Inv, TypeInv, Types
  <2>2. pages[v][i] \in Pages /\ PageListed(v, pages[v][i], docs \cup Puts(outbox[v], Len(outbox[v])))
    BY <1>4, <1>9, <2>1, LenProperties, ElementOfSeq DEF MemberInv, ListedPages
  <2>3. Puts(outbox[v], Len(outbox[v])) \subseteq Puts(outbox'[v], Len(outbox'[v]))
    BY <1>6, <1>7, <2>1
  <2>. QED  BY <1>4, <2>1, <2>2, <2>3, PageGrows
<1>. HIDE DEF b
<1>. QED  BY <1>1, <1>3, <1>4, <1>5, <1>8, <1>9, <1>10, QueuedMembers

\* Other batches list nobody, and leave the pages alone.
LEMMA UnlistedMembers ==
  ASSUME Inv, MemberInv, NEW s \in Clients, NEW b \in SafeBatches, Enqueue(s, b), Keeps(b),
         UNCHANGED <<docs, pages, failures>>, ByHand => ByHand',
         failures = 0 => ListedIn(b.puts, docs \cup b.puts, ByHand')
  PROVE  MemberInv'
<1>1. /\ outbox[s] \in Seq(SafeBatches)
      /\ \A t \in Clients : outbox'[t] = IF t = s THEN Append(outbox[s], b) ELSE outbox[t]
  BY DEF Inv, TypeInv, Queues, Enqueue
<1>2. Puts(Append(outbox[s], b), Len(Append(outbox[s], b))) =
        Puts(outbox[s], Len(outbox[s])) \cup b.puts
  BY <1>1, AppendPuts
<1>3. ASSUME failures = 0
      PROVE  ListedIn(b.puts, docs \cup Puts(outbox[s], Len(outbox[s])) \cup b.puts,
                       ByHand')
  <2>1. ByHand' \in BOOLEAN
    BY DEF ByHand
  <2>. QED  BY <1>3, <2>1, ListedGrows
<1>4. ASSUME failures = 0, NEW v \in Signers, NEW i \in DOMAIN pages'[v]
      PROVE  PageListed(v, pages'[v][i], docs \cup Puts(outbox'[v], Len(outbox'[v])))
  <2>1. v \in Clients /\ v \in Users /\ pages[v] \in Seq(Pages)
    BY SignupAssumption DEF Clients, Inv, TypeInv, Types
  <2>2. pages[v][i] \in Pages /\ PageListed(v, pages[v][i], docs \cup Puts(outbox[v], Len(outbox[v])))
    BY <1>4, <2>1, LenProperties, ElementOfSeq DEF MemberInv, ListedPages
  <2>3. Puts(outbox[v], Len(outbox[v])) \subseteq Puts(outbox'[v], Len(outbox'[v]))
    BY <1>1, <1>2, <2>1
  <2>. QED  BY <1>4, <2>1, <2>2, <2>3, PageGrows
<1>. QED  BY <1>3, <1>4, QueuedMembers

LEMMA PicturesMembers ==
  ASSUME Inv, MemberInv, NEW c \in calls, PicturesFetched(c)
  PROVE  MemberInv'
<1>1. /\ c.user \in Signers /\ c.user \in Clients /\ c.user \in Users
      /\ c.n \in 1..MaxConfirms
  BY RequestShapes, SignupAssumption DEF Inv, TypeInv, Types, Clients, PicturesFetched
<1>. DEFINE u == c.user
            b == [puts |-> {Username(u, m) : m \in {c.name} \cap Names},
                  dels |-> {Username(u, m) : m \in Names \ {c.name}},
                  handler |-> [by |-> "confirm", n |-> c.n, on |-> NamesView]]
<1>2. b \in SafeBatches
  BY <1>1, NamesBatch
<1>3. Keeps(b)
  BY <1>1, KeepsOthers DEF Keeps
<1>4. ListedIn(b.puts, docs \cup b.puts, ByHand')
  <2>1. \A v \in Users : \A y, d : Listing(y, d, v) \notin b.puts
    BY <1>1 DEF Username, Listing
  <2>. QED  BY <2>1 DEF ListedIn
<1>5. Enqueue(u, b) /\ UNCHANGED <<docs, pages, failures, changes>>
  BY DEF PicturesFetched
<1>6. ByHand' = ByHand
  BY <1>5 DEF ByHand
<1>. HIDE DEF b, u
<1>. QED  BY <1>1, <1>2, <1>3, <1>4, <1>5, <1>6, UnlistedMembers DEF u

\* The developers type any university, and a course with its membership; they
\* take back Pending alone.
LEMMA changeCourseMembers ==
  ASSUME Inv, MemberInv, NEW u \in Signers, changeCourse(u)
  PROVE  MemberInv'
<1>1. u \in Users /\ Admin \in Clients
  BY SignupAssumption DEF Clients
<1>2. PICK c \in Courses \ {Pending}, x \in Universities :
        Enqueue(Admin,
          [puts |-> {Profile(u, "Course", c), Member("Course", c, u), Listing(x, c, u)},
           dels |-> {Profile(u, "Course", d) : d \in Courses \ {c}} \cup
                    {Member("Course", Pending, u), Listing(x, Pending, u)},
           handler |-> NoHandler])
  BY DEF changeCourse
<1>. DEFINE b == [puts |-> {Profile(u, "Course", c), Member("Course", c, u), Listing(x, c, u)},
                  dels |-> {Profile(u, "Course", d) : d \in Courses \ {c}} \cup
                           {Member("Course", Pending, u), Listing(x, Pending, u)},
                  handler |-> NoHandler]
<1>3. b \in SafeBatches
  BY CourseBatch
<1>4. Keeps(b)
  <2>1. "Course" \in Fields
    BY DEF Fields
  <2>. QED  BY <1>1, <2>1, KeepsOthers DEF Keeps
<1>7. ByHand'
  BY SignupAssumption DEF changeCourse, ByHand, Inv, TypeInv, Types
<1>5. ListedIn(b.puts, docs \cup b.puts, ByHand')
  <2>. SUFFICES ASSUME NEW v \in Users, NEW y \in Universities, NEW d \in Courses \cup {Total},
                       Listing(y, d, v) \in b.puts
       PROVE  d # Total /\ Member("Course", d, v) \in b.puts
    BY <1>7 DEF ListedIn
  <2>1. Listing(y, d, v) = Listing(x, c, u)
    BY DEF Listing, Profile, Member
  <2>2. v = u /\ y = x /\ d = c
    BY <2>1 DEF Listing
  <2>. QED  BY <2>2, SignupAssumption
<1>6. Enqueue(Admin, b) /\ UNCHANGED <<docs, pages, failures>>
  BY <1>2 DEF changeCourse
<1>. HIDE DEF b
<1>. QED  BY <1>1, <1>3, <1>4, <1>5, <1>6, <1>7, UnlistedMembers

LEMMA AnswerMembers ==
  ASSUME Inv, MemberInv, NEW c \in calls, Answer(c)
  PROVE  MemberInv'
<1>1. CASE PicturesFetched(c)
  BY <1>1, PicturesMembers
<1>2. CASE UserRefused(c) \/ NamesDropped(c)
  <2>1. failures' = failures + 1 /\ UNCHANGED outbox
    BY <1>2 DEF UserRefused, NamesDropped, Fail
  <2>. QED  BY <2>1, FailedMembers
<1>3. CASE UserCreated(c) \/ NamesRejected(c) \/ NamesAccepted(c) \/ TokenFetched(c)
  <2>1. UNCHANGED <<docs, outbox, pages, failures, changes>>
    BY <1>3 DEF UserCreated, NamesRejected, NamesAccepted, TokenFetched
  <2>. QED  BY <2>1, IdleMembers
<1>. QED  BY <1>1, <1>2, <1>3 DEF Answer

LEMMA BackMembers ==
  ASSUME Inv, MemberInv, NEW u \in Signers, Back(u)
  PROVE  MemberInv'
<1>1. UNCHANGED <<docs, outbox, failures, changes>>
  BY DEF Back
<1>2. ASSUME NEW v \in Signers, NEW i \in DOMAIN pages'[v]
      PROVE  \E j \in DOMAIN pages[v] : pages'[v][i] = pages[v][j]
  <2>1. CASE pages'[v] = pages[v]
    BY <1>2, <2>1
  <2>2. CASE pages'[v] # pages[v]
    <3>1. /\ OnPage(u) /\ v = u
          /\ pages'[u] = SubSeq(pages[u], 1, Len(pages[u]) - 1)
      BY <2>2 DEF Back, Inv, TypeInv, Types
    <3>2. pages[u] \in Seq(Pages) /\ Len(pages[u]) \in Nat \ {0}
      BY <3>1, LenProperties, EmptySeq DEF OnPage, Inv, TypeInv, Types
    <3>3. i \in 1..(Len(pages[u]) - 1) /\ pages'[u][i] = pages[u][i]
      BY <1>2, <3>1, <3>2, SubSeqProperties
    <3>. QED  BY <3>1, <3>2, <3>3, LenProperties
  <2>. QED  BY <2>1, <2>2
<1>. QED  BY <1>1, <1>2, IdleMembers

LEMMA CommittedMembers ==
  ASSUME Inv, MemberInv, NEW u \in Signers, BatchCommitted(u)
  PROVE  MemberInv'
<1>. DEFINE h == Head(outbox[u]).handler
            new(n) == [id |-> n, University |-> None, Course |-> None]
<1>1. u \in Clients /\ Commit(u) /\ UNCHANGED <<failures, changes>>
  BY DEF Clients, BatchCommitted
<1>2. pages \in [Signers -> Seq(Pages)]
  BY DEF Inv, TypeInv, Types
<1>3. \/ UNCHANGED pages
      \/ pages' = [pages EXCEPT ![u] = Append(@, new(h.n))]
      \/ pages' = [pages EXCEPT ![u] = <<>>]
  BY DEF BatchCommitted, NamesStored, ChoiceStored, Listed
<1>4. ASSUME NEW v \in Signers, NEW i \in DOMAIN pages'[v]
      PROVE  \/ \E j \in DOMAIN pages[v] : pages'[v][i] = pages[v][j]
             \/ \E id : pages'[v][i] = [id |-> id, University |-> None, Course |-> None]
  <2>1. CASE pages'[v] = pages[v]
    BY <1>4, <2>1
  <2>2. CASE pages'[v] = <<>>
    BY <1>4, <2>2, EmptySeq
  <2>3. CASE pages'[v] = Append(pages[v], new(h.n))
    <3>1. pages[v] \in Seq(Pages) /\ Len(pages[v]) \in Nat /\ DOMAIN pages[v] = 1..Len(pages[v])
      BY <1>2, LenProperties
    <3>2. \/ i \in DOMAIN pages[v] /\ pages'[v][i] = pages[v][i]
          \/ pages'[v][i] = new(h.n)
      <4>. PICK p : p = new(h.n)
        OBVIOUS
      <4>. QED  BY <1>4, <2>3, <3>1
    <3>. QED  BY <3>2
  <2>. QED  BY <1>2, <1>3, <2>1, <2>2, <2>3
<1>. QED  BY <1>1, <1>4, CommitMembers

LEMMA NextMembers ==
  ASSUME Inv, MemberInv, [Next]_vars
  PROVE  MemberInv'
<1>1. ASSUME NEW u \in Signers, Tap(u) PROVE MemberInv'
  <2>1. CASE didSelectRow(u)
    BY <2>1, didSelectRowMembers
  <2>2. CASE nextPage(u)
    BY <2>2, nextPageMembers
  <2>3. CASE Back(u)
    BY <2>3, BackMembers
  <2>4. CASE \/ SignUp(u) \/ confirmEmailPassword(u) \/ Type(u) \/ ConfirmNames(u)
             \/ (\E field \in Fields : ShowSheet(u, field)) \/ Incomplete(u) \/ Dismiss(u)
    <3>1. UNCHANGED <<docs, outbox, pages, failures, changes>>
      BY <2>4 DEF SignUp, confirmEmailPassword, Type, ConfirmNames, ShowSheet, Incomplete,
                  Dismiss
    <3>. QED  BY <3>1, IdleMembers
  <2>. QED  BY <1>1, <2>1, <2>2, <2>3, <2>4 DEF Tap
<1>2. ASSUME NEW u \in Signers, BatchCommitted(u) PROVE MemberInv'
  BY <1>2, CommittedMembers
<1>3. ASSUME NEW u \in Signers, BatchRefused(u) PROVE MemberInv'
  <2>1. u \in Clients /\ failures' = failures + 1 /\ Refuse(u)
    BY <1>3 DEF Clients, BatchRefused, Fail
  <2>. QED  BY <2>1, FailedMembers DEF Refuse
<1>4. ASSUME NEW u \in Signers, Relaunch(u) PROVE MemberInv'
  BY <1>4, RelaunchMembers
<1>5. ASSUME NEW c \in calls, Answer(c) PROVE MemberInv'
  BY <1>5, AnswerMembers
<1>6. ASSUME NEW u \in Signers, changeCourse(u) PROVE MemberInv'
  BY <1>6, changeCourseMembers
<1>7. ASSUME CourseChanged PROVE MemberInv'
  <2>1. Admin \in Clients /\ Commit(Admin) /\ UNCHANGED <<pages, failures, changes>>
    BY <1>7 DEF Clients, CourseChanged
  <2>. QED  BY <2>1, CommitMembers
<1>8. ASSUME CourseRefused PROVE MemberInv'
  <2>1. Admin \in Clients /\ failures' = failures + 1 /\ Refuse(Admin)
    BY <1>8 DEF Clients, CourseRefused
  <2>. QED  BY <2>1, FailedMembers DEF Refuse
<1>9. CASE UNCHANGED vars
  <2>1. UNCHANGED <<docs, outbox, pages, failures, changes>>
    BY <1>9 DEF vars
  <2>. QED  BY <2>1, IdleMembers
<1>. QED  BY <1>1, <1>2, <1>3, <1>4, <1>5, <1>6, <1>7, <1>8, <1>9 DEF Next

LEMMA InitMembers == Init => MemberInv
<1>. SUFFICES ASSUME Init PROVE KeptQueues /\ ListedIn(docs, docs, ByHand) /\ ListedQueues /\ ListedPages
  BY DEF MemberInv
<1>1. \A s \in Clients : outbox[s] = <<>>
  BY DEF Init, Clients
<1>2. KeptQueues /\ ListedQueues
  BY <1>1, EmptySeq DEF KeptQueues, ListedQueues
<1>3. ListedPages
  BY EmptySeq DEF Init, ListedPages
<1>4. ListedIn(docs, docs, ByHand)
  <2>1. \A u \in Users : \A x, c : Listing(x, c, u) \notin docs
    BY DEF Init, Username, Listing
  <2>. QED  BY <2>1 DEF ListedIn
<1>. QED  BY <1>2, <1>3, <1>4

\* Unless a request failed, whoever is listed under a university or a course
\* (UniAndCourse.swift:176) is counted as its member, however the choices, the
\* listings and the developers' changes of Pending interleave.
THEOREM ListedChoseBefore == Spec => []ListedAreMembers
<1>1. Inv /\ MemberInv /\ [Next]_vars => MemberInv'
  BY NextMembers
<1>2. MemberInv => ListedAreMembers
  BY DEF MemberInv, ListedIn, ListedAreMembers, ByHand
<1>. QED  BY <1>1, <1>2, InitMembers, InvHolds, PTL DEF Spec
==============================================================================
