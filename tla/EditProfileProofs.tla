-------------------------- MODULE EditProfileProofs --------------------------
(***************************************************************************)
(* Proofs about EditProfile, for any users, names and bounds.              *)
(*                                                                         *)
(* The count of a page says nothing by itself: it is compared with four    *)
(* while uploads of this save and of earlier ones are on their way.  What  *)
(* a step keeps is what the count comes to, Total: a save whose pictures   *)
(* have not begun is worth four, an upload on its way is worth one, and    *)
(* what is answered moves into the count.  Only a save adds to it, and     *)
(* only a rejected name or a failure takes from it.  Hence a count is      *)
(* bounded, a page that is covered has a Total to wait for, and, as long   *)
(* as nothing has failed, a page has one save under way at a time.         *)
(***************************************************************************)
EXTENDS EditProfile, FiniteSetTheorems, FunctionTheorems, SequenceTheorems, TLAPS

\* The s-th save, made on page v of user u.
Tag(u, v, s) == [user |-> u, visit |-> v, save |-> s]

\* The requests about the username, before the texts are committed.
Asking(c) == c.kind \in {"query", "own"}

\* The saves of page v whose pictures have not begun, and the uploads of page v
\* that have not ended.
Early(u, v) ==
  {s \in 1..MaxSaves :
     \/ \E c \in calls : Asking(c) /\ c.tag = Tag(u, v, s)
     \/ \E i \in DOMAIN outbox[u] : outbox[u][i].handler = Tag(u, v, s)}

Uploading(u, v) ==
  {c \in calls : c.kind = "upload" /\ c.tag.user = u /\ c.tag.visit = v}

\* What the count of page v comes to if nothing fails from now on.
Total(u, v) ==
  page[u][v].count + Cardinality(Uploading(u, v)) + 4 * Cardinality(Early(u, v))

\* A page, with no bound on its count: the bound follows from Bounded.
PageT == [status : {"unopened", "open", "left", "dismissed"},
          picked : SUBSET Slots, count : Nat, stored : SUBSET Slots]

Typed ==
  /\ docs \in SUBSET (Users \X Names)
  /\ outbox \in [Users -> Seq(Batches)]
  /\ page \in [Editors -> [Visits -> PageT]]
  /\ covered \in [Editors -> BOOLEAN]
  /\ alert \in [Editors -> BOOLEAN]
  /\ calls \in SUBSET Requests
  /\ IsFiniteSet(calls)
  /\ saves \in 0..MaxSaves
  /\ failures \in 0..MaxFailures

\* Only editors write here, for themselves, and for saves that have begun.
Owned ==
  /\ \A c \in calls : c.tag.user \in Editors /\ c.tag.save <= saves
  /\ \A u \in Users : \A i \in DOMAIN outbox[u] :
       /\ u \in Editors
       /\ outbox[u][i].handler # NoHandler =>
            outbox[u][i].handler.user = u /\ outbox[u][i].handler.save <= saves

\* A save is at one place at a time: it asks, or it waits in the outbox, or its
\* pictures are on their way.
OnceEach ==
  /\ \A c, d \in calls : Asking(c) /\ Asking(d) /\ c.tag = d.tag => c = d
  /\ \A c, d \in calls : Asking(c) /\ d.kind = "upload" => c.tag # d.tag
  /\ \A c \in calls : c.kind # "displayName" =>
       \A u \in Users : \A i \in DOMAIN outbox[u] : outbox[u][i].handler # c.tag
  /\ \A u \in Users : \A i, j \in DOMAIN outbox[u] :
       outbox[u][i].handler = outbox[u][j].handler =>
         i = j \/ outbox[u][i].handler = NoHandler

\* A user has one page open.
OneOpen ==
  \A u \in Editors, v, w \in Visits :
    page[u][v].status = "open" /\ page[u][w].status = "open" => v = w

\* A save counts four pictures.
Bounded == \A u \in Editors, v \in Visits : Total(u, v) <= 4 * saves

\* Page v is open, and unless its count has passed four something is under way
\* that will bring it there.
Watching(u, v) ==
  /\ page[u][v].status = "open"
  /\ Total(u, v) >= 4
  /\ page[u][v].count = 4 => Total(u, v) > 4

\* No overlay without a page that it waits for.
Watched == \A u \in Editors : covered[u] => \E v \in Visits : Watching(u, v)

\* The one save of page v is under way, and when its pictures have begun each
\* that was picked is stored or on its way.
Waiting(u, v) ==
  /\ covered[u] /\ ~ alert[u]
  /\ Total(u, v) = 4
  /\ page[u][v].count # 4
  /\ Early(u, v) = {} =>
       page[u][v].picked \subseteq page[u][v].stored \cup {c.slot : c \in Uploading(u, v)}

\* A page that nothing has failed for.
Calm(u, v) ==
  /\ page[u][v].status # "open" => Early(u, v) = {} /\ Uploading(u, v) = {}
  /\ page[u][v].status = "unopened" => Total(u, v) = 0
  /\ page[u][v].status = "open" => Total(u, v) = 0 \/ Waiting(u, v)
  /\ page[u][v].status = "dismissed" => page[u][v].picked \subseteq page[u][v].stored

Undisturbed == failures = 0 => \A u \in Editors, v \in Visits : Calm(u, v)

OwnDocuments ==
  \A u \in Users : \A i \in DOMAIN outbox[u] :
    outbox[u][i].puts \cup outbox[u][i].dels \subseteq {u} \X Names

\* The name of a user who is not editing stays that user's alone: nobody has it,
\* is about to write it, or has been told that it is free.
NamesKept ==
  \A a \in Users \ Editors, n \in Names : <<a, n>> \in docs =>
    /\ \A b \in Users : <<b, n>> \in docs => a = b
    /\ \A u \in Users : \A i \in DOMAIN outbox[u] : <<u, n>> \notin outbox[u][i].puts
    /\ \A c \in calls : c.kind = "own" /\ c.free => c.name # n

\* Where every save is; what the counts come to; who may be called what.
Tracked == Typed /\ Owned /\ OnceEach /\ OneOpen

Reckoned == Bounded /\ Watched /\ Undisturbed

Named == OwnDocuments /\ NamesKept

Inv == Tracked /\ Reckoned /\ Named

------------------------------------------------------------------------------
(* Lemmas about tags, requests and totals *)

LEMMA TagFields ==
  /\ \A u \in Users, v \in Visits, s \in 1..MaxSaves :
       /\ Tag(u, v, s) \in Tags /\ Tag(u, v, s) # NoHandler
       /\ Tag(u, v, s).user = u /\ Tag(u, v, s).visit = v /\ Tag(u, v, s).save = s
  /\ \A t \in Tags :
       /\ t = Tag(t.user, t.visit, t.save) /\ t # NoHandler
       /\ t.user \in Users /\ t.visit \in Visits /\ t.save \in 1..MaxSaves
<1>1. ASSUME NEW u, NEW v, NEW s
      PROVE  Tag(u, v, s) # NoHandler
  <2>1. "user" \in DOMAIN Tag(u, v, s)
    BY DEF Tag
  <2>2. DOMAIN NoHandler = {}
    BY DEF NoHandler
  <2>. QED  BY <2>1, <2>2
<1>2. \A t \in Tags : t = Tag(t.user, t.visit, t.save)
  BY DEF Tags, Tag
<1>. QED  BY <1>1, <1>2 DEF Tag, Tags

LEMMA RequestFields ==
  ASSUME NEW c \in Requests
  PROVE  /\ c.tag \in Tags
         /\ c.kind \in {"query", "own", "displayName", "upload"}
         /\ c.kind = "own" => c.name \in Names \cup {None} /\ c.free \in BOOLEAN
         /\ c.kind = "query" => c.name \in Names \cup {None}
         /\ c.kind = "upload" => c.slot \in Slots
  BY DEF Requests

LEMMA HandlerTypes ==
  ASSUME Typed, NEW u \in Users, NEW i \in DOMAIN outbox[u]
  PROVE  /\ outbox[u][i] \in Batches
         /\ outbox[u][i].handler \in Tags \cup {NoHandler}
<1>1. outbox[u] \in Seq(Batches)
  BY DEF Typed
<1>2. outbox[u][i] \in Batches
  BY <1>1
<1>. QED  BY <1>2 DEF Batches

LEMMA Finite ==
  ASSUME Typed, NEW u \in Editors, NEW v \in Visits
  PROVE  /\ IsFiniteSet(Early(u, v)) /\ Cardinality(Early(u, v)) \in Nat
         /\ IsFiniteSet(Uploading(u, v)) /\ Cardinality(Uploading(u, v)) \in Nat
         /\ page[u][v].count \in Nat
         /\ Total(u, v) \in Nat
<1>1. IsFiniteSet(1..MaxSaves)
  BY EditProfileAssumption, FS_Interval
<1>2. Early(u, v) \in SUBSET (1..MaxSaves) /\ Uploading(u, v) \in SUBSET calls
  BY DEF Early, Uploading
<1>3. IsFiniteSet(Early(u, v)) /\ IsFiniteSet(Uploading(u, v))
  BY <1>1, <1>2, FS_Subset DEF Typed
<1>4. Cardinality(Early(u, v)) \in Nat /\ Cardinality(Uploading(u, v)) \in Nat
  BY <1>3, FS_CardinalityType
<1>5. page[u][v].count \in Nat
  BY DEF Typed, PageT
<1>. QED  BY <1>3, <1>4, <1>5 DEF Total

\* The facts of Finite for all pages, in this state and in the next.
Counts ==
  \A u \in Editors, v \in Visits :
    /\ IsFiniteSet(Early(u, v)) /\ Cardinality(Early(u, v)) \in Nat
    /\ IsFiniteSet(Uploading(u, v)) /\ Cardinality(Uploading(u, v)) \in Nat
    /\ page[u][v].count \in Nat
    /\ Total(u, v) \in Nat

LEMMA FiniteBoth == (Typed => Counts) /\ (Typed' => Counts')
<1>1. Typed => Counts
  BY Finite DEF Counts
<1>. QED  BY <1>1, PTL

\* A page none of whose requests a step touches.
Same(u, v) ==
  /\ Early(u, v)' = Early(u, v)
  /\ Uploading(u, v)' = Uploading(u, v)
  /\ page'[u][v].count = page[u][v].count

LEMMA SameTotal ==
  ASSUME NEW u \in Editors, NEW v \in Visits, Same(u, v)
  PROVE  Total(u, v)' = Total(u, v)
  BY DEF Same, Total

\* The requests of the saves are what they were, and so are the counts.
LEMMA SameRequests ==
  ASSUME Typed, UNCHANGED <<calls, outbox>>,
         NEW u \in Editors, NEW v \in Visits, page'[u][v].count = page[u][v].count
  PROVE  Same(u, v)
  BY DEF Same, Early, Uploading, Asking

\* What a settled picture does to the screen.
LEMMA Settled ==
  ASSUME Typed, NEW u \in Editors, NEW v \in Visits,
         NEW next \in [Editors -> [Visits -> PageT]], Settle(u, v, next)
  PROVE  /\ page' \in [Editors -> [Visits -> PageT]]
         /\ covered' \in [Editors -> BOOLEAN]
         /\ alert' \in [Editors -> BOOLEAN]
         /\ \A w \in Editors, x \in Visits :
              /\ page'[w][x].count = next[w][x].count
              /\ page'[w][x].picked = next[w][x].picked
              /\ page'[w][x].stored = next[w][x].stored
              /\ page'[w][x].status # next[w][x].status =>
                   /\ w = u /\ x = v
                   /\ next[u][v].count = 4 /\ next[u][v].status = "open"
                   /\ page'[u][v].status = "dismissed"
         /\ \A w \in Editors \ {u} : covered'[w] = covered[w] /\ alert'[w] = alert[w]
         /\ next[u][v].count = 4 => ~ covered'[u]
         /\ next[u][v].count = 4 /\ next[u][v].status = "open" /\ ~ alert[u] =>
              page'[u][v].status = "dismissed"
         /\ next[u][v].count # 4 => UNCHANGED <<covered, alert>> /\ page' = next
<1>. DEFINE P == [next[u][v] EXCEPT !.status = "dismissed"]
<1>1. next[u] \in [Visits -> PageT] /\ next[u][v] \in PageT
  OBVIOUS
<1>2. /\ P \in PageT /\ P.status = "dismissed"
      /\ P.count = next[u][v].count /\ P.picked = next[u][v].picked
      /\ P.stored = next[u][v].stored
  BY <1>1 DEF PageT
<1>3. CASE next[u][v].count = 4
  <2>1. covered' = [covered EXCEPT ![u] = FALSE]
    BY <1>3 DEF Settle, removeSpinner
  <2>2. alert' = alert \/ alert' = [alert EXCEPT ![u] = FALSE]
    BY <1>3 DEF Settle
  <2>3. IF alert[u] \/ next[u][v].status # "open" THEN page' = next
        ELSE page' = [next EXCEPT ![u][v] = P]
    BY <1>3 DEF Settle
  <2>. HIDE DEF P
  <2>4. /\ covered' \in [Editors -> BOOLEAN] /\ alert' \in [Editors -> BOOLEAN]
        /\ ~ covered'[u]
        /\ \A w \in Editors \ {u} : covered'[w] = covered[w] /\ alert'[w] = alert[w]
    BY <2>1, <2>2 DEF Typed
  <2>5. CASE alert[u] \/ next[u][v].status # "open"
    <3>1. page' = next
      BY <2>3, <2>5
    <3>. QED  BY <1>3, <2>4, <2>5, <3>1
  <2>6. CASE ~ (alert[u] \/ next[u][v].status # "open")
    <3>1. page' = [next EXCEPT ![u][v] = P]
      BY <2>3, <2>6
    <3>2. page' \in [Editors -> [Visits -> PageT]]
      BY <1>2, <3>1
    <3>3. page'[u][v] = P
      BY <1>1, <3>1
    <3>4. \A w \in Editors, x \in Visits : w # u \/ x # v => page'[w][x] = next[w][x]
      BY <1>1, <3>1
    <3>5. \A w \in Editors, x \in Visits :
            /\ page'[w][x].count = next[w][x].count
            /\ page'[w][x].picked = next[w][x].picked
            /\ page'[w][x].stored = next[w][x].stored
      BY <1>2, <3>3, <3>4
    <3>6. next[u][v].status = "open" /\ page'[u][v].status = "dismissed"
      BY <1>2, <2>6, <3>3
    <3>. QED  BY <1>3, <2>4, <3>2, <3>4, <3>5, <3>6
  <2>. QED  BY <2>5, <2>6
<1>4. CASE next[u][v].count # 4
  BY <1>4 DEF Settle, Typed
<1>. QED  BY <1>3, <1>4

LEMMA NoTotal ==
  ASSUME Typed, NEW u \in Editors, NEW v \in Visits
  PROVE  Total(u, v) = 0 =>
           Early(u, v) = {} /\ Uploading(u, v) = {} /\ page[u][v].count = 0
<1>1. HAVE Total(u, v) = 0
<1>2. /\ Cardinality(Early(u, v)) = 0 /\ Cardinality(Uploading(u, v)) = 0
      /\ page[u][v].count = 0
  BY <1>1, Finite DEF Total
<1>. QED  BY <1>2, Finite, FS_EmptySet

\* A step that starts and ends no request of a save: it may take overlays off,
\* and changes a page only while none lies over it.
LEMMA ReckonedStays ==
  ASSUME Typed, Reckoned, Typed', UNCHANGED saves,
         \A w \in Editors, x \in Visits :
           /\ Same(w, x)
           /\ page'[w][x].stored = page[w][x].stored
           /\ page'[w][x].picked # page[w][x].picked =>
                ~ covered[w] /\ page[w][x].status = "open"
           /\ page'[w][x].status # page[w][x].status =>
                ~ covered[w] /\ page'[w][x].status \in {"open", "left"}
           /\ page'[w][x].status = "open" => page[w][x].status \in {"unopened", "open"},
         \A w \in Editors :
           /\ covered'[w] => covered[w]
           /\ failures' = 0 => covered'[w] = covered[w]
           /\ covered[w] /\ ~ alert[w] => ~ alert'[w],
         failures' = 0 => failures = 0
  PROVE  Reckoned'
<1>1. \A w \in Editors, x \in Visits : Total(w, x)' = Total(w, x)
  BY SameTotal
<1>2. Bounded'
  BY <1>1 DEF Reckoned, Bounded
<1>3. Watched'
  <2> SUFFICES ASSUME NEW w \in Editors, covered'[w]
               PROVE  \E x \in Visits :
                        /\ page'[w][x].status = "open"
                        /\ Total(w, x)' >= 4
                        /\ page'[w][x].count = 4 => Total(w, x)' > 4
    BY DEF Watched, Watching
  <2>1. PICK x \in Visits : /\ page[w][x].status = "open"
                            /\ Total(w, x) >= 4
                            /\ page[w][x].count = 4 => Total(w, x) > 4
    BY DEF Reckoned, Watched, Watching
  <2>2. page'[w][x].status = "open" /\ page'[w][x].count = page[w][x].count
    BY <2>1 DEF Same
  <2>. QED  BY <1>1, <2>1, <2>2
<1>4. Undisturbed'
  <2> SUFFICES ASSUME failures' = 0, NEW w \in Editors, NEW x \in Visits
               PROVE
      /\ page'[w][x].status # "open" => Early(w, x)' = {} /\ Uploading(w, x)' = {}
      /\ page'[w][x].status = "unopened" => Total(w, x)' = 0
      /\ page'[w][x].status = "open" => Total(w, x)' = 0 \/ Waiting(w, x)'
      /\ page'[w][x].status = "dismissed" => page'[w][x].picked \subseteq page'[w][x].stored
    BY DEF Undisturbed, Calm
  <2>1. /\ page[w][x].status # "open" => Early(w, x) = {} /\ Uploading(w, x) = {}
        /\ page[w][x].status = "unopened" => Total(w, x) = 0
        /\ page[w][x].status = "open" => Total(w, x) = 0 \/ Waiting(w, x)
        /\ page[w][x].status = "dismissed" => page[w][x].picked \subseteq page[w][x].stored
    BY DEF Reckoned, Undisturbed, Calm
  <2>2. Same(w, x) /\ Total(w, x)' = Total(w, x)
    BY <1>1
  <2>3. CASE page'[w][x].status # page[w][x].status
    <3>1. ~ covered[w] /\ page'[w][x].status \in {"open", "left"}
      BY <2>3
    <3>2. page[w][x].status \in {"unopened", "open"} => Total(w, x) = 0
      BY <2>1, <3>1 DEF Waiting
    <3>3. Early(w, x) = {} /\ Uploading(w, x) = {}
      BY <2>1, <3>2, NoTotal
    <3>. QED  BY <2>2, <2>3, <3>1, <3>2, <3>3 DEF Same
  <2>4. CASE page'[w][x].status = page[w][x].status
    <3>1. ASSUME Waiting(w, x), page[w][x].status = "open"
          PROVE  Waiting(w, x)'
      <4>1. covered'[w] /\ ~ alert'[w] /\ page'[w][x].picked = page[w][x].picked
        BY <3>1 DEF Waiting
      <4>. QED  BY <2>2, <3>1, <4>1 DEF Waiting, Same
    <3>2. page[w][x].status # "open" => page'[w][x].picked = page[w][x].picked
      OBVIOUS
    <3>. QED  BY <2>1, <2>2, <2>4, <3>1, <3>2 DEF Same
  <2>. QED  BY <2>3, <2>4
<1>. QED  BY <1>2, <1>3, <1>4 DEF Reckoned

\* A step that only changes the screen of one user.
LEMMA ScreenStep ==
  ASSUME Inv, NEW u \in Editors,
         page' = page \/ \E v \in Visits, P \in PageT : page' = [page EXCEPT ![u][v] = P],
         UNCHANGED <<docs, outbox, covered, calls, saves, failures>>,
         alert' \in [Editors -> BOOLEAN],
         \A w \in Editors : covered[w] /\ ~ alert[w] => ~ alert'[w],
         OneOpen',
         \A w \in Editors, x \in Visits :
           /\ page'[w][x].count = page[w][x].count
           /\ page'[w][x].stored = page[w][x].stored
           /\ page'[w][x].picked # page[w][x].picked =>
                ~ covered[w] /\ page[w][x].status = "open"
           /\ page'[w][x].status # page[w][x].status =>
                ~ covered[w] /\ page'[w][x].status \in {"open", "left"}
           /\ page'[w][x].status = "open" => page[w][x].status \in {"unopened", "open"}
  PROVE  Inv'
<1>1. Typed'
  <2>1. page' \in [Editors -> [Visits -> PageT]]
    <3>1. page \in [Editors -> [Visits -> PageT]] /\ page[u] \in [Visits -> PageT]
      BY DEF Inv, Tracked, Typed
    <3>2. ASSUME NEW v \in Visits, NEW P \in PageT, page' = [page EXCEPT ![u][v] = P]
          PROVE  page' \in [Editors -> [Visits -> PageT]]
      BY <3>1, <3>2
    <3>3. CASE page' # page
      <4>1. PICK v \in Visits, P \in PageT : page' = [page EXCEPT ![u][v] = P]
        BY <3>3, Zenon
      <4>. QED  BY <3>2, <4>1
    <3>. QED  BY <3>1, <3>3
  <2>. QED  BY <2>1 DEF Inv, Tracked, Typed
<1>2. Owned' /\ OnceEach' /\ OneOpen'
  BY DEF Inv, Tracked, Owned, OnceEach, Asking
<1>3. Named'
  BY DEF Inv, Named, OwnDocuments, NamesKept
<1>4. \A w \in Editors, x \in Visits : Same(w, x)
  BY SameRequests DEF Inv, Tracked
<1>5. Reckoned'
  BY <1>1, <1>4, ReckonedStays DEF Inv, Tracked
<1>. QED  BY <1>1, <1>2, <1>3, <1>5 DEF Inv, Tracked

\* A step that only changes one page.
LEMMA PageStep ==
  ASSUME Inv, NEW u \in Editors, NEW v \in Visits, NEW P \in PageT,
         page' = [page EXCEPT ![u][v] = P],
         UNCHANGED <<docs, outbox, covered, alert, calls, saves, failures>>,
         P.count = page[u][v].count, P.stored = page[u][v].stored,
         ~ covered[u],
         P.picked # page[u][v].picked => page[u][v].status = "open",
         P.status # page[u][v].status => P.status \in {"open", "left"},
         P.status = "open" =>
           \/ page[u][v].status = "open"
           \/ page[u][v].status = "unopened" /\ \A w \in Visits : page[u][w].status # "open"
  PROVE  Inv'
<1>1. /\ page \in [Editors -> [Visits -> PageT]] /\ alert \in [Editors -> BOOLEAN]
      /\ page[u] \in [Visits -> PageT]
  BY DEF Inv, Tracked, Typed
<1>2. /\ page'[u][v] = P
      /\ \A w \in Editors, x \in Visits : w # u \/ x # v => page'[w][x] = page[w][x]
  BY <1>1
<1>3. \A w \in Editors, x \in Visits :
        /\ page'[w][x].count = page[w][x].count
        /\ page'[w][x].stored = page[w][x].stored
        /\ page'[w][x].picked # page[w][x].picked =>
             ~ covered[w] /\ page[w][x].status = "open"
        /\ page'[w][x].status # page[w][x].status =>
             ~ covered[w] /\ page'[w][x].status \in {"open", "left"}
        /\ page'[w][x].status = "open" => page[w][x].status \in {"unopened", "open"}
  BY <1>2
<1>4. OneOpen'
  BY <1>2 DEF Inv, Tracked, OneOpen
<1>. QED  BY <1>1, <1>3, <1>4, ScreenStep

LEMMA Step_Screen ==
  ASSUME Inv, NEW u \in Editors,
         \/ EditProfile(u) \/ DismissAlert(u)
         \/ \E v \in Visits : SelectImage(u, v) \/ DismissEditProfile(u, v) \/ EmojiRejected(u, v)
  PROVE  Inv'
<1>0. page \in [Editors -> [Visits -> PageT]] /\ alert \in [Editors -> BOOLEAN]
  BY DEF Inv, Tracked, Typed
<1>1. CASE EditProfile(u)
  <2>1. PICK v \in Visits : /\ \A x \in Visits : page[u][x].status = "unopened" <=> x >= v
                            /\ page' = [page EXCEPT ![u][v].status = "open"]
    BY <1>1 DEF EditProfile
  <2>. DEFINE P == [page[u][v] EXCEPT !.status = "open"]
  <2>2. page[u] \in [Visits -> PageT] /\ page[u][v] \in PageT
    BY <1>0
  <2>3. /\ P \in PageT /\ P.status = "open" /\ P.count = page[u][v].count
        /\ P.stored = page[u][v].stored /\ P.picked = page[u][v].picked
    BY <2>2 DEF PageT
  <2>4. page' = [page EXCEPT ![u][v] = P]
    BY <2>1
  <2>. HIDE DEF P
  <2>5. page[u][v].status = "unopened"
    BY <2>1 DEF Visits
  <2>6. ~ covered[u]
    BY <1>1 DEF EditProfile, Inv, Reckoned, Watched, Watching
  <2>7. UNCHANGED <<docs, outbox, covered, alert, calls, saves, failures>>
    BY <1>1 DEF EditProfile
  <2>8. \A w \in Visits : page[u][w].status # "open"
    BY <1>1 DEF EditProfile
  <2>. QED  BY <2>3, <2>4, <2>5, <2>6, <2>7, <2>8, PageStep
<1>2. CASE DismissAlert(u)
  BY <1>0, <1>2, ScreenStep DEF DismissAlert, Inv, Tracked, OneOpen
<1>3. ASSUME NEW v \in Visits, SelectImage(u, v)
      PROVE  Inv'
  <2>1. PICK slot \in Slots : page' = [page EXCEPT ![u][v].picked = @ \cup {slot}]
    BY <1>3 DEF SelectImage
  <2>. DEFINE P == [page[u][v] EXCEPT !.picked = @ \cup {slot}]
  <2>2. page[u] \in [Visits -> PageT] /\ page[u][v] \in PageT
    BY <1>0
  <2>3. /\ P \in PageT /\ P.status = page[u][v].status /\ P.count = page[u][v].count
        /\ P.stored = page[u][v].stored
    BY <2>2 DEF PageT
  <2>4. page' = [page EXCEPT ![u][v] = P]
    BY <2>1
  <2>. HIDE DEF P
  <2>5. page[u][v].status = "open" /\ ~ covered[u]
    BY <1>3 DEF SelectImage, Free
  <2>7. UNCHANGED <<docs, outbox, covered, alert, calls, saves, failures>>
    BY <1>3 DEF SelectImage
  <2>. QED  BY <2>3, <2>4, <2>5, <2>7, PageStep
<1>4. ASSUME NEW v \in Visits, DismissEditProfile(u, v)
      PROVE  Inv'
  <2>1. page' = [page EXCEPT ![u][v].status = "left"]
    BY <1>4 DEF DismissEditProfile
  <2>. DEFINE P == [page[u][v] EXCEPT !.status = "left"]
  <2>2. page[u] \in [Visits -> PageT] /\ page[u][v] \in PageT
    BY <1>0
  <2>3. /\ P \in PageT /\ P.status = "left" /\ P.count = page[u][v].count
        /\ P.stored = page[u][v].stored /\ P.picked = page[u][v].picked
    BY <2>2 DEF PageT
  <2>4. page' = [page EXCEPT ![u][v] = P]
    BY <2>1
  <2>. HIDE DEF P
  <2>5. page[u][v].status = "open" /\ ~ covered[u]
    BY <1>4 DEF DismissEditProfile, Free
  <2>7. UNCHANGED <<docs, outbox, covered, alert, calls, saves, failures>>
    BY <1>4 DEF DismissEditProfile
  <2>. QED  BY <2>3, <2>4, <2>5, <2>7, PageStep
<1>5. ASSUME NEW v \in Visits, EmojiRejected(u, v)
      PROVE  Inv'
  BY <1>0, <1>5, ScreenStep DEF EmojiRejected, Free, Inv, Tracked, OneOpen
<1>. QED  BY <1>1, <1>2, <1>3, <1>4, <1>5

------------------------------------------------------------------------------
(* Steps of one user *)

\* A step that touches the requests and the pages of user u only.
LEMMA ReckonedAt ==
  ASSUME Typed, Reckoned, Typed', saves' >= saves, NEW u \in Editors,
         \A w \in Editors \ {u} :
           /\ covered'[w] = covered[w] /\ alert'[w] = alert[w]
           /\ \A x \in Visits : Same(w, x) /\ page'[w][x] = page[w][x],
         \A x \in Visits : Total(u, x)' <= Total(u, x) + 4 * (saves' - saves),
         covered'[u] => \E x \in Visits : Watching(u, x)',
         failures' = 0 => failures = 0 /\ \A x \in Visits : Calm(u, x)'
  PROVE  Reckoned'
<1>1. saves \in Nat /\ saves' \in Nat
  BY DEF Typed
<1>2. \A w \in Editors \ {u}, x \in Visits : Total(w, x)' = Total(w, x)
  BY SameTotal
<1>3. Bounded'
  <2>1. \A x \in Visits :
          Total(u, x) \in Nat /\ Total(u, x)' \in Nat /\ Total(u, x) <= 4 * saves
    BY FiniteBoth DEF Counts, Reckoned, Bounded
  <2>2. \A x \in Visits : Total(u, x)' <= 4 * saves'
    BY <1>1, <2>1
  <2>3. \A w \in Editors \ {u}, x \in Visits : Total(w, x)' <= 4 * saves'
    <3>1. \A w \in Editors, x \in Visits : Total(w, x) \in Nat /\ Total(w, x) <= 4 * saves
      BY Finite DEF Reckoned, Bounded
    <3>. QED  BY <1>1, <1>2, <3>1
  <2>. QED  BY <2>2, <2>3 DEF Bounded
<1>4. Watched'
  <2>1. ASSUME NEW w \in Editors \ {u}, covered'[w]
        PROVE  \E x \in Visits : Watching(w, x)'
    <3>1. PICK x \in Visits : Watching(w, x)
      BY <2>1 DEF Reckoned, Watched
    <3>. QED  BY <1>2, <3>1 DEF Watching
  <2>. QED  BY <2>1 DEF Watched
<1>5. Undisturbed'
  <2>1. ASSUME failures = 0, NEW w \in Editors \ {u}, NEW x \in Visits
        PROVE  Calm(w, x)'
    <3>1. Calm(w, x)
      BY <2>1 DEF Reckoned, Undisturbed
    <3>. QED  BY <1>2, <3>1 DEF Calm, Waiting, Same
  <2>. QED  BY <2>1 DEF Undisturbed
<1>. QED  BY <1>3, <1>4, <1>5 DEF Reckoned

\* A page the step leaves as it was, which may be uncovered unless it waits.
LEMMA CalmStays ==
  ASSUME NEW u \in Editors, NEW x \in Visits, Calm(u, x), Same(u, x),
         page'[u][x] = page[u][x], page[u][x].status # "open"
  PROVE  Calm(u, x)'
  BY SameTotal DEF Calm, Same

\* Requests end, and pages stay open only if they were.
LEMMA FewerRequests ==
  ASSUME Tracked, Typed', calls' \subseteq calls, UNCHANGED <<outbox, saves>>,
         \A u \in Editors, v \in Visits :
           page'[u][v].status = "open" => page[u][v].status = "open"
  PROVE  Tracked'
  BY DEF Tracked, Owned, OnceEach, OneOpen, Asking

LEMMA NamedStays ==
  ASSUME Named, calls' \subseteq calls, UNCHANGED <<docs, outbox>>
  PROVE  Named'
  BY DEF Named, OwnDocuments, NamesKept

\* The save of a request that is asking, or of a batch, is an early one.
LEMMA EarlySave ==
  ASSUME Tracked
  PROVE  /\ \A c \in calls :
              /\ c.tag \in Tags /\ c.tag.user \in Editors /\ c.tag.visit \in Visits
              /\ c.tag.save \in 1..saves
              /\ c.tag = Tag(c.tag.user, c.tag.visit, c.tag.save)
              /\ Asking(c) => c.tag.save \in Early(c.tag.user, c.tag.visit)
         /\ \A u \in Users : \A i \in DOMAIN outbox[u] :
              LET t == outbox[u][i].handler IN
              /\ u \in Editors
              /\ t # NoHandler =>
                   /\ t \in Tags /\ t.user = u /\ t.visit \in Visits /\ t.save \in 1..saves
                   /\ t = Tag(u, t.visit, t.save)
                   /\ t.save \in Early(u, t.visit)
<1>1. ASSUME NEW c \in calls
      PROVE  /\ c.tag \in Tags /\ c.tag.user \in Editors /\ c.tag.visit \in Visits
             /\ c.tag.save \in 1..saves
             /\ c.tag = Tag(c.tag.user, c.tag.visit, c.tag.save)
             /\ Asking(c) => c.tag.save \in Early(c.tag.user, c.tag.visit)
  <2>1. c.tag \in Tags /\ c.tag.user \in Editors /\ c.tag.save <= saves
    BY RequestFields DEF Tracked, Typed, Owned
  <2>2. /\ c.tag = Tag(c.tag.user, c.tag.visit, c.tag.save)
        /\ c.tag.visit \in Visits /\ c.tag.save \in 1..MaxSaves
    BY <2>1, TagFields
  <2>3. c.tag.save \in 1..saves
    BY <2>1, <2>2 DEF Tracked, Typed
  <2>. QED  BY <2>1, <2>2, <2>3 DEF Early
<1>2. ASSUME NEW u \in Users, NEW i \in DOMAIN outbox[u]
      PROVE  LET t == outbox[u][i].handler IN
              /\ u \in Editors
              /\ t # NoHandler =>
                   /\ t \in Tags /\ t.user = u /\ t.visit \in Visits /\ t.save \in 1..saves
                   /\ t = Tag(u, t.visit, t.save)
                   /\ t.save \in Early(u, t.visit)
  <2>. DEFINE t == outbox[u][i].handler
  <2>1. u \in Editors
    BY DEF Tracked, Owned
  <2>2. ASSUME t # NoHandler
        PROVE  /\ t \in Tags /\ t.user = u /\ t.visit \in Visits /\ t.save \in 1..saves
               /\ t = Tag(u, t.visit, t.save)
               /\ t.save \in Early(u, t.visit)
    <3>1. t \in Tags /\ t.user = u /\ t.save <= saves
      BY <2>2, HandlerTypes DEF Tracked, Owned
    <3>2. t = Tag(u, t.visit, t.save) /\ t.visit \in Visits /\ t.save \in 1..MaxSaves
      BY <3>1, TagFields
    <3>3. t.save \in 1..saves
      BY <3>1, <3>2 DEF Tracked, Typed
    <3>. QED  BY <3>1, <3>2, <3>3 DEF Early
  <2>. QED  BY <2>1, <2>2
<1>. QED  BY <1>1, <1>2

\* One early save less.
LEMMA EarlyLess ==
  ASSUME Typed, Typed', NEW u \in Editors, NEW v \in Visits, NEW s \in Early(u, v),
         Early(u, v)' = Early(u, v) \ {s}
  PROVE  Cardinality(Early(u, v)') = Cardinality(Early(u, v)) - 1
  BY FiniteBoth, FS_RemoveElement DEF Counts

LEMMA UploadLess ==
  ASSUME Typed, Typed', NEW u \in Editors, NEW v \in Visits, NEW c \in Uploading(u, v),
         Uploading(u, v)' = Uploading(u, v) \ {c}
  PROVE  Cardinality(Uploading(u, v)') = Cardinality(Uploading(u, v)) - 1
  BY FiniteBoth, FS_RemoveElement DEF Counts

\* A request that asks for a name is answered, and its save goes no further.
LEMMA AskEnds ==
  ASSUME Tracked, NEW c \in calls, Asking(c), UNCHANGED outbox, calls' = calls \ {c}
  PROVE  /\ Early(c.tag.user, c.tag.visit)' = Early(c.tag.user, c.tag.visit) \ {c.tag.save}
         /\ \A u \in Editors, v \in Visits :
              /\ Uploading(u, v)' = Uploading(u, v)
              /\ u # c.tag.user \/ v # c.tag.visit => Early(u, v)' = Early(u, v)
<1>1. c.tag = Tag(c.tag.user, c.tag.visit, c.tag.save)
  BY EarlySave
<1>2. \A d \in calls : Asking(d) /\ d.tag = c.tag => d = c
  BY DEF Tracked, OnceEach
<1>3. \A u \in Users : \A i \in DOMAIN outbox[u] : outbox[u][i].handler # c.tag
  BY DEF Tracked, OnceEach, Asking
<1>4. c.tag.user \in Users
  BY EarlySave, EditProfileAssumption
<1>5. Early(c.tag.user, c.tag.visit)' = Early(c.tag.user, c.tag.visit) \ {c.tag.save}
  <2>. DEFINE u == c.tag.user  v == c.tag.visit
  <2>1. ASSUME NEW s \in Early(u, v)', s = c.tag.save
        PROVE  FALSE
    <3>1. CASE \E d \in calls' : Asking(d) /\ d.tag = Tag(u, v, s)
      BY <1>1, <1>2, <2>1, <3>1
    <3>2. CASE \E i \in DOMAIN outbox[u] : outbox[u][i].handler = Tag(u, v, s)
      BY <1>1, <1>3, <1>4, <2>1, <3>2
    <3>. QED  BY <2>1, <3>1, <3>2 DEF Early, Asking
  <2>2. ASSUME NEW s \in Early(u, v)'
        PROVE  s \in Early(u, v)
    BY DEF Early, Asking
  <2>3. ASSUME NEW s \in Early(u, v), s # c.tag.save
        PROVE  s \in Early(u, v)'
    <3>1. s \in 1..MaxSaves
      BY DEF Early
    <3>2. c.tag # Tag(u, v, s)
      BY <2>3 DEF Tag
    <3>. QED  BY <3>1, <3>2 DEF Early, Asking
  <2>. QED  BY <2>1, <2>2, <2>3
<1>6. ASSUME NEW u \in Editors, NEW v \in Visits, u # c.tag.user \/ v # c.tag.visit
      PROVE  Early(u, v)' = Early(u, v)
  <2>1. \A s : c.tag # Tag(u, v, s)
    BY <1>6 DEF Tag
  <2>. QED  BY <2>1 DEF Early, Asking
<1>7. \A u \in Editors, v \in Visits : Uploading(u, v)' = Uploading(u, v)
  BY DEF Uploading, Asking
<1>. QED  BY <1>5, <1>6, <1>7

LEMMA Step_Rejected ==
  ASSUME Inv, NEW c \in calls, Rejected(c)
  PROVE  Inv'
<1>. DEFINE u == c.tag.user  v == c.tag.visit
<1>1. /\ Asking(c) /\ calls' = calls \ {c}
      /\ covered' = [covered EXCEPT ![u] = FALSE]
      /\ alert' = [alert EXCEPT ![u] = @ \/ page[u][v].status = "open"]
      /\ UNCHANGED <<docs, outbox, page, saves, failures>>
  BY DEF Rejected, Asking, removeSpinner, Alerted
<1>2. Tracked /\ Typed /\ Reckoned /\ Named
  BY DEF Inv, Tracked
<1>3. /\ u \in Editors /\ u \in Users /\ v \in Visits
      /\ c.tag.save \in Early(u, v)
  BY <1>1, <1>2, EarlySave, EditProfileAssumption
<1>4. Typed'
  <2>1. calls' \subseteq calls /\ IsFiniteSet(calls')
    BY <1>1, <1>2, FS_Subset DEF Typed
  <2>2. covered' \in [Editors -> BOOLEAN] /\ alert' \in [Editors -> BOOLEAN]
    BY <1>1, <1>2 DEF Typed
  <2>. QED  BY <1>1, <1>2, <2>1, <2>2 DEF Typed
<1>5. Tracked'
  BY <1>1, <1>2, <1>4, FewerRequests
<1>6. Named'
  BY <1>1, <1>2, NamedStays
<1>7. /\ Early(u, v)' = Early(u, v) \ {c.tag.save}
      /\ \A w \in Editors, x \in Visits :
           /\ Uploading(w, x)' = Uploading(w, x)
           /\ w # u \/ x # v => Early(w, x)' = Early(w, x)
  BY <1>1, <1>2, AskEnds
<1>8. Total(u, v)' = Total(u, v) - 4
  <2>1. Cardinality(Early(u, v)') = Cardinality(Early(u, v)) - 1
    BY <1>2, <1>3, <1>4, <1>7, EarlyLess
  <2>. QED  BY <1>1, <1>2, <1>3, <1>7, <2>1, FiniteBoth DEF Total, Counts
<1>9. \A w \in Editors, x \in Visits : w # u \/ x # v => Same(w, x)
  BY <1>1, <1>7 DEF Same
<1>10. ASSUME failures = 0, NEW x \in Visits
       PROVE  Calm(u, x)'
  <2>1. Calm(u, x) /\ Calm(u, v)
    BY <1>2, <1>3, <1>10 DEF Reckoned, Undisturbed
  <2>2. Total(u, v) # 0
    BY <1>2, <1>3, NoTotal
  <2>3. page[u][v].status = "open" /\ Total(u, v) = 4
    BY <1>3, <2>1, <2>2 DEF Calm, Waiting
  <2>4. CASE x = v
    BY <1>1, <1>8, <2>3, <2>4 DEF Calm
  <2>5. CASE x # v
    <3>1. page[u][x].status # "open"
      BY <1>2, <1>3, <2>3, <2>5 DEF Tracked, OneOpen
    <3>. QED  BY <1>1, <1>3, <1>9, <2>1, <2>5, <3>1, CalmStays
  <2>. QED  BY <2>4, <2>5
<1>11. \A x \in Visits : Total(u, x)' <= Total(u, x) + 4 * (saves' - saves)
  <2>1. \A x \in Visits : Total(u, x) \in Nat
    BY <1>2, <1>3, FiniteBoth DEF Counts
  <2>2. \A x \in Visits : x # v => Total(u, x)' = Total(u, x)
    BY <1>3, <1>9, SameTotal
  <2>3. saves' = saves /\ saves \in Nat
    BY <1>1, <1>2 DEF Typed
  <2>4. Total(u, v)' <= Total(u, v) + 4 * (saves' - saves)
    BY <1>3, <1>8, <2>1, <2>3
  <2>5. \A x \in Visits : x # v => Total(u, x)' <= Total(u, x) + 4 * (saves' - saves)
    BY <1>3, <2>1, <2>2, <2>3
  <2>. QED  BY <2>4, <2>5
<1>12. ~ covered'[u]
  BY <1>1, <1>2, <1>3 DEF Typed
<1>13. \A w \in Editors \ {u} : covered'[w] = covered[w] /\ alert'[w] = alert[w]
  BY <1>1, <1>2 DEF Typed
<1>14. saves' >= saves
  BY <1>1, <1>2 DEF Typed
<1>15. \A w \in Editors \ {u}, x \in Visits : Same(w, x) /\ page'[w][x] = page[w][x]
  BY <1>1, <1>9
<1>16. failures' = 0 => failures = 0 /\ \A x \in Visits : Calm(u, x)'
  BY <1>1, <1>10
<1>17. Reckoned'
  <2>. HIDE DEF u, v
  <2>. QED  BY <1>2, <1>3, <1>4, <1>11, <1>12, <1>13, <1>14, <1>15, <1>16, ReckonedAt
<1>. QED  BY <1>5, <1>6, <1>17 DEF Inv

LEMMA Step_QueryAnswered ==
  ASSUME Inv, NEW c \in calls, QueryAnswered(c)
  PROVE  Inv'
<1>. DEFINE d == [kind |-> "own", tag |-> c.tag, name |-> c.name,
                  free |-> NameFree(c.tag.user, c.name)]
<1>1. /\ c.kind = "query" /\ calls' = (calls \ {c}) \cup {d}
      /\ UNCHANGED <<docs, outbox, page, covered, alert, saves, failures>>
  BY DEF QueryAnswered
<1>2. Tracked /\ Typed /\ Reckoned /\ Named
  BY DEF Inv, Tracked
<1>3. /\ c.tag \in Tags /\ c.tag.user \in Editors /\ c.tag.user \in Users
      /\ c.name \in Names \cup {None}
  BY <1>1, <1>2, EarlySave, EditProfileAssumption, RequestFields DEF Typed
<1>4. NameFree(c.tag.user, c.name) \in BOOLEAN
  BY DEF NameFree
<1>5. /\ d \in Requests /\ d.kind = "own" /\ d.tag = c.tag /\ d.name = c.name
      /\ d.free = NameFree(c.tag.user, c.name)
  BY <1>3, <1>4 DEF Requests
<1>. HIDE DEF d
<1>6. Typed'
  <2>1. IsFiniteSet(calls')
    BY <1>1, <1>2, FS_Subset, FS_AddElement DEF Typed
  <2>. QED  BY <1>1, <1>2, <1>5, <2>1 DEF Typed
<1>7. Owned' /\ OneOpen'
  BY <1>1, <1>2, <1>5 DEF Tracked, Owned, OneOpen
<1>8. OnceEach'
  <2>1. \A x \in calls : Asking(x) /\ x.tag = c.tag => x = c
    BY <1>1, <1>2 DEF Tracked, OnceEach, Asking
  <2>2. \A x \in calls : x.kind = "upload" => x.tag # c.tag
    BY <1>1, <1>2 DEF Tracked, OnceEach, Asking
  <2>3. \A w \in Users : \A i \in DOMAIN outbox[w] : outbox[w][i].handler # c.tag
    BY <1>1, <1>2 DEF Tracked, OnceEach
  <2>4. \A x, y \in calls' : Asking(x) /\ Asking(y) /\ x.tag = y.tag => x = y
    BY <1>1, <1>2, <1>5, <2>1 DEF Tracked, OnceEach, Asking
  <2>5. \A x, y \in calls' : Asking(x) /\ y.kind = "upload" => x.tag # y.tag
    BY <1>1, <1>2, <1>5, <2>2 DEF Tracked, OnceEach, Asking
  <2>6. \A x \in calls' : x.kind # "displayName" =>
          \A w \in Users : \A i \in DOMAIN outbox[w] : outbox[w][i].handler # x.tag
    BY <1>1, <1>2, <1>5, <2>3 DEF Tracked, OnceEach
  <2>7. \A w \in Users : \A i, j \in DOMAIN outbox[w] :
          outbox[w][i].handler = outbox[w][j].handler =>
            i = j \/ outbox[w][i].handler = NoHandler
    BY <1>2 DEF Tracked, OnceEach
  <2>. QED  BY <1>1, <2>4, <2>5, <2>6, <2>7 DEF OnceEach, Asking
<1>9. \A w \in Editors, x \in Visits : Same(w, x)
  <2>1. ASSUME NEW w \in Editors, NEW x \in Visits
        PROVE  Early(w, x)' = Early(w, x) /\ Uploading(w, x)' = Uploading(w, x)
    <3>1. \A t : (\E y \in calls : Asking(y) /\ y.tag = t)
                   <=> (\E y \in calls' : Asking(y) /\ y.tag = t)
      BY <1>1, <1>5 DEF Asking
    <3>2. Uploading(w, x)' = Uploading(w, x)
      BY <1>1, <1>5 DEF Uploading
    <3>. QED  BY <1>1, <3>1, <3>2 DEF Early, Asking
  <2>. QED  BY <1>1, <2>1 DEF Same
<1>10. Reckoned'
  BY <1>1, <1>2, <1>6, <1>9, ReckonedStays
<1>11. Named'
  <2>1. ASSUME NEW a \in Users \ Editors, NEW n \in Names, <<a, n>> \in docs,
               d.free, d.name = n
        PROVE  FALSE
    <3>1. \A i \in DOMAIN outbox[c.tag.user] :
            <<a, n>> \notin outbox[c.tag.user][i].puts \cup outbox[c.tag.user][i].dels
      BY <1>2, <1>3 DEF Named, OwnDocuments
    <3>2. Touching(outbox[c.tag.user], <<a, n>>) = {}
      BY <3>1 DEF Touching
    <3>3. Sees(c.tag.user, <<a, n>>)
      BY <2>1, <3>2 DEF Sees
    <3>4. n # None
      BY EditProfileAssumption
    <3>. QED  BY <1>5, <2>1, <3>3, <3>4 DEF NameFree
  <2>2. \A a \in Users \ Editors, n \in Names : <<a, n>> \in docs' =>
          \A x \in calls' : x.kind = "own" /\ x.free => x.name # n
    BY <1>1, <1>2, <2>1 DEF Named, NamesKept
  <2>. QED  BY <1>1, <1>2, <2>2 DEF Named, OwnDocuments, NamesKept
<1>. QED  BY <1>6, <1>7, <1>8, <1>10, <1>11 DEF Inv, Tracked

\* A batch is appended to the outbox of u.
LEMMA Queued ==
  ASSUME Typed, NEW u \in Users, NEW b \in Batches, Enqueue(u, b)
  PROVE  \E k \in Nat :
           /\ outbox' \in [Users -> Seq(Batches)]
           /\ \A w \in Users \ {u} : outbox'[w] = outbox[w]
           /\ k \in DOMAIN outbox'[u]
           /\ outbox'[u][k] = b
           /\ \A i \in DOMAIN outbox'[u] :
                i = k \/ (i \in DOMAIN outbox[u] /\ outbox'[u][i] = outbox[u][i])
           /\ \A i \in DOMAIN outbox[u] :
                i \in DOMAIN outbox'[u] /\ outbox'[u][i] = outbox[u][i] /\ i # k
<1>. DEFINE k == Len(outbox[u]) + 1
<1>1. outbox[u] \in Seq(Batches) /\ outbox \in [Users -> Seq(Batches)]
  BY DEF Typed
<1>2. outbox' = [outbox EXCEPT ![u] = Append(outbox[u], b)]
  BY DEF Enqueue
<1>3. outbox'[u] = Append(outbox[u], b)
  BY <1>1, <1>2
<1>4. k \in Nat /\ k \in DOMAIN outbox'[u] /\ outbox'[u][k] = b
  BY <1>1, <1>3
<1>5. \A i \in DOMAIN outbox'[u] :
        i = k \/ (i \in DOMAIN outbox[u] /\ outbox'[u][i] = outbox[u][i])
  <2>1. DOMAIN outbox'[u] = 1..k /\ DOMAIN outbox[u] = 1..(k - 1) /\ k \in Nat
    BY <1>1, <1>3
  <2>2. \A i \in DOMAIN outbox[u] : outbox'[u][i] = outbox[u][i]
    BY <1>1, <1>3
  <2>. HIDE DEF k
  <2>3. \A i \in 1..k : i = k \/ i \in 1..(k - 1)
    BY <2>1
  <2>4. ASSUME NEW i \in DOMAIN outbox'[u], i # k
        PROVE  i \in DOMAIN outbox[u] /\ outbox'[u][i] = outbox[u][i]
    <3>1. i \in 1..k
      BY <2>1
    <3>2. i \in DOMAIN outbox[u]
      BY <2>1, <2>3, <2>4, <3>1
    <3>. QED  BY <2>2, <3>2
  <2>. QED  BY <2>4
<1>6. \A i \in DOMAIN outbox[u] :
        i \in DOMAIN outbox'[u] /\ outbox'[u][i] = outbox[u][i] /\ i # k
  BY <1>1, <1>3
<1>7. outbox' \in [Users -> Seq(Batches)] /\ \A w \in Users \ {u} : outbox'[w] = outbox[w]
  BY <1>1, <1>2
<1>. HIDE DEF k
<1>. QED  BY <1>4, <1>5, <1>6, <1>7

LEMMA Step_CommitTexts ==
  ASSUME Inv, NEW c \in calls, CommitTexts(c)
  PROVE  Inv'
<1>. DEFINE u == c.tag.user
            d == [kind |-> "displayName", tag |-> c.tag]
            b == [puts |-> {<<u, c.name>>},
                  dels |-> {<<u, n>> : n \in Names \ {c.name}},
                  handler |-> c.tag]
<1>1. /\ c.kind = "own" /\ c.name # None /\ ~ Taken(c)
      /\ calls' = (calls \ {c}) \cup {d}
      /\ Enqueue(u, b)
      /\ UNCHANGED <<docs, page, covered, alert, saves, failures>>
  BY DEF CommitTexts
<1>2. Tracked /\ Typed /\ Reckoned /\ Named
  BY DEF Inv, Tracked
<1>3. /\ c.tag \in Tags /\ u \in Editors /\ u \in Users /\ c.name \in Names
      /\ c.tag # NoHandler /\ c.tag.user = u /\ c.tag.save <= saves
  <2>1. c.tag.save <= saves
    BY <1>2 DEF Tracked, Owned
  <2>. QED  BY <1>1, <1>2, <2>1, EarlySave, EditProfileAssumption, RequestFields, TagFields DEF Typed
<1>4. d \in Requests /\ d.kind = "displayName" /\ d.tag = c.tag
  BY <1>3 DEF Requests
<1>5. /\ b \in Batches /\ b.puts = {<<u, c.name>>} /\ b.handler = c.tag
      /\ b.puts \cup b.dels \subseteq {u} \X Names
  BY <1>3 DEF Batches
<1>. HIDE DEF b, d
<1>6. PICK k \in Nat :
      /\ outbox' \in [Users -> Seq(Batches)]
      /\ \A w \in Users \ {u} : outbox'[w] = outbox[w]
      /\ k \in DOMAIN outbox'[u]
      /\ outbox'[u][k] = b
      /\ \A i \in DOMAIN outbox'[u] :
           i = k \/ (i \in DOMAIN outbox[u] /\ outbox'[u][i] = outbox[u][i])
      /\ \A i \in DOMAIN outbox[u] :
           i \in DOMAIN outbox'[u] /\ outbox'[u][i] = outbox[u][i] /\ i # k
  <2>. HIDE DEF u
  <2>. QED  BY <1>1, <1>2, <1>3, <1>5, Queued
<1>7. Typed'
  <2>1. IsFiniteSet(calls')
    BY <1>1, <1>2, FS_Subset, FS_AddElement DEF Typed
  <2>. QED  BY <1>1, <1>2, <1>4, <1>6, <2>1 DEF Typed
<1>8. \A x \in calls : x.kind # "displayName" /\ x # c => x.tag # c.tag
  <2>1. \A x \in calls : x.kind \in {"query", "own", "displayName", "upload"}
    BY <1>2, RequestFields DEF Typed
  <2>. QED  BY <1>1, <1>2, <2>1 DEF Tracked, OnceEach, Asking
<1>9. \A w \in Users : \A i \in DOMAIN outbox[w] : outbox[w][i].handler # c.tag
  BY <1>1, <1>2 DEF Tracked, OnceEach
<1>0. ASSUME NEW w \in Users, NEW i \in DOMAIN outbox'[w]
      PROVE  \/ w = u /\ i = k /\ outbox'[w][i] = b
             \/ i \in DOMAIN outbox[w] /\ outbox'[w][i] = outbox[w][i]
  BY <1>6
<1>10. Owned'
  <2>1. \A x \in calls' : x.tag.user \in Editors /\ x.tag.save <= saves
    BY <1>1, <1>2, <1>3, <1>4 DEF Tracked, Owned
  <2>2. ASSUME NEW w \in Users, NEW i \in DOMAIN outbox'[w]
        PROVE  /\ w \in Editors
               /\ outbox'[w][i].handler # NoHandler =>
                    outbox'[w][i].handler.user = w /\ outbox'[w][i].handler.save <= saves
    BY <1>0, <1>2, <1>3, <1>5 DEF Tracked, Owned
  <2>. QED  BY <1>1, <2>1, <2>2 DEF Owned
<1>11. OnceEach'
  <2>1. \A x, y \in calls' : Asking(x) /\ Asking(y) /\ x.tag = y.tag => x = y
    BY <1>1, <1>2, <1>4 DEF Tracked, OnceEach, Asking
  <2>2. \A x, y \in calls' : Asking(x) /\ y.kind = "upload" => x.tag # y.tag
    BY <1>1, <1>2, <1>4 DEF Tracked, OnceEach, Asking
  <2>3. \A x \in calls' : x.kind # "displayName" =>
          \A w \in Users : \A i \in DOMAIN outbox'[w] : outbox'[w][i].handler # x.tag
    <3>1. ASSUME NEW x \in calls', x.kind # "displayName",
                 NEW w \in Users, NEW i \in DOMAIN outbox'[w]
          PROVE  outbox'[w][i].handler # x.tag
      <4>1. x \in calls /\ x # c
        BY <1>1, <1>4, <3>1
      <4>. QED  BY <1>0, <1>2, <1>5, <1>8, <3>1, <4>1 DEF Tracked, OnceEach
    <3>. QED  BY <3>1
  <2>4. \A w \in Users : \A i, j \in DOMAIN outbox'[w] :
          outbox'[w][i].handler = outbox'[w][j].handler =>
            i = j \/ outbox'[w][i].handler = NoHandler
    <3>1. ASSUME NEW w \in Users \ {u}, NEW i \in DOMAIN outbox'[w], NEW j \in DOMAIN outbox'[w],
                 outbox'[w][i].handler = outbox'[w][j].handler
          PROVE  i = j \/ outbox'[w][i].handler = NoHandler
      BY <1>2, <1>6, <3>1 DEF Tracked, OnceEach
    <3>2. ASSUME NEW i \in DOMAIN outbox'[u], NEW j \in DOMAIN outbox'[u],
                 outbox'[u][i].handler = outbox'[u][j].handler
          PROVE  i = j \/ outbox'[u][i].handler = NoHandler
      BY <1>2, <1>3, <1>5, <1>6, <1>9, <3>2 DEF Tracked, OnceEach
    <3>. QED  BY <3>1, <3>2
  <2>. QED  BY <2>1, <2>2, <2>3, <2>4 DEF OnceEach, Asking
<1>12. \A w \in Editors, x \in Visits : Same(w, x)
  <2>1. ASSUME NEW w \in Editors, NEW x \in Visits
        PROVE  Early(w, x)' = Early(w, x)
    <3>1. w \in Users
      BY EditProfileAssumption
    <3>2. ASSUME NEW s, s \in Early(w, x)
          PROVE  s \in Early(w, x)'
      <4>1. CASE Tag(w, x, s) = c.tag
        <5>1. w = u
          BY <4>1 DEF Tag
        <5>. QED  BY <1>5, <1>6, <3>2, <4>1, <5>1 DEF Early
      <4>2. CASE Tag(w, x, s) # c.tag
        BY <1>1, <1>6, <3>1, <3>2, <4>2 DEF Early, Asking
      <4>. QED  BY <4>1, <4>2
    <3>3. ASSUME NEW s, s \in Early(w, x)'
          PROVE  s \in Early(w, x)
      <4>1. CASE \E y \in calls' : Asking(y) /\ y.tag = Tag(w, x, s)
        BY <1>1, <1>4, <3>3, <4>1 DEF Early, Asking
      <4>2. CASE \E i \in DOMAIN outbox'[w] : outbox'[w][i].handler = Tag(w, x, s)
        <5>1. PICK i \in DOMAIN outbox'[w] : outbox'[w][i].handler = Tag(w, x, s)
          BY <4>2
        <5>2. CASE w = u /\ i = k
          <6>1. c.tag = Tag(w, x, s) /\ Asking(c)
            BY <1>1, <1>5, <1>6, <5>1, <5>2 DEF Asking
          <6>. QED  BY <3>3, <6>1 DEF Early
        <5>3. CASE ~ (w = u /\ i = k)
          BY <1>6, <3>1, <3>3, <5>1, <5>3 DEF Early
        <5>. QED  BY <5>2, <5>3
      <4>3. (\E y \in calls' : Asking(y)' /\ y.tag = Tag(w, x, s))
              => \E y \in calls' : Asking(y) /\ y.tag = Tag(w, x, s)
        BY DEF Asking
      <4>. QED  BY <3>3, <4>1, <4>2, <4>3 DEF Early, Tag
    <3>. QED  BY <3>2, <3>3
  <2>2. \A w \in Editors, x \in Visits : Uploading(w, x)' = Uploading(w, x)
    BY <1>1, <1>4 DEF Uploading
  <2>. QED  BY <1>1, <2>1, <2>2 DEF Same
<1>13. Reckoned'
  BY <1>1, <1>2, <1>7, <1>12, ReckonedStays
<1>14. OwnDocuments'
  BY <1>2, <1>5, <1>6 DEF Named, OwnDocuments
<1>15. NamesKept'
  <2>1. ASSUME NEW a \in Users \ Editors, <<a, c.name>> \in docs
        PROVE  FALSE
    <3>1. ~ c.free
      BY <1>1, <1>2, <1>3, <2>1 DEF Named, NamesKept
    <3>2. Sees(u, <<u, c.name>>)
      BY <1>1, <3>1 DEF Taken
    <3>3. <<u, c.name>> \notin docs
      BY <1>2, <1>3, <2>1 DEF Named, NamesKept
    <3>4. \A i \in DOMAIN outbox[u] : <<u, c.name>> \notin outbox[u][i].puts
      BY <1>2, <1>3, <2>1 DEF Named, NamesKept
    <3>. QED  BY <3>2, <3>3, <3>4 DEF Sees, Touching
  <2>2. ASSUME NEW a \in Users \ Editors, NEW n \in Names, <<a, n>> \in docs
        PROVE  /\ \A e \in Users : <<e, n>> \in docs => a = e
               /\ \A w \in Users : \A i \in DOMAIN outbox[w] : <<w, n>> \notin outbox[w][i].puts
               /\ \A x \in calls : x.kind = "own" /\ x.free => x.name # n
    BY <1>2, <2>2 DEF Named, NamesKept
  <2>3. ASSUME NEW a \in Users \ Editors, NEW n \in Names, <<a, n>> \in docs,
               NEW w \in Users, NEW i \in DOMAIN outbox'[w]
        PROVE  <<w, n>> \notin outbox'[w][i].puts
    <3>1. n # c.name
      BY <2>1, <2>3
    <3>. QED  BY <1>0, <1>5, <2>2, <2>3, <3>1
  <2>4. \A x \in calls' : x.kind = "own" => x \in calls
    BY <1>1, <1>4
  <2>. QED  BY <1>1, <2>2, <2>3, <2>4 DEF NamesKept
<1>16. OneOpen'
  BY <1>1, <1>2 DEF Tracked, OneOpen
<1>. QED  BY <1>7, <1>10, <1>11, <1>13, <1>14, <1>15, <1>16 DEF Inv, Tracked, Named

LEMMA Step_DisplayName ==
  ASSUME Inv, NEW c \in calls, DisplayNameSet(c) \/ DisplayNameFailed(c)
  PROVE  Inv'
<1>. DEFINE u == c.tag.user
<1>1. /\ c.kind = "displayName" /\ calls' = calls \ {c}
      /\ (covered' = covered \/ covered' = [covered EXCEPT ![u] = FALSE])
      /\ failures' = 0 => failures = 0 /\ covered' = covered
      /\ failures' \in 0..MaxFailures
      /\ UNCHANGED <<docs, outbox, page, alert, saves>>
  <2>1. failures \in 0..MaxFailures /\ MaxFailures \in Nat
    BY EditProfileAssumption DEF Inv, Tracked, Typed
  <2>2. CASE DisplayNameSet(c)
    <3>. HIDE DEF u
    <3>. QED  BY <2>1, <2>2 DEF DisplayNameSet
  <2>3. CASE DisplayNameFailed(c)
    BY <2>1, <2>3 DEF DisplayNameFailed, removeSpinner, Fail
  <2>. QED  BY <2>2, <2>3
<1>2. Tracked /\ Typed /\ Reckoned /\ Named
  BY DEF Inv, Tracked
<1>3. u \in Editors
  BY <1>2, EarlySave
<1>4. Typed'
  <2>1. calls' \subseteq calls /\ IsFiniteSet(calls')
    BY <1>1, <1>2, FS_Subset DEF Typed
  <2>2. covered' \in [Editors -> BOOLEAN]
    BY <1>1, <1>2 DEF Typed
  <2>. QED  BY <1>1, <1>2, <2>1, <2>2 DEF Typed
<1>5. Tracked' /\ Named'
  BY <1>1, <1>2, <1>4, FewerRequests, NamedStays
<1>6. \A w \in Editors, x \in Visits : Same(w, x)
  BY <1>1 DEF Same, Early, Uploading, Asking
<1>7. \A w \in Editors : covered'[w] => covered[w]
  BY <1>1, <1>2 DEF Typed
<1>8. Reckoned'
  BY <1>1, <1>2, <1>4, <1>6, <1>7, ReckonedStays
<1>. QED  BY <1>5, <1>8 DEF Inv

LEMMA Step_updateUserInfo ==
  ASSUME Inv, NEW u \in Editors, NEW v \in Visits, updateUserInfo(u, v)
  PROVE  Inv'
<1>. DEFINE t == Tag(u, v, saves + 1)
<1>1. PICK n \in Names \cup {None} :
        calls' = calls \cup {[kind |-> "query", name |-> n, tag |-> t]}
  BY DEF updateUserInfo, Tag
<1>2. /\ page[u][v].status = "open" /\ ~ covered[u] /\ ~ alert[u]
      /\ saves < MaxSaves /\ saves' = saves + 1
      /\ covered' = [covered EXCEPT ![u] = TRUE]
      /\ UNCHANGED <<docs, outbox, page, alert, failures>>
  BY DEF updateUserInfo, Free, showSpinner
<1>. DEFINE q == [kind |-> "query", name |-> n, tag |-> t]
<1>3. Tracked /\ Typed /\ Reckoned /\ Named
  BY DEF Inv, Tracked
<1>4. saves \in Nat /\ saves + 1 \in 1..MaxSaves /\ u \in Users
  BY <1>2, <1>3, EditProfileAssumption DEF Typed
<1>5. t \in Tags /\ t # NoHandler /\ t.user = u /\ t.visit = v /\ t.save = saves + 1
  BY <1>4, TagFields
<1>6. q \in Requests /\ q.kind = "query" /\ q.tag = t /\ calls' = calls \cup {q}
  BY <1>1, <1>5 DEF Requests
<1>. HIDE DEF q, t
<1>7. Typed'
  <2>1. IsFiniteSet(calls')
    BY <1>3, <1>6, FS_AddElement DEF Typed
  <2>. QED  BY <1>2, <1>3, <1>4, <1>6, <2>1 DEF Typed
<1>8. /\ \A c \in calls : c.tag # t
      /\ \A w \in Users : \A i \in DOMAIN outbox[w] : outbox[w][i].handler # t
  <2>1. ASSUME NEW c \in calls, c.tag = t
        PROVE  FALSE
    <3>1. c.tag.save <= saves
      BY <1>3 DEF Tracked, Owned
    <3>. QED  BY <1>4, <1>5, <2>1, <3>1
  <2>2. ASSUME NEW w \in Users, NEW i \in DOMAIN outbox[w], outbox[w][i].handler = t
        PROVE  FALSE
    <3>1. t.save <= saves
      BY <1>3, <1>5, <2>2 DEF Tracked, Owned
    <3>. QED  BY <1>4, <1>5, <3>1
  <2>. QED  BY <2>1, <2>2
<1>9. Owned'
  <2>1. \A c \in calls' : c.tag.user \in Editors /\ c.tag.save <= saves'
    <3>1. \A c \in calls : c.tag.user \in Editors /\ c.tag.save <= saves /\ c.tag.save \in Nat
      BY <1>3, EarlySave DEF Tracked, Owned
    <3>. QED  BY <1>2, <1>4, <1>5, <1>6, <3>1
  <2>2. ASSUME NEW w \in Users, NEW i \in DOMAIN outbox[w]
        PROVE  /\ w \in Editors
               /\ outbox[w][i].handler # NoHandler =>
                    outbox[w][i].handler.user = w /\ outbox[w][i].handler.save <= saves'
    <3>1. /\ w \in Editors
          /\ outbox[w][i].handler # NoHandler =>
               outbox[w][i].handler.user = w /\ outbox[w][i].handler.save \in 1..saves
      BY <1>3, EarlySave
    <3>. QED  BY <1>2, <1>4, <3>1
  <2>. QED  BY <1>2, <2>1, <2>2 DEF Owned
<1>10. OnceEach'
  <2>1. \A x, y \in calls' : Asking(x) /\ Asking(y) /\ x.tag = y.tag => x = y
    BY <1>3, <1>6, <1>8 DEF Tracked, OnceEach, Asking
  <2>2. \A x, y \in calls' : Asking(x) /\ y.kind = "upload" => x.tag # y.tag
    BY <1>3, <1>6, <1>8 DEF Tracked, OnceEach, Asking
  <2>3. \A x \in calls' : x.kind # "displayName" =>
          \A w \in Users : \A i \in DOMAIN outbox[w] : outbox[w][i].handler # x.tag
    BY <1>3, <1>6, <1>8 DEF Tracked, OnceEach
  <2>. QED  BY <1>2, <1>3, <2>1, <2>2, <2>3 DEF Tracked, OnceEach, Asking
<1>11. OneOpen'
  BY <1>2, <1>3 DEF Tracked, OneOpen
<1>12. Named'
  BY <1>2, <1>3, <1>6 DEF Named, OwnDocuments, NamesKept
<1>13. \A w \in Editors, x \in Visits :
         /\ Uploading(w, x)' = Uploading(w, x)
         /\ w # u \/ x # v => Early(w, x)' = Early(w, x)
  <2>1. \A w \in Editors, x \in Visits : Uploading(w, x)' = Uploading(w, x)
    BY <1>6 DEF Uploading
  <2>2. ASSUME NEW w \in Editors, NEW x \in Visits, w # u \/ x # v
        PROVE  Early(w, x)' = Early(w, x)
    <3>1. \A s : t # Tag(w, x, s)
      BY <1>5, <2>2 DEF Tag
    <3>. QED  BY <1>2, <1>6, <3>1 DEF Early, Asking
  <2>. QED  BY <2>1, <2>2
<1>14. Early(u, v)' = Early(u, v) \cup {saves + 1} /\ saves + 1 \notin Early(u, v)
  <2>1. saves + 1 \notin Early(u, v)
    BY <1>4, <1>8 DEF Early, t
  <2>2. saves + 1 \in Early(u, v)'
    BY <1>4, <1>6 DEF Early, Asking, t
  <2>3. \A s \in Early(u, v) : s \in Early(u, v)'
    BY <1>2, <1>6 DEF Early, Asking
  <2>4. ASSUME NEW s, s \in Early(u, v)', s # saves + 1
        PROVE  s \in Early(u, v)
    <3>1. t # Tag(u, v, s)
      BY <1>5, <2>4 DEF Tag
    <3>. QED  BY <1>2, <1>6, <2>4, <3>1 DEF Early, Asking
  <2>. QED  BY <2>1, <2>2, <2>3, <2>4
<1>15. Total(u, v)' = Total(u, v) + 4 /\ Total(u, v) \in Nat
  <2>1. Cardinality(Early(u, v)') = Cardinality(Early(u, v)) + 1
    BY <1>3, <1>14, FiniteBoth, FS_AddElement DEF Counts
  <2>. QED  BY <1>2, <1>3, <1>13, <2>1, FiniteBoth DEF Total, Counts
<1>16. \A w \in Editors, x \in Visits : w # u \/ x # v => Same(w, x)
  BY <1>2, <1>13 DEF Same
<1>17. Watching(u, v)'
  <2>1. page[u][v].count \in Nat /\ Total(u, v) >= page[u][v].count
    BY <1>3, FiniteBoth DEF Counts, Total
  <2>. QED  BY <1>2, <1>15, <2>1 DEF Watching
<1>18. ASSUME failures = 0, NEW x \in Visits
       PROVE  Calm(u, x)'
  <2>1. Calm(u, x)
    BY <1>3, <1>18 DEF Reckoned, Undisturbed
  <2>2. CASE x # v
    <3>1. page[u][x].status # "open"
      BY <1>2, <1>3, <2>2 DEF Tracked, OneOpen
    <3>. QED  BY <1>2, <1>16, <2>1, <2>2, <3>1, CalmStays
  <2>3. CASE x = v
    <3>1. Total(u, v) = 0
      BY <1>2, <2>1, <2>3 DEF Calm, Waiting
    <3>2. page[u][v].count = 0 /\ Total(u, v)' = 4
      BY <1>3, <1>15, <3>1, NoTotal
    <3>3. covered'[u] /\ ~ alert'[u]
      BY <1>2, <1>3 DEF Typed
    <3>4. Early(u, v)' # {}
      BY <1>14
    <3>5. Waiting(u, v)'
      BY <1>2, <3>2, <3>3, <3>4 DEF Waiting
    <3>. QED  BY <1>2, <2>3, <3>5 DEF Calm
  <2>. QED  BY <2>2, <2>3
<1>19. \A x \in Visits : Total(u, x)' <= Total(u, x) + 4 * (saves' - saves)
  <2>1. ASSUME NEW x \in Visits, x # v
        PROVE  Total(u, x)' <= Total(u, x) + 4 * (saves' - saves)
    <3>1. Total(u, x)' = Total(u, x) /\ Total(u, x) \in Nat
      BY <1>3, <1>16, <2>1, SameTotal, FiniteBoth DEF Counts
    <3>. QED  BY <1>2, <1>4, <3>1
  <2>. QED  BY <1>2, <1>4, <1>15, <2>1
<1>20. \A w \in Editors \ {u} : covered'[w] = covered[w] /\ alert'[w] = alert[w]
  BY <1>2, <1>3 DEF Typed
<1>21. \A w \in Editors \ {u}, x \in Visits : Same(w, x) /\ page'[w][x] = page[w][x]
  BY <1>2, <1>16
<1>22. Reckoned'
  <2>1. saves' >= saves /\ (failures' = 0 => failures = 0 /\ \A x \in Visits : Calm(u, x)')
    BY <1>2, <1>4, <1>18
  <2>. QED  BY <1>3, <1>7, <1>17, <1>19, <1>20, <1>21, <2>1, ReckonedAt
<1>. QED  BY <1>7, <1>9, <1>10, <1>11, <1>12, <1>22 DEF Inv, Tracked

------------------------------------------------------------------------------
(* The server takes or refuses the oldest batch *)

LEMMA Dequeued ==
  ASSUME Typed, NEW u \in Users, outbox[u] # <<>>,
         outbox' = [outbox EXCEPT ![u] = Tail(@)]
  PROVE  /\ outbox' \in [Users -> Seq(Batches)]
         /\ \A w \in Users \ {u} : outbox'[w] = outbox[w]
         /\ 1 \in DOMAIN outbox[u] /\ Head(outbox[u]) = outbox[u][1]
         /\ \A i \in DOMAIN outbox'[u] :
              i + 1 \in DOMAIN outbox[u] /\ i + 1 # 1 /\ outbox'[u][i] = outbox[u][i + 1]
         /\ \A i, j \in DOMAIN outbox'[u] : i + 1 = j + 1 => i = j
         /\ \A i \in DOMAIN outbox[u] : i # 1 =>
              i - 1 \in DOMAIN outbox'[u] /\ outbox'[u][i - 1] = outbox[u][i]
<1>1. outbox[u] \in Seq(Batches) /\ outbox \in [Users -> Seq(Batches)]
  BY DEF Typed
<1>2. outbox'[u] = Tail(outbox[u])
  BY <1>1
<1>3. /\ Tail(outbox[u]) \in Seq(Batches)
      /\ DOMAIN outbox[u] = 1..Len(outbox[u]) /\ Len(outbox[u]) \in Nat \ {0}
      /\ DOMAIN outbox'[u] = 1..(Len(outbox[u]) - 1)
      /\ \A i \in DOMAIN outbox'[u] : outbox'[u][i] = outbox[u][i + 1]
  BY <1>1, <1>2
<1>4. Head(outbox[u]) = outbox[u][1]
  BY <1>1
<1>5. outbox' \in [Users -> Seq(Batches)] /\ \A w \in Users \ {u} : outbox'[w] = outbox[w]
  BY <1>1, <1>3
<1>6. \A i \in DOMAIN outbox'[u] :
        i + 1 \in DOMAIN outbox[u] /\ i + 1 # 1 /\ outbox'[u][i] = outbox[u][i + 1]
  BY <1>3
<1>7. ASSUME NEW i \in DOMAIN outbox[u], i # 1
      PROVE  i - 1 \in DOMAIN outbox'[u] /\ outbox'[u][i - 1] = outbox[u][i]
  <2>1. i \in 1..Len(outbox[u]) /\ i - 1 \in 1..(Len(outbox[u]) - 1) /\ (i - 1) + 1 = i
    BY <1>3, <1>7
  <2>2. i - 1 \in DOMAIN outbox'[u]
    BY <1>3, <2>1
  <2>3. outbox'[u][i - 1] = outbox[u][(i - 1) + 1]
    BY <1>3, <2>2
  <2>. QED  BY <2>1, <2>2, <2>3
<1>8. \A i, j \in DOMAIN outbox'[u] : i + 1 = j + 1 => i = j
  BY <1>3
<1>. QED  BY <1>3, <1>4, <1>5, <1>6, <1>7, <1>8

\* What is left of the outboxes.
LEMMA QueueTail ==
  ASSUME Tracked, NEW u \in Users, outbox[u] # <<>>,
         outbox' = [outbox EXCEPT ![u] = Tail(@)]
  PROVE  LET t == Head(outbox[u]).handler IN
         /\ outbox' \in [Users -> Seq(Batches)]
         /\ 1 \in DOMAIN outbox[u] /\ Head(outbox[u]) = outbox[u][1]
         /\ \A w \in Users : \A i \in DOMAIN outbox'[w] :
              \E j \in DOMAIN outbox[w] :
                outbox'[w][i] = outbox[w][j] /\ (t # NoHandler => outbox[w][j].handler # t)
         /\ \A w \in Users : \A j \in DOMAIN outbox[w] :
              \/ w = u /\ j = 1
              \/ \E i \in DOMAIN outbox'[w] : outbox'[w][i] = outbox[w][j]
         /\ \A w \in Users : \A i, j \in DOMAIN outbox'[w] :
              outbox'[w][i].handler = outbox'[w][j].handler =>
                i = j \/ outbox'[w][i].handler = NoHandler
<1>. DEFINE t == Head(outbox[u]).handler
<1>1. /\ outbox' \in [Users -> Seq(Batches)]
      /\ \A w \in Users \ {u} : outbox'[w] = outbox[w]
      /\ 1 \in DOMAIN outbox[u] /\ Head(outbox[u]) = outbox[u][1]
      /\ \A i \in DOMAIN outbox'[u] :
           i + 1 \in DOMAIN outbox[u] /\ i + 1 # 1 /\ outbox'[u][i] = outbox[u][i + 1]
      /\ \A i, j \in DOMAIN outbox'[u] : i + 1 = j + 1 => i = j
      /\ \A i \in DOMAIN outbox[u] : i # 1 =>
           i - 1 \in DOMAIN outbox'[u] /\ outbox'[u][i - 1] = outbox[u][i]
  BY Dequeued DEF Tracked
<1>2. \A w \in Users : \A i, j \in DOMAIN outbox[w] :
        outbox[w][i].handler = outbox[w][j].handler =>
          i = j \/ outbox[w][i].handler = NoHandler
  BY DEF Tracked, OnceEach
<1>3. ASSUME t # NoHandler, NEW w \in Users \ {u}, NEW j \in DOMAIN outbox[w]
      PROVE  outbox[w][j].handler # t
  <2>1. t.user = u
    BY <1>1, <1>3 DEF Tracked, Owned
  <2>2. outbox[w][j].handler # NoHandler => outbox[w][j].handler.user = w
    BY <1>3 DEF Tracked, Owned
  <2>. QED  BY <1>3, <2>1, <2>2
<1>4. ASSUME NEW w \in Users, NEW i \in DOMAIN outbox'[w]
      PROVE  \E j \in DOMAIN outbox[w] :
               outbox'[w][i] = outbox[w][j] /\ (t # NoHandler => outbox[w][j].handler # t)
  <2>1. CASE w = u
    BY <1>1, <1>2, <2>1
  <2>2. CASE w # u
    BY <1>1, <1>3, <2>2
  <2>. QED  BY <2>1, <2>2
<1>5. ASSUME NEW w \in Users, NEW i \in DOMAIN outbox'[w], NEW j \in DOMAIN outbox'[w],
             outbox'[w][i].handler = outbox'[w][j].handler
      PROVE  i = j \/ outbox'[w][i].handler = NoHandler
  <2>1. CASE w = u
    BY <1>1, <1>2, <1>5, <2>1
  <2>2. CASE w # u
    BY <1>1, <1>2, <1>5, <2>2
  <2>. QED  BY <2>1, <2>2
<1>6. ASSUME NEW w \in Users, NEW j \in DOMAIN outbox[w], ~ (w = u /\ j = 1)
      PROVE  \E i \in DOMAIN outbox'[w] : outbox'[w][i] = outbox[w][j]
  <2>1. CASE w = u
    <3>1. j - 1 \in DOMAIN outbox'[w] /\ outbox'[w][j - 1] = outbox[w][j]
      BY <1>1, <1>6, <2>1
    <3>. QED  BY <3>1
  <2>2. CASE w # u
    BY <1>1, <2>2
  <2>. QED  BY <2>1, <2>2
<1>7. \A w \in Users : \A j \in DOMAIN outbox[w] :
        \/ w = u /\ j = 1
        \/ \E i \in DOMAIN outbox'[w] : outbox'[w][i] = outbox[w][j]
  BY <1>6
<1>. QED  BY <1>1, <1>4, <1>5, <1>7

\* The save of the oldest batch is the only one that ends being early.
LEMMA EarlyTail ==
  ASSUME Tracked, NEW u \in Users, outbox[u] # <<>>,
         outbox' = [outbox EXCEPT ![u] = Tail(@)],
         \A c : Asking(c) => (c \in calls' <=> c \in calls)
  PROVE  LET t == Head(outbox[u]).handler IN
         /\ t = NoHandler =>
              \A w \in Editors, x \in Visits : Early(w, x)' = Early(w, x)
         /\ t # NoHandler =>
              \A w \in Editors, x \in Visits :
                Early(w, x)' = IF w = u /\ x = t.visit THEN Early(w, x) \ {t.save}
                               ELSE Early(w, x)
<1>. DEFINE t == Head(outbox[u]).handler
<1>1. /\ 1 \in DOMAIN outbox[u] /\ t = outbox[u][1].handler
      /\ \A w \in Users : \A i \in DOMAIN outbox'[w] :
              \E j \in DOMAIN outbox[w] :
                outbox'[w][i] = outbox[w][j] /\ (t # NoHandler => outbox[w][j].handler # t)
      /\ \A w \in Users : \A j \in DOMAIN outbox[w] :
              \/ w = u /\ j = 1
              \/ \E i \in DOMAIN outbox'[w] : outbox'[w][i] = outbox[w][j]
  BY QueueTail
<1>2. t # NoHandler =>
        /\ t = Tag(u, t.visit, t.save) /\ t.user = u /\ t.visit \in Visits
        /\ t.save \in Early(u, t.visit)
  BY <1>1, EarlySave
<1>3. t # NoHandler => \A c \in calls : Asking(c) => c.tag # t
  BY <1>1 DEF Tracked, OnceEach, Asking
<1>. HIDE DEF t
<1>4. ASSUME NEW w \in Editors, NEW x \in Visits, NEW s \in Early(w, x)',
             t # NoHandler, t = Tag(w, x, s)
      PROVE  FALSE
  <2>1. w \in Users
    BY EditProfileAssumption
  <2>2. CASE \E c \in calls' : Asking(c)' /\ c.tag = Tag(w, x, s)
    BY <1>3, <1>4, <2>2 DEF Asking
  <2>3. CASE \E i \in DOMAIN outbox'[w] : outbox'[w][i].handler = Tag(w, x, s)
    BY <1>1, <1>4, <2>1, <2>3
  <2>. QED  BY <2>2, <2>3 DEF Early, Tag
<1>5. ASSUME NEW w \in Editors, NEW x \in Visits, NEW s \in Early(w, x)'
      PROVE  s \in Early(w, x)
  <2>1. w \in Users
    BY EditProfileAssumption
  <2>2. CASE \E c \in calls' : Asking(c)' /\ c.tag = Tag(w, x, s)
    BY <2>2 DEF Asking, Early
  <2>3. CASE \E i \in DOMAIN outbox'[w] : outbox'[w][i].handler = Tag(w, x, s)
    BY <1>1, <2>1, <2>3 DEF Early
  <2>. QED  BY <2>2, <2>3 DEF Early, Tag
<1>6. ASSUME NEW w \in Editors, NEW x \in Visits, NEW s \in Early(w, x),
             t = NoHandler \/ t # Tag(w, x, s)
      PROVE  s \in Early(w, x)'
  <2>1. w \in Users /\ s \in 1..MaxSaves
    BY EditProfileAssumption DEF Early
  <2>2. CASE \E c \in calls : Asking(c) /\ c.tag = Tag(w, x, s)
    BY <2>1, <2>2 DEF Asking, Early, Tag
  <2>3. CASE \E i \in DOMAIN outbox[w] : outbox[w][i].handler = Tag(w, x, s)
    <3>1. PICK i \in DOMAIN outbox[w] : outbox[w][i].handler = Tag(w, x, s)
      BY <2>3
    <3>2. ~ (w = u /\ i = 1)
      BY <1>1, <1>6, <2>1, <3>1, TagFields
    <3>. QED  BY <1>1, <2>1, <3>1, <3>2 DEF Early, Tag
  <2>. QED  BY <2>2, <2>3 DEF Early
<1>7. \A w, x, s : t = Tag(w, x, s) => w = t.user /\ x = t.visit /\ s = t.save
  BY DEF Tag
<1>8. CASE t = NoHandler
  <2>1. \A w \in Editors, x \in Visits : Early(w, x)' = Early(w, x)
    BY <1>5, <1>6, <1>8
  <2>. QED  BY <1>8, <2>1 DEF t
<1>9. CASE t # NoHandler
  <2>1. ASSUME NEW w \in Editors, NEW x \in Visits, w = u, x = t.visit
        PROVE  Early(w, x)' = Early(w, x) \ {t.save}
    <3>1. \A s \in Early(w, x)' : s \in Early(w, x) /\ s # t.save
      BY <1>2, <1>4, <1>5, <1>9, <2>1
    <3>2. \A s \in Early(w, x) : s # t.save => s \in Early(w, x)'
      BY <1>6, <1>7, <1>9, <2>1
    <3>. QED  BY <3>1, <3>2
  <2>2. \A w \in Editors, x \in Visits :
          ~ (w = u /\ x = t.visit) => Early(w, x)' = Early(w, x)
    BY <1>2, <1>5, <1>6, <1>7, <1>9
  <2>. QED  BY <1>9, <2>1, <2>2 DEF t
<1>. QED  BY <1>8, <1>9

------------------------------------------------------------------------------
(* A picture settles *)

LEMMA Settling ==
  ASSUME Tracked, Reckoned, Typed', NEW u \in Editors, NEW v \in Visits,
         NEW next \in [Editors -> [Visits -> PageT]], Settle(u, v, next),
         next[u][v].status = page[u][v].status,
         next[u][v].picked = page[u][v].picked,
         \A w \in Editors, x \in Visits : w # u \/ x # v =>
           /\ next[w][x] = page[w][x]
           /\ Early(w, x)' = Early(w, x) /\ Uploading(w, x)' = Uploading(w, x),
         Total(u, v)' = Total(u, v),
         UNCHANGED <<saves, failures>>,
         failures = 0 =>
           /\ page[u][v].status = "open"
           /\ Waiting(u, v)
           /\ Early(u, v)' = {} =>
                page[u][v].picked \subseteq
                  next[u][v].stored \cup {c.slot : c \in Uploading(u, v)'}
  PROVE  Reckoned' /\ OneOpen'
<1>1. /\ \A w \in Editors, x \in Visits :
              /\ page'[w][x].count = next[w][x].count
              /\ page'[w][x].picked = next[w][x].picked
              /\ page'[w][x].stored = next[w][x].stored
              /\ page'[w][x].status # next[w][x].status =>
                   /\ w = u /\ x = v
                   /\ next[u][v].count = 4 /\ next[u][v].status = "open"
                   /\ page'[u][v].status = "dismissed"
      /\ \A w \in Editors \ {u} : covered'[w] = covered[w] /\ alert'[w] = alert[w]
      /\ next[u][v].count = 4 => ~ covered'[u]
      /\ next[u][v].count = 4 /\ next[u][v].status = "open" /\ ~ alert[u] =>
           page'[u][v].status = "dismissed"
      /\ next[u][v].count # 4 => UNCHANGED <<covered, alert>> /\ page' = next
  BY Settled DEF Tracked
<1>2. Typed
  BY DEF Tracked
<1>3. \A w \in Editors, x \in Visits :
        w # u \/ x # v => Same(w, x) /\ page'[w][x].status = page[w][x].status
                          /\ page'[w][x].picked = page[w][x].picked
                          /\ page'[w][x].stored = page[w][x].stored
  BY <1>1 DEF Same
<1>4. \A w \in Editors, x \in Visits : w # u \/ x # v => page'[w][x] = page[w][x]
  <2>1. CASE page' = next
    BY <2>1
  <2>2. CASE page' = [next EXCEPT ![u][v].status = "dismissed"]
    BY <2>2
  <2>. QED  BY <2>1, <2>2 DEF Settle
<1>5. OneOpen'
  <2>1. \A w \in Editors, x \in Visits :
          page'[w][x].status = "open" => page[w][x].status = "open"
    BY <1>1, <1>3
  <2>. QED  BY <2>1 DEF Tracked, OneOpen
<1>6. \A w \in Editors, x \in Visits : Total(w, x)' = Total(w, x)
  <2>1. ASSUME NEW w \in Editors, NEW x \in Visits, w # u \/ x # v
        PROVE  Total(w, x)' = Total(w, x)
    BY <1>3, <2>1, SameTotal
  <2>. QED  BY <2>1
<1>7. ASSUME covered'[u]
      PROVE  \E x \in Visits : Watching(u, x)'
  <2>1. next[u][v].count # 4 /\ page' = next /\ covered' = covered
    BY <1>1, <1>7
  <2>2. PICK x \in Visits : Watching(u, x)
    BY <1>7, <2>1 DEF Reckoned, Watched
  <2>3. CASE x = v
    BY <1>1, <1>6, <2>1, <2>2, <2>3 DEF Watching
  <2>4. CASE x # v
    BY <1>4, <1>6, <2>2, <2>4 DEF Watching
  <2>. QED  BY <2>3, <2>4
<1>8. ASSUME failures = 0, NEW x \in Visits
      PROVE  Calm(u, x)'
  <2>1. /\ page[u][v].status = "open" /\ Waiting(u, v)
        /\ Total(u, v)' = 4
    BY <1>8 DEF Waiting
  <2>2. CASE x # v
    <3>1. page[u][x].status # "open"
      BY <2>1, <2>2 DEF Tracked, OneOpen
    <3>2. Calm(u, x)
      BY <1>8 DEF Reckoned, Undisturbed
    <3>. QED  BY <1>3, <1>4, <2>2, <3>1, <3>2, CalmStays
  <2>3. CASE x = v /\ next[u][v].count = 4
    <3>1. page'[u][v].status = "dismissed" /\ page'[u][v].count = 4
      BY <1>1, <2>1, <2>3 DEF Waiting
    <3>2. Cardinality(Early(u, v)') = 0 /\ Cardinality(Uploading(u, v)') = 0
      <4>1. /\ Cardinality(Uploading(u, v)') \in Nat /\ Cardinality(Early(u, v)') \in Nat
        BY FiniteBoth DEF Counts
      <4>2. 4 = 4 + Cardinality(Uploading(u, v)') + 4 * Cardinality(Early(u, v)')
        BY <2>1, <3>1 DEF Total
      <4>3. \A a, b \in Nat : 4 = 4 + a + 4 * b => a = 0 /\ b = 0
        OBVIOUS
      <4>. QED  BY <4>1, <4>2, <4>3
    <3>3. Early(u, v)' = {} /\ Uploading(u, v)' = {}
      BY <3>2, FiniteBoth, FS_EmptySet DEF Counts
    <3>4. page[u][v].picked \subseteq next[u][v].stored
      BY <1>8, <3>3
    <3>. QED  BY <1>1, <2>3, <3>1, <3>3, <3>4 DEF Calm
  <2>4. CASE x = v /\ next[u][v].count # 4
    <3>1. page' = next /\ covered' = covered /\ alert' = alert
      BY <1>1, <2>4
    <3>2. Waiting(u, v)'
      BY <1>8, <2>1, <2>4, <3>1 DEF Waiting
    <3>. QED  BY <2>1, <2>4, <3>1, <3>2 DEF Calm
  <2>. QED  BY <2>2, <2>3, <2>4
<1>9. saves \in Nat /\ saves' = saves
  BY <1>2 DEF Typed
<1>10. \A x \in Visits : Total(u, x)' <= Total(u, x) + 4 * (saves' - saves)
  BY <1>2, <1>6, <1>9, FiniteBoth DEF Counts
<1>11. \A w \in Editors \ {u}, x \in Visits : Same(w, x) /\ page'[w][x] = page[w][x]
  BY <1>3, <1>4
<1>12. Reckoned'
  <2>1. saves' >= saves /\ (failures' = 0 => failures = 0 /\ \A x \in Visits : Calm(u, x)')
    BY <1>8, <1>9
  <2>. QED  BY <1>1, <1>2, <1>7, <1>10, <1>11, <2>1, ReckonedAt
<1>. QED  BY <1>5, <1>12

LEMMA OneMore ==
  ASSUME NEW p \in PageT, NEW slot \in Slots
  PROVE  LET P == [p EXCEPT !.count = @ + 1, !.stored = @ \cup {slot}] IN
         /\ P \in PageT /\ P.count = p.count + 1 /\ P.status = p.status
         /\ P.picked = p.picked /\ P.stored = p.stored \cup {slot}
<1>. DEFINE Q == [p EXCEPT !.count = @ + 1]
<1>1. /\ Q \in PageT /\ Q.count = p.count + 1 /\ Q.status = p.status
      /\ Q.picked = p.picked /\ Q.stored = p.stored
  BY DEF PageT
<1>2. [p EXCEPT !.count = @ + 1, !.stored = @ \cup {slot}]
        = [Q EXCEPT !.stored = @ \cup {slot}]
  BY DEF PageT
<1>. HIDE DEF Q
<1>. QED  BY <1>1, <1>2 DEF PageT

LEMMA Step_uploadData ==
  ASSUME Inv, NEW c \in calls, uploadData(c)
  PROVE  Inv'
<1>. DEFINE u == c.tag.user  v == c.tag.visit
            P == [page[u][v] EXCEPT !.count = @ + 1, !.stored = @ \cup {c.slot}]
            next == [page EXCEPT ![u][v] = P]
<1>1. Tracked /\ Typed /\ Reckoned /\ Named
  BY DEF Inv, Tracked
<1>2. u \in Editors /\ v \in Visits
  BY <1>1, EarlySave
<1>3. page \in [Editors -> [Visits -> PageT]] /\ page[u] \in [Visits -> PageT]
      /\ page[u][v] \in PageT
  BY <1>1, <1>2 DEF Typed
<1>4. /\ c.kind = "upload" /\ calls' = calls \ {c}
      /\ UNCHANGED <<docs, outbox, saves, failures>>
  BY DEF uploadData
<1>5. c.slot \in Slots
  BY <1>1, <1>4, RequestFields DEF Typed
<1>6. Settle(u, v, next)
  <2>1. next = [page EXCEPT ![u][v].count = @ + 1, ![u][v].stored = @ \cup {c.slot}]
    BY <1>2, <1>3
  <2>. QED  BY <2>1 DEF uploadData
<1>7. /\ P \in PageT /\ P.count = page[u][v].count + 1 /\ P.status = page[u][v].status
      /\ P.picked = page[u][v].picked /\ P.stored = page[u][v].stored \cup {c.slot}
  BY <1>3, <1>5, OneMore
<1>. HIDE DEF P
<1>8. /\ next \in [Editors -> [Visits -> PageT]] /\ next[u][v] = P
      /\ \A w \in Editors, x \in Visits : w # u \/ x # v => next[w][x] = page[w][x]
  BY <1>2, <1>3, <1>7
<1>. HIDE DEF next, u, v
<1>9. /\ page' \in [Editors -> [Visits -> PageT]]
      /\ covered' \in [Editors -> BOOLEAN] /\ alert' \in [Editors -> BOOLEAN]
      /\ page'[u][v].count = next[u][v].count
      /\ \A w \in Editors, x \in Visits :
           page'[w][x].status # next[w][x].status => page'[w][x].status = "dismissed"
  BY <1>1, <1>2, <1>6, <1>8, Settled
<1>10. Typed'
  <2>1. calls' \subseteq calls /\ IsFiniteSet(calls')
    BY <1>1, <1>4, FS_Subset DEF Typed
  <2>. QED  BY <1>1, <1>4, <1>9, <2>1 DEF Typed
<1>11. Tracked'
  <2>1. \A w \in Editors, x \in Visits :
          page'[w][x].status = "open" => page[w][x].status = "open"
    BY <1>2, <1>7, <1>8, <1>9
  <2>. QED  BY <1>1, <1>4, <1>10, <2>1, FewerRequests
<1>12. Named'
  BY <1>1, <1>4, NamedStays
<1>13. /\ \A w \in Editors, x \in Visits :
            /\ Early(w, x)' = Early(w, x)
            /\ w # u \/ x # v => Uploading(w, x)' = Uploading(w, x)
       /\ c \in Uploading(u, v) /\ Uploading(u, v)' = Uploading(u, v) \ {c}
  <2>1. \A d : Asking(d) => (d \in calls' <=> d \in calls)
    BY <1>4 DEF Asking
  <2>2. \A w \in Editors, x \in Visits : Early(w, x)' = Early(w, x)
    BY <1>4, <2>1 DEF Early, Asking
  <2>3. \A w \in Editors, x \in Visits :
          w # u \/ x # v => Uploading(w, x)' = Uploading(w, x)
    BY <1>4 DEF Uploading, u, v
  <2>4. c \in Uploading(u, v) /\ Uploading(u, v)' = Uploading(u, v) \ {c}
    BY <1>4 DEF Uploading, u, v
  <2>. QED  BY <2>2, <2>3, <2>4
<1>14. /\ Cardinality(Uploading(u, v)') = Cardinality(Uploading(u, v)) - 1
       /\ Total(u, v)' = Total(u, v)
  <2>1. Cardinality(Uploading(u, v)') = Cardinality(Uploading(u, v)) - 1
    BY <1>1, <1>2, <1>10, <1>13, UploadLess
  <2>2. /\ page[u][v].count \in Nat /\ Cardinality(Uploading(u, v)) \in Nat
        /\ Cardinality(Early(u, v)) \in Nat
    BY <1>1, <1>2, FiniteBoth DEF Counts
  <2>3. page'[u][v].count = page[u][v].count + 1 /\ Early(u, v)' = Early(u, v)
    BY <1>2, <1>7, <1>8, <1>9, <1>13
  <2>. QED  BY <2>1, <2>2, <2>3 DEF Total
<1>15. ASSUME failures = 0
       PROVE  /\ page[u][v].status = "open"
              /\ Waiting(u, v)
              /\ Early(u, v)' = {} =>
                   page[u][v].picked \subseteq
                     next[u][v].stored \cup {d.slot : d \in Uploading(u, v)'}
  <2>1. Calm(u, v)
    BY <1>1, <1>2, <1>15 DEF Reckoned, Undisturbed
  <2>2. Total(u, v) # 0
    BY <1>1, <1>2, <1>13, NoTotal
  <2>3. page[u][v].status = "open" /\ Waiting(u, v)
    BY <1>13, <2>1, <2>2 DEF Calm
  <2>4. ASSUME Early(u, v)' = {}
        PROVE  page[u][v].picked \subseteq
                 next[u][v].stored \cup {d.slot : d \in Uploading(u, v)'}
    <3>1. page[u][v].picked \subseteq page[u][v].stored \cup {d.slot : d \in Uploading(u, v)}
      BY <1>2, <1>13, <2>3, <2>4 DEF Waiting
    <3>. QED  BY <1>7, <1>8, <1>13, <3>1
  <2>. QED  BY <2>3, <2>4
<1>16. Reckoned'
  BY <1>1, <1>2, <1>4, <1>6, <1>7, <1>8, <1>10, <1>13, <1>14, <1>15, Settling
<1>. QED  BY <1>11, <1>12, <1>16 DEF Inv

\* The uploads of a save, one per picture.
LEMMA Uploads ==
  ASSUME NEW t \in Tags, NEW picked \in SUBSET Slots
  PROVE  LET U == [kind : {"upload"}, tag : {t}, slot : picked] IN
         /\ IsFiniteSet(U) /\ Cardinality(U) = Cardinality(picked)
         /\ U \subseteq Requests
         /\ \A c \in U : c.kind = "upload" /\ c.tag = t
         /\ picked \subseteq {c.slot : c \in U}
<1>. DEFINE U == [kind : {"upload"}, tag : {t}, slot : picked]
            F == [slot \in picked |-> [kind |-> "upload", tag |-> t, slot |-> slot]]
<1>1. F \in [picked -> U]
  OBVIOUS
<1>2. \A a, b \in picked : F[a] = F[b] => a = b
  <2>1. \A a \in picked : F[a].slot = a
    OBVIOUS
  <2>. HIDE DEF F
  <2>. QED  BY <2>1
<1>3. \A c \in U : \E a \in picked : F[a] = c
  <2> SUFFICES ASSUME NEW c \in U
               PROVE  \E a \in picked : F[a] = c
    OBVIOUS
  <2>1. c.slot \in picked /\ c = [kind |-> "upload", tag |-> t, slot |-> c.slot]
    OBVIOUS
  <2>2. F[c.slot] = c
    BY <2>1
  <2>. QED  BY <2>1, <2>2
<1>4. IsFiniteSet(picked)
  BY EditProfileAssumption, FS_Subset
<1>5. \A a \in picked : F[a].slot = a /\ F[a] \in U
  OBVIOUS
<1>6. U \subseteq Requests /\ \A c \in U : c.kind = "upload" /\ c.tag = t
  BY DEF Requests
<1>. HIDE DEF F, U
<1>7. F \in Bijection(picked, U)
  BY <1>1, <1>2, <1>3, Fun_IsBij
<1>8. ExistsBijection(picked, U)
  BY <1>7, Fun_ExistsBij
<1>9. IsFiniteSet(U) /\ Cardinality(U) = Cardinality(picked)
  BY <1>4, <1>8, FS_Bijection
<1>10. picked \subseteq {c.slot : c \in U}
  BY <1>5
<1>. QED  BY <1>6, <1>9, <1>10 DEF U

\* The pictures of a page and those it counts at once are all of them.
LEMMA CountedPictures ==
  ASSUME NEW p \in PageT
  PROVE  /\ Counted(p) \in Nat /\ Cardinality(p.picked) \in Nat
         /\ Counted(p) + Cardinality(p.picked) = 4
         /\ IsFiniteSet(p.picked)
<1>1. p.picked \subseteq Slots /\ IsFiniteSet(Slots) /\ Cardinality(Slots) = 4
  BY EditProfileAssumption DEF PageT
<1>2. IsFiniteSet(p.picked) /\ Cardinality(p.picked) \in Nat
  BY <1>1, FS_Subset, FS_CardinalityType
<1>3. Slots \cap p.picked = p.picked
  BY <1>1
<1>4. /\ IsFiniteSet(Slots \ p.picked)
      /\ Cardinality(Slots \ p.picked) = Cardinality(Slots) - Cardinality(p.picked)
  BY <1>1, <1>3, FS_Difference
<1>5. Cardinality(Slots \ p.picked) \in Nat
  BY <1>4, FS_CardinalityType
<1>. QED  BY <1>1, <1>2, <1>4, <1>5 DEF Counted

\* A batch leaves the outbox of u.
LEMMA BatchNamed ==
  ASSUME Tracked, Named, NEW u \in Users, outbox[u] # <<>>,
         outbox' = [outbox EXCEPT ![u] = Tail(@)],
         \/ docs' = docs
         \/ docs' = (docs \ Head(outbox[u]).dels) \cup Head(outbox[u]).puts,
         \A c \in calls' : c.kind = "own" => c \in calls
  PROVE  Named'
<1>1. /\ 1 \in DOMAIN outbox[u] /\ Head(outbox[u]) = outbox[u][1]
      /\ \A w \in Users : \A i \in DOMAIN outbox'[w] :
              \E j \in DOMAIN outbox[w] : outbox'[w][i] = outbox[w][j]
  <2>1. 1 \in DOMAIN outbox[u] /\ Head(outbox[u]) = outbox[u][1]
    BY QueueTail
  <2>2. \A w \in Users : \A i \in DOMAIN outbox'[w] :
          \E j \in DOMAIN outbox[w] :
            /\ outbox'[w][i] = outbox[w][j]
            /\ Head(outbox[u]).handler # NoHandler =>
                 outbox[w][j].handler # Head(outbox[u]).handler
    BY QueueTail
  <2>. QED  BY <2>1, <2>2
<1>2. OwnDocuments'
  BY <1>1 DEF Named, OwnDocuments
<1>3. u \in Editors /\ Head(outbox[u]).puts \subseteq {u} \X Names
  BY <1>1 DEF Tracked, Owned, Named, OwnDocuments
<1>4. ASSUME NEW a \in Users \ Editors, NEW n \in Names, <<a, n>> \in docs'
      PROVE  /\ \A b \in Users : <<b, n>> \in docs' => a = b
             /\ \A w \in Users : \A i \in DOMAIN outbox'[w] : <<w, n>> \notin outbox'[w][i].puts
             /\ \A c \in calls' : c.kind = "own" /\ c.free => c.name # n
  <2>1. <<a, n>> \in docs
    BY <1>3, <1>4
  <2>2. /\ \A b \in Users : <<b, n>> \in docs => a = b
        /\ \A w \in Users : \A i \in DOMAIN outbox[w] : <<w, n>> \notin outbox[w][i].puts
        /\ \A c \in calls : c.kind = "own" /\ c.free => c.name # n
    BY <1>4, <2>1 DEF Named, NamesKept
  <2>3. \A w \in Users : \A i \in DOMAIN outbox'[w] : <<w, n>> \notin outbox'[w][i].puts
    BY <1>1, <2>2
  <2>4. \A b \in Users : <<b, n>> \in docs' => a = b
    <3>1. ASSUME NEW b \in Users, <<b, n>> \in docs', <<b, n>> \notin docs
          PROVE  FALSE
      <4>1. <<b, n>> \in outbox[u][1].puts
        BY <1>1, <3>1
      <4>2. b = u
        BY <1>1, <1>3, <4>1
      <4>. QED  BY <1>1, <2>2, <4>1, <4>2
    <3>. QED  BY <2>2, <3>1
  <2>. QED  BY <2>2, <2>3, <2>4
<1>5. NamesKept'
  BY <1>4 DEF NamesKept
<1>. QED  BY <1>2, <1>5 DEF Named

\* What a step that takes the oldest batch of u off has to keep, apart from the
\* pages: new requests are uploads of the save of that batch.
LEMMA BatchTracked ==
  ASSUME Tracked, Typed', NEW u \in Users, outbox[u] # <<>>,
         outbox' = [outbox EXCEPT ![u] = Tail(@)],
         UNCHANGED saves, calls \subseteq calls',
         LET t == Head(outbox[u]).handler IN
           \A c \in calls' : c \in calls \/
             (t # NoHandler /\ c.kind = "upload" /\ c.tag = t)
  PROVE  Owned' /\ OnceEach'
<1>. DEFINE t == Head(outbox[u]).handler
<1>1. /\ 1 \in DOMAIN outbox[u] /\ t = outbox[u][1].handler
      /\ \A w \in Users : \A i \in DOMAIN outbox'[w] :
              \E j \in DOMAIN outbox[w] :
                outbox'[w][i] = outbox[w][j] /\ (t # NoHandler => outbox[w][j].handler # t)
      /\ \A w \in Users : \A i, j \in DOMAIN outbox'[w] :
              outbox'[w][i].handler = outbox'[w][j].handler =>
                i = j \/ outbox'[w][i].handler = NoHandler
  BY QueueTail
<1>2. t # NoHandler =>
        /\ t.user = u /\ u \in Editors /\ t.save <= saves
        /\ \A c \in calls : c.kind # "displayName" => c.tag # t
  BY <1>1 DEF Tracked, Owned, OnceEach
<1>3. \A c \in calls' : c \in calls \/
             (t # NoHandler /\ c.kind = "upload" /\ c.tag = t)
  OBVIOUS
<1>. HIDE DEF t
<1>4. Owned'
  <2>1. \A c \in calls' : c.tag.user \in Editors /\ c.tag.save <= saves
    BY <1>2, <1>3 DEF Tracked, Owned
  <2>2. \A w \in Users : \A i \in DOMAIN outbox'[w] :
          /\ w \in Editors
          /\ outbox'[w][i].handler # NoHandler =>
               outbox'[w][i].handler.user = w /\ outbox'[w][i].handler.save <= saves
    BY <1>1 DEF Tracked, Owned
  <2>. QED  BY <2>1, <2>2 DEF Owned
<1>5. OnceEach'
  <2>1. \A x, y \in calls' : Asking(x) /\ Asking(y) /\ x.tag = y.tag => x = y
    BY <1>3 DEF Tracked, OnceEach, Asking
  <2>2. \A x, y \in calls' : Asking(x) /\ y.kind = "upload" => x.tag # y.tag
    BY <1>2, <1>3 DEF Tracked, OnceEach, Asking
  <2>3. ASSUME NEW x \in calls', x.kind # "displayName",
               NEW w \in Users, NEW i \in DOMAIN outbox'[w]
        PROVE  outbox'[w][i].handler # x.tag
    <3>1. PICK j \in DOMAIN outbox[w] :
            outbox'[w][i] = outbox[w][j] /\ (t # NoHandler => outbox[w][j].handler # t)
      BY <1>1
    <3>2. CASE x \in calls
      BY <2>3, <3>1, <3>2 DEF Tracked, OnceEach
    <3>3. CASE x \notin calls
      BY <1>3, <3>1, <3>3
    <3>. QED  BY <3>2, <3>3
  <2>. QED  BY <1>1, <2>1, <2>2, <2>3 DEF OnceEach, Asking
<1>. QED  BY <1>4, <1>5

LEMMA CountMore ==
  ASSUME NEW p \in PageT, NEW k \in Nat
  PROVE  LET P == [p EXCEPT !.count = @ + k] IN
         /\ P \in PageT /\ P.count = p.count + k /\ P.status = p.status
         /\ P.picked = p.picked /\ P.stored = p.stored
  BY DEF PageT

LEMMA Step_BatchCommitted ==
  ASSUME Inv, NEW u \in Editors, BatchCommitted(u)
  PROVE  Inv'
<1>. DEFINE h == Head(outbox[u]).handler
<1>1. Tracked /\ Typed /\ Reckoned /\ Named /\ u \in Users
  BY EditProfileAssumption DEF Inv, Tracked
<1>2. /\ outbox[u] # <<>> /\ outbox' = [outbox EXCEPT ![u] = Tail(@)]
      /\ docs' = (docs \ Head(outbox[u]).dels) \cup Head(outbox[u]).puts
      /\ UNCHANGED <<saves, failures>>
  BY DEF BatchCommitted, Commit
<1>3. /\ outbox' \in [Users -> Seq(Batches)]
      /\ 1 \in DOMAIN outbox[u] /\ Head(outbox[u]) = outbox[u][1]
  BY <1>1, <1>2, QueueTail
<1>4. docs' \in SUBSET (Users \X Names)
  <2>1. Head(outbox[u]) \in Batches
    BY <1>1, <1>3, HandlerTypes
  <2>. QED  BY <1>1, <1>2, <2>1 DEF Batches, Typed
<1>5. CASE h = NoHandler
  <2>1. UNCHANGED <<page, covered, alert, calls>>
    BY <1>5 DEF BatchCommitted
  <2>2. Typed'
    BY <1>1, <1>2, <1>3, <1>4, <2>1 DEF Typed
  <2>3. Tracked'
    <3>1. OneOpen'
      BY <1>1, <2>1 DEF Tracked, OneOpen
    <3>2. Owned' /\ OnceEach'
      BY <1>1, <1>2, <2>1, <2>2, BatchTracked
    <3>. QED  BY <2>2, <3>1, <3>2 DEF Tracked
  <2>4. Named'
    BY <1>1, <1>2, <2>1, BatchNamed
  <2>5. \A w \in Editors, x \in Visits : Same(w, x)
    <3>1. \A w \in Editors, x \in Visits : Early(w, x)' = Early(w, x)
      BY <1>1, <1>2, <1>5, <2>1, EarlyTail
    <3>. QED  BY <2>1, <3>1 DEF Same, Uploading
  <2>6. Reckoned'
    BY <1>1, <1>2, <2>1, <2>2, <2>5, ReckonedStays
  <2>. QED  BY <2>3, <2>4, <2>6 DEF Inv
<1>6. CASE h # NoHandler
  <2>1. PICK t : t = h
    OBVIOUS
  <2>. DEFINE v == t.visit
              p == page[u][v]
              P == [p EXCEPT !.count = @ + Counted(p)]
              next == [page EXCEPT ![u][v] = P]
              U == [kind : {"upload"}, tag : {t}, slot : p.picked]
  <2>2. /\ t \in Tags /\ t = Tag(u, t.visit, t.save) /\ t.user = u
        /\ v \in Visits /\ t.save \in Early(u, v)
    BY <1>1, <1>3, <1>6, <2>1, EarlySave
  <2>3. page \in [Editors -> [Visits -> PageT]] /\ page[u] \in [Visits -> PageT] /\ p \in PageT
    BY <1>1, <2>2 DEF Typed
  <2>4. Counted(p) \in Nat /\ Cardinality(p.picked) \in Nat
        /\ Counted(p) + Cardinality(p.picked) = 4
        /\ IsFiniteSet(p.picked) /\ p.picked \subseteq Slots
    BY <2>3, CountedPictures DEF PageT
  <2>5. calls' = calls \cup U
    BY <1>6, <2>1 DEF BatchCommitted
  <2>6. Settle(u, v, next)
    <3>1. next = [page EXCEPT ![u][v].count = @ + Counted(page[u][v])]
      BY <2>2, <2>3
    <3>. QED  BY <1>6, <2>1, <3>1 DEF BatchCommitted
  <2>7. /\ P \in PageT /\ P.count = p.count + Counted(p) /\ P.status = p.status
        /\ P.picked = p.picked /\ P.stored = p.stored
    BY <2>3, <2>4, CountMore
  <2>8. /\ IsFiniteSet(U) /\ Cardinality(U) = Cardinality(p.picked)
        /\ U \subseteq Requests
        /\ \A c \in U : c.kind = "upload" /\ c.tag = t
        /\ p.picked \subseteq {c.slot : c \in U}
    BY <2>2, <2>4, Uploads
  <2>. HIDE DEF P, U
  <2>9. /\ next \in [Editors -> [Visits -> PageT]] /\ next[u][v] = P
        /\ \A w \in Editors, x \in Visits : w # u \/ x # v => next[w][x] = page[w][x]
    BY <2>2, <2>3, <2>7
  <2>. HIDE DEF next
  <2>10. /\ page' \in [Editors -> [Visits -> PageT]]
         /\ covered' \in [Editors -> BOOLEAN] /\ alert' \in [Editors -> BOOLEAN]
         /\ page'[u][v].count = next[u][v].count
    BY <1>1, <2>2, <2>6, <2>9, Settled
  <2>11. Typed'
    <3>1. IsFiniteSet(calls')
      BY <1>1, <2>5, <2>8, FS_Union DEF Typed
    <3>. QED  BY <1>1, <1>2, <1>3, <1>4, <2>5, <2>8, <2>10, <3>1 DEF Typed
  <2>12. Owned' /\ OnceEach'
    BY <1>1, <1>2, <1>6, <2>1, <2>5, <2>8, <2>11, BatchTracked
  <2>13. Named'
    <3>1. \A c \in calls' : c.kind = "own" => c \in calls
      BY <2>5, <2>8
    <3>. QED  BY <1>1, <1>2, <3>1, BatchNamed
  <2>14. \A w \in Editors, x \in Visits :
           Early(w, x)' = IF w = u /\ x = v THEN Early(w, x) \ {t.save} ELSE Early(w, x)
    <3>1. \A c : Asking(c) => (c \in calls' <=> c \in calls)
      BY <2>5, <2>8 DEF Asking
    <3>. QED  BY <1>1, <1>2, <1>6, <2>1, <3>1, EarlyTail
  <2>15. /\ Uploading(u, v)' = Uploading(u, v) \cup U
         /\ Uploading(u, v) \cap U = {}
         /\ \A w \in Editors, x \in Visits :
              w # u \/ x # v => Uploading(w, x)' = Uploading(w, x)
    <3>1. \A c \in calls : c.kind = "upload" => c.tag # t
      BY <1>1, <1>3, <2>1 DEF Tracked, OnceEach
    <3>. QED  BY <2>2, <2>5, <2>8, <3>1 DEF Uploading
  <2>16. Total(u, v)' = Total(u, v)
    <3>1. Cardinality(Early(u, v)') = Cardinality(Early(u, v)) - 1
      BY <1>1, <2>2, <2>11, <2>14, EarlyLess
    <3>2. /\ page[u][v].count \in Nat /\ Cardinality(Uploading(u, v)) \in Nat
          /\ Cardinality(Early(u, v)) \in Nat /\ IsFiniteSet(Uploading(u, v))
      BY <1>1, <2>2, FiniteBoth DEF Counts
    <3>3. Cardinality(Uploading(u, v)') = Cardinality(Uploading(u, v)) + Cardinality(p.picked)
      <4>1. Cardinality(Uploading(u, v) \cup U)
              = Cardinality(Uploading(u, v)) + Cardinality(U) - Cardinality(Uploading(u, v) \cap U)
        BY <2>8, <3>2, FS_Union
      <4>2. Cardinality(Uploading(u, v) \cap U) = 0
        BY <2>15, FS_EmptySet
      <4>3. Cardinality(Uploading(u, v)') = Cardinality(Uploading(u, v) \cup U)
        BY <2>15
      <4>. QED  BY <2>4, <2>8, <3>2, <4>1, <4>2, <4>3
    <3>4. page'[u][v].count = page[u][v].count + Counted(p)
      BY <2>7, <2>9, <2>10
    <3>. QED  BY <2>4, <3>1, <3>2, <3>3, <3>4 DEF Total
  <2>17. ASSUME failures = 0
         PROVE  /\ page[u][v].status = "open"
                /\ Waiting(u, v)
                /\ page[u][v].picked \subseteq
                     next[u][v].stored \cup {c.slot : c \in Uploading(u, v)'}
    <3>1. Calm(u, v)
      BY <1>1, <2>2, <2>17 DEF Reckoned, Undisturbed
    <3>2. Total(u, v) # 0
      BY <1>1, <2>2, NoTotal
    <3>3. page[u][v].status = "open" /\ Waiting(u, v)
      BY <2>2, <3>1, <3>2 DEF Calm
    <3>. QED  BY <2>8, <2>15, <3>3
  <2>18. Reckoned' /\ OneOpen'
    BY <1>1, <1>2, <2>2, <2>6, <2>7, <2>9, <2>11, <2>14, <2>15, <2>16, <2>17, Settling
  <2>. QED  BY <2>11, <2>12, <2>13, <2>18 DEF Inv, Tracked
<1>. QED  BY <1>5, <1>6

------------------------------------------------------------------------------
(* What fails, and the end of the app *)

\* A failure takes the overlay of u off and only ends requests.
LEMMA Failing ==
  ASSUME Typed, Reckoned, Typed', NEW u \in Editors, NEW v \in Visits,
         UNCHANGED <<page, saves>>, failures' > 0, ~ covered'[u],
         \A w \in Editors \ {u} : covered'[w] = covered[w] /\ alert'[w] = alert[w],
         \A w \in Editors, x \in Visits : w # u \/ x # v => Same(w, x),
         Total(u, v)' <= Total(u, v)
  PROVE  Reckoned'
<1>1. saves \in Nat /\ saves' = saves
  BY DEF Typed
<1>2. \A x \in Visits : Total(u, x) \in Nat
  BY FiniteBoth DEF Counts
<1>3. \A x \in Visits : x # v => Total(u, x)' = Total(u, x)
  BY SameTotal
<1>4. Total(u, v)' \in Nat
  BY FiniteBoth DEF Counts
<1>5. \A x \in Visits : Total(u, x)' <= Total(u, x) + 4 * (saves' - saves)
  <2>1. Total(u, v)' <= Total(u, v) + 4 * (saves' - saves)
    BY <1>1, <1>2, <1>4
  <2>2. \A x \in Visits : x # v => Total(u, x)' <= Total(u, x) + 4 * (saves' - saves)
    BY <1>1, <1>2, <1>3
  <2>. QED  BY <2>1, <2>2
<1>6. saves' >= saves /\ (failures' = 0 => failures = 0 /\ \A x \in Visits : Calm(u, x)')
  BY <1>1 DEF Typed
<1>7. \A w \in Editors \ {u}, x \in Visits : Same(w, x) /\ page'[w][x] = page[w][x]
  OBVIOUS
<1>. QED  BY <1>5, <1>6, <1>7, ReckonedAt

LEMMA Step_BatchRefused ==
  ASSUME Inv, NEW u \in Editors, BatchRefused(u)
  PROVE  Inv'
<1>. DEFINE h == Head(outbox[u]).handler
<1>1. Tracked /\ Typed /\ Reckoned /\ Named /\ u \in Users
  BY EditProfileAssumption DEF Inv, Tracked
<1>2. /\ outbox[u] # <<>> /\ outbox' = [outbox EXCEPT ![u] = Tail(@)]
      /\ UNCHANGED <<docs, page, calls, saves>>
      /\ failures' \in 0..MaxFailures /\ failures' > 0
  <2>1. failures \in 0..MaxFailures /\ MaxFailures \in Nat
    BY <1>1, EditProfileAssumption DEF Typed
  <2>. QED  BY <2>1 DEF BatchRefused, Refuse, Fail
<1>3. /\ outbox' \in [Users -> Seq(Batches)]
      /\ 1 \in DOMAIN outbox[u] /\ Head(outbox[u]) = outbox[u][1]
  BY <1>1, <1>2, QueueTail
<1>4. OneOpen' /\ Named'
  <2>1. OneOpen'
    BY <1>1, <1>2 DEF Tracked, OneOpen
  <2>. QED  BY <1>1, <1>2, <2>1, BatchNamed
<1>5. CASE h = NoHandler
  <2>1. UNCHANGED <<covered, alert>>
    BY <1>5 DEF BatchRefused
  <2>2. Typed'
    BY <1>1, <1>2, <1>3, <2>1 DEF Typed
  <2>3. Owned' /\ OnceEach'
    BY <1>1, <1>2, <2>2, BatchTracked
  <2>4. \A w \in Editors, x \in Visits : Same(w, x)
    <3>1. \A w \in Editors, x \in Visits : Early(w, x)' = Early(w, x)
      BY <1>1, <1>2, <1>5, EarlyTail
    <3>. QED  BY <1>2, <3>1 DEF Same, Uploading
  <2>5. Reckoned'
    BY <1>1, <1>2, <2>1, <2>2, <2>4, ReckonedStays
  <2>. QED  BY <1>4, <2>2, <2>3, <2>5 DEF Inv, Tracked
<1>6. CASE h # NoHandler
  <2>1. PICK t : t = h
    OBVIOUS
  <2>. DEFINE v == t.visit
  <2>2. v \in Visits /\ t.save \in Early(u, v)
    BY <1>1, <1>3, <1>6, <2>1, EarlySave
  <2>3. /\ covered' = [covered EXCEPT ![u] = FALSE]
        /\ alert' = [alert EXCEPT ![u] = @ \/ page[u][v].status = "open"]
    BY <1>6, <2>1 DEF BatchRefused, removeSpinner, Alerted
  <2>4. Typed'
    <3>1. covered' \in [Editors -> BOOLEAN] /\ alert' \in [Editors -> BOOLEAN]
      BY <1>1, <2>3 DEF Typed
    <3>. QED  BY <1>1, <1>2, <1>3, <3>1 DEF Typed
  <2>5. Owned' /\ OnceEach'
    BY <1>1, <1>2, <2>4, BatchTracked
  <2>6. \A w \in Editors, x \in Visits :
           Early(w, x)' = IF w = u /\ x = v THEN Early(w, x) \ {t.save} ELSE Early(w, x)
    BY <1>1, <1>2, <1>6, <2>1, EarlyTail
  <2>7. \A w \in Editors, x \in Visits : Uploading(w, x)' = Uploading(w, x)
    BY <1>2 DEF Uploading
  <2>8. Total(u, v)' <= Total(u, v)
    <3>1. Cardinality(Early(u, v)') = Cardinality(Early(u, v)) - 1
      BY <1>1, <2>2, <2>4, <2>6, EarlyLess
    <3>2. /\ page[u][v].count \in Nat /\ Cardinality(Uploading(u, v)) \in Nat
          /\ Cardinality(Early(u, v)) \in Nat
      BY <1>1, <2>2, FiniteBoth DEF Counts
    <3>3. Uploading(u, v)' = Uploading(u, v) /\ page'[u][v].count = page[u][v].count
      BY <1>2, <2>2, <2>7
    <3>. QED  BY <3>1, <3>2, <3>3 DEF Total
  <2>9. ~ covered'[u] /\ \A w \in Editors \ {u} : covered'[w] = covered[w] /\ alert'[w] = alert[w]
    BY <1>1, <2>3 DEF Typed
  <2>10. \A w \in Editors, x \in Visits : w # u \/ x # v => Same(w, x)
    BY <1>2, <2>6, <2>7 DEF Same
  <2>11. Reckoned'
    BY <1>1, <1>2, <2>2, <2>4, <2>8, <2>9, <2>10, Failing
  <2>. QED  BY <1>4, <2>4, <2>5, <2>11 DEF Inv, Tracked
<1>. QED  BY <1>5, <1>6

LEMMA Step_UploadFailed ==
  ASSUME Inv, NEW c \in calls, UploadFailed(c)
  PROVE  Inv'
<1>. DEFINE u == c.tag.user  v == c.tag.visit
<1>1. Tracked /\ Typed /\ Reckoned /\ Named
  BY DEF Inv, Tracked
<1>2. u \in Editors /\ v \in Visits
  BY <1>1, EarlySave
<1>3. /\ c.kind = "upload" /\ calls' = calls \ {c}
      /\ covered' = [covered EXCEPT ![u] = FALSE]
      /\ UNCHANGED <<docs, outbox, page, saves>>
      /\ failures' = failures + 1 /\ failures < MaxFailures
      /\ \/ alert' = [alert EXCEPT ![u] = @ \/ page[u][v].status = "open"]
         \/ alert' = alert
  BY DEF UploadFailed, removeSpinner, Alerted, Fail
<1>. HIDE DEF u, v
<1>4. failures' \in 0..MaxFailures /\ failures' > 0
  BY <1>1, <1>3, EditProfileAssumption DEF Typed
<1>5. /\ covered' \in [Editors -> BOOLEAN] /\ alert' \in [Editors -> BOOLEAN]
      /\ ~ covered'[u]
      /\ \A w \in Editors \ {u} : covered'[w] = covered[w] /\ alert'[w] = alert[w]
  BY <1>1, <1>2, <1>3 DEF Typed
<1>6. Typed'
  <2>1. calls' \subseteq calls /\ IsFiniteSet(calls')
    BY <1>1, <1>3, FS_Subset DEF Typed
  <2>. QED  BY <1>1, <1>3, <1>4, <1>5, <2>1 DEF Typed
<1>7. Tracked' /\ Named'
  BY <1>1, <1>3, <1>6, FewerRequests, NamedStays
<1>8. /\ \A w \in Editors, x \in Visits :
            /\ Early(w, x)' = Early(w, x)
            /\ w # u \/ x # v => Uploading(w, x)' = Uploading(w, x)
      /\ c \in Uploading(u, v) /\ Uploading(u, v)' = Uploading(u, v) \ {c}
  <2>1. \A d : Asking(d) => (d \in calls' <=> d \in calls)
    BY <1>3 DEF Asking
  <2>2. \A w \in Editors, x \in Visits : Early(w, x)' = Early(w, x)
    BY <1>3, <2>1 DEF Early, Asking
  <2>3. \A w \in Editors, x \in Visits :
          w # u \/ x # v => Uploading(w, x)' = Uploading(w, x)
    BY <1>3 DEF Uploading, u, v
  <2>4. c \in Uploading(u, v) /\ Uploading(u, v)' = Uploading(u, v) \ {c}
    BY <1>3 DEF Uploading, u, v
  <2>. QED  BY <2>2, <2>3, <2>4
<1>9. Total(u, v)' <= Total(u, v)
  <2>1. Cardinality(Uploading(u, v)') = Cardinality(Uploading(u, v)) - 1
    BY <1>1, <1>2, <1>6, <1>8, UploadLess
  <2>2. /\ page[u][v].count \in Nat /\ Cardinality(Uploading(u, v)) \in Nat
        /\ Cardinality(Early(u, v)) \in Nat
    BY <1>1, <1>2, FiniteBoth DEF Counts
  <2>3. page'[u][v].count = page[u][v].count /\ Early(u, v)' = Early(u, v)
    BY <1>2, <1>3, <1>8
  <2>. QED  BY <2>1, <2>2, <2>3 DEF Total
<1>10. \A w \in Editors, x \in Visits : w # u \/ x # v => Same(w, x)
  BY <1>3, <1>8 DEF Same
<1>11. Reckoned'
  BY <1>1, <1>2, <1>3, <1>4, <1>5, <1>6, <1>9, <1>10, Failing
<1>. QED  BY <1>7, <1>11 DEF Inv

LEMMA Step_Relaunch ==
  ASSUME Inv, NEW u \in Editors, Relaunch(u)
  PROVE  Inv'
<1>. DEFINE Left(p) == IF p.status = "open" THEN [p EXCEPT !.status = "left"] ELSE p
            Bare(b) == [b EXCEPT !.handler = NoHandler]
<1>1. Tracked /\ Typed /\ Reckoned /\ Named /\ u \in Users
  BY EditProfileAssumption DEF Inv, Tracked
<1>2. /\ page \in [Editors -> [Visits -> PageT]] /\ page[u] \in [Visits -> PageT]
      /\ outbox \in [Users -> Seq(Batches)] /\ outbox[u] \in Seq(Batches)
  BY <1>1 DEF Typed
<1>3. /\ page' = [page EXCEPT ![u] = [v \in Visits |-> Left(page[u][v])]]
      /\ covered' = [covered EXCEPT ![u] = FALSE]
      /\ alert' = [alert EXCEPT ![u] = FALSE]
      /\ calls' = {c \in calls : c.tag.user # u}
      /\ outbox' = [outbox EXCEPT ![u] = [i \in DOMAIN outbox[u] |-> Bare(outbox[u][i])]]
      /\ UNCHANGED <<docs, saves, failures>>
  BY <1>1, <1>2 DEF Relaunch
<1>0. UNCHANGED <<docs, saves, failures>> /\ calls' \subseteq calls
  BY <1>3
<1>4. \A p \in PageT :
        /\ Left(p) \in PageT /\ Left(p).status # "open"
        /\ Left(p).count = p.count /\ Left(p).picked = p.picked /\ Left(p).stored = p.stored
        /\ Left(p).status \in {"unopened", "dismissed"} => Left(p).status = p.status
  BY DEF PageT
<1>5. \A b \in Batches :
        Bare(b) \in Batches /\ Bare(b).puts = b.puts /\ Bare(b).dels = b.dels
          /\ Bare(b).handler = NoHandler
  BY DEF Batches
<1>. HIDE DEF Left, Bare
<1>6. /\ page' \in [Editors -> [Visits -> PageT]]
      /\ \A v \in Visits : page'[u][v] = Left(page[u][v])
      /\ \A w \in Editors \ {u} : page'[w] = page[w]
  BY <1>2, <1>3, <1>4
<1>7. /\ outbox' \in [Users -> Seq(Batches)]
      /\ DOMAIN outbox'[u] = DOMAIN outbox[u]
      /\ \A i \in DOMAIN outbox'[u] :
           /\ outbox'[u][i].puts = outbox[u][i].puts /\ outbox'[u][i].dels = outbox[u][i].dels
           /\ outbox'[u][i].handler = NoHandler
      /\ \A w \in Users \ {u} : outbox'[w] = outbox[w]
  <2>1. [i \in DOMAIN outbox[u] |-> Bare(outbox[u][i])] \in Seq(Batches)
    <3>1. /\ Len(outbox[u]) \in Nat /\ DOMAIN outbox[u] = 1..Len(outbox[u])
          /\ \A i \in DOMAIN outbox[u] : outbox[u][i] \in Batches
      BY <1>2
    <3>2. [i \in 1..Len(outbox[u]) |-> Bare(outbox[u][i])] \in [1..Len(outbox[u]) -> Batches]
      BY <1>5, <3>1
    <3>. QED  BY <3>1, <3>2, SeqDef
  <2>2. \A i \in DOMAIN outbox[u] : outbox[u][i] \in Batches
    BY <1>2
  <2>. QED  BY <1>1, <1>2, <1>3, <1>5, <2>1, <2>2
<1>8. /\ covered' \in [Editors -> BOOLEAN] /\ alert' \in [Editors -> BOOLEAN]
      /\ ~ covered'[u]
      /\ \A w \in Editors \ {u} : covered'[w] = covered[w] /\ alert'[w] = alert[w]
  BY <1>1, <1>3 DEF Typed
<1>9. Typed'
  <2>1. calls' \subseteq calls /\ IsFiniteSet(calls')
    BY <1>1, <1>3, FS_Subset DEF Typed
  <2>. QED  BY <1>1, <1>3, <1>6, <1>7, <1>8, <2>1 DEF Typed
<1>10. Owned'
  <2>1. \A c \in calls' : c.tag.user \in Editors /\ c.tag.save <= saves
    BY <1>1, <1>3 DEF Tracked, Owned
  <2>2. ASSUME NEW w \in Users, NEW i \in DOMAIN outbox'[w]
        PROVE  /\ w \in Editors
               /\ outbox'[w][i].handler # NoHandler =>
                    outbox'[w][i].handler.user = w /\ outbox'[w][i].handler.save <= saves
    <3>1. CASE w = u
      BY <1>7, <2>2, <3>1
    <3>2. CASE w # u
      BY <1>1, <1>7, <2>2, <3>2 DEF Tracked, Owned
    <3>. QED  BY <3>1, <3>2
  <2>. QED  BY <1>0, <2>1, <2>2 DEF Owned
<1>11. OnceEach'
  <2>1. /\ \A c, d \in calls' : Asking(c) /\ Asking(d) /\ c.tag = d.tag => c = d
        /\ \A c, d \in calls' : Asking(c) /\ d.kind = "upload" => c.tag # d.tag
    BY <1>1, <1>3 DEF Tracked, OnceEach
  <2>2. ASSUME NEW c \in calls', c.kind # "displayName",
               NEW w \in Users, NEW i \in DOMAIN outbox'[w]
        PROVE  outbox'[w][i].handler # c.tag
    <3>1. CASE w = u
      <4>1. c.tag \in Tags
        BY <1>1, <1>3, EarlySave
      <4>. QED  BY <1>7, <2>2, <3>1, <4>1, TagFields
    <3>2. CASE w # u
      BY <1>1, <1>3, <1>7, <2>2, <3>2 DEF Tracked, OnceEach
    <3>. QED  BY <3>1, <3>2
  <2>3. ASSUME NEW w \in Users, NEW i \in DOMAIN outbox'[w], NEW j \in DOMAIN outbox'[w],
               outbox'[w][i].handler = outbox'[w][j].handler
        PROVE  i = j \/ outbox'[w][i].handler = NoHandler
    <3>1. CASE w = u
      BY <1>7, <2>3, <3>1
    <3>2. CASE w # u
      BY <1>1, <1>7, <2>3, <3>2 DEF Tracked, OnceEach
    <3>. QED  BY <3>1, <3>2
  <2>. QED  BY <2>1, <2>2, <2>3 DEF OnceEach, Asking
<1>12. \A v \in Visits : page[u][v] \in PageT
  BY <1>2
<1>13. OneOpen'
  <2>1. \A w \in Editors, x \in Visits :
          page'[w][x].status = "open" => page[w][x].status = "open"
    BY <1>4, <1>6, <1>12
  <2>. QED  BY <1>1, <2>1 DEF Tracked, OneOpen
<1>14. Named'
  <2>1. ASSUME NEW w \in Users, NEW i \in DOMAIN outbox'[w]
        PROVE  /\ i \in DOMAIN outbox[w] /\ outbox'[w][i].puts = outbox[w][i].puts
               /\ outbox'[w][i].dels = outbox[w][i].dels
    BY <1>7, <2>1
  <2>2. OwnDocuments'
    BY <1>1, <2>1 DEF Named, OwnDocuments
  <2>3. NamesKept'
    <3>1. ASSUME NEW a \in Users \ Editors, NEW n \in Names, <<a, n>> \in docs
          PROVE  /\ \A b \in Users : <<b, n>> \in docs => a = b
                 /\ \A w \in Users : \A i \in DOMAIN outbox[w] : <<w, n>> \notin outbox[w][i].puts
                 /\ \A c \in calls : c.kind = "own" /\ c.free => c.name # n
      BY <1>1, <3>1 DEF Named, NamesKept
    <3>2. ASSUME NEW a \in Users \ Editors, NEW n \in Names, <<a, n>> \in docs,
                 NEW w \in Users, NEW i \in DOMAIN outbox'[w]
          PROVE  <<w, n>> \notin outbox'[w][i].puts
      BY <2>1, <3>1, <3>2
    <3>. QED  BY <1>0, <3>1, <3>2 DEF NamesKept
  <2>. QED  BY <2>2, <2>3 DEF Named
<1>15. \A v \in Visits : Early(u, v)' = {} /\ Uploading(u, v)' = {}
  <2>1. ASSUME NEW v \in Visits, NEW s, s \in Early(u, v)'
        PROVE  FALSE
    <3>1. s \in 1..MaxSaves
      BY <2>1 DEF Early
    <3>2. Tag(u, v, s) # NoHandler /\ Tag(u, v, s).user = u
      BY <1>1, <3>1, TagFields
    <3>. QED  BY <1>3, <1>7, <2>1, <3>2 DEF Early, Asking, Tag
  <2>2. \A v \in Visits : Uploading(u, v)' = {}
    BY <1>3 DEF Uploading
  <2>. QED  BY <2>1, <2>2
<1>16. \A v \in Visits :
         /\ Total(u, v)' = page[u][v].count
         /\ Total(u, v) \in Nat /\ page[u][v].count \in Nat /\ page[u][v].count <= Total(u, v)
  <2>1. ASSUME NEW v \in Visits
        PROVE  Total(u, v)' = page[u][v].count
    <3>1. page'[u][v].count = page[u][v].count
      BY <1>4, <1>6, <1>12
    <3>2. Cardinality({}) = 0
      BY FS_EmptySet
    <3>3. page[u][v].count \in Nat
      BY <1>12 DEF PageT
    <3>4. Total(u, v)' = page[u][v].count + Cardinality({}) + 4 * Cardinality({})
      BY <1>15, <3>1 DEF Total
    <3>. QED  BY <3>2, <3>3, <3>4
  <2>2. ASSUME NEW v \in Visits
        PROVE  /\ Total(u, v) \in Nat /\ page[u][v].count \in Nat
               /\ page[u][v].count <= Total(u, v)
    BY <1>1, FiniteBoth DEF Counts, Total
  <2>. QED  BY <2>1, <2>2
<1>17. \A w \in Editors \ {u}, v \in Visits : Same(w, v) /\ page'[w][v] = page[w][v]
  <2>1. ASSUME NEW w \in Editors \ {u}, NEW v \in Visits
        PROVE  Early(w, v)' = Early(w, v) /\ Uploading(w, v)' = Uploading(w, v)
    <3>1. w \in Users
      BY EditProfileAssumption
    <3>2. \A s : Tag(w, v, s).user # u
      BY DEF Tag
    <3>3. Early(w, v)' = Early(w, v)
      BY <1>3, <1>7, <3>1, <3>2 DEF Early, Asking, Tag
    <3>4. Uploading(w, v)' = Uploading(w, v)
      BY <1>3 DEF Uploading
    <3>. QED  BY <3>3, <3>4
  <2>. QED  BY <1>6, <2>1 DEF Same
<1>18. ASSUME failures = 0, NEW v \in Visits
       PROVE  Calm(u, v)'
  <2>1. Calm(u, v)
    BY <1>1, <1>18 DEF Reckoned, Undisturbed
  <2>2. page'[u][v].status # "open"
    BY <1>4, <1>6, <1>12
  <2>3. page'[u][v].status = "unopened" => Total(u, v)' = 0
    BY <1>4, <1>6, <1>12, <1>16, <2>1 DEF Calm
  <2>4. page'[u][v].status = "dismissed" => page'[u][v].picked \subseteq page'[u][v].stored
    BY <1>4, <1>6, <1>12, <2>1 DEF Calm
  <2>. QED  BY <1>15, <2>2, <2>3, <2>4 DEF Calm
<1>19. Reckoned'
  <2>1. saves \in Nat /\ saves' = saves /\ saves' >= saves
    BY <1>1, <1>3 DEF Typed
  <2>2. \A v \in Visits : Total(u, v)' <= Total(u, v) + 4 * (saves' - saves)
    BY <1>16, <2>1
  <2>3. failures' = 0 => failures = 0 /\ \A x \in Visits : Calm(u, x)'
    BY <1>3, <1>18
  <2>. QED  BY <1>1, <1>8, <1>9, <1>17, <2>1, <2>2, <2>3, ReckonedAt
<1>. QED  BY <1>9, <1>10, <1>11, <1>13, <1>14, <1>19 DEF Inv, Tracked

------------------------------------------------------------------------------
(* The invariant *)

LEMMA InitInv == Init => Inv
<1> SUFFICES ASSUME Init PROVE Inv
  OBVIOUS
<1>1. PICK names \in [Users -> Names] :
        /\ \A a, b \in Users : names[a] = names[b] => a = b
        /\ docs = {<<a, names[a]>> : a \in Users}
  BY DEF Init
<1>2. /\ outbox = [a \in Users |-> <<>>]
      /\ page = [u \in Editors |-> [v \in Visits |-> Unopened]]
      /\ covered = [u \in Editors |-> FALSE]
      /\ alert = [u \in Editors |-> FALSE]
      /\ calls = {} /\ saves = 0 /\ failures = 0
  BY DEF Init
<1>3. Typed
  <2>1. Unopened \in PageT
    BY DEF Unopened, PageT
  <2>2. outbox \in [Users -> Seq(Batches)]
    BY <1>2
  <2>3. IsFiniteSet(calls)
    BY <1>2, FS_EmptySet
  <2>. QED  BY <1>1, <1>2, <2>1, <2>2, <2>3, EditProfileAssumption DEF Typed
<1>4. \A u \in Users : DOMAIN outbox[u] = {}
  BY <1>2
<1>5. \A u \in Editors, v \in Visits : page[u][v] = Unopened
  BY <1>2
<1>6. Owned /\ OnceEach
  BY <1>2, <1>4 DEF Owned, OnceEach
<1>7. OneOpen
  BY <1>5 DEF OneOpen, Unopened
<1>8. \A u \in Editors, v \in Visits :
        Early(u, v) = {} /\ Uploading(u, v) = {} /\ Total(u, v) = 0
  <2> SUFFICES ASSUME NEW u \in Editors, NEW v \in Visits
               PROVE  Early(u, v) = {} /\ Uploading(u, v) = {} /\ Total(u, v) = 0
    OBVIOUS
  <2>1. u \in Users
    BY EditProfileAssumption
  <2>2. Early(u, v) = {} /\ Uploading(u, v) = {}
    BY <1>2, <1>4, <2>1 DEF Early, Uploading
  <2>3. page[u][v].count = 0 /\ Cardinality({}) = 0
    BY <1>5, FS_EmptySet DEF Unopened
  <2>4. Total(u, v) = 0 + Cardinality({}) + 4 * Cardinality({})
    BY <2>2, <2>3 DEF Total
  <2>. QED  BY <2>2, <2>3, <2>4
<1>9. Bounded
  BY <1>2, <1>8 DEF Bounded
<1>10. Watched
  BY <1>2 DEF Watched
<1>11. Undisturbed
  BY <1>5, <1>8 DEF Undisturbed, Calm, Unopened
<1>12. OwnDocuments
  BY <1>4 DEF OwnDocuments
<1>13. NamesKept
  BY <1>1, <1>2, <1>4, EditProfileAssumption DEF NamesKept
<1>. QED  BY <1>3, <1>6, <1>7, <1>9, <1>10, <1>11, <1>12, <1>13
          DEF Inv, Tracked, Reckoned, Named

LEMMA Stutter == Inv /\ UNCHANGED vars => Inv'
<1> SUFFICES ASSUME Inv, UNCHANGED vars PROVE Inv'
  OBVIOUS
<1>1. UNCHANGED <<docs, outbox, page, covered, alert, calls, saves, failures>>
  BY DEF vars
<1>2. Tracked' /\ Named'
  BY <1>1 DEF Inv, Tracked, Typed, Owned, OnceEach, OneOpen, Asking, Named, OwnDocuments, NamesKept
<1>3. \A u \in Editors, v \in Visits : Same(u, v)
  BY <1>1 DEF Same, Early, Uploading, Asking
<1>4. Reckoned'
  BY <1>1, <1>2, <1>3, ReckonedStays DEF Inv, Tracked
<1>. QED  BY <1>2, <1>4 DEF Inv

LEMMA NextInv == Inv /\ [Next]_vars => Inv'
<1> SUFFICES ASSUME Inv, [Next]_vars PROVE Inv'
  OBVIOUS
<1>1. CASE Tap
  <2>1. PICK u \in Editors :
          \/ EditProfile(u) \/ DismissAlert(u) \/ Relaunch(u)
          \/ \E v \in Visits :
               \/ SelectImage(u, v) \/ DismissEditProfile(u, v) \/ EmojiRejected(u, v)
               \/ updateUserInfo(u, v)
    BY <1>1 DEF Tap
  <2>. QED  BY <2>1, Step_Screen, Step_Relaunch, Step_updateUserInfo
<1>2. CASE \E c \in calls : Answer(c)
  <2>1. PICK c \in calls : Answer(c)
    BY <1>2
  <2>. QED  BY <2>1, Step_QueryAnswered, Step_Rejected, Step_CommitTexts, Step_DisplayName,
               Step_uploadData, Step_UploadFailed DEF Answer
<1>3. CASE \E u \in Editors : BatchCommitted(u) \/ BatchRefused(u)
  BY <1>3, Step_BatchCommitted, Step_BatchRefused
<1>4. CASE Done
  BY <1>4, Stutter DEF Done
<1>5. CASE UNCHANGED vars
  BY <1>5, Stutter
<1>. QED  BY <1>1, <1>2, <1>3, <1>4, <1>5 DEF Next

\* The inductive invariant holds in every reachable state.
THEOREM Invariance == Spec => []Inv
  BY InitInv, NextInv, PTL DEF Spec

------------------------------------------------------------------------------
(* What the page promises *)

\* The names that came too late are kept, and a batch adds to them.
LEMMA OvertakenStep ==
  ASSUME [Next]_vars
  PROVE  UNCHANGED overtaken \/ \E u \in Editors : BatchCommitted(u)
<1>1. CASE Tap
  BY <1>1 DEF Tap, EditProfile, DismissAlert, Relaunch, SelectImage, DismissEditProfile,
              EmojiRejected, updateUserInfo
<1>2. CASE \E c \in calls : Answer(c)
  BY <1>2 DEF Answer, QueryAnswered, Rejected, CommitTexts, DisplayNameSet,
              DisplayNameFailed, uploadData, UploadFailed
<1>3. CASE \E u \in Editors : BatchRefused(u)
  BY <1>3 DEF BatchRefused
<1>4. CASE Done \/ UNCHANGED vars
  BY <1>4 DEF Done, vars
<1>. QED  BY <1>1, <1>2, <1>3, <1>4 DEF Next

Late == overtaken \in SUBSET (Users \X Names)

LEMMA LateAlways == Spec => []Late
<1>1. Init => Late
  BY DEF Init, Late
<1>2. Late /\ [Next]_vars => Late'
  BY OvertakenStep DEF Late, BatchCommitted, Overtaking
<1>. QED  BY <1>1, <1>2, PTL DEF Spec

LEMMA InvTypeOK == Inv /\ Late => TypeOK
<1> SUFFICES ASSUME Inv, Late PROVE TypeOK
  OBVIOUS
<1>1. Typed /\ Bounded
  BY DEF Inv, Tracked, Reckoned
<1>2. ASSUME NEW u \in Editors, NEW v \in Visits
      PROVE  page[u][v] \in Pages
  <2>1. page[u][v] \in PageT
    BY <1>1 DEF Typed
  <2>2. /\ page[u][v].count \in Nat /\ Cardinality(Uploading(u, v)) \in Nat
        /\ Cardinality(Early(u, v)) \in Nat
    BY <1>1, FiniteBoth DEF Counts
  <2>3. Total(u, v) <= 4 * saves /\ saves \in 0..MaxSaves /\ MaxSaves \in Nat
    BY <1>1, EditProfileAssumption DEF Bounded, Typed
  <2>4. page[u][v].count \in 0..(4 * MaxSaves)
    BY <2>2, <2>3 DEF Total
  <2>. QED  BY <2>1, <2>4 DEF PageT, Pages
<1>3. page \in [Editors -> [Visits -> Pages]]
  <2>1. page \in [Editors -> [Visits -> PageT]]
    BY <1>1 DEF Typed
  <2>2. \A u \in Editors : page[u] \in [Visits -> PageT]
    BY <2>1
  <2>3. \A u \in Editors : page[u] \in [Visits -> Pages]
    BY <1>2, <2>2
  <2>. QED  BY <2>1, <2>3
<1>. QED  BY <1>1, <1>3 DEF TypeOK, Typed, Late

\* Types, and the counter of settled pictures never exceeds four per save
\* (EditProfilePage.swift:545), whatever fails and whichever page an upload
\* belonged to.
THEOREM TypeCorrect == Spec => []TypeOK
  BY Invariance, LateAlways, InvTypeOK, PTL

LEMMA InvStuck == Inv => StuckOnlyPastFour
<1> SUFFICES ASSUME Inv, NEW u \in Editors, Answered(u), covered[u]
             PROVE  \E v \in Visits : page[u][v].status = "open" /\ page[u][v].count > 4
  BY DEF StuckOnlyPastFour
<1>1. PICK v \in Visits : Watching(u, v)
  BY DEF Inv, Reckoned, Watched
<1>2. u \in Users /\ Typed
  BY EditProfileAssumption DEF Inv, Tracked
<1>3. Uploading(u, v) = {}
  BY DEF Uploading, Answered
<1>4. Early(u, v) = {}
  <2>1. ASSUME NEW s, s \in Early(u, v)
        PROVE  FALSE
    <3>1. Tag(u, v, s) # NoHandler /\ Tag(u, v, s).user = u
      BY <1>2, <2>1, TagFields DEF Early
    <3>. QED  BY <2>1, <3>1 DEF Early, Answered
  <2>. QED  BY <2>1
<1>5. page[u][v].count \in Nat /\ Cardinality({}) = 0
  BY <1>2, FiniteBoth, FS_EmptySet DEF Counts
<1>6. Total(u, v) = page[u][v].count
  BY <1>3, <1>4, <1>5 DEF Total
<1>. QED  BY <1>1, <1>5, <1>6 DEF Watching

\* An overlay with nothing left to wait for lies over a page whose count has
\* jumped past four, never short of it: the test for exactly four
\* (EditProfilePage.swift:517, 581) is missed in one way only.
THEOREM OnlyPastFour == Spec => []StuckOnlyPastFour
  BY Invariance, InvStuck, PTL

\* As long as no request has failed, a page that dismisses itself
\* (EditProfilePage.swift:517-523, 581-587) has stored every picture whose picker
\* was opened.
THEOREM DismissedHasSaved == Spec => []DismissedSaved
<1>1. Inv => DismissedSaved
  BY DEF Inv, Reckoned, Undisturbed, Calm, DismissedSaved
<1>. QED  BY <1>1, Invariance, PTL

\* No user shares a username with one whose page is not open on any device.
NamesOfOthers ==
  \A a \in Users \ Editors, b \in Users, n \in Names :
    {<<a, n>>, <<b, n>>} \subseteq docs => a = b

\* However many users edit at a time, and whatever checks they run at once, none
\* ends up with the name of a user who is not editing
\* (EditProfilePage.swift:378-389).
THEOREM OthersKeepTheirNames == Spec => []NamesOfOthers
<1>1. Inv => NamesOfOthers
  BY DEF Inv, Named, NamesKept, NamesOfOthers
<1>. QED  BY <1>1, Invariance, PTL

------------------------------------------------------------------------------
(* Two editors and one name *)

\* Of two users, one of whom holds a name that the other holds or has passed the
\* check for, one came too late.
Contested ==
  \A a, b \in Users, n \in Names :
    a # b /\ <<a, n>> \in docs /\ (<<b, n>> \in docs \/ Passed(b, n)) =>
      {<<a, n>>, <<b, n>>} \cap overtaken # {}

\* A step that nobody passes the check in.
LEMMA NobodyPasses ==
  ASSUME Contested, UNCHANGED <<docs, overtaken>>,
         \A x \in Users, n \in Names : Passed(x, n)' => Passed(x, n)
  PROVE  Contested'
  BY DEF Contested

\* No new answer to a check, and no new batch.
LEMMA FewerPassed ==
  ASSUME \A c \in calls' : c.kind = "own" => c \in calls,
         \A x \in Users : \A i \in DOMAIN outbox'[x] :
           \E j \in DOMAIN outbox[x] : outbox'[x][i].puts = outbox[x][j].puts
  PROVE  \A x \in Users, n \in Names : Passed(x, n)' => Passed(x, n)
  BY DEF Passed

\* What user u reads of another's name is what the server holds.
LEMMA OthersSeen ==
  ASSUME Inv, NEW u \in Users, NEW a \in Users, a # u, NEW n \in Names, <<a, n>> \in docs
  PROVE  Sees(u, <<a, n>>)
<1>1. \A i \in DOMAIN outbox[u] :
        <<a, n>> \notin outbox[u][i].puts \cup outbox[u][i].dels
  BY DEF Inv, Named, OwnDocuments
<1>2. Touching(outbox[u], <<a, n>>) = {}
  BY <1>1 DEF Touching
<1>. QED  BY <1>2 DEF Sees

LEMMA Contested_QueryAnswered ==
  ASSUME Inv, Contested, NEW c \in calls, QueryAnswered(c)
  PROVE  Contested'
<1>. DEFINE u == c.tag.user
<1>1. /\ UNCHANGED <<docs, outbox, overtaken>>
      /\ u \in Users
  BY EarlySave, EditProfileAssumption DEF Inv, QueryAnswered
<1>2. ASSUME NEW a \in Users, NEW b \in Users, NEW n \in Names,
             a # b, <<a, n>> \in docs, Passed(b, n)', ~ Passed(b, n)
      PROVE  FALSE
  <2>1. PICK d \in calls' : d.kind = "own" /\ d.free /\ d.tag.user = b /\ d.name = n
    BY <1>1, <1>2 DEF Passed
  <2>2. d \notin calls
    BY <1>2, <2>1 DEF Passed
  <2>3. d = [kind |-> "own", tag |-> c.tag, name |-> c.name,
             free |-> NameFree(c.tag.user, c.name)]
    BY <2>2 DEF QueryAnswered
  <2>4. b = u /\ NameFree(u, n)
    BY <2>1, <2>3
  <2>5. Sees(u, <<a, n>>) /\ n # None
    BY <1>2, <2>4, OthersSeen, EditProfileAssumption
  <2>. QED  BY <2>4, <2>5 DEF NameFree
<1>. QED  BY <1>1, <1>2 DEF Contested

LEMMA Contested_CommitTexts ==
  ASSUME Inv, Contested, NEW c \in calls, CommitTexts(c)
  PROVE  Contested'
<1>. DEFINE u == c.tag.user
            b == [puts |-> {<<u, c.name>>},
                  dels |-> {<<u, n>> : n \in Names \ {c.name}},
                  handler |-> c.tag]
<1>1. /\ c.kind = "own" /\ c.name # None /\ ~ Taken(c)
      /\ \A d \in calls' : d.kind = "own" => d \in calls
      /\ Enqueue(u, b)
      /\ UNCHANGED <<docs, overtaken>>
  BY DEF CommitTexts
<1>2. u \in Users /\ c.name \in Names /\ c.tag \in Tags /\ Typed
  BY <1>1, EarlySave, EditProfileAssumption, RequestFields DEF Inv, Tracked, Typed
<1>3. b \in Batches /\ b.puts = {<<u, c.name>>}
  BY <1>2 DEF Batches
<1>. HIDE DEF b
<1>4. /\ \A w \in Users \ {u} : outbox'[w] = outbox[w]
      /\ \A i \in DOMAIN outbox'[u] :
           outbox'[u][i] = b \/ (i \in DOMAIN outbox[u] /\ outbox'[u][i] = outbox[u][i])
  BY <1>1, <1>2, <1>3, Queued
<1>5. <<u, c.name>> \in docs \/ Passed(u, c.name)
  <2>1. CASE c.free
    BY <1>1, <2>1 DEF Passed
  <2>2. CASE ~ c.free
    <3>1. Sees(u, <<u, c.name>>)
      BY <1>1, <2>2 DEF Taken
    <3>. QED  BY <3>1 DEF Sees, Touching, Passed
  <2>. QED  BY <2>1, <2>2
<1>6. \A x \in Users, n \in Names :
        Passed(x, n)' => Passed(x, n) \/ <<x, n>> = <<u, c.name>>
  BY <1>1, <1>3, <1>4 DEF Passed
<1>. QED  BY <1>1, <1>5, <1>6 DEF Contested

LEMMA Contested_BatchCommitted ==
  ASSUME Inv, Contested, NEW u \in Editors, BatchCommitted(u)
  PROVE  Contested'
<1>1. /\ u \in Users /\ Tracked /\ outbox[u] # <<>>
      /\ outbox' = [outbox EXCEPT ![u] = Tail(@)]
      /\ docs' = (docs \ Head(outbox[u]).dels) \cup Head(outbox[u]).puts
      /\ overtaken' = overtaken \cup Overtaking(u)
      /\ \A d \in calls' : d.kind = "own" => d \in calls
  <2>1. calls' = calls \/ \E T, S : calls' = calls \cup [kind : {"upload"}, tag : T, slot : S]
    BY Zenon DEF BatchCommitted
  <2>2. \A d \in calls' : d.kind = "own" => d \in calls
    BY <2>1
  <2>. QED  BY <2>2, EditProfileAssumption DEF Inv, BatchCommitted, Commit
<1>2. /\ 1 \in DOMAIN outbox[u] /\ Head(outbox[u]) = outbox[u][1]
      /\ \A w \in Users : \A i \in DOMAIN outbox'[w] :
           \E j \in DOMAIN outbox[w] : outbox'[w][i] = outbox[w][j]
  <2>1. 1 \in DOMAIN outbox[u] /\ Head(outbox[u]) = outbox[u][1]
    BY <1>1, QueueTail
  <2>2. \A w \in Users : \A i \in DOMAIN outbox'[w] :
          \E j \in DOMAIN outbox[w] :
            /\ outbox'[w][i] = outbox[w][j]
            /\ Head(outbox[u]).handler # NoHandler =>
                 outbox[w][j].handler # Head(outbox[u]).handler
    BY <1>1, QueueTail
  <2>. QED  BY <2>1, <2>2
<1>3. \A x \in Users, n \in Names : Passed(x, n)' => Passed(x, n)
  BY <1>1, <1>2, FewerPassed
<1>4. \A x \in Users, n \in Names : <<x, n>> \in Head(outbox[u]).puts => x = u /\ Passed(u, n)
  BY <1>1, <1>2 DEF Inv, Named, OwnDocuments, Passed
<1>5. ASSUME NEW a \in Users, NEW b \in Users, NEW n \in Names, a # b,
             <<a, n>> \in docs', <<b, n>> \in docs' \/ Passed(b, n)'
      PROVE  {<<a, n>>, <<b, n>>} \cap overtaken' # {}
  <2>1. CASE <<a, n>> \in docs
    <3>1. <<b, n>> \in docs \/ Passed(b, n)
      BY <1>1, <1>3, <1>4, <1>5
    <3>. QED  BY <1>1, <1>5, <2>1, <3>1 DEF Contested
  <2>2. CASE <<a, n>> \notin docs
    <3>1. a = u /\ <<u, n>> \in Head(outbox[u]).puts /\ Passed(a, n)
      BY <1>1, <1>4, <1>5, <2>2
    <3>2. CASE <<b, n>> \in docs'
      <4>1. <<b, n>> \in docs
        BY <1>1, <1>4, <1>5, <3>1, <3>2
      <4>. QED  BY <1>1, <1>5, <3>1, <4>1 DEF Contested
    <3>3. CASE Passed(b, n)'
      <4>1. Passed(b, n)
        BY <1>3, <3>3
      <4>2. <<b, n>> \in Overtaking(u)
        BY <1>5, <3>1, <4>1 DEF Overtaking
      <4>. QED  BY <1>1, <4>2
    <3>. QED  BY <1>5, <3>2, <3>3
  <2>. QED  BY <2>1, <2>2
<1>. QED  BY <1>5 DEF Contested

LEMMA Contested_Next ==
  ASSUME Inv, Contested, [Next]_vars
  PROVE  Contested'
<1>1. CASE Tap
  <2>1. UNCHANGED <<docs, overtaken>>
    BY <1>1 DEF Tap, EditProfile, DismissAlert, Relaunch, SelectImage, DismissEditProfile,
                EmojiRejected, updateUserInfo
  <2>2. \A c \in calls' : c.kind = "own" => c \in calls
    BY <1>1 DEF Tap, EditProfile, DismissAlert, Relaunch, SelectImage, DismissEditProfile,
                EmojiRejected, updateUserInfo
  <2>3. \A x \in Users : \A i \in DOMAIN outbox'[x] :
          \E j \in DOMAIN outbox[x] : outbox'[x][i].puts = outbox[x][j].puts
    <3>1. CASE UNCHANGED outbox
      BY <3>1
    <3>2. ASSUME NEW u \in Editors, Relaunch(u)
          PROVE  \A x \in Users : \A i \in DOMAIN outbox'[x] :
                   i \in DOMAIN outbox[x] /\ outbox'[x][i].puts = outbox[x][i].puts
      <4>1. outbox \in [Users -> Seq(Batches)] /\ u \in Users
        BY EditProfileAssumption DEF Inv, Tracked, Typed
      <4>2. outbox' = [outbox EXCEPT ![u] =
                         [i \in DOMAIN outbox[u] |-> [outbox[u][i] EXCEPT !.handler = NoHandler]]]
        BY <3>2 DEF Relaunch
      <4>3. \A i \in DOMAIN outbox[u] : outbox[u][i] \in Batches
        BY <4>1
      <4>. QED  BY <4>1, <4>2, <4>3 DEF Batches
    <3>. QED  BY <1>1, <3>1, <3>2 DEF Tap, EditProfile, DismissAlert, SelectImage,
                                      DismissEditProfile, EmojiRejected, updateUserInfo
  <2>. QED  BY <2>1, <2>2, <2>3, FewerPassed, NobodyPasses
<1>2. CASE \E c \in calls : Answer(c)
  <2>1. PICK c \in calls : Answer(c)
    BY <1>2
  <2>2. CASE QueryAnswered(c)
    BY <2>2, Contested_QueryAnswered
  <2>3. CASE CommitTexts(c)
    BY <2>3, Contested_CommitTexts
  <2>4. CASE \/ Rejected(c) \/ DisplayNameSet(c) \/ DisplayNameFailed(c)
             \/ uploadData(c) \/ UploadFailed(c)
    <3>1. UNCHANGED <<docs, outbox, overtaken>> /\ calls' \subseteq calls
      BY <2>4 DEF Rejected, DisplayNameSet, DisplayNameFailed, uploadData, UploadFailed
    <3>2. \A x \in Users, n \in Names : Passed(x, n)' => Passed(x, n)
      BY <3>1 DEF Passed
    <3>. QED  BY <3>1, <3>2, NobodyPasses
  <2>. QED  BY <2>1, <2>2, <2>3, <2>4 DEF Answer
<1>3. CASE \E u \in Editors : BatchCommitted(u)
  BY <1>3, Contested_BatchCommitted
<1>4. ASSUME NEW u \in Editors, BatchRefused(u)
      PROVE  Contested'
  <2>1. /\ u \in Users /\ outbox[u] # <<>> /\ Tracked
        /\ outbox' = [outbox EXCEPT ![u] = Tail(@)]
        /\ UNCHANGED <<docs, calls, overtaken>>
    BY <1>4, EditProfileAssumption DEF Inv, BatchRefused, Refuse
  <2>2. \A x \in Users : \A i \in DOMAIN outbox'[x] :
          \E j \in DOMAIN outbox[x] : outbox'[x][i] = outbox[x][j]
    BY <2>1, QueueTail
  <2>. QED  BY <2>1, <2>2, FewerPassed, NobodyPasses
<1>5. CASE Done \/ UNCHANGED vars
  BY <1>5 DEF Done, vars, Contested, Passed
<1>. QED  BY <1>1, <1>2, <1>3, <1>4, <1>5 DEF Next

\* However many users edit at a time, two of them share a username only when one
\* had passed the check (EditProfilePage.swift:378-389) before the batch with the
\* other's name arrived (EditProfilePage.swift:475): no other order of checks,
\* writes, refusals and restarts hands out a name twice.
THEOREM OnlyARaceShares == Spec => []SharedOnlyIfOvertaken
<1>1. Init => Contested
  BY DEF Init, Contested, Passed
<1>2. Contested => SharedOnlyIfOvertaken
  BY DEF Contested, SharedOnlyIfOvertaken
<1>. QED  BY <1>1, <1>2, Contested_Next, Invariance, PTL DEF Spec
==============================================================================
