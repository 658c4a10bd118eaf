-------------------------- MODULE MessageCellProofs --------------------------
(***************************************************************************)
(* Proofs about MessageCell, for any rows, cells and bounds.               *)
(*                                                                         *)
(* OffAfterDeletion needs Known: the calls and the listeners of a cell are *)
(* for rows it was given, and a call that brings Gone is of a row whose    *)
(* message was deleted.                                                    *)
(*                                                                         *)
(* PreviewHonest speaks of the empty queue only.  Its invariant says what  *)
(* every state comes to when the queue runs: Listed, for the rows the list *)
(* will hold, and Finals, for the message each cell will show.             *)
(***************************************************************************)
EXTENDS MessageCell, SequenceTheorems, FiniteSetTheorems, TLAPS

Values == 0..(MaxWrites + 1)

------------------------------------------------------------------------------
(* Lemmas about calls and queues *)

LEMMA CallTypes ==
  /\ \A r \in Rows : \A value \in Values : \A cells \in SUBSET Cells :
       Call(r, value, cells) \in Calls
  /\ \A rows \in SUBSET Rows : ListCall(rows) \in Calls
  /\ Reload \in Calls
  /\ Muted \in Calls
<1>1. ASSUME NEW r \in Rows, NEW value \in Values, NEW cells \in SUBSET Cells
      PROVE  Call(r, value, cells) \in Calls
  BY DEF Call, Calls, Values
<1>2. ASSUME NEW rows \in SUBSET Rows
      PROVE  ListCall(rows) \in Calls
  BY DEF ListCall, Calls
<1>3. Reload \in Calls /\ Muted \in Calls
  BY DEF Reload, Muted, Calls
<1> QED BY <1>1, <1>2, <1>3

LEMMA CallFields ==
  /\ \A r, value, cells :
       /\ Call(r, value, cells).doc = "latest"
       /\ Call(r, value, cells).row = r
       /\ Call(r, value, cells).value = value
       /\ Call(r, value, cells).cells = cells
  /\ \A rows : ListCall(rows).doc = "list" /\ ListCall(rows).rows = rows
  /\ Reload.doc = "reload"
  /\ Muted.doc = "muted"
  BY DEF Call, ListCall, Reload, Muted

\* What a call carries, by its kind.
LEMMA CallKinds ==
  ASSUME NEW call \in Calls
  PROVE  /\ call.doc \in {"latest", "list", "reload", "muted"}
         /\ call.doc = "latest" =>
              call.row \in Rows /\ call.value \in Values /\ call.cells \subseteq Cells
         /\ call.doc = "list" => call.rows \subseteq Rows
<1>1. \/ call \in [doc : {"latest"}, row : Rows, value : Values, cells : SUBSET Cells]
      \/ call \in [doc : {"list"}, rows : SUBSET Rows]
      \/ call \in [doc : {"reload", "muted"}]
  BY DEF Calls, Values
<1>2. CASE call \in [doc : {"latest"}, row : Rows, value : Values, cells : SUBSET Cells]
  BY <1>2
<1>3. CASE call \in [doc : {"list"}, rows : SUBSET Rows]
  BY <1>3
<1>4. CASE call \in [doc : {"reload", "muted"}]
  BY <1>4
<1> QED BY <1>1, <1>2, <1>3, <1>4

LEMMA Removed ==
  ASSUME NEW S, NEW s \in Seq(S), NEW i \in 1..Len(s)
  PROVE  /\ RemoveAt(s, i) \in Seq(S)
         /\ Len(RemoveAt(s, i)) = Len(s) - 1
         /\ \A j \in 1..(Len(s) - 1) :
              RemoveAt(s, i)[j] = IF j < i THEN s[j] ELSE s[j + 1]
<1> DEFINE a == SubSeq(s, 1, i - 1)
           b == SubSeq(s, i + 1, Len(s))
<1>1. a \in Seq(S) /\ Len(a) = i - 1 /\ \A j \in 1..(i - 1) : a[j] = s[j]
  BY SubSeqProperties
<1>2. /\ b \in Seq(S) /\ Len(b) = Len(s) - i
      /\ \A j \in 1..(Len(s) - i) : b[j] = s[i + j]
  BY SubSeqProperties
<1>3. RemoveAt(s, i) = a \o b
  BY DEF RemoveAt
<1> HIDE DEF a, b
<1>4. a \o b \in Seq(S) /\ Len(a \o b) = Len(s) - 1
  <2>1. a \o b \in Seq(S) /\ Len(a \o b) = Len(a) + Len(b)
    BY <1>1, <1>2, ConcatProperties
  <2>2. Len(s) \in Nat
    OBVIOUS
  <2> QED BY <1>1, <1>2, <2>1, <2>2
<1>5. ASSUME NEW j \in 1..(Len(s) - 1)
      PROVE  (a \o b)[j] = IF j < i THEN s[j] ELSE s[j + 1]
  BY <1>1, <1>2, ConcatProperties
<1> QED BY <1>3, <1>4, <1>5

LEMMA MuteKeeps ==
  ASSUME NEW q \in Seq(Calls)
  PROVE  /\ Mute(q) \in Seq(Calls)
         /\ DOMAIN Mute(q) = DOMAIN q
         /\ \A i \in DOMAIN q : Mute(q)[i] = IF q[i].doc = "list" THEN Muted ELSE q[i]
<1>1. Len(q) \in Nat /\ DOMAIN q = 1..Len(q)
  OBVIOUS
<1>2. \A i \in DOMAIN q : (IF q[i].doc = "list" THEN Muted ELSE q[i]) \in Calls
  BY CallTypes
<1>3. Mute(q) \in [1..Len(q) -> Calls]
  BY <1>1, <1>2 DEF Mute
<1>4. Mute(q) \in Seq(Calls)
  BY <1>1, <1>3, SeqDef
<1> QED BY <1>4 DEF Mute

\* The calls that a change of a message puts on the main queue.
LEMMA ChangeCalls ==
  ASSUME NEW q \in Seq(Calls), NEW a \in Calls, NEW b \in Calls, NEW on \in BOOLEAN
  PROVE  q \o <<a>> \o (IF on THEN <<b>> ELSE <<>>)
           = IF on THEN Append(Append(q, a), b) ELSE Append(q, a)
<1>1. q \o <<a>> = Append(q, a) /\ Append(q, a) \in Seq(Calls)
  OBVIOUS
<1>2. ASSUME NEW r \in Seq(Calls)
      PROVE  r \o <<b>> = Append(r, b) /\ r \o <<>> = r
  OBVIOUS
<1> QED BY <1>1, <1>2

------------------------------------------------------------------------------
(* Every variable keeps its type. *)

LEMMA ChangeTypes ==
  ASSUME TypeOK, NEW r \in Rows, NEW value \in {Gone, writes + 2},
         LatestChanges(r, value)
  PROVE  /\ value \in Values
         /\ Hearing(r) \in SUBSET Cells
         /\ Existing' \in SUBSET Rows
         /\ main' = IF list = "on"
                    THEN Append(Append(main, Call(r, value, Hearing(r))), ListCall(Existing'))
                    ELSE Append(main, Call(r, value, Hearing(r)))
<1>1. value \in Values
  BY MessageCellAssumption DEF TypeOK, LatestChanges, Values, Gone
<1>2. Hearing(r) \in SUBSET Cells /\ Existing' \in SUBSET Rows
  BY DEF Hearing, Existing
<1>3. Call(r, value, Hearing(r)) \in Calls /\ ListCall(Existing') \in Calls
  BY <1>1, <1>2, CallTypes
<1>4. main' = main \o <<Call(r, value, Hearing(r))>> \o
                (IF list = "on" THEN <<ListCall(Existing')>> ELSE <<>>)
  BY DEF LatestChanges
<1> QED BY <1>1, <1>2, <1>3, <1>4, ChangeCalls DEF TypeOK

LEMMA DueTypes ==
  ASSUME TypeOK, NEW doc, Due(doc)
  PROVE  /\ Head(main) \in Calls /\ Head(main).doc = doc
         /\ Tail(main) \in Seq(Calls)
         /\ Len(Tail(main)) \in Nat
         /\ DOMAIN Tail(main) = 1..Len(Tail(main))
         /\ DOMAIN main = 1..(Len(Tail(main)) + 1)
         /\ Head(main) = main[1]
         /\ \A i \in DOMAIN Tail(main) : Tail(main)[i] = main[i + 1]
<1>1. main \in Seq(Calls) /\ main # <<>>
  BY DEF TypeOK, Due
<1> QED BY <1>1, HeadTailProperties DEF Due

LEMMA InitTypes == Init => TypeOK
<1> SUFFICES ASSUME Init PROVE TypeOK
  OBVIOUS
<1>1. 1 \in Values /\ Gone \in Values
  BY MessageCellAssumption DEF Values, Gone
<1>2. Loading \in Shown
  BY <1>1 DEF Loading, Shown, Values
<1>3. ASSUME NEW r \in Rows PROVE Cardinality({c \in Cells : row[c] = r}) <= 1
  <2>1. {c \in Cells : row[c] = r} = {}
    BY MessageCellAssumption DEF Init
  <2> QED BY <2>1, FS_EmptySet
<1> QED BY <1>1, <1>2, <1>3, MessageCellAssumption DEF Init, TypeOK, Values

LEMMA LatestTypes ==
  ASSUME TypeOK,
         \/ \E r \in Rows : \E value \in {Gone, writes + 2} : LatestChanges(r, value)
         \/ \E c \in Cells : \E i \in DOMAIN asked[c] : LatestCalled(c, i)
  PROVE  TypeOK'
<1>1. ASSUME NEW r \in Rows, NEW value \in {Gone, writes + 2}, LatestChanges(r, value)
      PROVE  TypeOK'
  <2>1. Call(r, value, Hearing(r)) \in Calls /\ ListCall(Existing') \in Calls
    BY <1>1, ChangeTypes, CallTypes
  <2>2. main' \in Seq(Calls)
    <3> DEFINE a == Call(r, value, Hearing(r))
               b == ListCall(Existing')
    <3>1. main' = IF list = "on" THEN Append(Append(main, a), b) ELSE Append(main, a)
      BY <1>1, ChangeTypes
    <3>2. a \in Calls /\ b \in Calls /\ main \in Seq(Calls)
      BY <2>1 DEF TypeOK
    <3> HIDE DEF a, b
    <3>3. Append(main, a) \in Seq(Calls) /\ Append(Append(main, a), b) \in Seq(Calls)
      BY <3>2
    <3> QED BY <3>1, <3>3
  <2>3. latest' \in [Rows -> Values] /\ deleted' \subseteq Rows
    BY <1>1, ChangeTypes DEF TypeOK, LatestChanges, Values
  <2>4. writes' \in 0..MaxWrites
    BY <1>1, MessageCellAssumption DEF TypeOK, LatestChanges
  <2> QED BY <1>1, <2>2, <2>3, <2>4 DEF TypeOK, LatestChanges, Values
<1>2. ASSUME NEW c \in Cells, NEW i \in DOMAIN asked[c], LatestCalled(c, i)
      PROVE  TypeOK'
  <2> DEFINE r == asked[c][i]
  <2>1. asked[c] \in Seq(Rows) /\ i \in 1..Len(asked[c]) /\ r \in Rows
    BY DEF TypeOK
  <2>2. asked' \in [Cells -> Seq(Rows)]
    BY <1>2, <2>1, Removed DEF TypeOK, LatestCalled
  <2>3. latest[r] \in Values
    BY <2>1 DEF TypeOK, Values
  <2>4. Call(r, latest[r], {c}) \in Calls
    BY <2>1, <2>3, CallTypes
  <2>5. main' \in Seq(Calls)
    BY <1>2, <2>4 DEF TypeOK, LatestCalled
  <2>6. listening' \subseteq Cells \X Rows
    BY <1>2, <2>1 DEF TypeOK, LatestCalled
  <2> QED BY <1>2, <2>2, <2>5, <2>6 DEF TypeOK, LatestCalled
<1> QED BY <1>1, <1>2

LEMMA ListTypes ==
  ASSUME TypeOK,
         \/ viewWillAppear \/ viewWillDisappear \/ ListCalled \/ MutedCalled
         \/ loadLatestMessagesForUser
  PROVE  TypeOK'
<1>1. CASE viewWillAppear
  BY <1>1, MessageCellAssumption DEF TypeOK, viewWillAppear
<1>2. CASE viewWillDisappear
  BY <1>2, MuteKeeps DEF TypeOK, viewWillDisappear
<1>3. CASE ListCalled
  <2>1. ListCall(Existing) \in Calls
    BY CallTypes DEF Existing
  <2> QED BY <1>3, <2>1 DEF TypeOK, ListCalled
<1>4. CASE MutedCalled
  BY <1>4, DueTypes DEF TypeOK, MutedCalled
<1>5. CASE loadLatestMessagesForUser
  <2>1. Head(main).rows \subseteq Rows /\ Tail(main) \in Seq(Calls)
    BY <1>5, DueTypes, CallKinds DEF loadLatestMessagesForUser
  <2>2. main' \in Seq(Calls)
    BY <1>5, <2>1, CallTypes DEF loadLatestMessagesForUser
  <2> QED BY <1>5, <2>1, <2>2 DEF TypeOK, loadLatestMessagesForUser
<1> QED BY <1>1, <1>2, <1>3, <1>4, <1>5

\* What a reload does, with the cells that are given a row.
LEMMA ReloadDeals ==
  ASSUME TypeOK, reloadData
  PROVE  /\ row' \in [Cells -> messages \cup {None}]
         /\ \A b, c \in Cells : row'[b] = row'[c] => b = c \/ row'[b] = None
         /\ \A c \in Cells :
              /\ row'[c] # None => /\ row'[c] \in Rows
                                   /\ preview'[c] = Loading
                                   /\ given'[c] = given[c] \cup {row'[c]}
                                   /\ asked'[c] = Append(asked[c], row'[c])
              /\ row'[c] = None => /\ preview'[c] = preview[c]
                                   /\ given'[c] = given[c]
                                   /\ asked'[c] = asked[c]
         /\ DOMAIN preview' = Cells /\ DOMAIN given' = Cells /\ DOMAIN asked' = Cells
<1>1. PICK deal \in Deals :
        /\ row' = deal
        /\ preview' = [c \in Cells |-> IF c \in {d \in Cells : deal[d] # None}
                                       THEN Loading ELSE preview[c]]
        /\ given' = [c \in Cells |-> IF c \in {d \in Cells : deal[d] # None}
                                     THEN given[c] \cup {deal[c]} ELSE given[c]]
        /\ asked' = [c \in Cells |-> IF c \in {d \in Cells : deal[d] # None}
                                     THEN Append(asked[c], deal[c]) ELSE asked[c]]
  BY Zenon DEF reloadData
<1>2. /\ deal \in [Cells -> messages \cup {None}]
      /\ \A b, c \in Cells : deal[b] = deal[c] => b = c \/ deal[b] = None
  BY DEF Deals
<1>3. \A c \in Cells : deal[c] # None => deal[c] \in Rows
  BY <1>2 DEF TypeOK
<1> QED BY <1>1, <1>2, <1>3

LEMMA ReloadTypes ==
  ASSUME TypeOK, reloadData
  PROVE  TypeOK'
<1>1. row' \in [Cells -> Rows \cup {None}]
  BY ReloadDeals DEF TypeOK
<1>2. ASSUME NEW r \in Rows
      PROVE  Cardinality({c \in Cells : row'[c] = r}) <= 1
  <2>1. CASE {c \in Cells : row'[c] = r} = {}
    BY <2>1, FS_EmptySet
  <2>2. ASSUME NEW b \in Cells, row'[b] = r
        PROVE  Cardinality({c \in Cells : row'[c] = r}) <= 1
    <3>1. \A c \in Cells : row'[c] = r => c = b
      BY <2>2, ReloadDeals, MessageCellAssumption
    <3>2. {c \in Cells : row'[c] = r} = {b}
      BY <2>2, <3>1
    <3> QED BY <3>2, FS_Singleton
  <2> QED BY <2>1, <2>2
<1>3. Loading \in Shown
  BY MessageCellAssumption DEF Loading, Shown, Gone
<1>4. preview' \in [Cells -> Shown]
  <2>1. preview' = [c \in Cells |-> preview'[c]]
    BY Zenon DEF reloadData
  <2>2. \A c \in Cells : preview'[c] \in Shown
    BY <1>3, ReloadDeals DEF TypeOK
  <2> QED BY <2>1, <2>2
<1>5. given' \in [Cells -> SUBSET Rows]
  <2>1. given' = [c \in Cells |-> given'[c]]
    BY Zenon DEF reloadData
  <2>2. \A c \in Cells : given'[c] \in SUBSET Rows
    BY ReloadDeals DEF TypeOK
  <2> QED BY <2>1, <2>2
<1>6. asked' \in [Cells -> Seq(Rows)]
  <2>1. asked' = [c \in Cells |-> asked'[c]]
    BY Zenon DEF reloadData
  <2>2. ASSUME NEW c \in Cells PROVE asked'[c] \in Seq(Rows)
    <3>1. asked[c] \in Seq(Rows)
      BY DEF TypeOK
    <3>2. CASE row'[c] = None
      BY <3>1, <3>2, ReloadDeals
    <3>3. CASE row'[c] # None
      <4>1. row'[c] \in Rows /\ asked'[c] = Append(asked[c], row'[c])
        BY <3>3, ReloadDeals
      <4> QED BY <3>1, <4>1
    <3> QED BY <3>2, <3>3
  <2> QED BY <2>1, <2>2
<1>7. /\ main' \in Seq(Calls)
      /\ UNCHANGED <<latest, list, messages, enabled, listening, deleted, writes, visits>>
  BY DueTypes DEF reloadData
<1> QED BY <1>1, <1>2, <1>4, <1>5, <1>6, <1>7 DEF TypeOK

LEMMA PreviewTypes ==
  ASSUME TypeOK, PreviewCalled
  PROVE  TypeOK'
<1>1. /\ Head(main).row \in Rows /\ Head(main).value \in Values
      /\ Tail(main) \in Seq(Calls)
  BY DueTypes, CallKinds DEF PreviewCalled
<1>2. <<Head(main).row, Head(main).value>> \in Shown
  BY <1>1 DEF Shown, Values
<1>3. preview' \in [Cells -> Shown]
  BY <1>2 DEF PreviewCalled, TypeOK
<1>4. enabled' \in [Cells -> BOOLEAN]
  BY DEF PreviewCalled, TypeOK
<1>5. /\ main' = Tail(main)
      /\ UNCHANGED <<latest, list, messages, row, listening, asked, given, deleted, writes, visits>>
  BY DEF PreviewCalled
<1> QED BY <1>1, <1>3, <1>4, <1>5 DEF TypeOK

LEMMA NextTypes == TypeOK /\ [Next]_vars => TypeOK'
<1> SUFFICES ASSUME TypeOK, [Next]_vars PROVE TypeOK'
  OBVIOUS
<1>1. CASE UNCHANGED vars
  BY <1>1 DEF vars, TypeOK
<1>2. CASE Next
  BY <1>2, LatestTypes, ListTypes, ReloadTypes, PreviewTypes DEF Next
<1> QED BY <1>1, <1>2

\* Every variable keeps its type; in particular no row is shown by two cells.
THEOREM TypeCorrect == Spec => []TypeOK
  BY InitTypes, NextTypes, PTL DEF Spec

------------------------------------------------------------------------------
(* What is known of the messages that are shown, told or waited for. *)

GoneDeleted == \A r \in Rows : latest[r] = Gone => r \in deleted

ListenersGiven == \A c \in Cells : \A r \in Rows : <<c, r>> \in listening => r \in given[c]

AskedGiven == \A c \in Cells : \A i \in DOMAIN asked[c] : asked[c][i] \in given[c]

Founded(call) ==
  call.doc = "latest" =>
    /\ call.value = Gone => call.row \in deleted
    /\ \A c \in call.cells : call.row \in given[c]

Known ==
  /\ GoneDeleted
  /\ ListenersGiven
  /\ AskedGiven
  /\ \A i \in DOMAIN main : Founded(main[i])

LEMMA AppendedCalls ==
  ASSUME NEW S, NEW q \in Seq(S), NEW x \in S
  PROVE  /\ Append(q, x) \in Seq(S)
         /\ Len(q) \in Nat
         /\ DOMAIN q = 1..Len(q)
         /\ DOMAIN Append(q, x) = 1..(Len(q) + 1)
         /\ Append(q, x)[Len(q) + 1] = x
         /\ \A i \in DOMAIN q : Append(q, x)[i] = q[i]
  OBVIOUS

LEMMA HistoryGrows ==
  ASSUME TypeOK, [Next]_vars
  PROVE  deleted \subseteq deleted' /\ \A c \in Cells : given[c] \subseteq given'[c]
<1>1. CASE reloadData
  BY <1>1, ReloadDeals DEF reloadData
<1>2. CASE UNCHANGED given
  BY <1>2 DEF Next, vars, LatestChanges, LatestCalled, viewWillAppear, viewWillDisappear,
              ListCalled, MutedCalled, loadLatestMessagesForUser, reloadData, PreviewCalled
<1> QED
  BY <1>1, <1>2 DEF Next, vars, LatestChanges, LatestCalled, viewWillAppear,
                    viewWillDisappear, ListCalled, MutedCalled, loadLatestMessagesForUser,
                    PreviewCalled

\* Calls stay founded, for the histories only grow.
LEMMA FoundedStays ==
  ASSUME TypeOK, [Next]_vars, \A i \in DOMAIN main : Founded(main[i]),
         \A i \in DOMAIN main' : \/ \E j \in DOMAIN main : main'[i] = main[j]
                                 \/ main'[i].doc # "latest"
                                 \/ Founded(main[i])'
  PROVE  (\A i \in DOMAIN main : Founded(main[i]))'
<1>1. ASSUME NEW i \in DOMAIN main', NEW j \in DOMAIN main, main'[i] = main[j]
      PROVE  Founded(main[i])'
  <2>1. Founded(main[j]) /\ main[j] \in Calls
    BY DEF TypeOK
  <2>2. main[j].doc = "latest" => main[j].cells \subseteq Cells
    BY <2>1, CallKinds
  <2> QED BY <1>1, <2>1, <2>2, HistoryGrows DEF Founded
<1>2. ASSUME NEW i \in DOMAIN main', main'[i].doc # "latest"
      PROVE  Founded(main[i])'
  BY <1>2 DEF Founded
<1> QED BY <1>1, <1>2

LEMMA KnownChange ==
  ASSUME TypeOK, Known, NEW r \in Rows, NEW value \in {Gone, writes + 2},
         LatestChanges(r, value)
  PROVE  Known'
<1> DEFINE a == Call(r, value, Hearing(r))
           b == ListCall(Existing')
<1>1. main' = IF list = "on" THEN Append(Append(main, a), b) ELSE Append(main, a)
  BY ChangeTypes
<1>2. a \in Calls /\ b \in Calls /\ main \in Seq(Calls)
  BY ChangeTypes, CallTypes DEF TypeOK
<1>3. [Next]_vars
  BY DEF Next
<1>4. GoneDeleted'
  BY DEF GoneDeleted, Known, LatestChanges, TypeOK
<1>5. ListenersGiven' /\ AskedGiven'
  BY DEF ListenersGiven, AskedGiven, Known, LatestChanges
<1>6. a.doc = "latest" /\ a.row = r /\ a.value = value /\ a.cells = Hearing(r) /\ b.doc = "list"
  BY CallFields
<1> HIDE DEF a, b
<1>7. \A c \in Hearing(r) : r \in given'[c]
  BY DEF Hearing, Known, ListenersGiven, LatestChanges
<1>8. value = Gone => r \in deleted'
  BY DEF LatestChanges
<1>9. ASSUME NEW i \in DOMAIN main'
      PROVE  \/ \E j \in DOMAIN main : main'[i] = main[j]
             \/ main'[i] = a
             \/ main'[i] = b
  <2>1. /\ Append(main, a) \in Seq(Calls)
        /\ Len(main) \in Nat
        /\ DOMAIN main = 1..Len(main)
        /\ DOMAIN Append(main, a) = 1..(Len(main) + 1)
        /\ Append(main, a)[Len(main) + 1] = a
        /\ \A j \in DOMAIN main : Append(main, a)[j] = main[j]
    BY <1>2, AppendedCalls
  <2>2. /\ Len(Append(main, a)) = Len(main) + 1
        /\ DOMAIN Append(Append(main, a), b) = 1..(Len(main) + 2)
        /\ Append(Append(main, a), b)[Len(main) + 2] = b
        /\ \A j \in DOMAIN Append(main, a) : Append(Append(main, a), b)[j] = Append(main, a)[j]
    BY <1>2, <2>1, AppendedCalls
  <2>3. CASE list = "on"
    BY <1>1, <1>9, <2>1, <2>2, <2>3
  <2>4. CASE list # "on"
    BY <1>1, <1>9, <2>1, <2>4
  <2> QED BY <2>3, <2>4
<1>10. ASSUME NEW i \in DOMAIN main'
       PROVE  \/ \E j \in DOMAIN main : main'[i] = main[j]
              \/ main'[i].doc # "latest"
              \/ Founded(main[i])'
  <2>1. CASE main'[i] = a
    <3>1. Founded(main[i])'
      BY <1>6, <1>7, <1>8, <2>1 DEF Founded
    <3> QED BY <3>1
  <2>2. CASE main'[i] = b
    BY <1>6, <2>2
  <2> QED BY <1>9, <2>1, <2>2
<1>11. (\A i \in DOMAIN main : Founded(main[i]))'
  BY <1>3, <1>10, FoundedStays DEF Known
<1> QED BY <1>4, <1>5, <1>11 DEF Known

LEMMA KnownFirstCall ==
  ASSUME TypeOK, Known, NEW c \in Cells, NEW i \in DOMAIN asked[c], LatestCalled(c, i)
  PROVE  Known'
<1> DEFINE r == asked[c][i]
           a == Call(r, latest[r], {c})
<1>1. asked[c] \in Seq(Rows) /\ i \in 1..Len(asked[c]) /\ r \in Rows /\ r \in given[c]
  BY DEF TypeOK, Known, AskedGiven
<1>2. latest[r] \in Values
  BY <1>1 DEF TypeOK, Values
<1>3. a \in Calls /\ main \in Seq(Calls) /\ main' = Append(main, a)
  BY <1>1, <1>2, CallTypes DEF TypeOK, LatestCalled
<1>4. [Next]_vars
  BY DEF Next
<1>5. GoneDeleted'
  BY DEF GoneDeleted, Known, LatestCalled
<1>6. ListenersGiven'
  BY <1>1 DEF ListenersGiven, Known, LatestCalled
<1>7. AskedGiven'
  <2>1. /\ asked'[c] = RemoveAt(asked[c], i)
        /\ \A d \in Cells \ {c} : asked'[d] = asked[d]
        /\ given' = given
    BY DEF LatestCalled, TypeOK
  <2>2. ASSUME NEW j \in DOMAIN asked'[c] PROVE asked'[c][j] \in given[c]
    <3>1. /\ RemoveAt(asked[c], i) \in Seq(Rows)
          /\ Len(RemoveAt(asked[c], i)) = Len(asked[c]) - 1
          /\ \A k \in 1..(Len(asked[c]) - 1) :
               RemoveAt(asked[c], i)[k] = IF k < i THEN asked[c][k] ELSE asked[c][k + 1]
      BY <1>1, Removed
    <3>2. j \in 1..(Len(asked[c]) - 1)
      BY <2>1, <2>2, <3>1
    <3>3. asked'[c][j] \in {asked[c][j], asked[c][j + 1]} /\ {j, j + 1} \subseteq DOMAIN asked[c]
      BY <1>1, <2>1, <3>1, <3>2
    <3> QED BY <3>3 DEF Known, AskedGiven
  <2> QED BY <2>1, <2>2 DEF Known, AskedGiven
<1>8. a.doc = "latest" /\ a.row = r /\ a.value = latest[r] /\ a.cells = {c}
  BY CallFields
<1>9. given' = given /\ deleted' = deleted /\ (latest[r] = Gone => r \in deleted)
  BY <1>1 DEF LatestCalled, Known, GoneDeleted
<1> HIDE DEF a, r
<1>10. ASSUME NEW j \in DOMAIN main'
       PROVE  \/ \E k \in DOMAIN main : main'[j] = main[k]
              \/ main'[j].doc # "latest"
              \/ Founded(main[j])'
  <2>1. main'[j] = a \/ \E k \in DOMAIN main : main'[j] = main[k]
    BY <1>3, <1>10, AppendedCalls
  <2>2. CASE main'[j] = a
    <3>1. Founded(main[j])'
      BY <1>1, <1>8, <1>9, <2>2 DEF Founded
    <3> QED BY <3>1
  <2> QED BY <2>1, <2>2
<1>11. (\A j \in DOMAIN main : Founded(main[j]))'
  BY <1>4, <1>10, FoundedStays DEF Known
<1> QED BY <1>5, <1>6, <1>7, <1>11 DEF Known

LEMMA KnownQueue ==
  ASSUME TypeOK, Known,
         \/ viewWillAppear \/ viewWillDisappear \/ ListCalled \/ MutedCalled
         \/ loadLatestMessagesForUser \/ reloadData \/ PreviewCalled \/ UNCHANGED vars
  PROVE  Known'
<1>1. [Next]_vars
  BY DEF Next
<1>2. main \in Seq(Calls) /\ DOMAIN main = 1..Len(main) /\ Len(main) \in Nat
  BY DEF TypeOK
<1>3. GoneDeleted'
  BY DEF Known, GoneDeleted, vars, viewWillAppear, viewWillDisappear, ListCalled, MutedCalled,
         loadLatestMessagesForUser, reloadData, PreviewCalled
<1>4. ListenersGiven' /\ AskedGiven'
  <2>1. CASE ~ reloadData
    BY <2>1 DEF Known, ListenersGiven, AskedGiven, vars, viewWillAppear, viewWillDisappear,
                ListCalled, MutedCalled, loadLatestMessagesForUser, PreviewCalled
  <2>2. CASE reloadData
    <3>1. listening' = listening
      BY <2>2 DEF reloadData
    <3>2. ListenersGiven'
      BY <1>1, <3>1, HistoryGrows DEF Known, ListenersGiven
    <3>3. ASSUME NEW c \in Cells, NEW i \in DOMAIN asked'[c] PROVE asked'[c][i] \in given'[c]
      <4>1. asked[c] \in Seq(Rows)
        BY DEF TypeOK
      <4>2. CASE row'[c] = None
        BY <2>2, <3>3, <4>2, ReloadDeals DEF Known, AskedGiven
      <4>3. CASE row'[c] # None
        <5>1. /\ row'[c] \in Rows /\ given'[c] = given[c] \cup {row'[c]}
              /\ asked'[c] = Append(asked[c], row'[c])
          BY <2>2, <4>3, ReloadDeals
        <5>2. asked'[c][i] = row'[c] \/ \E j \in DOMAIN asked[c] : asked'[c][i] = asked[c][j]
          BY <3>3, <4>1, <5>1, AppendedCalls
        <5> QED BY <5>1, <5>2 DEF Known, AskedGiven
      <4> QED BY <4>2, <4>3
    <3> QED BY <3>2, <3>3 DEF AskedGiven
  <2> QED BY <2>1, <2>2
<1>5. ASSUME NEW i \in DOMAIN main'
      PROVE  (\E j \in DOMAIN main : main'[i] = main[j]) \/ main'[i].doc # "latest"
  <2>1. CASE main' = main
    BY <1>5, <2>1
  <2>2. CASE viewWillDisappear
    <3>1. main' = Mute(main)
      BY <2>2 DEF viewWillDisappear
    <3>2. i \in DOMAIN main /\ main'[i] = IF main[i].doc = "list" THEN Muted ELSE main[i]
      BY <1>2, <1>5, <3>1, MuteKeeps
    <3> QED BY <3>2, CallFields
  <2>3. CASE ListCalled
    <3>1. main' = Append(main, ListCall(Existing)) /\ ListCall(Existing) \in Calls
      BY <2>3, CallTypes DEF ListCalled, Existing
    <3>2. main'[i] = ListCall(Existing) \/ \E j \in DOMAIN main : main'[i] = main[j]
      BY <1>2, <1>5, <3>1, AppendedCalls
    <3> QED BY <3>2, CallFields
  <2>4. CASE MutedCalled \/ reloadData \/ PreviewCalled
    <3>1. main' = Tail(main) /\ \E doc : Due(doc)
      BY <2>4, Zenon DEF MutedCalled, reloadData, PreviewCalled
    <3> QED BY <1>2, <1>5, <3>1, DueTypes
  <2>5. CASE loadLatestMessagesForUser
    <3>1. Due("list") /\ main' \in {Tail(main), Append(Tail(main), Reload)}
      BY <2>5 DEF loadLatestMessagesForUser
    <3>2. Tail(main) \in Seq(Calls) /\ \A j \in DOMAIN Tail(main) : \E k \in DOMAIN main : Tail(main)[j] = main[k]
      BY <1>2, <3>1, DueTypes
    <3>3. \/ main'[i] = Reload
          \/ i \in DOMAIN Tail(main) /\ main'[i] = Tail(main)[i]
      <4>1. CASE main' = Tail(main)
        BY <1>5, <4>1
      <4>2. CASE main' = Append(Tail(main), Reload)
        BY <1>5, <3>2, <4>2, AppendedCalls, CallTypes
      <4> QED BY <3>1, <4>1, <4>2
    <3> QED BY <3>2, <3>3, CallFields
  <2>6. CASE viewWillAppear \/ UNCHANGED vars
    BY <2>1, <2>6 DEF viewWillAppear, vars
  <2> QED BY <2>2, <2>3, <2>4, <2>5, <2>6
<1>6. (\A j \in DOMAIN main : Founded(main[j]))'
  BY <1>1, <1>5, FoundedStays DEF Known
<1> QED BY <1>3, <1>4, <1>6 DEF Known

\* A cell is switched off by a call for a message that is gone, of a row the
\* cell was given.
LEMMA NextKnown ==
  ASSUME TypeOK, Known, OffAfterDeletion, [Next]_vars
  PROVE  Known' /\ OffAfterDeletion'
<1>1. Known'
  BY KnownChange, KnownFirstCall, KnownQueue DEF Next
<1>2. CASE PreviewCalled
  <2>1. /\ Due("latest")
        /\ given' = given /\ deleted' = deleted
        /\ \A c \in Cells : ~ enabled'[c] =>
             ~ enabled[c] \/ (c \in Head(main).cells /\ Head(main).value = Gone)
    BY <1>2 DEF PreviewCalled
  <2>2. Head(main) \in Calls /\ Head(main).doc = "latest" /\ Founded(Head(main))
    BY <2>1, DueTypes DEF Known
  <2>3. ASSUME NEW c \in Cells, ~ enabled'[c], ~ enabled[c]
        PROVE  given'[c] \cap deleted' # {}
    BY <2>1, <2>3 DEF OffAfterDeletion
  <2>4. ASSUME NEW c \in Cells, c \in Head(main).cells, Head(main).value = Gone
        PROVE  given'[c] \cap deleted' # {}
    BY <2>1, <2>2, <2>4 DEF Founded
  <2> QED BY <1>1, <2>1, <2>3, <2>4, Zenon DEF OffAfterDeletion
<1>3. CASE ~ PreviewCalled
  <2>1. enabled' = enabled
    BY <1>3 DEF Next, vars, LatestChanges, LatestCalled, viewWillAppear, viewWillDisappear,
                ListCalled, MutedCalled, loadLatestMessagesForUser, reloadData
  <2>2. ASSUME NEW c \in Cells, ~ enabled'[c]
        PROVE  given'[c] \cap deleted' # {}
    <3>1. ~ enabled[c]
      BY <2>1, <2>2, Zenon
    <3>2. given[c] \cap deleted # {}
      BY <3>1, Zenon DEF OffAfterDeletion
    <3> QED BY <3>2, HistoryGrows
  <2> QED BY <1>1, <2>2, Zenon DEF OffAfterDeletion
<1> QED BY <1>1, <1>2, <1>3

\* MessageCell.swift:37: a cell that cannot be tapped was given a row whose
\* message was deleted since.
THEOREM OffAfterADeletion == Spec => []OffAfterDeletion
<1>1. Init => Known /\ OffAfterDeletion
  BY DEF Init, Known, GoneDeleted, ListenersGiven, AskedGiven, OffAfterDeletion, Gone
<1> QED BY <1>1, TypeCorrect, NextKnown, PTL DEF Spec

------------------------------------------------------------------------------
(* What the list will hold when every call has run *)

\* The last call for the list in q brings rows; without one the list, which
\* holds base, keeps them.
Announced(q, base, rows) ==
  \/ \E i \in DOMAIN q :
       /\ q[i].doc = "list" /\ q[i].rows = rows
       /\ \A j \in DOMAIN q : j > i => q[j].doc # "list"
  \/ /\ \A i \in DOMAIN q : q[i].doc # "list"
     /\ base = rows

\* No change of the table is to come, if no message changes.
Quiet == list = "on" /\ \A i \in DOMAIN main : main[i].doc \notin {"list", "reload"}

\* A list without rows asks for no reload: the cells keep the rows they had.
Listed ==
  /\ list = "on" => Announced(main, messages, Existing)
  /\ Quiet => \/ Existing = {}
              \/ \A c \in Cells : row[c] \in Existing \cup {None}

LEMMA AnnouncedAppend ==
  ASSUME NEW q \in Seq(Calls), NEW x \in Calls, NEW base, NEW rows
  PROVE  /\ x.doc = "list" /\ x.rows = rows => Announced(Append(q, x), base, rows)
         /\ x.doc # "list" /\ Announced(q, base, rows) => Announced(Append(q, x), base, rows)
<1> DEFINE p == Append(q, x)
<1>1. /\ Len(q) \in Nat
      /\ DOMAIN q = 1..Len(q)
      /\ DOMAIN p = 1..(Len(q) + 1)
      /\ p[Len(q) + 1] = x
      /\ \A i \in DOMAIN q : p[i] = q[i]
  BY AppendedCalls
<1> HIDE DEF p
<1>2. ASSUME x.doc = "list" /\ x.rows = rows
      PROVE  Announced(p, base, rows)
  <2>1. \A j \in DOMAIN p : ~ (j > Len(q) + 1)
    BY <1>1
  <2> QED BY <1>1, <1>2, <2>1 DEF Announced
<1>3. ASSUME x.doc # "list", Announced(q, base, rows)
      PROVE  Announced(p, base, rows)
  <2>1. ASSUME NEW i \in DOMAIN q, q[i].doc = "list", q[i].rows = rows,
               \A j \in DOMAIN q : j > i => q[j].doc # "list"
        PROVE  Announced(p, base, rows)
    <3>1. i \in DOMAIN p /\ p[i] = q[i]
      BY <1>1
    <3>2. \A j \in DOMAIN p : j > i => p[j].doc # "list"
      BY <1>1, <1>3, <2>1
    <3> QED BY <2>1, <3>1, <3>2 DEF Announced
  <2>2. ASSUME \A i \in DOMAIN q : q[i].doc # "list", base = rows
        PROVE  Announced(p, base, rows)
    <3>1. \A j \in DOMAIN p : p[j].doc # "list"
      BY <1>1, <1>3, <2>2
    <3> QED BY <2>2, <3>1 DEF Announced
  <2> QED BY <1>3, <2>1, <2>2 DEF Announced
<1> QED BY <1>2, <1>3 DEF p

LEMMA AnnouncedTail ==
  ASSUME NEW q \in Seq(Calls), q # <<>>, NEW base, NEW rows, Announced(q, base, rows)
  PROVE  /\ Head(q).doc = "list" => Announced(Tail(q), Head(q).rows, rows)
         /\ Head(q).doc # "list" => Announced(Tail(q), base, rows)
<1> DEFINE p == Tail(q)
<1>1. /\ Len(p) \in Nat /\ DOMAIN p = 1..Len(p)
      /\ DOMAIN q = 1..(Len(p) + 1)
      /\ Head(q) = q[1]
      /\ \A i \in DOMAIN p : p[i] = q[i + 1]
  BY HeadTailProperties
<1> HIDE DEF p
<1>2. ASSUME NEW i \in DOMAIN q, q[i].doc = "list", q[i].rows = rows,
             \A j \in DOMAIN q : j > i => q[j].doc # "list", NEW start,
             i = 1 => start = rows
      PROVE  Announced(p, start, rows)
  <2>1. CASE i = 1
    <3>1. \A j \in DOMAIN p : p[j].doc # "list"
      BY <1>1, <1>2, <2>1
    <3> QED BY <1>2, <2>1, <3>1 DEF Announced
  <2>2. CASE i # 1
    <3>1. i - 1 \in DOMAIN p /\ p[i - 1] = q[i]
      BY <1>1, <2>2
    <3>2. \A j \in DOMAIN p : j > i - 1 => p[j].doc # "list"
      BY <1>1, <1>2
    <3> QED BY <1>2, <3>1, <3>2 DEF Announced
  <2> QED BY <2>1, <2>2
<1>3. ASSUME \A i \in DOMAIN q : q[i].doc # "list", base = rows
      PROVE  Announced(p, base, rows) /\ Head(q).doc # "list"
  <2>1. \A j \in DOMAIN p : p[j].doc # "list"
    BY <1>1, <1>3
  <2> QED BY <1>1, <1>3, <2>1 DEF Announced
<1>4. CASE \A i \in DOMAIN q : q[i].doc # "list"
  <2>1. base = rows
    BY <1>4 DEF Announced
  <2> QED BY <1>3, <1>4, <2>1 DEF p
<1>5. ASSUME NEW i \in DOMAIN q, q[i].doc = "list", q[i].rows = rows,
             \A j \in DOMAIN q : j > i => q[j].doc # "list"
      PROVE  /\ Head(q).doc = "list" => Announced(p, Head(q).rows, rows)
             /\ Head(q).doc # "list" => Announced(p, base, rows)
  <2>1. i = 1 => Head(q).doc = "list" /\ Head(q).rows = rows
    BY <1>1, <1>5
  <2> QED BY <1>2, <1>5, <2>1
<1> QED BY <1>4, <1>5 DEF Announced, p

\* Where the queue's next call is not for the list, the rest of the queue
\* brings what the queue did.
LEMMA ListedTail ==
  ASSUME TypeOK, Listed, NEW doc, Due(doc), doc # "list",
         main' = Tail(main), UNCHANGED <<list, messages, latest>>
  PROVE  (list = "on" => Announced(main, messages, Existing))'
<1>1. main \in Seq(Calls) /\ main # <<>> /\ Head(main).doc # "list"
  BY DueTypes DEF Due, TypeOK
<1>2. Existing' = Existing
  BY DEF Existing
<1>3. list = "on" => Announced(Tail(main), messages, Existing)
  BY <1>1, AnnouncedTail DEF Listed
<1> QED BY <1>2, <1>3

LEMMA ListedStep ==
  ASSUME TypeOK, Listed, [Next]_vars
  PROVE  Listed'
<1>1. main \in Seq(Calls) /\ DOMAIN main = 1..Len(main) /\ Len(main) \in Nat
  BY DEF TypeOK
<1>2. ASSUME NEW r \in Rows, NEW value \in {Gone, writes + 2}, LatestChanges(r, value)
      PROVE  Listed'
  <2> DEFINE a == Call(r, value, Hearing(r))
             b == ListCall(Existing')
  <2>1. list' = list /\ messages' = messages
    BY <1>2 DEF LatestChanges
  <2>2. CASE list = "on"
    <3>1. a \in Calls /\ b \in Calls /\ b.doc = "list" /\ b.rows = Existing'
      BY <1>2, ChangeTypes, CallTypes, CallFields
    <3>2. main' = Append(Append(main, a), b)
      BY <1>2, <2>2, ChangeTypes
    <3> HIDE DEF a, b
    <3>3. Append(main, a) \in Seq(Calls)
      BY <1>1, <3>1
    <3>4. Announced(main', messages', Existing')
      BY <3>1, <3>2, <3>3, AnnouncedAppend
    <3>5. \E i \in DOMAIN main' : main'[i].doc = "list"
      BY <3>1, <3>2, <3>3, AppendedCalls
    <3>6. ~ Quiet'
      BY <3>5 DEF Quiet
    <3> QED BY <3>4, <3>6 DEF Listed
  <2>3. CASE list # "on"
    BY <2>1, <2>3 DEF Listed, Quiet
  <2> QED BY <2>2, <2>3
<1>3. ASSUME NEW c \in Cells, NEW i \in DOMAIN asked[c], LatestCalled(c, i)
      PROVE  Listed'
  <2> DEFINE r == asked[c][i]
             a == Call(r, latest[r], {c})
  <2>1. r \in Rows
    BY DEF TypeOK
  <2>2. latest[r] \in Values
    BY <2>1 DEF TypeOK, Values
  <2>3. a \in Calls /\ a.doc = "latest" /\ main' = Append(main, a)
    BY <1>3, <2>1, <2>2, CallTypes, CallFields DEF LatestCalled
  <2>4. UNCHANGED <<list, messages, latest, row>> /\ Existing' = Existing
    BY <1>3 DEF LatestCalled, Existing
  <2> HIDE DEF a
  <2>5. list = "on" => Announced(main', messages, Existing)
    BY <1>1, <2>3, AnnouncedAppend DEF Listed
  <2>6. Quiet' => Quiet
    BY <1>1, <2>3, <2>4, AppendedCalls DEF Quiet
  <2> QED BY <2>4, <2>5, <2>6 DEF Listed
<1>4. CASE viewWillAppear \/ viewWillDisappear
  <2>1. list' # "on"
    BY <1>4 DEF viewWillAppear, viewWillDisappear
  <2> QED BY <2>1 DEF Listed, Quiet
<1>5. CASE ListCalled
  <2> DEFINE b == ListCall(Existing)
  <2>1. b \in Calls /\ b.doc = "list" /\ b.rows = Existing /\ main' = Append(main, b)
    BY <1>5, CallTypes, CallFields DEF ListCalled, Existing
  <2>2. messages' = messages /\ Existing' = Existing
    BY <1>5 DEF ListCalled, Existing
  <2> HIDE DEF b
  <2>3. Announced(main', messages, Existing)
    BY <1>1, <2>1, AnnouncedAppend
  <2>4. \E i \in DOMAIN main' : main'[i].doc = "list"
    BY <1>1, <2>1, AppendedCalls
  <2>5. ~ Quiet'
    BY <2>4 DEF Quiet
  <2> QED BY <2>2, <2>3, <2>5 DEF Listed
<1>6. CASE MutedCalled \/ PreviewCalled
  <2>1. /\ Due("muted") \/ Due("latest")
        /\ main' = Tail(main) /\ UNCHANGED <<list, messages, latest, row>>
    BY <1>6 DEF MutedCalled, PreviewCalled
  <2>2. (list = "on" => Announced(main, messages, Existing))'
    BY <2>1, ListedTail
  <2>3. Quiet' => Quiet
    <3>1. Head(main).doc \in {"muted", "latest"} /\ Head(main) = main[1]
      BY <2>1, DueTypes
    <3>2. ASSUME Quiet', NEW i \in DOMAIN main
          PROVE  main[i].doc \notin {"list", "reload"}
      <4>1. CASE i = 1
        BY <3>1, <4>1
      <4>2. CASE i # 1
        <5>1. i - 1 \in DOMAIN main' /\ main'[i - 1] = main[i]
          BY <2>1, <4>2, DueTypes
        <5> QED BY <3>2, <5>1 DEF Quiet
      <4> QED BY <4>1, <4>2
    <3> QED BY <2>1, <3>2 DEF Quiet
  <2>4. Existing' = Existing
    BY <2>1 DEF Existing
  <2> QED BY <2>1, <2>2, <2>3, <2>4 DEF Listed
<1>7. CASE loadLatestMessagesForUser
  <2>1. /\ Due("list") /\ messages' = Head(main).rows
        /\ main' = IF messages' = {} THEN Tail(main) ELSE Append(Tail(main), Reload)
        /\ UNCHANGED <<list, latest>> /\ Existing' = Existing
    BY <1>7 DEF loadLatestMessagesForUser, Existing
  <2>2. main # <<>> /\ Head(main).doc = "list" /\ Tail(main) \in Seq(Calls)
    BY <2>1, DueTypes DEF Due
  <2>3. list = "on" => Announced(Tail(main), messages', Existing)
    BY <1>1, <2>1, <2>2, AnnouncedTail DEF Listed
  <2>4. Reload \in Calls /\ Reload.doc = "reload"
    BY CallTypes, CallFields
  <2>5. list = "on" => Announced(main', messages', Existing)
    BY <2>1, <2>2, <2>3, <2>4, AnnouncedAppend
  <2>6. ASSUME Quiet' PROVE Existing = {}
    <3>1. \A i \in DOMAIN main' : main'[i].doc # "list" /\ main'[i] # Reload
      BY <2>4, <2>6 DEF Quiet
    <3>2. messages' = {}
      <4>1. CASE messages' # {}
        <5>1. Reload = main'[Len(Tail(main)) + 1] /\ Len(Tail(main)) + 1 \in DOMAIN main'
          BY <2>1, <2>2, <2>4, <4>1, AppendedCalls
        <5> QED BY <3>1, <5>1
      <4> QED BY <4>1
    <3>3. Announced(main', messages', Existing)
      BY <2>1, <2>5, <2>6 DEF Quiet
    <3> QED BY <3>1, <3>2, <3>3 DEF Announced
  <2> QED BY <2>1, <2>5, <2>6 DEF Listed
<1>8. CASE reloadData
  <2>1. /\ Due("reload") /\ main' = Tail(main)
        /\ UNCHANGED <<list, messages, latest>> /\ Existing' = Existing
    BY <1>8 DEF reloadData, Existing
  <2>2. (list = "on" => Announced(main, messages, Existing))'
    BY <2>1, ListedTail
  <2>3. ASSUME Quiet' PROVE messages = Existing
    BY <2>1, <2>2, <2>3 DEF Quiet, Announced
  <2>4. \A c \in Cells : row'[c] \in messages \cup {None}
    BY <1>8, ReloadDeals
  <2> QED BY <2>1, <2>2, <2>3, <2>4 DEF Listed
<1>9. CASE UNCHANGED vars
  BY <1>9 DEF vars, Listed, Quiet, Existing
<1> QED BY <1>2, <1>3, <1>4, <1>5, <1>6, <1>7, <1>8, <1>9 DEF Next

------------------------------------------------------------------------------
(* What a cell will show when every call has run *)

To(call, c) == call.doc = "latest" /\ c \in call.cells

\* The last of the calls in q to the cell shows y; without one the cell keeps x.
Ends(q, c, x, y) ==
  \/ \E i \in DOMAIN q :
       /\ To(q[i], c)
       /\ y = <<q[i].row, q[i].value>>
       /\ \A j \in DOMAIN q : j > i => ~ To(q[j], c)
  \/ /\ \A i \in DOMAIN q : ~ To(q[i], c)
     /\ y = x

LEMMA EndsAppend ==
  ASSUME NEW q \in Seq(Calls), NEW a \in Calls, NEW c, NEW x, NEW y
  PROVE  /\ To(a, c) => Ends(Append(q, a), c, x, <<a.row, a.value>>)
         /\ ~ To(a, c) /\ Ends(q, c, x, y) => Ends(Append(q, a), c, x, y)
<1> DEFINE p == Append(q, a)
<1>1. /\ Len(q) \in Nat
      /\ DOMAIN q = 1..Len(q)
      /\ DOMAIN p = 1..(Len(q) + 1)
      /\ p[Len(q) + 1] = a
      /\ \A i \in DOMAIN q : p[i] = q[i]
  BY AppendedCalls
<1> HIDE DEF p
<1>2. ASSUME To(a, c)
      PROVE  Ends(p, c, x, <<a.row, a.value>>)
  <2>1. \A j \in DOMAIN p : ~ (j > Len(q) + 1)
    BY <1>1
  <2>2. Len(q) + 1 \in DOMAIN p /\ To(p[Len(q) + 1], c)
    BY <1>1, <1>2
  <2> QED BY <1>1, <2>1, <2>2 DEF Ends
<1>3. ASSUME ~ To(a, c), NEW i \in DOMAIN q, To(q[i], c), y = <<q[i].row, q[i].value>>,
             \A j \in DOMAIN q : j > i => ~ To(q[j], c)
      PROVE  Ends(p, c, x, y)
  <2>1. i \in DOMAIN p /\ p[i] = q[i]
    BY <1>1
  <2>2. \A j \in DOMAIN p : j > i => ~ To(p[j], c)
    BY <1>1, <1>3
  <2> QED BY <1>3, <2>1, <2>2 DEF Ends
<1>4. ASSUME ~ To(a, c), \A i \in DOMAIN q : ~ To(q[i], c), y = x
      PROVE  Ends(p, c, x, y)
  <2>1. \A j \in DOMAIN p : ~ To(p[j], c)
    BY <1>1, <1>4
  <2> QED BY <1>4, <2>1 DEF Ends
<1> QED BY <1>2, <1>3, <1>4 DEF Ends, p

\* The call that runs next goes into the preview if it is to the cell.
LEMMA EndsTail ==
  ASSUME NEW q \in Seq(Calls), q # <<>>, NEW c, NEW x, NEW y, Ends(q, c, x, y)
  PROVE  /\ To(Head(q), c) => Ends(Tail(q), c, <<Head(q).row, Head(q).value>>, y)
         /\ ~ To(Head(q), c) => Ends(Tail(q), c, x, y)
<1> DEFINE p == Tail(q)
<1>1. /\ Len(p) \in Nat /\ DOMAIN p = 1..Len(p)
      /\ DOMAIN q = 1..(Len(p) + 1)
      /\ Head(q) = q[1]
      /\ \A i \in DOMAIN p : p[i] = q[i + 1]
  BY HeadTailProperties
<1> HIDE DEF p
<1>2. ASSUME NEW i \in DOMAIN q, To(q[i], c), y = <<q[i].row, q[i].value>>,
             \A j \in DOMAIN q : j > i => ~ To(q[j], c), NEW start,
             i = 1 => start = y
      PROVE  Ends(p, c, start, y)
  <2>1. CASE i = 1
    <3>1. \A j \in DOMAIN p : ~ To(p[j], c)
      BY <1>1, <1>2, <2>1
    <3> QED BY <1>2, <2>1, <3>1 DEF Ends
  <2>2. CASE i # 1
    <3>1. i - 1 \in DOMAIN p /\ p[i - 1] = q[i]
      BY <1>1, <2>2
    <3>2. \A j \in DOMAIN p : j > i - 1 => ~ To(p[j], c)
      BY <1>1, <1>2
    <3> QED BY <1>2, <3>1, <3>2 DEF Ends
  <2> QED BY <2>1, <2>2
<1>3. CASE \A i \in DOMAIN q : ~ To(q[i], c)
  <2>1. y = x
    BY <1>3 DEF Ends
  <2>2. \A j \in DOMAIN p : ~ To(p[j], c)
    BY <1>1, <1>3
  <2>3. ~ To(Head(q), c)
    BY <1>1, <1>3
  <2> QED BY <2>1, <2>2, <2>3 DEF Ends, p
<1>4. ASSUME NEW i \in DOMAIN q, To(q[i], c), y = <<q[i].row, q[i].value>>,
             \A j \in DOMAIN q : j > i => ~ To(q[j], c)
      PROVE  /\ To(Head(q), c) => Ends(p, c, <<Head(q).row, Head(q).value>>, y)
             /\ ~ To(Head(q), c) => Ends(p, c, x, y)
  <2>1. i = 1 => To(Head(q), c) /\ y = <<Head(q).row, Head(q).value>>
    BY <1>1, <1>4
  <2> QED BY <1>2, <1>4, <2>1
<1> QED BY <1>3, <1>4 DEF Ends, p

LEMMA EndsMute ==
  ASSUME NEW q \in Seq(Calls), NEW c, NEW x, NEW y, Ends(q, c, x, y)
  PROVE  Ends(Mute(q), c, x, y)
<1>1. /\ DOMAIN Mute(q) = DOMAIN q
      /\ \A i \in DOMAIN q : Mute(q)[i] = IF q[i].doc = "list" THEN Muted ELSE q[i]
  BY MuteKeeps
<1>2. ASSUME NEW i \in DOMAIN q PROVE To(Mute(q)[i], c) <=> To(q[i], c)
  BY <1>1, CallFields DEF To
<1>3. ASSUME NEW i \in DOMAIN q, To(q[i], c) PROVE Mute(q)[i] = q[i]
  BY <1>1, <1>3 DEF To
<1> HIDE DEF To
<1> QED BY <1>1, <1>2, <1>3 DEF Ends

\* A cell that is emptied shows what it would have, or nothing.
LEMMA EndsReset ==
  ASSUME NEW q, NEW c, NEW x, NEW y, Ends(q, c, x, y), NEW z
  PROVE  Ends(q, c, z, y) \/ Ends(q, c, z, z)
  BY DEF Ends

\* The last row that the cell was given is the one it waits for, and shows.
Waits(c) == asked[c] # <<>> /\ asked[c][Len(asked[c])] = row[c]

Heard(c, y) == y = Loading \/ (<<c, y[1]>> \in listening /\ y[2] = latest[y[1]])

Settled(c, y) ==
  \/ Waits(c)
  \/ /\ \A i \in DOMAIN asked[c] : latest[asked[c][i]] = Gone
     /\ y # Loading
     /\ latest[y[1]] # Gone => y[1] = row[c]

\* What a cell will show is what its listener last heard.  Once the table is
\* to stay as it is, that is of the cell's own row, or of one that is gone,
\* unless the row's own listener is still to be called.
FinallyShows(c, y) ==
  /\ Ends(main, c, preview[c], y)
  /\ Heard(c, y)
  /\ y = Loading /\ row[c] # None => Waits(c)
  /\ Quiet /\ row[c] # None => Settled(c, y)

Finals == \A c \in Cells : \E y \in Shown : FinallyShows(c, y)

LEMMA HeardRows ==
  ASSUME TypeOK, NEW c \in Cells, NEW y \in Shown, Heard(c, y), y # Loading
  PROVE  y[1] \in Rows /\ <<c, y[1]>> \in listening /\ y[2] = latest[y[1]]
  BY DEF TypeOK, Heard

LEMMA FinalsChange ==
  ASSUME TypeOK, Finals, NEW r \in Rows, NEW value \in {Gone, writes + 2},
         LatestChanges(r, value), NEW c \in Cells
  PROVE  \E y \in Shown : FinallyShows(c, y)'
<1> DEFINE a == Call(r, value, Hearing(r))
           b == ListCall(Existing')
           q == Append(main, a)
<1>1. /\ a \in Calls /\ a.doc = "latest" /\ a.row = r /\ a.value = value
      /\ a.cells = Hearing(r)
      /\ b \in Calls /\ b.doc = "list"
  BY ChangeTypes, CallTypes, CallFields
<1>2. main' = IF list = "on" THEN Append(q, b) ELSE q
  BY ChangeTypes
<1> HIDE DEF a, b
<1>3. main \in Seq(Calls) /\ q \in Seq(Calls)
  BY <1>1 DEF TypeOK
<1>4. UNCHANGED <<list, row, preview, listening, asked>>
  BY DEF LatestChanges
<1>5. To(a, c) <=> <<c, r>> \in listening
  BY <1>1 DEF To, Hearing
<1>6. ~ To(b, c)
  BY <1>1 DEF To
<1>7. \A y : Ends(q, c, preview[c], y) => Ends(main', c, preview'[c], y)
  <2>1. CASE list = "on"
    BY <1>1, <1>2, <1>3, <1>4, <1>6, <2>1, EndsAppend
  <2>2. CASE list # "on"
    BY <1>2, <1>4, <2>2
  <2> QED BY <2>1, <2>2
<1>8. ~ Quiet'
  <2>1. CASE list = "on"
    <3>1. \E i \in DOMAIN main' : main'[i].doc = "list"
      BY <1>1, <1>2, <1>3, <2>1, AppendedCalls
    <3> QED BY <3>1 DEF Quiet
  <2>2. CASE list # "on"
    BY <1>4, <2>2 DEF Quiet
  <2> QED BY <2>1, <2>2
<1>9. latest \in [Rows -> Values] /\ latest' = [latest EXCEPT ![r] = value] /\ value \in Values
  BY ChangeTypes DEF LatestChanges, TypeOK, Values
<1>10. Waits(c)' <=> Waits(c)
  BY <1>4 DEF Waits
<1>11. CASE <<c, r>> \in listening
  <2> DEFINE y == <<r, value>>
  <2>1. y \in Shown /\ y # Loading /\ y[1] = r /\ y[2] = value
    BY <1>9, MessageCellAssumption DEF Shown, Loading, Values
  <2> HIDE DEF y
  <2>2. Ends(main, c, preview[c], y)'
    <3>1. Ends(q, c, preview[c], <<a.row, a.value>>)
      BY <1>1, <1>3, <1>5, <1>11, EndsAppend
    <3> QED BY <1>1, <1>7, <3>1 DEF y
  <2>3. Heard(c, y)'
    BY <1>4, <1>9, <1>11, <2>1 DEF Heard
  <2> QED BY <1>8, <2>1, <2>2, <2>3 DEF FinallyShows
<1>12. CASE <<c, r>> \notin listening
  <2>1. PICK y \in Shown : FinallyShows(c, y)
    BY DEF Finals
  <2>2. Ends(main, c, preview[c], y)'
    BY <1>1, <1>3, <1>5, <1>7, <1>12, <2>1, EndsAppend DEF FinallyShows
  <2>3. Heard(c, y)'
    <3>1. CASE y = Loading
      BY <3>1 DEF Heard, Loading, Gone
    <3>2. CASE y # Loading
      <4>1. y[1] \in Rows /\ <<c, y[1]>> \in listening /\ y[2] = latest[y[1]]
        BY <2>1, <3>2, HeardRows DEF FinallyShows
      <4>2. latest'[y[1]] = latest[y[1]]
        BY <1>9, <1>12, <4>1
      <4> QED BY <1>4, <4>1, <4>2 DEF Heard
    <3> QED BY <3>1, <3>2
  <2> QED BY <1>4, <1>8, <1>10, <2>1, <2>2, <2>3 DEF FinallyShows
<1> QED BY <1>11, <1>12

\* A listener's first call: of the cell it is to, what the cell will show.
LEMMA FinalsFirstCall ==
  ASSUME TypeOK, Known, Listed, Finals, NEW d \in Cells, NEW i \in DOMAIN asked[d],
         LatestCalled(d, i), NEW c \in Cells
  PROVE  \E y \in Shown : FinallyShows(c, y)'
<1>1. asked[d] \in Seq(Rows) /\ i \in 1..Len(asked[d]) /\ asked[d][i] \in Rows
  BY DEF TypeOK
<1>2. PICK r \in Rows : r = asked[d][i]
  BY <1>1
<1>3. PICK value \in Values : value = latest[r]
  BY DEF TypeOK, Values
<1> DEFINE a == Call(r, value, {d})
<1>4. /\ a \in Calls /\ a.doc = "latest" /\ a.row = r /\ a.value = value /\ a.cells = {d}
  BY CallTypes, CallFields
<1>5. /\ main' = Append(main, a)
      /\ asked' = [asked EXCEPT ![d] = RemoveAt(asked[d], i)]
      /\ listening' = listening \cup {<<d, r>>}
      /\ latest[r] # Gone => \A j \in 1..(i - 1) : latest[asked[d][j]] = Gone
      /\ UNCHANGED <<latest, list, row, preview>>
  BY <1>2, <1>3 DEF LatestCalled
<1> HIDE DEF a
<1>6. main \in Seq(Calls)
  BY DEF TypeOK
<1>7. Quiet' => Quiet
  BY <1>4, <1>5, <1>6, AppendedCalls DEF Quiet
<1>8. PICK y \in Shown : FinallyShows(c, y)
  BY DEF Finals
<1>9. CASE c # d
  <2>1. asked'[c] = asked[c]
    BY <1>5, <1>9 DEF TypeOK
  <2>2. ~ To(a, c)
    BY <1>4, <1>9 DEF To
  <2>3. Ends(main, c, preview[c], y)'
    BY <1>4, <1>5, <1>6, <1>8, <2>2, EndsAppend DEF FinallyShows
  <2>4. Heard(c, y)'
    BY <1>5, <1>8 DEF Heard, FinallyShows
  <2>5. (Waits(c)' <=> Waits(c)) /\ (Settled(c, y) => Settled(c, y)')
    BY <1>5, <2>1 DEF Waits, Settled
  <2> QED BY <1>5, <1>7, <1>8, <2>3, <2>4, <2>5 DEF FinallyShows
<1>10. CASE c = d
  <2> DEFINE z == <<r, value>>
  <2>1. z \in Shown /\ z # Loading /\ z[1] = r /\ z[2] = value
    BY MessageCellAssumption DEF Shown, Loading, Values
  <2> HIDE DEF z
  <2>2. Ends(main, c, preview[c], z)'
    <3>1. Ends(main', c, preview[c], <<a.row, a.value>>)
      BY <1>4, <1>5, <1>6, <1>10, EndsAppend DEF To
    <3> QED BY <1>4, <1>5, <3>1 DEF z
  <2>3. Heard(c, z)'
    BY <1>3, <1>5, <1>10, <2>1 DEF Heard
  <2>4. ASSUME Quiet, row[c] # None PROVE Settled(c, z)'
    <3> DEFINE n == Len(asked[c])
               s == asked'[c]
    <3>1. /\ s \in Seq(Rows) /\ Len(s) = n - 1 /\ n \in Nat /\ i \in 1..n
          /\ \A j \in 1..(n - 1) : s[j] = IF j < i THEN asked[c][j] ELSE asked[c][j + 1]
      <4>1. s = RemoveAt(asked[d], i)
        BY <1>5, <1>10 DEF TypeOK
      <4> QED BY <1>1, <1>10, <4>1, Removed
    <3>2. DOMAIN s = 1..(n - 1) /\ DOMAIN asked[c] = 1..n
      BY <1>1, <1>10, <3>1
    <3>3. Settled(c, y)
      BY <1>8, <2>4 DEF FinallyShows
    <3>4. CASE Waits(c) /\ i # n
      <4>1. n - 1 \in DOMAIN s /\ s[n - 1] = asked[c][n]
        BY <3>1, <3>2, <3>4
      <4>2. s # <<>> /\ s[Len(s)] = row[c]
        BY <3>1, <3>4, <4>1 DEF Waits
      <4> QED BY <1>5, <4>2 DEF Waits, Settled
    <3>5. CASE \A j \in DOMAIN asked[c] : latest[asked[c][j]] = Gone
      <4>1. ASSUME NEW j \in DOMAIN s PROVE latest[s[j]] = Gone
        <5>1. s[j] \in {asked[c][j], asked[c][j + 1]} /\ {j, j + 1} \subseteq DOMAIN asked[c]
          BY <3>1, <3>2
        <5> QED BY <3>5, <5>1
      <4>2. latest[r] = Gone
        BY <1>2, <1>10, <3>5
      <4> QED BY <1>5, <2>1, <4>1, <4>2 DEF Settled
    <3>6. CASE Waits(c) /\ i = n /\ latest[r] # Gone
      <4>1. r = row[c]
        BY <1>2, <1>10, <3>6 DEF Waits
      <4>2. ASSUME NEW j \in DOMAIN s PROVE latest[s[j]] = Gone
        <5>1. j \in 1..(i - 1) /\ s[j] = asked[d][j]
          BY <1>10, <3>1, <3>2, <3>6
        <5> QED BY <1>5, <3>6, <5>1
      <4> QED BY <1>5, <2>1, <4>1, <4>2 DEF Settled
    <3>7. CASE Waits(c) /\ i = n /\ latest[r] = Gone
      <4>1. row[c] = r /\ r \notin Existing
        BY <1>2, <1>10, <3>7 DEF Waits, Existing
      <4>2. Existing = {}
        BY <2>4, <4>1 DEF Listed
      <4>3. \A j \in DOMAIN asked[c] : latest[asked[c][j]] = Gone
        BY <1>1, <1>10, <4>2 DEF Existing
      <4> QED BY <3>5, <4>3
    <3> QED BY <3>3, <3>4, <3>5, <3>6, <3>7 DEF Settled
  <2>5. UNCHANGED row
    BY <1>5
  <2> QED BY <1>7, <2>1, <2>2, <2>3, <2>4, <2>5 DEF FinallyShows
<1> QED BY <1>9, <1>10

\* The list's own calls: no cell is told anything.
LEMMA FinalsList ==
  ASSUME TypeOK, Listed', Finals,
         \/ viewWillAppear \/ viewWillDisappear \/ ListCalled \/ loadLatestMessagesForUser,
         NEW c \in Cells
  PROVE  \E y \in Shown : FinallyShows(c, y)'
<1>1. PICK y \in Shown : FinallyShows(c, y)
  BY DEF Finals
<1>2. main \in Seq(Calls)
  BY DEF TypeOK
<1>3. UNCHANGED <<latest, row, preview, listening, asked>>
  BY DEF viewWillAppear, viewWillDisappear, ListCalled, loadLatestMessagesForUser
<1>4. Heard(c, y)' /\ (Waits(c)' <=> Waits(c)) /\ (Settled(c, y)' <=> Settled(c, y))
  BY <1>1, <1>3 DEF FinallyShows, Heard, Waits, Settled
<1>5. Ends(main, c, preview[c], y)'
  <2>1. CASE viewWillAppear
    BY <1>1, <2>1 DEF viewWillAppear, FinallyShows
  <2>2. CASE viewWillDisappear
    BY <1>1, <1>2, <2>2, EndsMute DEF viewWillDisappear, FinallyShows
  <2>3. CASE ListCalled
    <3> DEFINE b == ListCall(Existing)
    <3>1. b \in Calls /\ b.doc = "list" /\ main' = Append(main, b)
      BY <2>3, CallTypes, CallFields DEF ListCalled, Existing
    <3> HIDE DEF b
    <3>2. ~ To(b, c)
      BY <3>1 DEF To
    <3> QED BY <1>1, <1>2, <1>3, <3>1, <3>2, EndsAppend DEF FinallyShows
  <2>4. CASE loadLatestMessagesForUser
    <3>1. Due("list") /\ main' \in {Tail(main), Append(Tail(main), Reload)}
      BY <2>4 DEF loadLatestMessagesForUser
    <3>2. Tail(main) \in Seq(Calls) /\ main # <<>> /\ ~ To(Head(main), c)
      BY <3>1, DueTypes DEF Due, To
    <3>3. Ends(Tail(main), c, preview[c], y)
      BY <1>1, <1>2, <3>2, EndsTail DEF FinallyShows
    <3>4. Reload \in Calls /\ ~ To(Reload, c)
      BY CallTypes, CallFields DEF To
    <3> QED BY <1>3, <3>1, <3>2, <3>3, <3>4, EndsAppend
  <2> QED BY <2>1, <2>2, <2>3, <2>4
<1>6. ASSUME Quiet', row[c] # None PROVE Settled(c, y)
  <2>1. CASE ~ loadLatestMessagesForUser
    <3>1. list' # "on" \/ \E i \in DOMAIN main' : main'[i].doc = "list"
      <4>1. CASE viewWillAppear \/ viewWillDisappear
        BY <4>1 DEF viewWillAppear, viewWillDisappear
      <4>2. CASE ListCalled
        <5>1. /\ ListCall(Existing) \in Calls /\ ListCall(Existing).doc = "list"
              /\ main' = Append(main, ListCall(Existing))
          BY <4>2, CallTypes, CallFields DEF ListCalled, Existing
        <5> QED BY <1>2, <5>1, AppendedCalls
      <4> QED BY <2>1, <4>1, <4>2
    <3> QED BY <1>6, <3>1 DEF Quiet
  <2>2. CASE loadLatestMessagesForUser
    <3>1. Existing' = {}
      <4>1. messages' = {}
        <5>1. CASE messages' # {}
          <6>1. /\ Due("list") /\ main' = Append(Tail(main), Reload)
            BY <2>2, <5>1 DEF loadLatestMessagesForUser
          <6>2. Reload = main'[Len(Tail(main)) + 1] /\ Len(Tail(main)) + 1 \in DOMAIN main'
            BY <6>1, DueTypes, CallTypes, AppendedCalls
          <6> QED BY <1>6, <6>2, CallFields DEF Quiet
        <5> QED BY <5>1
      <4>2. Announced(main', messages', Existing') /\ \A i \in DOMAIN main' : main'[i].doc # "list"
        BY <1>6 DEF Listed, Quiet
      <4> QED BY <4>1, <4>2 DEF Announced
    <3>2. \A r \in Rows : latest[r] = Gone
      BY <1>3, <3>1 DEF Existing
    <3>3. \A i \in DOMAIN asked[c] : latest[asked[c][i]] = Gone
      BY <3>2 DEF TypeOK
    <3>4. y # Loading => y[1] \in Rows
      BY <1>1, HeardRows DEF FinallyShows
    <3> QED BY <1>1, <1>6, <3>2, <3>3, <3>4 DEF Settled, FinallyShows
  <2> QED BY <2>1, <2>2
<1> QED BY <1>1, <1>3, <1>4, <1>5, <1>6 DEF FinallyShows

\* A call that changes no row: a muted one, or one for the cells.
LEMMA FinalsCalled ==
  ASSUME TypeOK, Finals, MutedCalled \/ PreviewCalled, NEW c \in Cells
  PROVE  \E y \in Shown : FinallyShows(c, y)'
<1>1. PICK y \in Shown : FinallyShows(c, y)
  BY DEF Finals
<1>2. /\ Due("muted") \/ Due("latest")
      /\ main' = Tail(main) /\ UNCHANGED <<latest, list, row, listening, asked>>
  BY DEF MutedCalled, PreviewCalled
<1>3. main \in Seq(Calls) /\ main # <<>> /\ Head(main) = main[1]
  BY <1>2, DueTypes DEF TypeOK, Due
<1>4. Heard(c, y)' /\ (Waits(c)' <=> Waits(c)) /\ (Settled(c, y)' <=> Settled(c, y))
  BY <1>1, <1>2 DEF FinallyShows, Heard, Waits, Settled
<1>5. Ends(main, c, preview[c], y)'
  <2>1. preview'[c] = IF To(Head(main), c) THEN <<Head(main).row, Head(main).value>>
                                           ELSE preview[c]
    <3>1. CASE MutedCalled
      BY <3>1, DueTypes DEF MutedCalled, To
    <3>2. CASE PreviewCalled
      BY <3>2, DueTypes DEF PreviewCalled, To
    <3> QED BY <3>1, <3>2
  <2> QED BY <1>1, <1>2, <1>3, <2>1, EndsTail DEF FinallyShows
<1>6. Quiet' => Quiet
  <2>1. Head(main).doc \in {"muted", "latest"}
    BY <1>2, DueTypes
  <2>2. ASSUME Quiet', NEW i \in DOMAIN main
        PROVE  main[i].doc \notin {"list", "reload"}
    <3>1. CASE i = 1
      BY <1>3, <2>1, <3>1
    <3>2. CASE i # 1
      <4>1. i - 1 \in DOMAIN main' /\ main'[i - 1] = main[i]
        BY <1>2, <3>2, DueTypes
      <4> QED BY <2>2, <4>1 DEF Quiet
    <3> QED BY <3>1, <3>2
  <2> QED BY <1>2, <2>2 DEF Quiet
<1> QED BY <1>1, <1>2, <1>4, <1>5, <1>6 DEF FinallyShows

\* A cell that is given a row is emptied, and waits for it.
LEMMA FinalsReload ==
  ASSUME TypeOK, Finals, reloadData, NEW c \in Cells
  PROVE  \E y \in Shown : FinallyShows(c, y)'
<1>1. PICK y \in Shown : FinallyShows(c, y)
  BY DEF Finals
<1>2. Due("reload") /\ main' = Tail(main) /\ UNCHANGED <<latest, listening>>
  BY DEF reloadData
<1>3. main \in Seq(Calls) /\ main # <<>> /\ ~ To(Head(main), c)
  BY <1>2, DueTypes DEF TypeOK, Due, To
<1>4. Ends(Tail(main), c, preview[c], y)
  BY <1>1, <1>3, EndsTail DEF FinallyShows
<1>5. Heard(c, y)' /\ Heard(c, Loading)'
  BY <1>1, <1>2 DEF FinallyShows, Heard, Loading, Gone
<1>6. CASE row'[c] = None
  <2>1. preview'[c] = preview[c]
    BY <1>6, ReloadDeals
  <2> QED BY <1>1, <1>2, <1>4, <1>5, <1>6, <2>1 DEF FinallyShows
<1>7. CASE row'[c] # None
  <2>1. /\ row'[c] \in Rows /\ preview'[c] = Loading
        /\ asked'[c] = Append(asked[c], row'[c])
    BY <1>7, ReloadDeals
  <2>2. asked[c] \in Seq(Rows)
    BY DEF TypeOK
  <2>3. asked'[c] # <<>> /\ asked'[c][Len(asked'[c])] = row'[c]
    <3>1. \A q \in Seq(Rows) : \A r \in Rows :
            Append(q, r) # <<>> /\ Append(q, r)[Len(Append(q, r))] = r
      OBVIOUS
    <3> QED BY <2>1, <2>2, <3>1
  <2>4. Waits(c)' /\ Settled(c, y)' /\ Settled(c, Loading)'
    BY <2>3 DEF Waits, Settled
  <2>5. Loading \in Shown
    BY MessageCellAssumption DEF Loading, Shown, Gone
  <2>6. Ends(main', c, preview'[c], y) \/ Ends(main', c, preview'[c], Loading)
    BY <1>2, <1>4, <2>1, EndsReset
  <2>7. CASE Ends(main', c, preview'[c], y)
    BY <1>1, <1>5, <2>4, <2>7 DEF FinallyShows
  <2>8. CASE Ends(main', c, preview'[c], Loading)
    <3>1. FinallyShows(c, Loading)'
      BY <1>5, <2>4, <2>8 DEF FinallyShows, Loading, Gone
    <3> QED BY <2>5, <3>1 DEF Loading, Gone
  <2> QED BY <2>6, <2>7, <2>8
<1> QED BY <1>6, <1>7

LEMMA FinalsStep ==
  ASSUME TypeOK, Known, Listed, Finals, [Next]_vars
  PROVE  Finals'
<1>1. Listed'
  BY ListedStep
<1>2. ASSUME NEW c \in Cells PROVE \E y \in Shown : FinallyShows(c, y)'
  <2>1. CASE UNCHANGED vars
    <3>1. PICK y \in Shown : FinallyShows(c, y)
      BY DEF Finals
    <3>2. FinallyShows(c, y)'
      BY <2>1, <3>1 DEF vars, FinallyShows, Heard, Waits, Quiet, Settled
    <3> QED BY <3>2
  <2> QED BY <1>1, <2>1, FinalsChange, FinalsFirstCall, FinalsList, FinalsCalled, FinalsReload
        DEF Next
<1> QED BY <1>2 DEF Finals, Shown

LEMMA RestIsHonest ==
  ASSUME TypeOK, Known, Finals
  PROVE  PreviewHonest
<1>1. ASSUME NEW c \in Cells, AtRest, row[c] # None
      PROVE  \/ preview[c] = <<row[c], latest[row[c]]>>
             \/ preview[c][2] = Gone /\ preview[c][1] \in deleted \cap given[c]
  <2>1. PICK y \in Shown : FinallyShows(c, y)
    BY DEF Finals
  <2>2. list = "on" /\ main = <<>> /\ asked[c] = <<>>
    BY <1>1 DEF AtRest
  <2>3. y = preview[c]
    BY <2>1, <2>2 DEF FinallyShows, Ends
  <2>4. Quiet /\ ~ Waits(c)
    BY <2>2 DEF Quiet, Waits
  <2>5. y # Loading /\ (latest[y[1]] # Gone => y[1] = row[c])
    BY <1>1, <2>1, <2>4 DEF FinallyShows, Settled
  <2>6. y[1] \in Rows /\ <<c, y[1]>> \in listening /\ y[2] = latest[y[1]]
    BY <2>1, <2>5, HeardRows DEF FinallyShows
  <2>7. y = <<y[1], y[2]>>
    BY DEF Shown
  <2>8. latest[y[1]] = Gone => y[1] \in deleted \cap given[c]
    BY <2>6 DEF Known, GoneDeleted, ListenersGiven
  <2> QED BY <2>3, <2>5, <2>6, <2>7, <2>8
<1> QED BY <1>1 DEF PreviewHonest

\* MessageCell.swift:29, 35: when every call has run, a row shows its own latest
\* message, or "Delivered" of one that was deleted.
THEOREM PreviewsAreHonest == Spec => []PreviewHonest
<1>1. Init => Known /\ OffAfterDeletion
  BY DEF Init, Known, GoneDeleted, ListenersGiven, AskedGiven, OffAfterDeletion, Gone
<1>2. Init => Listed /\ Finals
  <2> SUFFICES ASSUME Init PROVE Listed /\ Finals
    OBVIOUS
  <2>1. Listed
    BY DEF Init, Listed, Quiet
  <2>2. Loading \in Shown
    BY MessageCellAssumption DEF Loading, Shown, Gone
  <2>3. ASSUME NEW c \in Cells PROVE FinallyShows(c, Loading)
    BY DEF Init, FinallyShows, Ends, Heard, Quiet
  <2> QED BY <2>1, <2>2, <2>3 DEF Finals
<1>3. TypeOK /\ Known /\ OffAfterDeletion /\ Listed /\ Finals /\ [Next]_vars
        => Known' /\ OffAfterDeletion' /\ Listed' /\ Finals'
  BY NextKnown, ListedStep, FinalsStep
<1>4. TypeOK /\ Known /\ Finals => PreviewHonest
  BY RestIsHonest
<1> QED BY <1>1, <1>2, <1>3, <1>4, TypeCorrect, PTL DEF Spec
==============================================================================
