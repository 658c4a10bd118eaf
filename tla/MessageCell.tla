----------------------------- MODULE MessageCell -----------------------------
(***************************************************************************)
(* The cells of the list of latest messages: MessageCell.swift, and of     *)
(* MessagesMainView.swift what gives them their rows.                      *)
(*                                                                         *)
(* Every reload of the table hands its rows to recycled cells.  A cell     *)
(* listens to the latest message of the row it is given, and never stops:  *)
(* the listeners of the rows it had before go on writing into it.  (So do  *)
(* those to the other user, which are left out.)  Firestore calls the      *)
(* listeners of one change on the main queue before those of a later one;  *)
(* among themselves they write into different cells, so that one step      *)
(* stands for them all.  The first call of a new listener comes at once if *)
(* its document is in the cache, and otherwise when the server has         *)
(* answered.                                                               *)
(***************************************************************************)
EXTENDS Integers, FiniteSets, SequencesExt

CONSTANTS
  Rows,        \* the chat partners
  Cells,       \* the cells of the table and of its reuse pool
  MaxWrites,   \* bound on the messages and deletions
  MaxVisits,   \* bound on the appearances of the tab
  None

ASSUME MessageCellAssumption ==
  /\ IsFiniteSet(Rows) /\ IsFiniteSet(Cells)
  /\ Cardinality(Rows) <= Cardinality(Cells)
  /\ {MaxWrites, MaxVisits} \subseteq Nat
  /\ None \notin Rows

VARIABLES
  latest,      \* per row, the latest message; Gone if there is none
  list,        \* the list's listener: "off", "asked" or "on"
  messages,    \* the rows the list holds
  row,         \* per cell, the row it shows; None in the reuse pool
  preview,     \* per cell, the message it shows: a row and its latest
  enabled,     \* per cell, isUserInteractionEnabled
  listening,   \* the listeners that have been called, cells with rows
  asked,       \* per cell, the rows whose latest message it has yet to be
               \* told, in the order it was given them
  main,        \* the main queue
  given,       \* history: per cell, the rows it was given
  deleted,     \* history: the rows whose message was deleted
  writes, visits

vars == <<latest, list, messages, row, preview, enabled, listening, asked, main, given,
          deleted, writes, visits>>

------------------------------------------------------------------------------
Gone == 0

Loading == <<None, Gone>>

Calls ==
  [doc : {"latest"}, row : Rows, value : 0..(MaxWrites + 1), cells : SUBSET Cells]
    \cup [doc : {"list"}, rows : SUBSET Rows]
    \cup [doc : {"reload", "muted"}]

Shown == (Rows \cup {None}) \X (0..(MaxWrites + 1))

TypeOK ==
  /\ latest \in [Rows -> 0..(MaxWrites + 1)]
  /\ list \in {"off", "asked", "on"}
  /\ messages \subseteq Rows
  /\ row \in [Cells -> Rows \cup {None}]
  /\ \A r \in Rows : Cardinality({c \in Cells : row[c] = r}) <= 1
  /\ preview \in [Cells -> Shown]
  /\ enabled \in [Cells -> BOOLEAN]
  /\ listening \subseteq Cells \X Rows
  /\ asked \in [Cells -> Seq(Rows)]
  /\ main \in Seq(Calls)
  /\ given \in [Cells -> SUBSET Rows]
  /\ deleted \subseteq Rows
  /\ writes \in 0..MaxWrites
  /\ visits \in 0..MaxVisits

Init ==
  /\ latest = [r \in Rows |-> 1]
  /\ list = "off"
  /\ messages = {}
  /\ row = [c \in Cells |-> None]
  /\ preview = [c \in Cells |-> Loading]
  /\ enabled = [c \in Cells |-> TRUE]
  /\ listening = {}
  /\ asked = [c \in Cells |-> <<>>]
  /\ main = <<>>
  /\ given = [c \in Cells |-> {}]
  /\ deleted = {}
  /\ writes = 0
  /\ visits = 0

------------------------------------------------------------------------------
(* The main queue and the documents *)

Existing == {r \in Rows : latest[r] # Gone}

Call(r, value, cells) == [doc |-> "latest", row |-> r, value |-> value, cells |-> cells]
ListCall(rows) == [doc |-> "list", rows |-> rows]
Reload == [doc |-> "reload"]
Muted == [doc |-> "muted"]

\* A listener that is removed is muted: its calls stay, and do nothing.
Mute(q) == [i \in DOMAIN q |-> IF q[i].doc = "list" THEN Muted ELSE q[i]]

Hearing(r) == {c \in Cells : <<c, r>> \in listening}

\* A message arrives, or the row's document is deleted.
LatestChanges(r, value) ==
  /\ writes < MaxWrites
  /\ writes' = writes + 1
  /\ latest[r] # value
  /\ latest' = [latest EXCEPT ![r] = value]
  /\ main' = main \o <<Call(r, value, Hearing(r))>> \o
              (IF list = "on" THEN <<ListCall(Existing')>> ELSE <<>>)
  /\ deleted' = IF value = Gone THEN deleted \cup {r} ELSE deleted
  /\ UNCHANGED <<list, messages, row, preview, enabled, listening, asked,
                 given, visits>>

\* The first call of a listener to a message.  One that exists is in the cache,
\* for the list has read it: its turn comes in order.
LatestCalled(c, i) ==
  LET r == asked[c][i] IN
  /\ latest[r] # Gone => \A j \in 1..(i - 1) : latest[asked[c][j]] = Gone
  /\ asked' = [asked EXCEPT ![c] = RemoveAt(@, i)]
  /\ listening' = listening \cup {<<c, r>>}
  /\ main' = Append(main, Call(r, latest[r], {c}))
  /\ UNCHANGED <<latest, list, messages, row, preview, enabled,
                 given, deleted, writes, visits>>

------------------------------------------------------------------------------
(* MessagesMainView *)

viewWillAppear ==
  /\ list = "off"
  /\ visits < MaxVisits
  /\ visits' = visits + 1
  /\ list' = "asked"
  /\ UNCHANGED <<latest, messages, row, preview, enabled, listening,
                 asked, main, given, deleted, writes>>

viewWillDisappear ==
  /\ list # "off"
  /\ list' = "off"
  /\ main' = Mute(main)
  /\ UNCHANGED <<latest, messages, row, preview, enabled, listening,
                 asked, given, deleted, writes, visits>>

ListCalled ==
  /\ list = "asked"
  /\ list' = "on"
  /\ main' = Append(main, ListCall(Existing))
  /\ UNCHANGED <<latest, messages, row, preview, enabled, listening,
                 asked, given, deleted, writes, visits>>

\* The next call on the main queue.
Due(doc) ==
  /\ main # <<>>
  /\ Head(main).doc = doc

MutedCalled ==
  /\ Due("muted")
  /\ main' = Tail(main)
  /\ UNCHANGED <<latest, list, messages, row, preview, enabled, listening, asked,
                 given, deleted, writes, visits>>

\* The list replaces its rows; each of them asks for a reload, none does if
\* there is none.
loadLatestMessagesForUser ==
  /\ Due("list")
  /\ messages' = Head(main).rows
  /\ main' = IF messages' = {} THEN Tail(main) ELSE Append(Tail(main), Reload)
  /\ UNCHANGED <<latest, list, row, preview, enabled, listening, asked,
                 given, deleted, writes, visits>>

\* Mutant: hands a row to two cells.
Deals_Shared == {d \in [Cells -> messages \cup {None}] :
                   \A r \in messages : \E c \in Cells : d[c] = r}

\* The ways to hand the rows to different cells.
Deals == {d \in [Cells -> messages \cup {None}] :
            /\ \A r \in messages : \E c \in Cells : d[c] = r
            /\ \A b, c \in Cells : d[b] = d[c] => b = c \/ d[b] = None}

\* Mutant: a cell that is given the row it had adds no listener.
reloadData_SameRow ==
  /\ Due("reload")
  /\ \E deal \in Deals :
       LET dealt == {c \in Cells : deal[c] # None} IN
       /\ row' = deal
       /\ preview' = [c \in Cells |-> IF c \in dealt THEN Loading ELSE preview[c]]
       /\ given' = [c \in Cells |-> IF c \in dealt THEN given[c] \cup {deal[c]} ELSE given[c]]
       /\ asked' = [c \in Cells |-> IF c \in dealt /\ deal[c] # row[c]
                                    THEN Append(asked[c], deal[c]) ELSE asked[c]]
  /\ main' = Tail(main)
  /\ UNCHANGED <<latest, list, messages, enabled, listening, deleted, writes, visits>>

\* cellForRowAt for every row: prepareForReuse, then message.didSet.  Nothing
\* switches a cell on again, and no listener is removed.
reloadData ==
  /\ Due("reload")
  /\ \E deal \in Deals :
       LET dealt == {c \in Cells : deal[c] # None} IN
       /\ row' = deal
       /\ preview' = [c \in Cells |-> IF c \in dealt THEN Loading ELSE preview[c]]
       /\ given' = [c \in Cells |-> IF c \in dealt THEN given[c] \cup {deal[c]} ELSE given[c]]
       /\ asked' = [c \in Cells |-> IF c \in dealt THEN Append(asked[c], deal[c]) ELSE asked[c]]
  /\ main' = Tail(main)
  /\ UNCHANGED <<latest, list, messages, enabled, listening, deleted, writes,
                 visits>>

------------------------------------------------------------------------------
(* MessageCell *)

\* Mutant: switches the whole table off.
PreviewCalled_AllOff ==
  /\ Due("latest")
  /\ LET call == Head(main) IN
     /\ preview' = [c \in Cells |-> IF c \in call.cells THEN <<call.row, call.value>>
                                    ELSE preview[c]]
     /\ enabled' = [c \in Cells |-> enabled[c] /\ call.value # Gone]
  /\ main' = Tail(main)
  /\ UNCHANGED <<latest, list, messages, row, listening, asked, given, deleted, writes,
                 visits>>

\* The row of the listener is not compared with the row of the cell.
PreviewCalled ==
  /\ Due("latest")
  /\ LET call == Head(main) IN
     /\ preview' = [c \in Cells |-> IF c \in call.cells THEN <<call.row, call.value>>
                                    ELSE preview[c]]
     /\ enabled' = [c \in Cells |-> enabled[c] /\ ~ (c \in call.cells /\ call.value = Gone)]
  /\ main' = Tail(main)
  /\ UNCHANGED <<latest, list, messages, row, listening, asked, given, deleted, writes, visits>>

------------------------------------------------------------------------------
Next ==
  \/ \E r \in Rows : \E value \in {Gone, writes + 2} : LatestChanges(r, value)
  \/ \E c \in Cells : \E i \in DOMAIN asked[c] : LatestCalled(c, i)
  \/ viewWillAppear
  \/ viewWillDisappear
  \/ ListCalled
  \/ MutedCalled
  \/ loadLatestMessagesForUser
  \/ reloadData
  \/ PreviewCalled

Spec == Init /\ [][Next]_vars

------------------------------------------------------------------------------
(* Properties *)

\* The tab is on the screen and every call has run.
AtRest ==
  list = "on" /\ main = <<>> /\ \A c \in Cells : asked[c] = <<>>

\* At rest a row shows its own latest message, although other rows' listeners
\* write into its cell (MessageCell.swift:29): every change reloads the table,
\* and the calls for the cells' new rows come last.  Only "Delivered" can be
\* another row's, one that was deleted (MessageCell.swift:35).
PreviewHonest ==
  \A c \in Cells :
    AtRest /\ row[c] # None =>
      \/ preview[c] = <<row[c], latest[row[c]]>>
      \/ preview[c][2] = Gone /\ preview[c][1] \in deleted \cap given[c]

\* A cell that cannot be tapped was given a row that was deleted since.
OffAfterDeletion == \A c \in Cells : ~ enabled[c] => given[c] \cap deleted # {}
==============================================================================
