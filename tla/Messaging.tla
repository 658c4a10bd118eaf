------------------------------ MODULE Messaging ------------------------------
(***************************************************************************)
(* Chats: the log of a conversation (MessageLog.swift) and the list of     *)
(* latest messages (MessagesMainView.swift), over Firestore.               *)
(*                                                                         *)
(* A text message is four independent writes: a copy into the log of each  *)
(* side and a row of the latest list of each side.  An image is uploaded   *)
(* first and then copied into both logs only.  The list keeps an array,    *)
(* messages, that listeners replace, and a table that shows the array as   *)
(* it was at the last reload.                                              *)
(***************************************************************************)
EXTENDS Integers, Sequences, FiniteSets

CONSTANTS
  Users,
  Talks,        \* the pairs <<u, p>> such that u writes to p or blocks p (a bound)
  Readers,      \* the users whose screens are followed (a bound)
  Chatting,     \* per user, the partner of the chat that is open at first, or None
  MaxSends,     \* bound on messages
  MaxUploads,   \* bound on a user's images on their way to a partner
  MaxVisits,    \* bound on appearances, refreshes, deletions, blocks, relaunches
  MaxFailures,  \* bound on refused writes and failed uploads
  None

ASSUME MessagingAssumption ==
  /\ Talks \subseteq {w \in Users \X Users : w[1] # w[2]}
  /\ Readers \subseteq Users
  /\ Chatting \in [Users -> Users \cup {None}]
  /\ \A u \in Users : Chatting[u] # None => <<u, Chatting[u]>> \in Talks
  /\ MaxSends \in Nat
  /\ MaxUploads \in Nat
  /\ MaxVisits \in Nat
  /\ MaxFailures \in Nat
  /\ None \notin Users

VARIABLES
  docs, outbox, \* see Firestore
  chat,         \* per user, the open MessageLog
  inbox,        \* per user, MessagesMainView
  uploads,      \* per pair, images on their way to Storage
  sent,         \* history: the messages written so far
  lost,         \* history: the documents of refused writes
  visits, failures

vars == <<docs, outbox, chat, inbox, uploads, sent, lost, visits, failures>>

INSTANCE Firestore WITH Clients <- Users

------------------------------------------------------------------------------
(* Messages and documents *)

\* TimeStamp is read off the sender's clock, so that the stamps of two users
\* may be in any order; no two messages carry the same one.
Stamps == 1..MaxSends

Messages == {m \in [from : Users, to : Users, stamp : Stamps] : m.from # m.to}

chatPartner(u, m) == IF m.from = u THEN m.to ELSE m.from

InLog(o, m) == <<"Log", o, m>>       \* user-messages/o/partner/(new id)
Latest(o, m) == <<"Latest", o, m>>   \* Latest-Messages/o/Latest/partner

Documents == {"Log", "Latest"} \X Users \X Messages

\* Every content that o's row for partner p may have.
Row(o, p) == {Latest(o, m) : m \in {x \in Messages : p = chatPartner(o, x)
                                                     /\ o \in {x.from, x.to}}}

Batch(puts, dels, handler) == [puts |-> puts, dels |-> dels, handler |-> handler]
Batches == [puts : SUBSET Documents, dels : SUBSET Documents,
            handler : {"nothing", "reload"}]

addDocument(o, m) == Batch({InLog(o, m)}, {}, "nothing")
setData(o, m) == Batch({Latest(o, m)}, Row(o, chatPartner(o, m)), "nothing")

\* The latest list of u as u reads it, newest first.
Query(u) ==
  LET found == {m \in Messages : Sees(u, Latest(u, m))} IN
  CHOOSE s \in [1..Cardinality(found) -> found] :
    \A i, j \in DOMAIN s : i < j => s[i].stamp > s[j].stamp

------------------------------------------------------------------------------
(* Screens *)

\* What a listener has delivered last: nothing yet, or one snapshot.
Never == <<>>
Delivered(u) == <<Query(u)>>

Chats == [id : Users \cup {None}, listening : BOOLEAN, shown : SUBSET Messages]
NoChat == [id |-> None, listening |-> FALSE, shown |-> {}]
OpenChat(p) == [id |-> p, listening |-> TRUE, shown |-> {}]

Inboxes == [
  onTab : BOOLEAN,
  messages : Seq(Messages),                 \* the array
  rows : Seq(Messages),                     \* the table
  reload : BOOLEAN,                         \* a reloadData is queued
  listeners : Seq(Seq(Seq(Messages)))]      \* last delivery of each
NoInbox == [onTab |-> FALSE, messages |-> <<>>, rows |-> <<>>,
            reload |-> FALSE, listeners |-> <<>>]

TypeOK ==
  /\ docs \in SUBSET Documents
  /\ outbox \in [Users -> Seq(Batches)]
  /\ chat \in [Users -> Chats]
  /\ inbox \in [Users -> Inboxes]
  /\ uploads \in [Users \X Users -> Nat]
  /\ sent \in SUBSET Messages
  /\ lost \in SUBSET Documents
  /\ visits \in 0..MaxVisits
  /\ failures \in 0..MaxFailures

\* A user who is chatting has opened the list of messages and left it for a
\* friend's log before the list's listener delivered.
Init ==
  /\ docs = {}
  /\ outbox = [u \in Users |-> <<>>]
  /\ chat = [u \in Users |-> IF Chatting[u] = None THEN NoChat
                                                ELSE OpenChat(Chatting[u])]
  /\ inbox = [u \in Users |-> NoInbox]
  /\ uploads = [w \in Users \X Users |-> 0]
  /\ sent = {}
  /\ lost = {}
  /\ visits = 0
  /\ failures = 0

Visit == visits < MaxVisits /\ visits' = visits + 1
Fail == failures < MaxFailures /\ failures' = failures + 1

------------------------------------------------------------------------------
(* Sending *)

\* A message from u to p, later than all u has sent.
NewMessage(u, p, m) ==
  /\ m.from = u
  /\ m.to = p
  /\ \A x \in sent : x.stamp # m.stamp /\ (x.from = u => x.stamp < m.stamp)
  /\ sent' = sent \cup {m}

\* Mutant: updates the rows before the logs.
sendMessage_RowsFirst(u) ==
  LET p == chat[u].id IN
  /\ p # None
  /\ \E m \in Messages :
       /\ NewMessage(u, p, m)
       /\ EnqueueAll(u, <<setData(u, m), setData(p, m),
                          addDocument(u, m), addDocument(p, m)>>)
  /\ UNCHANGED <<docs, chat, inbox, uploads, lost, visits, failures>>

sendMessage(u) ==
  LET p == chat[u].id IN
  /\ p # None
  /\ \E m \in Messages :
       /\ NewMessage(u, p, m)
       /\ EnqueueAll(u, <<addDocument(u, m), addDocument(p, m),
                          setData(u, m), setData(p, m)>>)
  /\ UNCHANGED <<docs, chat, inbox, uploads, lost, visits, failures>>

Uploading == {w \in Users \X Users : uploads[w] > 0}

\* No image is begun that the bound on messages would never let be sent.
uploadImageToFirebase(u) ==
  LET p == chat[u].id IN
  /\ p # None
  /\ Cardinality(sent) + Cardinality(Uploading) < MaxSends
  /\ uploads[<<u, p>>] < MaxUploads
  /\ uploads' = [uploads EXCEPT ![<<u, p>>] = @ + 1]
  /\ UNCHANGED <<docs, outbox, chat, inbox, sent, lost, visits, failures>>

\* Mutant: writes the recipient's copy into the sender's log again.
sendMessageWithImageUrl_Twice(u, p) ==
  /\ uploads[<<u, p>>] > 0
  /\ uploads' = [uploads EXCEPT ![<<u, p>>] = @ - 1]
  /\ \E m \in Messages :
       /\ NewMessage(u, p, m)
       /\ EnqueueAll(u, <<addDocument(u, m), addDocument(u, m)>>)
  /\ UNCHANGED <<docs, chat, inbox, lost, visits, failures>>

\* Mutant: called once more for an upload that is already done.
sendMessageWithImageUrl_Again(u, p) ==
  /\ uploads' = [uploads EXCEPT ![<<u, p>>] = @ - 1]
  /\ \E m \in Messages :
       /\ NewMessage(u, p, m)
       /\ EnqueueAll(u, <<addDocument(u, m), addDocument(p, m)>>)
  /\ UNCHANGED <<docs, chat, inbox, lost, visits, failures>>

\* The upload is done: the log that started it may be long gone.
sendMessageWithImageUrl(u, p) ==
  /\ uploads[<<u, p>>] > 0
  /\ uploads' = [uploads EXCEPT ![<<u, p>>] = @ - 1]
  /\ \E m \in Messages :
       /\ NewMessage(u, p, m)
       /\ EnqueueAll(u, <<addDocument(u, m), addDocument(p, m)>>)
  /\ UNCHANGED <<docs, chat, inbox, lost, visits, failures>>

uploadFailed(u, p) ==
  /\ uploads[<<u, p>>] > 0
  /\ Fail
  /\ uploads' = [uploads EXCEPT ![<<u, p>>] = @ - 1]
  /\ UNCHANGED <<docs, outbox, chat, inbox, sent, lost, visits>>

\* The part of SearchProfile.blockuser that concerns messages.
blockuser(u, p) ==
  /\ Visit
  /\ Enqueue(u, Batch({}, Row(u, p) \cup Row(p, u), "nothing"))
  /\ UNCHANGED <<docs, chat, inbox, uploads, sent, lost, failures>>

------------------------------------------------------------------------------
(* MessagesMainView *)

\* loadLatestMessagesForUser adds a listener and overwrites the only handle.
Listen(x) == [x EXCEPT !.listeners = Append(@, Never)]

\* viewWillDisappear removes the listener the handle refers to.
Leave(x) == [x EXCEPT !.onTab = FALSE,
                      !.listeners = SubSeq(@, 1, Len(@) - 1)]

viewWillAppear(u) ==
  /\ Visit
  /\ ~ inbox[u].onTab
  /\ chat[u].id = None
  /\ inbox' = [inbox EXCEPT ![u] = [Listen(@) EXCEPT !.onTab = TRUE]]
  /\ UNCHANGED <<docs, outbox, chat, uploads, sent, lost, failures>>

viewWillDisappear(u) ==
  /\ inbox[u].onTab
  /\ inbox' = [inbox EXCEPT ![u] = Leave(@)]
  /\ UNCHANGED <<docs, outbox, chat, uploads, sent, lost, visits, failures>>

refreshUserData(u) ==
  /\ Visit
  /\ inbox[u].onTab
  /\ inbox' = [inbox EXCEPT ![u] = [Listen(@) EXCEPT !.messages = <<>>,
                                                    !.reload = TRUE]]
  /\ UNCHANGED <<docs, outbox, chat, uploads, sent, lost, failures>>

Due(u, i) == inbox[u].listeners[i] # Delivered(u)

\* Mutant: appends to the messages of the snapshot before.
loadLatestMessagesForUser_NoRemoveAll(u) ==
  \E i \in DOMAIN inbox[u].listeners :
    /\ Due(u, i)
    /\ inbox' = [inbox EXCEPT ![u].listeners[i] = Delivered(u),
                              ![u].messages = @ \o Query(u),
                              ![u].reload = @ \/ Query(u) # <<>>]
    /\ UNCHANGED <<docs, outbox, chat, uploads, sent, lost, visits, failures>>

\* Mutant: never reloads the table.
loadLatestMessagesForUser_NoReload(u) ==
  \E i \in DOMAIN inbox[u].listeners :
    /\ Due(u, i)
    /\ inbox' = [inbox EXCEPT ![u].listeners[i] = Delivered(u),
                              ![u].messages = Query(u)]
    /\ UNCHANGED <<docs, outbox, chat, uploads, sent, lost, visits, failures>>

\* A listener delivers; the table is reloaded once per document found.
loadLatestMessagesForUser(u) ==
  \E i \in DOMAIN inbox[u].listeners :
    /\ Due(u, i)
    /\ inbox' = [inbox EXCEPT ![u].listeners[i] = Delivered(u),
                              ![u].messages = Query(u),
                              ![u].reload = @ \/ Query(u) # <<>>]
    /\ UNCHANGED <<docs, outbox, chat, uploads, sent, lost, visits, failures>>

reloadData(u) ==
  /\ inbox[u].reload
  /\ inbox' = [inbox EXCEPT ![u].reload = FALSE, ![u].rows = inbox[u].messages]
  /\ UNCHANGED <<docs, outbox, chat, uploads, sent, lost, visits, failures>>

\* A row can be used when the array still has that many entries.
Backed(u, i) == inbox[u].onTab /\ i \in DOMAIN inbox[u].messages

commitDelete(u) ==
  \E i \in DOMAIN inbox[u].rows :
    /\ Visit
    /\ Backed(u, i)
    /\ Enqueue(u, Batch({}, Row(u, chatPartner(u, inbox[u].messages[i])), "reload"))
    /\ UNCHANGED <<docs, chat, inbox, uploads, sent, lost, failures>>

------------------------------------------------------------------------------
(* MessageLog *)

\* From a row of the list, or from the list of friends.
showchatcontrollerForUser(u, p) ==
  /\ Visit
  /\ inbox[u].onTab
  /\ \/ <<u, p>> \in Talks
     \/ \E i \in DOMAIN inbox[u].rows :
          Backed(u, i) /\ p = chatPartner(u, inbox[u].messages[i])
  /\ chat' = [chat EXCEPT ![u] = OpenChat(p)]
  /\ inbox' = [inbox EXCEPT ![u] = Leave(@)]
  /\ UNCHANGED <<docs, outbox, uploads, sent, lost, failures>>

\* Mutant: looks for the partner among the senders only.
Conversation_Incoming(u) ==
  {m \in Messages : Sees(u, InLog(u, m)) /\ m.from = chat[u].id}

Conversation(u) ==
  {m \in Messages : Sees(u, InLog(u, m)) /\ chatPartner(u, m) = chat[u].id}

observeMessages(u) ==
  /\ chat[u].listening
  /\ chat[u].shown # Conversation(u)
  /\ chat' = [chat EXCEPT ![u].shown = Conversation(u)]
  /\ UNCHANGED <<docs, outbox, inbox, uploads, sent, lost, visits, failures>>

\* The partner's profile is opened and left again: the listener is removed,
\* and nothing adds one when the log comes back.
titleViewButtonDidTap(u) ==
  /\ chat[u].id # None
  /\ chat' = [chat EXCEPT ![u].listening = FALSE]
  /\ UNCHANGED <<docs, outbox, inbox, uploads, sent, lost, visits, failures>>

closeChat(u) ==
  /\ chat[u].id # None
  /\ chat' = [chat EXCEPT ![u] = NoChat]
  /\ inbox' = [inbox EXCEPT ![u] = [Listen(@) EXCEPT !.onTab = TRUE]]
  /\ UNCHANGED <<docs, outbox, uploads, sent, lost, visits, failures>>

------------------------------------------------------------------------------
(* Firestore answers *)

\* Once a deletion is acknowledged the list is loaded again.
Committed(u) ==
  /\ Commit(u)
  /\ inbox' = IF Head(outbox[u]).handler = "reload"
              THEN [inbox EXCEPT ![u] = [Listen(@) EXCEPT !.messages = <<>>]]
              ELSE inbox
  /\ UNCHANGED <<chat, uploads, sent, lost, visits, failures>>

Refused(u) ==
  /\ Refuse(u)
  /\ Fail
  /\ lost' = lost \cup Head(outbox[u]).puts
  /\ UNCHANGED <<chat, inbox, uploads, sent, visits>>

\* The app is killed, or stops on an index out of range, and is started again.
Relaunch(u) ==
  /\ Visit
  /\ inbox[u].onTab \/ chat[u].id # None
  /\ chat' = [chat EXCEPT ![u] = NoChat]
  /\ inbox' = [inbox EXCEPT ![u] = NoInbox]
  /\ uploads' = [w \in Users \X Users |-> IF w[1] = u THEN 0 ELSE uploads[w]]
  /\ outbox' = [outbox EXCEPT ![u] =
                  [i \in DOMAIN @ |-> [@[i] EXCEPT !.handler = "nothing"]]]
  /\ UNCHANGED <<docs, sent, lost, failures>>

Sending ==
  \E u \in Users :
    \/ sendMessage(u)
    \/ uploadImageToFirebase(u)
    \/ \E p \in Users :
         /\ <<u, p>> \in Talks
         /\ \/ sendMessageWithImageUrl(u, p)
            \/ uploadFailed(u, p)
            \/ blockuser(u, p)

Screens ==
  \E u \in Readers :
    \/ viewWillAppear(u)
    \/ viewWillDisappear(u)
    \/ refreshUserData(u)
    \/ loadLatestMessagesForUser(u)
    \/ reloadData(u)
    \/ commitDelete(u)
    \/ \E p \in Users : showchatcontrollerForUser(u, p)
    \/ observeMessages(u)
    \/ titleViewButtonDidTap(u)
    \/ closeChat(u)
    \/ Relaunch(u)

\* The bound on visits is reached and every screen that is followed was left.
Done ==
  /\ visits = MaxVisits
  /\ \A u \in Readers : chat[u].id = None /\ ~ inbox[u].onTab
  /\ \A u \in Users : outbox[u] = <<>>
  /\ UNCHANGED vars

Next ==
  \/ Done
  \/ Sending
  \/ Screens
  \/ \E u \in Users : Committed(u) \/ Refused(u)

Spec == Init /\ [][Next]_vars

\* Firestore answers, and the main queue runs what is on it.
MainQueue(u) ==
  \/ loadLatestMessagesForUser(u)
  \/ reloadData(u)
  \/ observeMessages(u)

Fairness ==
  /\ \A u \in Users : WF_vars(Committed(u))
  /\ \A u \in Readers : WF_vars(MainQueue(u))

FairSpec == Spec /\ Fairness

------------------------------------------------------------------------------
(* Properties *)

\* Four independent writes behave as one message to whoever reads them: a row
\* of the latest list never speaks of a message that is not in its owner's
\* log, unless the write into that log was refused.
LatestInLog ==
  \A o \in Users, m \in Messages :
    Latest(o, m) \in docs => InLog(o, m) \in docs \cup lost

\* Once all writes are acknowledged, a message is in both logs or was refused.
LogsAgree ==
  \A m \in sent :
    outbox[m.from] = <<>> => {InLog(m.from, m), InLog(m.to, m)} \subseteq docs \cup lost

AtRest(u) ==
  /\ inbox[u].onTab
  /\ ~ inbox[u].reload
  /\ \A i \in DOMAIN inbox[u].listeners : ~ Due(u, i)

\* When every listener, the leaked ones included, has delivered and the table
\* is reloaded, array and table hold the latest messages, each once, newest
\* first, unless there is none.
InboxHonest ==
  \A u \in Users : AtRest(u) =>
    /\ inbox[u].messages = Query(u)
    /\ Query(u) # <<>> => inbox[u].rows = Query(u)

\* "You don't have any messages" (MessagesMainView.swift:133) is what an empty
\* list shows.
EmptyListShown ==
  \A u \in Users : AtRest(u) /\ inbox[u].messages = <<>> => inbox[u].rows = <<>>

\* A row that stays on the server reaches the table of a list that stays open.
RowArrives ==
  \A u \in Users, m \in Messages :
    (inbox[u].onTab /\ Latest(u, m) \in docs) ~>
      \/ ~ inbox[u].onTab
      \/ ~ Sees(u, Latest(u, m))
      \/ \E i \in DOMAIN inbox[u].rows : inbox[u].rows[i] = m

\* A message the user's log holds reaches the chat that is open with its
\* partner, as long as the profile behind the title is not visited.
MessageShown ==
  \A u \in Users, m \in Messages :
    (chat[u].listening /\ chat[u].id = chatPartner(u, m) /\ InLog(u, m) \in docs) ~>
      ~ chat[u].listening \/ m \in chat[u].shown
==============================================================================
