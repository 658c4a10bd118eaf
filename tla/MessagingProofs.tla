--------------------------- MODULE MessagingProofs ---------------------------
(***************************************************************************)
(* Proofs about Messaging, for any users, messages and bounds.             *)
(*                                                                         *)
(* A row of the latest list is backed by its owner's log.  LatestInLog     *)
(* speaks of the server only and is not inductive: what is still queued    *)
(* must be backed as well, by a copy that is queued before it.             *)
(*                                                                         *)
(* A message is in both logs: until its sender's writes are answered each  *)
(* copy may be in the sender's queue.                                      *)
(*                                                                         *)
(* The inbox shows what the query finds: a list on the screen always has a *)
(* listener that has yet to deliver, or that delivered what the array      *)
(* holds.  That the query finds a list at all, sorted by stamps, needs     *)
(* that every row speaks of a message that was sent.                       *)
(***************************************************************************)
EXTENDS Messaging, SequenceTheorems, FiniteSetTheorems, TLAPS

\* Every latest row in q is preceded in q by the log copy it speaks of, unless
\* that copy is among the documents kept.
BackedQueue(q, kept) ==
  \A i \in DOMAIN q : \A o \in Users : \A m \in Messages :
    Latest(o, m) \in q[i].puts =>
      \/ InLog(o, m) \in kept
      \/ \E j \in DOMAIN q : j < i /\ InLog(o, m) \in q[j].puts

\* No batch in q deletes a copy from a log.
KeepsLogs(q) ==
  \A i \in DOMAIN q : \A o \in Users : \A m \in Messages :
    InLog(o, m) \notin q[i].dels

Queues ==
  /\ outbox \in [Users -> Seq(Batches)]
  /\ chat \in [Users -> Chats]
  /\ \A u \in Users : BackedQueue(outbox[u], docs \cup lost) /\ KeepsLogs(outbox[u])

Inv == Queues /\ LatestInLog

------------------------------------------------------------------------------
(* Lemmas *)

LEMMA Kinds ==
  ASSUME NEW o \in Users, NEW m \in Messages, NEW p \in Users, NEW x \in Messages
  PROVE  /\ InLog(o, m) # Latest(p, x)
         /\ Latest(o, m) = Latest(p, x) => o = p /\ m = x
         /\ InLog(o, m) \in Documents
         /\ Latest(o, m) \in Documents
  BY DEF InLog, Latest, Documents

LEMMA RowKind ==
  ASSUME NEW o \in Users, NEW p
  PROVE  /\ Row(o, p) \in SUBSET Documents
         /\ \A q \in Users : \A x \in Messages : InLog(q, x) \notin Row(o, p)
  BY Kinds DEF Row

\* The batches the code writes.
LEMMA BatchShapes ==
  ASSUME NEW o \in Users, NEW m \in Messages
  PROVE  /\ addDocument(o, m) \in Batches
         /\ addDocument(o, m).puts = {InLog(o, m)}
         /\ addDocument(o, m).dels = {}
         /\ setData(o, m) \in Batches
         /\ setData(o, m).puts = {Latest(o, m)}
         /\ setData(o, m).dels = Row(o, chatPartner(o, m))
  BY Kinds, RowKind DEF addDocument, setData, Batch, Batches

\* A batch without latest rows, which keeps the logs, may be appended.
LEMMA AppendPlain ==
  ASSUME NEW S, NEW q \in Seq(Batches), NEW b \in Batches,
         BackedQueue(q, S), KeepsLogs(q),
         \A o \in Users : \A m \in Messages :
           Latest(o, m) \notin b.puts /\ InLog(o, m) \notin b.dels
  PROVE  /\ Append(q, b) \in Seq(Batches)
         /\ BackedQueue(Append(q, b), S)
         /\ KeepsLogs(Append(q, b))
<1> DEFINE r == Append(q, b)
<1>1. /\ r \in Seq(Batches) /\ Len(r) = Len(q) + 1 /\ r[Len(q) + 1] = b
      /\ \A i \in DOMAIN q : i \in DOMAIN r /\ r[i] = q[i]
      /\ \A i \in DOMAIN r : i \in DOMAIN q \/ i = Len(q) + 1
  OBVIOUS
<1> HIDE DEF r
<1>2. BackedQueue(r, S)
  BY <1>1 DEF BackedQueue
<1>3. KeepsLogs(r)
  BY <1>1 DEF KeepsLogs
<1> QED BY <1>1, <1>2, <1>3 DEF r

\* So may the row of a message whose log copy is queued before it.
LEMMA AppendRow ==
  ASSUME NEW S, NEW q \in Seq(Batches), BackedQueue(q, S), KeepsLogs(q),
         NEW o \in Users, NEW m \in Messages,
         \E j \in DOMAIN q : InLog(o, m) \in q[j].puts
  PROVE  /\ Append(q, setData(o, m)) \in Seq(Batches)
         /\ BackedQueue(Append(q, setData(o, m)), S)
         /\ KeepsLogs(Append(q, setData(o, m)))
<1> DEFINE b == setData(o, m)
           r == Append(q, b)
<1>0. b \in Batches /\ b.puts = {Latest(o, m)} /\ b.dels = Row(o, chatPartner(o, m))
  BY BatchShapes
<1> HIDE DEF b
<1>1. /\ r \in Seq(Batches) /\ Len(r) = Len(q) + 1 /\ r[Len(q) + 1] = b
      /\ \A i \in DOMAIN q : i \in DOMAIN r /\ r[i] = q[i] /\ i < Len(q) + 1
      /\ \A i \in DOMAIN r : i \in DOMAIN q \/ i = Len(q) + 1
  BY <1>0
<1> HIDE DEF r
<1>2. BackedQueue(r, S)
  <2> SUFFICES ASSUME NEW i \in DOMAIN r, NEW p \in Users, NEW x \in Messages,
                      Latest(p, x) \in r[i].puts
               PROVE  \/ InLog(p, x) \in S
                      \/ \E j \in DOMAIN r : j < i /\ InLog(p, x) \in r[j].puts
    BY DEF BackedQueue
  <2>1. CASE i \in DOMAIN q
    BY <1>1, <2>1 DEF BackedQueue
  <2>2. CASE i = Len(q) + 1
    <3>1. p = o /\ x = m
      BY <1>0, <1>1, <2>2, Kinds
    <3> QED BY <1>1, <2>2, <3>1
  <2> QED BY <1>1, <2>1, <2>2
<1>3. KeepsLogs(r)
  BY <1>0, <1>1, RowKind DEF KeepsLogs
<1> QED BY <1>1, <1>2, <1>3 DEF r, b

\* A queue that stays, or changes its handlers only, stays in order when the
\* copies kept grow.
LEMMA QueueKept ==
  ASSUME NEW S, NEW T, NEW q \in Seq(Batches), NEW r \in Seq(Batches),
         BackedQueue(q, S), KeepsLogs(q),
         DOMAIN r = DOMAIN q,
         \A i \in DOMAIN q : r[i].puts = q[i].puts /\ r[i].dels = q[i].dels,
         \A o \in Users : \A m \in Messages : InLog(o, m) \in S => InLog(o, m) \in T
  PROVE  BackedQueue(r, T) /\ KeepsLogs(r)
<1>1. BackedQueue(r, T)
  BY DEF BackedQueue
<1>2. KeepsLogs(r)
  BY DEF KeepsLogs
<1> QED BY <1>1, <1>2

\* What is left of a queue when its oldest batch has been answered, and its
\* copies are kept.
LEMMA TailKept ==
  ASSUME NEW S, NEW T, NEW q \in Seq(Batches), q # <<>>,
         BackedQueue(q, S), KeepsLogs(q),
         \A o \in Users : \A m \in Messages :
           InLog(o, m) \in S \cup Head(q).puts => InLog(o, m) \in T
  PROVE  /\ Tail(q) \in Seq(Batches)
         /\ BackedQueue(Tail(q), T)
         /\ KeepsLogs(Tail(q))
<1> DEFINE r == Tail(q)
<1>1. /\ r \in Seq(Batches) /\ Len(r) = Len(q) - 1 /\ Head(q) = q[1]
      /\ 1 \in DOMAIN q
      /\ DOMAIN q = 1..Len(q) /\ DOMAIN r = 1..Len(r)
      /\ Len(q) \in Nat /\ Len(r) \in Nat
      /\ \A i \in DOMAIN r : i + 1 \in DOMAIN q /\ r[i] = q[i + 1]
  BY HeadTailProperties
<1> HIDE DEF r
<1>2. BackedQueue(r, T)
  <2> SUFFICES ASSUME NEW i \in DOMAIN r, NEW o \in Users, NEW m \in Messages,
                      Latest(o, m) \in r[i].puts
               PROVE  \/ InLog(o, m) \in T
                      \/ \E j \in DOMAIN r : j < i /\ InLog(o, m) \in r[j].puts
    BY DEF BackedQueue
  <2>1. CASE InLog(o, m) \in S
    BY <2>1
  <2>2. CASE \E j \in DOMAIN q : j < i + 1 /\ InLog(o, m) \in q[j].puts
    <3>1. PICK j \in DOMAIN q : j < i + 1 /\ InLog(o, m) \in q[j].puts
      BY <2>2
    <3>2. CASE j = 1
      BY <1>1, <3>1, <3>2
    <3>3. CASE j # 1
      <4>1. j - 1 \in DOMAIN r /\ j - 1 < i /\ r[j - 1] = q[j]
        BY <1>1, <3>1, <3>3
      <4> QED BY <3>1, <4>1
    <3> QED BY <3>2, <3>3
  <2>3. i + 1 \in DOMAIN q /\ Latest(o, m) \in q[i + 1].puts
    BY <1>1
  <2> QED BY <2>1, <2>2, <2>3 DEF BackedQueue
<1>3. KeepsLogs(r)
  BY <1>1 DEF KeepsLogs
<1> QED BY <1>1, <1>2, <1>3 DEF r

------------------------------------------------------------------------------
(* Steps *)

\* A step that appends to one queue and leaves the server alone.
LEMMA QueueStep ==
  ASSUME Inv, NEW u \in Users, NEW r \in Seq(Batches),
         BackedQueue(r, docs \cup lost), KeepsLogs(r),
         outbox' = [outbox EXCEPT ![u] = r],
         chat' \in [Users -> Chats],
         UNCHANGED <<docs, lost>>
  PROVE  Inv'
<1>1. \A v \in Users : outbox'[v] = IF v = u THEN r ELSE outbox[v]
  BY DEF Inv, Queues
<1>2. \A v \in Users : BackedQueue(outbox'[v], docs' \cup lost') /\ KeepsLogs(outbox'[v])
  BY <1>1 DEF Inv, Queues
<1>3. outbox' \in [Users -> Seq(Batches)]
  BY DEF Inv, Queues
<1>4. LatestInLog'
  BY DEF Inv, LatestInLog
<1> QED BY <1>2, <1>3, <1>4 DEF Inv, Queues

\* A step of the screens alone.
LEMMA ScreenStep ==
  ASSUME Inv, chat' \in [Users -> Chats], UNCHANGED <<docs, outbox, lost>>
  PROVE  Inv'
  BY DEF Inv, Queues, LatestInLog

LEMMA InitInv == Init => Inv
<1> SUFFICES ASSUME Init PROVE Inv
  OBVIOUS
<1>1. chat \in [Users -> Chats]
  BY MessagingAssumption DEF Init, NoChat, OpenChat, Chats
<1>2. \A u \in Users : outbox[u] = <<>>
  BY DEF Init
<1>3. outbox \in [Users -> Seq(Batches)]
  BY DEF Init
<1>4. \A u \in Users : BackedQueue(outbox[u], docs \cup lost) /\ KeepsLogs(outbox[u])
  BY <1>2 DEF BackedQueue, KeepsLogs
<1>5. LatestInLog
  BY DEF Init, LatestInLog
<1> QED BY <1>1, <1>3, <1>4, <1>5 DEF Inv, Queues

LEMMA Sending_sendMessage ==
  ASSUME Inv, NEW u \in Users, sendMessage(u)
  PROVE  Inv'
<1> DEFINE p == chat[u].id
<1>1. PICK m \in Messages :
        EnqueueAll(u, <<addDocument(u, m), addDocument(p, m),
                        setData(u, m), setData(p, m)>>)
  BY DEF sendMessage
<1>2. p \in Users
  BY DEF Inv, Queues, Chats, sendMessage
<1> DEFINE q == outbox[u]
           a == Append(q, addDocument(u, m))
           b == Append(a, addDocument(p, m))
           c == Append(b, setData(u, m))
           d == Append(c, setData(p, m))
<1>3. q \in Seq(Batches) /\ BackedQueue(q, docs \cup lost) /\ KeepsLogs(q)
  BY DEF Inv, Queues
<1>4. /\ addDocument(u, m) \in Batches /\ addDocument(p, m) \in Batches
      /\ setData(u, m) \in Batches /\ setData(p, m) \in Batches
      /\ addDocument(u, m).puts = {InLog(u, m)}
      /\ addDocument(p, m).puts = {InLog(p, m)}
      /\ addDocument(u, m).dels = {} /\ addDocument(p, m).dels = {}
  BY <1>2, BatchShapes
<1> HIDE DEF p, q
<1>5. outbox' = [outbox EXCEPT ![u] = d]
  <2>1. d = q \o <<addDocument(u, m), addDocument(p, m), setData(u, m), setData(p, m)>>
    BY <1>3, <1>4
  <2> QED BY <1>1, <2>1 DEF EnqueueAll, q, p
<1>6. a \in Seq(Batches) /\ BackedQueue(a, docs \cup lost) /\ KeepsLogs(a)
  BY <1>2, <1>3, <1>4, AppendPlain, Kinds
<1>7. Len(q) + 1 \in DOMAIN a /\ a[Len(q) + 1] = addDocument(u, m)
  BY <1>3, <1>4
<1> HIDE DEF a
<1>8. b \in Seq(Batches) /\ BackedQueue(b, docs \cup lost) /\ KeepsLogs(b)
  BY <1>2, <1>4, <1>6, AppendPlain, Kinds
<1>9. /\ Len(a) + 1 \in DOMAIN b /\ b[Len(a) + 1] = addDocument(p, m)
      /\ Len(q) + 1 \in DOMAIN b /\ b[Len(q) + 1] = addDocument(u, m)
  BY <1>4, <1>6, <1>7
<1> HIDE DEF b
<1>10. c \in Seq(Batches) /\ BackedQueue(c, docs \cup lost) /\ KeepsLogs(c)
  BY <1>4, <1>8, <1>9, AppendRow
<1>11. Len(a) + 1 \in DOMAIN c /\ c[Len(a) + 1] = addDocument(p, m)
  BY <1>4, <1>8, <1>9
<1> HIDE DEF c
<1>12. d \in Seq(Batches) /\ BackedQueue(d, docs \cup lost) /\ KeepsLogs(d)
  BY <1>2, <1>4, <1>10, <1>11, AppendRow
<1> HIDE DEF d
<1>13. chat' \in [Users -> Chats] /\ UNCHANGED <<docs, lost>>
  BY DEF Inv, Queues, sendMessage
<1> QED BY <1>5, <1>12, <1>13, QueueStep

LEMMA Sending_sendMessageWithImageUrl ==
  ASSUME Inv, NEW u \in Users, NEW p \in Users, sendMessageWithImageUrl(u, p)
  PROVE  Inv'
<1>1. PICK m \in Messages : EnqueueAll(u, <<addDocument(u, m), addDocument(p, m)>>)
  BY DEF sendMessageWithImageUrl
<1> DEFINE q == outbox[u]
           a == Append(q, addDocument(u, m))
           b == Append(a, addDocument(p, m))
<1>2. q \in Seq(Batches) /\ BackedQueue(q, docs \cup lost) /\ KeepsLogs(q)
  BY DEF Inv, Queues
<1>3. /\ addDocument(u, m) \in Batches /\ addDocument(p, m) \in Batches
      /\ addDocument(u, m).puts = {InLog(u, m)}
      /\ addDocument(p, m).puts = {InLog(p, m)}
      /\ addDocument(u, m).dels = {} /\ addDocument(p, m).dels = {}
  BY BatchShapes
<1> HIDE DEF q
<1>4. outbox' = [outbox EXCEPT ![u] = b]
  <2>1. b = q \o <<addDocument(u, m), addDocument(p, m)>>
    BY <1>2, <1>3
  <2> QED BY <1>1, <2>1 DEF EnqueueAll, q
<1>5. a \in Seq(Batches) /\ BackedQueue(a, docs \cup lost) /\ KeepsLogs(a)
  BY <1>2, <1>3, AppendPlain, Kinds
<1> HIDE DEF a
<1>6. b \in Seq(Batches) /\ BackedQueue(b, docs \cup lost) /\ KeepsLogs(b)
  BY <1>3, <1>5, AppendPlain, Kinds
<1> HIDE DEF b
<1>7. chat' \in [Users -> Chats] /\ UNCHANGED <<docs, lost>>
  BY DEF Inv, Queues, sendMessageWithImageUrl
<1> QED BY <1>4, <1>6, <1>7, QueueStep

\* A batch that only deletes latest rows.
LEMMA DeletionStep ==
  ASSUME Inv, NEW u \in Users, NEW dels \in SUBSET Documents,
         NEW handler \in {"nothing", "reload"},
         \A o \in Users : \A m \in Messages : InLog(o, m) \notin dels,
         Enqueue(u, Batch({}, dels, handler)),
         chat' = chat, UNCHANGED <<docs, lost>>
  PROVE  Inv'
<1> DEFINE q == outbox[u]
           b == Batch({}, dels, handler)
<1>1. q \in Seq(Batches) /\ BackedQueue(q, docs \cup lost) /\ KeepsLogs(q)
  BY DEF Inv, Queues
<1>2. b \in Batches /\ b.puts = {} /\ b.dels = dels
  BY DEF Batch, Batches
<1>3. outbox' = [outbox EXCEPT ![u] = Append(q, b)]
  BY DEF Enqueue
<1>4. chat' \in [Users -> Chats]
  BY DEF Inv, Queues
<1> HIDE DEF q, b
<1>5. Append(q, b) \in Seq(Batches) /\ BackedQueue(Append(q, b), docs \cup lost) /\ KeepsLogs(Append(q, b))
  BY <1>1, <1>2, AppendPlain
<1> QED BY <1>3, <1>4, <1>5, QueueStep

LEMMA Sending_blockuser ==
  ASSUME Inv, NEW u \in Users, NEW p \in Users, blockuser(u, p)
  PROVE  Inv'
<1> DEFINE D == Row(u, p) \cup Row(p, u)
<1>1. /\ D \in SUBSET Documents
      /\ \A o \in Users : \A m \in Messages : InLog(o, m) \notin D
  BY RowKind
<1> HIDE DEF D
<1>2. Enqueue(u, Batch({}, D, "nothing")) /\ chat' = chat /\ UNCHANGED <<docs, lost>>
  BY DEF blockuser, D
<1> QED BY <1>1, <1>2, DeletionStep

LEMMA Screens_commitDelete ==
  ASSUME Inv, NEW u \in Users, commitDelete(u)
  PROVE  Inv'
<1>1. PICK i \in DOMAIN inbox[u].rows :
        Enqueue(u, Batch({}, Row(u, chatPartner(u, inbox[u].messages[i])), "reload"))
  BY DEF commitDelete
<1> DEFINE D == Row(u, chatPartner(u, inbox[u].messages[i]))
<1>2. /\ D \in SUBSET Documents
      /\ \A o \in Users : \A m \in Messages : InLog(o, m) \notin D
  BY RowKind
<1> HIDE DEF D
<1>3. Enqueue(u, Batch({}, D, "reload")) /\ chat' = chat /\ UNCHANGED <<docs, lost>>
  BY <1>1 DEF commitDelete, D
<1> QED BY <1>2, <1>3, DeletionStep

\* The oldest batch of u is answered: its copies reach the server or the
\* refused, and its rows, if they reach the server, are backed.
LEMMA AnswerStep ==
  ASSUME Inv, NEW u \in Users, outbox[u] # <<>>,
         outbox' = [outbox EXCEPT ![u] = Tail(@)],
         chat' = chat,
         \A o \in Users : \A m \in Messages :
           InLog(o, m) \in docs \cup lost \cup Head(outbox[u]).puts =>
             InLog(o, m) \in docs' \cup lost',
         docs' \subseteq docs \cup Head(outbox[u]).puts
  PROVE  Inv'
<1> DEFINE q == outbox[u]
           S == docs \cup lost
           T == docs' \cup lost'
<1>1. q \in Seq(Batches) /\ BackedQueue(q, S) /\ KeepsLogs(q)
  BY DEF Inv, Queues
<1>2. \A o \in Users : \A m \in Messages :
        InLog(o, m) \in S \cup Head(q).puts => InLog(o, m) \in T
  OBVIOUS
<1>3. \A v \in Users : outbox'[v] = IF v = u THEN Tail(q) ELSE outbox[v]
  BY DEF Inv, Queues
<1>4. \A v \in Users : outbox[v] \in Seq(Batches) /\ BackedQueue(outbox[v], S) /\ KeepsLogs(outbox[v])
  BY DEF Inv, Queues
<1>5. LatestInLog'
  <2> SUFFICES ASSUME NEW o \in Users, NEW m \in Messages, Latest(o, m) \in docs'
               PROVE  InLog(o, m) \in T
    BY DEF LatestInLog, Latest, InLog
  <2>1. CASE Latest(o, m) \in docs
    BY <1>2, <2>1 DEF Inv, LatestInLog
  <2>2. CASE Latest(o, m) \in Head(q).puts
    <3>1. 1 \in DOMAIN q /\ Head(q) = q[1] /\ \A j \in DOMAIN q : ~ (j < 1)
      BY <1>1
    <3>2. InLog(o, m) \in S
      BY <1>1, <2>2, <3>1 DEF BackedQueue
    <3> QED BY <1>2, <3>2
  <2> QED BY <2>1, <2>2
<1> HIDE DEF q, S, T
<1>6. Tail(q) \in Seq(Batches) /\ BackedQueue(Tail(q), T) /\ KeepsLogs(Tail(q))
  <2>1. q # <<>>
    BY DEF q
  <2> QED BY <1>1, <1>2, <2>1, TailKept
<1>7. \A v \in Users :
        outbox'[v] \in Seq(Batches) /\ BackedQueue(outbox'[v], T) /\ KeepsLogs(outbox'[v])
  <2> TAKE v \in Users
  <2>1. CASE v = u
    BY <1>3, <1>6, <2>1
  <2>2. CASE v # u
    <3>1. \A o \in Users : \A m \in Messages : InLog(o, m) \in S => InLog(o, m) \in T
      BY <1>2
    <3>2. BackedQueue(outbox[v], T) /\ KeepsLogs(outbox[v])
      BY <1>4, <3>1, QueueKept
    <3> QED BY <1>3, <1>4, <2>2, <3>2
  <2> QED BY <2>1, <2>2
<1>8. outbox' \in [Users -> Seq(Batches)]
  BY <1>7 DEF Inv, Queues
<1>9. chat' \in [Users -> Chats]
  BY DEF Inv, Queues
<1> QED BY <1>5, <1>7, <1>8, <1>9 DEF Inv, Queues, T

LEMMA Step_Committed ==
  ASSUME Inv, NEW u \in Users, Committed(u)
  PROVE  Inv'
<1>1. /\ outbox[u] # <<>> /\ outbox' = [outbox EXCEPT ![u] = Tail(@)]
      /\ docs' = (docs \ Head(outbox[u]).dels) \cup Head(outbox[u]).puts
      /\ chat' = chat /\ lost' = lost
  BY DEF Committed, Commit
<1>2. outbox[u] \in Seq(Batches) /\ KeepsLogs(outbox[u])
  BY DEF Inv, Queues
<1>3. 1 \in DOMAIN outbox[u] /\ Head(outbox[u]) = outbox[u][1]
  BY <1>1, <1>2
<1>4. \A o \in Users : \A m \in Messages : InLog(o, m) \notin Head(outbox[u]).dels
  BY <1>2, <1>3 DEF KeepsLogs
<1> QED BY <1>1, <1>4, AnswerStep

LEMMA Step_Refused ==
  ASSUME Inv, NEW u \in Users, Refused(u)
  PROVE  Inv'
<1>1. /\ outbox[u] # <<>> /\ outbox' = [outbox EXCEPT ![u] = Tail(@)]
      /\ docs' = docs /\ chat' = chat
      /\ lost' = lost \cup Head(outbox[u]).puts
  BY DEF Refused, Refuse
<1> QED BY <1>1, AnswerStep

\* After a restart the queue is the same but for its handlers.
LEMMA Screens_Relaunch ==
  ASSUME Inv, NEW u \in Users, Relaunch(u)
  PROVE  Inv'
<1> DEFINE q == outbox[u]
           r == [i \in DOMAIN q |-> [q[i] EXCEPT !.handler = "nothing"]]
<1>1. q \in Seq(Batches) /\ BackedQueue(q, docs \cup lost) /\ KeepsLogs(q)
  BY DEF Inv, Queues
<1>2. outbox' = [outbox EXCEPT ![u] = r]
  BY DEF Relaunch
<1>3. chat' \in [Users -> Chats] /\ UNCHANGED <<docs, lost>>
  BY DEF Inv, Queues, Relaunch, NoChat, Chats
<1> HIDE DEF q
<1>4. \A i \in DOMAIN q : q[i] \in Batches
  BY <1>1
<1>5. /\ DOMAIN r = DOMAIN q
      /\ \A i \in DOMAIN q :
           /\ r[i].puts = q[i].puts /\ r[i].dels = q[i].dels
           /\ r[i] \in Batches
  BY <1>4 DEF Batches
<1> HIDE DEF r
<1>6. r \in Seq(Batches)
  <2>1. DOMAIN r = 1..Len(q) /\ Len(q) \in Nat
    BY <1>1, <1>5
  <2>2. r \in [1..Len(q) -> Batches]
    BY <1>5, <2>1 DEF r
  <2> QED BY <2>1, <2>2
<1>7. BackedQueue(r, docs \cup lost) /\ KeepsLogs(r)
  BY <1>5, <1>1 DEF BackedQueue, KeepsLogs
<1> QED BY <1>2, <1>3, <1>6, <1>7, QueueStep

------------------------------------------------------------------------------
(* The invariant *)

LEMMA StepInv ==
  ASSUME Inv, [Next]_vars
  PROVE  Inv'
<1>1. CASE UNCHANGED vars
  BY <1>1, ScreenStep DEF vars, Inv, Queues
<1>2. CASE Done
  BY <1>2, ScreenStep DEF Done, vars, Inv, Queues
<1>3. CASE Sending
  <2>1. PICK u \in Users :
          \/ sendMessage(u)
          \/ uploadImageToFirebase(u)
          \/ \E p \in Users : \/ sendMessageWithImageUrl(u, p)
                              \/ uploadFailed(u, p)
                              \/ blockuser(u, p)
    BY <1>3, Zenon DEF Sending
  <2>2. CASE sendMessage(u)
    BY <2>2, Sending_sendMessage
  <2>3. CASE uploadImageToFirebase(u)
    BY <2>3, ScreenStep DEF uploadImageToFirebase, Inv, Queues
  <2>4. CASE \E p \in Users : sendMessageWithImageUrl(u, p)
    BY <2>4, Sending_sendMessageWithImageUrl
  <2>5. CASE \E p \in Users : uploadFailed(u, p)
    BY <2>5, ScreenStep DEF uploadFailed, Inv, Queues
  <2>6. CASE \E p \in Users : blockuser(u, p)
    BY <2>6, Sending_blockuser
  <2> QED BY <2>1, <2>2, <2>3, <2>4, <2>5, <2>6
<1>4. CASE Screens
  <2>1. PICK u \in Users :
          \/ viewWillAppear(u) \/ viewWillDisappear(u) \/ refreshUserData(u)
          \/ loadLatestMessagesForUser(u) \/ reloadData(u) \/ commitDelete(u)
          \/ \E p \in Users : showchatcontrollerForUser(u, p)
          \/ observeMessages(u) \/ titleViewButtonDidTap(u) \/ closeChat(u)
          \/ Relaunch(u)
    BY <1>4, MessagingAssumption, Zenon DEF Screens, MessagingAssumption
  <2>2. CASE \/ viewWillAppear(u) \/ viewWillDisappear(u) \/ refreshUserData(u)
             \/ loadLatestMessagesForUser(u) \/ reloadData(u)
    <3>1. UNCHANGED <<docs, outbox, chat, lost>>
      BY <2>2, Zenon DEF viewWillAppear, viewWillDisappear, refreshUserData,
                         loadLatestMessagesForUser, reloadData
    <3> QED BY <3>1, ScreenStep DEF Inv, Queues
  <2>3. CASE commitDelete(u)
    BY <2>3, Screens_commitDelete
  <2>4. CASE \E p \in Users : showchatcontrollerForUser(u, p)
    <3>1. PICK p \in Users : showchatcontrollerForUser(u, p)
      BY <2>4
    <3>2. chat' = [chat EXCEPT ![u] = [id |-> p, listening |-> TRUE, shown |-> {}]]
      BY <3>1, Zenon DEF showchatcontrollerForUser, OpenChat
    <3>3. UNCHANGED <<docs, outbox, lost>>
      BY <3>1, Zenon DEF showchatcontrollerForUser
    <3>4. [id |-> p, listening |-> TRUE, shown |-> {}] \in Chats
      BY DEF Chats
    <3>5. chat' \in [Users -> Chats]
      BY <3>2, <3>4 DEF Inv, Queues
    <3> QED BY <3>3, <3>5, ScreenStep
  <2>5. CASE observeMessages(u)
    <3>1. Conversation(u) \in SUBSET Messages
      BY DEF Conversation
    <3>2. chat[u] \in Chats
      BY DEF Inv, Queues
    <3>3. [chat[u] EXCEPT !.shown = Conversation(u)] \in Chats
      BY <3>1, <3>2 DEF Chats
    <3>4. chat' = [chat EXCEPT ![u] = [chat[u] EXCEPT !.shown = Conversation(u)]]
      BY <2>5, <3>2 DEF observeMessages, Inv, Queues
    <3>5. chat' \in [Users -> Chats]
      BY <3>3, <3>4 DEF Inv, Queues
    <3> QED BY <2>5, <3>5, ScreenStep DEF observeMessages
  <2>6. CASE titleViewButtonDidTap(u)
    <3>1. chat' \in [Users -> Chats]
      BY <2>6 DEF titleViewButtonDidTap, Inv, Queues, Chats
    <3> QED BY <2>6, <3>1, ScreenStep DEF titleViewButtonDidTap
  <2>7. CASE closeChat(u)
    <3>1. chat' \in [Users -> Chats]
      BY <2>7 DEF closeChat, Inv, Queues, Chats, NoChat
    <3> QED BY <2>7, <3>1, ScreenStep DEF closeChat
  <2>8. CASE Relaunch(u)
    BY <2>8, Screens_Relaunch
  <2> QED BY <2>1, <2>2, <2>3, <2>4, <2>5, <2>6, <2>7, <2>8
<1>5. CASE \E u \in Users : Committed(u) \/ Refused(u)
  BY <1>5, Step_Committed, Step_Refused
<1> QED BY <1>1, <1>2, <1>3, <1>4, <1>5 DEF Next

\* For any number of users writing to each other, deleting, blocking, losing
\* writes and restarting: a latest row on the server (MessageLog.swift:299-309)
\* speaks of a message its owner's log holds, or held no place for because the
\* write into the log was refused.
THEOREM RowsBacked == Spec => []LatestInLog
<1>1. Inv => LatestInLog
  BY DEF Inv
<1> QED BY <1>1, InitInv, StepInv, PTL DEF Spec

\* The queues of all clients stay in the order that makes this so: a log copy
\* is queued before the row that speaks of it, and no queued batch deletes one.
THEOREM QueuesBacked == Spec => []Queues
<1>1. Inv => Queues
  BY DEF Inv
<1> QED BY <1>1, InitInv, StepInv, PTL DEF Spec

------------------------------------------------------------------------------
(* A message is in both logs *)

Pending(q, d) == \E i \in DOMAIN q : d \in q[i].puts

\* Where the copies of a message are: what LogsAgree says of an empty queue.
CopiesKept ==
  /\ sent \subseteq Messages
  /\ \A m \in sent : \A o \in {m.from, m.to} :
       InLog(o, m) \in docs \cup lost \/ Pending(outbox[m.from], InLog(o, m))

LEMMA PendingAppend ==
  ASSUME NEW q \in Seq(Batches), NEW b \in Batches
  PROVE  /\ Append(q, b) \in Seq(Batches)
         /\ \A d : Pending(Append(q, b), d) <=> Pending(q, d) \/ d \in b.puts
<1> DEFINE r == Append(q, b)
<1>1. /\ r \in Seq(Batches) /\ Len(q) + 1 \in DOMAIN r /\ r[Len(q) + 1] = b
      /\ \A i \in DOMAIN q : i \in DOMAIN r /\ r[i] = q[i]
      /\ \A i \in DOMAIN r : i \in DOMAIN q \/ i = Len(q) + 1
  OBVIOUS
<1> HIDE DEF r
<1>2. \A d : Pending(r, d) <=> Pending(q, d) \/ d \in b.puts
  BY <1>1 DEF Pending
<1> QED BY <1>1, <1>2 DEF r

LEMMA PendingTail ==
  ASSUME NEW q \in Seq(Batches), q # <<>>
  PROVE  \A d : Pending(q, d) <=> d \in Head(q).puts \/ Pending(Tail(q), d)
<1>1. /\ Head(q) = q[1] /\ DOMAIN q = 1..(Len(Tail(q)) + 1)
      /\ Len(Tail(q)) \in Nat /\ DOMAIN Tail(q) = 1..Len(Tail(q))
      /\ \A i \in DOMAIN Tail(q) : Tail(q)[i] = q[i + 1]
  BY HeadTailProperties
<1>2. ASSUME NEW d, NEW i \in DOMAIN q, d \in q[i].puts
      PROVE  d \in Head(q).puts \/ Pending(Tail(q), d)
  <2>1. CASE i = 1
    BY <1>1, <1>2, <2>1
  <2>2. CASE i # 1
    <3>1. i - 1 \in DOMAIN Tail(q) /\ Tail(q)[i - 1] = q[i]
      BY <1>1, <2>2
    <3> QED BY <1>2, <3>1 DEF Pending
  <2> QED BY <2>1, <2>2
<1>3. ASSUME NEW d, d \in Head(q).puts
      PROVE  Pending(q, d)
  <2>1. 1 \in DOMAIN q
    BY <1>1
  <2> QED BY <1>1, <1>3, <2>1 DEF Pending
<1>4. ASSUME NEW d, NEW i \in DOMAIN Tail(q), d \in Tail(q)[i].puts
      PROVE  Pending(q, d)
  <2>1. i + 1 \in DOMAIN q /\ q[i + 1] = Tail(q)[i]
    BY <1>1
  <2> QED BY <1>4, <2>1 DEF Pending
<1> QED BY <1>2, <1>3, <1>4 DEF Pending

\* A step that sends nothing keeps the copies if it loses no queued one.
LEMMA CopiesStep ==
  ASSUME CopiesKept, sent' = sent,
         \A o \in Users : \A m \in Messages :
           InLog(o, m) \in docs \cup lost => InLog(o, m) \in docs' \cup lost',
         \A u \in Users : \A o \in Users : \A m \in Messages :
           Pending(outbox[u], InLog(o, m)) =>
             \/ InLog(o, m) \in docs' \cup lost'
             \/ Pending(outbox'[u], InLog(o, m))
  PROVE  CopiesKept'
<1> SUFFICES ASSUME NEW m \in sent, NEW o \in {m.from, m.to}
             PROVE  \/ InLog(o, m) \in docs' \cup lost'
                    \/ Pending(outbox'[m.from], InLog(o, m))
  BY DEF CopiesKept, InLog, Pending
<1>1. m \in Messages /\ m.from \in Users /\ o \in Users
  BY DEF CopiesKept, Messages
<1>2. InLog(o, m) \in docs \cup lost \/ Pending(outbox[m.from], InLog(o, m))
  BY DEF CopiesKept
<1> QED BY <1>1, <1>2

\* A message is sent: both copies are queued.
LEMMA CopiesSent ==
  ASSUME Inv, CopiesKept, NEW u \in Users, NEW p \in Users, NEW m \in Messages,
         m.from = u, m.to = p, sent' = sent \cup {m},
         NEW r \in Seq(Batches), outbox' = [outbox EXCEPT ![u] = r],
         \A d : Pending(outbox[u], d) => Pending(r, d),
         Pending(r, InLog(u, m)), Pending(r, InLog(p, m)),
         UNCHANGED <<docs, lost>>
  PROVE  CopiesKept'
<1>1. \A v \in Users : outbox'[v] = IF v = u THEN r ELSE outbox[v]
  BY DEF Inv, Queues
<1>2. ASSUME NEW x \in sent', NEW o \in {x.from, x.to}
      PROVE  InLog(o, x) \in docs \cup lost \/ Pending(outbox'[x.from], InLog(o, x))
  <2>1. CASE x = m
    BY <1>1, <1>2, <2>1
  <2>2. CASE x \in sent
    <3>1. InLog(o, x) \in docs \cup lost \/ Pending(outbox[x.from], InLog(o, x))
      BY <1>2, <2>2 DEF CopiesKept
    <3>2. x.from \in Users
      BY <2>2 DEF CopiesKept, Messages
    <3> QED BY <1>1, <3>1, <3>2
  <2> QED BY <1>2, <2>1, <2>2
<1>3. sent' \subseteq Messages
  BY DEF CopiesKept
<1>4. UNCHANGED docs /\ UNCHANGED lost
  OBVIOUS
<1> QED BY <1>2, <1>3, <1>4 DEF CopiesKept, InLog, Pending

\* What a sender's queue holds afterwards.
LEMMA SentQueue ==
  ASSUME Inv, NEW u \in Users, NEW p \in Users,
         \/ sendMessage(u) /\ p = chat[u].id
         \/ sendMessageWithImageUrl(u, p)
  PROVE  \E m \in Messages : \E r \in Seq(Batches) :
           /\ NewMessage(u, p, m)
           /\ outbox' = [outbox EXCEPT ![u] = r]
           /\ \A d : Pending(outbox[u], d) \/ d \in {InLog(u, m), InLog(p, m)} => Pending(r, d)
           /\ \A d : Pending(r, d) =>
                \/ Pending(outbox[u], d)
                \/ d \in {InLog(u, m), InLog(p, m), Latest(u, m), Latest(p, m)}
<1> DEFINE q == outbox[u]
<1>1. q \in Seq(Batches)
  BY DEF Inv, Queues
<1>2. PICK m \in Messages :
        /\ NewMessage(u, p, m)
        /\ \/ EnqueueAll(u, <<addDocument(u, m), addDocument(p, m),
                              setData(u, m), setData(p, m)>>)
           \/ EnqueueAll(u, <<addDocument(u, m), addDocument(p, m)>>)
  BY DEF sendMessage, sendMessageWithImageUrl
<1> DEFINE a == Append(q, addDocument(u, m))
           b == Append(a, addDocument(p, m))
           c == Append(b, setData(u, m))
           d == Append(c, setData(p, m))
<1>3. /\ addDocument(u, m) \in Batches /\ addDocument(p, m) \in Batches
      /\ setData(u, m) \in Batches /\ setData(p, m) \in Batches
      /\ addDocument(u, m).puts = {InLog(u, m)} /\ addDocument(p, m).puts = {InLog(p, m)}
      /\ setData(u, m).puts = {Latest(u, m)} /\ setData(p, m).puts = {Latest(p, m)}
  BY BatchShapes
<1> HIDE DEF q
<1>4. /\ d = q \o <<addDocument(u, m), addDocument(p, m), setData(u, m), setData(p, m)>>
      /\ b = q \o <<addDocument(u, m), addDocument(p, m)>>
  BY <1>1, <1>3
<1>5. /\ a \in Seq(Batches)
      /\ \A x : Pending(a, x) <=> Pending(q, x) \/ x = InLog(u, m)
  BY <1>1, <1>3, PendingAppend
<1> HIDE DEF a
<1>6. /\ b \in Seq(Batches)
      /\ \A x : Pending(b, x) <=> Pending(a, x) \/ x = InLog(p, m)
  BY <1>3, <1>5, PendingAppend
<1> HIDE DEF b
<1>7. /\ c \in Seq(Batches)
      /\ \A x : Pending(c, x) <=> Pending(b, x) \/ x = Latest(u, m)
  BY <1>3, <1>6, PendingAppend
<1> HIDE DEF c
<1>8. /\ d \in Seq(Batches)
      /\ \A x : Pending(d, x) <=> Pending(c, x) \/ x = Latest(p, m)
  BY <1>3, <1>7, PendingAppend
<1> HIDE DEF d
<1>9. outbox' = [outbox EXCEPT ![u] = d] \/ outbox' = [outbox EXCEPT ![u] = b]
  BY <1>2, <1>4 DEF EnqueueAll, q
<1>10. CASE outbox' = [outbox EXCEPT ![u] = d]
  BY <1>2, <1>5, <1>6, <1>7, <1>8, <1>10 DEF q
<1>11. CASE outbox' = [outbox EXCEPT ![u] = b]
  BY <1>2, <1>5, <1>6, <1>11 DEF q
<1> QED BY <1>9, <1>10, <1>11

LEMMA CopiesSending ==
  ASSUME Inv, CopiesKept, NEW u \in Users, NEW p \in Users,
         \/ sendMessage(u) /\ p = chat[u].id
         \/ sendMessageWithImageUrl(u, p)
  PROVE  CopiesKept'
<1>1. PICK m \in Messages, r \in Seq(Batches) :
        /\ NewMessage(u, p, m)
        /\ outbox' = [outbox EXCEPT ![u] = r]
        /\ \A d : Pending(outbox[u], d) \/ d \in {InLog(u, m), InLog(p, m)} => Pending(r, d)
  BY SentQueue
<1>2. m.from = u /\ m.to = p /\ sent' = sent \cup {m}
  BY <1>1 DEF NewMessage
<1>3. UNCHANGED <<docs, lost>>
  BY DEF sendMessage, sendMessageWithImageUrl
<1> QED BY <1>1, <1>2, <1>3, CopiesSent

\* Deletions are queued, or the handlers of a queue are dropped.
LEMMA QueuedAlike ==
  ASSUME Inv, NEW u \in Users,
         \/ commitDelete(u) \/ Relaunch(u) \/ \E p \in Users : blockuser(u, p)
  PROVE  \A v \in Users : \A d : Pending(outbox'[v], d) <=> Pending(outbox[v], d)
<1> DEFINE q == outbox[u]
<1>1. q \in Seq(Batches)
  BY DEF Inv, Queues
<1>2. ASSUME NEW r, outbox' = [outbox EXCEPT ![u] = r], \A d : Pending(r, d) <=> Pending(q, d)
      PROVE  \A v \in Users : \A d : Pending(outbox'[v], d) <=> Pending(outbox[v], d)
  BY <1>2 DEF Inv, Queues
<1>3. ASSUME NEW dels \in SUBSET Documents, NEW handler \in {"nothing", "reload"},
             Enqueue(u, Batch({}, dels, handler))
      PROVE  \A v \in Users : \A d : Pending(outbox'[v], d) <=> Pending(outbox[v], d)
  <2>1. Batch({}, dels, handler) \in Batches /\ Batch({}, dels, handler).puts = {}
    BY DEF Batch, Batches
  <2>2. \A d : Pending(Append(q, Batch({}, dels, handler)), d) <=> Pending(q, d)
    BY <1>1, <2>1, PendingAppend
  <2> QED BY <1>2, <1>3, <2>2 DEF Enqueue
<1>4. CASE commitDelete(u)
  <2>1. PICK i \in DOMAIN inbox[u].rows :
          Enqueue(u, Batch({}, Row(u, chatPartner(u, inbox[u].messages[i])), "reload"))
    BY <1>4 DEF commitDelete
  <2> QED BY <1>3, <2>1, RowKind
<1>5. CASE \E p \in Users : blockuser(u, p)
  <2>1. PICK p \in Users : Enqueue(u, Batch({}, Row(u, p) \cup Row(p, u), "nothing"))
    BY <1>5 DEF blockuser
  <2>2. Row(u, p) \cup Row(p, u) \in SUBSET Documents
    BY RowKind
  <2> QED BY <1>3, <2>1, <2>2
<1>6. CASE Relaunch(u)
  <2> DEFINE r == [i \in DOMAIN q |-> [q[i] EXCEPT !.handler = "nothing"]]
  <2>1. outbox' = [outbox EXCEPT ![u] = r]
    BY <1>6 DEF Relaunch
  <2>2. \A i \in DOMAIN q : q[i] \in Batches
    BY <1>1
  <2> HIDE DEF q
  <2>3. DOMAIN r = DOMAIN q /\ \A i \in DOMAIN q : r[i].puts = q[i].puts
    BY <2>2 DEF Batches
  <2> HIDE DEF r
  <2>4. \A d : Pending(r, d) <=> Pending(q, d)
    BY <2>3 DEF Pending
  <2> QED BY <1>2, <2>1, <2>4
<1> QED BY <1>4, <1>5, <1>6

LEMMA CopiesQueue ==
  ASSUME Inv, CopiesKept, NEW u \in Users,
         \/ commitDelete(u) \/ Relaunch(u) \/ \E p \in Users : blockuser(u, p)
  PROVE  CopiesKept'
<1>1. UNCHANGED <<docs, lost, sent>>
  BY DEF commitDelete, Relaunch, blockuser
<1> QED BY <1>1, QueuedAlike, CopiesStep

LEMMA CopiesAnswered ==
  ASSUME Inv, CopiesKept, NEW u \in Users, Committed(u) \/ Refused(u)
  PROVE  CopiesKept'
<1> DEFINE q == outbox[u]
<1>1. /\ q # <<>> /\ outbox' = [outbox EXCEPT ![u] = Tail(q)] /\ sent' = sent
      /\ \/ docs' = (docs \ Head(q).dels) \cup Head(q).puts /\ lost' = lost
         \/ docs' = docs /\ lost' = lost \cup Head(q).puts
  BY DEF Committed, Commit, Refused, Refuse
<1>2. q \in Seq(Batches) /\ KeepsLogs(q)
  BY DEF Inv, Queues
<1>3. \A o \in Users : \A m \in Messages : InLog(o, m) \notin Head(q).dels
  <2>1. 1 \in DOMAIN q /\ Head(q) = q[1]
    BY <1>1, <1>2
  <2> QED BY <1>2, <2>1 DEF KeepsLogs
<1>4. \A v \in Users : outbox'[v] = IF v = u THEN Tail(q) ELSE outbox[v]
  BY <1>1 DEF Inv, Queues
<1>5. \A o \in Users : \A m \in Messages :
        InLog(o, m) \in docs \cup lost \cup Head(q).puts => InLog(o, m) \in docs' \cup lost'
  BY <1>1, <1>3
<1> HIDE DEF q
<1>6. \A d : Pending(q, d) => d \in Head(q).puts \/ Pending(Tail(q), d)
  BY <1>1, <1>2, PendingTail
<1>7. \A v \in Users : \A o \in Users : \A m \in Messages :
        Pending(outbox[v], InLog(o, m)) =>
          InLog(o, m) \in docs' \cup lost' \/ Pending(outbox'[v], InLog(o, m))
  BY <1>4, <1>5, <1>6 DEF q
<1> QED BY <1>1, <1>5, <1>7, CopiesStep

\* The steps of the program, by what they do to the queues.
LEMMA QueueSteps ==
  ASSUME Inv, [Next]_vars
  PROVE  \/ UNCHANGED <<docs, outbox, lost, sent>>
         \/ \E u \in Users, p \in Users : \/ sendMessage(u) /\ p = chat[u].id
                                         \/ sendMessageWithImageUrl(u, p)
         \/ \E u \in Users : \/ commitDelete(u) \/ Relaunch(u)
                             \/ \E p \in Users : blockuser(u, p)
         \/ \E u \in Users : Committed(u) \/ Refused(u)
<1>1. CASE Sending
  <2>1. PICK u \in Users :
          \/ sendMessage(u)
          \/ uploadImageToFirebase(u)
          \/ \E p \in Users : \/ sendMessageWithImageUrl(u, p)
                              \/ uploadFailed(u, p)
                              \/ blockuser(u, p)
    BY <1>1, Zenon DEF Sending
  <2>2. CASE sendMessage(u)
    <3>1. chat[u].id \in Users
      BY <2>2 DEF Inv, Queues, Chats, sendMessage
    <3> QED BY <2>2, <3>1
  <2>3. CASE uploadImageToFirebase(u) \/ \E p \in Users : uploadFailed(u, p)
    BY <2>3 DEF uploadImageToFirebase, uploadFailed
  <2> QED BY <2>1, <2>2, <2>3
<1>2. CASE Screens
  <2>1. PICK u \in Users :
          \/ viewWillAppear(u) \/ viewWillDisappear(u) \/ refreshUserData(u)
          \/ loadLatestMessagesForUser(u) \/ reloadData(u) \/ commitDelete(u)
          \/ \E p \in Users : showchatcontrollerForUser(u, p)
          \/ observeMessages(u) \/ titleViewButtonDidTap(u) \/ closeChat(u)
          \/ Relaunch(u)
    BY <1>2, MessagingAssumption, Zenon DEF Screens, MessagingAssumption
  <2>2. CASE \/ viewWillAppear(u) \/ viewWillDisappear(u) \/ refreshUserData(u)
             \/ loadLatestMessagesForUser(u) \/ reloadData(u)
             \/ \E p \in Users : showchatcontrollerForUser(u, p)
             \/ observeMessages(u) \/ titleViewButtonDidTap(u) \/ closeChat(u)
    BY <2>2, Zenon DEF viewWillAppear, viewWillDisappear, refreshUserData,
         loadLatestMessagesForUser, reloadData, showchatcontrollerForUser,
         observeMessages, titleViewButtonDidTap, closeChat
  <2> QED BY <2>1, <2>2
<1>3. CASE Done \/ UNCHANGED vars
  BY <1>3 DEF Done, vars
<1> QED BY <1>1, <1>2, <1>3 DEF Next

LEMMA CopiesNext ==
  ASSUME Inv, CopiesKept, [Next]_vars
  PROVE  CopiesKept'
<1>1. CASE UNCHANGED <<docs, outbox, lost, sent>>
  BY <1>1, CopiesStep
<1> QED BY <1>1, QueueSteps, CopiesSending, CopiesQueue, CopiesAnswered

\* MessageLog.swift:294-297, 136-139: of a message whose sender's writes are all
\* answered, each side's log holds its copy or the write of it was refused.
THEOREM LogsInAgreement == Spec => []LogsAgree
<1>1. Init => Inv /\ CopiesKept
  BY InitInv DEF Init, CopiesKept
<1>2. Inv /\ CopiesKept /\ [Next]_vars => Inv' /\ CopiesKept'
  BY StepInv, CopiesNext
<1>3. CopiesKept => LogsAgree
  BY DEF CopiesKept, LogsAgree, Pending
<1> QED BY <1>1, <1>2, <1>3, PTL DEF Spec

------------------------------------------------------------------------------
(* What the list of latest messages is read from *)

\* No two of these messages carry the same stamp.
Distinct(S) == \A x, y \in S : x.stamp = y.stamp => x = y

\* Every row, on the server or queued, speaks of a message that was sent.
RowsSent ==
  /\ Distinct(sent)
  /\ \A o \in Users : \A m \in Messages :
       Latest(o, m) \in docs \/ (\E u \in Users : Pending(outbox[u], Latest(o, m))) =>
         m \in sent

LEMMA RowsSentStep ==
  ASSUME RowsSent, sent \subseteq sent', Distinct(sent'),
         \A o \in Users : \A m \in Messages : Latest(o, m) \in docs' =>
           Latest(o, m) \in docs \/ \E u \in Users : Pending(outbox[u], Latest(o, m)),
         \A u \in Users : \A o \in Users : \A m \in Messages :
           Pending(outbox'[u], Latest(o, m)) => Pending(outbox[u], Latest(o, m)) \/ m \in sent'
  PROVE  RowsSent'
<1>1. ASSUME NEW o \in Users, NEW m \in Messages,
             Latest(o, m) \in docs' \/ \E u \in Users : Pending(outbox'[u], Latest(o, m))
      PROVE  m \in sent'
  BY <1>1 DEF RowsSent
<1> QED BY <1>1 DEF RowsSent, Distinct, Latest, Pending

LEMMA RowsSentNext ==
  ASSUME Inv, CopiesKept, RowsSent, [Next]_vars
  PROVE  RowsSent'
<1>1. CASE UNCHANGED <<docs, outbox, lost, sent>>
  BY <1>1 DEF RowsSent, Distinct, Pending
<1>2. ASSUME NEW u \in Users, NEW p \in Users,
             \/ sendMessage(u) /\ p = chat[u].id
             \/ sendMessageWithImageUrl(u, p)
      PROVE  RowsSent'
  <2>1. PICK m \in Messages, r \in Seq(Batches) :
          /\ NewMessage(u, p, m)
          /\ outbox' = [outbox EXCEPT ![u] = r]
          /\ \A d : Pending(r, d) =>
               \/ Pending(outbox[u], d)
               \/ d \in {InLog(u, m), InLog(p, m), Latest(u, m), Latest(p, m)}
    BY <1>2, SentQueue
  <2>2. docs' = docs
    BY <1>2 DEF sendMessage, sendMessageWithImageUrl
  <2>3. sent' = sent \cup {m} /\ \A x \in sent : x.stamp # m.stamp
    BY <2>1 DEF NewMessage
  <2>4. Distinct(sent')
    BY <2>3 DEF RowsSent, Distinct
  <2>5. ASSUME NEW v \in Users, NEW o \in Users, NEW x \in Messages,
               Pending(outbox'[v], Latest(o, x))
        PROVE  Pending(outbox[v], Latest(o, x)) \/ x \in sent'
    <3>1. outbox'[v] = IF v = u THEN r ELSE outbox[v]
      BY <2>1 DEF Inv, Queues
    <3>2. Latest(o, x) \in {InLog(u, m), InLog(p, m), Latest(u, m), Latest(p, m)} => x = m
      BY Kinds
    <3> QED BY <2>1, <2>3, <2>5, <3>1, <3>2
  <2> QED BY <2>2, <2>3, <2>4, <2>5, RowsSentStep
<1>3. ASSUME NEW u \in Users,
             \/ commitDelete(u) \/ Relaunch(u) \/ \E p \in Users : blockuser(u, p)
      PROVE  RowsSent'
  <2>1. UNCHANGED <<docs, sent>>
    BY <1>3 DEF commitDelete, Relaunch, blockuser
  <2>2. Distinct(sent')
    BY <2>1 DEF RowsSent
  <2> QED BY <1>3, <2>1, <2>2, QueuedAlike, RowsSentStep
<1>4. ASSUME NEW u \in Users, Committed(u) \/ Refused(u)
      PROVE  RowsSent'
  <2> DEFINE q == outbox[u]
  <2>1. /\ q # <<>> /\ outbox' = [outbox EXCEPT ![u] = Tail(q)] /\ sent' = sent
        /\ docs' \subseteq docs \cup Head(q).puts
    BY <1>4 DEF Committed, Commit, Refused, Refuse
  <2>2. q \in Seq(Batches)
    BY DEF Inv, Queues
  <2>3. \A v \in Users : outbox'[v] = IF v = u THEN Tail(q) ELSE outbox[v]
    BY <2>1 DEF Inv, Queues
  <2> HIDE DEF q
  <2>4. \A d : d \in Head(q).puts \/ Pending(Tail(q), d) => Pending(q, d)
    BY <2>1, <2>2, PendingTail
  <2>5. Distinct(sent')
    BY <2>1 DEF RowsSent
  <2> QED BY <2>1, <2>3, <2>4, <2>5, RowsSentStep DEF q
<1> QED BY <1>1, <1>2, <1>3, <1>4, QueueSteps

------------------------------------------------------------------------------
(* The list can be sorted *)

LEMMA Least ==
  ASSUME NEW T \in SUBSET Nat, T # {}
  PROVE  \E n \in T : \A k \in T : n <= k
<1> DEFINE R == OpToRel(<, Nat)
<1>1. IsWellFoundedOn(R, Nat)
  BY NatLessThanWellFounded
<1>2. \A x, y \in Nat : <<y, x>> \in R <=> y < x
  BY DEF OpToRel
<1> HIDE DEF R
<1>3. PICK n \in T : \A k \in T : ~ (<<k, n>> \in R)
  BY <1>1, WFMin
<1>4. ASSUME NEW k \in T PROVE n <= k
  <2>1. k \in Nat /\ n \in Nat
    OBVIOUS
  <2>2. ~ (k < n)
    BY <1>2, <1>3, <2>1
  <2> QED BY <2>1, <2>2
<1> QED BY <1>4

\* s lists n members of S, newest first.
Sorted(s, S, n) ==
  /\ s \in [1..n -> S]
  /\ \A i, j \in 1..n : i < j => s[i].stamp > s[j].stamp

Sortable(n) ==
  \A S \in SUBSET Messages :
    IsFiniteSet(S) /\ Cardinality(S) = n /\ Distinct(S) => \E s : Sorted(s, S, n)

LEMMA AllSortable == \A n \in Nat : Sortable(n)
<1> DEFINE T == {n \in Nat : ~ Sortable(n)}
<1> SUFFICES ASSUME T # {} PROVE FALSE
  OBVIOUS
<1>1. PICK n \in T : \A k \in T : n <= k
  BY Least
<1>2. n \in Nat /\ ~ Sortable(n)
  OBVIOUS
<1>3. \A k \in Nat : k < n => Sortable(k)
  BY <1>1
<1> HIDE DEF T
<1>4. PICK S \in SUBSET Messages :
        IsFiniteSet(S) /\ Cardinality(S) = n /\ Distinct(S) /\ ~ \E s : Sorted(s, S, n)
  BY <1>2 DEF Sortable
<1>5. CASE n = 0
  <2> DEFINE s == [i \in 1..0 |-> 0]
  <2>1. 1..0 = {}
    OBVIOUS
  <2>2. Sorted(s, S, n)
    BY <1>5, <2>1 DEF Sorted
  <2> QED BY <1>4, <2>2
<1>6. CASE n # 0
  <2>1. S # {}
    BY <1>4, <1>6, FS_EmptySet
  <2>2. \A x \in S : x.stamp \in Nat
    BY MessagingAssumption DEF Messages, Stamps
  <2>3. PICK m \in S : \A x \in S : m.stamp <= x.stamp
    <3> DEFINE stamps == {x.stamp : x \in S}
    <3>1. stamps \in SUBSET Nat /\ stamps # {}
      BY <2>1, <2>2
    <3>2. PICK k \in stamps : \A j \in stamps : k <= j
      BY <3>1, Least
    <3> QED BY <3>2
  <2>4. /\ S \ {m} \in SUBSET Messages
        /\ IsFiniteSet(S \ {m}) /\ Cardinality(S \ {m}) = n - 1 /\ Distinct(S \ {m})
    BY <1>4, FS_RemoveElement DEF Distinct
  <2>5. n - 1 \in Nat /\ n - 1 < n
    BY <1>2, <1>6
  <2>6. PICK t : Sorted(t, S \ {m}, n - 1)
    BY <1>3, <2>4, <2>5 DEF Sortable
  <2> DEFINE s == [i \in 1..n |-> IF i = n THEN m ELSE t[i]]
  <2>7. \A i \in 1..n : i # n => i \in 1..(n - 1)
    BY <1>2
  <2>8. \A i \in 1..n : i # n => t[i] \in S /\ t[i] # m
    BY <2>6, <2>7 DEF Sorted
  <2>9. s \in [1..n -> S]
    BY <2>8
  <2>10. ASSUME NEW i \in 1..n, NEW j \in 1..n, i < j
         PROVE  s[i].stamp > s[j].stamp
    <3>1. i # n /\ s[i] = t[i]
      BY <1>2, <2>10
    <3>2. CASE j # n
      <4>1. i \in 1..(n - 1) /\ j \in 1..(n - 1) /\ s[j] = t[j]
        BY <2>7, <3>1, <3>2
      <4> QED BY <2>6, <2>10, <3>1, <4>1 DEF Sorted
    <3>3. CASE j = n
      <4>1. s[j] = m /\ t[i] \in S /\ t[i] # m
        BY <2>8, <3>1, <3>3
      <4>2. t[i].stamp # m.stamp /\ m.stamp <= t[i].stamp
        BY <1>4, <2>3, <4>1 DEF Distinct
      <4>3. t[i].stamp \in Nat /\ m.stamp \in Nat
        BY <2>2, <4>1
      <4> QED BY <3>1, <4>1, <4>2, <4>3
    <3> QED BY <3>2, <3>3
  <2>11. Sorted(s, S, n)
    BY <2>9, <2>10 DEF Sorted
  <2> QED BY <1>4, <2>11
<1> QED BY <1>5, <1>6

------------------------------------------------------------------------------
(* What a query finds *)

Found(u) == {m \in Messages : Sees(u, Latest(u, m))}

\* s holds every member of S, each once, newest first.
Lists(s, S) ==
  /\ IsFiniteSet(S)
  /\ Sorted(s, S, Cardinality(S))
  /\ \A x \in S : \E i \in DOMAIN s : s[i] = x

LEMMA FoundSent ==
  ASSUME CopiesKept, RowsSent, NEW u \in Users
  PROVE  Found(u) \subseteq sent /\ IsFiniteSet(Found(u)) /\ Distinct(Found(u))
<1>1. ASSUME NEW m \in Messages, Sees(u, Latest(u, m))
      PROVE  m \in sent
  <2>1. Latest(u, m) \in docs \/ Pending(outbox[u], Latest(u, m))
    BY <1>1 DEF Sees, Pending, Touching
  <2> QED BY <2>1 DEF RowsSent
<1>2. Found(u) \subseteq sent
  BY <1>1 DEF Found
<1>3. Distinct(Found(u))
  BY <1>2 DEF RowsSent, Distinct
<1> DEFINE f == [x \in Found(u) |-> x.stamp]
<1>4. f \in Injection(Found(u), 1..MaxSends)
  <2>1. \A x \in Found(u) : x.stamp \in 1..MaxSends
    BY DEF Found, Messages, Stamps
  <2> QED BY <1>3, <2>1 DEF Injection, IsInjective, Distinct
<1>5. IsFiniteSet(1..MaxSends)
  BY MessagingAssumption, FS_Interval
<1> HIDE DEF f
<1> QED BY <1>2, <1>3, <1>4, <1>5, FS_Injection

LEMMA SortedLists ==
  ASSUME NEW S, IsFiniteSet(S), Distinct(S), S \subseteq Messages,
         NEW s, Sorted(s, S, Cardinality(S))
  PROVE  Lists(s, S)
<1> DEFINE n == Cardinality(S)
<1>1. n \in Nat
  BY FS_CardinalityType
<1>2. IsFiniteSet(1..n) /\ Cardinality(1..n) = n
  BY <1>1, FS_Interval
<1>3. \A x \in S : x.stamp \in Nat
  BY MessagingAssumption DEF Messages, Stamps
<1> HIDE DEF n
<1>4. s \in [1..n -> S] /\ \A i, j \in 1..n : i < j => s[i].stamp > s[j].stamp
  BY DEF Sorted, n
<1>5. ASSUME NEW i \in 1..n, NEW j \in 1..n, s[i] = s[j] PROVE i = j
  <2>1. s[i].stamp \in Nat /\ s[j].stamp \in Nat
    BY <1>3, <1>4
  <2>2. ~ (i < j) /\ ~ (j < i)
    BY <1>4, <1>5, <2>1
  <2>3. i \in Nat /\ j \in Nat
    BY <1>1
  <2> QED BY <2>2, <2>3
<1>6. s \in Injection(1..n, S)
  BY <1>4, <1>5 DEF Injection, IsInjective
<1>7. s \in Surjection(1..n, S)
  BY <1>2, <1>6, FS_Injection DEF n
<1>8. \A x \in S : \E i \in DOMAIN s : s[i] = x
  BY <1>4, <1>7 DEF Surjection
<1> QED BY <1>8 DEF Lists

LEMMA QueryLists ==
  ASSUME CopiesKept, RowsSent, NEW u \in Users
  PROVE  Lists(Query(u), Found(u)) /\ Query(u) \in Seq(Messages)
<1> DEFINE S == Found(u)
           n == Cardinality(S)
<1>1. S \subseteq Messages /\ IsFiniteSet(S) /\ Distinct(S)
  BY FoundSent DEF Found
<1>2. n \in Nat
  BY <1>1, FS_CardinalityType
<1>3. Query(u) = CHOOSE s \in [1..n -> S] : \A i, j \in DOMAIN s : i < j => s[i].stamp > s[j].stamp
  BY DEF Query, Found
<1> HIDE DEF S, n
<1>4. PICK t : Sorted(t, S, n)
  BY <1>1, <1>2, AllSortable DEF Sortable, n
<1>5. \E s \in [1..n -> S] : \A i, j \in DOMAIN s : i < j => s[i].stamp > s[j].stamp
  BY <1>4 DEF Sorted
<1>6. /\ Query(u) \in [1..n -> S]
      /\ \A i, j \in DOMAIN Query(u) : i < j => Query(u)[i].stamp > Query(u)[j].stamp
  BY <1>3, <1>5
<1>7. Sorted(Query(u), S, n)
  BY <1>6 DEF Sorted
<1>8. Lists(Query(u), S)
  BY <1>1, <1>7, SortedLists DEF n
<1>9. Query(u) \in [1..n -> Messages]
  BY <1>1, <1>6
<1>10. Query(u) \in Seq(Messages)
  BY <1>2, <1>9, SeqDef
<1> QED BY <1>8, <1>10 DEF S

------------------------------------------------------------------------------
(* The list of latest messages *)

\* A list on the screen has a listener that has yet to deliver, or that
\* delivered what the array holds; the last listener to deliver is one.
Fresh(x) ==
  x.onTab => \E i \in DOMAIN x.listeners : x.listeners[i] \in {Never, <<x.messages>>}

\* The table shows the array, or is to be reloaded, unless the array is empty.
Redrawn(x) == ~ x.reload /\ x.messages # <<>> => x.rows = x.messages

BoxOK(x) == x \in Inboxes /\ Fresh(x) /\ Redrawn(x)

Boxes == inbox \in [Users -> Inboxes] /\ \A u \in Users : BoxOK(inbox[u])

LEMMA BoxFields ==
  ASSUME NEW x \in Inboxes
  PROVE  /\ x.onTab \in BOOLEAN /\ x.reload \in BOOLEAN
         /\ x.messages \in Seq(Messages) /\ x.rows \in Seq(Messages)
         /\ x.listeners \in Seq(Seq(Seq(Messages)))
  BY DEF Inboxes

LEMMA Listening ==
  ASSUME NEW x \in Inboxes
  PROVE  /\ Listen(x) \in Inboxes
         /\ Listen(x).onTab = x.onTab /\ Listen(x).reload = x.reload
         /\ Listen(x).messages = x.messages /\ Listen(x).rows = x.rows
         /\ \E i \in DOMAIN Listen(x).listeners : Listen(x).listeners[i] = Never
<1> DEFINE q == Append(x.listeners, Never)
<1>1. Never \in Seq(Seq(Messages))
  BY DEF Never
<1>2. /\ q \in Seq(Seq(Seq(Messages)))
      /\ Len(x.listeners) + 1 \in DOMAIN q /\ q[Len(x.listeners) + 1] = Never
  <2>1. \A S : \A s \in Seq(S) : \A a \in S :
          /\ Append(s, a) \in Seq(S)
          /\ Len(s) + 1 \in DOMAIN Append(s, a) /\ Append(s, a)[Len(s) + 1] = a
    OBVIOUS
  <2>2. x.listeners \in Seq(Seq(Seq(Messages)))
    BY BoxFields
  <2> QED BY <1>1, <2>1, <2>2
<1> HIDE DEF q
<1>3. /\ [x EXCEPT !.listeners = q] \in Inboxes
      /\ [x EXCEPT !.listeners = q].listeners = q
      /\ [x EXCEPT !.listeners = q].onTab = x.onTab
      /\ [x EXCEPT !.listeners = q].reload = x.reload
      /\ [x EXCEPT !.listeners = q].messages = x.messages
      /\ [x EXCEPT !.listeners = q].rows = x.rows
  BY <1>2 DEF Inboxes
<1>4. Listen(x) = [x EXCEPT !.listeners = q]
  BY DEF Listen, q
<1> QED BY <1>2, <1>3, <1>4

LEMMA EmptyArray ==
  ASSUME NEW y \in Inboxes
  PROVE  /\ LET z == [y EXCEPT !.messages = <<>>, !.reload = TRUE]
            IN  /\ z \in Inboxes /\ z.listeners = y.listeners
                /\ z.reload = TRUE /\ z.messages = <<>>
         /\ LET z == [y EXCEPT !.messages = <<>>]
            IN  z \in Inboxes /\ z.listeners = y.listeners /\ z.messages = <<>>
<1>1. <<>> \in Seq(Messages)
  OBVIOUS
<1> DEFINE none == <<>>
<1> HIDE DEF none
<1>2. /\ LET z == [y EXCEPT !.messages = none, !.reload = TRUE]
         IN  /\ z \in Inboxes /\ z.listeners = y.listeners
             /\ z.reload = TRUE /\ z.messages = none
      /\ LET z == [y EXCEPT !.messages = none]
         IN  z \in Inboxes /\ z.listeners = y.listeners /\ z.messages = none
  <2>1. none \in Seq(Messages)
    BY <1>1 DEF none
  <2> QED BY <2>1 DEF Inboxes
<1> QED BY <1>2 DEF none

\* A list appears, is refreshed, or is loaded again after a deletion.
LEMMA BoxListens ==
  ASSUME NEW x, BoxOK(x)
  PROVE  /\ BoxOK([Listen(x) EXCEPT !.onTab = TRUE])
         /\ BoxOK([Listen(x) EXCEPT !.messages = <<>>, !.reload = TRUE])
         /\ BoxOK([Listen(x) EXCEPT !.messages = <<>>])
<1>1. x \in Inboxes /\ Redrawn(x)
  BY DEF BoxOK
<1> DEFINE y == Listen(x)
<1>2. /\ y \in Inboxes
      /\ y.onTab = x.onTab /\ y.reload = x.reload
      /\ y.messages = x.messages /\ y.rows = x.rows
      /\ \E i \in DOMAIN y.listeners : y.listeners[i] = Never
  BY <1>1, Listening
<1> HIDE DEF y
<1>3. BoxOK([y EXCEPT !.onTab = TRUE])
  <2> DEFINE z == [y EXCEPT !.onTab = TRUE]
  <2>1. /\ z \in Inboxes /\ z.listeners = y.listeners /\ z.reload = y.reload
        /\ z.messages = y.messages /\ z.rows = y.rows
    BY <1>2 DEF Inboxes
  <2> HIDE DEF z
  <2>2. BoxOK(z)
    BY <1>1, <1>2, <2>1 DEF BoxOK, Fresh, Redrawn
  <2> QED BY <2>2 DEF z
<1>4. BoxOK([y EXCEPT !.messages = <<>>, !.reload = TRUE])
  <2> DEFINE z == [y EXCEPT !.messages = <<>>, !.reload = TRUE]
  <2>1. /\ z \in Inboxes /\ z.listeners = y.listeners /\ z.reload = TRUE
        /\ z.messages = <<>>
    BY <1>2, EmptyArray
  <2> HIDE DEF z
  <2>2. BoxOK(z)
    BY <1>2, <2>1 DEF BoxOK, Fresh, Redrawn
  <2> QED BY <2>2 DEF z
<1>5. BoxOK([y EXCEPT !.messages = <<>>])
  <2> DEFINE z == [y EXCEPT !.messages = <<>>]
  <2>1. z \in Inboxes /\ z.listeners = y.listeners /\ z.messages = <<>>
    BY <1>2, EmptyArray
  <2> HIDE DEF z
  <2>2. BoxOK(z)
    BY <1>2, <2>1 DEF BoxOK, Fresh, Redrawn
  <2> QED BY <2>2 DEF z
<1> QED BY <1>3, <1>4, <1>5 DEF y

LEMMA BoxLeaves ==
  ASSUME NEW x, BoxOK(x), x.onTab
  PROVE  BoxOK(Leave(x))
<1> DEFINE q == x.listeners
           r == SubSeq(q, 1, Len(q) - 1)
<1>1. x \in Inboxes /\ q \in Seq(Seq(Seq(Messages))) /\ Redrawn(x) /\ Fresh(x)
  BY BoxFields DEF BoxOK
<1>2. Len(q) \in Nat /\ Len(q) # 0
  BY <1>1 DEF Fresh
<1> HIDE DEF q
<1>3. r \in Seq(Seq(Seq(Messages)))
  BY <1>1, <1>2, SubSeqProperties
<1> HIDE DEF r
<1> DEFINE z == [x EXCEPT !.onTab = FALSE, !.listeners = r]
<1>4. /\ z \in Inboxes /\ z.onTab = FALSE /\ z.reload = x.reload
      /\ z.messages = x.messages /\ z.rows = x.rows
  BY <1>1, <1>3 DEF Inboxes
<1>5. Leave(x) = z
  BY DEF Leave, q, r
<1> HIDE DEF z
<1> QED BY <1>1, <1>4, <1>5 DEF BoxOK, Fresh, Redrawn

\* A listener delivers.
LEMMA BoxDelivers ==
  ASSUME NEW x, BoxOK(x), NEW i \in DOMAIN x.listeners, NEW s \in Seq(Messages),
         NEW z, z = [x EXCEPT !.listeners[i] = <<s>>, !.messages = s,
                              !.reload = @ \/ s # <<>>]
  PROVE  BoxOK(z)
<1> DEFINE q == x.listeners
           r == [q EXCEPT ![i] = <<s>>]
<1>1. x \in Inboxes /\ q \in Seq(Seq(Seq(Messages))) /\ x.reload \in BOOLEAN
  BY BoxFields DEF BoxOK
<1>2. <<s>> \in Seq(Seq(Messages)) /\ i \in DOMAIN q
  OBVIOUS
<1> HIDE DEF q
<1>3. r \in Seq(Seq(Seq(Messages))) /\ i \in DOMAIN r /\ r[i] = <<s>>
  BY <1>1, <1>2
<1>4. z = [x EXCEPT !.listeners = r, !.messages = s, !.reload = (x.reload \/ s # <<>>)]
  BY DEF q, r
<1> HIDE DEF r
<1>5. (x.reload \/ s # <<>>) \in BOOLEAN
  OBVIOUS
<1>6. /\ z \in Inboxes /\ z.listeners = r /\ z.messages = s
      /\ z.reload = (x.reload \/ s # <<>>)
  BY <1>1, <1>3, <1>4, <1>5 DEF Inboxes
<1>7. Fresh(z)
  BY <1>3, <1>6 DEF Fresh
<1>8. Redrawn(z)
  BY <1>6 DEF Redrawn
<1> QED BY <1>6, <1>7, <1>8 DEF BoxOK

LEMMA BoxReloads ==
  ASSUME NEW x, BoxOK(x)
  PROVE  BoxOK([x EXCEPT !.reload = FALSE, !.rows = x.messages])
<1> DEFINE z == [x EXCEPT !.reload = FALSE, !.rows = x.messages]
<1>1. x \in Inboxes /\ x.messages \in Seq(Messages) /\ Fresh(x)
  BY BoxFields DEF BoxOK
<1>2. /\ z \in Inboxes /\ z.onTab = x.onTab /\ z.messages = x.messages
      /\ z.rows = x.messages /\ z.listeners = x.listeners
  BY <1>1 DEF Inboxes
<1> HIDE DEF z
<1>3. BoxOK(z)
  BY <1>1, <1>2 DEF BoxOK, Fresh, Redrawn
<1> QED BY <1>3 DEF z

\* What is kept of every step: the queues and logs, the queries, the lists.
Kept == Inv /\ CopiesKept /\ RowsSent /\ Boxes

LEMMA BoxStep ==
  ASSUME Boxes, NEW u \in Users, NEW y, BoxOK(y), inbox' = [inbox EXCEPT ![u] = y]
  PROVE  Boxes'
<1>1. y \in Inboxes
  BY DEF BoxOK
<1>2. \A v \in Users : inbox'[v] = IF v = u THEN y ELSE inbox[v]
  BY DEF Boxes
<1>3. inbox' \in [Users -> Inboxes]
  BY <1>1 DEF Boxes
<1>4. \A v \in Users : BoxOK(inbox'[v])
  BY <1>2 DEF Boxes
<1> QED BY <1>3, <1>4 DEF Boxes, BoxOK, Fresh, Redrawn, Inboxes

LEMMA BoxesLoad ==
  ASSUME Kept, NEW u \in Users, loadLatestMessagesForUser(u)
  PROVE  Boxes'
<1> DEFINE x == inbox[u]
           s == Query(u)
<1>1. PICK i \in DOMAIN x.listeners :
        inbox' = [inbox EXCEPT ![u].listeners[i] = <<s>>,
                               ![u].messages = s,
                               ![u].reload = @ \/ s # <<>>]
  BY DEF loadLatestMessagesForUser, Delivered
<1>2. s \in Seq(Messages)
  BY QueryLists DEF Kept
<1> DEFINE z == [x EXCEPT !.listeners[i] = <<s>>, !.messages = s, !.reload = @ \/ s # <<>>]
<1>3. inbox' = [inbox EXCEPT ![u] = z]
  BY <1>1 DEF Kept, Boxes, BoxOK, Inboxes
<1>4. BoxOK(x)
  BY DEF Kept, Boxes
<1> HIDE DEF x, s
<1>5. BoxOK(z)
  BY <1>2, <1>4, BoxDelivers
<1> HIDE DEF z
<1> QED BY <1>3, <1>5, BoxStep DEF Kept

LEMMA NoInboxOK == BoxOK(NoInbox)
  BY DEF BoxOK, NoInbox, Inboxes, Fresh, Redrawn

LEMMA BoxesNext ==
  ASSUME Kept, [Next]_vars
  PROVE  Boxes'
<1>1. CASE inbox' = inbox
  BY <1>1 DEF Kept, Boxes, BoxOK, Fresh, Redrawn, Inboxes
<1>2. \A u \in Users : BoxOK(inbox[u])
  BY DEF Kept, Boxes
<1>3. ASSUME NEW u \in Users, viewWillAppear(u) \/ closeChat(u)
      PROVE  Boxes'
  <2>1. inbox' = [inbox EXCEPT ![u] = [Listen(inbox[u]) EXCEPT !.onTab = TRUE]]
    BY <1>3 DEF viewWillAppear, closeChat
  <2> QED BY <1>2, <2>1, BoxListens, BoxStep DEF Kept
<1>4. ASSUME NEW u \in Users, refreshUserData(u)
      PROVE  Boxes'
  <2>1. inbox' = [inbox EXCEPT ![u] = [Listen(inbox[u]) EXCEPT !.messages = <<>>,
                                                              !.reload = TRUE]]
    BY <1>4 DEF refreshUserData
  <2> QED BY <1>2, <2>1, BoxListens, BoxStep DEF Kept
<1>5. ASSUME NEW u \in Users, viewWillDisappear(u) \/ \E p \in Users : showchatcontrollerForUser(u, p)
      PROVE  Boxes'
  <2>1. inbox[u].onTab /\ inbox' = [inbox EXCEPT ![u] = Leave(inbox[u])]
    BY <1>5 DEF viewWillDisappear, showchatcontrollerForUser
  <2> QED BY <1>2, <2>1, BoxLeaves, BoxStep DEF Kept
<1>6. ASSUME NEW u \in Users, reloadData(u)
      PROVE  Boxes'
  <2>1. inbox' = [inbox EXCEPT ![u] = [inbox[u] EXCEPT !.reload = FALSE,
                                                      !.rows = inbox[u].messages]]
    BY <1>6 DEF reloadData, Kept, Boxes, Inboxes
  <2> QED BY <1>2, <2>1, BoxReloads, BoxStep DEF Kept
<1>7. ASSUME NEW u \in Users, Relaunch(u)
      PROVE  Boxes'
  <2>1. inbox' = [inbox EXCEPT ![u] = NoInbox]
    BY <1>7 DEF Relaunch
  <2> QED BY <2>1, NoInboxOK, BoxStep DEF Kept
<1>8. ASSUME NEW u \in Users, Committed(u)
      PROVE  Boxes'
  <2>1. \/ inbox' = [inbox EXCEPT ![u] = [Listen(inbox[u]) EXCEPT !.messages = <<>>]]
        \/ inbox' = inbox
    BY <1>8 DEF Committed
  <2> QED BY <1>1, <1>2, <2>1, BoxListens, BoxStep DEF Kept
<1>9. CASE Sending
  <2>1. PICK u \in Users :
          \/ sendMessage(u)
          \/ uploadImageToFirebase(u)
          \/ \E p \in Users : \/ sendMessageWithImageUrl(u, p)
                              \/ uploadFailed(u, p)
                              \/ blockuser(u, p)
    BY <1>9, Zenon DEF Sending
  <2> QED BY <1>1, <2>1 DEF sendMessage, uploadImageToFirebase, sendMessageWithImageUrl,
                            uploadFailed, blockuser
<1>10. CASE Screens
  <2>1. PICK u \in Users :
          \/ viewWillAppear(u) \/ viewWillDisappear(u) \/ refreshUserData(u)
          \/ loadLatestMessagesForUser(u) \/ reloadData(u) \/ commitDelete(u)
          \/ \E p \in Users : showchatcontrollerForUser(u, p)
          \/ observeMessages(u) \/ titleViewButtonDidTap(u) \/ closeChat(u)
          \/ Relaunch(u)
    BY <1>10, MessagingAssumption, Zenon DEF Screens, MessagingAssumption
  <2>2. CASE commitDelete(u) \/ observeMessages(u) \/ titleViewButtonDidTap(u)
    BY <1>1, <2>2 DEF commitDelete, observeMessages, titleViewButtonDidTap
  <2> QED BY <1>3, <1>4, <1>5, <1>6, <1>7, <2>1, <2>2, BoxesLoad
<1>11. CASE \E u \in Users : Refused(u)
  BY <1>1, <1>11 DEF Refused
<1>12. CASE Done \/ UNCHANGED vars
  BY <1>1, <1>12 DEF Done, vars
<1> QED BY <1>8, <1>9, <1>10, <1>11, <1>12 DEF Next

LEMMA InitKept == Init => Kept
<1> SUFFICES ASSUME Init PROVE Kept
  OBVIOUS
<1>1. CopiesKept
  BY DEF Init, CopiesKept
<1>2. RowsSent
  BY DEF Init, RowsSent, Distinct, Pending
<1>3. inbox = [u \in Users |-> NoInbox] /\ NoInbox \in Inboxes
  BY NoInboxOK DEF Init, BoxOK
<1>4. Boxes
  BY <1>3, NoInboxOK DEF Boxes
<1> QED BY <1>1, <1>2, <1>4, InitInv DEF Kept

LEMMA NextKept == Kept /\ [Next]_vars => Kept'
<1> SUFFICES ASSUME Kept, [Next]_vars PROVE Kept'
  OBVIOUS
<1>1. Inv'
  BY StepInv DEF Kept
<1>2. CopiesKept' /\ RowsSent'
  BY CopiesNext, RowsSentNext DEF Kept
<1>3. Boxes'
  BY BoxesNext
<1> QED BY <1>1, <1>2, <1>3 DEF Kept

LEMMA BoxesHonest ==
  ASSUME Boxes
  PROVE  InboxHonest
<1>1. ASSUME NEW u \in Users, AtRest(u)
      PROVE  /\ inbox[u].messages = Query(u)
             /\ Query(u) # <<>> => inbox[u].rows = Query(u)
  <2>1. Fresh(inbox[u]) /\ Redrawn(inbox[u])
    BY DEF Boxes, BoxOK
  <2>2. inbox[u].onTab /\ ~ inbox[u].reload
    BY <1>1 DEF AtRest
  <2>3. PICK i \in DOMAIN inbox[u].listeners :
          inbox[u].listeners[i] \in {Never, <<inbox[u].messages>>}
    BY <2>1, <2>2 DEF Fresh
  <2>4. inbox[u].listeners[i] = <<Query(u)>>
    BY <1>1 DEF AtRest, Due, Delivered
  <2>5. <<Query(u)>> # Never
    BY DEF Never
  <2>6. <<Query(u)>> = <<inbox[u].messages>>
    BY <2>3, <2>4, <2>5
  <2>7. inbox[u].messages = Query(u)
    BY <2>6
  <2> QED BY <2>1, <2>2, <2>7 DEF Redrawn
<1> QED BY <1>1 DEF InboxHonest

\* MessagesMainView.swift:78-99: once every listener has delivered, leaked ones
\* included, array and table hold what the query finds.
THEOREM InboxIsHonest == Spec => []InboxHonest
<1>1. Kept => InboxHonest
  BY BoxesHonest DEF Kept
<1> QED BY <1>1, InitKept, NextKept, PTL DEF Spec

\* What the query finds: every latest message the user can read, each once, and
\* no older one before a newer one (MessagesMainView.swift:80).
THEOREM QueriesAreLists == Spec => [](\A u \in Users : Lists(Query(u), Found(u)))
<1>1. Kept => \A u \in Users : Lists(Query(u), Found(u))
  BY QueryLists DEF Kept
<1> QED BY <1>1, InitKept, NextKept, PTL DEF Spec

------------------------------------------------------------------------------
(* Every variable keeps its type. *)

\* The types that the invariants above do not state.
Counted ==
  /\ docs \in SUBSET Documents
  /\ uploads \in [Users \X Users -> Nat]
  /\ lost \in SUBSET Documents
  /\ visits \in 0..MaxVisits
  /\ failures \in 0..MaxFailures

LEMMA CountedSending ==
  ASSUME Counted, Sending
  PROVE  Counted'
<1>1. PICK u \in Users :
        \/ sendMessage(u)
        \/ uploadImageToFirebase(u)
        \/ \E p \in Users : \/ sendMessageWithImageUrl(u, p)
                            \/ uploadFailed(u, p)
                            \/ blockuser(u, p)
  BY Zenon DEF Sending
<1>2. CASE sendMessage(u)
  BY <1>2 DEF Counted, sendMessage
<1>3. CASE uploadImageToFirebase(u)
  <2> DEFINE w == <<u, chat[u].id>>
  <2>1. /\ uploads' = [uploads EXCEPT ![w] = uploads[w] + 1]
        /\ UNCHANGED <<docs, lost, visits, failures>>
    BY <1>3 DEF uploadImageToFirebase
  <2> HIDE DEF w
  <2>2. uploads' \in [Users \X Users -> Nat]
    <3>1. CASE w \in Users \X Users
      <4>1. uploads[w] + 1 \in Nat
        BY <3>1 DEF Counted
      <4> QED BY <2>1, <4>1 DEF Counted
    <3>2. CASE w \notin Users \X Users
      BY <2>1, <3>2 DEF Counted
    <3> QED BY <3>1, <3>2
  <2> QED BY <2>1, <2>2 DEF Counted
<1>4. ASSUME NEW p \in Users, sendMessageWithImageUrl(u, p) \/ uploadFailed(u, p)
      PROVE  Counted'
  <2>1. /\ uploads[<<u, p>>] > 0
        /\ uploads' = [uploads EXCEPT ![<<u, p>>] = @ - 1]
        /\ UNCHANGED <<docs, lost, visits>>
        /\ failures' = failures \/ Fail
    BY <1>4 DEF sendMessageWithImageUrl, uploadFailed
  <2>2. uploads' \in [Users \X Users -> Nat]
    BY <2>1 DEF Counted
  <2>3. failures' \in 0..MaxFailures
    BY <2>1, MessagingAssumption DEF Counted, Fail
  <2> QED BY <2>1, <2>2, <2>3 DEF Counted
<1>5. ASSUME NEW p \in Users, blockuser(u, p)
      PROVE  Counted'
  BY <1>5, MessagingAssumption DEF Counted, blockuser, Visit
<1> QED BY <1>1, <1>2, <1>3, <1>4, <1>5

LEMMA CountedScreens ==
  ASSUME Counted, Screens
  PROVE  Counted'
<1>1. PICK u \in Users :
        \/ viewWillAppear(u) \/ viewWillDisappear(u) \/ refreshUserData(u)
        \/ loadLatestMessagesForUser(u) \/ reloadData(u) \/ commitDelete(u)
        \/ \E p \in Users : showchatcontrollerForUser(u, p)
        \/ observeMessages(u) \/ titleViewButtonDidTap(u) \/ closeChat(u)
        \/ Relaunch(u)
  BY MessagingAssumption, Zenon DEF Screens, MessagingAssumption
<1>2. /\ UNCHANGED <<docs, lost, failures>>
      /\ uploads' = uploads \/ Relaunch(u)
      /\ visits' = visits \/ Visit
  BY <1>1, Zenon DEF viewWillAppear, viewWillDisappear, refreshUserData,
       loadLatestMessagesForUser, reloadData, commitDelete, showchatcontrollerForUser,
       observeMessages, titleViewButtonDidTap, closeChat, Relaunch
<1>3. visits' \in 0..MaxVisits
  BY <1>2, MessagingAssumption DEF Counted, Visit
<1>4. uploads' \in [Users \X Users -> Nat]
  <2>1. CASE Relaunch(u)
    <3>1. uploads' = [w \in Users \X Users |-> IF w[1] = u THEN 0 ELSE uploads[w]]
      BY <2>1 DEF Relaunch
    <3> QED BY <3>1 DEF Counted
  <2> QED BY <1>2, <2>1 DEF Counted
<1> QED BY <1>2, <1>3, <1>4 DEF Counted

LEMMA CountedAnswers ==
  ASSUME Inv, Counted, NEW u \in Users, Committed(u) \/ Refused(u)
  PROVE  Counted'
<1>1. /\ outbox[u] # <<>>
      /\ docs' \subseteq docs \cup Head(outbox[u]).puts
      /\ lost' \subseteq lost \cup Head(outbox[u]).puts
      /\ uploads' = uploads /\ visits' = visits
      /\ failures' = failures \/ Fail
  BY DEF Committed, Commit, Refused, Refuse
<1>2. Head(outbox[u]) \in Batches
  BY <1>1 DEF Inv, Queues
<1>3. Head(outbox[u]).puts \subseteq Documents
  BY <1>2 DEF Batches
<1>4. failures' \in 0..MaxFailures
  BY <1>1, MessagingAssumption DEF Counted, Fail
<1> QED BY <1>1, <1>3, <1>4 DEF Counted

\* In particular the query always finds a list that can be sorted, and no
\* listener that is not there is removed.
THEOREM TypeCorrect == Spec => []TypeOK
<1>1. Init => Kept /\ Counted
  BY InitKept, MessagingAssumption DEF Init, Counted
<1>2. Kept /\ Counted /\ [Next]_vars => Kept' /\ Counted'
  <2> SUFFICES ASSUME Kept, Counted, [Next]_vars PROVE Counted'
    BY NextKept
  <2>1. CASE Done \/ UNCHANGED vars
    BY <2>1 DEF Done, vars, Counted
  <2> QED BY <2>1, CountedSending, CountedScreens, CountedAnswers DEF Next, Kept
<1>3. Kept /\ Counted => TypeOK
  BY DEF Kept, Inv, Queues, CopiesKept, Boxes, Counted, TypeOK
<1> QED BY <1>1, <1>2, <1>3, PTL DEF Spec
==============================================================================
