----------------------- MODULE FirestoreClientProofs -----------------------
(***************************************************************************)
(* Proofs about FirestoreClient, for any accounts, writes, failures and    *)
(* restarts, and any size of the pipeline.  The invariant says what every  *)
(* message under way stands for: which batch of the pipeline an answer     *)
(* settles, in whose name a task of the worker queue will run, and which   *)
(* of the tokens asked for is the one the stream waits for.                *)
(***************************************************************************)
EXTENDS FirestoreClient, SequenceTheorems, TLAPS

States == {"Initial", "Starting", "Open", "Error", "Backoff"}

Increasing(q) == \A i, j \in DOMAIN q : i < j => q[i].id < q[j].id

\* The writes for which, and for those after which, nothing has been done yet.
FreshWrites ==
  {w \in Nat :
     /\ nextId <= w
     /\ \A u \in Users : \A i \in DOMAIN queue[u] : queue[u][i].write < w
     /\ \A i \in DOMAIN log : log[i].write < w
     /\ \A v \in Writes : told[v] # "nothing" => v < w}

\* The mutation queues, and the callbacks of batches that are in them.
Stored ==
  /\ \A u \in Users : Increasing(queue[u])
  /\ \A u \in Users : \A i \in DOMAIN queue[u] : queue[u][i].id < nextId
  /\ \A c \in callbacks : \E i \in DOMAIN queue[c.user] :
       queue[c.user][i] = [id |-> c.id, write |-> c.write]
  /\ PipelineIsPrefix

\* The write tasks run in the order of their numbers.
TasksInOrder ==
  /\ Len(writer) + 1 \in FreshWrites
  /\ \A i \in DOMAIN worker : worker[i].type = "write" =>
       /\ worker[i].write <= Len(writer)
       /\ worker[i].write \in FreshWrites
       /\ \A j \in DOMAIN worker :
            i < j /\ worker[j].type = "write" => worker[i].write < worker[j].write

\* A connection before its handshake.
Greeting ==
  \/ toServer = <<Hello>> /\ toClient = <<>>
  \/ toServer = <<>> /\ toClient \in {<<Hello>>, <<Hello, Failure>>, <<Failure>>, <<Refusal(0)>>}

\* The answers that say what the service did.
Truths ==
  {a \in Answers :
     /\ a.type = "result" => a.version \in DOMAIN log /\ log[a.version].write = a.write
     /\ a.type = "refused" => a.write \in refused}

\* A connection after its handshake: the answers are for the first batches of
\* the pipeline, the requests are the others, until the connection has ended.
Dialogue ==
  /\ \A i \in DOMAIN toClient :
       /\ toClient[i].type # "hello"
       /\ toClient[i].type # "failed" =>
            /\ i \in DOMAIN pipeline /\ pipeline[i].write = toClient[i].write
            /\ toClient[i] \in Truths
       /\ toClient[i].type # "result" => i = Len(toClient)
  /\ ~Ended =>
       /\ Len(toClient) + Len(toServer) = Len(pipeline)
       /\ \A j \in DOMAIN toServer : toServer[j] = Mutations(pipeline[Len(toClient) + j])

Connection ==
  /\ stream # "Open" => toServer = <<>> /\ toClient = <<>> /\ ~handshake
  /\ stream = "Open" => account = user
  /\ stream = "Open" /\ ~handshake => Greeting
  /\ handshake => Dialogue
  /\ idle => handshake /\ pipeline = <<>>

\* Of all the tokens asked for, one at most is for the stream of this moment.
CurrentToken(task) == task.type = "token" /\ task.current

TokensCurrent ==
  /\ TRUE \in asks => stream = "Starting"
  /\ \A i \in DOMAIN worker : CurrentToken(worker[i]) =>
       /\ stream = "Starting"
       /\ TRUE \notin asks
       /\ \A j \in DOMAIN worker : CurrentToken(worker[j]) => i = j

\* u is the user when the task at i of the tasks ws runs, from a on.
Acting(ws, a, i, u) ==
  \/ u = a /\ \A k \in 1..(i - 1) : ws[k].type # "credential"
  \/ \E k \in 1..(i - 1) :
       /\ ws[k].type = "credential" /\ ws[k].user = u
       /\ \A m \in (k + 1)..(i - 1) : ws[m].type # "credential"

TasksNamed ==
  /\ Acting(worker, user, Len(worker) + 1, auth)
  /\ \A i \in DOMAIN worker :
       /\ worker[i].type = "write" => Acting(worker, user, i, writer[worker[i].write])
       /\ worker[i].type = "token" => Acting(worker, user, i, worker[i].user)

\* Every batch waits, and was applied, in the name of the account that made it.
Owned ==
  /\ \A u \in Users : \A i \in DOMAIN queue[u] :
       queue[u][i].write \in DOMAIN writer /\ writer[queue[u][i].write] = u
  /\ \A i \in DOMAIN log : log[i].write \in DOMAIN writer
  /\ InCallersName

Seen == cached <= Len(log) /\ ToldIsSeen

Inv ==
  /\ TypeOK
  /\ Stored
  /\ TasksInOrder
  /\ Connection
  /\ TokensCurrent
  /\ TasksNamed
  /\ Owned
  /\ Seen
------------------------------------------------------------------------------
(* Queues and the pipeline *)

LEMMA PrefixIs ==
  ASSUME NEW S, NEW p \in Seq(S), NEW q \in Seq(S)
  PROVE  IsPrefix(p, q) <=> Len(p) <= Len(q) /\ \A i \in 1..Len(p) : p[i] = q[i]
<1>1. SubSeq(p, 1, Len(p)) = p
  BY SubSeqFull
<1>2. ASSUME Len(p) <= Len(q)
      PROVE  /\ SubSeq(q, 1, Len(p)) \in Seq(S)
             /\ Len(SubSeq(q, 1, Len(p))) = Len(p)
             /\ \A i \in 1..Len(p) : SubSeq(q, 1, Len(p))[i] = q[i]
  BY <1>2
<1>3. ASSUME Len(p) <= Len(q), \A i \in 1..Len(p) : p[i] = q[i]
      PROVE  p = SubSeq(q, 1, Len(p))
  BY <1>2, <1>3, SeqEqual
<1>. QED  BY <1>1, <1>2, <1>3 DEF IsPrefix

LEMMA BatchFields ==
  ASSUME NEW q \in Seq(Batches), NEW i \in DOMAIN q
  PROVE  q[i] \in Batches /\ q[i].id \in Nat \ {0} /\ q[i].write \in Writes
<1>1. q[i] \in Batches
  OBVIOUS
<1>. QED  BY <1>1, FirestoreClientAssumption DEF Batches, BatchIds

\* The batches that join the pipeline follow those that are in it.
LEMMA Following ==
  ASSUME NEW q \in Seq(Batches), Increasing(q), NEW p \in Seq(Batches),
         IsPrefix(p, q), Len(p) <= MaxPending
  PROVE  /\ NextBatches(p, q) \in Seq(Batches)
         /\ IsPrefix(p \o NextBatches(p, q), q)
         /\ Len(p) + Len(NextBatches(p, q)) <= MaxPending
         /\ q # <<>> => p \o NextBatches(p, q) # <<>>
<1>1. Len(p) <= Len(q) /\ \A i \in 1..Len(p) : p[i] = q[i]
  BY PrefixIs
<1>2. \A i \in DOMAIN q : q[i].id \in Nat \ {0}
  BY BatchFields
<1>3. \A i \in DOMAIN q : i <= Len(p) <=> q[i].id <= LastId(p)
  <2>1. CASE p = <<>>
    BY <2>1, <1>2 DEF LastId
  <2>2. CASE p # <<>>
    <3>1. Len(p) \in DOMAIN q /\ LastId(p) = q[Len(p)].id
      BY <2>2, <1>1 DEF LastId
    <3>. QED  BY <3>1, <1>2 DEF Increasing
  <2>. QED  BY <2>1, <2>2
<1>4. Taken(p, q) = Len(p)
  <2>1. Len(p) \in 0..Len(q)
    BY <1>1
  <2>2. ASSUME NEW n \in 0..Len(q), \A i \in DOMAIN q : i <= n <=> q[i].id <= LastId(p)
        PROVE  n = Len(p)
    BY <1>1, <1>3, <2>2
  <2>. QED  BY <2>1, <2>2, <1>3 DEF Taken
<1> DEFINE end == IF MaxPending < Len(q) THEN MaxPending ELSE Len(q)
           new == NextBatches(p, q)
<1>5. end \in Len(p)..Len(q) /\ end <= MaxPending /\ (q # <<>> => end # 0)
  BY <1>1, FirestoreClientAssumption
<1>6. new = SubSeq(q, Len(p) + 1, end)
  BY <1>4, FirestoreClientAssumption DEF NextBatches
<1> HIDE DEF end, new
<1>7. /\ new \in Seq(Batches) /\ Len(new) = end - Len(p)
      /\ \A i \in 1..Len(new) : new[i] = q[Len(p) + i]
  BY <1>5, <1>6
<1>8. /\ p \o new \in Seq(Batches) /\ Len(p \o new) = end
      /\ \A i \in 1..end : (p \o new)[i] = q[i]
  BY <1>1, <1>5, <1>7
<1>9. IsPrefix(p \o new, q)
  <2>1. Len(p \o new) <= Len(q) /\ \A i \in 1..Len(p \o new) : (p \o new)[i] = q[i]
    BY <1>1, <1>5, <1>8
  <2>. QED  BY <1>8, <2>1, PrefixIs
<1>. QED  BY <1>5, <1>7, <1>8, <1>9 DEF new

\* The first batch of the pipeline is the first of the queue, and is the one
\* that RemoveMutationBatch finds.
LEMMA Removed ==
  ASSUME NEW q \in Seq(Batches), Increasing(q), NEW p \in Seq(Batches),
         IsPrefix(p, q), p # <<>>
  PROVE  /\ q # <<>> /\ Head(p) = q[1]
         /\ Without(q, Head(p).id) = Tail(q)
         /\ Tail(q) \in Seq(Batches) /\ Increasing(Tail(q))
         /\ Tail(p) \in Seq(Batches) /\ IsPrefix(Tail(p), Tail(q))
<1>1. Len(p) <= Len(q) /\ \A i \in 1..Len(p) : p[i] = q[i]
  BY PrefixIs
<1>2. Len(p) # 0 /\ Head(p) = q[1] /\ q # <<>>
  BY <1>1
<1>3. \A i \in DOMAIN q : q[i].id = q[1].id => i = 1
  <2>1. 1 \in DOMAIN q /\ \A i \in DOMAIN q : i \in Nat /\ (i = 1 \/ 1 < i) /\ q[i].id \in Nat
    BY <1>2, BatchFields
  <2>. QED  BY <2>1 DEF Increasing
<1>4. (CHOOSE i \in DOMAIN q : q[i].id = Head(p).id) = 1
  <2>1. 1 \in DOMAIN q
    BY <1>2
  <2>. QED  BY <1>2, <1>3, <2>1
<1>5. Without(q, Head(p).id) = SubSeq(q, 1, 0) \o SubSeq(q, 2, Len(q))
  <2>1. Without(q, Head(p).id) = RemoveAt(q, 1)
    BY <1>4 DEF Without
  <2>. QED  BY <2>1 DEF RemoveAt
<1>6. Tail(q) \in Seq(Batches) /\ SubSeq(q, 1, 0) = <<>> /\ SubSeq(q, 2, Len(q)) = Tail(q)
  BY <1>2, TailIsSubSeq, SubSeqEmpty, HeadTailProperties
<1>7. Without(q, Head(p).id) = Tail(q)
  BY <1>5, <1>6, ConcatEmptySeq
<1>8. Tail(p) \in Seq(Batches) /\ Len(Tail(p)) = Len(p) - 1 /\ Len(Tail(q)) = Len(q) - 1
      /\ (\A i \in 1..(Len(p) - 1) : Tail(p)[i] = p[i + 1])
      /\ (\A i \in 1..(Len(q) - 1) : Tail(q)[i] = q[i + 1])
  BY <1>2, HeadTailProperties
<1>9. IsPrefix(Tail(p), Tail(q))
  <2>1. Len(Tail(p)) <= Len(Tail(q)) /\ \A i \in 1..Len(Tail(p)) : Tail(p)[i] = Tail(q)[i]
    BY <1>1, <1>2, <1>8
  <2>. QED  BY <1>6, <1>8, <2>1, PrefixIs
<1>10. Increasing(Tail(q))
  <2> DEFINE r == Tail(q)
  <2>1. \A i \in DOMAIN r : i \in Nat /\ i + 1 \in DOMAIN q /\ r[i] = q[i + 1]
    BY <1>6, <1>8
  <2> HIDE DEF r
  <2>2. ASSUME NEW i \in DOMAIN r, NEW j \in DOMAIN r, i < j
        PROVE  r[i].id < r[j].id
    <3>1. i + 1 < j + 1
      BY <2>1, <2>2
    <3>2. q[i + 1].id < q[j + 1].id
      BY <2>1, <3>1 DEF Increasing
    <3>. QED  BY <2>1, <3>2
  <2>3. Increasing(r)
    BY <2>2 DEF Increasing
  <2>. QED  BY <2>3 DEF r
<1>. QED  BY <1>2, <1>6, <1>7, <1>8, <1>9, <1>10

\* What FillWritePipeline leaves, whatever the pipeline and the stream were.
LEMMA Filled ==
  ASSUME NEW q \in Seq(Batches), Increasing(q), NEW p \in Seq(Batches),
         IsPrefix(p, q), Len(p) <= MaxPending,
         NEW s \in States, NEW pending \in SUBSET BOOLEAN,
         FillWritePipeline(p, q, s, pending)
  PROVE  /\ pipeline' = p \o NextBatches(p, q)
         /\ pipeline' \in Seq(Batches) /\ Len(pipeline') <= MaxPending
         /\ IsPrefix(pipeline', q)
         /\ stream' \in States /\ asks' \subseteq BOOLEAN /\ idle' \in BOOLEAN
         /\ Started(s) => stream' = s /\ asks' = pending
         /\ ~Started(s) => stream' # "Open"
         /\ TRUE \in asks' => TRUE \in pending \/ stream' = "Starting"
         /\ s # "Open" => toServer' = <<>> /\ idle' = FALSE
         /\ idle' /\ (idle => handshake /\ p = <<>>) => pipeline' = <<>>
<1> DEFINE new == NextBatches(p, q)
<1>1. /\ new \in Seq(Batches) /\ p \o new \in Seq(Batches)
      /\ IsPrefix(p \o new, q) /\ Len(p \o new) <= MaxPending
  BY Following
<1>2. pipeline' = p \o new
  BY DEF FillWritePipeline
<1>3. stream' \in States /\ asks' \subseteq BOOLEAN /\ idle' \in BOOLEAN
  BY DEF FillWritePipeline, States
<1>4. /\ Started(s) => stream' = s /\ asks' = pending
      /\ ~Started(s) => stream' # "Open"
      /\ TRUE \in asks' => TRUE \in pending \/ stream' = "Starting"
      /\ s # "Open" => toServer' = <<>> /\ idle' = FALSE
  BY DEF FillWritePipeline, Started
<1>5. ASSUME idle', idle => handshake /\ p = <<>>
      PROVE  pipeline' = <<>>
  <2>1. CASE p \o new = <<>>
    BY <1>2, <2>1
  <2>2. CASE p \o new # <<>>
    <3>1. s = "Open" /\ idle /\ ~CancelsIdleCheck(s, new)
      BY <1>5, <2>2 DEF FillWritePipeline
    <3>2. new = <<>> /\ p = <<>>
      BY <1>5, <3>1 DEF CancelsIdleCheck, Ready
    <3>. QED  BY <1>2, <3>2
  <2>. QED  BY <2>1, <2>2
<1>. QED  BY <1>1, <1>2, <1>3, <1>4, <1>5

\* On an open stream the new batches are sent, unless it is not greeted yet.
LEMMA Sent ==
  ASSUME NEW q \in Seq(Batches), Increasing(q), NEW p \in Seq(Batches),
         IsPrefix(p, q), Len(p) <= MaxPending, NEW pending,
         FillWritePipeline(p, q, "Open", pending), toServer \in Seq(Requests)
  PROVE  /\ ~handshake => toServer' = toServer
         /\ handshake =>
              /\ toServer' \in Seq(Requests)
              /\ Len(toServer') = Len(toServer) + Len(pipeline') - Len(p)
              /\ \A i \in 1..Len(toServer) : toServer'[i] = toServer[i]
              /\ \A i \in 1..(Len(pipeline') - Len(p)) :
                   toServer'[Len(toServer) + i] = Mutations(pipeline'[Len(p) + i])
<1> DEFINE new == NextBatches(p, q)
           sent == [i \in DOMAIN new |-> Mutations(new[i])]
<1>1. new \in Seq(Batches) /\ pipeline' = p \o new
  BY Following DEF FillWritePipeline
<1>2. /\ ~handshake => toServer' = toServer
      /\ handshake => toServer' = toServer \o sent
  BY DEF FillWritePipeline, Ready
<1>3. DOMAIN new = 1..Len(new) /\ Len(new) \in Nat
  BY <1>1
<1>4. \A i \in DOMAIN new : Mutations(new[i]) \in Requests
  BY <1>1, BatchFields DEF Mutations, Requests
<1>5. sent \in Seq(Requests) /\ Len(sent) = Len(new)
      /\ \A i \in 1..Len(new) : sent[i] = Mutations(new[i])
  BY <1>3, <1>4
<1>6. Len(pipeline') = Len(p) + Len(new)
      /\ \A i \in 1..Len(new) : pipeline'[Len(p) + i] = new[i]
  BY <1>1
<1> HIDE DEF new, sent
<1>7. /\ toServer \o sent \in Seq(Requests)
      /\ Len(toServer \o sent) = Len(toServer) + Len(sent)
      /\ \A i \in 1..Len(toServer) : (toServer \o sent)[i] = toServer[i]
      /\ \A i \in 1..Len(sent) : (toServer \o sent)[Len(toServer) + i] = sent[i]
  <2>1. /\ toServer \o sent \in Seq(Requests)
        /\ Len(toServer \o sent) = Len(toServer) + Len(sent)
        /\ \A i \in 1..(Len(toServer) + Len(sent)) :
             (toServer \o sent)[i] = IF i <= Len(toServer) THEN toServer[i]
                                      ELSE sent[i - Len(toServer)]
    BY <1>5, ConcatProperties
  <2>. QED  BY <1>5, <2>1
<1>8. Len(p) \in Nat /\ Len(pipeline') - Len(p) = Len(new)
  BY <1>3, <1>6
<1>9. CASE handshake
  <2>1. toServer' = toServer \o sent
    BY <1>2, <1>9
  <2>2. \A i \in 1..Len(new) :
          toServer'[Len(toServer) + i] = Mutations(pipeline'[Len(p) + i])
    BY <1>5, <1>6, <1>7, <2>1
  <2>. QED  BY <1>3, <1>5, <1>7, <1>8, <1>9, <2>1, <2>2
<1>. QED  BY <1>2, <1>9

\* A connection that is given up.
LEMMA Closed ==
  ASSUME Disconnect, toServer' = <<>>, stream' # "Open", idle' = FALSE
  PROVE  Connection'
BY DEF Connection, Disconnect

LEMMA Reopened ==
  ASSUME NEW q \in Seq(Batches), Increasing(q), NEW p \in Seq(Batches),
         IsPrefix(p, q), Len(p) <= MaxPending,
         NEW pending \in SUBSET {FALSE}, Disconnect,
         FillWritePipeline(p, q, "Initial", pending)
  PROVE  /\ pipeline' \in Seq(Batches) /\ Len(pipeline') <= MaxPending
         /\ IsPrefix(pipeline', q)
         /\ stream' \in States /\ asks' \subseteq BOOLEAN /\ idle' \in BOOLEAN
         /\ TRUE \in asks' => stream' = "Starting"
         /\ toServer' = <<>> /\ toClient' = <<>>
         /\ Connection'
<1>1. ~Started("Initial") /\ "Initial" \in States /\ pending \subseteq BOOLEAN
  BY DEF Started, States
<1>2. /\ pipeline' \in Seq(Batches) /\ Len(pipeline') <= MaxPending
      /\ IsPrefix(pipeline', q)
      /\ stream' \in States /\ asks' \subseteq BOOLEAN /\ idle' \in BOOLEAN
      /\ TRUE \in asks' => stream' = "Starting"
      /\ toServer' = <<>> /\ idle' = FALSE /\ stream' # "Open"
  BY <1>1, Filled
<1>. QED  BY <1>2, Closed DEF Disconnect

LEMMA NoPipeline ==
  ASSUME NEW q \in Seq(Batches)
  PROVE  <<>> \in Seq(Batches) /\ IsPrefix(<<>>, q) /\ Len(<<>>) <= MaxPending
<1>1. <<>> \in Seq(Batches) /\ Len(<<>>) = 0
  BY EmptySeq
<1>2. Len(q) \in Nat
  OBVIOUS
<1>3. SubSeq(<<>>, 1, 0) = <<>> /\ SubSeq(q, 1, 0) = <<>>
  BY SubSeqEmpty
<1>4. IsPrefix(<<>>, q)
  BY <1>1, <1>2, <1>3 DEF IsPrefix
<1>. QED  BY <1>1, <1>4, FirestoreClientAssumption

------------------------------------------------------------------------------
(* Tasks *)

LEMMA TaskKinds ==
  ASSUME NEW task \in Tasks
  PROVE  /\ task.type \in {"write", "credential", "token"}
         /\ task.type = "write" => task.write \in Writes
         /\ task.type \in {"credential", "token"} => task.user \in Users
         /\ task.type = "token" =>
              task.current \in BOOLEAN /\ task \in [type : {"token"}, user : Users, ok : BOOLEAN, current : BOOLEAN]
BY DEF Tasks

LEMMA OutdatedAre ==
  ASSUME NEW ws \in Seq(Tasks)
  PROVE  /\ OutdatedTasks(ws) \in Seq(Tasks)
         /\ Len(OutdatedTasks(ws)) = Len(ws)
         /\ \A i \in DOMAIN ws :
              LET t == OutdatedTasks(ws)[i] IN
              /\ t.type = ws[i].type
              /\ ~CurrentToken(t)
              /\ t.type = "write" => t.write = ws[i].write
              /\ t.type # "write" => t.user = ws[i].user
<1> DEFINE r == OutdatedTasks(ws)
<1>1. DOMAIN r = 1..Len(ws) /\ DOMAIN ws = 1..Len(ws)
      /\ \A i \in DOMAIN ws :
           r[i] = IF ws[i].type = "token" THEN [ws[i] EXCEPT !.current = FALSE] ELSE ws[i]
  BY DEF OutdatedTasks
<1>2. ASSUME NEW i \in DOMAIN ws
      PROVE  /\ r[i] \in Tasks
             /\ r[i].type = ws[i].type
             /\ ~CurrentToken(r[i])
             /\ r[i].type = "write" => r[i].write = ws[i].write
             /\ r[i].type # "write" => r[i].user = ws[i].user
  <2>1. ws[i] \in Tasks
    OBVIOUS
  <2>2. CASE ws[i].type = "token"
    <3>1. r[i] = [ws[i] EXCEPT !.current = FALSE]
      BY <1>1, <2>2
    <3>2. ws[i] \in [type : {"token"}, user : Users, ok : BOOLEAN, current : BOOLEAN]
      BY <2>1, <2>2, TaskKinds
    <3>3. r[i] \in [type : {"token"}, user : Users, ok : BOOLEAN, current : BOOLEAN]
          /\ r[i].type = "token" /\ r[i].user = ws[i].user /\ r[i].current = FALSE
      BY <3>1, <3>2
    <3>. QED  BY <2>2, <3>3 DEF Tasks, CurrentToken
  <2>3. CASE ws[i].type # "token"
    BY <1>1, <2>1, <2>3 DEF CurrentToken
  <2>. QED  BY <2>2, <2>3
<1>3. r \in [1..Len(ws) -> Tasks] /\ Len(ws) \in Nat
  BY <1>1, <1>2 DEF OutdatedTasks
<1>4. r \in Seq(Tasks) /\ Len(r) = Len(ws)
  BY <1>3
<1>. QED  BY <1>2, <1>4

\* Who acts at i does not depend on what follows, nor on the tokens.
LEMMA ActingLike ==
  ASSUME NEW ws \in Seq(Tasks), NEW rs \in Seq(Tasks), Len(ws) <= Len(rs),
         \A k \in 1..Len(ws) :
           /\ rs[k].type = ws[k].type
           /\ ws[k].type = "credential" => rs[k].user = ws[k].user,
         NEW i \in 1..(Len(ws) + 1), NEW a, NEW u, Acting(ws, a, i, u)
  PROVE  Acting(rs, a, i, u)
<1>1. \A k \in 1..(i - 1) : k \in 1..Len(ws)
  OBVIOUS
<1>2. CASE u = a /\ \A k \in 1..(i - 1) : ws[k].type # "credential"
  BY <1>1, <1>2 DEF Acting
<1>3. ASSUME NEW k \in 1..(i - 1), ws[k].type = "credential", ws[k].user = u,
             \A m \in (k + 1)..(i - 1) : ws[m].type # "credential"
      PROVE  Acting(rs, a, i, u)
  <2>1. rs[k].type = "credential" /\ rs[k].user = u
    BY <1>1, <1>3
  <2>2. \A m \in (k + 1)..(i - 1) : rs[m].type # "credential"
    BY <1>1, <1>3
  <2>. QED  BY <2>1, <2>2 DEF Acting
<1>. QED  BY <1>2, <1>3 DEF Acting

\* The first task runs: a credential task makes its user the current one.
LEMMA ActingTail ==
  ASSUME NEW ws \in Seq(Tasks), ws # <<>>, NEW a, NEW b,
         b = IF Head(ws).type = "credential" THEN Head(ws).user ELSE a,
         NEW i \in 1..Len(ws), NEW u, Acting(ws, a, i + 1, u)
  PROVE  Acting(Tail(ws), b, i, u)
<1>1. /\ Tail(ws) \in Seq(Tasks) /\ Len(Tail(ws)) = Len(ws) - 1
      /\ \A k \in 1..(Len(ws) - 1) : Tail(ws)[k] = ws[k + 1]
      /\ Head(ws) = ws[1] /\ Len(ws) \in Nat
  BY HeadTailProperties
<1>2. CASE u = a /\ \A k \in 1..i : ws[k].type # "credential"
  <2>1. b = a
    BY <1>1, <1>2
  <2>2. \A k \in 1..(i - 1) : Tail(ws)[k].type # "credential"
    BY <1>1, <1>2
  <2>. QED  BY <1>2, <2>1, <2>2 DEF Acting
<1>3. ASSUME NEW k \in 1..i, ws[k].type = "credential", ws[k].user = u,
             \A m \in (k + 1)..i : ws[m].type # "credential"
      PROVE  Acting(Tail(ws), b, i, u)
  <2>1. CASE k = 1
    <3>1. b = u
      BY <1>1, <1>3, <2>1
    <3>2. \A m \in 1..(i - 1) : Tail(ws)[m].type # "credential"
      BY <1>1, <1>3, <2>1
    <3>. QED  BY <3>1, <3>2 DEF Acting
  <2>2. CASE k # 1
    <3>1. k - 1 \in 1..(i - 1) /\ Tail(ws)[k - 1] = ws[k]
      BY <1>1, <2>2
    <3>2. \A m \in k..(i - 1) : Tail(ws)[m].type # "credential"
      BY <1>1, <1>3
    <3>. QED  BY <1>3, <3>1, <3>2 DEF Acting
  <2>. QED  BY <2>1, <2>2
<1>4. i + 1 - 1 = i
  OBVIOUS
<1>. QED  BY <1>2, <1>3, <1>4 DEF Acting

LEMMA Shortened ==
  ASSUME NEW ws \in Seq(Tasks), ws # <<>>
  PROVE  /\ Head(ws) = ws[1] /\ ws[1] \in Tasks
         /\ Tail(ws) \in Seq(Tasks) /\ Len(Tail(ws)) = Len(ws) - 1 /\ Len(ws) \in Nat
         /\ \A i \in DOMAIN Tail(ws) : i + 1 \in DOMAIN ws /\ Tail(ws)[i] = ws[i + 1]
<1>1. /\ Tail(ws) \in Seq(Tasks) /\ Len(Tail(ws)) = Len(ws) - 1 /\ Len(ws) \in Nat
      /\ \A i \in 1..Len(Tail(ws)) : Tail(ws)[i] = ws[i + 1]
      /\ Len(ws) # 0
  BY HeadTailProperties
<1>2. Head(ws) = ws[1] /\ ws[1] \in Tasks
  BY <1>1
<1>. QED  BY <1>1, <1>2

\* What the tasks are after a stream is closed: none of the tokens counts.
LEMMA Outdates ==
  ASSUME NEW ws \in Seq(Tasks), worker' = OutdatedTasks(ws)
  PROVE  /\ worker' \in Seq(Tasks) /\ DOMAIN worker' = DOMAIN ws /\ Len(worker') = Len(ws)
         /\ \A i \in DOMAIN worker' :
              /\ worker'[i].type = ws[i].type
              /\ ~CurrentToken(worker'[i])
              /\ worker'[i].type = "write" => worker'[i].write = ws[i].write
              /\ worker'[i].type # "write" => worker'[i].user = ws[i].user
BY OutdatedAre

------------------------------------------------------------------------------
(* Answers *)

\* The answer that settles a batch is for the first of the pipeline, which is
\* the first of the user's queue.
LEMMA AnswerIs ==
  ASSUME Inv, toClient # <<>>,
         \/ Head(toClient).type = "result"
         \/ PermanentError(Head(toClient)) /\ handshake
  PROVE  /\ stream = "Open" /\ handshake /\ idle = FALSE
         /\ Head(toClient) = toClient[1] /\ Head(toClient) \in Truths
         /\ pipeline # <<>> /\ Head(pipeline).write = Head(toClient).write
         /\ queue[user] # <<>> /\ queue[user] \in Seq(Batches)
         /\ Head(pipeline) = queue[user][1] /\ queue[user][1] \in Batches
         /\ Without(queue[user], Head(pipeline).id) = Tail(queue[user])
         /\ Tail(queue[user]) \in Seq(Batches) /\ Increasing(Tail(queue[user]))
         /\ Tail(pipeline) \in Seq(Batches)
         /\ Len(Tail(pipeline)) = Len(pipeline) - 1
         /\ IsPrefix(Tail(pipeline), Tail(queue[user]))
<1>1. toClient \in Seq(Answers) /\ Head(toClient) = toClient[1] /\ 1 \in DOMAIN toClient
  BY DEF Inv, TypeOK
<1>2. stream = "Open"
  BY DEF Inv, Connection
<1>3. handshake
  <2>1. CASE Head(toClient).type = "result" /\ ~handshake
    <3>1. Greeting
      BY <1>2, <2>1 DEF Inv, Connection
    <3>2. toClient[1] \in {Hello, Failure, Refusal(0)}
      BY <3>1 DEF Greeting
    <3>. QED  BY <1>1, <2>1, <3>2 DEF Hello, Failure, Refusal
  <2>. QED  BY <2>1 DEF Inv, TypeOK
<1>4. Head(toClient).type \in {"result", "refused"}
  BY DEF PermanentError
<1>5. /\ 1 \in DOMAIN pipeline /\ pipeline[1].write = toClient[1].write
      /\ toClient[1] \in Truths
  BY <1>1, <1>3, <1>4 DEF Inv, Connection, Dialogue
<1>6. pipeline \in Seq(Batches) /\ pipeline # <<>> /\ Head(pipeline) = pipeline[1]
  BY <1>5 DEF Inv, TypeOK
<1>7. /\ queue[user] \in Seq(Batches) /\ Increasing(queue[user])
      /\ IsPrefix(pipeline, queue[user])
  BY DEF Inv, TypeOK, Stored, PipelineIsPrefix
<1>8. Len(Tail(pipeline)) = Len(pipeline) - 1
  BY <1>6, HeadTailProperties
<1>9. queue[user] # <<>> /\ queue[user][1] \in Batches
  BY <1>6, <1>7, Removed, BatchFields
<1>10. idle = FALSE
  BY <1>6 DEF Inv, TypeOK, Connection
<1>. QED  BY <1>1, <1>2, <1>3, <1>5, <1>6, <1>7, <1>8, <1>9, <1>10, Removed

\* The callback that is called is that of the batch that is settled.
LEMMA Notified ==
  ASSUME Inv, queue[user] # <<>>, NEW verdict \in {"ok", "refused"},
         NotifyUser(queue[user][1].id, verdict)
  PROVE  /\ told' \in {told, [told EXCEPT ![queue[user][1].write] = verdict]}
         /\ told' \in [Writes -> {"nothing", "ok", "refused"}]
         /\ callbacks' \subseteq callbacks
         /\ \A c \in callbacks' : c.user = user => c.id # queue[user][1].id
<1> DEFINE b == queue[user][1]
<1>1. /\ queue[user] \in Seq(Batches) /\ Increasing(queue[user]) /\ 1 \in DOMAIN queue[user]
  BY DEF Inv, TypeOK, Stored
<1>2. b.write \in Writes
  BY <1>1, BatchFields
<1>3. ASSUME NEW c \in Registered(b.id) PROVE c.write = b.write
  <2>1. PICK i \in DOMAIN queue[user] : queue[user][i] = [id |-> c.id, write |-> c.write]
    BY DEF Registered, Inv, Stored
  <2>2. queue[user][i].id = b.id /\ queue[user][i].write = c.write
    BY <2>1 DEF Registered
  <2>3. i \in Nat /\ ~(1 < i) /\ i >= 1
    BY <1>1, <2>2, BatchFields DEF Increasing
  <2>. QED  BY <2>2, <2>3
<1>4. told \in [Writes -> {"nothing", "ok", "refused"}]
  BY DEF Inv, TypeOK
<1>5. /\ callbacks' \subseteq callbacks
      /\ \A c \in callbacks' : c.user = user => c.id # b.id
  BY DEF NotifyUser, Registered
<1>6. CASE Registered(b.id) = {}
  <2>1. told' = [w \in Writes |-> told[w]]
    BY <1>6 DEF NotifyUser
  <2>2. told' = told
    BY <2>1, <1>4
  <2>. QED  BY <1>4, <1>5, <2>2
<1>7. CASE Registered(b.id) # {}
  <2>1. \A w \in Writes : (\E c \in Registered(b.id) : c.write = w) <=> w = b.write
    BY <1>3, <1>7
  <2>2. told' = [w \in Writes |-> IF w = b.write THEN verdict ELSE told[w]]
    BY <2>1 DEF NotifyUser
  <2>3. told' = [told EXCEPT ![b.write] = verdict]
    BY <1>4, <2>2
  <2>4. told' \in [Writes -> {"nothing", "ok", "refused"}]
    BY <1>4, <2>3
  <2>. QED  BY <1>5, <2>3, <2>4
<1>. QED  BY <1>6, <1>7

\* A version the watch stream or an answer brings never takes one away.
LEMMA NewerIs ==
  ASSUME cached \in Nat, NEW v \in Nat
  PROVE  Newer(v) \in Nat /\ Newer(v) >= cached /\ Newer(v) >= v /\ Newer(v) \in {cached, v}
BY DEF Newer

------------------------------------------------------------------------------
(* What the actions that start the stream or move the pipeline leave *)

\* A write becomes the youngest batch of the current user.
LEMMA RunWriteDoes ==
  ASSUME Inv, RunWrite
  PROVE  LET w == worker[1].write
             q == Append(queue[user], [id |-> nextId, write |-> w])
         IN
         /\ worker # <<>> /\ worker[1].type = "write" /\ w \in Writes
         /\ w <= Len(writer) /\ w \in FreshWrites
         /\ nextId + 1 \in BatchIds
         /\ q \in Seq(Batches) /\ q # <<>> /\ Increasing(q) /\ IsPrefix(pipeline, q)
         /\ queue' = [queue EXCEPT ![user] = q] /\ queue' \in [Users -> Seq(Batches)]
         /\ callbacks' = callbacks \cup {[user |-> user, id |-> nextId, write |-> w]}
         /\ FillWritePipeline(pipeline, q, stream, asks)
<1> DEFINE w == worker[1].write
           b == [id |-> nextId, write |-> w]
           q == Append(queue[user], b)
<1>1. worker # <<>> /\ worker[1].type = "write" /\ 1 \in DOMAIN worker /\ Head(worker) = worker[1]
  BY Shortened DEF RunWrite, Inv, TypeOK
<1>2. w \in Writes /\ w <= Len(writer) /\ w \in FreshWrites
  BY <1>1, TaskKinds DEF Inv, TypeOK, TasksInOrder
<1>3. nextId \in BatchIds /\ nextId <= w
  BY <1>2 DEF FreshWrites, Inv, TypeOK
<1>4. nextId + 1 \in BatchIds
  BY <1>2, <1>3, FirestoreClientAssumption DEF BatchIds, Writes
<1>5. queue[user] \in Seq(Batches) /\ queue \in [Users -> Seq(Batches)] /\ user \in Users
  BY DEF Inv, TypeOK
<1>6. b \in Batches
  BY <1>2, <1>3 DEF Batches
<1>7. /\ q \in Seq(Batches) /\ q # <<>> /\ Len(q) = Len(queue[user]) + 1
      /\ \A i \in 1..Len(queue[user]) : q[i] = queue[user][i]
      /\ q[Len(queue[user]) + 1] = b
  BY <1>5, <1>6, AppendProperties
<1>8. Increasing(q)
  <2>1. \A i \in DOMAIN queue[user] : queue[user][i].id < nextId /\ queue[user][i].id \in Nat
    BY <1>5, BatchFields DEF Inv, Stored
  <2>2. Increasing(queue[user])
    BY <1>5 DEF Inv, Stored
  <2>3. ASSUME NEW i \in DOMAIN q, NEW j \in DOMAIN q, i < j
        PROVE  q[i].id < q[j].id
    <3>1. CASE j \in DOMAIN queue[user]
      BY <1>5, <1>7, <2>2, <2>3, <3>1 DEF Increasing
    <3>2. CASE j = Len(queue[user]) + 1
      <4>1. i \in DOMAIN queue[user] /\ q[i] = queue[user][i] /\ q[j].id = nextId
        BY <1>5, <1>7, <2>3, <3>2
      <4>. QED  BY <2>1, <4>1
    <3>. QED  BY <1>5, <1>7, <3>1, <3>2
  <2>. QED  BY <2>3 DEF Increasing
<1>9. IsPrefix(pipeline, q)
  <2>1. pipeline \in Seq(Batches) /\ IsPrefix(pipeline, queue[user])
    BY DEF Inv, TypeOK, Stored, PipelineIsPrefix
  <2>2. Len(pipeline) <= Len(queue[user]) /\ \A i \in 1..Len(pipeline) : pipeline[i] = queue[user][i]
    BY <1>5, <2>1, PrefixIs
  <2>3. Len(pipeline) <= Len(q) /\ \A i \in 1..Len(pipeline) : pipeline[i] = q[i]
    BY <1>5, <1>7, <2>1, <2>2
  <2>. QED  BY <1>7, <2>1, <2>3, PrefixIs
<1>10. /\ queue' = [queue EXCEPT ![user] = q]
       /\ callbacks' = callbacks \cup {[user |-> user, id |-> nextId, write |-> w]}
  BY <1>1 DEF RunWrite
<1>11. queue'[user] = q /\ queue' \in [Users -> Seq(Batches)]
  BY <1>5, <1>7, <1>10
<1>12. FillWritePipeline(pipeline, q, stream, asks)
  BY <1>11 DEF RunWrite
<1>. QED  BY <1>1, <1>2, <1>4, <1>7, <1>8, <1>9, <1>10, <1>11, <1>12

\* The first batch is settled, and the rest of the pipeline follows.
LEMMA SettlingDoes ==
  ASSUME Inv, OnWriteStreamMutationResult \/ HandleWriteError
  PROVE  /\ toClient # <<>> /\ toClient[1] \in Truths /\ toClient[1] = Head(toClient)
         /\ stream = "Open" /\ handshake /\ idle = FALSE
         /\ pipeline # <<>> /\ queue[user] # <<>>
         /\ queue[user][1].write = toClient[1].write
         /\ Tail(queue[user]) \in Seq(Batches) /\ Increasing(Tail(queue[user]))
         /\ Tail(pipeline) \in Seq(Batches) /\ Len(Tail(pipeline)) = Len(pipeline) - 1
         /\ Len(Tail(pipeline)) <= MaxPending
         /\ IsPrefix(Tail(pipeline), Tail(queue[user]))
         /\ queue' = [queue EXCEPT ![user] = Tail(@)] /\ queue' \in [Users -> Seq(Batches)]
         /\ IF OnWriteStreamMutationResult
              THEN /\ FillWritePipeline(Tail(pipeline), Tail(queue[user]), stream, asks)
                   /\ NotifyUser(queue[user][1].id, "ok")
                   /\ toClient[1].type = "result"
              ELSE /\ FillWritePipeline(Tail(pipeline), Tail(queue[user]), "Initial", Outdated(asks))
                   /\ NotifyUser(queue[user][1].id, "refused")
                   /\ toClient[1].type = "refused"
<1>1. toClient # <<>>
  BY DEF OnWriteStreamMutationResult, HandleWriteError
<1>2. \/ Head(toClient).type = "result"
      \/ PermanentError(Head(toClient)) /\ handshake
  BY DEF OnWriteStreamMutationResult, HandleWriteError
<1>3. queue \in [Users -> Seq(Batches)] /\ user \in Users
      /\ pipeline \in Seq(Batches) /\ Len(pipeline) <= MaxPending /\ Len(pipeline) \in Nat
  BY DEF Inv, TypeOK
<1>4. Len(Tail(pipeline)) <= MaxPending
  BY <1>1, <1>2, <1>3, AnswerIs, FirestoreClientAssumption
<1>5. queue' = [queue EXCEPT ![user] = Without(@, Head(pipeline).id)]
  BY DEF OnWriteStreamMutationResult, HandleWriteError
<1>6. queue' = [queue EXCEPT ![user] = Tail(@)]
  BY <1>1, <1>2, <1>5, AnswerIs
<1>7. queue' \in [Users -> Seq(Batches)] /\ queue'[user] = Tail(queue[user])
  BY <1>1, <1>2, <1>3, <1>6, AnswerIs
<1>8. CASE OnWriteStreamMutationResult
  <2>1. FillWritePipeline(Tail(pipeline), Tail(queue[user]), stream, asks)
    BY <1>7, <1>8 DEF OnWriteStreamMutationResult
  <2>2. NotifyUser(queue[user][1].id, "ok") /\ toClient[1].type = "result"
    BY <1>1, <1>2, <1>8, AnswerIs DEF OnWriteStreamMutationResult
  <2>. QED  BY <1>1, <1>2, <1>4, <1>6, <1>7, <1>8, <2>1, <2>2, AnswerIs
<1>9. CASE ~OnWriteStreamMutationResult
  <2>1. FillWritePipeline(Tail(pipeline), Tail(queue[user]), "Initial", Outdated(asks))
    BY <1>7, <1>9 DEF HandleWriteError
  <2>2. NotifyUser(queue[user][1].id, "refused") /\ toClient[1].type = "refused"
    BY <1>1, <1>2, <1>9, AnswerIs DEF HandleWriteError, PermanentError
  <2>. QED  BY <1>1, <1>2, <1>4, <1>6, <1>7, <1>9, <2>1, <2>2, AnswerIs
<1>. QED  BY <1>8, <1>9

\* A pipeline that is emptied is filled from the queue of the user to come.
LEMMA RestartingDoes ==
  ASSUME Inv, RunCredential \/ RunConnectivity \/ Restart
  PROVE  /\ user' \in Users /\ queue' = queue
         /\ pipeline' \in Seq(Batches) /\ Len(pipeline') <= MaxPending
         /\ IsPrefix(pipeline', queue[user'])
         /\ stream' \in States /\ asks' \subseteq BOOLEAN /\ idle' \in BOOLEAN
         /\ TRUE \in asks' => stream' = "Starting"
         /\ toServer' = <<>> /\ toClient' = <<>> /\ handshake' = FALSE /\ account' = NoUser
         /\ Connection'
<1>1. user' \in Users /\ queue' = queue
  <2>1. CASE RunCredential
    <3>1. worker \in Seq(Tasks) /\ worker # <<>> /\ Head(worker).type = "credential"
      BY <2>1 DEF RunCredential, Inv, TypeOK
    <3>. QED  BY <2>1, <3>1, Shortened, TaskKinds DEF RunCredential, disk
  <2>2. CASE RunConnectivity \/ Restart
    BY <2>2 DEF RunConnectivity, Restart, disk, Inv, TypeOK
  <2>. QED  BY <2>1, <2>2
<1>2. Disconnect /\ \E pending \in {Outdated(asks), {}} :
        FillWritePipeline(<<>>, queue[user'], "Initial", pending)
  BY DEF RunCredential, RunConnectivity, Restart, disk
<1>3. queue[user'] \in Seq(Batches) /\ Increasing(queue[user'])
  BY <1>1 DEF Inv, TypeOK, Stored
<1>4. Outdated(asks) \in SUBSET {FALSE} /\ {} \in SUBSET {FALSE}
  BY DEF Outdated
<1>5. \A pending \in SUBSET {FALSE} :
        FillWritePipeline(<<>>, queue[user'], "Initial", pending) =>
          /\ pipeline' \in Seq(Batches) /\ Len(pipeline') <= MaxPending
          /\ IsPrefix(pipeline', queue[user'])
          /\ stream' \in States /\ asks' \subseteq BOOLEAN /\ idle' \in BOOLEAN
          /\ TRUE \in asks' => stream' = "Starting"
          /\ toServer' = <<>> /\ toClient' = <<>>
          /\ Connection'
  BY <1>2, <1>3, NoPipeline, Reopened
<1>. QED  BY <1>1, <1>2, <1>4, <1>5 DEF Disconnect

------------------------------------------------------------------------------
(* Types *)

LEMMA AnswersTyped ==
  ASSUME NEW w \in Writes, NEW v \in Nat
  PROVE  /\ Result(w, v) \in Answers /\ Refusal(w) \in Answers /\ Refusal(0) \in Answers
         /\ Hello \in Answers /\ Failure \in Answers /\ Hello \in Requests
BY FirestoreClientAssumption DEF Result, Refusal, Hello, Failure, Answers, Requests, Writes

LEMMA Counted ==
  ASSUME Inv, Happens
  PROVE  events' \in 0..MaxEvents
BY FirestoreClientAssumption DEF Happens, Inv, TypeOK

LEMMA ServiceTyped ==
  ASSUME Inv, Service \/ NetworkFails
  PROVE  TypeOK'
<1>1. /\ toServer \in Seq(Requests) /\ toClient \in Seq(Answers)
      /\ toServer # <<>> => Tail(toServer) \in Seq(Requests) /\ Head(toServer) \in Requests
  BY DEF Inv, TypeOK
<1>2. \A w \in Writes : Mutations([write |-> w]).write = w
  BY DEF Mutations
<1>3. Hello \in Answers /\ Failure \in Answers /\ Refusal(0) \in Answers
  BY FirestoreClientAssumption DEF Refusal, Hello, Failure, Answers
<1>4. CASE ServiceGreets
  BY <1>1, <1>3, <1>4 DEF ServiceGreets, Inv, TypeOK, disk, history
<1>5. CASE ServiceApplies
  <2> DEFINE w == Head(toServer).write
  <2>1. toServer # <<>> /\ w \in Writes
    BY <1>1, <1>5 DEF ServiceApplies, Requests, Hello
  <2>2. stream = "Open" /\ account \in Users
    BY <2>1 DEF Inv, TypeOK, Connection
  <2>3. log' = Append(log, [write |-> w, as |-> account]) /\ log' \in Seq([write : Writes, as : Users])
    BY <1>5, <2>1, <2>2 DEF ServiceApplies, Inv, TypeOK
  <2>4. Result(w, Len(log) + 1) \in Answers
    BY <2>1, AnswersTyped DEF Inv, TypeOK
  <2>5. toClient' \in Seq(Answers)
    BY <1>1, <1>5, <2>4 DEF ServiceApplies
  <2>. QED  BY <1>1, <1>5, <2>1, <2>3, <2>5 DEF ServiceApplies, Inv, TypeOK, disk, history
<1>6. CASE ServiceRefuses
  <2>1. CASE Head(toServer).type = "hello"
    <3>1. toClient' = Append(toClient, Refusal(0)) /\ toClient' \in Seq(Answers)
      <4>1. toClient' = Append(toClient, Refusal(0))
        BY <1>6, <2>1 DEF ServiceRefuses
      <4>2. Append(toClient, Refusal(0)) \in Seq(Answers)
        BY <1>1, <1>3
      <4>. QED  BY <4>1, <4>2
    <3>2. events' \in 0..MaxEvents
      BY <1>6, <2>1, Counted DEF ServiceRefuses
    <3>. QED  BY <1>1, <1>6, <2>1, <3>1, <3>2, EmptySeq DEF ServiceRefuses, Inv, TypeOK, disk
  <2>2. CASE Head(toServer).type # "hello"
    <3>1. Head(toServer).write \in Writes
      BY <1>1, <1>6, <2>2 DEF ServiceRefuses, Requests, Hello
    <3>2. Refusal(Head(toServer).write) \in Answers
      BY <3>1 DEF Refusal, Answers, Writes
    <3>3. toClient' \in Seq(Answers)
      BY <1>1, <1>6, <2>2, <3>2 DEF ServiceRefuses
    <3>. QED  BY <1>1, <1>6, <2>2, <3>1, <3>3, EmptySeq DEF ServiceRefuses, Inv, TypeOK, disk
  <2>. QED  BY <2>1, <2>2
<1>7. CASE NetworkFails
  <2>1. PICK n \in 0..Len(toClient) : toClient' = Append(SubSeq(toClient, 1, n), Failure)
    BY <1>7 DEF NetworkFails
  <2>2. SubSeq(toClient, 1, n) \in Seq(Answers)
    BY <1>1
  <2>3. toClient' \in Seq(Answers)
    BY <1>3, <2>1, <2>2
  <2>4. events' \in 0..MaxEvents
    BY <1>7, Counted DEF NetworkFails
  <2>. QED  BY <1>7, <2>3, <2>4, EmptySeq DEF NetworkFails, Inv, TypeOK, disk
<1>. QED  BY <1>4, <1>5, <1>6, <1>7 DEF Service

LEMMA AppTyped ==
  ASSUME Inv,
         \/ Write
         \/ \E u \in Users : SignIn(u)
         \/ \E current \in BOOLEAN : FetchToken(current)
  PROVE  TypeOK'
<1>1. worker \in Seq(Tasks)
  BY DEF Inv, TypeOK
<1>2. CASE Write
  <2>1. Len(writer) + 1 \in Writes /\ auth \in Users
    BY <1>2, FirestoreClientAssumption DEF Write, Writes, Inv, TypeOK
  <2>2. [type |-> "write", write |-> Len(writer) + 1] \in Tasks
    BY <2>1 DEF Tasks
  <2>3. worker' \in Seq(Tasks) /\ writer' \in Seq(Users)
    BY <1>1, <1>2, <2>1, <2>2 DEF Write, Inv, TypeOK
  <2>. QED  BY <1>2, <2>3 DEF Write, Inv, TypeOK, disk, net
<1>3. ASSUME NEW u \in Users, SignIn(u) PROVE TypeOK'
  <2>1. [type |-> "credential", user |-> u] \in Tasks
    BY DEF Tasks
  <2>2. worker' \in Seq(Tasks)
    BY <1>1, <1>3, <2>1 DEF SignIn
  <2>3. events' \in 0..MaxEvents
    BY <1>3, Counted DEF SignIn
  <2>. QED  BY <1>3, <2>2, <2>3 DEF SignIn, Inv, TypeOK, net
<1>4. ASSUME NEW current \in BOOLEAN, FetchToken(current) PROVE TypeOK'
  <2>1. PICK ok \in BOOLEAN :
          /\ IF ok THEN UNCHANGED events ELSE Happens
          /\ worker' = Append(worker, [type |-> "token", user |-> auth, ok |-> ok,
                                       current |-> current])
    BY <1>4 DEF FetchToken
  <2>2. [type |-> "token", user |-> auth, ok |-> ok, current |-> current] \in Tasks
    BY DEF Tasks, Inv, TypeOK
  <2>3. worker' \in Seq(Tasks)
    BY <1>1, <2>1, <2>2
  <2>4. events' \in 0..MaxEvents
    BY <2>1, Counted DEF Inv, TypeOK
  <2>. QED  BY <1>4, <2>3, <2>4 DEF FetchToken, Inv, TypeOK, disk, net
<1>. QED  BY <1>2, <1>3, <1>4

LEMMA WorkerTyped ==
  ASSUME Inv, RunWrite \/ RunCredential \/ RunToken \/ RunConnectivity \/ Restart
  PROVE  TypeOK'
<1>1. worker \in Seq(Tasks) /\ (worker # <<>> => Tail(worker) \in Seq(Tasks))
  BY Shortened DEF Inv, TypeOK
<1>2. CASE RunWrite
  <2>1. pipeline \in Seq(Batches) /\ Len(pipeline) <= MaxPending
        /\ stream \in States /\ asks \in SUBSET BOOLEAN /\ toServer \in Seq(Requests)
    BY DEF Inv, TypeOK, States
  <2>2. /\ pipeline' \in Seq(Batches) /\ Len(pipeline') <= MaxPending
        /\ stream' \in States /\ asks' \subseteq BOOLEAN /\ idle' \in BOOLEAN
    BY <1>2, <2>1, RunWriteDoes, Filled
  <2>3. toServer' \in Seq(Requests)
    <3>1. CASE stream = "Open"
      BY <1>2, <2>1, <3>1, RunWriteDoes, Sent
    <3>2. CASE stream # "Open"
      BY <1>2, <2>1, <3>2, RunWriteDoes, Filled, EmptySeq
    <3>. QED  BY <3>1, <3>2
  <2>4. nextId' \in BatchIds /\ queue' \in [Users -> Seq(Batches)] /\ worker' \in Seq(Tasks)
    BY <1>1, <1>2, RunWriteDoes DEF RunWrite
  <2>5. callbacks' \subseteq Callbacks
    <3>1. [user |-> user, id |-> nextId, write |-> worker[1].write] \in Callbacks
      BY <1>2, RunWriteDoes DEF Callbacks, Inv, TypeOK
    <3>. QED  BY <1>2, <3>1, RunWriteDoes DEF Inv, TypeOK
  <2>. QED  BY <1>2, <2>2, <2>3, <2>4, <2>5 DEF RunWrite, Inv, TypeOK, States, history
<1>3. CASE RunCredential
  <2>1. worker' \in Seq(Tasks)
    BY <1>1, <1>3, OutdatedAre DEF RunCredential
  <2>2. nextId' \in BatchIds
    BY <1>3 DEF RunCredential, Inv, TypeOK
  <2>. QED  BY <1>3, <2>1, <2>2, RestartingDoes, EmptySeq
            DEF RunCredential, Inv, TypeOK, States, disk, history
<1>4. CASE RunToken
  <2>1. worker # <<>> /\ Head(worker).type = "token" /\ worker' \in Seq(Tasks)
    BY <1>1, <1>4, OutdatedAre DEF RunToken
  <2>2. Head(worker).user \in Users
    BY <1>1, <2>1, Shortened, TaskKinds
  <2>3. toServer' \in Seq(Requests) /\ toClient' \in Seq(Answers) /\ account' \in Users \cup {NoUser}
    <3>1. <<Hello>> \in Seq(Requests)
      BY DEF Requests
    <3>. QED  BY <1>4, <2>2, <3>1 DEF RunToken, net, Inv, TypeOK
  <2>4. stream' \in States /\ asks' \subseteq BOOLEAN
    BY <1>4 DEF RunToken, States, Outdated, Inv, TypeOK
  <2>. QED  BY <1>4, <2>1, <2>3, <2>4 DEF RunToken, Inv, TypeOK, States, disk, history
<1>5. CASE RunConnectivity
  <2>1. worker' \in Seq(Tasks)
    BY <1>1, <1>5, OutdatedAre DEF RunConnectivity
  <2>2. events' \in 0..MaxEvents
    BY <1>5, Counted DEF RunConnectivity
  <2>. QED  BY <1>5, <2>1, <2>2, RestartingDoes, EmptySeq
            DEF RunConnectivity, Inv, TypeOK, States, disk
<1>6. CASE Restart
  <2>1. events' \in 0..MaxEvents
    BY <1>6, Counted DEF Restart
  <2>. QED  BY <1>6, <2>1, RestartingDoes, EmptySeq
            DEF Restart, Inv, TypeOK, States, disk
<1>. QED  BY <1>2, <1>3, <1>4, <1>5, <1>6

LEMMA StreamTyped ==
  ASSUME Inv,
         \/ BackoffElapses \/ IdleTimeout
         \/ OnWriteStreamHandshakeComplete \/ OnWriteStreamClose
         \/ \E version \in DOMAIN log : ApplyRemoteEvent(version)
  PROVE  TypeOK'
<1>1. worker \in Seq(Tasks) /\ toClient \in Seq(Answers) /\ toServer \in Seq(Requests)
      /\ (toClient # <<>> => Tail(toClient) \in Seq(Answers))
  BY DEF Inv, TypeOK
<1>2. CASE BackoffElapses
  BY <1>2 DEF BackoffElapses, Inv, TypeOK, disk, net, history
<1>3. CASE IdleTimeout
  <2>1. worker' \in Seq(Tasks)
    BY <1>1, <1>3, OutdatedAre DEF IdleTimeout
  <2>. QED  BY <1>3, <2>1, EmptySeq DEF IdleTimeout, Disconnect, Outdated, Inv, TypeOK, disk, history
<1>4. CASE OnWriteStreamHandshakeComplete
  <2> DEFINE sent == [i \in DOMAIN pipeline |-> Mutations(pipeline[i])]
  <2>1. pipeline \in Seq(Batches)
    BY DEF Inv, TypeOK
  <2>2. \A i \in DOMAIN pipeline : Mutations(pipeline[i]) \in Requests
    BY <2>1, BatchFields DEF Mutations, Requests
  <2>3. sent \in Seq(Requests)
    BY <2>1, <2>2
  <2>4. toServer' \in Seq(Requests)
    BY <1>1, <1>4, <2>3 DEF OnWriteStreamHandshakeComplete
  <2>. QED  BY <1>1, <1>4, <2>4 DEF OnWriteStreamHandshakeComplete, Inv, TypeOK, disk, history
<1>5. CASE OnWriteStreamClose
  <2>1. worker' \in Seq(Tasks)
    BY <1>1, <1>5, OutdatedAre DEF OnWriteStreamClose
  <2>. QED  BY <1>5, <2>1, EmptySeq DEF OnWriteStreamClose, Disconnect, Outdated, Inv, TypeOK, disk, history
<1>6. ASSUME NEW version \in DOMAIN log, ApplyRemoteEvent(version) PROVE TypeOK'
  <2>1. version \in Nat /\ cached \in Nat
    BY DEF Inv, TypeOK
  <2>. QED  BY <1>6, <2>1, NewerIs DEF ApplyRemoteEvent, Inv, TypeOK, net, history
<1>. QED  BY <1>2, <1>3, <1>4, <1>5, <1>6

LEMMA SettlingTyped ==
  ASSUME Inv, OnWriteStreamMutationResult \/ HandleWriteError
  PROVE  TypeOK'
<1>1. /\ worker \in Seq(Tasks) /\ toClient \in Seq(Answers) /\ toServer \in Seq(Requests)
      /\ asks \in SUBSET BOOLEAN /\ stream \in States /\ callbacks \subseteq Callbacks
  BY DEF Inv, TypeOK, States
<1>2. told' \in [Writes -> {"nothing", "ok", "refused"}] /\ callbacks' \subseteq Callbacks
  BY <1>1, SettlingDoes, Notified
<1>3. CASE OnWriteStreamMutationResult
  <2>1. /\ pipeline' \in Seq(Batches) /\ Len(pipeline') <= MaxPending
        /\ stream' \in States /\ asks' \subseteq BOOLEAN /\ idle' \in BOOLEAN
    BY <1>1, <1>3, SettlingDoes, Filled
  <2>2. toServer' \in Seq(Requests)
    <3>1. FillWritePipeline(Tail(pipeline), Tail(queue[user]), "Open", asks) /\ handshake
      BY <1>3, SettlingDoes
    <3>2. /\ Tail(queue[user]) \in Seq(Batches) /\ Increasing(Tail(queue[user]))
          /\ Tail(pipeline) \in Seq(Batches) /\ Len(Tail(pipeline)) <= MaxPending
          /\ IsPrefix(Tail(pipeline), Tail(queue[user]))
      BY SettlingDoes
    <3>. QED  BY <1>1, <3>1, <3>2, Sent
  <2>3. toClient' \in Seq(Answers)
    BY <1>1, <1>3, SettlingDoes DEF OnWriteStreamMutationResult
  <2>4. cached' \in Nat
    <3>1. toClient[1] \in Answers /\ toClient[1].type = "result"
      BY <1>3, SettlingDoes DEF Truths
    <3>2. toClient[1].version \in Nat
      BY <3>1 DEF Answers, Hello, Failure
    <3>. QED  BY <1>3, <3>2, SettlingDoes, NewerIs DEF OnWriteStreamMutationResult, Inv, TypeOK
  <2>. QED  BY <1>2, <1>3, <2>1, <2>2, <2>3, <2>4, SettlingDoes
            DEF OnWriteStreamMutationResult, Inv, TypeOK, States
<1>4. CASE HandleWriteError /\ ~OnWriteStreamMutationResult
  <2>1. Outdated(asks) \in SUBSET {FALSE}
    BY DEF Outdated
  <2>2. /\ pipeline' \in Seq(Batches) /\ Len(pipeline') <= MaxPending
        /\ stream' \in States /\ asks' \subseteq BOOLEAN /\ idle' \in BOOLEAN
        /\ toServer' = <<>> /\ toClient' = <<>>
    BY <1>4, <2>1, SettlingDoes, Reopened DEF HandleWriteError
  <2>3. worker' \in Seq(Tasks)
    BY <1>1, <1>4, OutdatedAre DEF HandleWriteError
  <2>4. queue' \in [Users -> Seq(Batches)]
    BY SettlingDoes
  <2>. QED  BY <1>2, <1>4, <2>2, <2>3, <2>4, EmptySeq
            DEF HandleWriteError, Disconnect, Inv, TypeOK, States
<1>. QED  BY <1>3, <1>4

LEMMA Typed ==
  ASSUME Inv, Next
  PROVE  TypeOK'
BY ServiceTyped, AppTyped, WorkerTyped, StreamTyped, SettlingTyped DEF Next, Service

------------------------------------------------------------------------------
(* The mutation queues *)

\* The ids start again below the number they had reached.
LEMMA IdsReloaded ==
  ASSUME Inv, NEW n \in BatchIds, IsNextBatchId(n)
  PROVE  n <= nextId
<1>1. nextId \in Nat \ {0} /\ n \in Nat /\ queue \in [Users -> Seq(Batches)]
  BY FirestoreClientAssumption DEF BatchIds, Inv, TypeOK
<1>2. ASSUME NEW u \in Users, NEW i \in DOMAIN queue[u], queue[u][i].id = n - 1
      PROVE  n <= nextId
  <2>1. queue[u][i].id < nextId /\ queue[u][i].id \in Nat
    BY <1>1, BatchFields DEF Inv, Stored
  <2>. QED  BY <1>1, <1>2, <2>1
<1>. QED  BY <1>1, <1>2 DEF IsNextBatchId

LEMMA StoredWrite ==
  ASSUME Inv, RunWrite
  PROVE  Stored'
<1> DEFINE w == worker[1].write
           b == [id |-> nextId, write |-> w]
           q == Append(queue[user], b)
<1>1. /\ q \in Seq(Batches) /\ Increasing(q) /\ IsPrefix(pipeline, q)
      /\ queue' = [queue EXCEPT ![user] = q]
      /\ callbacks' = callbacks \cup {[user |-> user, id |-> nextId, write |-> w]}
      /\ FillWritePipeline(pipeline, q, stream, asks)
  BY RunWriteDoes
<1>2. queue \in [Users -> Seq(Batches)] /\ user \in Users /\ nextId \in Nat
      /\ nextId' = nextId + 1 /\ user' = user
  BY DEF RunWrite, Inv, TypeOK, BatchIds
<1>3. /\ Len(q) = Len(queue[user]) + 1 /\ Len(queue[user]) \in Nat
      /\ \A i \in 1..Len(queue[user]) : q[i] = queue[user][i]
      /\ q[Len(queue[user]) + 1] = b
  BY <1>2
<1>4. \A u \in Users : queue'[u] = IF u = user THEN q ELSE queue[u]
  BY <1>1, <1>2
<1> HIDE DEF q
<1>5. \A u \in Users : Increasing(queue'[u])
  BY <1>1, <1>4 DEF Inv, Stored
<1>6. ASSUME NEW u \in Users, NEW i \in DOMAIN queue'[u] PROVE queue'[u][i].id < nextId'
  <2>1. CASE u = user /\ i = Len(queue[user]) + 1
    BY <1>2, <1>3, <1>4, <2>1
  <2>2. CASE i \in DOMAIN queue[u] /\ queue'[u][i] = queue[u][i]
    <3>1. queue[u][i].id < nextId /\ queue[u][i].id \in Nat
      BY <1>2, <2>2, BatchFields DEF Inv, Stored
    <3>. QED  BY <1>2, <2>2, <3>1
  <2>. QED  BY <1>1, <1>2, <1>3, <1>4, <2>1, <2>2
<1>7. ASSUME NEW c \in callbacks'
      PROVE  \E i \in DOMAIN queue'[c.user] : queue'[c.user][i] = [id |-> c.id, write |-> c.write]
  <2>1. CASE c \in callbacks
    <3>1. PICK i \in DOMAIN queue[c.user] : queue[c.user][i] = [id |-> c.id, write |-> c.write]
      BY <2>1 DEF Inv, Stored
    <3>2. c.user \in Users
      BY <2>1 DEF Inv, TypeOK, Callbacks
    <3>3. i \in DOMAIN queue'[c.user] /\ queue'[c.user][i] = queue[c.user][i]
      <4>1. ASSUME NEW j \in DOMAIN queue[user]
            PROVE  j \in DOMAIN q /\ q[j] = queue[user][j]
        <5>1. j \in 1..Len(queue[user]) /\ DOMAIN q = 1..Len(q)
          BY <1>1, <1>2
        <5>. QED  BY <1>3, <5>1
      <4>. QED  BY <1>4, <3>2, <4>1
    <3>. QED  BY <3>1, <3>3
  <2>2. CASE c = [user |-> user, id |-> nextId, write |-> w]
    <3>1. queue'[c.user] = q /\ Len(queue[user]) + 1 \in DOMAIN q
      BY <1>1, <1>2, <1>3, <1>4, <2>2
    <3>. QED  BY <1>3, <2>2, <3>1
  <2>. QED  BY <1>1, <2>1, <2>2
<1>8. PipelineIsPrefix'
  <2>1. /\ pipeline \in Seq(Batches) /\ Len(pipeline) <= MaxPending
        /\ stream \in States /\ asks \in SUBSET BOOLEAN
    BY DEF Inv, TypeOK, States
  <2>2. IsPrefix(pipeline', q)
    BY <1>1, <2>1, Filled
  <2>. QED  BY <1>2, <1>4, <2>2 DEF PipelineIsPrefix
<1>. QED  BY <1>5, <1>6, <1>7, <1>8 DEF Stored

LEMMA StoredRestart ==
  ASSUME Inv, RunCredential \/ RunConnectivity \/ Restart
  PROVE  Stored'
<1>1. queue' = queue /\ user' \in Users /\ IsPrefix(pipeline', queue[user'])
  BY RestartingDoes
<1>2. callbacks' \subseteq callbacks
  BY DEF RunCredential, RunConnectivity, Restart
<1>3. nextId' = nextId \/ IsNextBatchId(nextId')
  BY DEF RunCredential, RunConnectivity, Restart
<1>4. \A u \in Users : \A i \in DOMAIN queue[u] : queue[u][i].id < nextId'
  BY <1>3 DEF IsNextBatchId, Inv, Stored
<1>. QED  BY <1>1, <1>2, <1>4 DEF Stored, PipelineIsPrefix, Inv

LEMMA StoredSettle ==
  ASSUME Inv, OnWriteStreamMutationResult \/ HandleWriteError
  PROVE  Stored'
<1> DEFINE q == Tail(queue[user])
<1>1. /\ queue[user] # <<>> /\ q \in Seq(Batches) /\ Increasing(q)
      /\ Tail(pipeline) \in Seq(Batches) /\ Len(Tail(pipeline)) <= MaxPending
      /\ IsPrefix(Tail(pipeline), q)
      /\ queue' = [queue EXCEPT ![user] = Tail(@)]
      /\ \E verdict \in {"ok", "refused"} : NotifyUser(queue[user][1].id, verdict)
      /\ \E s \in States, pending \in SUBSET BOOLEAN :
           FillWritePipeline(Tail(pipeline), q, s, pending)
  <2>1. stream \in States /\ "Initial" \in States /\ asks \in SUBSET BOOLEAN
        /\ Outdated(asks) \in SUBSET BOOLEAN
    BY DEF Inv, TypeOK, States, Outdated
  <2>. QED  BY <2>1, SettlingDoes
<1>2. queue \in [Users -> Seq(Batches)] /\ user \in Users /\ user' = user /\ nextId' = nextId
  BY DEF OnWriteStreamMutationResult, HandleWriteError, Inv, TypeOK
<1>3. \A u \in Users : queue'[u] = IF u = user THEN q ELSE queue[u]
  BY <1>1, <1>2
<1>4. /\ Len(q) = Len(queue[user]) - 1 /\ Len(queue[user]) \in Nat
      /\ \A i \in 1..(Len(queue[user]) - 1) : q[i] = queue[user][i + 1]
  BY <1>1, <1>2, HeadTailProperties
<1>5. callbacks' \subseteq callbacks /\ \A c \in callbacks' : c.user = user => c.id # queue[user][1].id
  BY <1>1, Notified
<1>6. PipelineIsPrefix'
  <2>1. IsPrefix(pipeline', q)
    BY <1>1, Filled
  <2>. QED  BY <1>2, <1>3, <2>1 DEF PipelineIsPrefix
<1> HIDE DEF q
<1>7. \A u \in Users : Increasing(queue'[u])
  BY <1>1, <1>3 DEF Inv, Stored
<1>8. \A u \in Users : \A i \in DOMAIN queue'[u] : queue'[u][i].id < nextId'
  <2>1. \A i \in DOMAIN q : i + 1 \in DOMAIN queue[user] /\ q[i] = queue[user][i + 1]
    BY <1>1, <1>2, <1>4
  <2>. QED  BY <1>2, <1>3, <2>1 DEF Inv, Stored
<1>9. ASSUME NEW c \in callbacks'
      PROVE  \E i \in DOMAIN queue'[c.user] : queue'[c.user][i] = [id |-> c.id, write |-> c.write]
  <2>1. PICK i \in DOMAIN queue[c.user] : queue[c.user][i] = [id |-> c.id, write |-> c.write]
    BY <1>5 DEF Inv, Stored
  <2>2. c.user \in Users
    BY <1>5 DEF Inv, TypeOK, Callbacks
  <2>3. CASE c.user = user
    <3>1. i # 1
      BY <1>5, <2>1, <2>3
    <3>2. i - 1 \in 1..(Len(queue[user]) - 1) /\ q[i - 1] = queue[user][i]
      BY <1>2, <1>4, <2>3, <3>1
    <3>3. i - 1 \in DOMAIN q
      BY <1>1, <1>4, <3>2
    <3>. QED  BY <1>3, <2>1, <2>2, <2>3, <3>2, <3>3
  <2>. QED  BY <1>3, <2>1, <2>2, <2>3
<1>. QED  BY <1>6, <1>7, <1>8, <1>9 DEF Stored

LEMMA StoredKept ==
  ASSUME Inv, Next
  PROVE  Stored'
<1>1. CASE UNCHANGED <<queue, user, nextId, callbacks, pipeline>>
  BY <1>1 DEF Inv, Stored, PipelineIsPrefix
<1>2. CASE ~UNCHANGED <<queue, user, nextId, callbacks, pipeline>>
  <2>1. \/ RunWrite \/ RunCredential \/ RunConnectivity \/ Restart
        \/ OnWriteStreamMutationResult \/ HandleWriteError
    BY <1>2 DEF Next, Write, SignIn, FetchToken, RunToken, BackoffElapses, IdleTimeout,
         OnWriteStreamHandshakeComplete, OnWriteStreamClose, ApplyRemoteEvent,
         ServiceGreets, ServiceApplies, ServiceRefuses, NetworkFails, disk
  <2>. QED  BY <2>1, StoredWrite, StoredRestart, StoredSettle
<1>. QED  BY <1>1, <1>2

------------------------------------------------------------------------------
(* The worker queue *)

\* The first task runs, and the others move up.
LEMMA TasksMove ==
  ASSUME Inv, RunWrite \/ RunCredential \/ RunToken
  PROVE  /\ worker # <<>> /\ worker' \in Seq(Tasks) /\ Len(worker') = Len(worker) - 1
         /\ \A i \in DOMAIN worker' :
              /\ i + 1 \in DOMAIN worker
              /\ worker'[i].type = worker[i + 1].type
              /\ worker'[i].type = "write" => worker'[i].write = worker[i + 1].write
              /\ worker'[i].type # "write" => worker'[i].user = worker[i + 1].user
              /\ CurrentToken(worker'[i]) => CurrentToken(worker[i + 1])
<1>1. worker \in Seq(Tasks) /\ worker # <<>>
  BY DEF RunWrite, RunCredential, RunToken, Inv, TypeOK
<1>2. /\ Tail(worker) \in Seq(Tasks) /\ Len(Tail(worker)) = Len(worker) - 1
      /\ \A i \in DOMAIN Tail(worker) : i + 1 \in DOMAIN worker /\ Tail(worker)[i] = worker[i + 1]
  BY <1>1, Shortened
<1>3. worker' \in {Tail(worker), OutdatedTasks(Tail(worker))}
  BY DEF RunWrite, RunCredential, RunToken
<1>4. CASE worker' = Tail(worker)
  BY <1>1, <1>2, <1>4
<1>5. CASE worker' = OutdatedTasks(Tail(worker))
  <2>1. /\ worker' \in Seq(Tasks) /\ Len(worker') = Len(Tail(worker))
        /\ DOMAIN worker' = DOMAIN Tail(worker)
        /\ \A i \in DOMAIN worker' :
             /\ worker'[i].type = Tail(worker)[i].type
             /\ ~CurrentToken(worker'[i])
             /\ worker'[i].type = "write" => worker'[i].write = Tail(worker)[i].write
             /\ worker'[i].type # "write" => worker'[i].user = Tail(worker)[i].user
    BY <1>2, <1>5, Outdates
  <2>. QED  BY <1>1, <1>2, <2>1
<1>. QED  BY <1>3, <1>4, <1>5

\* What happens on the stream leaves the tasks, and may outdate their tokens.
StreamStep ==
  \/ RunConnectivity \/ BackoffElapses \/ IdleTimeout
  \/ OnWriteStreamHandshakeComplete \/ OnWriteStreamMutationResult
  \/ HandleWriteError \/ OnWriteStreamClose
  \/ \E version \in DOMAIN log : ApplyRemoteEvent(version)
  \/ Service \/ NetworkFails

LEMMA TasksStay ==
  ASSUME Inv, StreamStep
  PROVE  /\ worker' \in Seq(Tasks) /\ Len(worker') = Len(worker) /\ DOMAIN worker' = DOMAIN worker
         /\ \A i \in DOMAIN worker' :
              /\ worker'[i].type = worker[i].type
              /\ worker'[i].type = "write" => worker'[i].write = worker[i].write
              /\ worker'[i].type # "write" => worker'[i].user = worker[i].user
              /\ CurrentToken(worker'[i]) => worker' = worker
<1>1. worker \in Seq(Tasks)
  BY DEF Inv, TypeOK
<1>2. worker' \in {worker, OutdatedTasks(worker)}
  BY DEF StreamStep, RunConnectivity, BackoffElapses, IdleTimeout,
     OnWriteStreamHandshakeComplete, OnWriteStreamMutationResult, HandleWriteError,
     OnWriteStreamClose, ApplyRemoteEvent, Service, ServiceGreets, ServiceApplies,
     ServiceRefuses, NetworkFails
<1>3. CASE worker' = worker
  BY <1>1, <1>3
<1>4. CASE worker' = OutdatedTasks(worker)
  BY <1>1, <1>4, Outdates
<1>. QED  BY <1>2, <1>3, <1>4

\* The app and FIRAuth add a task behind the others.
LEMMA TaskAdded ==
  ASSUME Inv,
         \/ Write
         \/ \E u \in Users : SignIn(u)
         \/ \E current \in BOOLEAN : FetchToken(current)
  PROVE  /\ worker' \in Seq(Tasks) /\ Len(worker') = Len(worker) + 1 /\ Len(worker) \in Nat
         /\ \A i \in DOMAIN worker : worker'[i] = worker[i]
         /\ LET t == worker'[Len(worker) + 1] IN
            /\ Write => t = [type |-> "write", write |-> Len(writer) + 1]
            /\ \A u \in Users : SignIn(u) => t = [type |-> "credential", user |-> u]
            /\ \A current \in BOOLEAN : FetchToken(current) =>
                 \E ok \in BOOLEAN :
                   t = [type |-> "token", user |-> auth, ok |-> ok, current |-> current]
<1>1. worker' \in Seq(Tasks)
  BY AppTyped DEF TypeOK
<1>2. worker \in Seq(Tasks)
  BY DEF Inv, TypeOK
<1>3. \E t : worker' = Append(worker, t)
  BY DEF Write, SignIn, FetchToken
<1>4. /\ Len(worker') = Len(worker) + 1 /\ Len(worker) \in Nat
      /\ \A i \in DOMAIN worker : worker'[i] = worker[i]
  BY <1>2, <1>3
<1>5. \A t : worker' = Append(worker, t) => worker'[Len(worker) + 1] = t
  BY <1>2
<1>. QED  BY <1>1, <1>4, <1>5 DEF Write, SignIn, FetchToken

\* A request the service handles is for the batch that follows those it has
\* answered.
LEMMA RequestIs ==
  ASSUME Inv, toServer # <<>>, Head(toServer).type = "mutations", ~Ended
  PROVE  LET k == Len(toClient) + 1 IN
         /\ stream = "Open" /\ handshake /\ account = user
         /\ k \in DOMAIN pipeline /\ k \in DOMAIN queue[user]
         /\ Head(toServer).write = queue[user][k].write /\ Head(toServer).write \in Writes
         /\ \A i \in 1..(k - 1) : i \in DOMAIN toClient
         /\ \A i \in DOMAIN toClient :
              /\ toClient[i].type = "result" /\ toClient[i] \in Truths
              /\ i \in DOMAIN queue[user] /\ toClient[i].write = queue[user][i].write
<1>1. /\ toServer \in Seq(Requests) /\ toClient \in Seq(Answers)
      /\ pipeline \in Seq(Batches) /\ queue[user] \in Seq(Batches)
      /\ IsPrefix(pipeline, queue[user])
  BY DEF Inv, TypeOK, Stored, PipelineIsPrefix
<1>2. stream = "Open" /\ account = user
  BY DEF Inv, Connection
<1>3. handshake
  <2>1. CASE ~handshake
    <3>1. toServer = <<Hello>>
      BY <1>2, <2>1 DEF Inv, Connection, Greeting
    <3>. QED  BY <3>1 DEF Hello
  <2>. QED  BY <2>1
<1>4. Dialogue
  BY <1>3 DEF Inv, Connection
<1>5. /\ Len(pipeline) <= Len(queue[user]) /\ Len(pipeline) \in Nat /\ Len(queue[user]) \in Nat
      /\ \A i \in 1..Len(pipeline) : pipeline[i] = queue[user][i]
  BY <1>1, PrefixIs
<1>6. /\ Len(toServer) \in Nat \ {0} /\ Head(toServer) = toServer[1] /\ Len(toClient) \in Nat
      /\ Head(toServer) \in Requests
  BY <1>1
<1>7. Len(toClient) + 1 \in 1..Len(pipeline)
      /\ toServer[1] = Mutations(pipeline[Len(toClient) + 1])
  BY <1>1, <1>4, <1>6 DEF Dialogue
<1>8. Head(toServer).write = queue[user][Len(toClient) + 1].write
  BY <1>5, <1>6, <1>7 DEF Mutations
<1>9. Head(toServer).write \in Writes
  BY <1>6 DEF Requests, Hello
<1>10. ASSUME NEW i \in DOMAIN toClient
       PROVE  /\ toClient[i].type = "result" /\ toClient[i] \in Truths
              /\ i \in DOMAIN queue[user] /\ toClient[i].write = queue[user][i].write
  <2>1. toClient[i].type = "result"
    <3>1. toClient[i].type \in {"hello", "failed", "result", "refused"}
      <4>1. toClient[i] \in Answers
        BY <1>1
      <4>. QED  BY <4>1 DEF Answers, Hello, Failure
    <3>2. toClient[i].type # "result" => i = Len(toClient) /\ toClient # <<>>
      BY <1>1, <1>4 DEF Dialogue
    <3>. QED  BY <1>4, <3>1, <3>2 DEF Dialogue, Ended, Last
  <2>2. toClient[i] \in Truths /\ i \in DOMAIN pipeline /\ pipeline[i].write = toClient[i].write
    BY <1>4, <2>1 DEF Dialogue
  <2>. QED  BY <1>1, <1>5, <2>1, <2>2
<1>. QED  BY <1>1, <1>2, <1>3, <1>5, <1>6, <1>7, <1>8, <1>9, <1>10

------------------------------------------------------------------------------
(* The order of the writes *)

LEMMA FreshAbove ==
  ASSUME Inv, NEW w \in FreshWrites, NEW v \in Nat, w <= v
  PROVE  v \in FreshWrites
<1>1. /\ w \in Nat /\ nextId \in Nat
      /\ \A u \in Users : \A i \in DOMAIN queue[u] : queue[u][i].write \in Nat
      /\ \A i \in DOMAIN log : log[i].write \in Nat
  <2>1. w \in Nat /\ nextId \in Nat
    BY DEF FreshWrites, Inv, TypeOK, BatchIds
  <2>2. \A u \in Users : \A i \in DOMAIN queue[u] : queue[u][i].write \in Nat
    BY BatchFields DEF Inv, TypeOK, Writes
  <2>3. \A i \in DOMAIN log : log[i].write \in Nat
    <3>1. log \in Seq([write : Writes, as : Users])
      BY DEF Inv, TypeOK
    <3>2. ASSUME NEW i \in DOMAIN log PROVE log[i] \in [write : Writes, as : Users]
      BY <3>1, LenProperties, ElementOfSeq
    <3>. QED  BY <3>2 DEF Writes
  <2>. QED  BY <2>1, <2>2, <2>3
<1>2. nextId <= v
  BY <1>1 DEF FreshWrites
<1>3. \A u \in Users : \A i \in DOMAIN queue[u] : queue[u][i].write < v
  BY <1>1 DEF FreshWrites
<1>4. \A i \in DOMAIN log : log[i].write < v
  BY <1>1 DEF FreshWrites
<1>5. \A x \in Writes : told[x] # "nothing" => x < v
  BY <1>1 DEF FreshWrites, Writes
<1>. QED  BY <1>2, <1>3, <1>4, <1>5 DEF FreshWrites

\* Which writes are fresh after a step, given which the step is.
LEMMA FreshStays ==
  ASSUME Inv, StreamStep \/ RunCredential \/ RunToken \/ Restart
  PROVE  FreshWrites \subseteq FreshWrites'
<1>1. SUFFICES ASSUME NEW w \in FreshWrites PROVE w \in FreshWrites'
  OBVIOUS
<1>2. /\ w \in Nat /\ nextId <= w /\ nextId \in Nat
      /\ \A u \in Users : \A i \in DOMAIN queue[u] : queue[u][i].write < w
      /\ \A i \in DOMAIN log : log[i].write < w
      /\ \A v \in Writes : told[v] # "nothing" => v < w
  BY DEF FreshWrites, Inv, TypeOK, BatchIds
<1>3. nextId' <= w
  <2>1. nextId' = nextId \/ (nextId' \in BatchIds /\ IsNextBatchId(nextId'))
    BY DEF StreamStep, RunConnectivity, BackoffElapses, IdleTimeout,
       OnWriteStreamHandshakeComplete, OnWriteStreamMutationResult, HandleWriteError,
       OnWriteStreamClose, ApplyRemoteEvent, Service, ServiceGreets, ServiceApplies,
       ServiceRefuses, NetworkFails, RunCredential, RunToken, Restart
  <2>2. CASE nextId' \in BatchIds /\ IsNextBatchId(nextId')
    <3>1. nextId' <= nextId /\ nextId' \in Nat
      BY <2>2, IdsReloaded DEF BatchIds
    <3>. QED  BY <1>2, <3>1
  <2>. QED  BY <1>2, <2>1, <2>2
<1>4. CASE OnWriteStreamMutationResult \/ HandleWriteError
  <2>1. /\ queue[user] # <<>> /\ queue' = [queue EXCEPT ![user] = Tail(@)]
        /\ \E verdict \in {"ok", "refused"} : NotifyUser(queue[user][1].id, verdict)
    BY <1>4, SettlingDoes
  <2>2. queue \in [Users -> Seq(Batches)] /\ user \in Users /\ told \in [Writes -> {"nothing", "ok", "refused"}]
    BY DEF Inv, TypeOK
  <2>3. \A i \in DOMAIN Tail(queue[user]) :
          i + 1 \in DOMAIN queue[user] /\ Tail(queue[user])[i] = queue[user][i + 1]
    <3>1. queue[user] \in Seq(Batches)
      BY <2>2
    <3>. QED  BY <2>1, <3>1, HeadTailProperties
  <2>4. \A u \in Users : \A i \in DOMAIN queue'[u] : queue'[u][i].write < w
    BY <1>2, <2>1, <2>2, <2>3
  <2>5. queue[user][1].write < w
    <3>1. 1 \in DOMAIN queue[user]
      BY <2>1, <2>2
    <3>. QED  BY <1>2, <2>2, <3>1
  <2>6. \A v \in Writes : told'[v] # told[v] => v = queue[user][1].write
    BY <2>1, <2>2, Notified
  <2>7. \A v \in Writes : told'[v] # "nothing" => v < w
    BY <1>2, <2>5, <2>6
  <2>8. log' = log
    BY <1>4 DEF OnWriteStreamMutationResult, HandleWriteError
  <2>. QED  BY <1>2, <1>3, <2>4, <2>7, <2>8 DEF FreshWrites
<1>5. CASE ServiceApplies
  <2>1. log' = Append(log, [write |-> Head(toServer).write, as |-> account])
        /\ log \in Seq([write : Writes, as : Users])
    BY <1>5 DEF ServiceApplies, Inv, TypeOK
  <2>2. Head(toServer).write < w
    BY <1>2, <1>5, RequestIs DEF ServiceApplies, Inv, TypeOK
  <2>3. \A i \in DOMAIN log' : log'[i].write < w
    BY <1>2, <2>1, <2>2
  <2>. QED  BY <1>2, <1>3, <1>5, <2>3 DEF FreshWrites, ServiceApplies, disk, history
<1>6. CASE UNCHANGED <<queue, log, told>>
  BY <1>2, <1>3, <1>6 DEF FreshWrites
<1>. QED  BY <1>4, <1>5, <1>6
     DEF StreamStep, RunConnectivity, BackoffElapses, IdleTimeout,
         OnWriteStreamHandshakeComplete, OnWriteStreamClose, ApplyRemoteEvent, Service,
         ServiceGreets, ServiceRefuses, NetworkFails, RunCredential, RunToken, Restart,
         disk, history

LEMMA FreshAfterWrite ==
  ASSUME Inv, RunWrite, NEW v \in FreshWrites, worker[1].write < v
  PROVE  v \in FreshWrites'
<1> DEFINE w == worker[1].write
<1>1. /\ v \in Nat /\ nextId <= w /\ nextId \in Nat /\ w \in Nat
      /\ \A u \in Users : \A i \in DOMAIN queue[u] : queue[u][i].write < v
      /\ \A i \in DOMAIN log : log[i].write < v
      /\ \A x \in Writes : told[x] # "nothing" => x < v
  <2>1. w \in FreshWrites /\ nextId \in Nat
    BY RunWriteDoes DEF Inv, TypeOK, BatchIds
  <2>. QED  BY <2>1 DEF FreshWrites
<1>2. nextId' <= v
  BY <1>1 DEF RunWrite
<1>3. \A u \in Users : \A i \in DOMAIN queue'[u] : queue'[u][i].write < v
  <2>1. /\ queue' = [queue EXCEPT ![user] = Append(@, [id |-> nextId, write |-> w])]
        /\ queue \in [Users -> Seq(Batches)] /\ user \in Users
    BY RunWriteDoes DEF Inv, TypeOK
  <2>2. \A i \in DOMAIN Append(queue[user], [id |-> nextId, write |-> w]) :
          Append(queue[user], [id |-> nextId, write |-> w])[i].write < v
    BY <1>1, <2>1
  <2>. QED  BY <1>1, <2>1, <2>2
<1>4. log' = log /\ told' = told
  BY DEF RunWrite, history
<1>. QED  BY <1>1, <1>2, <1>3, <1>4 DEF FreshWrites

LEMMA OrderKept ==
  ASSUME Inv, NEW d \in {0, 1}, worker' \in Seq(Tasks), writer' = writer,
         \A i \in DOMAIN worker' :
           /\ i + d \in DOMAIN worker
           /\ worker'[i].type = worker[i + d].type
           /\ worker'[i].type = "write" =>
                /\ worker'[i].write = worker[i + d].write
                /\ worker[i + d].write \in FreshWrites',
         Len(writer) + 1 \in FreshWrites'
  PROVE  TasksInOrder'
<1>1. ASSUME NEW i \in DOMAIN worker', worker'[i].type = "write"
      PROVE  /\ worker'[i].write <= Len(writer')
             /\ worker'[i].write \in FreshWrites'
             /\ \A j \in DOMAIN worker' :
                  i < j /\ worker'[j].type = "write" => worker'[i].write < worker'[j].write
  <2>1. \A j \in DOMAIN worker' : i < j => i + d < j + d
    OBVIOUS
  <2>. QED  BY <1>1, <2>1 DEF Inv, TasksInOrder
<1>. QED  BY <1>1 DEF TasksInOrder

LEMMA OrderedTasks ==
  ASSUME Inv, Next
  PROVE  TasksInOrder'
<1>1. /\ Len(writer) + 1 \in FreshWrites /\ worker \in Seq(Tasks)
      /\ writer \in Seq(Users) /\ Len(writer) \in Nat
      /\ \A i \in DOMAIN worker : worker[i].type = "write" =>
           worker[i].write \in FreshWrites /\ worker[i].write <= Len(writer)
  BY DEF Inv, TypeOK, TasksInOrder
<1>2. CASE Write
  <2>1. FreshWrites' = FreshWrites
    BY <1>2 DEF Write, FreshWrites, disk
  <2>2. Len(writer') = Len(writer) + 1
    BY <1>1, <1>2 DEF Write
  <2>3. Len(writer') \in FreshWrites' /\ Len(writer') + 1 \in FreshWrites'
    BY <1>1, <2>1, <2>2, FreshAbove
  <2>4. /\ DOMAIN worker' = 1..(Len(worker) + 1) /\ DOMAIN worker = 1..Len(worker)
        /\ Len(worker) \in Nat
        /\ \A i \in DOMAIN worker : worker'[i] = worker[i]
        /\ worker'[Len(worker) + 1] = [type |-> "write", write |-> Len(writer')]
    BY <1>1, <1>2, <2>2, TaskAdded
  <2>5. ASSUME NEW i \in DOMAIN worker', worker'[i].type = "write"
        PROVE  /\ worker'[i].write <= Len(writer')
               /\ worker'[i].write \in FreshWrites'
               /\ \A j \in DOMAIN worker' :
                    i < j /\ worker'[j].type = "write" => worker'[i].write < worker'[j].write
    <3>1. CASE i = Len(worker) + 1
      <4>1. worker'[i].write = Len(writer') /\ \A j \in DOMAIN worker' : ~(i < j)
        BY <2>4, <3>1
      <4>. QED  BY <1>1, <2>2, <2>3, <4>1
    <3>2. CASE i \in DOMAIN worker
      <4>1. worker[i].write \in Nat
        BY <1>1, <2>4, <2>5, <3>2 DEF FreshWrites
      <4>2. ASSUME NEW j \in DOMAIN worker', i < j, worker'[j].type = "write"
            PROVE  worker'[i].write < worker'[j].write
        <5>1. CASE j = Len(worker) + 1
          <6>1. worker'[j].write = Len(writer) + 1 /\ worker'[i].write <= Len(writer)
            BY <1>1, <2>2, <2>4, <2>5, <3>2, <5>1
          <6>. QED  BY <1>1, <2>4, <3>2, <4>1, <6>1
        <5>2. CASE j \in DOMAIN worker
          BY <2>4, <2>5, <3>2, <4>2, <5>2 DEF Inv, TasksInOrder
        <5>. QED  BY <2>4, <5>1, <5>2
      <4>. QED  BY <1>1, <2>1, <2>2, <2>4, <2>5, <3>2, <4>1, <4>2
    <3>. QED  BY <2>4, <3>1, <3>2
  <2>. QED  BY <2>3, <2>5 DEF TasksInOrder
<1>3. CASE \/ \E u \in Users : SignIn(u)
           \/ \E current \in BOOLEAN : FetchToken(current)
  <2>1. writer' = writer /\ FreshWrites' = FreshWrites
    BY <1>3 DEF SignIn, FetchToken, FreshWrites, disk, history
  <2>2. /\ DOMAIN worker' = 1..(Len(worker) + 1) /\ DOMAIN worker = 1..Len(worker)
        /\ \A i \in DOMAIN worker : worker'[i] = worker[i]
        /\ worker'[Len(worker) + 1].type # "write"
    <3>1. /\ DOMAIN worker' = 1..(Len(worker) + 1) /\ DOMAIN worker = 1..Len(worker)
          /\ \A i \in DOMAIN worker : worker'[i] = worker[i]
      BY <1>1, <1>3, TaskAdded
    <3>2. ASSUME NEW u \in Users, SignIn(u) PROVE worker'[Len(worker) + 1].type = "credential"
      <4>1. worker'[Len(worker) + 1] = [type |-> "credential", user |-> u]
        BY <1>3, <3>2, TaskAdded
      <4>. QED  BY <4>1
    <3>3. ASSUME NEW current \in BOOLEAN, FetchToken(current)
          PROVE  worker'[Len(worker) + 1].type = "token"
      <4>1. \E ok \in BOOLEAN : worker'[Len(worker) + 1] =
              [type |-> "token", user |-> auth, ok |-> ok, current |-> current]
        BY <1>3, <3>3, TaskAdded
      <4>. QED  BY <4>1
    <3>. QED  BY <1>3, <3>1, <3>2, <3>3
  <2>3. \A i \in DOMAIN worker' : worker'[i].type = "write" =>
          i \in DOMAIN worker /\ worker'[i] = worker[i]
    BY <1>1, <2>2
  <2>. QED  BY <1>1, <2>1, <2>3 DEF Inv, TasksInOrder
<1>4. CASE RunWrite
  <2>1. /\ worker # <<>> /\ worker' \in Seq(Tasks)
        /\ \A i \in DOMAIN worker' :
             /\ i + 1 \in DOMAIN worker
             /\ worker'[i].type = worker[i + 1].type
             /\ worker'[i].type = "write" => worker'[i].write = worker[i + 1].write
    BY <1>4, TasksMove
  <2>2. writer' = writer
    BY <1>4 DEF RunWrite, history
  <2>3. worker[1].type = "write" /\ worker[1].write \in Nat /\ worker[1].write <= Len(writer)
    BY <1>4, RunWriteDoes DEF Writes
  <2>4. Len(writer) + 1 \in FreshWrites'
    <3>1. worker[1].write < Len(writer) + 1
      BY <1>1, <2>3
    <3>. QED  BY <1>1, <1>4, <3>1, FreshAfterWrite
  <2>5. ASSUME NEW i \in DOMAIN worker', worker'[i].type = "write"
        PROVE  worker[i + 1].write \in FreshWrites'
    <3>1. 1 \in DOMAIN worker /\ 1 < i + 1 /\ worker[i + 1].type = "write"
      BY <1>1, <2>1, <2>5
    <3>2. worker[1].write < worker[i + 1].write /\ worker[i + 1].write \in FreshWrites
      BY <1>1, <2>1, <2>3, <3>1 DEF Inv, TasksInOrder
    <3>. QED  BY <1>4, <3>2, FreshAfterWrite
  <2>. QED  BY <2>1, <2>2, <2>4, <2>5, OrderKept
<1>5. CASE RunCredential \/ RunToken
  <2>1. FreshWrites \subseteq FreshWrites' /\ writer' = writer
    BY <1>5, FreshStays DEF RunCredential, RunToken, history
  <2>2. /\ worker' \in Seq(Tasks)
        /\ \A i \in DOMAIN worker' :
             /\ i + 1 \in DOMAIN worker
             /\ worker'[i].type = worker[i + 1].type
             /\ worker'[i].type = "write" => worker'[i].write = worker[i + 1].write
    BY <1>5, TasksMove
  <2>. QED  BY <1>1, <2>1, <2>2, OrderKept
<1>6. CASE StreamStep
  <2>1. FreshWrites \subseteq FreshWrites'
    BY <1>6, FreshStays
  <2>2. writer' = writer
    BY <1>6 DEF StreamStep, RunConnectivity, BackoffElapses, IdleTimeout,
       OnWriteStreamHandshakeComplete, OnWriteStreamMutationResult, HandleWriteError,
       OnWriteStreamClose, ApplyRemoteEvent, Service, ServiceGreets, ServiceApplies,
       ServiceRefuses, NetworkFails, history
  <2>3. /\ worker' \in Seq(Tasks) /\ DOMAIN worker' = DOMAIN worker
        /\ \A i \in DOMAIN worker' :
             /\ worker'[i].type = worker[i].type
             /\ worker'[i].type = "write" => worker'[i].write = worker[i].write
    BY <1>6, TasksStay
  <2>4. \A i \in DOMAIN worker' :
           /\ i + 0 \in DOMAIN worker
           /\ worker'[i].type = worker[i + 0].type
           /\ worker'[i].type = "write" =>
                /\ worker'[i].write = worker[i + 0].write
                /\ worker[i + 0].write \in FreshWrites'
    <3>1. \A i \in DOMAIN worker' : i + 0 = i
      BY <2>3
    <3>. QED  BY <1>1, <2>1, <2>3, <3>1
  <2>. QED  BY <1>1, <2>1, <2>2, <2>3, <2>4, OrderKept
<1>7. CASE Restart
  <2>1. worker' = <<>> /\ writer' = writer /\ FreshWrites \subseteq FreshWrites'
    BY <1>7, FreshStays DEF Restart
  <2>. QED  BY <1>1, <2>1 DEF TasksInOrder
<1>. QED  BY <1>2, <1>3, <1>4, <1>5, <1>6, <1>7 DEF Next, StreamStep, Service

------------------------------------------------------------------------------
(* The tokens *)

LEMMA NoneCurrent ==
  ASSUME \A i \in DOMAIN worker' : ~CurrentToken(worker'[i]),
         TRUE \in asks' => stream' = "Starting"
  PROVE  TokensCurrent'
BY DEF TokensCurrent

LEMMA TokensKept ==
  ASSUME Inv, Next
  PROVE  TokensCurrent'
<1>1. worker \in Seq(Tasks)
  BY DEF Inv, TypeOK
<1>2. CASE Write \/ \E u \in Users : SignIn(u)
  <2>1. UNCHANGED <<asks, stream>>
    BY <1>2 DEF Write, SignIn
  <2>2. ~CurrentToken(worker'[Len(worker) + 1])
    <3>1. ASSUME Write PROVE ~CurrentToken(worker'[Len(worker) + 1])
      <4>1. worker'[Len(worker) + 1] = [type |-> "write", write |-> Len(writer) + 1]
        BY <3>1, TaskAdded
      <4>. QED  BY <4>1 DEF CurrentToken
    <3>2. ASSUME NEW u \in Users, SignIn(u) PROVE ~CurrentToken(worker'[Len(worker) + 1])
      <4>1. worker'[Len(worker) + 1] = [type |-> "credential", user |-> u]
        BY <1>2, <3>2, TaskAdded
      <4>. QED  BY <4>1 DEF CurrentToken
    <3>. QED  BY <1>2, <3>1, <3>2
  <2>3. \A i \in DOMAIN worker' : CurrentToken(worker'[i]) =>
          i \in DOMAIN worker /\ worker'[i] = worker[i]
    <3>1. /\ DOMAIN worker' = 1..(Len(worker) + 1) /\ DOMAIN worker = 1..Len(worker)
          /\ \A i \in DOMAIN worker : worker'[i] = worker[i]
      BY <1>1, <1>2, TaskAdded
    <3>. QED  BY <1>1, <2>2, <3>1
  <2>. QED  BY <2>1, <2>3 DEF Inv, TokensCurrent
<1>3. ASSUME NEW current \in BOOLEAN, FetchToken(current) PROVE TokensCurrent'
  <2>1. asks' = asks \ {current} /\ stream' = stream /\ current \in asks
    BY <1>3 DEF FetchToken
  <2>2. /\ DOMAIN worker' = 1..(Len(worker) + 1) /\ DOMAIN worker = 1..Len(worker)
        /\ \A i \in DOMAIN worker : worker'[i] = worker[i]
    BY <1>1, <1>3, TaskAdded
  <2>3. CurrentToken(worker'[Len(worker) + 1]) <=> current
    <3>1. \E ok \in BOOLEAN : worker'[Len(worker) + 1] =
            [type |-> "token", user |-> auth, ok |-> ok, current |-> current]
      BY <1>3, TaskAdded
    <3>. QED  BY <3>1 DEF CurrentToken
  <2>4. CASE current = TRUE
    <3>1. stream = "Starting" /\ \A i \in DOMAIN worker : ~CurrentToken(worker[i])
      BY <2>1, <2>4 DEF Inv, TokensCurrent
    <3>2. \A i \in DOMAIN worker' : CurrentToken(worker'[i]) => i = Len(worker) + 1
      BY <1>1, <2>2, <3>1
    <3>. QED  BY <2>1, <2>4, <3>1, <3>2 DEF TokensCurrent
  <2>5. CASE current = FALSE
    <3>1. \A i \in DOMAIN worker' : CurrentToken(worker'[i]) =>
            i \in DOMAIN worker /\ worker'[i] = worker[i]
      BY <1>1, <2>2, <2>3, <2>5
    <3>. QED  BY <2>1, <2>5, <3>1 DEF Inv, TokensCurrent
  <2>. QED  BY <2>4, <2>5
<1>4. CASE RunWrite
  <2>1. stream \in States /\ asks \in SUBSET BOOLEAN /\ pipeline \in Seq(Batches)
        /\ Len(pipeline) <= MaxPending
    BY DEF Inv, TypeOK, States
  <2>2. /\ Started(stream) => stream' = stream /\ asks' = asks
        /\ TRUE \in asks' => TRUE \in asks \/ stream' = "Starting"
    BY <1>4, <2>1, RunWriteDoes, Filled
  <2>3. \A i \in DOMAIN worker' :
          i + 1 \in DOMAIN worker /\ (CurrentToken(worker'[i]) => CurrentToken(worker[i + 1]))
    BY <1>4, TasksMove
  <2>4. CASE Started(stream)
    <3>1. \A i, j \in DOMAIN worker' : i + 1 = j + 1 => i = j
      BY <1>4, TasksMove
    <3>. QED  BY <2>2, <2>3, <2>4, <3>1 DEF Inv, TokensCurrent
  <2>5. CASE ~Started(stream)
    <3>1. stream # "Starting"
      BY <2>5 DEF Started
    <3>. QED  BY <2>2, <2>3, <3>1, NoneCurrent DEF Inv, TokensCurrent
  <2>. QED  BY <2>4, <2>5
<1>5. CASE RunCredential \/ RunConnectivity \/ Restart
  <2>1. TRUE \in asks' => stream' = "Starting"
    BY <1>5, RestartingDoes
  <2>2. \A i \in DOMAIN worker' : ~CurrentToken(worker'[i])
    <3>1. CASE RunCredential
      BY <1>1, <3>1, Shortened, Outdates DEF RunCredential
    <3>2. CASE RunConnectivity
      BY <1>1, <3>2, Outdates DEF RunConnectivity
    <3>3. CASE Restart
      BY <3>3, EmptySeq DEF Restart
    <3>. QED  BY <1>5, <3>1, <3>2, <3>3
  <2>. QED  BY <2>1, <2>2, NoneCurrent
<1>6. CASE RunToken
  <2>1. /\ worker # <<>> /\ 1 \in DOMAIN worker /\ Head(worker) = worker[1]
        /\ Head(worker).type = "token"
    BY <1>1, <1>6 DEF RunToken
  <2>2. \A i \in DOMAIN worker' :
          /\ i + 1 \in DOMAIN worker /\ i + 1 # 1
          /\ CurrentToken(worker'[i]) => CurrentToken(worker[i + 1])
    BY <1>6, TasksMove
  <2>3. CASE ~Head(worker).current
    <3>1. UNCHANGED <<asks, stream>>
      BY <1>6, <2>3 DEF RunToken
    <3>2. \A i, j \in DOMAIN worker' : i + 1 = j + 1 => i = j
      BY <1>6, TasksMove
    <3>. QED  BY <2>2, <3>1, <3>2 DEF Inv, TokensCurrent
  <2>4. CASE Head(worker).current
    <3>1. CurrentToken(worker[1])
      BY <2>1, <2>4 DEF CurrentToken
    <3>2. TRUE \notin asks /\ \A i \in DOMAIN worker : CurrentToken(worker[i]) => i = 1
      BY <2>1, <3>1 DEF Inv, TokensCurrent
    <3>3. TRUE \notin asks'
      BY <1>6, <2>4, <3>2 DEF RunToken, Outdated
    <3>. QED  BY <2>2, <3>2, <3>3, NoneCurrent
  <2>. QED  BY <2>3, <2>4
<1>7. CASE OnWriteStreamMutationResult
  <2>1. stream \in States /\ asks \in SUBSET BOOLEAN /\ stream = "Open"
    BY <1>7, SettlingDoes DEF States, Inv, TypeOK
  <2>2. Started(stream)
    BY <2>1 DEF Started
  <2>3. /\ Tail(queue[user]) \in Seq(Batches) /\ Increasing(Tail(queue[user]))
        /\ Tail(pipeline) \in Seq(Batches) /\ Len(Tail(pipeline)) <= MaxPending
        /\ IsPrefix(Tail(pipeline), Tail(queue[user]))
        /\ FillWritePipeline(Tail(pipeline), Tail(queue[user]), stream, asks)
    BY <1>7, SettlingDoes
  <2>4. stream' = stream /\ asks' = asks
    BY <2>1, <2>2, <2>3, Filled
  <2>. QED  BY <1>7, <2>4 DEF OnWriteStreamMutationResult, Inv, TokensCurrent
<1>8. CASE HandleWriteError /\ ~OnWriteStreamMutationResult
  <2>1. Outdated(asks) \in SUBSET {FALSE}
    BY DEF Outdated
  <2>2. TRUE \in asks' => stream' = "Starting"
    BY <1>8, <2>1, SettlingDoes, Reopened DEF HandleWriteError
  <2>3. \A i \in DOMAIN worker' : ~CurrentToken(worker'[i])
    BY <1>1, <1>8, Outdates DEF HandleWriteError
  <2>. QED  BY <2>2, <2>3, NoneCurrent
<1>9. CASE BackoffElapses
  <2>1. \A i \in DOMAIN worker' : ~CurrentToken(worker'[i])
    BY <1>9 DEF BackoffElapses, Inv, TokensCurrent
  <2>. QED  BY <1>9, <2>1, NoneCurrent DEF BackoffElapses
<1>10. CASE IdleTimeout \/ OnWriteStreamClose
  <2>1. worker' = OutdatedTasks(worker) /\ asks' = Outdated(asks)
    BY <1>10 DEF IdleTimeout, OnWriteStreamClose
  <2>2. \A i \in DOMAIN worker' : ~CurrentToken(worker'[i])
    BY <1>1, <2>1, Outdates
  <2>. QED  BY <2>1, <2>2, NoneCurrent DEF Outdated
<1>11. CASE UNCHANGED <<worker, asks, stream>>
  BY <1>11 DEF Inv, TokensCurrent
<1>. QED  BY <1>2, <1>3, <1>4, <1>5, <1>6, <1>7, <1>8, <1>9, <1>10, <1>11
     DEF Next, OnWriteStreamHandshakeComplete, ApplyRemoteEvent, ServiceGreets,
         ServiceApplies, ServiceRefuses, NetworkFails

------------------------------------------------------------------------------
(* In whose name *)

LEMMA Named ==
  ASSUME Inv, Next
  PROVE  TasksNamed'
<1>1. /\ worker \in Seq(Tasks) /\ Len(worker) \in Nat /\ DOMAIN worker = 1..Len(worker)
      /\ Acting(worker, user, Len(worker) + 1, auth)
      /\ writer \in Seq(Users)
      /\ \A i \in DOMAIN worker :
           /\ worker[i].type = "write" =>
                /\ Acting(worker, user, i, writer[worker[i].write])
                /\ worker[i].write \in 1..Len(writer)
           /\ worker[i].type = "token" => Acting(worker, user, i, worker[i].user)
  <2>1. worker \in Seq(Tasks) /\ writer \in Seq(Users)
    BY DEF Inv, TypeOK
  <2>2. ASSUME NEW i \in DOMAIN worker, worker[i].type = "write"
        PROVE  worker[i].write \in 1..Len(writer)
    <3>1. worker[i].write \in Writes /\ worker[i].write <= Len(writer)
      BY <2>1, <2>2, TaskKinds DEF Inv, TasksInOrder
    <3>. QED  BY <2>1, <3>1 DEF Writes
  <2>. QED  BY <2>1, <2>2 DEF Inv, TasksNamed
<1>2. CASE \/ Write
           \/ \E u \in Users : SignIn(u)
           \/ \E current \in BOOLEAN : FetchToken(current)
  <2>1. user' = user
    BY <1>2 DEF Write, SignIn, FetchToken
  <2>2. /\ worker' \in Seq(Tasks) /\ Len(worker') = Len(worker) + 1
        /\ DOMAIN worker' = 1..(Len(worker) + 1)
        /\ \A i \in DOMAIN worker : worker'[i] = worker[i]
    BY <1>1, <1>2, TaskAdded
  <2>3. ASSUME NEW i \in 1..(Len(worker) + 1), NEW u, Acting(worker, user, i, u)
        PROVE  Acting(worker', user', i, u)
    <3>1. \A k \in 1..Len(worker) :
            /\ worker'[k].type = worker[k].type
            /\ worker[k].type = "credential" => worker'[k].user = worker[k].user
      BY <1>1, <2>1, <2>2
    <3>2. Len(worker) <= Len(worker')
      BY <1>1, <2>1, <2>2
    <3>3. Acting(worker', user, i, u)
      BY <1>1, <2>1, <2>2, <2>3, <3>1, <3>2, ActingLike
    <3>. QED  BY <2>1, <2>2, <3>3
  <2>4. \A w \in 1..Len(writer) : writer'[w] = writer[w]
    <3>1. writer' = writer \/ \E a \in Users : writer' = Append(writer, a)
      BY <1>2 DEF Write, SignIn, FetchToken, history, Inv, TypeOK
    <3>. QED  BY <1>1, <3>1
  <2>5. \A i \in DOMAIN worker :
           /\ worker'[i].type = "write" => Acting(worker', user', i, writer'[worker'[i].write])
           /\ worker'[i].type = "token" => Acting(worker', user', i, worker'[i].user)
    BY <1>1, <2>2, <2>3, <2>4
  <2> DEFINE t == worker'[Len(worker) + 1]
  <2>6. /\ Acting(worker', user', Len(worker) + 2, auth')
        /\ t.type = "write" => Acting(worker', user', Len(worker) + 1, writer'[t.write])
        /\ t.type = "token" => Acting(worker', user', Len(worker) + 1, t.user)
    <3>1. Acting(worker', user', Len(worker) + 1, auth)
      BY <1>1, <2>3
    <3>2. ASSUME t.type # "credential"
          PROVE  Acting(worker', user', Len(worker) + 2, auth)
      <4>1. CASE auth = user' /\ \A k \in 1..Len(worker) : worker'[k].type # "credential"
        <5>1. \A k \in 1..(Len(worker) + 1) : worker'[k].type # "credential"
          BY <1>1, <3>2, <4>1
        <5>. QED  BY <1>1, <4>1, <5>1 DEF Acting
      <4>2. ASSUME NEW k \in 1..Len(worker), worker'[k].type = "credential",
                   worker'[k].user = auth,
                   \A m \in (k + 1)..Len(worker) : worker'[m].type # "credential"
            PROVE  Acting(worker', user', Len(worker) + 2, auth)
        <5>1. ASSUME NEW m \in (k + 1)..(Len(worker) + 1) PROVE worker'[m].type # "credential"
          <6>1. m \in (k + 1)..Len(worker) \/ m = Len(worker) + 1
            BY <1>1
          <6>. QED  BY <3>2, <4>2, <6>1
        <5>2. k \in 1..(Len(worker) + 2 - 1) /\ Len(worker) + 2 - 1 = Len(worker) + 1
          BY <1>1
        <5>. QED  BY <4>2, <5>1, <5>2 DEF Acting
      <4>3. Len(worker) + 1 - 1 = Len(worker)
        BY <1>1
      <4>. QED  BY <3>1, <4>1, <4>2, <4>3 DEF Acting
    <3>3. CASE Write
      <4>1. t = [type |-> "write", write |-> Len(writer) + 1] /\ auth' = auth
        BY <1>2, <3>3, TaskAdded DEF Write, disk
      <4>2. writer'[Len(writer) + 1] = auth
        BY <1>1, <3>3 DEF Write
      <4>. QED  BY <3>1, <3>2, <4>1, <4>2
    <3>4. ASSUME NEW u \in Users, SignIn(u)
          PROVE  t.type = "credential" /\ Acting(worker', user', Len(worker) + 2, auth')
      <4>1. t = [type |-> "credential", user |-> u] /\ auth' = u
        BY <1>2, <3>4, TaskAdded DEF SignIn
      <4>2. Len(worker) + 1 \in 1..(Len(worker) + 2 - 1)
            /\ \A m \in (Len(worker) + 1 + 1)..(Len(worker) + 2 - 1) : FALSE
        BY <1>1
      <4>. QED  BY <4>1, <4>2 DEF Acting
    <3>5. ASSUME NEW current \in BOOLEAN, FetchToken(current)
          PROVE  t.type = "token" /\ t.user = auth /\ auth' = auth
      <4>1. \E ok \in BOOLEAN : t = [type |-> "token", user |-> auth, ok |-> ok, current |-> current]
        BY <1>2, <3>5, TaskAdded
      <4>. QED  BY <3>5, <4>1 DEF FetchToken, disk
    <3>. QED  BY <1>2, <3>1, <3>2, <3>3, <3>4, <3>5
  <2>7. Len(worker') + 1 = Len(worker) + 2 /\ DOMAIN worker' = DOMAIN worker \cup {Len(worker) + 1}
    BY <1>1, <2>2
  <2>. QED  BY <2>5, <2>6, <2>7 DEF TasksNamed
<1>3. CASE RunWrite \/ RunCredential \/ RunToken
  <2>1. /\ worker # <<>> /\ worker' \in Seq(Tasks) /\ Len(worker') = Len(worker) - 1
        /\ \A i \in DOMAIN worker' :
              /\ i + 1 \in DOMAIN worker
              /\ worker'[i].type = worker[i + 1].type
              /\ worker'[i].type = "write" => worker'[i].write = worker[i + 1].write
              /\ worker'[i].type # "write" => worker'[i].user = worker[i + 1].user
    BY <1>3, TasksMove
  <2>2. writer' = writer /\ auth' = auth
    BY <1>3 DEF RunWrite, RunCredential, RunToken, disk, history
  <2>3. user' = IF Head(worker).type = "credential" THEN Head(worker).user ELSE user
    BY <1>3 DEF RunWrite, RunCredential, RunToken
  <2>4. /\ Tail(worker) \in Seq(Tasks) /\ Len(Tail(worker)) = Len(worker) - 1
        /\ \A i \in 1..(Len(worker) - 1) : Tail(worker)[i] = worker[i + 1]
    BY <1>1, <2>1, HeadTailProperties
  <2>5. ASSUME NEW i \in 1..Len(worker), NEW u, Acting(worker, user, i + 1, u)
        PROVE  Acting(worker', user', i, u)
    <3>1. Acting(Tail(worker), user', i, u)
      BY <1>1, <2>1, <2>3, <2>5, ActingTail
    <3>2. \A k \in 1..Len(Tail(worker)) :
            /\ worker'[k].type = Tail(worker)[k].type
            /\ Tail(worker)[k].type = "credential" => worker'[k].user = Tail(worker)[k].user
      BY <1>1, <2>1, <2>4
    <3>3. i \in 1..(Len(Tail(worker)) + 1) /\ Len(Tail(worker)) <= Len(worker')
      BY <1>1, <2>1, <2>4
    <3>. QED  BY <2>1, <2>4, <3>1, <3>2, <3>3, ActingLike
  <2>6. ASSUME NEW i \in DOMAIN worker'
        PROVE  /\ worker'[i].type = "write" => Acting(worker', user', i, writer'[worker'[i].write])
               /\ worker'[i].type = "token" => Acting(worker', user', i, worker'[i].user)
    <3>1. i \in 1..Len(worker) /\ i + 1 \in DOMAIN worker
      BY <1>1, <2>1
    <3>. QED  BY <1>1, <2>1, <2>2, <2>5, <3>1
  <2>7. Acting(worker', user', Len(worker') + 1, auth')
    <3>1. Len(worker) \in 1..Len(worker) /\ Len(worker) = Len(worker') + 1
      BY <1>1, <2>1
    <3>2. Acting(worker', user', Len(worker), auth)
      BY <1>1, <2>5, <3>1
    <3>. QED  BY <2>2, <3>1, <3>2
  <2>. QED  BY <2>6, <2>7 DEF TasksNamed
<1>4. CASE StreamStep
  <2>1. /\ worker' \in Seq(Tasks) /\ Len(worker') = Len(worker) /\ DOMAIN worker' = DOMAIN worker
        /\ \A i \in DOMAIN worker' :
              /\ worker'[i].type = worker[i].type
              /\ worker'[i].type = "write" => worker'[i].write = worker[i].write
              /\ worker'[i].type # "write" => worker'[i].user = worker[i].user
    BY <1>4, TasksStay
  <2>2. writer' = writer /\ user' = user /\ auth' = auth
    BY <1>4 DEF StreamStep, RunConnectivity, BackoffElapses, IdleTimeout,
       OnWriteStreamHandshakeComplete, OnWriteStreamMutationResult, HandleWriteError,
       OnWriteStreamClose, ApplyRemoteEvent, Service, ServiceGreets, ServiceApplies,
       ServiceRefuses, NetworkFails, disk, history
  <2>3. ASSUME NEW i \in 1..(Len(worker) + 1), NEW u, Acting(worker, user, i, u)
        PROVE  Acting(worker', user', i, u)
    <3>1. \A k \in 1..Len(worker) :
            /\ worker'[k].type = worker[k].type
            /\ worker[k].type = "credential" => worker'[k].user = worker[k].user
      BY <1>1, <2>1, <2>2
    <3>2. Len(worker) <= Len(worker')
      BY <1>1, <2>1, <2>2
    <3>3. Acting(worker', user, i, u)
      BY <1>1, <2>1, <2>2, <2>3, <3>1, <3>2, ActingLike
    <3>. QED  BY <2>1, <2>2, <3>3
  <2>. QED  BY <1>1, <2>1, <2>2, <2>3 DEF TasksNamed
<1>5. CASE Restart
  <2>1. worker' = <<>> /\ user' = auth /\ auth' = auth
    BY <1>5 DEF Restart, disk
  <2>. QED  BY <2>1, EmptySeq DEF TasksNamed, Acting
<1>. QED  BY <1>2, <1>3, <1>4, <1>5 DEF Next, StreamStep, Service

------------------------------------------------------------------------------
(* The connection *)

LEMMA NotGreeted ==
  ASSUME Inv, stream = "Open",
         \/ ~handshake
         \/ toClient # <<>> /\ Head(toClient).type = "hello"
         \/ toServer # <<>> /\ Head(toServer).type = "hello" /\ ~Ended
  PROVE  ~handshake /\ Greeting
<1>1. CASE handshake
  <2>1. Dialogue
    BY <1>1 DEF Inv, Connection
  <2>2. CASE toClient # <<>> /\ Head(toClient).type = "hello"
    <3>1. 1 \in DOMAIN toClient /\ toClient[1].type = "hello"
      BY <2>2 DEF Inv, TypeOK
    <3>. QED  BY <2>1, <3>1 DEF Dialogue
  <2>3. CASE toServer # <<>> /\ Head(toServer).type = "hello" /\ ~Ended
    <3>1. 1 \in DOMAIN toServer /\ toServer[1].type = "hello"
      BY <2>3 DEF Inv, TypeOK
    <3>2. toServer[1].type = "mutations"
      BY <2>1, <2>3, <3>1 DEF Dialogue, Mutations
    <3>. QED  BY <3>1, <3>2
  <2>. QED  BY <1>1, <2>2, <2>3
<1>. QED  BY <1>1 DEF Inv, Connection

\* Until the connection ends, all the answers are results.
LEMMA AllResults ==
  ASSUME Inv, handshake, ~Ended, NEW i \in DOMAIN toClient
  PROVE  toClient[i].type = "result"
<1>1. Dialogue /\ toClient \in Seq(Answers)
  BY DEF Inv, TypeOK, Connection
<1>2. toClient[i].type \in {"hello", "failed", "result", "refused"}
  <2>1. toClient[i] \in Answers
    BY <1>1
  <2>. QED  BY <2>1 DEF Answers, Hello, Failure
<1>3. toClient[i].type # "result" => i = Len(toClient) /\ toClient # <<>>
  BY <1>1 DEF Dialogue
<1>. QED  BY <1>1, <1>2, <1>3 DEF Dialogue, Ended, Last

LEMMA ConnectedToken ==
  ASSUME Inv, RunToken
  PROVE  Connection'
<1>1. /\ worker \in Seq(Tasks) /\ worker # <<>> /\ 1 \in DOMAIN worker
      /\ Head(worker) = worker[1] /\ worker[1].type = "token"
  BY DEF RunToken, Inv, TypeOK
<1>2. UNCHANGED <<user, handshake, idle, pipeline, log, refused>>
  BY DEF RunToken, history
<1>3. CASE ~Head(worker).current
  <2>1. UNCHANGED <<stream, net>>
    BY <1>3 DEF RunToken
  <2>. QED  BY <1>2, <2>1 DEF Inv, Connection, net, Greeting, Dialogue, Truths, Ended
<1>4. CASE Head(worker).current
  <2>1. stream = "Starting"
    BY <1>1, <1>4 DEF CurrentToken, Inv, TokensCurrent
  <2>2. toServer = <<>> /\ toClient = <<>> /\ ~handshake /\ ~idle
    BY <2>1 DEF Inv, Connection
  <2>3. CASE Head(worker).ok
    <3>1. stream' = "Open" /\ toServer' = <<Hello>> /\ toClient' = toClient /\ account' = worker[1].user
      BY <1>1, <1>4, <2>3 DEF RunToken
    <3>2. worker[1].user = user
      BY <1>1 DEF Inv, TasksNamed, Acting
    <3>. QED  BY <1>2, <2>2, <3>1, <3>2 DEF Connection, Greeting
  <2>4. CASE ~Head(worker).ok
    <3>1. stream' = "Backoff" /\ UNCHANGED net
      BY <1>4, <2>4 DEF RunToken
    <3>. QED  BY <1>2, <2>2, <3>1 DEF Connection, net
  <2>. QED  BY <2>3, <2>4
<1>. QED  BY <1>3, <1>4

LEMMA ConnectedWrite ==
  ASSUME Inv, RunWrite
  PROVE  Connection'
<1> DEFINE q == Append(queue[user], [id |-> nextId, write |-> worker[1].write])
<1>1. /\ q \in Seq(Batches) /\ q # <<>> /\ Increasing(q) /\ IsPrefix(pipeline, q)
      /\ FillWritePipeline(pipeline, q, stream, asks)
  BY RunWriteDoes
<1> HIDE DEF q
<1>2. /\ stream \in States /\ asks \in SUBSET BOOLEAN /\ toServer \in Seq(Requests)
      /\ pipeline \in Seq(Batches) /\ Len(pipeline) <= MaxPending
      /\ toClient \in Seq(Answers) /\ idle \in BOOLEAN
  BY DEF Inv, TypeOK, States
<1>3. UNCHANGED <<user, handshake, account, toClient, log, refused>>
  BY DEF RunWrite, history
<1>4. /\ pipeline' = pipeline \o NextBatches(pipeline, q) /\ pipeline' \in Seq(Batches)
      /\ NextBatches(pipeline, q) \in Seq(Batches) /\ pipeline' # <<>>
      /\ stream' \in States
      /\ Started(stream) => stream' = stream
      /\ ~Started(stream) => stream' # "Open"
      /\ stream # "Open" => toServer' = <<>> /\ idle' = FALSE
      /\ idle' /\ (idle => handshake /\ pipeline = <<>>) => pipeline' = <<>>
      /\ idle' \in BOOLEAN
  BY <1>1, <1>2, Filled, Following
<1>5. idle' = FALSE
  BY <1>4 DEF Inv, Connection
<1>6. CASE stream # "Open"
  <2>1. stream' # "Open"
    BY <1>4, <1>6
  <2>. QED  BY <1>3, <1>4, <1>5, <1>6, <2>1 DEF Inv, Connection
<1>7. CASE stream = "Open" /\ ~handshake
  <2>1. stream' = stream /\ toServer' = toServer
    BY <1>1, <1>2, <1>4, <1>7, Sent DEF Started
  <2>. QED  BY <1>3, <1>5, <1>7, <2>1 DEF Inv, Connection, Greeting
<1>8. CASE stream = "Open" /\ handshake
  <2>1. stream' = stream
    BY <1>4, <1>8 DEF Started
  <2>2. /\ toServer' \in Seq(Requests)
        /\ Len(toServer') = Len(toServer) + Len(pipeline') - Len(pipeline)
        /\ \A i \in 1..Len(toServer) : toServer'[i] = toServer[i]
        /\ \A i \in 1..(Len(pipeline') - Len(pipeline)) :
             toServer'[Len(toServer) + i] = Mutations(pipeline'[Len(pipeline) + i])
    BY <1>1, <1>2, <1>8, Sent
  <2>3. Dialogue
    BY <1>8 DEF Inv, Connection
  <2>4. /\ Len(pipeline) \in Nat /\ Len(pipeline') \in Nat /\ Len(pipeline) <= Len(pipeline')
        /\ Len(toServer) \in Nat /\ Len(toClient) \in Nat
        /\ \A i \in 1..Len(pipeline) : pipeline'[i] = pipeline[i]
    BY <1>2, <1>4
  <2>5. ASSUME NEW i \in DOMAIN toClient, toClient[i].type # "failed"
        PROVE  /\ i \in DOMAIN pipeline' /\ pipeline'[i].write = toClient[i].write
               /\ toClient[i] \in Truths
    <3>1. i \in 1..Len(pipeline) /\ pipeline[i].write = toClient[i].write /\ toClient[i] \in Truths
      BY <1>2, <2>3, <2>5 DEF Dialogue
    <3>. QED  BY <1>4, <2>4, <3>1
  <2>6. ASSUME ~Ended
        PROVE  /\ Len(toClient) + Len(toServer') = Len(pipeline')
               /\ \A j \in DOMAIN toServer' : toServer'[j] = Mutations(pipeline'[Len(toClient) + j])
    <3>1. Len(toClient) + Len(toServer) = Len(pipeline)
          /\ \A j \in 1..Len(toServer) : toServer[j] = Mutations(pipeline[Len(toClient) + j])
      BY <1>2, <2>3, <2>6 DEF Dialogue
    <3>2. ASSUME NEW j \in DOMAIN toServer'
          PROVE  toServer'[j] = Mutations(pipeline'[Len(toClient) + j])
      <4>1. CASE j \in 1..Len(toServer)
        <5>1. Len(toClient) + j \in 1..Len(pipeline)
          BY <2>4, <3>1, <4>1
        <5>. QED  BY <2>2, <2>4, <3>1, <4>1, <5>1
      <4>2. CASE j \notin 1..Len(toServer)
        <5> DEFINE i == j - Len(toServer)
        <5>1. /\ i \in 1..(Len(pipeline') - Len(pipeline)) /\ j = Len(toServer) + i
              /\ Len(pipeline) + i = Len(toClient) + j
          <6>1. j \in Nat /\ Len(toServer) < j /\ j <= Len(toServer')
            BY <2>2, <2>4, <4>2
          <6>2. /\ Len(toServer') = Len(toServer) + Len(pipeline') - Len(pipeline)
                /\ Len(toClient) + Len(toServer) = Len(pipeline)
                /\ Len(pipeline) \in Nat /\ Len(pipeline') \in Nat
                /\ Len(toServer) \in Nat /\ Len(toClient) \in Nat
            BY <2>2, <2>4, <3>1
          <6>3. i \in Int /\ 1 <= i /\ i <= Len(pipeline') - Len(pipeline)
            BY <6>1, <6>2
          <6>4. j = Len(toServer) + i
            BY <6>1, <6>2
          <6>6. Len(pipeline') - Len(pipeline) \in Int
            BY <6>2
          <6> HIDE DEF i
          <6>5. Len(pipeline) + i = Len(toClient) + j
            <7>1. j = Len(toServer) + i /\ i \in Int /\ Len(toServer) \in Nat
              BY <6>2, <6>3, <6>4
            <7>2. Len(pipeline) = Len(toClient) + Len(toServer) /\ Len(toClient) \in Nat
              BY <6>2
            <7>. QED  BY <7>1, <7>2
          <6>. QED  BY <6>3, <6>4, <6>5, <6>6
        <5> HIDE DEF i
        <5>2. toServer'[Len(toServer) + i] = Mutations(pipeline'[Len(pipeline) + i])
          BY <2>2, <5>1
        <5>. QED  BY <5>1, <5>2
      <4>. QED  BY <4>1, <4>2
    <3>. QED  BY <2>2, <2>4, <3>1, <3>2
  <2>7. Dialogue'
    <3>1. Ended' = Ended /\ Truths' = Truths /\ toClient' = toClient
      BY <1>3 DEF Ended, Truths
    <3>. QED  BY <2>3, <2>5, <2>6, <3>1 DEF Dialogue
  <2>. QED  BY <1>3, <1>5, <1>8, <2>1, <2>7 DEF Inv, Connection
<1>. QED  BY <1>6, <1>7, <1>8

LEMMA ConnectedHandshake ==
  ASSUME Inv, OnWriteStreamHandshakeComplete
  PROVE  Connection'
<1>1. toClient # <<>> /\ Head(toClient).type = "hello" /\ stream = "Open" /\ account = user
  BY DEF OnWriteStreamHandshakeComplete, Inv, Connection
<1>2. ~handshake /\ Greeting
  BY <1>1, NotGreeted
<1>3. toServer = <<>> /\ toClient \in {<<Hello>>, <<Hello, Failure>>}
  BY <1>1, <1>2 DEF Greeting, Failure, Refusal
<1>4. /\ UNCHANGED <<stream, account, user, idle, pipeline, log, refused>>
      /\ handshake' = TRUE /\ toClient' = Tail(toClient)
      /\ toServer' = toServer \o [i \in DOMAIN pipeline |-> Mutations(pipeline[i])]
  BY DEF OnWriteStreamHandshakeComplete, history
<1>5. toClient' \in {<<>>, <<Failure>>}
  <2>1. Tail(<<Hello>>) = <<>> /\ Tail(<<Hello, Failure>>) = <<Failure>>
    OBVIOUS
  <2>. QED  BY <1>3, <1>4, <2>1
<1> DEFINE sent == [i \in DOMAIN pipeline |-> Mutations(pipeline[i])]
<1>6. pipeline \in Seq(Batches)
  BY DEF Inv, TypeOK
<1>7. \A i \in DOMAIN pipeline : Mutations(pipeline[i]) \in Requests
  BY <1>6, BatchFields DEF Mutations, Requests
<1>8. /\ sent \in Seq(Requests) /\ Len(sent) = Len(pipeline) /\ DOMAIN sent = DOMAIN pipeline
      /\ \A i \in DOMAIN sent : sent[i] = Mutations(pipeline[i])
  BY <1>6, <1>7
<1> HIDE DEF sent
<1>9. toServer' = sent
  BY <1>3, <1>4, <1>8, ConcatEmptySeq DEF sent
<1>10. Dialogue'
  <2>1. CASE toClient' = <<>>
    <3>1. Len(toClient') = 0 /\ DOMAIN toClient' = {}
      BY <2>1
    <3>2. ASSUME NEW j \in DOMAIN sent
          PROVE  toServer'[j] = Mutations(pipeline'[Len(toClient') + j])
      <4>1. Len(toClient') + j = j
        BY <1>6, <1>8, <3>1
      <4>. QED  BY <1>4, <1>8, <1>9, <4>1
    <3>3. Len(toClient') + Len(toServer') = Len(pipeline')
      <4>1. Len(toServer') = Len(pipeline') /\ pipeline' = pipeline
        BY <1>4, <1>8, <1>9
      <4>2. Len(pipeline') \in Nat
        BY <1>6, <4>1
      <4>. QED  BY <3>1, <4>1, <4>2
    <3>. QED  BY <1>9, <3>1, <3>2, <3>3 DEF Dialogue
  <2>2. CASE toClient' = <<Failure>>
    <3>1. Ended'
      BY <2>2 DEF Ended, Last, Failure
    <3>2. Len(toClient') = 1 /\ DOMAIN toClient' = {1} /\ toClient'[1] = Failure
      BY <2>2
    <3>. QED  BY <3>1, <3>2 DEF Dialogue, Failure
  <2>. QED  BY <1>5, <2>1, <2>2
<1>11. idle' = FALSE
  BY <1>2, <1>4 DEF Inv, Connection, TypeOK
<1>. QED  BY <1>1, <1>4, <1>10, <1>11 DEF Connection

LEMMA ConnectedResult ==
  ASSUME Inv, OnWriteStreamMutationResult
  PROVE  Connection'
<1> DEFINE q == Tail(queue[user])
           p == Tail(pipeline)
<1>1. /\ q \in Seq(Batches) /\ Increasing(q) /\ p \in Seq(Batches) /\ Len(p) <= MaxPending
      /\ IsPrefix(p, q) /\ Len(p) = Len(pipeline) - 1 /\ pipeline # <<>>
      /\ stream = "Open" /\ handshake /\ idle = FALSE /\ toClient # <<>>
      /\ FillWritePipeline(p, q, "Open", asks)
      /\ toClient[1].type = "result"
  BY SettlingDoes
<1>2. /\ asks \in SUBSET BOOLEAN /\ toServer \in Seq(Requests) /\ toClient \in Seq(Answers)
      /\ pipeline \in Seq(Batches) /\ "Open" \in States /\ Started("Open")
  BY DEF Inv, TypeOK, States, Started
<1>3. /\ UNCHANGED <<user, handshake, account, log, refused>>
      /\ toClient' = Tail(toClient)
  BY DEF OnWriteStreamMutationResult
<1>4. \A i \in 1..Len(p) : p[i] = pipeline[i + 1]
  BY <1>1, <1>2, HeadTailProperties
<1> HIDE DEF p, q
<1>5. /\ pipeline' = p \o NextBatches(p, q) /\ pipeline' \in Seq(Batches)
      /\ NextBatches(p, q) \in Seq(Batches)
      /\ stream' = "Open" /\ idle' \in BOOLEAN
      /\ idle' /\ (idle => handshake /\ p = <<>>) => pipeline' = <<>>
  BY <1>1, <1>2, Filled, Following
<1>6. /\ toServer' \in Seq(Requests)
      /\ Len(toServer') = Len(toServer) + Len(pipeline') - Len(p)
      /\ \A i \in 1..Len(toServer) : toServer'[i] = toServer[i]
      /\ \A i \in 1..(Len(pipeline') - Len(p)) :
           toServer'[Len(toServer) + i] = Mutations(pipeline'[Len(p) + i])
  BY <1>1, <1>2, Sent
<1>7. Dialogue
  BY <1>1 DEF Inv, Connection
<1>8. /\ toClient' \in Seq(Answers) /\ Len(toClient') = Len(toClient) - 1
      /\ \A i \in 1..Len(toClient') : toClient'[i] = toClient[i + 1]
      /\ Len(toClient) \in Nat \ {0}
  BY <1>1, <1>2, <1>3, HeadTailProperties
<1>9. /\ Len(pipeline) \in Nat /\ Len(pipeline') \in Nat /\ Len(p) \in Nat
      /\ Len(p) <= Len(pipeline') /\ Len(toServer) \in Nat
      /\ \A i \in 1..Len(p) : pipeline'[i] = pipeline[i + 1]
  BY <1>1, <1>2, <1>4, <1>5
<1>10. ASSUME NEW i \in DOMAIN toClient'
       PROVE  /\ toClient'[i].type # "hello"
              /\ toClient'[i].type # "failed" =>
                   /\ i \in DOMAIN pipeline' /\ pipeline'[i].write = toClient'[i].write
                   /\ toClient'[i] \in Truths
              /\ toClient'[i].type # "result" => i = Len(toClient')
  <2>1. /\ i \in 1..Len(toClient') /\ i + 1 \in DOMAIN toClient
        /\ toClient'[i] = toClient[i + 1]
    BY <1>2, <1>8
  <2>2. toClient'[i].type # "hello"
    BY <1>7, <2>1 DEF Dialogue
  <2>3. toClient'[i].type # "result" => i = Len(toClient')
    BY <1>7, <1>8, <2>1 DEF Dialogue
  <2>4. ASSUME toClient'[i].type # "failed"
        PROVE  /\ i \in DOMAIN pipeline' /\ pipeline'[i].write = toClient'[i].write
               /\ toClient'[i] \in Truths
    <3>1. i + 1 \in DOMAIN pipeline /\ pipeline[i + 1].write = toClient'[i].write
          /\ toClient'[i] \in Truths
      BY <1>7, <2>1, <2>4 DEF Dialogue
    <3>2. i \in 1..Len(p)
      BY <1>1, <1>2, <1>9, <2>1, <3>1
    <3>. QED  BY <1>5, <1>9, <3>1, <3>2
  <2>. QED  BY <2>2, <2>3, <2>4
<1>11. ASSUME ~Ended'
       PROVE  ~Ended
  <2>1. CASE Len(toClient) = 1
    BY <1>1, <2>1 DEF Ended, Last
  <2>2. CASE Len(toClient) # 1
    <3>1. Len(toClient') \in 1..Len(toClient') /\ toClient' # <<>>
          /\ toClient'[Len(toClient')] = toClient[Len(toClient)]
      BY <1>8, <2>2
    <3>. QED  BY <1>11, <3>1 DEF Ended, Last
  <2>. QED  BY <2>1, <2>2
<1>12. ASSUME ~Ended
       PROVE  /\ Len(toClient') + Len(toServer') = Len(pipeline')
              /\ \A j \in DOMAIN toServer' : toServer'[j] = Mutations(pipeline'[Len(toClient') + j])
  <2>1. Len(toClient) + Len(toServer) = Len(pipeline)
        /\ \A j \in 1..Len(toServer) : toServer[j] = Mutations(pipeline[Len(toClient) + j])
    <3>1. DOMAIN toServer = 1..Len(toServer)
      BY <1>2
    <3>. QED  BY <1>7, <1>12, <3>1 DEF Dialogue
  <2>2. /\ Len(toServer') = Len(toServer) + Len(pipeline') - Len(p)
        /\ Len(p) = Len(pipeline) - 1 /\ Len(toClient') = Len(toClient) - 1
        /\ Len(toClient) + Len(toServer) = Len(pipeline)
        /\ Len(pipeline) \in Nat /\ Len(pipeline') \in Nat /\ Len(p) \in Nat
        /\ Len(toServer) \in Nat /\ Len(toClient) \in Nat
    BY <1>1, <1>6, <1>8, <1>9, <2>1
  <2>3. Len(toClient') + Len(toServer') = Len(pipeline')
    BY <2>2
  <2>4. ASSUME NEW j \in DOMAIN toServer'
        PROVE  toServer'[j] = Mutations(pipeline'[Len(toClient') + j])
    <3>1. j \in Nat /\ 1 <= j /\ j <= Len(toServer')
      BY <1>6
    <3>2. CASE j \in 1..Len(toServer)
      <4>1. Len(toClient') + j \in 1..Len(p)
        BY <2>2, <3>2
      <4>2. Len(toClient') + j + 1 = Len(toClient) + j
        BY <2>2, <3>2
      <4>3. pipeline'[Len(toClient') + j] = pipeline[Len(toClient) + j]
        BY <1>9, <4>1, <4>2
      <4>. QED  BY <1>6, <2>1, <3>2, <4>3
    <3>3. CASE j \notin 1..Len(toServer)
      <4> DEFINE i == j - Len(toServer)
      <4>1. i \in Int /\ 1 <= i /\ i <= Len(pipeline') - Len(p)
        BY <2>2, <3>1, <3>3
      <4>2. j = Len(toServer) + i
        BY <2>2, <3>1
      <4>4. Len(pipeline') - Len(p) \in Int
        BY <2>2
      <4> HIDE DEF i
      <4>3. Len(p) + i = Len(toClient') + j
        <5>1. Len(toClient') = Len(p) - Len(toServer) /\ Len(toClient') \in Int
          BY <2>2
        <5>. QED  BY <2>2, <4>1, <4>2, <5>1
      <4>5. toServer'[Len(toServer) + i] = Mutations(pipeline'[Len(p) + i])
        BY <1>6, <4>1, <4>4
      <4>. QED  BY <4>2, <4>3, <4>5
    <3>. QED  BY <3>2, <3>3
  <2>. QED  BY <2>3, <2>4
<1>13. Dialogue'
  <2>1. Truths' = Truths
    BY <1>3 DEF Truths
  <2>. QED  BY <1>10, <1>11, <1>12, <2>1 DEF Dialogue
<1>14. idle' => pipeline' = <<>>
  BY <1>1, <1>5
<1>. QED  BY <1>1, <1>3, <1>5, <1>13, <1>14 DEF Inv, Connection

LEMMA AnswerKinds ==
  /\ Hello.type = "hello" /\ Failure.type = "failed" /\ Refusal(0).type = "refused"
  /\ Hello # Failure
BY DEF Hello, Failure, Refusal

LEMMA AppendIs ==
  ASSUME NEW S, NEW s \in Seq(S), NEW b \in S, NEW t \in Seq(S), Len(t) = Len(s) + 1,
         \A i \in 1..Len(s) : t[i] = s[i], t[Len(s) + 1] = b
  PROVE  Append(s, b) = t
<1>1. /\ Append(s, b) \in Seq(S) /\ Len(Append(s, b)) = Len(s) + 1
      /\ \A i \in 1..Len(s) : Append(s, b)[i] = s[i]
      /\ Append(s, b)[Len(s) + 1] = b
  BY AppendProperties
<1>2. \A i \in 1..Len(t) : Append(s, b)[i] = t[i]
  BY <1>1
<1>. QED  BY <1>1, <1>2, SeqEqual

LEMMA GreetingThenFailure ==
  /\ SubSeq(<<Hello>>, 1, 0) = <<>> /\ SubSeq(<<Hello>>, 1, 1) = <<Hello>>
  /\ Append(<<>>, Failure) = <<Failure>> /\ Append(<<Hello>>, Failure) = <<Hello, Failure>>
<1> DEFINE S == {Hello, Failure}
           one == <<Hello>>
<1>1. one \in Seq(S) /\ Len(one) = 1
  OBVIOUS
<1>2. \A b : Append(<<>>, b) = <<b>>
  OBVIOUS
<1>3. Append(<<Hello>>, Failure) = <<Hello, Failure>>
  <2> DEFINE two == <<Hello, Failure>>
  <2>1. two \in Seq(S) /\ Len(two) = 2 /\ two[1] = Hello /\ two[2] = Failure /\ Failure \in S
    OBVIOUS
  <2>2. one[1] = Hello
    OBVIOUS
  <2> HIDE DEF one, two, S
  <2> DEFINE f == Failure
  <2>3. f \in S /\ f = Failure
    BY <2>1
  <2> HIDE DEF f
  <2>4. Len(two) = Len(one) + 1 /\ two[Len(one) + 1] = f
    BY <1>1, <2>1, <2>3
  <2>5. \A i \in 1..Len(one) : two[i] = one[i]
    BY <1>1, <2>1, <2>2
  <2>6. Append(one, f) = two
    BY <1>1, <2>1, <2>3, <2>4, <2>5, AppendIs
  <2>. QED  BY <2>6 DEF one, two, f
<1> HIDE DEF one, S
<1>4. SubSeq(one, 1, 0) = <<>>
  BY SubSeqEmpty
<1>5. SubSeq(one, 1, Len(one)) = one
  BY <1>1, SubSeqFull
<1>. QED  BY <1>1, <1>2, <1>3, <1>4, <1>5 DEF one

LEMMA ConnectedService ==
  ASSUME Inv, Service \/ NetworkFails
  PROVE  Connection'
<1>1. /\ toServer \in Seq(Requests) /\ toClient \in Seq(Answers) /\ Len(toClient) \in Nat
      /\ DOMAIN toClient = 1..Len(toClient) /\ pipeline \in Seq(Batches)
  BY DEF Inv, TypeOK
<1>2. stream = "Open"
  BY DEF Service, ServiceGreets, ServiceApplies, ServiceRefuses, NetworkFails, Inv, Connection
<1>3. UNCHANGED <<stream, handshake, account, user, idle, pipeline>>
  BY DEF Service, ServiceGreets, ServiceApplies, ServiceRefuses, NetworkFails
<1>4. SUFFICES (~handshake => Greeting') /\ (handshake => Dialogue')
  BY <1>2, <1>3 DEF Inv, Connection
<1>5. ~Ended
  BY DEF Service, ServiceGreets, ServiceApplies, ServiceRefuses, NetworkFails
<1>6. CASE ~handshake
  <2>1. Greeting
    BY <1>2, <1>6, NotGreeted
  <2>2. ASSUME toClient # <<>>, toClient[Len(toClient)].type \in {"failed", "refused"}
        PROVE  FALSE
    BY <1>5, <2>2 DEF Ended, Last
  <2>3. toClient \notin {<<Hello, Failure>>, <<Failure>>, <<Refusal(0)>>}
    BY <2>2, AnswerKinds
  <2>4. \/ toServer = <<Hello>> /\ toClient = <<>>
        \/ toServer = <<>> /\ toClient = <<Hello>>
    BY <2>1, <2>3 DEF Greeting
  <2>5. CASE toServer = <<>> /\ toClient = <<Hello>>
    <3>1. NetworkFails
      BY <2>5 DEF Service, ServiceGreets, ServiceApplies, ServiceRefuses
    <3>2. PICK n \in 0..1 : toClient' = Append(SubSeq(toClient, 1, n), Failure)
      BY <2>5, <3>1 DEF NetworkFails
    <3>3. toServer' = <<>>
      BY <3>1 DEF NetworkFails
    <3>4. SubSeq(<<Hello>>, 1, 0) = <<>> /\ SubSeq(<<Hello>>, 1, 1) = <<Hello>>
      BY GreetingThenFailure
    <3>5. Append(<<>>, Failure) = <<Failure>> /\ Append(<<Hello>>, Failure) = <<Hello, Failure>>
      BY GreetingThenFailure
    <3>6. n = 0 \/ n = 1
      OBVIOUS
    <3>7. toClient' \in {<<Failure>>, <<Hello, Failure>>}
      BY <2>5, <3>2, <3>4, <3>5, <3>6
    <3>. QED  BY <1>6, <3>3, <3>7 DEF Greeting
  <2>6. CASE toServer = <<Hello>> /\ toClient = <<>>
    <3>1. toServer # <<>> /\ Head(toServer) = Hello /\ Tail(toServer) = <<>>
      BY <2>6
    <3>2. \A a : Append(<<>>, a) = <<a>>
      OBVIOUS
    <3>3. ~ServiceApplies
      BY <3>1, AnswerKinds DEF ServiceApplies
    <3>4. CASE ServiceGreets
      BY <1>6, <2>6, <3>1, <3>2, <3>4 DEF ServiceGreets, Greeting
    <3>5. CASE ServiceRefuses
      BY <1>6, <2>6, <3>1, <3>2, <3>5, AnswerKinds DEF ServiceRefuses, Greeting
    <3>6. CASE NetworkFails
      <4>1. PICK n \in 0..0 : toClient' = Append(SubSeq(toClient, 1, n), Failure)
        BY <2>6, <3>6 DEF NetworkFails
      <4>2. SubSeq(toClient, 1, 0) = <<>> /\ n = 0
        BY SubSeqEmpty
      <4>3. toClient' = <<Failure>>
        BY <3>2, <4>1, <4>2
      <4>. QED  BY <1>6, <3>6, <4>3 DEF NetworkFails, Greeting
    <3>. QED  BY <3>3, <3>4, <3>5, <3>6 DEF Service
  <2>. QED  BY <1>6, <2>4, <2>5, <2>6
<1>7. CASE handshake
  <2>1. Dialogue
    BY <1>7 DEF Inv, Connection
  <2>2. \A i \in DOMAIN toClient :
          /\ toClient[i].type = "result" /\ toClient[i] \in Truths
          /\ i \in DOMAIN pipeline /\ pipeline[i].write = toClient[i].write
    BY <1>5, <1>7, <2>1, AllResults DEF Dialogue
  <2>3. ~ServiceGreets
    BY <1>2, <1>5, <1>7, NotGreeted DEF ServiceGreets
  <2>4. \A a \in Answers : a \in Truths => a \in Truths'
    <3>1. log \in Seq([write : Writes, as : Users])
      BY DEF Inv, TypeOK
    <3>2. \/ log' = log
          \/ \E e : log' = Append(log, e)
      BY DEF Service, ServiceGreets, ServiceApplies, ServiceRefuses, NetworkFails
    <3>3. refused \subseteq refused'
      BY DEF Service, ServiceGreets, ServiceApplies, ServiceRefuses, NetworkFails, history
    <3>4. \A v \in DOMAIN log : v \in DOMAIN log' /\ log'[v] = log[v]
      BY <3>1, <3>2
    <3>. QED  BY <3>3, <3>4 DEF Truths
  <2>5. CASE ServiceApplies \/ (ServiceRefuses /\ Head(toServer).type # "hello")
    <3> DEFINE k == Len(toClient) + 1
               w == Head(toServer).write
    <3>1. toServer # <<>> /\ Head(toServer).type = "mutations"
      <4>1. toServer # <<>> /\ Head(toServer).type # "hello"
        BY <2>5 DEF ServiceApplies, ServiceRefuses
      <4>2. Head(toServer) \in Requests
        BY <1>1, <4>1
      <4>. QED  BY <4>1, <4>2, AnswerKinds DEF Requests
    <3>2. /\ k \in DOMAIN pipeline /\ w = queue[user][k].write /\ w \in Writes
      BY <1>5, <3>1, RequestIs
    <3>3. pipeline[k] = queue[user][k]
      <4>1. queue[user] \in Seq(Batches) /\ IsPrefix(pipeline, queue[user])
        <5>1. queue \in [Users -> Seq(Batches)] /\ user \in Users
          BY DEF Inv, TypeOK
        <5>2. IsPrefix(pipeline, queue[user])
          BY DEF Inv, Stored, PipelineIsPrefix
        <5>. QED  BY <5>1, <5>2
      <4>2. \A i \in 1..Len(pipeline) : pipeline[i] = queue[user][i]
        BY <1>1, <4>1, PrefixIs
      <4>. QED  BY <1>1, <3>2, <4>2
    <3>4. PICK a \in Answers :
            /\ toClient' = Append(toClient, a) /\ a.write = w
            /\ a \in Truths' /\ a.type = IF ServiceApplies THEN "result" ELSE "refused"
      <4>1. CASE ServiceApplies
        <5>1. log' = Append(log, [write |-> w, as |-> account]) /\ Len(log) \in Nat
              /\ log \in Seq([write : Writes, as : Users])
          BY <4>1 DEF ServiceApplies, Inv, TypeOK
        <5>2. Len(log) + 1 \in DOMAIN log' /\ log'[Len(log) + 1].write = w
          BY <5>1
        <5> DEFINE a == Result(w, Len(log) + 1)
        <5>3. a \in Answers /\ a.write = w /\ a.type = "result" /\ a.version = Len(log) + 1
          BY <3>2, <5>1, AnswersTyped DEF Result
        <5>4. toClient' = Append(toClient, a)
          BY <4>1 DEF ServiceApplies
        <5>5. a \in Truths'
          BY <5>2, <5>3 DEF Truths
        <5>. QED  BY <4>1, <5>3, <5>4, <5>5
      <4>2. CASE ServiceRefuses /\ ~ServiceApplies
        <5> DEFINE a == Refusal(w)
        <5>1. a \in Answers /\ a.write = w /\ a.type = "refused"
          BY <3>2, AnswersTyped DEF Refusal
        <5>2. toClient' = Append(toClient, a) /\ w \in refused'
          BY <3>1, <4>2 DEF ServiceRefuses
        <5>3. a \in Truths'
          BY <5>1, <5>2 DEF Truths
        <5>. QED  BY <4>2, <5>1, <5>2, <5>3
      <4>. QED  BY <2>5, <4>1, <4>2
    <3>5. /\ toClient' \in Seq(Answers) /\ Len(toClient') = k /\ toClient'[k] = a
          /\ DOMAIN toClient' = 1..k
          /\ \A i \in DOMAIN toClient : toClient'[i] = toClient[i]
          /\ \A i \in DOMAIN toClient' : i \in DOMAIN toClient \/ i = k
      BY <1>1, <3>4
    <3> HIDE DEF k, w
    <3>6. ASSUME NEW i \in DOMAIN toClient'
          PROVE  /\ toClient'[i].type # "hello"
                 /\ toClient'[i].type # "failed" =>
                      /\ i \in DOMAIN pipeline /\ pipeline[i].write = toClient'[i].write
                      /\ toClient'[i] \in Truths'
                 /\ toClient'[i].type # "result" => i = k
      <4>1. CASE i \in DOMAIN toClient
        <5>1. toClient[i] \in Answers
          BY <1>1, <4>1
        <5>. QED  BY <2>2, <2>4, <3>5, <4>1, <5>1
      <4>2. CASE i = k
        BY <3>2, <3>3, <3>4, <3>5, <4>2
      <4>. QED  BY <3>5, <4>1, <4>2
    <3>7. Ended' <=> a.type = "refused"
      <4>1. toClient' # <<>> /\ Last(toClient') = a
        BY <1>1, <3>5 DEF Last, k
      <4>. QED  BY <3>4, <4>1 DEF Ended
    <3>8. ASSUME ~Ended'
          PROVE  /\ Len(toClient') + Len(toServer') = Len(pipeline)
                 /\ \A j \in DOMAIN toServer' : toServer'[j] = Mutations(pipeline[Len(toClient') + j])
      <4>1. toServer' = Tail(toServer)
        BY <3>4, <3>7, <3>8 DEF ServiceApplies
      <4>2. /\ toServer' \in Seq(Requests) /\ Len(toServer') = Len(toServer) - 1
            /\ \A j \in 1..Len(toServer') : toServer'[j] = toServer[j + 1]
            /\ Len(toServer) \in Nat
        BY <1>1, <3>1, <4>1, HeadTailProperties
      <4>3. Len(toClient) + Len(toServer) = Len(pipeline) /\ Len(pipeline) \in Nat
            /\ \A j \in 1..Len(toServer) : toServer[j] = Mutations(pipeline[Len(toClient) + j])
        <5>1. Len(pipeline) \in Nat /\ DOMAIN toServer = 1..Len(toServer)
          BY <1>1
        <5>. QED  BY <1>5, <2>1, <5>1 DEF Dialogue
      <4>4. Len(toClient') = Len(toClient) + 1
        BY <3>5 DEF k
      <4>5. Len(toClient') + Len(toServer') = Len(pipeline)
        <5>1. /\ Len(toServer') = Len(toServer) - 1 /\ Len(toClient') = Len(toClient) + 1
              /\ Len(toClient) + Len(toServer) = Len(pipeline)
              /\ Len(toServer) \in Nat /\ Len(toClient) \in Nat /\ Len(pipeline) \in Nat
          BY <1>1, <4>2, <4>3, <4>4
        <5>. QED  BY <5>1
      <4>6. ASSUME NEW j \in DOMAIN toServer'
            PROVE  toServer'[j] = Mutations(pipeline[Len(toClient') + j])
        <5>1. j \in 1..Len(toServer') /\ j + 1 \in 1..Len(toServer)
          BY <4>2
        <5>2. Len(toClient) + (j + 1) = Len(toClient') + j
          BY <1>1, <4>4, <5>1
        <5>. QED  BY <4>2, <4>3, <5>1, <5>2
      <4>. QED  BY <4>5, <4>6
    <3>9. \A i \in DOMAIN toClient' :
            /\ toClient'[i].type # "hello"
            /\ toClient'[i].type # "failed" =>
                 /\ i \in DOMAIN pipeline' /\ pipeline'[i].write = toClient'[i].write
                 /\ toClient'[i] \in Truths'
            /\ toClient'[i].type # "result" => i = Len(toClient')
      BY <1>3, <3>5, <3>6
    <3>10. ~Ended' =>
             /\ Len(toClient') + Len(toServer') = Len(pipeline')
             /\ \A j \in DOMAIN toServer' : toServer'[j] = Mutations(pipeline'[Len(toClient') + j])
      BY <1>3, <3>8
    <3>. QED  BY <1>7, <3>9, <3>10 DEF Dialogue
  <2>6. CASE ServiceRefuses /\ Head(toServer).type = "hello"
    BY <1>2, <1>5, <1>7, <2>6, NotGreeted DEF ServiceRefuses
  <2>7. CASE NetworkFails
    <3>1. PICK n \in 0..Len(toClient) : toClient' = Append(SubSeq(toClient, 1, n), Failure)
      BY <2>7 DEF NetworkFails
    <3>2. SubSeq(toClient, 1, n) \in Seq(Answers) /\ Len(SubSeq(toClient, 1, n)) = n
          /\ \A i \in 1..n : SubSeq(toClient, 1, n)[i] = toClient[i]
      BY <1>1
    <3>3. /\ Len(toClient') = n + 1 /\ DOMAIN toClient' = 1..(n + 1)
          /\ toClient'[n + 1] = Failure
          /\ \A i \in 1..n : toClient'[i] = toClient[i] /\ i \in DOMAIN toClient
      BY <1>1, <3>1, <3>2
    <3>4. Ended'
      <4>1. toClient' # <<>> /\ Last(toClient') = Failure
        BY <3>1, <3>2, <3>3 DEF Last
      <4>. QED  BY <4>1 DEF Ended, Failure
    <3>5. ASSUME NEW i \in DOMAIN toClient'
          PROVE  /\ toClient'[i].type # "hello"
                 /\ toClient'[i].type # "failed" =>
                      /\ i \in DOMAIN pipeline /\ pipeline[i].write = toClient'[i].write
                      /\ toClient'[i] \in Truths'
                 /\ toClient'[i].type # "result" => i = Len(toClient')
      <4>1. CASE i \in 1..n
        <5>1. toClient[i] \in Answers /\ i \in DOMAIN toClient /\ toClient'[i] = toClient[i]
          BY <1>1, <3>3, <4>1
        <5>. QED  BY <2>2, <2>4, <5>1
      <4>2. CASE i = n + 1
        BY <3>3, <4>2 DEF Failure
      <4>. QED  BY <3>3, <4>1, <4>2
    <3>6. \A i \in DOMAIN toClient' :
            /\ toClient'[i].type # "hello"
            /\ toClient'[i].type # "failed" =>
                 /\ i \in DOMAIN pipeline' /\ pipeline'[i].write = toClient'[i].write
                 /\ toClient'[i] \in Truths'
            /\ toClient'[i].type # "result" => i = Len(toClient')
      BY <1>3, <3>5
    <3>. QED  BY <1>7, <3>4, <3>6 DEF Dialogue
  <2>. QED  BY <1>7, <2>3, <2>5, <2>6, <2>7 DEF Service
<1>. QED  BY <1>6, <1>7

LEMMA Connected ==
  ASSUME Inv, Next
  PROVE  Connection'
<1>1. CASE RunCredential \/ RunConnectivity \/ Restart
  BY <1>1, RestartingDoes
<1>2. CASE IdleTimeout \/ OnWriteStreamClose
  <2>1. Disconnect /\ toServer' = <<>> /\ stream' # "Open" /\ idle' = FALSE
    BY <1>2 DEF IdleTimeout, OnWriteStreamClose
  <2>. QED  BY <2>1, Closed
<1>3. CASE HandleWriteError /\ ~OnWriteStreamMutationResult
  <2>1. Outdated(asks) \in SUBSET {FALSE}
    BY DEF Outdated
  <2>. QED  BY <1>3, <2>1, SettlingDoes, Reopened DEF HandleWriteError
<1>4. CASE BackoffElapses
  BY <1>4 DEF BackoffElapses, Inv, Connection, net
<1>5. CASE \/ Write
           \/ \E u \in Users : SignIn(u)
           \/ \E current \in BOOLEAN : FetchToken(current)
           \/ \E version \in DOMAIN log : ApplyRemoteEvent(version)
  <2>1. UNCHANGED <<stream, toServer, toClient, handshake, account, user, idle, pipeline, log, refused>>
    BY <1>5 DEF Write, SignIn, FetchToken, ApplyRemoteEvent, net, history
  <2>. QED  BY <2>1 DEF Inv, Connection, Greeting, Dialogue, Truths, Ended
<1>. QED  BY <1>1, <1>2, <1>3, <1>4, <1>5, ConnectedToken, ConnectedWrite,
             ConnectedHandshake, ConnectedResult, ConnectedService DEF Next, Service

LEMMA OwnedKept ==
  ASSUME Inv, Next
  PROVE  Owned'
<1>1. /\ writer \in Seq(Users) /\ queue \in [Users -> Seq(Batches)] /\ user \in Users
      /\ log \in Seq([write : Writes, as : Users])
      /\ \A u \in Users : \A i \in DOMAIN queue[u] :
           queue[u][i].write \in DOMAIN writer /\ writer[queue[u][i].write] = u
      /\ \A i \in DOMAIN log :
           log[i].write \in DOMAIN writer /\ log[i].as = writer[log[i].write]
  BY DEF Inv, TypeOK, Owned, InCallersName
<1>2. CASE Write
  <2>1. queue' = queue /\ log' = log /\ writer' = Append(writer, auth)
    BY <1>2 DEF Write, disk
  <2>2. \A w \in DOMAIN writer : w \in DOMAIN writer' /\ writer'[w] = writer[w]
    BY <1>1, <2>1
  <2>. QED  BY <1>1, <2>1, <2>2 DEF Owned, InCallersName
<1>3. CASE RunWrite
  <2> DEFINE w == worker[1].write
             b == [id |-> nextId, write |-> w]
             q == Append(queue[user], b)
  <2>1. /\ worker # <<>> /\ worker[1].type = "write" /\ w <= Len(writer) /\ w \in Writes
        /\ queue' = [queue EXCEPT ![user] = q]
    BY <1>3, RunWriteDoes
  <2>2. log' = log /\ writer' = writer
    BY <1>3 DEF RunWrite, history
  <2>3. writer[w] = user
    <3>1. worker \in Seq(Tasks) /\ 1 \in DOMAIN worker
      BY <2>1 DEF Inv, TypeOK
    <3>2. Acting(worker, user, 1, writer[w])
      BY <2>1, <3>1 DEF Inv, TasksNamed
    <3>. QED  BY <3>2 DEF Acting
  <2>4. w \in DOMAIN writer
    BY <1>1, <2>1 DEF Writes
  <2>5. \A i \in DOMAIN q : q[i] = b \/ (i \in DOMAIN queue[user] /\ q[i] = queue[user][i])
    BY <1>1
  <2>6. b.write = w
    OBVIOUS
  <2> HIDE DEF w, b, q
  <2>7. ASSUME NEW i \in DOMAIN q
        PROVE  q[i].write \in DOMAIN writer /\ writer[q[i].write] = user
    <3>1. CASE q[i] = b
      BY <2>3, <2>4, <2>6, <3>1
    <3>2. CASE i \in DOMAIN queue[user] /\ q[i] = queue[user][i]
      BY <1>1, <3>2
    <3>. QED  BY <2>5, <3>1, <3>2
  <2>8. \A u \in Users : queue'[u] = IF u = user THEN q ELSE queue[u]
    BY <1>1, <2>1
  <2>. QED  BY <1>1, <2>2, <2>7, <2>8 DEF Owned, InCallersName
<1>4. CASE OnWriteStreamMutationResult \/ HandleWriteError
  <2>1. queue[user] # <<>> /\ queue' = [queue EXCEPT ![user] = Tail(@)]
    BY <1>4, SettlingDoes
  <2>2. log' = log /\ writer' = writer
    BY <1>4 DEF OnWriteStreamMutationResult, HandleWriteError
  <2>3. \A i \in DOMAIN Tail(queue[user]) :
          i + 1 \in DOMAIN queue[user] /\ Tail(queue[user])[i] = queue[user][i + 1]
    BY <1>1, <2>1, HeadTailProperties
  <2> DEFINE q == Tail(queue[user])
  <2>4. \A u \in Users : queue'[u] = IF u = user THEN q ELSE queue[u]
    BY <1>1, <2>1
  <2>5. ASSUME NEW i \in DOMAIN q
        PROVE  q[i].write \in DOMAIN writer /\ writer[q[i].write] = user
    BY <1>1, <2>3
  <2> HIDE DEF q
  <2>. QED  BY <1>1, <2>2, <2>4, <2>5 DEF Owned, InCallersName
<1>5. CASE ServiceApplies
  <2> DEFINE w == Head(toServer).write
             k == Len(toClient) + 1
  <2>1. /\ toServer # <<>> /\ Head(toServer).type = "mutations" /\ ~Ended
        /\ log' = Append(log, [write |-> w, as |-> account])
        /\ queue' = queue /\ writer' = writer
    BY <1>5 DEF ServiceApplies, disk, history
  <2>2. account = user /\ k \in DOMAIN queue[user] /\ w = queue[user][k].write /\ w \in Writes
    BY <2>1, RequestIs
  <2>3. w \in DOMAIN writer /\ writer[w] = account
    BY <1>1, <2>2
  <2>4. \A i \in DOMAIN log' : log'[i] = [write |-> w, as |-> account]
                                \/ (i \in DOMAIN log /\ log'[i] = log[i])
    BY <1>1, <2>1
  <2> HIDE DEF w
  <2>5. ASSUME NEW i \in DOMAIN log'
        PROVE  log'[i].write \in DOMAIN writer /\ log'[i].as = writer[log'[i].write]
    <3>1. CASE log'[i] = [write |-> w, as |-> account]
      BY <2>3, <3>1
    <3>2. CASE i \in DOMAIN log /\ log'[i] = log[i]
      BY <1>1, <3>2
    <3>. QED  BY <2>4, <3>1, <3>2
  <2>. QED  BY <1>1, <2>1, <2>5 DEF Owned, InCallersName
<1>6. CASE UNCHANGED <<queue, log, writer>>
  BY <1>1, <1>6 DEF Owned, InCallersName
<1>. QED  BY <1>2, <1>3, <1>4, <1>5, <1>6
     DEF Next, SignIn, FetchToken, RunCredential, RunToken, RunConnectivity,
         BackoffElapses, IdleTimeout, OnWriteStreamHandshakeComplete, OnWriteStreamClose,
         ApplyRemoteEvent, ServiceGreets, ServiceRefuses, NetworkFails, Restart, disk, history

------------------------------------------------------------------------------
(* What the app was told, and what it sees *)

LEMMA SeenKept ==
  ASSUME Inv, Next
  PROVE  Seen'
<1>1. /\ cached \in Nat /\ cached <= Len(log) /\ Len(log) \in Nat /\ DOMAIN log = 1..Len(log)
      /\ log \in Seq([write : Writes, as : Users])
      /\ told \in [Writes -> {"nothing", "ok", "refused"}]
      /\ \A w \in Writes : told[w] = "ok" => \E i \in 1..cached : log[i].write = w
  BY DEF Inv, TypeOK, Seen, ToldIsSeen
<1>2. CASE OnWriteStreamMutationResult
  <2> DEFINE v == toClient[1].version
             x == queue[user][1].write
  <2>1. /\ toClient[1] \in Truths /\ toClient[1].type = "result" /\ toClient[1] = Head(toClient)
        /\ x = toClient[1].write /\ queue[user] # <<>> /\ NotifyUser(queue[user][1].id, "ok")
    BY <1>2, SettlingDoes
  <2>2. v \in 1..Len(log) /\ log[v].write = x
    BY <1>1, <2>1 DEF Truths
  <2>3. told' \in {told, [told EXCEPT ![x] = "ok"]}
    BY <2>1, Notified
  <2>4. cached' = Newer(v) /\ log' = log
    BY <1>2, <2>1 DEF OnWriteStreamMutationResult
  <2> HIDE DEF v, x
  <2>5. cached' \in Nat /\ cached <= cached' /\ v <= cached' /\ cached' <= Len(log)
    <3>1. v \in Nat /\ v <= Len(log)
      BY <1>1, <2>2
    <3>2. /\ Newer(v) \in Nat /\ Newer(v) >= cached /\ Newer(v) >= v
          /\ Newer(v) \in {cached, v}
      BY <1>1, <3>1, NewerIs
    <3>. QED  BY <1>1, <2>4, <3>1, <3>2
  <2>6. ASSUME NEW w \in Writes, told'[w] = "ok"
        PROVE  \E i \in 1..cached' : log[i].write = w
    <3>1. told[w] = "ok" \/ w = x
      BY <1>1, <2>3, <2>6
    <3>2. CASE told[w] = "ok"
      <4>1. PICK i \in 1..cached : log[i].write = w
        BY <1>1, <3>2
      <4>2. i \in 1..cached'
        BY <1>1, <2>5
      <4>. QED  BY <4>1, <4>2
    <3>3. CASE w = x
      <4>1. v \in 1..cached'
        BY <2>2, <2>5
      <4>. QED  BY <2>2, <3>3, <4>1
    <3>. QED  BY <3>1, <3>2, <3>3
  <2>. QED  BY <2>4, <2>5, <2>6 DEF Seen, ToldIsSeen
<1>3. CASE HandleWriteError /\ ~OnWriteStreamMutationResult
  <2>1. queue[user] # <<>> /\ NotifyUser(queue[user][1].id, "refused")
    BY <1>3, SettlingDoes
  <2>2. told' \in {told, [told EXCEPT ![queue[user][1].write] = "refused"]}
    BY <2>1, Notified
  <2>3. \A w \in Writes : told'[w] = "ok" => told[w] = "ok"
    BY <1>1, <2>2
  <2>4. cached' = cached /\ log' = log
    BY <1>3 DEF HandleWriteError
  <2>. QED  BY <1>1, <2>3, <2>4 DEF Seen, ToldIsSeen
<1>4. CASE ServiceApplies
  <2>1. /\ log' = Append(log, [write |-> Head(toServer).write, as |-> account])
        /\ cached' = cached /\ told' = told
    BY <1>4 DEF ServiceApplies, disk, history
  <2>2. Len(log') = Len(log) + 1 /\ \A i \in 1..Len(log) : log'[i] = log[i]
    BY <1>1, <2>1
  <2>3. \A i \in 1..cached : log'[i] = log[i]
    BY <1>1, <2>2
  <2>4. cached' <= Len(log')
    BY <1>1, <2>1, <2>2
  <2>. QED  BY <1>1, <2>1, <2>3, <2>4 DEF Seen, ToldIsSeen
<1>5. ASSUME NEW v \in DOMAIN log, ApplyRemoteEvent(v) PROVE Seen'
  <2>1. cached' = Newer(v) /\ log' = log /\ told' = told
    BY <1>5 DEF ApplyRemoteEvent, history
  <2>2. cached' \in Nat /\ cached <= cached' /\ cached' <= Len(log)
    <3>1. v \in Nat /\ v <= Len(log)
      BY <1>1
    <3>2. Newer(v) \in Nat /\ Newer(v) >= cached /\ Newer(v) \in {cached, v}
      BY <1>1, <3>1, NewerIs
    <3>. QED  BY <1>1, <2>1, <3>1, <3>2
  <2>3. \A i \in 1..cached : i \in 1..cached'
    BY <1>1, <2>2
  <2>. QED  BY <1>1, <2>1, <2>2, <2>3 DEF Seen, ToldIsSeen
<1>6. CASE UNCHANGED <<cached, log, told>>
  BY <1>1, <1>6 DEF Seen, ToldIsSeen
<1>. QED  BY <1>2, <1>3, <1>4, <1>5, <1>6
     DEF Next, Write, SignIn, FetchToken, RunWrite, RunCredential, RunToken, RunConnectivity,
         BackoffElapses, IdleTimeout, OnWriteStreamHandshakeComplete, OnWriteStreamClose,
         ServiceGreets, ServiceRefuses, NetworkFails, Restart, disk, history

------------------------------------------------------------------------------
(* The invariant *)

LEMMA Starts ==
  ASSUME Init
  PROVE  Inv
<1>1. \A S : <<>> \in Seq(S) /\ Len(<<>>) = 0 /\ DOMAIN <<>> = {}
  OBVIOUS
<1>2. TypeOK
  <2>1. queue \in [Users -> Seq(Batches)] /\ user \in Users /\ auth \in Users
    BY <1>1 DEF Init
  <2>2. nextId \in BatchIds /\ events \in 0..MaxEvents /\ cached \in Nat
    BY FirestoreClientAssumption DEF Init, BatchIds
  <2>3. told \in [Writes -> {"nothing", "ok", "refused"}]
    BY DEF Init
  <2>4. Len(pipeline) <= MaxPending
    BY <1>1, FirestoreClientAssumption DEF Init
  <2>5. /\ pipeline \in Seq(Batches) /\ worker \in Seq(Tasks) /\ toServer \in Seq(Requests)
        /\ toClient \in Seq(Answers) /\ log \in Seq([write : Writes, as : Users])
        /\ writer \in Seq(Users)
    BY <1>1 DEF Init
  <2>. QED  BY <2>1, <2>2, <2>3, <2>4, <2>5 DEF Init, TypeOK
<1>3. \A u \in Users : queue[u] = <<>> /\ DOMAIN queue[u] = {}
  BY <1>1 DEF Init
<1>4. Stored
  <2>1. PipelineIsPrefix
    <3>1. queue[user] \in Seq(Batches) /\ pipeline = <<>>
      BY <1>2 DEF Init, TypeOK
    <3>. QED  BY <3>1, NoPipeline DEF PipelineIsPrefix
  <2>. QED  BY <1>3, <2>1 DEF Init, Stored, Increasing
<1>5. TasksInOrder
  <2>1. 1 \in FreshWrites
    <3>1. nextId <= 1
      BY DEF Init
    <3>2. \A v \in Writes : told[v] = "nothing"
      BY DEF Init
    <3>3. DOMAIN log = {}
      BY <1>1 DEF Init
    <3>. QED  BY <1>3, <3>1, <3>2, <3>3 DEF FreshWrites
  <2>2. Len(writer) + 1 = 1 /\ DOMAIN worker = {}
    BY <1>1 DEF Init
  <2>. QED  BY <2>1, <2>2 DEF TasksInOrder
<1>6. Connection
  BY DEF Init, Connection
<1>7. TokensCurrent
  <2>1. DOMAIN worker = {} /\ asks = {}
    BY <1>1 DEF Init
  <2>. QED  BY <2>1 DEF TokensCurrent
<1>8. TasksNamed
  <2>1. DOMAIN worker = {} /\ Len(worker) + 1 = 1 /\ user = auth
    BY <1>1 DEF Init
  <2>2. Acting(worker, user, 1, auth)
    BY <2>1 DEF Acting
  <2>. QED  BY <2>1, <2>2 DEF TasksNamed
<1>9. Owned /\ Seen
  <2>1. DOMAIN log = {} /\ Len(log) = 0 /\ cached = 0
    BY <1>1 DEF Init
  <2>2. \A w \in Writes : told[w] = "nothing"
    BY DEF Init
  <2>. QED  BY <1>3, <2>1, <2>2 DEF Owned, InCallersName, Seen, ToldIsSeen
<1>. QED  BY <1>2, <1>4, <1>5, <1>6, <1>7, <1>8, <1>9 DEF Inv

LEMMA Stutters ==
  ASSUME Inv, UNCHANGED vars
  PROVE  Inv'
<1>1. UNCHANGED <<auth, queue, cached, user, nextId, callbacks, worker, asks, stream, handshake,
                  idle, pipeline, account, toServer, toClient, log, writer, told, refused, events>>
  BY DEF vars, disk, net, history
<1>2. TypeOK'
  BY <1>1 DEF Inv, TypeOK
<1>3. Stored'
  BY <1>1 DEF Inv, Stored, PipelineIsPrefix
<1>4. TasksInOrder'
  BY <1>1 DEF Inv, TasksInOrder, FreshWrites
<1>5. Connection'
  BY <1>1 DEF Inv, Connection, Greeting, Dialogue, Truths, Ended
<1>6. TokensCurrent' /\ TasksNamed'
  BY <1>1 DEF Inv, TokensCurrent, TasksNamed
<1>7. Owned' /\ Seen'
  BY <1>1 DEF Inv, Owned, InCallersName, Seen, ToldIsSeen
<1>. QED  BY <1>2, <1>3, <1>4, <1>5, <1>6, <1>7 DEF Inv

LEMMA InvHolds == Spec => []Inv
<1>1. Inv /\ Next => Inv'
  BY Typed, StoredKept, OrderedTasks, Connected, TokensKept, Named, OwnedKept, SeenKept DEF Inv
<1>. QED  BY <1>1, Starts, Stutters, PTL DEF Spec

------------------------------------------------------------------------------
(* The theorems *)

\* The variables stay in their types; in particular the pipeline never holds
\* more than MaxPending batches, and the batch ids, which start again when
\* the mutation queues are empty, never run past the number of writes.
THEOREM TypeCorrect == Spec => []TypeOK
<1>1. Inv => TypeOK
  BY DEF Inv
<1>. QED  BY <1>1, InvHolds, PTL

\* No write is sent before an older one of its account, and none is skipped:
\* the write pipeline is always the beginning of the mutation queue, whatever
\* refills it (a write, a result, a refusal, another account, a restart).
THEOREM WritesInOrder == Spec => []PipelineIsPrefix
<1>1. Inv => PipelineIsPrefix
  BY DEF Inv, Stored
<1>. QED  BY <1>1, InvHolds, PTL

\* An answer that the client takes for one to the first batch of the pipeline
\* is an answer to that batch, although nothing in it says so.
THEOREM AnswersSettleTheirBatch == Spec => []AnswersMatch
<1>1. Inv => AnswersMatch
  BY DEF Inv, Connection, Dialogue, AnswersMatch
<1>. QED  BY <1>1, InvHolds, PTL

\* No write is applied with the token of another account, although the write,
\* the account change and the token all wait on the worker queue.
THEOREM AppliedInCallersName == Spec => []InCallersName
<1>1. Inv => InCallersName
  BY DEF Inv, Owned
<1>. QED  BY <1>1, InvHolds, PTL

\* A write whose success the app was told of is in the document it is shown
\* from then on, whatever versions the watch stream brings.
THEOREM SuccessIsShown == Spec => []ToldIsSeen
<1>1. Inv => ToldIsSeen
  BY DEF Inv, Seen
<1>. QED  BY <1>1, InvHolds, PTL

\* The assertions of the stream hold: it is never closed for idleness with
\* something to send, and no token reaches it in a state that expects none.
THEOREM NoAssertionFails == Spec => []AssertionsHold
<1>1. Inv => AssertionsHold
  BY DEF Inv, Connection, TokensCurrent, CurrentToken, AssertionsHold
<1>. QED  BY <1>1, InvHolds, PTL

------------------------------------------------------------------------------
(* The promise of WriteQueue *)

LEMMA WritesAppended ==
  ASSUME NEW S, \A x \in S : x.write \in Writes,
         NEW q \in Seq(S), NEW b \in S
  PROVE  LET r == Append(q, b) IN
         [i \in DOMAIN r |-> r[i].write] = Append([i \in DOMAIN q |-> q[i].write], b.write)
<1> DEFINE r == Append(q, b)
           ws == [i \in DOMAIN q |-> q[i].write]
           rs == [i \in DOMAIN r |-> r[i].write]
           w == b.write
<1>1. /\ r \in Seq(S) /\ Len(r) = Len(q) + 1 /\ Len(q) \in Nat
      /\ \A i \in 1..Len(q) : r[i] = q[i]
      /\ r[Len(q) + 1] = b
  BY AppendProperties
<1>2. ws \in Seq(Writes) /\ Len(ws) = Len(q) /\ \A i \in 1..Len(q) : ws[i] = q[i].write
  OBVIOUS
<1>3. rs \in Seq(Writes) /\ Len(rs) = Len(q) + 1 /\ \A i \in 1..(Len(q) + 1) : rs[i] = r[i].write
  <2> HIDE DEF r
  <2>. QED  BY <1>1
<1>4. w \in Writes
  OBVIOUS
<1>5. rs[Len(q) + 1] = w
  BY <1>1, <1>3
<1> HIDE DEF ws, rs, w, r
<1>6. \A i \in 1..Len(ws) : rs[i] = ws[i]
  BY <1>1, <1>2, <1>3
<1>7. Append(ws, w) = rs
  <2>1. Len(rs) = Len(ws) + 1 /\ rs[Len(ws) + 1] = w
    BY <1>2, <1>3, <1>5
  <2>. QED  BY <1>2, <1>3, <1>4, <1>6, <2>1, AppendIs
<1>. QED  BY <1>7 DEF ws, rs, w, r

LEMMA WritesShortened ==
  ASSUME NEW q \in Seq(Batches), q # <<>>
  PROVE  LET ws == [i \in DOMAIN q |-> q[i].write]
             r == Tail(q)
         IN
         /\ ws # <<>> /\ Head(ws) = q[1].write
         /\ [i \in DOMAIN r |-> r[i].write] = Tail(ws)
<1> DEFINE r == Tail(q)
           ws == [i \in DOMAIN q |-> q[i].write]
           rs == [i \in DOMAIN r |-> r[i].write]
<1>1. /\ r \in Seq(Batches) /\ Len(r) = Len(q) - 1 /\ Len(q) \in Nat \ {0}
      /\ \A i \in 1..(Len(q) - 1) : r[i] = q[i + 1]
  BY HeadTailProperties
<1>2. ws \in Seq(Writes) /\ Len(ws) = Len(q) /\ \A i \in 1..Len(q) : ws[i] = q[i].write
  BY BatchFields
<1> HIDE DEF r
<1>3. rs \in Seq(Writes) /\ Len(rs) = Len(q) - 1 /\ \A i \in 1..(Len(q) - 1) : rs[i] = r[i].write
  <2>1. \A i \in DOMAIN r : r[i].write \in Writes
    BY <1>1, BatchFields
  <2>2. DOMAIN r = 1..Len(r) /\ Len(r) \in Nat
    BY <1>1
  <2>3. rs \in Seq(Writes) /\ Len(rs) = Len(r) /\ \A i \in 1..Len(r) : rs[i] = r[i].write
    BY <2>1, <2>2
  <2> HIDE DEF rs
  <2>. QED  BY <1>1, <2>3
<1> HIDE DEF ws, rs
<1>4. ws # <<>> /\ Head(ws) = q[1].write
  BY <1>1, <1>2
<1>5. /\ Tail(ws) \in Seq(Writes) /\ Len(Tail(ws)) = Len(q) - 1
      /\ \A i \in 1..(Len(q) - 1) : Tail(ws)[i] = ws[i + 1]
  BY <1>1, <1>2, <1>4, HeadTailProperties
<1>6. ASSUME NEW i \in 1..Len(rs) PROVE rs[i] = Tail(ws)[i]
  <2>1. i \in 1..(Len(q) - 1) /\ i + 1 \in 1..Len(q)
    BY <1>1, <1>3
  <2>2. rs[i] = r[i].write /\ r[i] = q[i + 1]
    BY <1>1, <1>3, <2>1
  <2>3. Tail(ws)[i] = ws[i + 1] /\ ws[i + 1] = q[i + 1].write
    BY <1>2, <1>5, <2>1
  <2>. QED  BY <2>2, <2>3
<1>7. rs = Tail(ws)
  BY <1>3, <1>5, <1>6, SeqEqual
<1>. QED  BY <1>4, <1>7 DEF ws, rs, r

\* The abstract queues, and how they change with the queues of the client.
LEMMA PendingIs ==
  ASSUME Inv
  PROVE  /\ \A u \in Users : DOMAIN PendingWrites[u] = DOMAIN queue[u]
                             /\ \A i \in DOMAIN queue[u] : PendingWrites[u][i] = queue[u][i].write
         /\ Promise!Waiting = UNION {{queue[u][i].write : i \in DOMAIN queue[u]} : u \in Users}
         /\ Promise!Applied = {log[i].write : i \in DOMAIN log}
<1>1. \A u \in Users : DOMAIN PendingWrites[u] = DOMAIN queue[u]
                       /\ \A i \in DOMAIN queue[u] : PendingWrites[u][i] = queue[u][i].write
  BY DEF PendingWrites
<1>2. Promise!Waiting = UNION {{queue[u][i].write : i \in DOMAIN queue[u]} : u \in Users}
  BY <1>1 DEF Promise!Waiting
<1>3. Promise!Applied = {log[i].write : i \in DOMAIN log}
  BY DEF Promise!Applied, AppliedWrites
<1>. QED  BY <1>1, <1>2, <1>3

LEMMA WriteAccepted ==
  ASSUME Inv, RunWrite
  PROVE  Promise!Next
<1> DEFINE w == worker[1].write
           b == [id |-> nextId, write |-> w]
           q == Append(queue[user], b)
<1>1. /\ w \in Writes /\ w \in FreshWrites
      /\ queue' = [queue EXCEPT ![user] = q] /\ q \in Seq(Batches)
  BY RunWriteDoes
<1>2. queue \in [Users -> Seq(Batches)] /\ user \in Users /\ b \in Batches
  BY <1>1 DEF Inv, TypeOK, Batches
<1>3. log' = log /\ told' = told /\ refused' = refused
  BY DEF RunWrite, history
<1>4. w \notin Promise!Waiting \cup Promise!Applied
  <2>1. /\ w \in Nat /\ \A u \in Users : \A i \in DOMAIN queue[u] : queue[u][i].write < w
        /\ \A i \in DOMAIN log : log[i].write < w
    BY <1>1 DEF FreshWrites
  <2>2. ~(w < w)
    BY <2>1
  <2> HIDE DEF w
  <2>3. w \notin {log[i].write : i \in DOMAIN log}
    BY <2>1, <2>2
  <2>4. w \notin UNION {{queue[u][i].write : i \in DOMAIN queue[u]} : u \in Users}
    BY <2>1, <2>2
  <2>. QED  BY <2>3, <2>4, PendingIs
<1>5. \A v \in Promise!Waiting : v < w
  BY <1>1, <1>2, PendingIs DEF FreshWrites
<1>6. told[w] = "nothing"
  BY <1>1 DEF FreshWrites
<1>7. [i \in DOMAIN q |-> q[i].write] = Append([i \in DOMAIN queue[user] |-> queue[user][i].write], w)
  <2>1. \A x \in Batches : x.write \in Writes
    BY DEF Batches
  <2>2. queue[user] \in Seq(Batches)
    BY <1>2
  <2>. QED  BY <1>2, <2>1, <2>2, WritesAppended
<1> HIDE DEF q
<1>8. PendingWrites' = [PendingWrites EXCEPT ![user] = Append(@, w)]
  BY <1>1, <1>2, <1>7 DEF PendingWrites
<1>9. AppliedWrites' = AppliedWrites
  BY <1>3 DEF AppliedWrites
<1>10. Promise!Accept(user, w)
  BY <1>3, <1>4, <1>5, <1>6, <1>8, <1>9 DEF Promise!Accept
<1>. QED  BY <1>1, <1>2, <1>10 DEF Promise!Next, Promise!Writes, Writes

LEMMA WriteApplied ==
  ASSUME Inv, ServiceApplies
  PROVE  Promise!Next
<1> DEFINE w == Head(toServer).write
           k == Len(toClient) + 1
           e == [write |-> w, as |-> account]
<1>1. /\ account = user /\ user \in Users /\ k \in DOMAIN queue[user] /\ w = queue[user][k].write
      /\ w \in Writes
      /\ \A i \in 1..(k - 1) : i \in DOMAIN toClient
      /\ \A i \in DOMAIN toClient :
           /\ toClient[i].type = "result" /\ toClient[i] \in Truths
           /\ i \in DOMAIN queue[user] /\ toClient[i].write = queue[user][i].write
  BY RequestIs DEF ServiceApplies, Inv, TypeOK
<1>2. log' = Append(log, e) /\ queue' = queue /\ told' = told /\ refused' = refused
  BY DEF ServiceApplies, disk, history
<1>3. e \in [write : Writes, as : Users] /\ log \in Seq([write : Writes, as : Users]) /\ e.write = w
  BY <1>1 DEF Inv, TypeOK
<1>4. ASSUME NEW j \in 1..(k - 1)
      PROVE  PendingWrites[user][j] \in Promise!Applied
  <2>1. /\ j \in DOMAIN queue[user] /\ toClient[j].write = queue[user][j].write
        /\ toClient[j].type = "result" /\ toClient[j] \in Truths
    BY <1>1
  <2>2. toClient[j].version \in DOMAIN log /\ log[toClient[j].version].write = queue[user][j].write
    BY <2>1 DEF Truths
  <2>3. PendingWrites[user][j] = queue[user][j].write
    BY <1>1, <2>1, PendingIs
  <2>. QED  BY <2>2, <2>3, PendingIs
<1>5. k \in DOMAIN PendingWrites[user] /\ PendingWrites[user][k] = w
  BY <1>1, PendingIs
<1>6. [i \in DOMAIN Append(log, e) |-> Append(log, e)[i].write]
        = Append([i \in DOMAIN log |-> log[i].write], w)
  <2>1. \A x \in [write : Writes, as : Users] : x.write \in Writes
    OBVIOUS
  <2> HIDE DEF e, w
  <2>. QED  BY <1>3, <2>1, WritesAppended
<1>7. AppliedWrites' = Append(AppliedWrites, w)
  BY <1>2, <1>6 DEF AppliedWrites
<1>8. PendingWrites' = PendingWrites
  BY <1>2 DEF PendingWrites
<1> HIDE DEF k, w
<1>9. Promise!Apply(user, k)
  BY <1>2, <1>4, <1>5, <1>7, <1>8 DEF Promise!Apply
<1>. QED  BY <1>1, <1>5, <1>9 DEF Promise!Next

LEMMA WriteRefused ==
  ASSUME Inv, ServiceRefuses
  PROVE  Promise!Next \/ UNCHANGED Promise!vars
<1>1. queue' = queue /\ log' = log /\ told' = told
  BY DEF ServiceRefuses, disk
<1>2. PendingWrites' = PendingWrites /\ AppliedWrites' = AppliedWrites
  BY <1>1 DEF PendingWrites, AppliedWrites
<1>3. CASE Head(toServer).type = "hello"
  <2>1. refused' = refused
    BY <1>3 DEF ServiceRefuses
  <2>. QED  BY <1>1, <1>2, <2>1 DEF Promise!vars
<1>4. CASE Head(toServer).type # "hello"
  <2> DEFINE k == Len(toClient) + 1
             w == Head(toServer).write
  <2>1. toServer # <<>> /\ Head(toServer).type = "mutations" /\ ~Ended
    <3>1. toServer # <<>> /\ ~Ended
      BY DEF ServiceRefuses
    <3>2. Head(toServer) \in Requests
      BY <3>1 DEF Inv, TypeOK
    <3>. QED  BY <1>4, <3>1, <3>2 DEF Requests, Hello
  <2>2. k \in DOMAIN queue[user] /\ w = queue[user][k].write /\ user \in Users
    BY <2>1, RequestIs DEF Inv, TypeOK
  <2>3. refused' = refused \cup {w}
    BY <1>4 DEF ServiceRefuses
  <2>4. k \in DOMAIN PendingWrites[user] /\ PendingWrites[user][k] = w
    BY <2>2, PendingIs
  <2> HIDE DEF k, w
  <2>5. Promise!Refuse(user, k)
    BY <1>1, <1>2, <2>3, <2>4 DEF Promise!Refuse
  <2>. QED  BY <2>2, <2>4, <2>5 DEF Promise!Next
<1>. QED  BY <1>3, <1>4

LEMMA WriteSettled ==
  ASSUME Inv, OnWriteStreamMutationResult \/ HandleWriteError
  PROVE  Promise!Next
<1> DEFINE x == queue[user][1].write
           verdict == IF OnWriteStreamMutationResult THEN "ok" ELSE "refused"
<1>1. /\ toClient[1] \in Truths /\ queue[user] # <<>> /\ x = toClient[1].write
      /\ queue' = [queue EXCEPT ![user] = Tail(@)]
      /\ NotifyUser(queue[user][1].id, verdict)
      /\ toClient[1].type = IF OnWriteStreamMutationResult THEN "result" ELSE "refused"
  BY SettlingDoes
<1>2. queue \in [Users -> Seq(Batches)] /\ user \in Users /\ verdict \in {"ok", "refused"}
  BY DEF Inv, TypeOK
<1>3. log' = log /\ refused' = refused
  BY DEF OnWriteStreamMutationResult, HandleWriteError
<1>4. x \in IF verdict = "ok" THEN Promise!Applied ELSE refused
  <2>1. CASE OnWriteStreamMutationResult
    <3>1. toClient[1].version \in DOMAIN log /\ log[toClient[1].version].write = x
      BY <1>1, <2>1 DEF Truths
    <3>. QED  BY <2>1, <3>1, PendingIs
  <2>2. CASE ~OnWriteStreamMutationResult
    BY <1>1, <2>2 DEF Truths
  <2>. QED  BY <2>1, <2>2
<1> HIDE DEF verdict
<1>5. told' \in {told, [told EXCEPT ![x] = verdict]}
  BY <1>1, <1>2, Notified
<1>6. /\ [i \in DOMAIN queue[user] |-> queue[user][i].write] # <<>>
      /\ Head([i \in DOMAIN queue[user] |-> queue[user][i].write]) = x
      /\ [i \in DOMAIN Tail(queue[user]) |-> Tail(queue[user])[i].write]
           = Tail([i \in DOMAIN queue[user] |-> queue[user][i].write])
  <2>1. queue[user] \in Seq(Batches)
    BY <1>2
  <2>. QED  BY <1>1, <2>1, WritesShortened
<1>7. PendingWrites[user] # <<>> /\ Head(PendingWrites[user]) = x
  BY <1>2, <1>6 DEF PendingWrites
<1>8. PendingWrites' = [PendingWrites EXCEPT ![user] = Tail(@)]
  BY <1>1, <1>2, <1>6 DEF PendingWrites
<1>9. AppliedWrites' = AppliedWrites
  BY <1>3 DEF AppliedWrites
<1> HIDE DEF x
<1>10. Promise!Settle(user, verdict)
  BY <1>3, <1>4, <1>5, <1>7, <1>8, <1>9 DEF Promise!Settle
<1>. QED  BY <1>2, <1>10 DEF Promise!Next, Promise!Verdicts

\* The write path implements WriteQueue: the writes of an account are applied
\* in the order they were made and settled one by one, each with the service's
\* own verdict on it, and the app is told of each at most once.
THEOREM PromiseKept == Spec => KeepsPromise
<1>1. Init => Promise!Init
  <2> SUFFICES ASSUME Init PROVE Promise!Init
    OBVIOUS
  <2>1. \A f : [i \in DOMAIN <<>> |-> f[i].write] = <<>>
    OBVIOUS
  <2>2. [i \in DOMAIN <<>> |-> <<>>[i].write] = <<>>
    BY <2>1
  <2>3. PendingWrites = [u \in Users |-> <<>>]
    BY <2>2 DEF Init, PendingWrites
  <2>4. AppliedWrites = <<>>
    BY <2>2 DEF Init, AppliedWrites
  <2>. QED  BY <2>3, <2>4 DEF Init, Promise!Init, Promise!Writes, Writes
<1>2. Inv /\ [Next]_vars => [Promise!Next]_Promise!vars
  <2> SUFFICES ASSUME Inv, [Next]_vars PROVE Promise!Next \/ UNCHANGED Promise!vars
    OBVIOUS
  <2>1. CASE UNCHANGED <<queue, log, told, refused>>
    <3>1. PendingWrites' = PendingWrites /\ AppliedWrites' = AppliedWrites
      BY <2>1 DEF PendingWrites, AppliedWrites
    <3>. QED  BY <2>1, <3>1 DEF Promise!vars
  <2>2. CASE ~UNCHANGED <<queue, log, told, refused>>
    <3>1. \/ RunWrite \/ OnWriteStreamMutationResult \/ HandleWriteError
          \/ ServiceApplies \/ ServiceRefuses
      BY <2>2 DEF Next, vars, Write, SignIn, FetchToken, RunCredential, RunToken,
           RunConnectivity, BackoffElapses, IdleTimeout, OnWriteStreamHandshakeComplete,
           OnWriteStreamClose, ApplyRemoteEvent, ServiceGreets, NetworkFails, Restart,
           disk, history
    <3>. QED  BY <3>1, WriteAccepted, WriteApplied, WriteRefused, WriteSettled
  <2>. QED  BY <2>1, <2>2
<1>. QED  BY <1>1, <1>2, InvHolds, PTL DEF Spec, KeepsPromise, Promise!Spec

------------------------------------------------------------------------------
(* The last write of an account *)

Ascending(q) == \A i, j \in DOMAIN q : i < j => q[i].write < q[j].write

Pending(u, w) == \E p \in DOMAIN queue[u] : queue[u][p].write = w

Own(u) == {i \in DOMAIN log : log[i].as = u}

\* What waits is younger than what was applied and waits no more.
Passed(u) ==
  \A i \in Own(u) : \/ Pending(u, log[i].write)
                    \/ \A p \in DOMAIN queue[u] : log[i].write < queue[u][p].write

\* No write that was settled as applied is younger than the last one applied.
NotOvertaken(u) ==
  Own(u) # {} =>
    \E j \in Own(u) :
      /\ \A k \in Own(u) : k <= j
      /\ \A i \in Own(u) : \/ log[i].write <= log[j].write
                           \/ log[i].write \in refused
                           \/ Pending(u, log[i].write)

\* After the application that a result under way reports, only younger writes
\* of its account were applied.
ResultsStand ==
  \A a \in DOMAIN toClient : toClient[a].type = "result" =>
    \A k \in Own(user) : toClient[a].version < k => toClient[a].write < log[k].write

StandInv ==
  /\ \A u \in Users : Ascending(queue[u]) /\ Passed(u) /\ NotOvertaken(u)
  /\ ResultsStand

LEMMA LogIs ==
  ASSUME Inv
  PROVE  /\ log \in Seq([write : Writes, as : Users]) /\ Len(log) \in Nat
         /\ \A i \in DOMAIN log : i \in Nat /\ log[i].write \in Nat /\ log[i].as \in Users
         /\ queue \in [Users -> Seq(Batches)] /\ user \in Users
         /\ \A u \in Users : \A p \in DOMAIN queue[u] : p \in Nat /\ queue[u][p].write \in Nat
<1>1. log \in Seq([write : Writes, as : Users]) /\ queue \in [Users -> Seq(Batches)] /\ user \in Users
  BY DEF Inv, TypeOK
<1>2. \A i \in DOMAIN log : i \in Nat /\ log[i] \in [write : Writes, as : Users]
  <2> SUFFICES ASSUME NEW i \in DOMAIN log
               PROVE  i \in Nat /\ log[i] \in [write : Writes, as : Users]
    OBVIOUS
  <2>1. log \in Seq([write : Writes, as : Users])
    BY <1>1
  <2>2. i \in 1..Len(log)
    BY <2>1, LenProperties
  <2>3. log[i] \in [write : Writes, as : Users]
    BY <2>1, <2>2, ElementOfSeq
  <2>4. i \in Nat
    BY <2>1, <2>2
  <2>. QED  BY <2>3, <2>4
<1>3. \A u \in Users : \A p \in DOMAIN queue[u] : p \in Nat /\ queue[u][p].write \in Writes
  <2> SUFFICES ASSUME NEW u \in Users, NEW p \in DOMAIN queue[u]
               PROVE  p \in Nat /\ queue[u][p].write \in Writes
    OBVIOUS
  <2>1. queue[u] \in Seq(Batches)
    BY <1>1
  <2>. QED  BY <2>1, BatchFields
<1>. QED  BY <1>1, <1>2, <1>3 DEF Writes

\* The youngest batch of the queue is younger than all that was applied.
LEMMA StandsWrite ==
  ASSUME Inv, StandInv, RunWrite, NEW u \in Users
  PROVE  Ascending(queue[u])' /\ Passed(u)' /\ NotOvertaken(u)'
<1> DEFINE w == worker[1].write
           q == Append(queue[user], [id |-> nextId, write |-> w])
<1>1. /\ w \in FreshWrites /\ queue' = [queue EXCEPT ![user] = q] /\ w \in Nat
      /\ nextId \in BatchIds /\ w \in Writes
  BY RunWriteDoes DEF FreshWrites, Inv, TypeOK
<1>2. UNCHANGED <<log, refused>>
  BY DEF RunWrite, history
<1>3. /\ \A p \in DOMAIN queue[user] : p \in DOMAIN q /\ q[p] = queue[user][p]
      /\ \A p \in DOMAIN q : p \in DOMAIN queue[user]
                              \/ (q[p].write = w /\ \A o \in DOMAIN queue[user] : ~(p < o))
      /\ \A p, o \in DOMAIN q : p < o /\ o \notin DOMAIN queue[user] => p \in DOMAIN queue[user]
  <2> DEFINE b == [id |-> nextId, write |-> w]
  <2>1. b \in Batches /\ b.write = w /\ queue[user] \in Seq(Batches)
    BY <1>1, LogIs DEF Batches
  <2> HIDE DEF b, w
  <2>. QED  BY <2>1 DEF b
<1>4. (\A p \in DOMAIN queue[user] : queue[user][p].write < w)
      /\ (\A i \in DOMAIN log : log[i].write < w)
  BY <1>1, LogIs DEF FreshWrites
<1>5. queue'[u] = IF u = user THEN q ELSE queue[u]
  BY <1>1, LogIs
<1>6. Ascending(queue[u]) /\ Passed(u) /\ NotOvertaken(u)
  BY DEF StandInv
<1> HIDE DEF q, w
<1>7. CASE u # user
  BY <1>2, <1>5, <1>6, <1>7 DEF Ascending, Passed, NotOvertaken, Own, Pending
<1>8. CASE u = user
  <2>1. Ascending(q)
    BY <1>3, <1>4, <1>6, <1>8 DEF Ascending
  <2>2. \A x : Pending(u, x) => Pending(u, x)'
    BY <1>3, <1>5, <1>8 DEF Pending
  <2>3. Passed(u)'
    <3> SUFFICES ASSUME NEW i \in Own(u), ~ Pending(u, log[i].write)'
                 PROVE  \A p \in DOMAIN q : log[i].write < q[p].write
      BY <1>2, <1>5, <1>8 DEF Passed, Own, Pending
    <3>1. \A p \in DOMAIN queue[u] : log[i].write < queue[u][p].write
      BY <1>2, <1>6, <2>2 DEF Passed
    <3>2. log[i].write < w
      BY <1>4 DEF Own
    <3>. QED  BY <1>3, <1>8, <3>1, <3>2
  <2>4. NotOvertaken(u)'
    <3>1. CASE Own(u) = {}
      BY <1>2, <3>1 DEF NotOvertaken, Own
    <3>2. CASE Own(u) # {}
      BY <1>2, <1>6, <2>2, <3>2 DEF NotOvertaken, Own
    <3>. QED  BY <3>1, <3>2
  <2>. QED  BY <1>5, <1>8, <2>1, <2>3, <2>4
<1>. QED  BY <1>7, <1>8

\* The oldest batch leaves the queue when it was applied last, or refused.
LEMMA StandsSettle ==
  ASSUME Inv, StandInv, OnWriteStreamMutationResult \/ HandleWriteError, NEW u \in Users
  PROVE  Ascending(queue[u])' /\ Passed(u)' /\ NotOvertaken(u)'
<1> DEFINE x == queue[user][1].write
           r == toClient[1]
<1>1. /\ r \in Truths /\ queue[user] # <<>> /\ x = r.write
      /\ queue' = [queue EXCEPT ![user] = Tail(@)]
      /\ r.type = (IF OnWriteStreamMutationResult THEN "result" ELSE "refused")
      /\ toClient # <<>>
  BY SettlingDoes
<1>2. UNCHANGED <<log, refused>>
  BY DEF OnWriteStreamMutationResult, HandleWriteError
<1> PICK q : q = Tail(queue[user])
  OBVIOUS
<1>3. queue'[u] = IF u = user THEN q ELSE queue[u]
  BY <1>1, LogIs
<1>4. /\ 1 \in DOMAIN queue[user]
      /\ \A p \in DOMAIN q : p + 1 \in DOMAIN queue[user] /\ q[p] = queue[user][p + 1] /\ p \in Nat \ {0}
      /\ \A p \in DOMAIN queue[user] : p = 1 \/ (p - 1 \in DOMAIN q /\ q[p - 1] = queue[user][p] /\ 1 < p)
  <2>1. queue[user] \in Seq(Batches)
    BY LogIs
  <2>2. /\ q \in Seq(Batches) /\ Len(q) = Len(queue[user]) - 1 /\ Len(queue[user]) \in Nat \ {0}
        /\ \A p \in 1..(Len(queue[user]) - 1) : q[p] = queue[user][p + 1]
    BY <1>1, <2>1, HeadTailProperties
  <2>3. DOMAIN queue[user] = 1..Len(queue[user]) /\ DOMAIN q = 1..(Len(queue[user]) - 1)
    BY <2>1, <2>2
  <2>4. \A p \in DOMAIN queue[user] : p = 1 \/ (p - 1 \in DOMAIN q /\ 1 < p /\ (p - 1) + 1 = p)
    BY <2>2, <2>3
  <2>. QED  BY <2>2, <2>3, <2>4
<1>5. Ascending(queue[u]) /\ Passed(u) /\ NotOvertaken(u)
  BY DEF StandInv
<1>6. CASE u # user
  BY <1>2, <1>3, <1>5, <1>6 DEF Ascending, Passed, NotOvertaken, Own, Pending
<1>7. CASE u = user
  <2>1. Ascending(q)
    <3> SUFFICES ASSUME NEW i \in DOMAIN q, NEW j \in DOMAIN q, i < j
                 PROVE  q[i].write < q[j].write
      BY DEF Ascending
    <3>1. i + 1 < j + 1
      BY <1>4
    <3>. QED  BY <1>4, <1>5, <1>7, <3>1 DEF Ascending
  <2>2. \A p \in DOMAIN q : x < q[p].write
    BY <1>4, <1>5, <1>7 DEF Ascending
  <2>3. ASSUME NEW y, Pending(u, y)
        PROVE  Pending(u, y)' \/ y = x
    <3>1. PICK p \in DOMAIN queue[u] : queue[u][p].write = y
      BY <2>3 DEF Pending
    <3>2. p = 1 \/ (p - 1 \in DOMAIN q /\ q[p - 1].write = y)
      BY <1>4, <1>7, <3>1
    <3>. QED  BY <1>3, <1>7, <3>1, <3>2 DEF Pending
  <2>4. Passed(u)'
    <3> SUFFICES ASSUME NEW i \in Own(u), ~ Pending(u, log[i].write)'
                 PROVE  \A p \in DOMAIN q : log[i].write < q[p].write
      BY <1>2, <1>3, <1>7 DEF Passed, Own, Pending
    <3>1. log[i].write = x \/ \A p \in DOMAIN queue[u] : log[i].write < queue[u][p].write
      BY <1>2, <1>5, <2>3 DEF Passed
    <3>. QED  BY <1>4, <1>7, <2>2, <3>1
  <2>5. CASE Own(u) = {}
    BY <1>2, <1>3, <1>7, <2>1, <2>4, <2>5 DEF NotOvertaken, Own
  <2>6. CASE Own(u) # {}
    <3>1. PICK j \in Own(u) :
            /\ \A k \in Own(u) : k <= j
            /\ \A i \in Own(u) : \/ log[i].write <= log[j].write
                                 \/ log[i].write \in refused
                                 \/ Pending(u, log[i].write)
      BY <1>5, <2>6 DEF NotOvertaken
    <3>2. x <= log[j].write \/ x \in refused
      <4>1. CASE ~ OnWriteStreamMutationResult
        BY <1>1, <4>1 DEF Truths
      <4>2. CASE OnWriteStreamMutationResult
        <5> DEFINE v == r.version
        <5>1. v \in DOMAIN log /\ log[v].write = x /\ r.type = "result" /\ 1 \in DOMAIN toClient
          BY <1>1, <4>2 DEF Truths, Inv, TypeOK
        <5>2. v \in Own(u)
          BY <1>4, <1>7, <5>1, LogIs DEF Inv, Owned, InCallersName, Own
        <5>3. v <= j /\ v \in Nat /\ j \in Nat /\ j \in DOMAIN log
          BY <3>1, <5>2, LogIs DEF Own
        <5>4. v < j => x < log[j].write
          BY <1>1, <1>7, <5>1 DEF StandInv, ResultsStand
        <5>5. v = j \/ v < j
          BY <5>3
        <5> HIDE DEF x, v
        <5>. QED  BY <5>1, <5>3, <5>4, <5>5, LogIs
      <4>. QED  BY <4>1, <4>2
    <3>3. \A i \in Own(u) : \/ log[i].write <= log[j].write
                            \/ log[i].write \in refused
                            \/ Pending(u, log[i].write)'
      BY <1>2, <2>3, <3>1, <3>2
    <3>4. NotOvertaken(u)'
      BY <1>2, <3>1, <3>3 DEF NotOvertaken, Own
    <3>. QED  BY <1>3, <1>7, <2>1, <2>4, <3>4
  <2>. QED  BY <2>5, <2>6
<1>. QED  BY <1>6, <1>7

\* The service applies a batch that waits, so that what is younger waits too.
LEMMA StandsApplied ==
  ASSUME Inv, StandInv, ServiceApplies
  PROVE  StandInv'
<1> DEFINE w == Head(toServer).write
           k == Len(toClient) + 1
           n == Len(log) + 1
<1>1. /\ account = user /\ k \in DOMAIN queue[user] /\ w = queue[user][k].write
      /\ \A i \in DOMAIN toClient :
           /\ toClient[i].type = "result" /\ toClient[i] \in Truths
           /\ i \in DOMAIN queue[user] /\ toClient[i].write = queue[user][i].write
  BY RequestIs DEF ServiceApplies
<1>2. /\ log' = Append(log, [write |-> w, as |-> account])
      /\ toClient' = Append(toClient, Result(w, n))
      /\ UNCHANGED <<queue, refused, user>>
  BY DEF ServiceApplies, disk, history
<1>3. w \in Writes /\ account \in Users /\ w \in Nat
  <2>1. queue[user] \in Seq(Batches) /\ user \in Users
    BY LogIs
  <2>2. w \in Writes
    BY <1>1, <2>1, BatchFields
  <2>. QED  BY <1>1, <2>1, <2>2 DEF Writes
<1>4. /\ n \in DOMAIN log' /\ log'[n].write = w /\ log'[n].as = user
      /\ \A i \in DOMAIN log : i \in DOMAIN log' /\ log'[i] = log[i] /\ i < n
      /\ \A i \in DOMAIN log' : i = n \/ i \in DOMAIN log
      /\ n \in Nat
  BY <1>1, <1>2, <1>3, LogIs
<1>5. /\ \A i \in DOMAIN toClient : toClient'[i] = toClient[i] /\ i < k /\ i \in Nat
      /\ toClient'[k] = Result(w, n)
      /\ \A i \in DOMAIN toClient' : i = k \/ i \in DOMAIN toClient
      /\ k \in Nat
  <2>1. toClient \in Seq(Answers)
    BY DEF Inv, TypeOK
  <2>2. Result(w, n) \in Answers
    BY <1>3, <1>4, AnswersTyped
  <2>. QED  BY <1>2, <2>1, <2>2
<1> HIDE DEF w, k, n
<1>6. ASSUME NEW u, NEW i
      PROVE  i \in Own(u)' <=> i \in Own(u) \/ (i = n /\ u = user)
  BY <1>4 DEF Own
<1>7. ASSUME NEW u \in Users
      PROVE  Ascending(queue[u])' /\ Passed(u)' /\ NotOvertaken(u)'
  <2>1. Ascending(queue[u]) /\ Passed(u) /\ NotOvertaken(u)
    BY DEF StandInv
  <2>2. Ascending(queue[u])'
    BY <1>2, <2>1 DEF Ascending
  <2>3. CASE u # user
    <3>1. Own(u)' = Own(u)
      BY <1>6, <2>3
    <3>2. \A i \in Own(u) : log'[i] = log[i]
      BY <1>4 DEF Own
    <3>3. Passed(u)'
      <4>1. \A i \in Own(u)' :
              \/ \E p \in DOMAIN queue[u] : queue[u][p].write = log'[i].write
              \/ \A p \in DOMAIN queue[u] : log'[i].write < queue[u][p].write
        BY <2>1, <3>1, <3>2 DEF Passed, Pending
      <4>. QED  BY <1>2, <4>1 DEF Passed, Pending
    <3>4. ASSUME Own(u) # {}
          PROVE  NotOvertaken(u)'
      <4>1. PICK j \in Own(u) :
              /\ \A o \in Own(u) : o <= j
              /\ \A i \in Own(u) : \/ log[i].write <= log[j].write
                                   \/ log[i].write \in refused
                                   \/ Pending(u, log[i].write)
        BY <2>1, <3>4 DEF NotOvertaken
      <4>2. \A i \in Own(u)' : \/ log'[i].write <= log'[j].write
                              \/ log'[i].write \in refused'
                              \/ \E p \in DOMAIN queue[u] : queue[u][p].write = log'[i].write
        BY <1>2, <3>1, <3>2, <4>1 DEF Pending
      <4>. QED  BY <1>2, <3>1, <4>1, <4>2 DEF NotOvertaken, Pending
    <3>5. Own(u) = {} => NotOvertaken(u)'
      BY <3>1 DEF NotOvertaken
    <3>. QED  BY <2>2, <3>3, <3>4, <3>5
  <2>4. CASE u = user
    <3>1. \A i \in Own(u)' : i = n \/ (i \in Own(u) /\ i \in DOMAIN log /\ log'[i] = log[i])
      BY <1>4, <1>6, <2>4 DEF Own
    <3>2. Passed(u)'
      <4>1. ASSUME NEW i \in Own(u)'
            PROVE  \/ Pending(u, log[i].write)'
                   \/ \A p \in DOMAIN queue[u] : log'[i].write < queue[u][p].write
        <5>1. CASE i = n
          BY <1>1, <1>2, <1>4, <2>4, <5>1 DEF Pending
        <5>2. CASE i # n
          <6>1. i \in Own(u) /\ log'[i] = log[i]
            BY <3>1, <5>2
          <6>2. \/ Pending(u, log[i].write)
                \/ \A p \in DOMAIN queue[u] : log[i].write < queue[u][p].write
            BY <2>1, <6>1 DEF Passed
          <6>. QED  BY <1>2, <6>1, <6>2 DEF Pending
        <5>. QED  BY <5>1, <5>2
      <4>. QED  BY <1>2, <4>1 DEF Passed
    <3>3. ASSUME NEW i \in Own(u)
          PROVE  log[i].write <= w \/ Pending(u, log[i].write)
      <4>1. Pending(u, log[i].write) \/ log[i].write < w
        BY <1>1, <2>1, <2>4 DEF Passed
      <4>2. log[i].write \in Nat
        BY LogIs DEF Own
      <4>. QED  BY <1>3, <4>1, <4>2
    <3>4. ASSUME NEW i \in Own(u)' PROVE i <= n
      <4>1. i \in DOMAIN log'
        BY DEF Own
      <4>2. i = n \/ i < n
        BY <1>4, <4>1
      <4>3. i \in Nat
        BY <1>4, <4>1, LogIs
      <4>. QED  BY <1>4, <4>2, <4>3
    <3>5. ASSUME NEW i \in Own(u)'
          PROVE  \/ log'[i].write <= log'[n].write
                 \/ log'[i].write \in refused'
                 \/ Pending(u, log[i].write)'
      <4>1. CASE i = n
        BY <1>3, <1>4, <4>1
      <4>2. CASE i # n
        <5>1. i \in Own(u) /\ log'[i] = log[i]
          BY <3>1, <4>2
        <5>. QED  BY <1>2, <1>4, <3>3, <5>1 DEF Pending
      <4>. QED  BY <4>1, <4>2
    <3>6. n \in Own(u)'
      BY <1>6, <2>4
    <3>7. NotOvertaken(u)'
      BY <3>4, <3>5, <3>6 DEF NotOvertaken
    <3>. QED  BY <2>2, <3>2, <3>7
  <2>. QED  BY <2>3, <2>4
<1>8. ResultsStand'
  <2> SUFFICES ASSUME NEW a \in DOMAIN toClient', toClient'[a].type = "result",
                      NEW j \in Own(user)', toClient'[a].version < j
               PROVE  toClient'[a].write < log'[j].write
    BY <1>2 DEF ResultsStand
  <2>1. a # k
    <3>1. j \in DOMAIN log'
      BY <1>2 DEF Own
    <3>2. Result(w, n).version = n
      BY DEF Result
    <3>3. j \in Nat /\ j <= n
      BY <1>4, <3>1, LogIs
    <3>. QED  BY <1>4, <1>5, <3>1, <3>2, <3>3
  <2>2. /\ a \in DOMAIN toClient /\ toClient'[a] = toClient[a] /\ a < k
        /\ toClient[a].write = queue[user][a].write /\ a \in DOMAIN queue[user]
    BY <1>1, <1>5, <2>1
  <2>3. CASE j = n
    BY <1>1, <1>4, <2>2, <2>3 DEF StandInv, Ascending, Inv, TypeOK
  <2>4. CASE j # n
    <3>1. j \in Own(user)
      BY <1>2, <1>6, <2>4
    <3>2. log'[j] = log[j]
      BY <1>4, <3>1 DEF Own
    <3>. QED  BY <2>2, <3>1, <3>2 DEF StandInv, ResultsStand
  <2>. QED  BY <2>3, <2>4
<1>. QED  BY <1>7, <1>8 DEF StandInv

\* Whatever else happens, the answers kept are of the same connection, and a
\* connection of another account has none.
LEMMA ResultsMove ==
  ASSUME Inv, Next, ~ ServiceApplies
  PROVE  \A a \in DOMAIN toClient' : toClient'[a].type = "result" =>
           user' = user /\ \E b \in DOMAIN toClient : toClient[b] = toClient'[a]
<1>1. toClient \in Seq(Answers)
  BY DEF Inv, TypeOK
<1>2. CASE RunCredential \/ RunConnectivity \/ Restart \/ IdleTimeout \/ HandleWriteError \/ OnWriteStreamClose
  <2>1. toClient' = <<>>
    BY <1>2 DEF RunCredential, RunConnectivity, Restart, IdleTimeout, HandleWriteError,
         OnWriteStreamClose, Disconnect
  <2>. QED  BY <2>1
<1>3. CASE OnWriteStreamHandshakeComplete \/ OnWriteStreamMutationResult
  <2>1. toClient # <<>> /\ toClient' = Tail(toClient) /\ user' = user
    BY <1>3 DEF OnWriteStreamHandshakeComplete, OnWriteStreamMutationResult
  <2>2. \A a \in DOMAIN Tail(toClient) :
          a + 1 \in DOMAIN toClient /\ Tail(toClient)[a] = toClient[a + 1]
    BY <1>1, <2>1, HeadTailProperties
  <2>. QED  BY <2>1, <2>2
<1>4. CASE ServiceGreets \/ ServiceRefuses
  <2>1. PICK r \in {Hello} \cup {Refusal(x) : x \in 0..MaxWrites} :
          toClient' = Append(toClient, r) /\ user' = user
    <3>1. ServiceRefuses /\ Head(toServer).type # "hello" => Head(toServer).write \in 0..MaxWrites
      <4>1. ServiceRefuses => Head(toServer) \in Requests
        BY DEF ServiceRefuses, Inv, TypeOK
      <4>. QED  BY <4>1, FirestoreClientAssumption DEF Requests, Hello, Writes
    <3>2. 0 \in 0..MaxWrites
      BY FirestoreClientAssumption
    <3>. QED  BY <1>4, <3>1, <3>2 DEF ServiceGreets, ServiceRefuses
  <2>2. r.type # "result" /\ r \in Answers
    BY <2>1 DEF Hello, Refusal, Answers
  <2>3. \A a \in DOMAIN toClient' :
          toClient'[a] = r \/ (a \in DOMAIN toClient /\ toClient'[a] = toClient[a])
    BY <1>1, <2>1, <2>2
  <2>. QED  BY <2>1, <2>2, <2>3
<1>5. CASE NetworkFails
  <2>1. PICK n \in 0..Len(toClient) : toClient' = Append(SubSeq(toClient, 1, n), Failure)
    BY <1>5 DEF NetworkFails
  <2>2. Failure \in Answers /\ Failure.type # "result" /\ user' = user
    BY <1>5 DEF NetworkFails, Failure, Answers
  <2>3. SubSeq(toClient, 1, n) \in Seq(Answers)
        /\ \A a \in DOMAIN SubSeq(toClient, 1, n) :
             a \in DOMAIN toClient /\ SubSeq(toClient, 1, n)[a] = toClient[a]
    BY <1>1
  <2>4. \A a \in DOMAIN toClient' :
          toClient'[a] = Failure \/ (a \in DOMAIN toClient /\ toClient'[a] = toClient[a])
    <3> PICK t : t = SubSeq(toClient, 1, n)
      OBVIOUS
    <3>1. t \in Seq(Answers) /\ toClient' = Append(t, Failure)
          /\ \A a \in DOMAIN t : a \in DOMAIN toClient /\ t[a] = toClient[a]
      BY <2>1, <2>3
    <3>. QED  BY <2>2, <3>1
  <2>. QED  BY <2>2, <2>4
<1>6. CASE UNCHANGED <<user, toClient>>
  BY <1>6
<1>. QED  BY <1>2, <1>3, <1>4, <1>5, <1>6
     DEF Next, Write, SignIn, FetchToken, RunWrite, RunToken, BackoffElapses, ApplyRemoteEvent, net

LEMMA StandsKept ==
  ASSUME Inv, StandInv, [Next]_vars
  PROVE  StandInv'
<1>1. CASE ServiceApplies
  BY <1>1, StandsApplied
<1>2. CASE ~ ServiceApplies
  <2>1. log' = log /\ refused \subseteq refused'
    BY <1>2 DEF Next, vars, Write, SignIn, FetchToken, RunWrite, RunCredential, RunToken,
         RunConnectivity, BackoffElapses, IdleTimeout, OnWriteStreamHandshakeComplete,
         OnWriteStreamMutationResult, HandleWriteError, OnWriteStreamClose,
         ApplyRemoteEvent, ServiceGreets, ServiceRefuses, NetworkFails, Restart, history
  <2>2. ResultsStand'
    <3>1. \A a \in DOMAIN toClient' : toClient'[a].type = "result" =>
            user' = user /\ \E b \in DOMAIN toClient : toClient[b] = toClient'[a]
      <4>1. UNCHANGED vars => UNCHANGED <<user, toClient>>
        BY DEF vars, net
      <4>. QED  BY <1>2, <4>1, ResultsMove
    <3> SUFFICES ASSUME NEW a \in DOMAIN toClient', toClient'[a].type = "result",
                        NEW j \in Own(user)', toClient'[a].version < j
                 PROVE  toClient'[a].write < log'[j].write
      BY DEF ResultsStand
    <3>2. user' = user
      BY <3>1
    <3>3. PICK b \in DOMAIN toClient : toClient[b] = toClient'[a]
      BY <3>1
    <3>4. j \in Own(user)
      BY <2>1, <3>2 DEF Own
    <3>. QED  BY <2>1, <3>3, <3>4 DEF StandInv, ResultsStand
  <2>3. ASSUME NEW u \in Users
        PROVE  Ascending(queue[u])' /\ Passed(u)' /\ NotOvertaken(u)'
    <3>1. CASE RunWrite
      BY <3>1, StandsWrite
    <3>2. CASE OnWriteStreamMutationResult \/ HandleWriteError
      BY <3>2, StandsSettle
    <3>3. CASE ~ (RunWrite \/ OnWriteStreamMutationResult \/ HandleWriteError)
      <4>1. queue' = queue
        BY <1>2, <3>3 DEF Next, vars, Write, SignIn, FetchToken, RunCredential, RunToken,
             RunConnectivity, BackoffElapses, IdleTimeout, OnWriteStreamHandshakeComplete,
             OnWriteStreamClose, ApplyRemoteEvent, ServiceGreets, ServiceRefuses,
             NetworkFails, Restart, disk
      <4>2. Ascending(queue[u]) /\ Passed(u) /\ NotOvertaken(u)
        BY DEF StandInv
      <4>3. Ascending(queue[u])' /\ Passed(u)'
        BY <2>1, <4>1, <4>2 DEF Ascending, Passed, Own, Pending
      <4>4. Own(u)' = Own(u)
        BY <2>1 DEF Own
      <4>5. CASE Own(u) = {}
        BY <4>3, <4>4, <4>5 DEF NotOvertaken
      <4>6. CASE Own(u) # {}
        <5>1. PICK j \in Own(u) :
                /\ \A k \in Own(u) : k <= j
                /\ \A i \in Own(u) : \/ log[i].write <= log[j].write
                                     \/ log[i].write \in refused
                                     \/ Pending(u, log[i].write)
          BY <4>2, <4>6 DEF NotOvertaken
        <5>2. \A i \in Own(u) : \/ log[i].write <= log[j].write
                                \/ log[i].write \in refused'
                                \/ \E p \in DOMAIN queue[u] : queue[u][p].write = log[i].write
          BY <2>1, <5>1 DEF Pending
        <5>3. NotOvertaken(u)'
          BY <2>1, <4>1, <4>4, <5>1, <5>2 DEF NotOvertaken, Pending
        <5>. QED  BY <4>3, <5>3
      <4>. QED  BY <4>5, <4>6
    <3>. QED  BY <3>1, <3>2, <3>3
  <2>. QED  BY <2>2, <2>3 DEF StandInv
<1>. QED  BY <1>1, <1>2

\* Once nothing of an account waits, the document is as its last write left it,
\* unless the service refused that one at least once: a batch that is sent
\* again, after a lost answer, never ends up on top of a younger one.
THEOREM LastWriteIsLast == Spec => []LastWriteStands
<1>1. Init => StandInv
  <2> SUFFICES ASSUME Init PROVE StandInv
    OBVIOUS
  <2>1. DOMAIN log = {} /\ DOMAIN toClient = {} /\ \A u \in Users : DOMAIN queue[u] = {}
    BY DEF Init
  <2>2. \A u : Own(u) = {}
    BY <2>1 DEF Own
  <2>. QED  BY <2>1, <2>2 DEF StandInv, Ascending, Passed, NotOvertaken, ResultsStand
<1>2. Inv /\ StandInv /\ [Next]_vars => StandInv'
  BY StandsKept
<1>3. Inv /\ StandInv => LastWriteStands
  <2> SUFFICES ASSUME Inv, StandInv, NEW u \in Users, queue[u] = <<>>
               PROVE  LET own == {i \in DOMAIN log : writer[log[i].write] = u} IN
                      \A i \in own : (\A j \in own : log[j].write <= log[i].write) =>
                        \/ log[i].write \in refused
                        \/ \E j \in own : log[j].write = log[i].write /\ \A k \in own : k <= j
    BY DEF LastWriteStands
  <2>1. {i \in DOMAIN log : writer[log[i].write] = u} = Own(u)
    BY DEF Inv, Owned, InCallersName, Own
  <2> SUFFICES ASSUME NEW i \in Own(u), \A j \in Own(u) : log[j].write <= log[i].write,
                      log[i].write \notin refused
               PROVE  \E j \in Own(u) : log[j].write = log[i].write /\ \A k \in Own(u) : k <= j
    BY <2>1
  <2>2. \A w : ~ Pending(u, w)
    BY DEF Pending
  <2>3. PICK j \in Own(u) : (\A k \in Own(u) : k <= j) /\ log[i].write <= log[j].write
    BY <2>2 DEF StandInv, NotOvertaken
  <2>4. log[i].write \in Nat /\ log[j].write \in Nat
    BY LogIs DEF Own
  <2>5. log[j].write = log[i].write
    BY <2>3, <2>4
  <2>. QED  BY <2>3, <2>5
<1>. QED  BY <1>1, <1>2, <1>3, InvHolds, PTL DEF Spec
==============================================================================
