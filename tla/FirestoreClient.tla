--------------------------- MODULE FirestoreClient ---------------------------
(***************************************************************************)
(* The write path of the Firestore SDK, from setData/commit in the app to  *)
(* the service and back (core/src of the FirebaseFirestore pod): the       *)
(* worker queue of the client, the mutation queue of the local store, the  *)
(* write pipeline of the remote store, the write stream with its states    *)
(* and its handshake, the credentials the stream is opened with, and the   *)
(* cached version of a document that acknowledgements and the watch stream *)
(* both move forward.                                                      *)
(*                                                                         *)
(* One worker task is one action.  The service and the network are an      *)
(* assumption: the service answers the requests of a connection in order,  *)
(* ends the connection when it refuses a batch, and does nothing for a     *)
(* connection that has ended.                                              *)
(***************************************************************************)
EXTENDS Integers, Sequences, FiniteSets, SequencesExt

CONSTANTS
  Users,         \* the accounts that sign in on the device
  NoUser,        \* no account: there is no connection
  MaxPending,    \* kMaxPendingWrites
  MaxWrites,     \* bound on the writes the app makes
  MaxEvents      \* bound on sign-ins, failures, reconnections and restarts

ASSUME FirestoreClientAssumption ==
  /\ NoUser \notin Users
  /\ MaxPending \in Nat \ {0}
  /\ MaxWrites \in Nat
  /\ MaxEvents \in Nat

VARIABLES
  auth,       \* the account signed in to FIRAuth (on disk)
  queue,      \* per account, its mutation batches (on disk)
  cached,     \* the version of the cached document (on disk)
  user,       \* current_user_ of the sync engine
  nextId,     \* next_batch_id_ of the open mutation queue
  callbacks,  \* mutation_callbacks_
  worker,     \* the tasks on the worker queue
  asks,       \* per GetToken call under way, whether it is current
  stream,     \* state_ of the write stream
  handshake,  \* handshake_complete_
  idle,       \* the idleness timer is running
  pipeline,   \* write_pipeline_
  account,    \* whose token the connection carries
  toServer,   \* requests the service has not handled
  toClient,   \* answers the client has not handled
  log,        \* the writes the service applied, and in whose name
  writer,     \* history: who was signed in when the app made a write
  told,       \* history: what the completion of a write was called with
  refused,    \* history: the writes the service refused, at least once
  events      \* history: events so far

disk == <<auth, queue, cached>>
net == <<account, toServer, toClient>>
history == <<writer, told, refused, events>>
vars == <<disk, user, nextId, callbacks, worker, asks, stream, handshake,
          idle, pipeline, net, log, history>>

Writes == 1..MaxWrites
BatchIds == 1..(MaxWrites + 1)
Batches == [id : BatchIds, write : Writes]
Callbacks == [user : Users, id : BatchIds, write : Writes]

Hello == [type |-> "hello"]
Mutations(b) == [type |-> "mutations", write |-> b.write]
Result(w, v) == [type |-> "result", write |-> w, version |-> v]
Refusal(w) == [type |-> "refused", write |-> w]
Failure == [type |-> "failed"]

Tasks ==
  [type : {"write"}, write : Writes]
    \cup [type : {"credential"}, user : Users]
    \cup [type : {"token"}, user : Users, ok : BOOLEAN, current : BOOLEAN]

Requests == {Hello} \cup [type : {"mutations"}, write : Writes]
Answers == {Hello, Failure} \cup [type : {"result"}, write : Writes, version : Nat]
             \cup [type : {"refused"}, write : 0..MaxWrites]

Happens == events < MaxEvents /\ events' = events + 1

------------------------------------------------------------------------------
(* The local store *)

\* LoadNextBatchIdFromDb: n is one more than the highest id of any account,
\* so that the ids start again when the last batch is gone.
IsNextBatchId(n) ==
  /\ \A u \in Users : \A i \in DOMAIN queue[u] : queue[u][i].id < n
  /\ n = 1 \/ \E u \in Users : \E i \in DOMAIN queue[u] : queue[u][i].id = n - 1
\* Mutant: the youngest batch is removed.
Without_Last(q, id) == SubSeq(q, 1, Len(q) - 1)

\* RemoveMutationBatch, which finds the batch by its id.
Without(q, id) == RemoveAt(q, CHOOSE i \in DOMAIN q : q[i].id = id)

\* Mutant: the versions are not compared.
Newer_Always(version) == version

\* ApplyBatchResult and ApplyRemoteEvent: a document is only replaced by a
\* newer one.
Newer(version) == IF cached < version THEN version ELSE cached

\* NotifyUser: the callback of a batch, of the current user, if there is one.
Registered(id) == {c \in callbacks : c.user = user /\ c.id = id}
NotifyUser(id, verdict) ==
  /\ told' = [w \in Writes |->
                IF \E c \in Registered(id) : c.write = w THEN verdict ELSE told[w]]
  /\ callbacks' = callbacks \ Registered(id)

------------------------------------------------------------------------------
(* The remote store and the write stream *)

Started(s) == s \in {"Starting", "Backoff", "Open"}

\* Mutant: every error is one of the batch.
PermanentError_Any(answer) == answer.type \in {"refused", "failed"}

\* IsPermanentWriteError
PermanentError(answer) == answer.type = "refused"
LastId(p) == IF p = <<>> THEN 0 ELSE p[Len(p)].id

\* Mutant: the last batch of the pipeline is taken again.
Taken_Again(p, q) ==
  CHOOSE n \in 0..Len(q) : \A i \in DOMAIN q : i <= n <=> q[i].id < LastId(p)

\* How many batches of q are not after the last one of the pipeline p.
Taken(p, q) ==
  CHOOSE n \in 0..Len(q) : \A i \in DOMAIN q : i <= n <=> q[i].id <= LastId(p)

\* Mutant: there is always room.
NextBatches_AllRoom(p, q) == SubSeq(q, Taken(p, q) + 1, Len(q))

\* The batches of q that follow those of the pipeline, as long as there is
\* room (GetNextMutationBatch, CanAddToWritePipeline).
NextBatches(p, q) ==
  LET end == Taken(p, q) + MaxPending - Len(p) IN
  SubSeq(q, Taken(p, q) + 1, IF end < Len(q) THEN end ELSE Len(q))

\* Mutant: sent on an open stream, greeted or not.
Ready_Open(s) == s = "Open"

\* A batch that joins the pipeline is sent at once.
Ready(s) == s = "Open" /\ handshake

\* Mutant: a write leaves the idle timer running.
CancelsIdleCheck_Never(s, new) == FALSE

CancelsIdleCheck(s, new) == Ready(s) /\ new # <<>>

\* FillWritePipeline, over the pipeline p, the stream in state s and the
\* batches q of the current user: takes what fits, sends it when the stream
\* is ready, arms the idle timer when there is nothing, and starts the
\* stream when there is something and it is stopped.
FillWritePipeline(p, q, s, pending) ==
  LET new == NextBatches(p, q)
      starts == ~Started(s) /\ p \o new # <<>>
  IN
  /\ pipeline' = p \o new
  /\ stream' = IF ~starts THEN s ELSE IF s = "Error" THEN "Backoff" ELSE "Starting"
  /\ asks' = IF starts /\ s # "Error" THEN pending \cup {TRUE} ELSE pending
  /\ toServer' = IF s # "Open" THEN <<>>
                 ELSE IF ~Ready(s) THEN toServer
                 ELSE toServer \o [i \in DOMAIN new |-> Mutations(new[i])]
  /\ idle' = (s = "Open" /\ (p \o new = <<>> \/ (idle /\ ~CancelsIdleCheck(s, new))))

\* Close: ++close_count_ makes every token still to come one of an earlier
\* stream, and the connection is given up.
Outdated(pending) == {FALSE : a \in pending}

\* Mutant: a token for an earlier stream passes for one of this stream.
OutdatedTasks_Kept(tasks) == tasks

OutdatedTasks(tasks) ==
  [i \in DOMAIN tasks |->
     IF tasks[i].type = "token" THEN [tasks[i] EXCEPT !.current = FALSE] ELSE tasks[i]]
Disconnect == account' = NoUser /\ toClient' = <<>> /\ handshake' = FALSE

------------------------------------------------------------------------------
Init ==
  /\ auth \in Users
  /\ queue = [u \in Users |-> <<>>]
  /\ cached = 0
  /\ user = auth
  /\ nextId = 1
  /\ callbacks = {}
  /\ worker = <<>>
  /\ asks = {}
  /\ stream = "Initial"
  /\ handshake = FALSE
  /\ idle = FALSE
  /\ pipeline = <<>>
  /\ account = NoUser
  /\ toServer = <<>>
  /\ toClient = <<>>
  /\ log = <<>>
  /\ writer = <<>>
  /\ told = [w \in Writes |-> "nothing"]
  /\ refused = {}
  /\ events = 0

------------------------------------------------------------------------------
(* The app and FIRAuth: both put a task on the worker queue. *)

\* The app writes, in the name of the account that is signed in.
Write ==
  /\ Len(writer) < MaxWrites
  /\ writer' = Append(writer, auth)
  /\ worker' = Append(worker, [type |-> "write", write |-> Len(writer) + 1])
  /\ UNCHANGED <<disk, user, nextId, callbacks, asks, stream, handshake, idle,
                 pipeline, net, log, told, refused, events>>

\* Another account, or the same again, signs in.
SignIn(u) ==
  /\ Happens
  /\ auth' = u
  /\ worker' = Append(worker, [type |-> "credential", user |-> u])
  /\ UNCHANGED <<queue, cached, user, nextId, callbacks, asks, stream, handshake,
                 idle, pipeline, net, log, writer, told, refused>>

\* A GetToken call ends.  One that saw the account change is made again
\* (token_counter), so that the token is one of the account of this moment.
FetchToken(current) ==
  /\ current \in asks
  /\ \E ok \in BOOLEAN :
       /\ IF ok THEN UNCHANGED events ELSE Happens
       /\ worker' = Append(worker, [type |-> "token", user |-> auth, ok |-> ok,
                                    current |-> current])
  /\ asks' = asks \ {current}
  /\ UNCHANGED <<disk, user, nextId, callbacks, stream, handshake, idle, pipeline,
                 net, log, writer, told, refused>>

------------------------------------------------------------------------------
(* Tasks of the worker queue *)

\* SyncEngine::WriteMutations
RunWrite ==
  /\ worker # <<>> /\ Head(worker).type = "write"
  /\ LET w == Head(worker).write
         batch == [id |-> nextId, write |-> w]
     IN
     /\ queue' = [queue EXCEPT ![user] = Append(@, batch)]
     /\ callbacks' = callbacks \cup {[user |-> user, id |-> nextId, write |-> w]}
  /\ nextId' = nextId + 1
  /\ FillWritePipeline(pipeline, queue'[user], stream, asks)
  /\ worker' = Tail(worker)
  /\ UNCHANGED <<auth, cached, user, handshake, account, toClient, log, history>>

\* Mutant: the pipeline is not cleared.
RunCredential_KeepsPipeline ==
  /\ worker # <<>> /\ Head(worker).type = "credential"
  /\ user' = Head(worker).user
  /\ \/ user' # user /\ nextId' \in BatchIds /\ IsNextBatchId(nextId')
     \/ user' = user /\ UNCHANGED nextId
  /\ Disconnect
  /\ FillWritePipeline(pipeline, queue[user'], "Initial", Outdated(asks))
  /\ worker' = OutdatedTasks(Tail(worker))
  /\ UNCHANGED <<disk, callbacks, log, history>>

\* SyncEngine::HandleCredentialChange: the mutation queue is swapped when the
\* user is another one, and the streams are restarted in any case.
RunCredential ==
  /\ worker # <<>> /\ Head(worker).type = "credential"
  /\ user' = Head(worker).user
  /\ \/ user' # user /\ nextId' \in BatchIds /\ IsNextBatchId(nextId')
     \/ user' = user /\ UNCHANGED nextId
  /\ Disconnect
  /\ FillWritePipeline(<<>>, queue[user'], "Initial", Outdated(asks))
  /\ worker' = OutdatedTasks(Tail(worker))
  /\ UNCHANGED <<disk, callbacks, log, history>>

\* ResumeStartWithCredentials, unless the stream was closed since it asked.
\* The stream is open at once, and the handshake is sent.
RunToken ==
  /\ worker # <<>> /\ Head(worker).type = "token"
  /\ LET token == Head(worker) IN
     \/ /\ ~token.current
        /\ worker' = Tail(worker)
        /\ UNCHANGED <<asks, stream, net>>
     \/ /\ token.current /\ token.ok
        /\ stream' = "Open"
        /\ account' = token.user
        /\ toServer' = <<Hello>>
        /\ worker' = Tail(worker)
        /\ UNCHANGED <<asks, toClient>>
     \/ /\ token.current /\ ~token.ok
        /\ stream' = "Backoff"
        /\ asks' = Outdated(asks)
        /\ worker' = OutdatedTasks(Tail(worker))
        /\ UNCHANGED net
  /\ UNCHANGED <<disk, user, nextId, callbacks, handshake, idle, pipeline, log, history>>

\* The connectivity callback: RestartNetwork.
RunConnectivity ==
  /\ Happens
  /\ Disconnect
  /\ FillWritePipeline(<<>>, queue[user], "Initial", Outdated(asks))
  /\ worker' = OutdatedTasks(worker)
  /\ UNCHANGED <<disk, user, nextId, callbacks, log, writer, told, refused>>

\* The timer of BackoffAndTryRestarting.
BackoffElapses ==
  /\ stream = "Backoff"
  /\ stream' = "Starting"
  /\ asks' = asks \cup {TRUE}
  /\ UNCHANGED <<disk, user, nextId, callbacks, worker, handshake, idle, pipeline,
                 net, log, history>>

\* The timer of MarkIdle: Stop.
IdleTimeout ==
  /\ idle
  /\ stream' = "Initial"
  /\ idle' = FALSE
  /\ Disconnect
  /\ toServer' = <<>>
  /\ asks' = Outdated(asks)
  /\ worker' = OutdatedTasks(worker)
  /\ UNCHANGED <<disk, user, nextId, callbacks, pipeline, log, history>>

------------------------------------------------------------------------------
(* Answers of the service *)

OnWriteStreamHandshakeComplete ==
  /\ toClient # <<>> /\ Head(toClient).type = "hello"
  /\ handshake' = TRUE
  /\ toServer' = toServer \o [i \in DOMAIN pipeline |-> Mutations(pipeline[i])]
  /\ toClient' = Tail(toClient)
  /\ UNCHANGED <<disk, user, nextId, callbacks, worker, asks, stream, idle, pipeline,
                 account, log, history>>

\* The answer is taken for one to the first batch of the pipeline.
OnWriteStreamMutationResult ==
  /\ toClient # <<>> /\ Head(toClient).type = "result"
  /\ NotifyUser(Head(pipeline).id, "ok")
  /\ queue' = [queue EXCEPT ![user] = Without(@, Head(pipeline).id)]
  /\ cached' = Newer(Head(toClient).version)
  /\ FillWritePipeline(Tail(pipeline), queue'[user], stream, asks)
  /\ toClient' = Tail(toClient)
  /\ UNCHANGED <<auth, user, nextId, worker, handshake, account, log, writer, refused, events>>

\* OnWriteStreamClose after a permanent error of the writes: the first batch
\* of the pipeline is dropped, and the rest starts without a delay.
HandleWriteError ==
  /\ toClient # <<>> /\ PermanentError(Head(toClient))
  /\ handshake /\ pipeline # <<>>
  /\ NotifyUser(Head(pipeline).id, "refused")
  /\ queue' = [queue EXCEPT ![user] = Without(@, Head(pipeline).id)]
  /\ FillWritePipeline(Tail(pipeline), queue'[user], "Initial", Outdated(asks))
  /\ Disconnect
  /\ worker' = OutdatedTasks(worker)
  /\ UNCHANGED <<auth, cached, user, nextId, log, writer, refused, events>>

\* Mutant: the stream waits for the next write of the app.
OnWriteStreamClose_NoRestart ==
  /\ toClient # <<>> /\ Head(toClient).type \in {"failed", "refused"}
  /\ ~(PermanentError(Head(toClient)) /\ handshake /\ pipeline # <<>>)
  /\ stream' = "Error"
  /\ idle' = FALSE
  /\ toServer' = <<>>
  /\ Disconnect
  /\ asks' = Outdated(asks)
  /\ worker' = OutdatedTasks(worker)
  /\ UNCHANGED <<disk, user, nextId, callbacks, pipeline, log, history>>

\* OnWriteStreamClose after any other error: the stream tries again later,
\* when there is something to write.
OnWriteStreamClose ==
  /\ toClient # <<>> /\ Head(toClient).type \in {"failed", "refused"}
  /\ ~(PermanentError(Head(toClient)) /\ handshake /\ pipeline # <<>>)
  /\ stream' = IF pipeline = <<>> THEN "Error" ELSE "Backoff"
  /\ idle' = FALSE
  /\ toServer' = <<>>
  /\ Disconnect
  /\ asks' = Outdated(asks)
  /\ worker' = OutdatedTasks(worker)
  /\ UNCHANGED <<disk, user, nextId, callbacks, pipeline, log, history>>

\* ApplyRemoteEvent: the watch stream brings some version of the document,
\* an old one when it is behind or resumes from an old token.
ApplyRemoteEvent(version) ==
  /\ cached' = Newer(version)
  /\ UNCHANGED <<auth, queue, user, nextId, callbacks, worker, asks, stream,
                 handshake, idle, pipeline, net, log, history>>

------------------------------------------------------------------------------
(* The service and the network *)

Ended == toClient # <<>> /\ Last(toClient).type \in {"refused", "failed"}

ServiceGreets ==
  /\ toServer # <<>> /\ Head(toServer).type = "hello" /\ ~Ended
  /\ toServer' = Tail(toServer)
  /\ toClient' = Append(toClient, Hello)
  /\ UNCHANGED <<disk, user, nextId, callbacks, worker, asks, stream, handshake, idle,
                 pipeline, account, log, history>>

\* Every batch writes the document, whose version is the length of the log.
ServiceApplies ==
  /\ toServer # <<>> /\ Head(toServer).type = "mutations" /\ ~Ended
  /\ LET w == Head(toServer).write IN
     /\ log' = Append(log, [write |-> w, as |-> account])
     /\ toClient' = Append(toClient, Result(w, Len(log) + 1))
  /\ toServer' = Tail(toServer)
  /\ UNCHANGED <<disk, user, nextId, callbacks, worker, asks, stream, handshake, idle,
                 pipeline, account, history>>

\* A batch the rules or a precondition do not allow ends the connection, and
\* so does a handshake the service does not accept.
ServiceRefuses ==
  /\ toServer # <<>> /\ ~Ended
  /\ IF Head(toServer).type = "hello"
       THEN /\ Happens
            /\ toClient' = Append(toClient, Refusal(0))
            /\ UNCHANGED refused
       ELSE /\ toClient' = Append(toClient, Refusal(Head(toServer).write))
            /\ refused' = refused \cup {Head(toServer).write}
            /\ UNCHANGED events
  /\ toServer' = <<>>
  /\ UNCHANGED <<disk, user, nextId, callbacks, worker, asks, stream, handshake, idle,
                 pipeline, account, log, writer, told>>

\* The connection breaks: what the service has not handled is lost, and so
\* are the last answers.
NetworkFails ==
  /\ Happens
  /\ stream = "Open" /\ ~Ended
  /\ \E n \in 0..Len(toClient) : toClient' = Append(SubSeq(toClient, 1, n), Failure)
  /\ toServer' = <<>>
  /\ UNCHANGED <<disk, user, nextId, callbacks, worker, asks, stream, handshake, idle,
                 pipeline, account, log, writer, told, refused>>

\* The process ends and the app is started again: what is on disk is left.
Restart ==
  /\ Happens
  /\ user' = auth
  /\ nextId' \in BatchIds /\ IsNextBatchId(nextId')
  /\ callbacks' = {}
  /\ worker' = <<>>
  /\ Disconnect
  /\ FillWritePipeline(<<>>, queue[auth], "Initial", {})
  /\ UNCHANGED <<disk, log, writer, told, refused>>

------------------------------------------------------------------------------
Run == RunWrite \/ RunCredential \/ RunToken
Receive ==
  \/ OnWriteStreamHandshakeComplete
  \/ OnWriteStreamMutationResult
  \/ HandleWriteError
  \/ OnWriteStreamClose
Service == ServiceGreets \/ ServiceApplies \/ ServiceRefuses

Next ==
  \/ Write
  \/ \E u \in Users : SignIn(u)
  \/ \E current \in BOOLEAN : FetchToken(current)
  \/ RunWrite
  \/ RunCredential
  \/ RunToken
  \/ RunConnectivity
  \/ BackoffElapses
  \/ IdleTimeout
  \/ OnWriteStreamHandshakeComplete
  \/ OnWriteStreamMutationResult
  \/ HandleWriteError
  \/ OnWriteStreamClose
  \/ \E version \in DOMAIN log : ApplyRemoteEvent(version)
  \/ ServiceGreets
  \/ ServiceApplies
  \/ ServiceRefuses
  \/ NetworkFails
  \/ Restart

Spec == Init /\ [][Next]_vars

\* The tasks, the timers, the answers and the token calls all run in the end;
\* nothing is assumed of the app, nor that a failure happens.
Fairness ==
  /\ WF_vars(Run)
  /\ WF_vars(Receive)
  /\ WF_vars(Service)
  /\ WF_vars(\E current \in BOOLEAN : FetchToken(current))
  /\ WF_vars(BackoffElapses)

FairSpec == Spec /\ Fairness
------------------------------------------------------------------------------
(* Properties *)

TypeOK ==
  /\ auth \in Users
  /\ queue \in [Users -> Seq(Batches)]
  /\ cached \in Nat
  /\ user \in Users
  /\ nextId \in BatchIds
  /\ callbacks \subseteq Callbacks
  /\ worker \in Seq(Tasks)
  /\ asks \subseteq BOOLEAN
  /\ stream \in {"Initial", "Starting", "Open", "Error", "Backoff"}
  /\ handshake \in BOOLEAN
  /\ idle \in BOOLEAN
  /\ pipeline \in Seq(Batches) /\ Len(pipeline) <= MaxPending
  /\ account \in Users \cup {NoUser}
  /\ toServer \in Seq(Requests)
  /\ toClient \in Seq(Answers)
  /\ log \in Seq([write : Writes, as : Users])
  /\ writer \in Seq(Users)
  /\ told \in [Writes -> {"nothing", "ok", "refused"}]
  /\ refused \subseteq Writes
  /\ events \in 0..MaxEvents

\* The pipeline is the beginning of the current user's mutation queue: no
\* write is sent before an older one, and none is left out.
PipelineIsPrefix == IsPrefix(pipeline, queue[user])

\* The answers of a ready connection are to the batches of the pipeline, in
\* order: the one at the front is never settled with the answer to another
\* (OnWriteStreamMutationResult, HandleWriteError).
AnswersMatch ==
  handshake =>
    \A i \in DOMAIN toClient :
      toClient[i].type \in {"result", "refused"} =>
        i \in DOMAIN pipeline /\ pipeline[i].write = toClient[i].write

\* A write is applied in the name of the account that made it, also when
\* another one signed in while it waited or while the stream was starting.
InCallersName == \A i \in DOMAIN log : log[i].as = writer[log[i].write]

\* A write whose success was announced is in the document the device shows,
\* whatever the watch stream brings later.
ToldIsSeen ==
  \A w \in Writes : told[w] = "ok" => \E i \in 1..cached : log[i].write = w

\* Once nothing of an account waits, its last write is the last one of it
\* that the service applied, unless the service refused it after all: no
\* repeated write overtook it.
LastWriteStands ==
  \A u \in Users : queue[u] = <<>> =>
    LET own == {i \in DOMAIN log : writer[log[i].write] = u} IN
    \A i \in own : (\A j \in own : log[j].write <= log[i].write) =>
      \/ log[i].write \in refused
      \/ \E j \in own : log[j].write = log[i].write /\ \A k \in own : k <= j

\* The stream is only stopped for idleness when nothing is to be sent, and a
\* token only arrives at a stream that is starting (the assertions of
\* OnWriteStreamClose and ResumeStartWithCredentials).
AssertionsHold ==
  /\ idle => pipeline = <<>>
  /\ \A i \in DOMAIN worker :
       worker[i].type = "token" /\ worker[i].current => stream = "Starting"

\* A write that waits is settled, unless its account signs out.
Waits(w) == \E u \in Users : \E i \in DOMAIN queue[u] : queue[u][i].write = w
WritesSettle == \A w \in Writes : Waits(w) ~> (~Waits(w) \/ auth # writer[w])

\* The writes of the queues and of the log, without what the client and the
\* service know of them.
PendingWrites == [u \in Users |-> [i \in DOMAIN queue[u] |-> queue[u][i].write]]
AppliedWrites == [i \in DOMAIN log |-> log[i].write]

\* The write path keeps the promise of WriteQueue: in particular a write is
\* announced as refused only if the service refused it, and no other.
Promise == INSTANCE WriteQueue WITH pending <- PendingWrites, log <- AppliedWrites
KeepsPromise == Promise!Spec
==============================================================================
