------------------------------ MODULE Firestore ------------------------------
(***************************************************************************)
(* Cloud Firestore as the app uses it: what every component that keeps     *)
(* documents is written over.  The service is not part of the repository   *)
(* and is assumed; of the SDK, the path a write takes is modelled in       *)
(* FirestoreClient, which keeps the promise of WriteQueue that is taken    *)
(* for granted here.                                                       *)
(*                                                                         *)
(* A document is identified with its path and, where a component cares,    *)
(* its contents; docs is the set of documents the server holds.  Every     *)
(* client keeps the batches it has written but the server has not yet      *)
(* acknowledged in a first-in first-out outbox, which survives a restart   *)
(* of the app.  A batch is applied atomically.  A client reads the server  *)
(* overlaid with its own outbox (latency compensation).                    *)
(***************************************************************************)
EXTENDS Integers, Sequences

CONSTANTS
  Clients     \* the devices; one per signed-in user

VARIABLES
  docs,       \* the documents that exist on the server
  outbox      \* per client, the batches not yet acknowledged

Touching(q, d) == {i \in DOMAIN q : d \in q[i].puts \cup q[i].dels}

\* What client u reads for document d: its last unacknowledged write of d,
\* or else what the server holds.
Sees(u, d) ==
  LET own == Touching(outbox[u], d) IN
  \/ own = {} /\ d \in docs
  \/ \E i \in own : (\A j \in own : j <= i) /\ d \in outbox[u][i].puts

Enqueue(u, batch) == outbox' = [outbox EXCEPT ![u] = Append(@, batch)]

EnqueueAll(u, batches) == outbox' = [outbox EXCEPT ![u] = @ \o batches]

\* The server acknowledges the oldest batch of u.
Commit(u) ==
  /\ outbox[u] # <<>>
  /\ docs' = (docs \ Head(outbox[u]).dels) \cup Head(outbox[u]).puts
  /\ outbox' = [outbox EXCEPT ![u] = Tail(@)]

\* The server refuses it: no document changes, and the overlay is undone.
Refuse(u) ==
  /\ outbox[u] # <<>>
  /\ outbox' = [outbox EXCEPT ![u] = Tail(@)]
  /\ UNCHANGED docs
==============================================================================
