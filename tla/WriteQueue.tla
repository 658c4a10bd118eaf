----------------------------- MODULE WriteQueue -----------------------------
(***************************************************************************)
(* What the Firestore SDK promises the app about its writes.  The writes   *)
(* of an account wait in the order they were made.  The service applies    *)
(* the oldest one, and those after it once it has applied the earlier      *)
(* ones; it may apply a waiting write again (an answer was lost), never    *)
(* one that is settled.  The oldest write is settled as accepted only when *)
(* the service has applied it, and the app is told at most once: not at    *)
(* all when it was restarted in between.                                   *)
(***************************************************************************)
EXTENDS Integers, Sequences

CONSTANTS
  Users,      \* the accounts that sign in on the device
  MaxWrites   \* bound on the writes the app makes, numbered in order

VARIABLES
  pending,    \* per account, its writes that are not settled
  log,        \* the writes the service applied, in order
  refused,    \* the writes it refused
  told        \* per write, what its completion was called with

vars == <<pending, log, refused, told>>

Writes == 1..MaxWrites
Verdicts == {"ok", "refused"}
Applied == {log[i] : i \in DOMAIN log}

Init ==
  /\ pending = [u \in Users |-> <<>>]
  /\ log = <<>>
  /\ refused = {}
  /\ told = [w \in Writes |-> "nothing"]

Waiting == UNION {{pending[u][i] : i \in DOMAIN pending[u]} : u \in Users}

\* A write is made durable: it is new, and younger than all that wait.
Accept(u, w) ==
  /\ w \notin Waiting \cup Applied
  /\ told[w] = "nothing"
  /\ \A v \in Waiting : v < w
  /\ pending' = [pending EXCEPT ![u] = Append(@, w)]
  /\ UNCHANGED <<log, refused, told>>

\* The service applies a waiting write, the earlier ones of its account
\* having been applied.
Apply(u, i) ==
  /\ \A j \in 1..(i - 1) : pending[u][j] \in Applied
  /\ log' = Append(log, pending[u][i])
  /\ UNCHANGED <<pending, refused, told>>

Refuse(u, i) ==
  /\ refused' = refused \cup {pending[u][i]}
  /\ UNCHANGED <<pending, log, told>>

\* The oldest write leaves the queue, with the service's verdict on it, and
\* the app is told or is not there.
Settle(u, verdict) ==
  /\ pending[u] # <<>>
  /\ Head(pending[u]) \in (IF verdict = "ok" THEN Applied ELSE refused)
  /\ pending' = [pending EXCEPT ![u] = Tail(@)]
  /\ told' \in {told, [told EXCEPT ![Head(pending[u])] = verdict]}
  /\ UNCHANGED <<log, refused>>

Next ==
  \E u \in Users :
    \/ \E w \in Writes : Accept(u, w)
    \/ \E i \in DOMAIN pending[u] : Apply(u, i) \/ Refuse(u, i)
    \/ \E verdict \in Verdicts : Settle(u, verdict)

Spec == Init /\ [][Next]_vars
==============================================================================
