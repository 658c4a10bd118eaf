----------------------------- MODULE Friendship ------------------------------
(***************************************************************************)
(* What the friends component promises about the documents it keeps,       *)
(* whatever screens, caches and queues lie between a tap and the server.   *)
(* A pair <<o, f>> belongs to o's collections: f has asked o, o has        *)
(* accepted f, o has blocked f.                                            *)
(***************************************************************************)
CONSTANTS
  Users

VARIABLES
  requested,  \* Friends/o/Requested/f
  accepted,   \* Friends/o/Accepted/f
  blocked,    \* Blocked/o/BlockedUsers/f
  asked       \* history: the pairs whose request ever reached the server

vars == <<requested, accepted, blocked, asked>>

Pairs == Users \X Users

TypeOK ==
  /\ requested \in SUBSET Pairs
  /\ accepted \in SUBSET Pairs
  /\ blocked \in SUBSET Pairs
  /\ asked \in SUBSET Pairs

Init ==
  /\ requested = {}
  /\ accepted = {}
  /\ blocked = {}
  /\ asked = {}

Ask(f, o) ==
  /\ requested' = requested \cup {<<o, f>>}
  /\ asked' = asked \cup {<<o, f>>}
  /\ UNCHANGED <<accepted, blocked>>

\* f withdraws its request, or o declines it.
Drop(o, f) ==
  /\ requested' = requested \ {<<o, f>>}
  /\ UNCHANGED <<accepted, blocked, asked>>

\* o can only accept someone who has asked.
Accept(o, f) ==
  /\ <<o, f>> \in asked
  /\ requested' = requested \ {<<o, f>>}
  /\ accepted' = accepted \cup {<<o, f>>}
  /\ UNCHANGED <<blocked, asked>>

\* Only the one who asked takes a friendship away again.
Unfriend(f, o) ==
  /\ accepted' = accepted \ {<<o, f>>}
  /\ UNCHANGED <<requested, blocked, asked>>

\* Blocking ends the friendship in both directions in the same step.
Block(o, f) ==
  /\ blocked' = blocked \cup {<<o, f>>}
  /\ accepted' = accepted \ {<<o, f>>, <<f, o>>}
  /\ UNCHANGED <<requested, asked>>

Unblock(o, f) ==
  /\ blocked' = blocked \ {<<o, f>>}
  /\ UNCHANGED <<requested, accepted, asked>>

Next ==
  \E o, f \in Users :
    \/ Ask(f, o)
    \/ Drop(o, f)
    \/ Accept(o, f)
    \/ Unfriend(f, o)
    \/ Block(o, f)
    \/ Unblock(o, f)

Spec == Init /\ [][Next]_vars
==============================================================================
