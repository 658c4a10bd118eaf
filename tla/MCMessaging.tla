----------------------------- MODULE MCMessaging -----------------------------
(* Values of the constants of Messaging for TLC: who writes to whom, and who *)
(* has a chat open at first.                                                *)
EXTENDS Messaging, TLC

CONSTANTS ann, bob, cat

BothToBob == {<<ann, bob>>, <<cat, bob>>}
BothChatting == [u \in Users |-> IF u = bob THEN None ELSE bob]
Senders == Permutations({ann, cat})

AnnWrites == {<<ann, bob>>}
NobodyChatting == [u \in Users |-> None]
==============================================================================
