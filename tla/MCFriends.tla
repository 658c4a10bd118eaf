------------------------------ MODULE MCFriends ------------------------------
(* Values of the constants of Friends for TLC: who looks at whom. *)
EXTENDS Friends

CONSTANTS ann, bob, cat

OneAsks == {<<ann, bob>>}
SelfToo == {<<ann, bob>>, <<ann, ann>>}
==============================================================================
