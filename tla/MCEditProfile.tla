---------------------------- MODULE MCEditProfile ----------------------------
(* Values of the constants of EditProfile for TLC. *)
EXTENDS EditProfile, TLC

CONSTANTS ann, bob, n1, n2, n3, p0, p1, p2, p3

Alike == Permutations(Names) \cup Permutations(Slots)
==============================================================================
