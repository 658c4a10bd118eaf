------------------------------ MODULE MCSignup ------------------------------
(* Values of the constants of Signup for TLC. *)
EXTENDS Signup, TLC

CONSTANTS ann, bob, n1, n2, x1, x2, c1

Alike == Permutations(Names) \cup Permutations(Universities)
=============================================================================
