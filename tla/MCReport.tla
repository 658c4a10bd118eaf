------------------------------ MODULE MCReport ------------------------------
(* Values of the constants of Report for TLC. *)
EXTENDS Report

CONSTANTS ann, bob, cat, dan
==============================================================================
