------------------------------- MODULE MCFork -------------------------------
(* A fork of three branches, or of two, competing or not. *)
EXTENDS Fork

CONSTANTS b1, b2, b3

ThreeBranches == {b1, b2, b3}
=============================================================================
