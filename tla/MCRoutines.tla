---------------------------- MODULE MCRoutines ----------------------------
(* An instance of Routines for TLC: one routine, which its owner also runs *)
(* by hand; what a tick reads may be old when it comes to it, as when      *)
(* other routines come first.                                              *)
EXTENDS Routines

CONSTANTS news

MCRoutineIds == {news}
=============================================================================
