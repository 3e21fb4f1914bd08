---------------------------- MODULE MCWatchLoop ----------------------------
(***************************************************************************)
(* One file and two.                                                       *)
(***************************************************************************)
EXTENDS WatchLoop

TwoPaths == 1 .. 2

OnePath == {1}
============================================================================
