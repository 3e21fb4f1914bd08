---------------------------- MODULE MCIndexLock ----------------------------
(***************************************************************************)
(* Two processes on one index file; the first one has an initial index and *)
(* a branch switch that want the lock.                                     *)
(***************************************************************************)
EXTENDS IndexLock

CONSTANTS initial, switch, other, p1, p2

ProcessOf == [c \in Callers |-> IF c = other THEN p2 ELSE p1]
============================================================================
