--------------------------- MODULE MCIndexRefresh ---------------------------
(***************************************************************************)
(* Instances of IndexRefresh for TLC: two paths, two branches.             *)
(***************************************************************************)
EXTENDS IndexQuiet

CONSTANTS p1, p2, c1, c2, d1, big

\* No content can be at both paths.
OwnContents == [p \in Paths |-> IF p = p1 THEN {c1, c2} ELSE {d1, big}]

\* c1 can be at both paths.
SharedContents == [p \in Paths |-> IF p = p1 THEN {c1, c2} ELSE {c1}]
============================================================================
