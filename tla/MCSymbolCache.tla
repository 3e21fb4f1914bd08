--------------------------- MODULE MCSymbolCache ---------------------------
(***************************************************************************)
(* Instances of SymbolCache for TLC.                                       *)
(***************************************************************************)
EXTENDS SymbolCache

CONSTANTS empty, small, large, huge

\* huge does not fit alone, large and small do not fit together.
Sizes == [c \in Codes |-> CASE c = empty -> 0 [] c = small -> 1
                            [] c = large -> 3 [] OTHER -> 4]
============================================================================
