-------------------------- MODULE MCSymbolsTable ---------------------------
(* Model checking of SymbolsTable on programs of a few declarations.       *)
EXTENDS SymbolsTable, TLC

CONSTANTS s1, f1, x1

(* A program without global variables: a struct type, a function, and      *)
(* three variables in the function.                                        *)
MCFrameId == {s1, f1, x1}
MCFrames == [types |-> 1, struct |-> 2, functions |-> 1, frame |-> 3]

(* A fresh block is zero, or holds what its last owner left: numbers of    *)
(* either sign.                                                            *)
MCLeftOver == {<<0, 0>>, <<3, 5>>, <<-3, 5>>}
=============================================================================
