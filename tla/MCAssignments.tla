--------------------------- MODULE MCAssignments ---------------------------
(* Model checking of Assignments on programs of a few declarations.        *)
EXTENDS Assignments, TLC

CONSTANTS s1, f1, x1, y1

(* A struct type, a global, a function, and two variables in it: locals,   *)
(* parameters, or one of each, with names of their own or that hide.       *)
MCId == {s1, f1, x1, y1}
MCNames == [types |-> 2, struct |-> 2, functions |-> 1, frame |-> 2]
MCSymmetry == Permutations({x1, y1})
MCZero == {<<0, 0>>}
=============================================================================
