------------------------------ MODULE MCDriver ------------------------------
(* Model checking of Driver with two processes in one directory.           *)
EXTENDS Driver, TLC

CONSTANTS p1, p2

Command(src, n, x) == [src |-> src, n |-> n, x |-> x, h |-> FALSE]

(* Two sources of one stem: a.asm has the name of the output of either, a  *)
(* that of the executable which -x makes of it.                            *)
A == <<".", "a", "">>
AAsm == <<".", "a", ".asm">>
MCSource == {A, AAsm}

(* A program with a syntax error is what a.asm holds once it has been      *)
(* overwritten; one with a warning is among what two inputs mixed may be.  *)
MCOutcome == [v |-> "valid", d |-> "declaration", b |-> "body", k |-> "crash"]
MCProgram == DOMAIN MCOutcome
MCInvocations ==
  {Command(A, TRUE, FALSE), Command(AAsm, FALSE, TRUE), Command(Anon, FALSE, TRUE),
   [Command(Anon, FALSE, FALSE) EXCEPT !.h = TRUE]}

MCSymmetry == Permutations({p1, p2})
=============================================================================
