---------------------------- MODULE MCStatements ----------------------------
(* Model checking of Statements on small bodies.  The id of a statement is *)
(* its path in the tree.                                                   *)
EXTENDS Statements

Leaves(p) == {Simple(p), Return(p)}

(* The lists of one or two statements, a first and a second.               *)
Suites(S, T) ==
  {Suite(a, None) : a \in S} \cup {Suite(a, Suite(b, None)) : a \in S, b \in T}

(* Control structures on a branch and a second one; no dangling else.      *)
Structures(B, C) ==
  {If(b) : b \in B} \cup {While(b) : b \in B} \cup {IfElse(b, c) : b \in B, c \in C}

(* Two statements in a row, with blocks of up to two leaves as branches.   *)
Branches(p) ==
  Leaves(p) \cup {Block(s) : s \in {None}
                    \cup Suites(Leaves(Append(p, 1)), Leaves(Append(p, 2)))}
Flat(p) ==
  Leaves(p) \cup Structures(Branches(Append(p, 1)), Branches(Append(p, 2)))
MCFlat == Suites(Flat(<<1>>), Flat(<<2>>))

(* Structures in the branches of structures, up to two in a row.           *)
Inner(p) == Leaves(p) \cup Structures(Leaves(Append(p, 1)), Leaves(Append(p, 2)))
OneInner(p) == {Block(Suite(s, None)) : s \in Inner(p)}
MCNested ==
  {Suite(s, None) : s \in Structures(OneInner(<<1>>) \cup {Simple(<<1>>)},
                                     OneInner(<<2>>) \cup {Simple(<<2>>)})}
    \cup {Suite(While(Block(s)), None) :
            s \in {None} \cup Suites(Inner(<<1>>), Inner(<<2>>))}
    \cup {Suite(Simple(<<0>>), Suite(s, Suite(Return(<<9>>), None))) :
            s \in Structures(OneInner(<<1>>), OneInner(<<2>>))}

(* No body is empty or has a block as a statement of its own.              *)
MCBodies == MCFlat \cup MCNested

(* The bodies and what they consist of, down to the leaves.                *)
RECURSIVE Subtrees(_)
Subtrees(T) ==
  IF T = {} THEN {} ELSE Subtrees(UNION {Children(t) : t \in T}) \cup T

Trees ==
  Subtrees(MCNested \cup {Suite(s, None) : s \in Flat(<<1>>) \cup Flat(<<2>>)})
    \cup MCFlat
MCTree == Trees  \* evaluated once

MCOracles == [1 .. 3 -> BOOLEAN]
=============================================================================
