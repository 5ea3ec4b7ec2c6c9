--------------------------- MODULE MCExpressions ---------------------------
(* Model checking of Expressions with cells of one bit: ints of 4 bits.    *)
EXTENDS Expressions, FiniteSetsExt

MCSymbols == [g |-> 40, fmtd |-> 60, fmtc |-> 64]

(* An int local, a char local next to it, and a global.                    *)
MCVars == [x |-> [type |-> "int", at |-> At("rbp", -4, 8)],
           c |-> [type |-> "char", at |-> At("rbp", -5, 8)],
           g |-> [type |-> "int", at |-> At("g", 0, 8)]]

MCEnvs == [x : {-1, 0, 5}, c : {0, 1}, g : {3}]

Var(v) == [kind |-> "LValue", id |-> v]
Lit(n) == [kind |-> "IntLiteral", val |-> n]
Result(type, n) == [kind |-> "FunctionCall", type |-> type, val |-> n]
Un(k, s) == [kind |-> k, sub |-> s]
Bin(k, a, b) == [kind |-> k, left |-> a, right |-> b]

Leaves0 == {Var(v) : v \in DOMAIN MCVars}
           \cup {Lit(0), Lit(1), Lit(6), [kind |-> "CharLiteral", val |-> 1]}
           \cup {Result("int", -3), Result("char", 1)}

(* Every operator on pairs of leaves, and pairs of operators.              *)
Left == {Var("x"), Var("c"), Lit(6), Result("int", -3), Result("char", 1)}
Right == {Var("x"), Var("c"), Var("g"), Lit(0)}
Simple == {Bin(k, a, b) : k \in Binary, a \in Left, b \in Right}
          \cup {Un(k, a) : k \in Unary, a \in Left}
Inner == {Bin(k, Var("x"), Var("g")) : k \in {"Plus", "Minus", "Div", "==", "And", "Or"}}
         \cup {Un(k, Var("x")) : k \in Unary}
Outer == {Un(k, e) : k \in Unary, e \in Inner}
         \cup {Bin(k, Var("c"), e) : k \in Binary, e \in Inner}
         \cup {Bin(k, e, Lit(1)) : k \in Binary, e \in Inner}

MCExpr == Leaves0 \cup Simple \cup Inner \cup Outer

(* if (c) and if (c == 'b'), as programs that test a char have them.       *)
MCCharTest == {Var("c"), [kind |-> "CharLiteral", val |-> 1],
               Bin("==", Var("c"), [kind |-> "CharLiteral", val |-> 1])}

(* The nesting, and a stack of three words.                                *)
MCDepth[e \in MCExpr \cup MCCharTest] ==
  CASE e.kind \in Unary -> 1 + MCDepth[e.sub]
    [] e.kind \in Binary -> 1 + Max({MCDepth[e.left], MCDepth[e.right]})
    [] OTHER -> 0
=============================================================================
