---------------------------- MODULE MCTypeCheck -----------------------------
(* Model checking of TypeCheck: two structs, functions with each kind of   *)
(* result and parameter, one that returns a struct that is not declared,   *)
(* locals that hide a global and a function.  A local x that is no struct  *)
(* and a local lt of another struct hide global ones whose fields have     *)
(* names of their own.                                                     *)
EXTENDS TypeCheck, TLC

Int == [kind |-> "Prim", type |-> "int"]
Char == [kind |-> "Prim", type |-> "char"]
S(n) == [kind |-> "Struct", struct |-> n]
Fun(n, ret, args) ==
  [kind |-> "Function", name |-> n, no_ret |-> FALSE, ret |-> ret, args |-> args]
Proc(n, args) == [kind |-> "Function", name |-> n, no_ret |-> TRUE, args |-> args]

MCStructs == {"s", "t"}
MCGlobals ==
  [s |-> [kind |-> "DeclStruct"], t |-> [kind |-> "DeclStruct"],
   x |-> S("s"), gs |-> S("s"), gi |-> Int, lt |-> S("s"),
   fi |-> Fun("fi", Int, <<Int>>), fc |-> Fun("fc", Char, <<>>),
   fs |-> Fun("fs", S("s"), <<S("s"), Char>>), fv |-> Proc("fv", <<>>),
   h |-> Fun("h", Int, <<>>), fu |-> Fun("fu", S("u"), <<>>)]
  @@ "x.f" :> Int @@ "gs.f" :> Int @@ "lt.f" :> Int
MCLocals ==
  [x |-> Int, c |-> Char, ls |-> S("s"), lt |-> S("t"), h |-> Int]
  @@ "ls.f" :> Int @@ "lt.g" :> Char
MCOwner == "x.f" :> "x" @@ "gs.f" :> "gs" @@ "lt.f" :> "lt" @@ "ls.f" :> "ls" @@ "lt.g" :> "lt"

Var(v) == [kind |-> "LValue", id |-> v]
Call(f, args) == [kind |-> "FunctionCall", id |-> f, args |-> args]
Lits == {[kind |-> k] : k \in Literal}
Vars0 == {Var(v) : v \in {"x", "c", "ls", "lt", "gs", "gi", "fi", "s", "none"}}
Fields == {Var(v) : v \in {"x.f", "gs.f", "lt.f", "lt.g"}}
Calls0 == {Call(f, <<>>) : f \in {"fc", "fv", "h", "fi", "fu", "none", "gi"}}
Plain == Lits \cup Vars0 \cup Calls0
Basic == Plain \cup Fields
Calls1 == {Call(f, <<a>>) : f \in {"fi", "fc", "gi"}, a \in Basic}
Calls2 == {Call("fs", <<a, b>>) : a \in Plain, b \in Basic}
          \cup {Call("fi", <<a, b>>) : a, b \in {Var("x"), Var("ls")}}
Passed == {Call(f, <<Call("fs", <<Var("ls"), Var("c")>>)>>) : f \in {"fi", "fc"}}
          \cup {Call("fs", <<Call("fs", <<Var("gs"), Var("x")>>), Var("c")>>)}
Ops == {[kind |-> "Binop", left |-> a, right |-> b] : a \in Basic, b \in Plain}
       \cup {[kind |-> "Unop", sub |-> a] : a \in Basic}
Deep == {[kind |-> "Unop", sub |-> [kind |-> "Binop", left |-> a, right |-> Var("x")]] : a \in Basic}
        \cup {Call("fi", <<[kind |-> "Unop", sub |-> a]>>) : a \in Basic}

MCExpr == Basic \cup Calls1 \cup Calls2 \cup Passed \cup Ops \cup Deep

MCStmt ==
  [kind : {"Print", "If", "While", "SuiteInstr"}, expr : MCExpr]
    \cup [kind : {"Assign"}, left : {"x", "c", "ls", "gs", "lt", "gi", "fi", "s", "none", "x.f", "lt.g"},
           expr : MCExpr]
    \cup [kind : {"Reade", "Readc"}, left : {"x", "c", "ls", "gi", "fi", "s", "none", "x.f", "ls.f", "lt.g"}]
    \cup [kind : {"Return"}, func : {"fi", "fc", "fs", "fu", "fv"}, expr : MCExpr \cup {[kind |-> "Void"]}]
=============================================================================
