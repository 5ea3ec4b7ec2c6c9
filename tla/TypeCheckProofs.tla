--------------------------- MODULE TypeCheckProofs ---------------------------
(***************************************************************************)
(* Proofs about TypeCheck: what the checks accept is typed as in C, and    *)
(* the reverse, for expressions of any depth and any declarations.         *)
(***************************************************************************)
EXTENDS TypeCheck, RecursionTheorems

-----------------------------------------------------------------------------
(* Expressions are finite trees: no chain of operands goes on forever.     *)
PartOf == {p \in Expr \X Expr : p[1] \in Parts(p[2])}

FiniteTrees == IsWellFoundedOn(PartOf, Expr)

(* The parts of an expression are expressions, below it in the order of    *)
(* FiniteTrees.                                                            *)
LEMMA PartsAreExpr ==
  ASSUME NEW e \in Expr
  PROVE  /\ Parts(e) \subseteq Expr
         /\ \A y \in Parts(e) : <<y, e>> \in PartOf
<1>1. e.kind = "FunctionCall" => \A i \in DOMAIN e.args : e.args[i] \in Expr
  BY ExprAssumption DEF Literal
<1>2. Parts(e) \subseteq Expr
  BY <1>1, ExprAssumption DEF Parts, Literal
<1>. QED
  BY <1>2 DEF PartOf

-----------------------------------------------------------------------------
(* The types of C.                                                         *)
CTypes == {Prim, Void, Error} \cup {Struct(n) : n \in Structs}

(* The types of C are told apart, and a struct type by its name.           *)
LEMMA TypesDiffer ==
  /\ Prim # Void /\ Prim # Error /\ Void # Error
  /\ \A n : Struct(n) # Prim /\ Struct(n) # Void /\ Struct(n) # Error
  /\ \A n, m : Struct(n) = Struct(m) => n = m
  /\ \A n : Struct(n)[1] = "struct"
<1>1. Prim[1] = "prim" /\ Void[1] = "void" /\ Error[1] = "error"
  BY DEF Prim, Void, Error
<1>2. \A n : Struct(n)[1] = "struct" /\ Struct(n)[2] = n
  BY DEF Struct
<1>. QED
  BY <1>1, <1>2

(* What is declared as a type has that type, or an undeclared one; it is   *)
(* never void.                                                             *)
LEMMA TypeOfTyped == \A t : TypeOf(t) \in CTypes /\ TypeOf(t) # Void
<1>. TAKE t
<1>1. CASE t.kind = "Prim"
  BY <1>1, TypesDiffer DEF TypeOf, CTypes
<1>2. CASE t.kind # "Prim" /\ t.struct \in Structs
  BY <1>2, TypesDiffer DEF TypeOf, CTypes
<1>3. CASE ~(t.kind = "Prim") /\ ~(t.kind # "Prim" /\ t.struct \in Structs)
  BY <1>3, TypesDiffer DEF TypeOf, CTypes
<1>. QED
  BY <1>1, <1>2, <1>3

(* The rule looks at the parts only, and yields a type.                    *)
LEMMA RuleLocal ==
  ASSUME NEW e \in Expr, NEW g, NEW h, \A y \in Parts(e) : g[y] = h[y]
  PROVE  TypeRule(g, e) = TypeRule(h, e)
<1>1. CASE e.kind \in Literal
  BY <1>1 DEF TypeRule, Literal
<1>2. CASE e.kind = "LValue"
  BY <1>2 DEF TypeRule, Literal
<1>3. CASE e.kind = "Binop"
  <2>1. g[e.left] = h[e.left] /\ g[e.right] = h[e.right]
    BY <1>3 DEF Parts
  <2>. QED
    BY <1>3, <2>1 DEF TypeRule, Literal
<1>4. CASE e.kind = "Unop"
  <2>1. g[e.sub] = h[e.sub]
    BY <1>4 DEF Parts
  <2>. QED
    BY <1>4, <2>1 DEF TypeRule, Literal
<1>5. CASE e.kind = "FunctionCall"
  <2>1. \A i \in DOMAIN e.args : g[e.args[i]] = h[e.args[i]]
    BY <1>5 DEF Parts
  <2>. QED
    BY <1>5, <2>1 DEF TypeRule, Literal
<1>. QED
  BY <1>1, <1>2, <1>3, <1>4, <1>5, ExprAssumption

(* The rule yields a type, whatever the parts have.                        *)
LEMMA RuleTyped ==
  ASSUME NEW e \in Expr, NEW g
  PROVE  TypeRule(g, e) \in CTypes
<1>1. Prim \in CTypes /\ Void \in CTypes /\ Error \in CTypes
  BY DEF CTypes
<1>2. CASE e.kind \in Literal \cup {"LValue"}
  BY <1>1, <1>2, TypeOfTyped DEF TypeRule, Literal
<1>3. CASE e.kind = "Binop"
  BY <1>1, <1>3 DEF TypeRule, Literal
<1>4. CASE e.kind = "Unop"
  BY <1>1, <1>4 DEF TypeRule, Literal
<1>5. CASE e.kind = "FunctionCall"
  BY <1>1, <1>5, TypeOfTyped DEF TypeRule, Literal
<1>. QED
  BY <1>2, <1>3, <1>4, <1>5, ExprAssumption

(* CType follows its rule.                                                 *)
LEMMA CTypeRule ==
  ASSUME FiniteTrees
  PROVE  /\ CType \in [Expr -> CTypes]
         /\ \A e \in Expr : CType[e] = TypeRule(CType, e)
<1>. DEFINE F == [g \in [Expr -> CTypes] |-> [e \in Expr |-> TypeRule(g, e)]]
<1>1. F \in [[Expr -> CTypes] -> [Expr -> CTypes]]
  BY RuleTyped
<1>2. Determined(F, PartOf, Expr, CTypes)
  <2>1. ASSUME NEW g \in [Expr -> CTypes], NEW h \in [Expr -> CTypes], NEW e \in Expr,
               \A y \in Expr : <<y, e>> \in PartOf => g[y] = h[y]
        PROVE  F[g][e] = F[h][e]
    <3>1. \A y \in Parts(e) : g[y] = h[y]
      BY <2>1, PartsAreExpr
    <3>2. TypeRule(g, e) = TypeRule(h, e)
      BY <3>1, RuleLocal
    <3>. QED
      BY <3>2
  <2>. HIDE DEF F
  <2>. QED
    BY <2>1 DEF Determined
<1>3. Error \in CTypes
  BY DEF CTypes
<1>4. \E g \in [Expr -> CTypes] : g = F[g]
  <2>. HIDE DEF F
  <2>1. WellDefined(F, PartOf, Expr, CTypes)
    BY <1>1, <1>2, <1>3 DEF WellDefined, FiniteTrees
  <2>. QED
    BY <2>1, RecursiveFunction
<1>5. \E g : g = [e \in Expr |-> TypeRule(g, e)]
  BY <1>4
<1>6. CType = CHOOSE g : g = [e \in Expr |-> TypeRule(g, e)]
  BY DEF CType
<1>7. CType = [e \in Expr |-> TypeRule(CType, e)]
  BY <1>5, <1>6
<1>. QED
  BY <1>7, RuleTyped

-----------------------------------------------------------------------------
(* What is within an expression.                                           *)
LEMMA WithinIs ==
  ASSUME FiniteTrees
  PROVE  /\ Within \in [Expr -> SUBSET Expr]
         /\ \A e \in Expr : Within[e] = WithinRule(Within, e)
<1>. DEFINE V == SUBSET Expr
            F == [g \in [Expr -> V] |-> [e \in Expr |-> WithinRule(g, e)]]
<1>1. ASSUME NEW g \in [Expr -> V], NEW e \in Expr
      PROVE  WithinRule(g, e) \in V
  BY PartsAreExpr DEF WithinRule
<1>2. F \in [[Expr -> V] -> [Expr -> V]]
  <2>. HIDE DEF V
  <2>. QED
    BY <1>1
<1>3. Determined(F, PartOf, Expr, V)
  <2>1. ASSUME NEW g \in [Expr -> V], NEW h \in [Expr -> V], NEW e \in Expr,
               \A y \in Expr : <<y, e>> \in PartOf => g[y] = h[y]
        PROVE  F[g][e] = F[h][e]
    <3>1. \A y \in Parts(e) : g[y] = h[y]
      BY <2>1, PartsAreExpr
    <3>2. WithinRule(g, e) = WithinRule(h, e)
      BY <3>1 DEF WithinRule
    <3>. HIDE DEF V
    <3>. QED
      BY <3>2
  <2>. HIDE DEF F, V
  <2>. QED
    BY <2>1 DEF Determined
<1>4. {} \in V
  OBVIOUS
<1>5. \E g \in [Expr -> V] : g = F[g]
  <2>. HIDE DEF F, V
  <2>1. WellDefined(F, PartOf, Expr, V)
    BY <1>2, <1>3, <1>4 DEF WellDefined, FiniteTrees
  <2>. QED
    BY <2>1, RecursiveFunction
<1>6. PICK g \in [Expr -> V] : g = [e \in Expr |-> WithinRule(g, e)]
  <2>. HIDE DEF V
  <2>. QED
    BY <1>5
<1>7. Within = CHOOSE f : f = [e \in Expr |-> WithinRule(f, e)]
  BY DEF Within
<1>8. Within = [e \in Expr |-> WithinRule(Within, e)]
  BY <1>6, <1>7
<1>9. \A e \in Expr : Within[e] = WithinRule(Within, e)
  BY <1>8
<1>10. \A e \in Expr : Within[e] \in SUBSET Expr
  <2>. DEFINE T == {e \in Expr : Within[e] \notin SUBSET Expr}
  <2>. SUFFICES ASSUME T # {} PROVE FALSE
    OBVIOUS
  <2>1. PICK e \in T : \A y \in T : ~ (<<y, e>> \in PartOf)
    <3>1. T \subseteq Expr /\ IsWellFoundedOn(PartOf, Expr)
      BY DEF FiniteTrees
    <3>. HIDE DEF T
    <3>. QED
      BY <3>1, WFMin
  <2>2. \A y \in Parts(e) : y \in Expr /\ y \notin T
    BY <2>1, PartsAreExpr
  <2>. QED
    BY <1>9, <2>1, <2>2 DEF WithinRule
<1>. QED
  BY <1>8, <1>9, <1>10

(* The parts of what is within an expression are within it.                *)
LEMMA PartsWithin ==
  ASSUME FiniteTrees, NEW x \in Expr
  PROVE  x \in Within[x] /\ \A e \in Within[x] : Parts(e) \subseteq Within[x]
<1>. DEFINE T == {y \in Expr : ~ \A e \in Within[y] : Parts(e) \subseteq Within[y]}
<1>1. T = {}
  <2>. SUFFICES ASSUME T # {} PROVE FALSE
    OBVIOUS
  <2>1. PICK y \in T : \A z \in T : ~ (<<z, y>> \in PartOf)
    <3>1. T \subseteq Expr /\ IsWellFoundedOn(PartOf, Expr)
      BY DEF FiniteTrees
    <3>. HIDE DEF T
    <3>. QED
      BY <3>1, WFMin
  <2>2. \A z \in Parts(y) : z \in Expr /\ z \notin T
    BY <2>1, PartsAreExpr
  <2>3. Within[y] = {y} \cup UNION {Within[p] : p \in Parts(y)}
    BY <2>1, WithinIs DEF WithinRule
  <2>4. ASSUME NEW e \in Within[y] PROVE Parts(e) \subseteq Within[y]
    <3>1. CASE e = y
      <4>1. \A p \in Parts(y) : p \in Within[p]
        BY <2>2, WithinIs DEF WithinRule
      <4>. QED
        BY <2>3, <3>1, <4>1
    <3>2. CASE e # y
      <4>1. PICK p \in Parts(y) : e \in Within[p]
        BY <2>3, <3>2
      <4>2. Parts(e) \subseteq Within[p]
        BY <2>2, <4>1
      <4>. QED
        BY <2>3, <4>2
    <3>. QED
      BY <3>1, <3>2
  <2>. QED
    BY <2>1, <2>4
<1>. QED
  BY <1>1, WithinIs DEF WithinRule

-----------------------------------------------------------------------------
(* Declarations.                                                           *)
IsVariable(d) ==
  \/ d.kind = "Prim" /\ TypeOf(d) = Prim
  \/ d.kind = "Struct" /\ d.struct \in Structs /\ TypeOf(d) = Struct(d.struct)

(* A variable, field or parameter has one of the types of variables.       *)
LEMMA VarTypes == \A t \in VarType : IsVariable(t) /\ t # Missing
<1>. TAKE t \in VarType
<1>1. t.kind = "Prim" \/ (t.kind = "Struct" /\ t.struct \in Structs)
  BY DEF VarType
<1>. QED
  BY <1>1 DEF IsVariable, TypeOf, Missing

(* A name denotes a variable, a struct type, a function or nothing; all    *)
(* look-ups agree on it but for hidden fields, which denote nothing; and a *)
(* function is one of the global table.                                    *)
LEMMA Declared ==
  ASSUME NEW id
  PROVE  /\ HiddenField(id) => Denotes(id) = Missing
         /\ ~HiddenField(id) => GetData(id) = Denotes(id)
         /\ \/ IsVariable(Denotes(id))
            \/ Denotes(id).kind = "DeclStruct"
            \/ Denotes(id) = Missing
            \/ /\ IsFunction(Denotes(id)) /\ Denotes(id).name \notin Structs
               /\ InTable(Globals, id) = Denotes(id)
         /\ InTable(Globals, id).kind = "Function" =>
              /\ id \in DOMAIN Globals /\ Globals[id] = InTable(Globals, id)
              /\ IsFunction(Globals[id])
         /\ Denotes(id) = Missing <=> Denotes(id).kind = "Missing"
<1>1. /\ HiddenField(id) => Denotes(id) = Missing
      /\ ~HiddenField(id) => GetData(id) = Denotes(id)
      /\ Denotes(id) = InTable(Locals, id) \/ Denotes(id) = InTable(Globals, id)
  <2>1. id \in DOMAIN Locals => Declarator(id) \in DOMAIN Locals
    BY TablesAssumption DEF Declarator
  <2>. QED
    BY <2>1 DEF GetData, InTable, Denotes, HiddenField
<1>2. InTable(Globals, id).kind = "Function" =>
              /\ id \in DOMAIN Globals /\ Globals[id] = InTable(Globals, id)
              /\ IsFunction(Globals[id])
  BY TablesAssumption, VarTypes DEF InTable, Missing, IsVariable, IsFunction
<1>3. CASE Denotes(id) = Missing
  BY <1>1, <1>2, <1>3 DEF Missing
<1>4. CASE id \in DOMAIN Locals /\ Denotes(id) = Locals[id]
  <2>1. IsVariable(Denotes(id))
    BY <1>4, TablesAssumption, VarTypes
  <2>. QED
    BY <1>1, <1>2, <2>1 DEF IsVariable, Missing
<1>5. CASE id \in DOMAIN Globals /\ Denotes(id) = Globals[id]
  <2>1. InTable(Globals, id) = Globals[id]
    BY <1>5 DEF InTable
  <2>2. CASE Globals[id] \in VarType
    <3>1. IsVariable(Denotes(id))
      BY <1>5, <2>2, VarTypes
    <3>. QED
      BY <1>1, <1>2, <3>1 DEF IsVariable, Missing
  <2>3. CASE Globals[id].kind = "DeclStruct"
    BY <1>1, <1>2, <1>5, <2>3 DEF Missing
  <2>4. CASE IsFunction(Globals[id]) /\ Globals[id].name = id /\ id \notin Structs
    <3>1. Globals[id].kind = "Function"
      BY <2>4 DEF IsFunction
    <3>. QED
      BY <1>1, <1>2, <1>5, <2>1, <2>4, <3>1 DEF Missing
  <2>. QED
    BY <1>5, <2>2, <2>3, <2>4, TablesAssumption
<1>. QED
  BY <1>1, <1>3, <1>4, <1>5 DEF InTable

(* The type of a result.                                                   *)
LEMMA ResultTypes ==
  ASSUME NEW f, IsFunction(f), ~f.no_ret
  PROVE  \/ f.ret.kind = "Prim" /\ TypeOf(f.ret) = Prim
         \/ /\ f.ret.kind = "Struct" /\ f.ret.struct \in Structs
            /\ TypeOf(f.ret) = Struct(f.ret.struct)
         \/ f.ret.kind = "Struct" /\ f.ret.struct \notin Structs /\ TypeOf(f.ret) = Error
<1>1. f.ret \in VarType \/ f.ret.kind = "Struct"
  BY DEF IsFunction
<1>2. CASE f.ret \in VarType
  BY <1>2, VarTypes DEF IsVariable
<1>3. CASE f.ret.kind = "Struct"
  BY <1>3 DEF TypeOf
<1>. QED
  BY <1>1, <1>2, <1>3

-----------------------------------------------------------------------------
(* The type of each kind of expression.                                    *)
ArgumentsTyped(e, f) ==
  /\ Len(e.args) = Len(f.args)
  /\ \A i \in DOMAIN e.args : CType[e.args[i]] = TypeOf(f.args[i])

TypeOfCall(e, f) ==
  IF f.kind = "Function" /\ ArgumentsTyped(e, f)
  THEN IF f.no_ret THEN Void ELSE TypeOf(f.ret)
  ELSE Error

(* A literal is a primitive.                                               *)
LEMMA LiteralType ==
  ASSUME FiniteTrees, NEW e \in Expr, e.kind \in Literal
  PROVE  CType[e] = Prim
BY CTypeRule DEF TypeRule, Literal

(* A variable has the type it is declared with; no other name has a type.  *)
LEMMA VariableType ==
  ASSUME FiniteTrees, NEW e \in Expr, e.kind = "LValue"
  PROVE  IF IsVariable(Denotes(e.id)) THEN CType[e] = TypeOf(Denotes(e.id))
         ELSE CType[e] = Error
<1>1. IsVariable(Denotes(e.id)) <=> Denotes(e.id).kind \in {"Prim", "Struct"}
  BY Declared DEF IsVariable, IsFunction, Missing
<1>. QED
  BY <1>1, CTypeRule DEF TypeRule, Literal

(* An operation on primitives is a primitive, and no other operation is    *)
(* typed.                                                                  *)
LEMMA OperationType ==
  ASSUME FiniteTrees, NEW e \in Expr, e.kind \in {"Binop", "Unop"}
  PROVE  CType[e] = IF \A p \in Parts(e) : CType[p] = Prim THEN Prim ELSE Error
<1>1. CType[e] = TypeRule(CType, e)
  BY CTypeRule
<1>2. CASE e.kind = "Binop"
  <2>1. Parts(e) = {e.left, e.right}
    BY <1>2 DEF Parts
  <2>2. CType[e] = IF CType[e.left] = Prim /\ CType[e.right] = Prim THEN Prim ELSE Error
    BY <1>1, <1>2 DEF TypeRule, Literal
  <2>. QED
    BY <2>1, <2>2
<1>3. CASE e.kind = "Unop"
  <2>1. Parts(e) = {e.sub}
    BY <1>3 DEF Parts
  <2>2. CType[e] = IF CType[e.sub] = Prim THEN Prim ELSE Error
    BY <1>1, <1>3 DEF TypeRule, Literal
  <2>. QED
    BY <2>1, <2>2
<1>. QED
  BY <1>2, <1>3

(* A call has the result type of the function its name denotes.            *)
LEMMA CallType ==
  ASSUME FiniteTrees, NEW e \in Expr, IsCall(e)
  PROVE  CType[e] = TypeOfCall(e, Denotes(e.id))
<1>1. CType[e] = TypeRule(CType, e)
  BY CTypeRule
<1>. QED
  BY <1>1 DEF TypeRule, Literal, IsCall, TypeOfCall, ArgumentsTyped

(* A call of something that has a type is the call of a function.          *)
LEMMA CalledFunction ==
  ASSUME FiniteTrees, NEW e \in Expr, IsCall(e), CType[e] # Error
  PROVE  LET f == Denotes(e.id)
         IN  /\ IsFunction(f) /\ f.kind = "Function" /\ GetData(e.id) = f
             /\ InTable(Globals, e.id) = f /\ f.name \notin Structs
             /\ e.id \in DOMAIN Globals /\ Globals[e.id] = f
             /\ ArgumentsTyped(e, f)
             /\ CType[e] = IF f.no_ret THEN Void ELSE TypeOf(f.ret)
<1>. DEFINE f == Denotes(e.id)
<1>1. f.kind = "Function" /\ ArgumentsTyped(e, f)
      /\ CType[e] = IF f.no_ret THEN Void ELSE TypeOf(f.ret)
  BY CallType DEF TypeOfCall
<1>2. IsFunction(f) /\ f.name \notin Structs /\ InTable(Globals, e.id) = f /\ GetData(e.id) = f
  BY <1>1, Declared DEF IsVariable, Missing
<1>3. e.id \in DOMAIN Globals /\ Globals[e.id] = f
  BY <1>1, <1>2, Declared
<1>. QED
  BY <1>1, <1>2, <1>3

(* is_prim lets through the expressions that are a number, if the rest of  *)
(* the checks finds a type and they are no call of a void function.        *)
Primitive(e) ==
  e.kind \in {"LValue", "FunctionCall"} =>
    LET d == GetData(e.id)
    IN  d.kind = "Prim" \/ (d.kind = "Function" /\ Ret(d).kind = "Prim")

(* What is_prim lets through is a primitive, if it has a type and a value. *)
LEMMA PrimitiveIsPrim ==
  ASSUME FiniteTrees, NEW e \in Expr, CType[e] # Error, ~IsVoid(e), Primitive(e)
  PROVE  CType[e] = Prim
<1>1. CASE e.kind \in Literal
  BY <1>1, LiteralType
<1>2. CASE e.kind = "LValue"
  <2>1. IsVariable(Denotes(e.id)) /\ CType[e] = TypeOf(Denotes(e.id))
    BY <1>2, VariableType
  <2>2. Denotes(e.id).kind \in {"Prim", "Function"}
    BY <1>2, <2>1, Declared DEF Primitive, IsVariable, Missing
  <2>. QED
    BY <2>1, <2>2 DEF IsVariable
<1>3. CASE e.kind \in {"Binop", "Unop"}
  BY <1>3, OperationType
<1>4. CASE IsCall(e)
  <2>. DEFINE f == Denotes(e.id)
  <2>1. IsFunction(f) /\ f.kind = "Function" /\ GetData(e.id) = f
        /\ CType[e] = IF f.no_ret THEN Void ELSE TypeOf(f.ret)
    BY <1>4, CalledFunction
  <2>2. ~f.no_ret
    BY <1>4, <2>1 DEF IsVoid
  <2>3. f.ret.kind = "Prim"
    BY <1>4, <2>1, <2>2 DEF Primitive, IsCall, Ret
  <2>. HIDE DEF f
  <2>. QED
    BY <2>1, <2>2, <2>3, ResultTypes
<1>. QED
  BY <1>1, <1>2, <1>3, <1>4, ExprAssumption DEF IsCall

(* is_prim lets every primitive through.                                   *)
LEMMA PrimIsPrimitive ==
  ASSUME FiniteTrees, NEW e \in Expr, CType[e] = Prim
  PROVE  Primitive(e) /\ ~IsVoid(e)
<1>1. CASE e.kind = "LValue"
  <2>1. IsVariable(Denotes(e.id)) /\ TypeOf(Denotes(e.id)) = Prim
    BY <1>1, VariableType, TypesDiffer
  <2>. QED
    BY <1>1, <2>1, Declared, TypesDiffer DEF IsVariable, Primitive, IsVoid, IsCall
<1>2. CASE IsCall(e)
  <2>. DEFINE f == Denotes(e.id)
  <2>1. IsFunction(f) /\ f.kind = "Function" /\ GetData(e.id) = f
        /\ CType[e] = IF f.no_ret THEN Void ELSE TypeOf(f.ret)
    BY <1>2, CalledFunction, TypesDiffer
  <2>2. ~f.no_ret
    BY <2>1, TypesDiffer
  <2>3. f.ret.kind = "Prim"
    <3>. HIDE DEF f
    <3>. QED
      BY <2>1, <2>2, ResultTypes, TypesDiffer
  <2>. QED
    BY <1>2, <2>1, <2>2, <2>3 DEF Primitive, IsVoid, IsCall, Ret
<1>3. CASE e.kind \notin {"LValue", "FunctionCall"}
  BY <1>3 DEF Primitive, IsVoid, IsCall
<1>. QED
  BY <1>1, <1>2, <1>3 DEF IsCall

(* A hidden field has no type.                                             *)
LEMMA HiddenUntyped ==
  ASSUME FiniteTrees, NEW e \in Expr, e.kind \in {"LValue", "FunctionCall"},
         HiddenField(e.id)
  PROVE  CType[e] = Error
<1>1. Denotes(e.id) = Missing
  BY Declared
<1>2. CASE e.kind = "LValue"
  BY <1>1, <1>2, VariableType DEF IsVariable, Missing
<1>3. CASE IsCall(e)
  BY <1>1, <1>3, CalledFunction DEF Missing
<1>. QED
  BY <1>2, <1>3 DEF IsCall

-----------------------------------------------------------------------------
(* A statement and the expressions it uses.                                *)
LEMMA UsedExpressions ==
  ASSUME FiniteTrees, NEW s \in Stmt
  PROVE  /\ Used(s) \subseteq Expr
         /\ \A e \in Used(s) : Parts(e) \subseteq Used(s)
         /\ s.kind \notin {"Reade", "Readc"} /\ s.expr.kind # "Void" =>
              s.expr \in Used(s) /\ s.expr \in Expr
         /\ s.kind \in {"Print", "If", "While", "SuiteInstr", "Assign"} =>
              s.expr \in Expr /\ s.expr.kind # "Void"
<1>1. s.kind \in {"Print", "If", "While", "SuiteInstr", "Assign"} => s.expr \in Expr
  BY StmtAssumption
<1>2. s.kind = "Return" => s.expr.kind = "Void" \/ s.expr \in Expr
  BY StmtAssumption
<1>3. s.kind \in {"Print", "If", "While", "SuiteInstr", "Assign", "Return", "Reade", "Readc"}
  BY StmtAssumption
<1>4. \A e \in Expr : e.kind # "Void"
  BY ExprAssumption DEF Literal
<1>5. CASE s.kind \in {"Reade", "Readc"} \/ s.expr.kind = "Void"
  BY <1>1, <1>4, <1>5 DEF Used
<1>6. CASE ~(s.kind \in {"Reade", "Readc"} \/ s.expr.kind = "Void")
  <2>1. s.expr \in Expr /\ Used(s) = Within[s.expr]
    BY <1>1, <1>2, <1>3, <1>6 DEF Used
  <2>. QED
    BY <1>4, <1>6, <2>1, PartsWithin, WithinIs
<1>. QED
  BY <1>5, <1>6

-----------------------------------------------------------------------------
(* Sequences of calls.                                                     *)
Members(s) == {s[i] : i \in DOMAIN s}
IsSeq(s) == s \in Seq(Members(s))

(* The members of the short sequences of calls the actions write.          *)
LEMMA Tuples ==
  /\ IsSeq(<<>>) /\ Members(<<>>) = {}
  /\ \A a : IsSeq(<<a>>) /\ Members(<<a>>) = {a}
  /\ \A a, b : IsSeq(<<a, b>>) /\ Members(<<a, b>>) = {a, b}
  /\ \A a, b, c, d : IsSeq(<<a, b, c, d>>) /\ Members(<<a, b, c, d>>) = {a, b, c, d}
<1>1. IsSeq(<<>>) /\ Members(<<>>) = {}
  BY DEF IsSeq, Members
<1>2. ASSUME NEW a PROVE IsSeq(<<a>>) /\ Members(<<a>>) = {a}
  BY DEF IsSeq, Members
<1>3. ASSUME NEW a, NEW b PROVE IsSeq(<<a, b>>) /\ Members(<<a, b>>) = {a, b}
  BY DEF IsSeq, Members
<1>4. ASSUME NEW a, NEW b, NEW c, NEW d
      PROVE  IsSeq(<<a, b, c, d>>) /\ Members(<<a, b, c, d>>) = {a, b, c, d}
  <2>1. DOMAIN <<a, b, c, d>> = {1, 2, 3, 4}
    OBVIOUS
  <2>2. Members(<<a, b, c, d>>) = {a, b, c, d}
    BY <2>1 DEF Members
  <2>. QED
    BY <2>2 DEF IsSeq
<1>. QED
  BY <1>1, <1>2, <1>3, <1>4

(* The members of two sequences of calls, one after the other.             *)
LEMMA Concatenated ==
  ASSUME NEW s, NEW t, IsSeq(s), IsSeq(t)
  PROVE  IsSeq(s \o t) /\ Members(s \o t) = Members(s) \cup Members(t)
<1>. DEFINE M == Members(s) \cup Members(t)
<1>1. s \in Seq(M) /\ t \in Seq(M)
  BY DEF IsSeq
<1>2. /\ DOMAIN s = 1 .. Len(s) /\ DOMAIN t = 1 .. Len(t) /\ Len(s) \in Nat /\ Len(t) \in Nat
      /\ \A i \in 1 .. Len(s) : s[i] \in M
      /\ \A i \in 1 .. Len(t) : t[i] \in M
  BY <1>1
<1>3. /\ s \o t \in Seq(M) /\ DOMAIN (s \o t) = 1 .. (Len(s) + Len(t))
      /\ \A i \in 1 .. (Len(s) + Len(t)) :
           (s \o t)[i] = IF i <= Len(s) THEN s[i] ELSE t[i - Len(s)]
  BY <1>1
<1>4. Members(s \o t) \subseteq M
  BY <1>3 DEF Members
<1>5. Members(s) \subseteq Members(s \o t)
  BY <1>2, <1>3 DEF Members
<1>6. Members(t) \subseteq Members(s \o t)
  <2>1. ASSUME NEW i \in 1 .. Len(t) PROVE t[i] \in Members(s \o t)
    <3>1. Len(s) + i \in 1 .. (Len(s) + Len(t)) /\ ~(Len(s) + i <= Len(s))
          /\ (Len(s) + i) - Len(s) = i
      BY <1>2
    <3>2. (s \o t)[Len(s) + i] = t[i]
      BY <1>3, <3>1
    <3>. QED
      BY <1>3, <3>1, <3>2 DEF Members
  <2>. QED
    BY <1>2, <2>1 DEF Members
<1>. QED
  BY <1>3, <1>4, <1>5, <1>6 DEF IsSeq

(* The members of the calls to come: the one at the head and those after   *)
(* it.                                                                     *)
LEMMA HeadAndTail ==
  ASSUME NEW s, IsSeq(s), s # <<>>
  PROVE  IsSeq(Tail(s)) /\ Members(s) = {Head(s)} \cup Members(Tail(s))
<1>. DEFINE M == Members(s)
<1>1. s \in Seq(M) /\ Len(s) \in Nat /\ Len(s) # 0 /\ DOMAIN s = 1 .. Len(s)
  BY DEF IsSeq
<1>2. /\ Tail(s) \in Seq(M) /\ DOMAIN Tail(s) = 1 .. (Len(s) - 1)
      /\ \A i \in 1 .. (Len(s) - 1) : Tail(s)[i] = s[i + 1]
      /\ Head(s) = s[1]
  BY <1>1
<1>3. Members(Tail(s)) = {s[i + 1] : i \in 1 .. (Len(s) - 1)}
  BY <1>2 DEF Members
<1>4. Members(s) = {s[1]} \cup Members(Tail(s))
  <2>1. ASSUME NEW i \in 1 .. Len(s), i # 1 PROVE s[i] \in Members(Tail(s))
    <3>1. i - 1 \in 1 .. (Len(s) - 1) /\ (i - 1) + 1 = i
      BY <1>1, <2>1
    <3>. QED
      BY <1>3, <3>1
  <2>2. ASSUME NEW i \in 1 .. (Len(s) - 1) PROVE i + 1 \in 1 .. Len(s)
    BY <1>1
  <2>3. Members(s) = {s[i] : i \in 1 .. Len(s)} /\ 1 \in 1 .. Len(s)
    BY <1>1 DEF Members
  <2>4. Members(Tail(s)) \subseteq Members(s)
    BY <1>3, <2>2, <2>3
  <2>5. Members(s) \subseteq {s[1]} \cup Members(Tail(s))
    <3>1. ASSUME NEW i \in 1 .. Len(s) PROVE s[i] \in {s[1]} \cup Members(Tail(s))
      BY <2>1
    <3>. QED
      BY <2>3, <3>1
  <2>. QED
    BY <2>3, <2>4, <2>5
<1>5. \A i \in DOMAIN Tail(s) : Tail(s)[i] \in Members(Tail(s))
  BY DEF Members
<1>6. IsSeq(Tail(s))
  <2>. DEFINE t == Tail(s)
              N == Members(t)
  <2>1. t \in Seq(M) /\ \A i \in DOMAIN t : t[i] \in N
    BY <1>2, <1>5
  <2>. HIDE DEF t, N, M
  <2>2. t \in Seq(N)
    BY <2>1
  <2>. QED
    BY <2>2 DEF t, N, IsSeq
<1>. QED
  BY <1>2, <1>4, <1>6

-----------------------------------------------------------------------------
(* When a call comes back, and which expressions it may be about.          *)

Evaluable(e, effect) ==
  e.kind = "Void" \/ (effect = "SuiteInstr" /\ ~IsCall(e)) \/ CType[e] # Error

Fits(call, i) ==
  LET a == call.args[i]
  IN  /\ a.kind = "LValue" => ArgumentData(a.id) # Missing
      /\ ArgumentFits(a, Globals[call.id].args[i])

AllFit(call, n) ==
  /\ Len(call.args) = Len(Globals[call.id].args)
  /\ \A i \in n .. Len(call.args) : Fits(call, i)

Comparable(d, e) == GetData(e.id) # Missing /\ Matches(d, GetData(e.id))

Copyable(d, e) ==
  /\ e.kind \in {"LValue", "FunctionCall"}
  /\ Comparable(d, e) /\ StructName(d) \in Structs

Returns(c) ==
  CASE c[1] = "IsPrim" -> Primitive(c[2])
    [] c[1] = "Instr" -> Evaluable(c[2], c[3])
    [] c[1] = "Table" -> c[2] \in Structs
    [] c[1] = "Check" -> AllFit(c[2], c[3])
    [] c[1] = "Compare" -> Comparable(c[2], c[3])
    [] c[1] = "StructAssign" -> Copyable(c[2], c[3])
    [] OTHER -> WellTyped(stmt)

Turn(call, n) ==
  /\ call \in CallsOf(stmt) /\ InTable(Globals, call.id).kind = "Function"
  /\ n \in 1 .. (Len(call.args) + 1) /\ n <= Len(Globals[call.id].args) + 1

Arises(c) ==
  CASE c[1] = "IsPrim" -> c[2] \in Used(stmt)
    [] c[1] = "Instr" -> c[2].kind = "Void" \/ c[2] \in Used(stmt)
    [] c[1] = "Check" -> Turn(c[2], c[3])
    [] c[1] \in {"Table", "Compare", "StructAssign"} -> TRUE
    [] OTHER -> c = <<stmt.kind>>

(* Returns and Arises, for each kind of call.                              *)
LEMMA CallsMean ==
  /\ \A e : (Returns(IsPrim(e)) <=> Primitive(e)) /\ (Arises(IsPrim(e)) <=> e \in Used(stmt))
  /\ \A e, k : /\ Returns(Instr(e, k)) <=> Evaluable(e, k)
               /\ Arises(Instr(e, k)) <=> e.kind = "Void" \/ e \in Used(stmt)
  /\ \A n : (Returns(Table(n)) <=> n \in Structs) /\ Arises(Table(n))
  /\ \A e, n : (Returns(Check(e, n)) <=> AllFit(e, n)) /\ (Arises(Check(e, n)) <=> Turn(e, n))
  /\ \A d, e : (Returns(Compare(d, e)) <=> Comparable(d, e)) /\ Arises(Compare(d, e))
  /\ \A d, e : (Returns(StructAssign(d, e)) <=> Copyable(d, e)) /\ Arises(StructAssign(d, e))
<1>1. \A e : (Returns(IsPrim(e)) <=> Primitive(e)) /\ (Arises(IsPrim(e)) <=> e \in Used(stmt))
  BY DEF Returns, Arises, IsPrim
<1>2. \A e, k : /\ Returns(Instr(e, k)) <=> Evaluable(e, k)
                /\ Arises(Instr(e, k)) <=> e.kind = "Void" \/ e \in Used(stmt)
  BY DEF Returns, Arises, Instr
<1>3. \A n : (Returns(Table(n)) <=> n \in Structs) /\ Arises(Table(n))
  BY DEF Returns, Arises, Table
<1>4. \A e, n : (Returns(Check(e, n)) <=> AllFit(e, n)) /\ (Arises(Check(e, n)) <=> Turn(e, n))
  BY DEF Returns, Arises, Check
<1>5. \A d, e : (Returns(Compare(d, e)) <=> Comparable(d, e)) /\ Arises(Compare(d, e))
  BY DEF Returns, Arises, Compare
<1>6. \A d, e : (Returns(StructAssign(d, e)) <=> Copyable(d, e)) /\ Arises(StructAssign(d, e))
  BY DEF Returns, Arises, StructAssign
<1>. QED
  BY <1>1, <1>2, <1>3, <1>4, <1>5, <1>6

(* What the verdict rests on: the statement is one of those assumed, and   *)
(* every call to come is about an expression of it.                        *)
Traced ==
  /\ stmt \in Stmt
  /\ verdict \in {"checking", "accepted", "rejected", "crashed"}
  /\ IsSeq(todo)
  /\ \A c \in Members(todo) : Arises(c)

(* A step puts calls in the place of one that would return just if they    *)
(* all do, or stops where a well typed statement does not lead.            *)
Replaced(calls) ==
  /\ IsSeq(calls) /\ Becomes(calls)
  /\ \A c \in Members(calls) : Arises(c)
  /\ (~Unchecked(stmt) /\ \A c \in Members(calls) : Returns(c)) => Returns(Head(todo))
  /\ WellTyped(stmt) /\ ~PassesStruct(stmt) /\ Returns(Head(todo)) =>
       \A c \in Members(calls) : Returns(c)

Ended(v) ==
  /\ Stop(v) /\ v \in {"rejected", "crashed"}
  /\ WellTyped(stmt) /\ ~PassesStruct(stmt) => ~Returns(Head(todo))
  /\ v = "crashed" => CallsUndeclared(stmt)

Justified == (\E calls : Replaced(calls)) \/ (\E v : Ended(v))

(* The call at the head.                                                   *)
LEMMA CallAtHead ==
  ASSUME Traced, NEW f, Calls(f)
  PROVE  /\ Arises(Head(todo)) /\ Head(todo)[1] = f
         /\ f = "IsPrim" => (Returns(Head(todo)) <=> Primitive(arg)) /\ arg \in Used(stmt)
         /\ f = "Instr" => /\ Returns(Head(todo)) <=> Evaluable(arg, eff)
                           /\ arg.kind = "Void" \/ arg \in Used(stmt)
         /\ f = "Table" => (Returns(Head(todo)) <=> arg \in Structs)
         /\ f = "Check" => /\ Returns(Head(todo)) <=> AllFit(arg, Head(todo)[3])
                           /\ Turn(arg, Head(todo)[3])
         /\ f = "Compare" => (Returns(Head(todo)) <=> Comparable(arg, Head(todo)[3]))
         /\ f = "StructAssign" => (Returns(Head(todo)) <=> Copyable(arg, Head(todo)[3]))
         /\ f \in {"Assign", "Return", "Reade", "Readc"} =>
              (Returns(Head(todo)) <=> WellTyped(stmt)) /\ stmt.kind = f
<1>. DEFINE h == Head(todo)
<1>1. Arises(h) /\ h[1] = f
  BY HeadAndTail DEF Traced, Calls
<1>2. f \in {"Assign", "Return", "Reade", "Readc"} => h = <<stmt.kind>> /\ stmt.kind = f
  BY <1>1 DEF Arises
<1>. HIDE DEF h
<1>. QED
  BY <1>1, <1>2 DEF arg, eff, h, Arises, Returns

(* A check that passes leaves nothing in its place.                        *)
LEMMA Passed ==
  ASSUME Becomes(<<>>), Returns(Head(todo))
  PROVE  Justified
<1>1. Replaced(<<>>)
  BY Tuples DEF Replaced
<1>. QED
  BY <1>1 DEF Justified

(* A check that passes just if its call is to return.                      *)
LEMMA PassedIf ==
  ASSUME NEW ok, PassIf(ok), ok <=> Returns(Head(todo))
  PROVE  Justified
<1>1. CASE ok
  BY <1>1, Passed DEF PassIf
<1>2. CASE ~ok
  <2>1. Ended("rejected")
    BY <1>2 DEF PassIf, Ended
  <2>. QED
    BY <2>1 DEF Justified
<1>. QED
  BY <1>1, <1>2

(* A refusal where a well typed statement does not come.                   *)
LEMMA Refused ==
  ASSUME Stop("rejected"), WellTyped(stmt) /\ ~PassesStruct(stmt) => ~Returns(Head(todo))
  PROVE  Justified
<1>1. Ended("rejected")
  BY DEF Ended
<1>. QED
  BY <1>1 DEF Justified

(* Where the code goes on with what C has no type for, and Unchecked says  *)
(* so.                                                                     *)
LEMMA GoesOn ==
  ASSUME Unchecked(stmt), ~Returns(Head(todo)), NEW calls, Becomes(calls),
         IsSeq(calls), \A c \in Members(calls) : Arises(c)
  PROVE  Justified
<1>1. Replaced(calls)
  BY DEF Replaced
<1>. QED
  BY <1>1 DEF Justified

(* A statement with a hidden field on the left, or as all of the right, is *)
(* not typed, and Unchecked.                                               *)
LEMMA HiddenSide ==
  ASSUME FiniteTrees, Traced,
         \/ stmt.kind \in {"Assign", "Reade", "Readc"} /\ HiddenField(stmt.left)
         \/ /\ stmt.kind \in {"Assign", "Return"} /\ HiddenField(stmt.expr.id)
            /\ stmt.expr.kind \in {"LValue", "FunctionCall"}
  PROVE  Unchecked(stmt) /\ ~WellTyped(stmt)
<1>. DEFINE k == stmt.kind
            e == stmt.expr
<1>1. CASE k \in {"Assign", "Reade", "Readc"} /\ HiddenField(stmt.left)
  <2>1. Denotes(stmt.left).kind = "Missing"
    BY <1>1, Declared DEF Missing
  <2>2. Unchecked(stmt)
    BY <1>1 DEF Unchecked
  <2>3. /\ Denotes(stmt.left).kind \notin {"Prim", "Struct"}
        /\ \A t : Denotes(stmt.left) # [kind |-> "Prim", type |-> t]
    BY <2>1
  <2>4. ~WellTyped(stmt)
    BY <1>1, <2>3 DEF WellTyped
  <2>. QED
    BY <2>2, <2>4
<1>2. CASE /\ k \in {"Assign", "Return"} /\ HiddenField(e.id)
           /\ e.kind \in {"LValue", "FunctionCall"}
  <2>1. e \in Expr /\ e \in Used(stmt)
    BY <1>2, UsedExpressions DEF Traced
  <2>2. CType[e] = Error /\ Denotes(e.id).kind = "Missing"
    BY <1>2, <2>1, HiddenUntyped, Declared DEF Missing
  <2>3. Unchecked(stmt)
    BY <1>2, <2>1, <2>2 DEF Unchecked, CallsOf
  <2>4. Denotes(stmt.left).kind \in {"Prim", "Struct"} => TypeOf(Denotes(stmt.left)) # Error
    BY Declared, TypesDiffer DEF IsVariable, IsFunction, Missing
  <2>5. ~WellTyped(stmt)
    BY <1>2, <2>2, <2>4 DEF WellTyped
  <2>. QED
    BY <2>3, <2>5
<1>. QED
  BY <1>1, <1>2

-----------------------------------------------------------------------------
(* The actions, one lemma each.  is_prim passes just what is Primitive.    *)
LEMMA CheckPrimJustified ==
  ASSUME Traced, CheckPrim
  PROVE  Justified
<1>1. Calls("IsPrim") /\ PassIf(Primitive(arg))
  BY DEF CheckPrim, Primitive
<1>. QED
  BY <1>1, CallAtHead, PassedIf

(* get_table_by_name fails just on a name that is no struct.               *)
LEMMA GetTableJustified ==
  ASSUME Traced, GetTableByName
  PROVE  Justified
<1>1. Calls("Table") /\ PassIf(arg \in Structs)
  BY DEF GetTableByName
<1>. QED
  BY <1>1, CallAtHead, PassedIf

(* compare_types refuses just what does not match.                         *)
LEMMA CompareJustified ==
  ASSUME Traced, CompareTypes
  PROVE  Justified
<1>1. Calls("Compare") /\ PassIf(Comparable(arg, Head(todo)[3]))
  BY DEF CompareTypes, Comparable
<1>. QED
  BY <1>1, CallAtHead, PassedIf

(* read_instr passes just a variable of the type that is read.             *)
LEMMA ReadJustified ==
  ASSUME FiniteTrees, Traced, ReadInstr
  PROVE  Justified
<1>. DEFINE int == [kind |-> "Prim", type |-> "int"]
            char == [kind |-> "Prim", type |-> "char"]
<1>1. CASE HiddenField(stmt.left)
  <2>1. /\ Calls("Reade") \/ Calls("Readc")
        /\ Becomes(<<>>) \/ Stop("rejected")
    BY DEF ReadInstr, PassIf
  <2>2. (Returns(Head(todo)) <=> WellTyped(stmt)) /\ stmt.kind \in {"Reade", "Readc"}
    BY <2>1, CallAtHead
  <2>3. Unchecked(stmt) /\ ~Returns(Head(todo))
    BY <1>1, <2>2, HiddenSide
  <2>. QED
    BY <2>1, <2>3, GoesOn, Refused, Tuples
<1>2. CASE /\ Calls("Reade") /\ PassIf(GetData(stmt.left) = int)
           /\ ~HiddenField(stmt.left)
  <2>1. (Returns(Head(todo)) <=> WellTyped(stmt)) /\ stmt.kind = "Reade"
    BY <1>2, CallAtHead
  <2>2. WellTyped(stmt) <=> GetData(stmt.left) = int
    BY <1>2, <2>1, Declared DEF WellTyped
  <2>. QED
    BY <1>2, <2>1, <2>2, PassedIf
<1>3. CASE /\ Calls("Readc") /\ PassIf(GetData(stmt.left) = char)
           /\ ~HiddenField(stmt.left)
  <2>1. (Returns(Head(todo)) <=> WellTyped(stmt)) /\ stmt.kind = "Readc"
    BY <1>3, CallAtHead
  <2>2. WellTyped(stmt) <=> GetData(stmt.left) = char
    BY <1>3, <2>1, Declared DEF WellTyped
  <2>. QED
    BY <1>3, <2>1, <2>2, PassedIf
<1>. QED
  BY <1>1, <1>2, <1>3 DEF ReadInstr

(* An expression whose call is at the head.                                *)
LEMMA InstrAtHead ==
  ASSUME FiniteTrees, Traced, NEW kinds, "Void" \notin kinds, CallsInstr(kinds)
  PROVE  /\ arg \in Used(stmt) /\ arg \in Expr /\ arg.kind \in kinds
         /\ Parts(arg) \subseteq Used(stmt) /\ Parts(arg) \subseteq Expr
         /\ Returns(Head(todo)) <=>
              (eff = "SuiteInstr" /\ ~IsCall(arg)) \/ CType[arg] # Error
<1>1. Calls("Instr") /\ arg.kind \in kinds
  BY DEF CallsInstr, arg
<1>2. arg \in Used(stmt) /\ (Returns(Head(todo)) <=> Evaluable(arg, eff))
  BY <1>1, CallAtHead
<1>. QED
  BY <1>1, <1>2, UsedExpressions DEF Evaluable, Traced

(* A literal and an absent expression need no check.                       *)
LEMMA LiteralJustified ==
  ASSUME FiniteTrees, Traced, InstrLiteral
  PROVE  Justified
<1>1. Calls("Instr") /\ arg.kind \in Literal \cup {"Void"} /\ Becomes(<<>>)
  BY DEF InstrLiteral, CallsInstr, arg
<1>2. /\ Returns(Head(todo)) <=> Evaluable(arg, eff)
      /\ arg.kind = "Void" \/ arg \in Expr
  BY <1>1, CallAtHead, UsedExpressions DEF Traced
<1>3. arg.kind = "Void" \/ CType[arg] = Prim
  BY <1>1, <1>2, LiteralType
<1>4. Returns(Head(todo))
  BY <1>2, <1>3, TypesDiffer DEF Evaluable
<1>. QED
  BY <1>1, <1>4, Passed

(* The operands of an operator.                                            *)
LEMMA OperandPrim ==
  ASSUME FiniteTrees, NEW e \in Used(stmt), Used(stmt) \subseteq Expr, ~IsCall(e),
         NEW p \in Parts(e), p \in Expr, ~Unchecked(stmt),
         Primitive(p), NEW k, k # "SuiteInstr", Evaluable(p, k)
  PROVE  CType[p] = Prim
<1>1. ~IsVoid(p)
  BY DEF Unchecked, Operands
<1>2. CType[p] # Error
  BY ExprAssumption DEF Evaluable, Literal
<1>. QED
  BY <1>1, <1>2, PrimitiveIsPrim

(* Both operands are primitives and are checked in turn: the operation is. *)
LEMMA BinopJustified ==
  ASSUME FiniteTrees, Traced, InstrBinop
  PROVE  Justified
<1>1. CallsInstr({"Binop"})
      /\ Becomes(IF eff = "SuiteInstr" THEN <<>>
                 ELSE <<IsPrim(arg.left), IsPrim(arg.right),
                        Instr(arg.left, eff), Instr(arg.right, eff)>>)
  BY DEF InstrBinop
<1>2. /\ arg \in Used(stmt) /\ arg \in Expr /\ arg.kind = "Binop"
      /\ Parts(arg) \subseteq Used(stmt) /\ Parts(arg) \subseteq Expr
      /\ Returns(Head(todo)) <=> (eff = "SuiteInstr" /\ ~IsCall(arg)) \/ CType[arg] # Error
  BY <1>1, InstrAtHead
<1>3. CASE eff = "SuiteInstr"
  <2>1. Returns(Head(todo))
    BY <1>2, <1>3 DEF IsCall
  <2>. QED
    BY <1>1, <1>3, <2>1, Passed
<1>4. CASE eff # "SuiteInstr"
  <2>. DEFINE l == arg.left
              r == arg.right
              calls == <<IsPrim(l), IsPrim(r), Instr(l, eff), Instr(r, eff)>>
  <2>1. Parts(arg) = {l, r} /\ ~IsCall(arg) /\ Used(stmt) \subseteq Expr
    BY <1>2, UsedExpressions DEF Parts, IsCall, Traced
  <2>2. CType[arg] = IF CType[l] = Prim /\ CType[r] = Prim THEN Prim ELSE Error
    BY <1>2, <2>1, OperationType
  <2>. HIDE DEF l, r
  <2>3. IsSeq(calls) /\ Members(calls) = {IsPrim(l), IsPrim(r), Instr(l, eff), Instr(r, eff)}
    BY Tuples
  <2>4. Becomes(calls)
    BY <1>1, <1>4 DEF l, r
  <2>. HIDE DEF calls
  <2>5. \A c \in Members(calls) : Arises(c)
    BY <1>2, <2>1, <2>3, CallsMean
  <2>6. (\A c \in Members(calls) : Returns(c)) <=>
          Primitive(l) /\ Primitive(r) /\ Evaluable(l, eff) /\ Evaluable(r, eff)
    BY <2>3, CallsMean
  <2>7. ASSUME ~Unchecked(stmt), \A c \in Members(calls) : Returns(c)
        PROVE  Returns(Head(todo))
    <3>1. CType[l] = Prim /\ CType[r] = Prim
      BY <1>2, <1>4, <2>1, <2>6, <2>7, OperandPrim
    <3>. QED
      BY <1>2, <2>2, <3>1, TypesDiffer
  <2>8. ASSUME Returns(Head(todo)) PROVE \A c \in Members(calls) : Returns(c)
    <3>1. CType[l] = Prim /\ CType[r] = Prim
      BY <1>2, <1>4, <2>2, <2>8
    <3>2. Primitive(l) /\ Primitive(r) /\ Evaluable(l, eff) /\ Evaluable(r, eff)
      BY <1>2, <2>1, <3>1, PrimIsPrimitive, TypesDiffer DEF Evaluable
    <3>. QED
      BY <2>6, <3>2
  <2>9. Replaced(calls)
    BY <2>3, <2>4, <2>5, <2>7, <2>8 DEF Replaced
  <2>. QED
    BY <2>9 DEF Justified
<1>. QED
  BY <1>3, <1>4

(* The same of an operation on one operand.                                *)
LEMMA UnopJustified ==
  ASSUME FiniteTrees, Traced, InstrUnop
  PROVE  Justified
<1>1. CallsInstr({"Unop"})
      /\ Becomes(IF eff = "SuiteInstr" THEN <<>> ELSE <<IsPrim(arg.sub), Instr(arg.sub, eff)>>)
  BY DEF InstrUnop
<1>2. /\ arg \in Used(stmt) /\ arg \in Expr /\ arg.kind = "Unop"
      /\ Parts(arg) \subseteq Used(stmt) /\ Parts(arg) \subseteq Expr
      /\ Returns(Head(todo)) <=> (eff = "SuiteInstr" /\ ~IsCall(arg)) \/ CType[arg] # Error
  BY <1>1, InstrAtHead
<1>3. CASE eff = "SuiteInstr"
  <2>1. Returns(Head(todo))
    BY <1>2, <1>3 DEF IsCall
  <2>. QED
    BY <1>1, <1>3, <2>1, Passed
<1>4. CASE eff # "SuiteInstr"
  <2>. DEFINE p == arg.sub
              calls == <<IsPrim(p), Instr(p, eff)>>
  <2>1. Parts(arg) = {p} /\ ~IsCall(arg) /\ Used(stmt) \subseteq Expr
    BY <1>2, UsedExpressions DEF Parts, IsCall, Traced
  <2>2. CType[arg] = IF CType[p] = Prim THEN Prim ELSE Error
    BY <1>2, <2>1, OperationType
  <2>. HIDE DEF p
  <2>3. IsSeq(calls) /\ Members(calls) = {IsPrim(p), Instr(p, eff)}
    BY Tuples
  <2>4. Becomes(calls)
    BY <1>1, <1>4 DEF p
  <2>. HIDE DEF calls
  <2>5. \A c \in Members(calls) : Arises(c)
    BY <1>2, <2>1, <2>3, CallsMean
  <2>6. (\A c \in Members(calls) : Returns(c)) <=> Primitive(p) /\ Evaluable(p, eff)
    BY <2>3, CallsMean
  <2>7. ASSUME ~Unchecked(stmt), \A c \in Members(calls) : Returns(c)
        PROVE  Returns(Head(todo))
    <3>1. CType[p] = Prim
      BY <1>2, <1>4, <2>1, <2>6, <2>7, OperandPrim
    <3>. QED
      BY <1>2, <2>2, <3>1, TypesDiffer
  <2>8. ASSUME Returns(Head(todo)) PROVE \A c \in Members(calls) : Returns(c)
    <3>1. CType[p] = Prim
      BY <1>2, <1>4, <2>2, <2>8
    <3>. QED
      BY <1>2, <2>1, <2>6, <3>1, PrimIsPrimitive, TypesDiffer DEF Evaluable
  <2>9. Replaced(calls)
    BY <2>3, <2>4, <2>5, <2>7, <2>8 DEF Replaced
  <2>. QED
    BY <2>9 DEF Justified
<1>. QED
  BY <1>3, <1>4

(* A variable is placed just if it is declared and its struct is found.    *)
LEMMA PlaceVisible ==
  ASSUME FiniteTrees, Traced, PlaceOnTop, ~HiddenField(arg.id)
  PROVE  Justified
<1>. DEFINE d == Denotes(arg.id)
<1>1. /\ CallsInstr({"LValue"})
      /\ CASE eff = "SuiteInstr" \/ d.kind = "Prim" -> Becomes(<<>>)
           [] eff # "SuiteInstr" /\ d = Missing -> Stop("rejected")
           [] OTHER -> Becomes(<<Table(StructName(d))>>)
  BY Declared DEF PlaceOnTop
<1>2. /\ arg \in Used(stmt) /\ arg \in Expr /\ arg.kind = "LValue"
      /\ Returns(Head(todo)) <=> (eff = "SuiteInstr" /\ ~IsCall(arg)) \/ CType[arg] # Error
  BY <1>1, InstrAtHead
<1>3. IF IsVariable(d) THEN CType[arg] = TypeOf(d) ELSE CType[arg] = Error
  BY <1>2, VariableType
<1>4. \/ IsVariable(d)
      \/ d.kind = "DeclStruct" \/ d = Missing
      \/ IsFunction(d) /\ d.name \notin Structs
  BY Declared
<1>5. ~Unchecked(stmt) => d.kind # "DeclStruct"
  BY <1>2 DEF Unchecked
<1>. HIDE DEF d
<1>6. CASE eff = "SuiteInstr" \/ d.kind = "Prim"
  <2>1. Returns(Head(todo))
    BY <1>2, <1>3, <1>4, <1>6, TypesDiffer DEF IsVariable, IsFunction, Missing, IsCall
  <2>. QED
    BY <1>1, <1>6, <2>1, Passed DEF Missing
<1>7. CASE eff # "SuiteInstr" /\ d = Missing
  <2>1. d.kind = "Missing"
    BY <1>7 DEF Missing
  <2>2. Stop("rejected") /\ ~Returns(Head(todo))
    BY <1>1, <1>2, <1>3, <1>7, <2>1 DEF IsVariable
  <2>. QED
    BY <2>2, Refused
<1>8. CASE eff # "SuiteInstr" /\ d.kind # "Prim" /\ d # Missing
  <2>. DEFINE calls == <<Table(StructName(d))>>
  <2>1. IsSeq(calls) /\ Members(calls) = {Table(StructName(d))} /\ Becomes(calls)
    BY <1>1, <1>8, Tuples
  <2>. HIDE DEF calls
  <2>2. /\ \A c \in Members(calls) : Arises(c)
        /\ (\A c \in Members(calls) : Returns(c)) <=> StructName(d) \in Structs
    BY <2>1, CallsMean
  <2>3. d.kind = "Struct" => StructName(d) \in Structs /\ CType[arg] # Error
    BY <1>3, <1>4, TypesDiffer DEF StructName, IsVariable, IsFunction, Missing
  <2>4. ~Unchecked(stmt) /\ StructName(d) \in Structs => d.kind = "Struct"
    BY <1>4, <1>5, <1>8 DEF StructName, IsVariable, IsFunction
  <2>5. Returns(Head(todo)) => d.kind = "Struct"
    BY <1>2, <1>3, <1>8 DEF IsVariable
  <2>6. Replaced(calls)
    BY <1>2, <2>1, <2>2, <2>3, <2>4, <2>5 DEF Replaced
  <2>. QED
    BY <2>6 DEF Justified
<1>. QED
  BY <1>6, <1>7, <1>8

(* A hidden field is placed like any other variable.                       *)
LEMMA PlaceJustified ==
  ASSUME FiniteTrees, Traced, PlaceOnTop
  PROVE  Justified
<1>1. CASE HiddenField(arg.id)
  <2>. DEFINE calls == <<Table(StructName(GetData(arg.id)))>>
  <2>1. /\ CallsInstr({"LValue"})
        /\ Becomes(<<>>) \/ Stop("rejected") \/ Becomes(calls)
        /\ eff = "SuiteInstr" => Becomes(<<>>)
    BY DEF PlaceOnTop
  <2>2. /\ arg \in Used(stmt) /\ arg \in Expr /\ arg.kind = "LValue"
        /\ Returns(Head(todo)) <=> (eff = "SuiteInstr" /\ ~IsCall(arg)) \/ CType[arg] # Error
    BY <2>1, InstrAtHead
  <2>3. Unchecked(stmt) /\ CType[arg] = Error
    BY <1>1, <2>2, HiddenUntyped DEF Unchecked
  <2>4. IsSeq(calls) /\ \A c \in Members(calls) : Arises(c)
    BY Tuples, CallsMean
  <2>. HIDE DEF calls
  <2>5. CASE eff = "SuiteInstr"
    BY <2>1, <2>2, <2>5, Passed DEF IsCall
  <2>6. CASE eff # "SuiteInstr"
    <3>1. ~Returns(Head(todo))
      BY <2>2, <2>3, <2>6
    <3>2. CASE Becomes(<<>>)
      BY <2>3, <3>1, <3>2, Tuples, GoesOn
    <3>3. CASE Stop("rejected")
      BY <3>1, <3>3, Refused
    <3>4. CASE Becomes(calls)
      BY <2>3, <2>4, <3>1, <3>4, GoesOn
    <3>. QED
      BY <2>1, <3>2, <3>3, <3>4
  <2>. QED
    BY <2>5, <2>6
<1>2. CASE ~HiddenField(arg.id)
  BY <1>2, PlaceVisible
<1>. QED
  BY <1>1, <1>2

-----------------------------------------------------------------------------
(* Calls.                                                                  *)
LEMMA Arguments ==
  ASSUME NEW e \in Expr, IsCall(e)
  PROVE  /\ Len(e.args) \in Nat /\ DOMAIN e.args = 1 .. Len(e.args)
         /\ \A i \in 1 .. Len(e.args) : e.args[i] \in Expr /\ e.args[i] \in Parts(e)
<1>1. e.args \in Seq(Expr)
  BY ExprAssumption DEF IsCall, Literal
<1>2. Parts(e) = {e.args[i] : i \in DOMAIN e.args}
  BY DEF Parts, IsCall
<1>. QED
  BY <1>1, <1>2

(* The parameters of a function, counted from 1, are variables.            *)
LEMMA Parameters ==
  ASSUME NEW f, IsFunction(f)
  PROVE  /\ Len(f.args) \in Nat /\ DOMAIN f.args = 1 .. Len(f.args)
         /\ \A i \in 1 .. Len(f.args) : IsVariable(f.args[i])
<1>1. f.args \in Seq(VarType)
  BY DEF IsFunction
<1>. QED
  BY <1>1, VarTypes

(* stack_param translates every argument, whatever the order.              *)
LEMMA Stacked ==
  ASSUME NEW e \in Expr, IsCall(e)
  PROVE  /\ IsSeq(StackParam(e))
         /\ Members(StackParam(e)) =
              {Instr(e.args[i], "FunctionCall") : i \in 1 .. Len(e.args)}
<1>. DEFINE n == Len(e.args)
            s == StackParam(e)
<1>1. n \in Nat
  BY Arguments
<1>2. s = [i \in 1 .. n |-> Instr(e.args[n + 1 - i], "FunctionCall")]
  BY DEF StackParam
<1>3. IsSeq(s)
  <2>1. DOMAIN s = 1 .. n /\ s = [i \in 1 .. n |-> s[i]]
    BY <1>2
  <2>. DEFINE M == Members(s)
  <2>2. \A i \in 1 .. n : s[i] \in M
    BY <2>1 DEF Members
  <2>. HIDE DEF s, M, n
  <2>3. s \in Seq(M)
    BY <1>1, <2>1, <2>2
  <2>. QED
    BY <2>3 DEF IsSeq, M
<1>4. Members(s) = {s[i] : i \in 1 .. n}
  BY <1>2 DEF Members
<1>. HIDE DEF n
<1>5. ASSUME NEW i \in 1 .. n
      PROVE  /\ s[i] = Instr(e.args[n + 1 - i], "FunctionCall")
             /\ n + 1 - i \in 1 .. n /\ n + 1 - (n + 1 - i) = i
  <2>1. n + 1 - i \in 1 .. n /\ n + 1 - (n + 1 - i) = i
    BY <1>1
  <2>. QED
    BY <1>2, <2>1
<1>. HIDE DEF s
<1>6. ASSUME NEW i \in 1 .. n
      PROVE  Instr(e.args[i], "FunctionCall") \in {s[j] : j \in 1 .. n}
  <2>1. n + 1 - i \in 1 .. n /\ s[n + 1 - i] = Instr(e.args[i], "FunctionCall")
    BY <1>5
  <2>. QED
    BY <2>1
<1>7. Members(s) = {Instr(e.args[i], "FunctionCall") : i \in 1 .. n}
  BY <1>4, <1>5, <1>6
<1>. QED
  BY <1>3, <1>7 DEF s, n

(* The calls for the arguments return just if these have a type.           *)
LEMMA ArgumentCalls ==
  ASSUME FiniteTrees, Traced, NEW e \in Used(stmt), e \in Expr, IsCall(e)
  PROVE  /\ \A c \in Members(StackParam(e)) : Arises(c)
         /\ (\A c \in Members(StackParam(e)) : Returns(c)) <=>
              \A i \in 1 .. Len(e.args) : CType[e.args[i]] # Error
<1>1. \A i \in 1 .. Len(e.args) :
        /\ e.args[i] \in Used(stmt) /\ e.args[i] \in Expr
        /\ e.args[i].kind # "Void"
  BY Arguments, UsedExpressions, ExprAssumption DEF Traced, Literal
<1>2. \A i \in 1 .. Len(e.args) :
        Evaluable(e.args[i], "FunctionCall") <=> CType[e.args[i]] # Error
  BY <1>1 DEF Evaluable
<1>3. Members(StackParam(e)) = {Instr(e.args[i], "FunctionCall") : i \in 1 .. Len(e.args)}
  BY Stacked
<1>. QED
  BY <1>1, <1>2, <1>3, CallsMean

(* An argument that has a type, and is no call, fits its parameter just if *)
(* that is its type.  So does a call that yields no struct, if well typed. *)
LEMMA ArgumentTyped ==
  ASSUME FiniteTrees, NEW a \in Expr, CType[a] # Error, ~IsCall(a),
         NEW t, IsVariable(t), a.kind = "LValue" => ArgumentData(a.id) # Missing,
         ArgumentFits(a, t)
  PROVE  CType[a] = TypeOf(t)
<1>1. CASE a.kind = "LValue"
  <2>. DEFINE d == Denotes(a.id)
  <2>1. IsVariable(d) /\ CType[a] = TypeOf(d) /\ ArgumentData(a.id) = d
    BY <1>1, VariableType, Declared DEF ArgumentData, IsVariable, Missing
  <2>2. IF t.kind = "Prim" THEN d.kind = "Prim"
        ELSE d.kind # "Prim" /\ StructName(d) = t.struct
    BY <1>1, <2>1 DEF ArgumentFits
  <2>. HIDE DEF d
  <2>. QED
    BY <2>1, <2>2 DEF IsVariable, StructName
<1>2. CASE a.kind # "LValue"
  <2>1. t.kind = "Prim"
    BY <1>2 DEF ArgumentFits
  <2>2. CType[a] = Prim
    BY <1>2, LiteralType, OperationType, ExprAssumption DEF IsCall
  <2>. QED
    BY <2>1, <2>2 DEF IsVariable
<1>. QED
  BY <1>1, <1>2

(* An argument of the parameter's type is found and fits, unless it is a   *)
(* call that returns a struct.                                             *)
LEMMA TypedArgument ==
  ASSUME FiniteTrees, NEW a \in Expr, NEW t, IsVariable(t), CType[a] = TypeOf(t),
         IsCall(a) => CType[a][1] # "struct"
  PROVE  /\ a.kind = "LValue" => ArgumentData(a.id) # Missing
         /\ ArgumentFits(a, t)
<1>1. CType[a] # Error
  BY TypesDiffer DEF IsVariable
<1>2. CASE a.kind = "LValue"
  <2>. DEFINE d == Denotes(a.id)
  <2>1. IsVariable(d) /\ CType[a] = TypeOf(d) /\ ArgumentData(a.id) = d
    BY <1>1, <1>2, VariableType, Declared DEF ArgumentData, IsVariable, Missing
  <2>. HIDE DEF d
  <2>2. IF t.kind = "Prim" THEN d.kind = "Prim"
        ELSE d.kind # "Prim" /\ StructName(d) = t.struct
    BY <2>1, TypesDiffer DEF IsVariable, StructName
  <2>3. d # Missing
    BY <2>1 DEF IsVariable, Missing
  <2>. QED
    BY <1>2, <2>1, <2>2, <2>3 DEF ArgumentFits
<1>3. CASE a.kind # "LValue"
  <2>1. t.kind = "Prim"
    <3>1. IsCall(a) \/ CType[a] = Prim
      BY <1>1, <1>3, LiteralType, OperationType, ExprAssumption DEF IsCall
    <3>. QED
      BY <3>1, TypesDiffer DEF IsVariable
  <2>. QED
    BY <1>3, <2>1 DEF ArgumentFits
<1>. QED
  BY <1>2, <1>3

(* A call is typed as in C if its arguments are checked one by one, its    *)
(* struct is found and every argument is translated; and the reverse.      *)
LEMMA FunctionCallJustified ==
  ASSUME FiniteTrees, Traced, FunctionCall
  PROVE  Justified
<1>. DEFINE f == InTable(Globals, arg.id)
            T == IF f.no_ret \/ f.ret.kind = "Prim" THEN <<>> ELSE <<Table(f.ret.struct)>>
            calls == <<Check(arg, 1)>> \o T \o StackParam(arg)
            args == arg.args
<1>1. CallsInstr({"FunctionCall"}) /\ f.kind = "Function" /\ Becomes(calls)
  BY DEF FunctionCall
<1>2. /\ arg \in Used(stmt) /\ arg \in Expr /\ IsCall(arg) /\ arg \in CallsOf(stmt)
      /\ Returns(Head(todo)) <=> CType[arg] # Error
  BY <1>1, InstrAtHead DEF IsCall, CallsOf
<1>3. IsFunction(f) /\ Globals[arg.id] = f
  BY <1>1, Declared
<1>4. /\ Len(args) \in Nat /\ DOMAIN args = 1 .. Len(args)
      /\ \A i \in 1 .. Len(args) : args[i] \in Expr
  BY <1>2, Arguments
<1>5. Len(f.args) \in Nat /\ \A i \in 1 .. Len(f.args) : IsVariable(f.args[i])
  BY <1>3, Parameters
<1>6. /\ IsSeq(T)
      /\ Members(T) = IF f.no_ret \/ f.ret.kind = "Prim" THEN {} ELSE {Table(f.ret.struct)}
  BY Tuples
<1>. HIDE DEF f, T
<1>7. /\ IsSeq(calls)
      /\ Members(calls) = {Check(arg, 1)} \cup Members(T) \cup Members(StackParam(arg))
  <2>1. IsSeq(<<Check(arg, 1)>> \o T)
        /\ Members(<<Check(arg, 1)>> \o T) = {Check(arg, 1)} \cup Members(T)
    BY <1>6, Tuples, Concatenated
  <2>. QED
    BY <1>2, <2>1, Stacked, Concatenated
<1>. HIDE DEF calls
<1>8. \A c \in Members(calls) : Arises(c)
  <2>1. Turn(arg, 1)
    BY <1>1, <1>2, <1>3, <1>4, <1>5 DEF Turn, f
  <2>. QED
    BY <1>2, <1>6, <1>7, <2>1, CallsMean, ArgumentCalls
<1>9. (\A c \in Members(calls) : Returns(c)) <=>
        /\ AllFit(arg, 1)
        /\ f.no_ret \/ f.ret.kind = "Prim" \/ f.ret.struct \in Structs
        /\ \A i \in 1 .. Len(args) : CType[args[i]] # Error
  BY <1>2, <1>6, <1>7, CallsMean, ArgumentCalls
<1>10. ASSUME ~Unchecked(stmt), \A c \in Members(calls) : Returns(c)
       PROVE  CType[arg] # Error
  <2>1. Denotes(arg.id).kind = "Function" /\ \A i \in DOMAIN args : ~IsCall(args[i])
    BY <1>2, <1>10 DEF Unchecked
  <2>2. Denotes(arg.id) = f
    BY <2>1, Declared DEF IsVariable, Missing, f
  <2>3. Len(args) = Len(f.args) /\ \A i \in 1 .. Len(args) : Fits(arg, i)
    BY <1>3, <1>9, <1>10 DEF AllFit
  <2>4. ASSUME NEW i \in 1 .. Len(args) PROVE CType[args[i]] = TypeOf(f.args[i])
    <3>1. /\ args[i] \in Expr /\ ~IsCall(args[i]) /\ CType[args[i]] # Error
          /\ IsVariable(f.args[i])
      BY <1>4, <1>5, <1>9, <1>10, <2>1, <2>3
    <3>2. /\ args[i].kind = "LValue" => ArgumentData(args[i].id) # Missing
          /\ ArgumentFits(args[i], f.args[i])
      BY <1>3, <2>3 DEF Fits
    <3>. HIDE DEF args
    <3>. QED
      BY <3>1, <3>2, ArgumentTyped
  <2>5. CType[arg] = IF f.no_ret THEN Void ELSE TypeOf(f.ret)
    BY <1>1, <1>2, <1>4, <2>2, <2>3, <2>4, CallType DEF TypeOfCall, ArgumentsTyped
  <2>. QED
    BY <1>3, <1>9, <1>10, <2>5, ResultTypes, TypesDiffer
<1>11. ASSUME ~PassesStruct(stmt), CType[arg] # Error
       PROVE  \A c \in Members(calls) : Returns(c)
  <2>1. /\ ArgumentsTyped(arg, f)
        /\ CType[arg] = IF f.no_ret THEN Void ELSE TypeOf(f.ret)
    BY <1>2, <1>11, CalledFunction DEF f
  <2>2. Len(args) = Len(f.args)
        /\ \A i \in 1 .. Len(args) : CType[args[i]] = TypeOf(f.args[i])
    BY <1>4, <2>1 DEF ArgumentsTyped
  <2>3. ASSUME NEW i \in 1 .. Len(args) PROVE CType[args[i]] # Error /\ Fits(arg, i)
    <3>1. IsCall(args[i]) => CType[args[i]][1] # "struct"
      BY <1>2, <1>4, <1>11 DEF PassesStruct
    <3>2. args[i] \in Expr /\ IsVariable(f.args[i]) /\ CType[args[i]] = TypeOf(f.args[i])
      BY <1>4, <1>5, <2>2
    <3>3. CType[args[i]] # Error
      BY <3>2, TypesDiffer DEF IsVariable
    <3>4. /\ args[i].kind = "LValue" => ArgumentData(args[i].id) # Missing
          /\ ArgumentFits(args[i], f.args[i])
      <4>. HIDE DEF args
      <4>. QED
        BY <3>1, <3>2, TypedArgument
    <3>. QED
      BY <1>3, <3>3, <3>4 DEF Fits
  <2>4. f.no_ret \/ f.ret.kind = "Prim" \/ f.ret.struct \in Structs
    BY <1>3, <1>11, <2>1, ResultTypes
  <2>. QED
    BY <1>3, <1>9, <2>2, <2>3, <2>4 DEF AllFit
<1>12. Replaced(calls)
  BY <1>1, <1>2, <1>7, <1>8, <1>10, <1>11 DEF Replaced
<1>. QED
  BY <1>12 DEF Justified

(* A call of what is no function goes wrong only where it is none in C     *)
(* either.                                                                 *)
LEMMA CallOtherJustified ==
  ASSUME FiniteTrees, Traced, CallOther
  PROVE  Justified
<1>1. /\ CallsInstr({"FunctionCall"}) /\ InTable(Globals, arg.id).kind # "Function"
      /\ \/ Stop("crashed") \/ Stop("rejected")
         \/ Becomes(StackParam(arg))
  BY DEF CallOther
<1>2. /\ arg \in Used(stmt) /\ arg \in Expr /\ IsCall(arg) /\ arg \in CallsOf(stmt)
      /\ Returns(Head(todo)) <=> CType[arg] # Error
  BY <1>1, InstrAtHead DEF IsCall, CallsOf
<1>3. ~Returns(Head(todo))
  BY <1>1, <1>2, CalledFunction
<1>4. Unchecked(stmt)
  <2>1. Denotes(arg.id).kind # "Function"
    BY <1>1, Declared DEF IsVariable, Missing
  <2>. QED
    BY <1>2, <2>1 DEF Unchecked
<1>5. CallsUndeclared(stmt)
  BY <1>1, <1>2 DEF CallsUndeclared
<1>6. CASE Stop("crashed") \/ Stop("rejected")
  <2>1. Ended("crashed") \/ Ended("rejected")
    BY <1>3, <1>5, <1>6 DEF Ended
  <2>. QED
    BY <2>1 DEF Justified
<1>7. CASE Becomes(StackParam(arg))
  <2>1. Replaced(StackParam(arg))
    BY <1>2, <1>3, <1>4, <1>7, Stacked, ArgumentCalls DEF Replaced
  <2>. QED
    BY <2>1 DEF Justified
<1>. QED
  BY <1>1, <1>6, <1>7

(* The loop of functioncall_check, one turn.                               *)
LEMMA CheckJustified ==
  ASSUME FiniteTrees, Traced, FunctionCallCheck
  PROVE  Justified
<1>. DEFINE n == Head(todo)[3]
            args == arg.args
            types == Globals[arg.id].args
<1>1. /\ Calls("Check")
      /\ CASE n > Len(args) -> PassIf(Len(types) <= Len(args))
           [] n <= Len(args) /\ n > Len(types) -> Stop("rejected")
           [] OTHER ->
                IF args[n].kind = "LValue" /\ ArgumentData(args[n].id) = Missing
                THEN Stop("crashed")
                ELSE IF ArgumentFits(args[n], types[n])
                     THEN Becomes(<<Check(arg, n + 1)>>) ELSE Stop("rejected")
  BY DEF FunctionCallCheck
<1>2. (Returns(Head(todo)) <=> AllFit(arg, n)) /\ Turn(arg, n)
  BY <1>1, CallAtHead
<1>3. /\ arg \in CallsOf(stmt) /\ InTable(Globals, arg.id).kind = "Function"
      /\ arg \in Expr /\ IsCall(arg)
  BY <1>2, UsedExpressions DEF Turn, CallsOf, IsCall, Traced
<1>4. Len(args) \in Nat /\ Len(types) \in Nat /\ DOMAIN args = 1 .. Len(args)
  BY <1>3, Arguments, Parameters, Declared
<1>5. n \in 1 .. (Len(args) + 1) /\ n <= Len(types) + 1
  BY <1>2 DEF Turn
<1>6. AllFit(arg, n) <=> Len(args) = Len(types) /\ \A i \in n .. Len(args) : Fits(arg, i)
  BY DEF AllFit
<1>7. Fits(arg, n) <=> /\ args[n].kind = "LValue" => ArgumentData(args[n].id) # Missing
                       /\ ArgumentFits(args[n], types[n])
  BY DEF Fits
<1>. HIDE DEF n, args, types
<1>8. CASE n > Len(args)
  <2>1. AllFit(arg, n) <=> Len(types) <= Len(args)
    <3>1. n .. Len(args) = {}
      BY <1>4, <1>5, <1>8
    <3>2. Len(args) <= Len(types)
      BY <1>4, <1>5, <1>8
    <3>. QED
      BY <1>4, <1>6, <3>1, <3>2
  <2>2. PassIf(Len(types) <= Len(args))
    BY <1>1, <1>4, <1>5, <1>8
  <2>. QED
    BY <1>2, <2>1, <2>2, PassedIf
<1>9. CASE n <= Len(args) /\ n > Len(types)
  <2>1. ~AllFit(arg, n)
    BY <1>4, <1>5, <1>6, <1>9
  <2>. QED
    BY <1>1, <1>2, <1>4, <1>5, <1>9, <2>1, Refused
<1>10. CASE n <= Len(args) /\ n <= Len(types)
  <2>1. IF args[n].kind = "LValue" /\ ArgumentData(args[n].id) = Missing
        THEN Stop("crashed")
        ELSE IF ArgumentFits(args[n], types[n])
             THEN Becomes(<<Check(arg, n + 1)>>) ELSE Stop("rejected")
    BY <1>1, <1>4, <1>5, <1>10
  <2>2. n \in n .. Len(args) /\ n \in DOMAIN args
    BY <1>4, <1>5, <1>10
  <2>3. ~Fits(arg, n) => ~AllFit(arg, n)
    BY <1>6, <2>2
  <2>4. CASE args[n].kind = "LValue" /\ ArgumentData(args[n].id) = Missing
    <3>1. Denotes(args[n].id) = Missing
      BY <2>4, Declared DEF ArgumentData
    <3>2. CallsUndeclared(stmt)
      BY <1>3, <2>2, <2>4, <3>1 DEF CallsUndeclared, args
    <3>3. Ended("crashed")
      BY <1>2, <1>7, <2>1, <2>3, <2>4, <3>2 DEF Ended
    <3>. QED
      BY <3>3 DEF Justified
  <2>5. CASE Fits(arg, n)
    <3>. DEFINE calls == <<Check(arg, n + 1)>>
    <3>1. IsSeq(calls) /\ Members(calls) = {Check(arg, n + 1)} /\ Becomes(calls)
      BY <1>7, <2>1, <2>5, Tuples
    <3>2. Turn(arg, n + 1)
      BY <1>3, <1>4, <1>5, <1>10 DEF Turn, args, types
    <3>3. AllFit(arg, n + 1) <=> AllFit(arg, n)
      <4>1. n .. Len(args) = {n} \cup (n + 1) .. Len(args)
        BY <1>4, <1>5, <1>10
      <4>2. AllFit(arg, n + 1) <=>
              Len(args) = Len(types) /\ \A i \in (n + 1) .. Len(args) : Fits(arg, i)
        BY DEF AllFit, args, types
      <4>. QED
        BY <1>6, <2>5, <4>1, <4>2
    <3>. HIDE DEF calls
    <3>4. Replaced(calls)
      BY <1>2, <3>1, <3>2, <3>3, CallsMean DEF Replaced
    <3>. QED
      BY <3>4 DEF Justified
  <2>6. CASE ~Fits(arg, n) /\ ~(args[n].kind = "LValue" /\ ArgumentData(args[n].id) = Missing)
    BY <1>2, <1>7, <2>1, <2>3, <2>6, Refused
  <2>. QED
    BY <2>4, <2>5, <2>6
<1>. QED
  BY <1>4, <1>5, <1>8, <1>9, <1>10

-----------------------------------------------------------------------------
(* Statements.  Each is first taken without hidden fields.                 *)
SidesVisible ==
  /\ stmt.kind = "Assign" => ~HiddenField(stmt.left)
  /\ stmt.expr.kind \in {"LValue", "FunctionCall"} => ~HiddenField(stmt.expr.id)

(* A primitive on the left: the right side must be one.                    *)
LEMMA AssignPrimVisible ==
  ASSUME FiniteTrees, Traced, AssignPrim, SidesVisible
  PROVE  Justified
<1>. DEFINE e == stmt.expr
            d == Denotes(stmt.left)
            r == Denotes(e.id)
<1>. stmt.kind = "Assign"
  BY CallAtHead DEF AssignPrim
<1>1. /\ Calls("Assign") /\ GetData(stmt.left) = d /\ d.kind = "Prim"
      /\ Becomes(CASE e.kind \in Literal -> <<>>
                   [] e.kind = "LValue" -> <<Compare(d, e)>>
                   [] e.kind = "FunctionCall" -> <<Compare(d, e), Instr(e, "Assign")>>
                   [] OTHER -> <<Instr(e, "Assign")>>)
  BY Declared DEF AssignPrim, SidesVisible
<1>2. (Returns(Head(todo)) <=> WellTyped(stmt)) /\ stmt.kind = "Assign"
  BY <1>1, CallAtHead
<1>3. e \in Expr /\ e \in Used(stmt) /\ e.kind # "Void"
  BY <1>2, UsedExpressions DEF Traced
<1>4. WellTyped(stmt) <=> CType[e] = Prim
  <2>1. TypeOf(d) = Prim
    BY <1>1 DEF TypeOf
  <2>. QED
    BY <1>1, <1>2, <2>1 DEF WellTyped
<1>5. /\ e.kind \in {"LValue", "FunctionCall"} => GetData(e.id) = r
      /\ IsVariable(r) \/ r.kind = "DeclStruct" \/ r = Missing \/ IsFunction(r)
  BY Declared DEF SidesVisible
<1>6. ~Unchecked(stmt) => /\ e.kind = "LValue" => r.kind # "Function"
                          /\ e.kind = "FunctionCall" => r.kind = "Function"
  BY <1>2, <1>3 DEF Unchecked, CallsOf
<1>7. e.kind \in {"LValue", "FunctionCall"} =>
        (Comparable(d, e) <=> \/ r.kind = "Prim"
                              \/ r.kind = "Function" /\ ~r.no_ret /\ r.ret.kind = "Prim")
  BY <1>1, <1>5 DEF Comparable, Matches, Ret, Missing, IsVariable, IsFunction
<1>8. Evaluable(e, "Assign") <=> CType[e] # Error
  BY <1>3 DEF Evaluable
<1>. HIDE DEF e, d, r
<1>9. CASE e.kind \in Literal
  <2>1. Becomes(<<>>)
    BY <1>1, <1>9 DEF Literal
  <2>2. CType[e] = Prim
    BY <1>3, <1>9, LiteralType
  <2>. QED
    BY <1>2, <1>4, <2>1, <2>2, Passed
<1>10. CASE e.kind = "LValue"
  <2>. DEFINE calls == <<Compare(d, e)>>
  <2>1. IsSeq(calls) /\ Members(calls) = {Compare(d, e)} /\ Becomes(calls)
    BY <1>1, <1>10, Tuples DEF Literal
  <2>. HIDE DEF calls
  <2>2. IF IsVariable(r) THEN CType[e] = TypeOf(r) ELSE CType[e] = Error
    BY <1>3, <1>10, VariableType DEF r
  <2>3. CType[e] = Prim <=> r.kind = "Prim"
    BY <1>5, <2>2, TypesDiffer DEF IsVariable, IsFunction, Missing
  <2>4. Replaced(calls)
    BY <1>2, <1>4, <1>6, <1>7, <1>10, <2>1, <2>3, CallsMean DEF Replaced
  <2>. QED
    BY <2>4 DEF Justified
<1>11. CASE e.kind = "FunctionCall"
  <2>. DEFINE calls == <<Compare(d, e), Instr(e, "Assign")>>
  <2>1. IsSeq(calls) /\ Members(calls) = {Compare(d, e), Instr(e, "Assign")} /\ Becomes(calls)
    BY <1>1, <1>11, Tuples DEF Literal
  <2>. HIDE DEF calls
  <2>2. CType[e] # Error => IsFunction(r) /\ r.kind = "Function"
                            /\ CType[e] = IF r.no_ret THEN Void ELSE TypeOf(r.ret)
    BY <1>3, <1>11, CalledFunction DEF IsCall, r
  <2>3. CType[e] = Prim <=> CType[e] # Error /\ ~r.no_ret /\ r.ret.kind = "Prim"
    BY <2>2, ResultTypes, TypesDiffer
  <2>4. Replaced(calls)
    BY <1>2, <1>3, <1>4, <1>6, <1>7, <1>8, <1>11, <2>1, <2>2, <2>3, CallsMean DEF Replaced
  <2>. QED
    BY <2>4 DEF Justified
<1>12. CASE e.kind \in {"Binop", "Unop"}
  <2>. DEFINE calls == <<Instr(e, "Assign")>>
  <2>1. IsSeq(calls) /\ Members(calls) = {Instr(e, "Assign")} /\ Becomes(calls)
    BY <1>1, <1>12, Tuples DEF Literal
  <2>. HIDE DEF calls
  <2>2. CType[e] # Error <=> CType[e] = Prim
    BY <1>3, <1>12, OperationType, TypesDiffer
  <2>3. Replaced(calls)
    BY <1>2, <1>3, <1>4, <1>8, <2>1, <2>2, CallsMean DEF Replaced
  <2>. QED
    BY <2>3 DEF Justified
<1>. QED
  BY <1>3, <1>9, <1>10, <1>11, <1>12, ExprAssumption

(* A hidden field on either side is typed by what it hides.                *)
LEMMA AssignPrimJustified ==
  ASSUME FiniteTrees, Traced, AssignPrim
  PROVE  Justified
<1>1. CASE ~SidesVisible
  <2>. DEFINE e == stmt.expr
              d == GetData(stmt.left)
  <2>1. /\ Calls("Assign")
        /\ \/ Becomes(<<>>) \/ Becomes(<<Compare(d, e)>>)
           \/ Becomes(<<Compare(d, e), Instr(e, "Assign")>>)
           \/ Becomes(<<Instr(e, "Assign")>>)
    BY DEF AssignPrim
  <2>2. (Returns(Head(todo)) <=> WellTyped(stmt)) /\ stmt.kind = "Assign"
    BY <2>1, CallAtHead
  <2>3. Unchecked(stmt) /\ ~Returns(Head(todo))
    BY <1>1, <2>2, HiddenSide DEF SidesVisible
  <2>4. Arises(Instr(e, "Assign")) /\ Arises(Compare(d, e))
    BY <2>2, UsedExpressions, CallsMean DEF Traced
  <2>. QED
    BY <2>1, <2>3, <2>4, GoesOn, Tuples
<1>2. CASE SidesVisible
  BY <1>2, AssignPrimVisible
<1>. QED
  BY <1>1, <1>2

(* Anything but a primitive on the left: a struct is copied just if both   *)
(* sides have its type.                                                    *)
LEMMA AssignStructVisible ==
  ASSUME FiniteTrees, Traced, AssignStruct, SidesVisible
  PROVE  Justified
<1>. DEFINE e == stmt.expr
            d == Denotes(stmt.left)
            r == Denotes(e.id)
            first == IF e.kind = "FunctionCall" THEN <<Instr(e, "Assign")>> ELSE <<>>
            calls == first \o <<StructAssign(d, e)>>
<1>. stmt.kind = "Assign"
  BY CallAtHead DEF AssignStruct
<1>1. /\ Calls("Assign") /\ GetData(stmt.left) = d /\ d.kind # "Prim"
      /\ e.kind \in {"LValue", "FunctionCall"} => GetData(e.id) = r
      /\ IF d = Missing \/ (e.kind = "FunctionCall" /\ r = Missing)
         THEN Stop("rejected") ELSE Becomes(calls)
  BY Declared DEF AssignStruct, SidesVisible
<1>2. (Returns(Head(todo)) <=> WellTyped(stmt)) /\ stmt.kind = "Assign"
  BY <1>1, CallAtHead
<1>3. e \in Expr /\ e \in Used(stmt) /\ e.kind # "Void"
  BY <1>2, UsedExpressions DEF Traced
<1>4. WellTyped(stmt) <=> d.kind = "Struct" /\ CType[e] = TypeOf(d)
  BY <1>1, <1>2 DEF WellTyped
<1>5. /\ IsVariable(d) \/ d.kind = "DeclStruct" \/ d = Missing
         \/ (IsFunction(d) /\ d.name \notin Structs)
      /\ IsVariable(r) \/ r.kind = "DeclStruct" \/ r = Missing \/ IsFunction(r)
      /\ d = Missing <=> d.kind = "Missing"
      /\ r = Missing <=> r.kind = "Missing"
  BY Declared
<1>6. ~Unchecked(stmt) => /\ e.kind = "LValue" => r.kind # "Function" /\ r.kind # "DeclStruct"
                          /\ e.kind = "FunctionCall" => r.kind = "Function"
                          /\ d.kind # "DeclStruct"
  BY <1>2, <1>3 DEF Unchecked, CallsOf
<1>7. e.kind \in {"LValue", "FunctionCall"} =>
        (Comparable(d, e) <=> r # Missing /\ Matches(d, r))
  BY <1>1 DEF Comparable
<1>8. Evaluable(e, "Assign") <=> CType[e] # Error
  BY <1>3 DEF Evaluable
<1>9. e.kind = "LValue" =>
        IF IsVariable(r) THEN CType[e] = TypeOf(r) ELSE CType[e] = Error
  BY <1>3, VariableType
<1>10. e.kind = "FunctionCall" /\ CType[e] # Error =>
         /\ IsFunction(r) /\ r.kind = "Function"
         /\ CType[e] = IF r.no_ret THEN Void ELSE TypeOf(r.ret)
  BY <1>3, CalledFunction DEF IsCall
<1>11. e.kind \notin {"LValue", "FunctionCall"} => CType[e] \in {Prim, Error}
  BY <1>3, LiteralType, OperationType, ExprAssumption
<1>. HIDE DEF e, d, r
<1>12. ASSUME d.kind = "Struct", CType[e] = TypeOf(d)
       PROVE  /\ CType[e] # Error /\ Copyable(d, e)
              /\ ~(d = Missing \/ (e.kind = "FunctionCall" /\ r = Missing))
  <2>1. d.struct \in Structs /\ CType[e] = Struct(d.struct) /\ StructName(d) = d.struct
    BY <1>5, <1>12 DEF IsVariable, IsFunction, Missing, StructName
  <2>2. CType[e] # Error /\ CType[e] # Prim /\ CType[e] # Void
        /\ \A n : CType[e] = Struct(n) => n = d.struct
    BY <2>1, TypesDiffer
  <2>3. e.kind \in {"LValue", "FunctionCall"}
    BY <1>11, <2>2
  <2>4. CASE e.kind = "LValue"
    <3>1. r.kind = "Struct" /\ r.struct = d.struct
      BY <1>9, <2>2, <2>4 DEF IsVariable
    <3>2. Matches(d, r)
      BY <1>12, <2>1, <3>1 DEF Matches
    <3>. QED
      BY <1>5, <1>7, <1>12, <2>1, <2>2, <2>4, <3>1, <3>2 DEF Copyable
  <2>5. CASE e.kind = "FunctionCall"
    <3>1. IsFunction(r) /\ r.kind = "Function" /\ ~r.no_ret /\ CType[e] = TypeOf(r.ret)
      BY <1>10, <2>2, <2>5
    <3>2. r.ret.kind = "Struct" /\ r.ret.struct = d.struct
      BY <2>2, <3>1, ResultTypes
    <3>3. Matches(d, r)
      BY <1>12, <2>1, <3>1, <3>2 DEF Matches, Ret
    <3>. QED
      BY <1>5, <1>7, <1>12, <2>1, <2>2, <2>5, <3>1, <3>3 DEF Copyable
  <2>. QED
    BY <2>3, <2>4, <2>5
<1>13. ASSUME ~Unchecked(stmt), Copyable(d, e), d # Missing,
              e.kind = "FunctionCall" => CType[e] # Error
       PROVE  d.kind = "Struct" /\ CType[e] = TypeOf(d)
  <2>1. /\ e.kind \in {"LValue", "FunctionCall"} /\ r # Missing /\ Matches(d, r)
        /\ StructName(d) \in Structs
    BY <1>7, <1>13 DEF Copyable
  <2>2. d.kind = "Struct" /\ TypeOf(d) = Struct(d.struct) /\ StructName(d) = d.struct
    BY <1>1, <1>5, <1>6, <1>13, <2>1 DEF IsVariable, IsFunction, StructName
  <2>3. CASE e.kind = "LValue"
    <3>1. IsVariable(r) /\ CType[e] = TypeOf(r)
      BY <1>5, <1>6, <1>9, <1>13, <2>1, <2>3 DEF IsFunction
    <3>2. r.kind = "Struct" /\ r.struct = d.struct
      BY <2>1, <2>2, <3>1 DEF Matches, IsVariable
    <3>. QED
      BY <2>2, <3>1, <3>2 DEF IsVariable
  <2>4. CASE e.kind = "FunctionCall"
    <3>1. /\ IsFunction(r) /\ r.kind = "Function"
          /\ CType[e] = IF r.no_ret THEN Void ELSE TypeOf(r.ret)
      BY <1>10, <1>13, <2>4
    <3>2. ~r.no_ret /\ r.ret.kind = "Struct" /\ r.ret.struct = d.struct
      BY <2>1, <2>2, <3>1 DEF Matches, Ret
    <3>. QED
      BY <1>13, <2>2, <2>4, <3>1, <3>2, ResultTypes
  <2>. QED
    BY <2>1, <2>3, <2>4
<1>14. CASE d = Missing \/ (e.kind = "FunctionCall" /\ r = Missing)
  BY <1>1, <1>2, <1>4, <1>12, <1>14, Refused
<1>15. CASE ~(d = Missing \/ (e.kind = "FunctionCall" /\ r = Missing))
  <2>1. IsSeq(first)
        /\ Members(first) = IF e.kind = "FunctionCall" THEN {Instr(e, "Assign")} ELSE {}
    BY Tuples
  <2>. HIDE DEF first
  <2>2. IsSeq(calls) /\ Members(calls) = Members(first) \cup {StructAssign(d, e)}
    BY <2>1, Tuples, Concatenated
  <2>3. Becomes(calls)
    BY <1>1, <1>15
  <2>. HIDE DEF calls
  <2>4. \A c \in Members(calls) : Arises(c)
    BY <1>3, <2>1, <2>2, CallsMean
  <2>5. (\A c \in Members(calls) : Returns(c)) <=>
          Copyable(d, e) /\ (e.kind = "FunctionCall" => CType[e] # Error)
    BY <1>8, <2>1, <2>2, CallsMean
  <2>6. Replaced(calls)
    BY <1>2, <1>4, <1>12, <1>13, <1>15, <2>2, <2>3, <2>4, <2>5 DEF Replaced
  <2>. QED
    BY <2>6 DEF Justified
<1>. QED
  BY <1>14, <1>15

(* A hidden field on either side is looked at as what it hides.            *)
LEMMA AssignStructJustified ==
  ASSUME FiniteTrees, Traced, AssignStruct
  PROVE  Justified
<1>1. CASE ~SidesVisible
  <2>. DEFINE e == stmt.expr
              d == GetData(stmt.left)
              copy == StructAssign(d, e)
              first == IF e.kind = "FunctionCall" THEN <<Instr(e, "Assign")>> ELSE <<>>
              calls == first \o <<copy>>
  <2>1. Calls("Assign") /\ (Stop("rejected") \/ Becomes(calls))
    BY DEF AssignStruct
  <2>2. (Returns(Head(todo)) <=> WellTyped(stmt)) /\ stmt.kind = "Assign"
    BY <2>1, CallAtHead
  <2>3. Unchecked(stmt) /\ ~Returns(Head(todo))
    BY <1>1, <2>2, HiddenSide DEF SidesVisible
  <2>4. Arises(Instr(e, "Assign")) /\ Arises(copy)
    BY <2>2, UsedExpressions, CallsMean DEF Traced
  <2>5. IsSeq(first) /\ Members(first) \subseteq {Instr(e, "Assign")}
    BY Tuples
  <2>6. IsSeq(<<copy>>) /\ Members(<<copy>>) = {copy}
    BY Tuples
  <2>. HIDE DEF first, copy
  <2>7. IsSeq(calls) /\ Members(calls) = Members(first) \cup {copy}
    BY <2>5, <2>6, Concatenated
  <2>. HIDE DEF calls
  <2>8. \A c \in Members(calls) : Arises(c)
    BY <2>4, <2>5, <2>7
  <2>. QED
    BY <2>1, <2>3, <2>7, <2>8, GoesOn, Refused
<1>2. CASE SidesVisible
  BY <1>2, AssignStructVisible
<1>. QED
  BY <1>1, <1>2

(* A struct is copied from a variable or a call that matches it.           *)
LEMMA StructAssignJustified ==
  ASSUME Traced, CheckStructAssign
  PROVE  Justified
<1>. DEFINE e == Head(todo)[3]
            calls == <<Compare(arg, e), Table(StructName(arg))>>
<1>1. /\ Calls("StructAssign")
      /\ IF e.kind \notin {"LValue", "FunctionCall"} THEN Stop("rejected") ELSE Becomes(calls)
  BY DEF CheckStructAssign
<1>2. Returns(Head(todo)) <=> Copyable(arg, e)
  BY <1>1, CallAtHead
<1>3. IsSeq(calls) /\ Members(calls) = {Compare(arg, e), Table(StructName(arg))}
  BY Tuples
<1>. HIDE DEF calls, e
<1>4. CASE e.kind \notin {"LValue", "FunctionCall"}
  BY <1>1, <1>2, <1>4, Refused DEF Copyable
<1>5. CASE e.kind \in {"LValue", "FunctionCall"}
  <2>1. Replaced(calls)
    BY <1>1, <1>2, <1>3, <1>5, CallsMean DEF Replaced, Copyable
  <2>. QED
    BY <2>1 DEF Justified
<1>. QED
  BY <1>4, <1>5

(* return is checked against the function it is in.                        *)
LEMMA ReturnVisible ==
  ASSUME FiniteTrees, Traced, ReturnCheck, SidesVisible
  PROVE  Justified
<1>. DEFINE f == Globals[stmt.func]
            e == stmt.expr
            r == Denotes(e.id)
            last == Instr(e, "Return")
<1>1. /\ Calls("Return")
      /\ IF f.no_ret
         THEN IF e.kind = "Void" THEN Becomes(<<last>>) ELSE Stop("rejected")
         ELSE IF e.kind = "LValue" THEN Becomes(<<Compare(f, e), last>>)
              ELSE IF f.ret.kind = "Prim" THEN Becomes(<<last>>) ELSE Stop("rejected")
  BY DEF ReturnCheck, ReturnLiteral
<1>2. (Returns(Head(todo)) <=> WellTyped(stmt)) /\ stmt.kind = "Return"
  BY <1>1, CallAtHead
<1>3. IsFunction(f) /\ f.kind = "Function"
  BY <1>2, StmtAssumption DEF Traced, IsFunction
<1>4. e.kind # "Void" => e \in Expr /\ e \in Used(stmt)
  BY <1>2, UsedExpressions DEF Traced
<1>5. WellTyped(stmt) <=>
        IF f.no_ret THEN e.kind = "Void"
        ELSE e.kind # "Void" /\ CType[e] # Error /\ CType[e] = TypeOf(f.ret)
  BY <1>2 DEF WellTyped
<1>6. ~Unchecked(stmt) => ~IsCall(e) /\ e.kind # "Void"
  BY <1>2 DEF Unchecked
<1>7. ~PassesStruct(stmt) => ~(IsCall(e) /\ CType[e][1] = "struct")
  BY <1>2 DEF PassesStruct
<1>8. /\ IsSeq(<<last>>) /\ Members(<<last>>) = {last}
      /\ IsSeq(<<Compare(f, e), last>>)
      /\ Members(<<Compare(f, e), last>>) = {Compare(f, e), last}
  BY Tuples
<1>9. /\ Arises(last)
      /\ Returns(last) <=> e.kind = "Void" \/ CType[e] # Error
  BY <1>4, CallsMean DEF Evaluable
<1>10. e.kind = "LValue" => GetData(e.id) = r
  BY Declared DEF SidesVisible
<1>11. ~f.no_ret => \/ f.ret.kind = "Prim" /\ TypeOf(f.ret) = Prim
                    \/ /\ f.ret.kind = "Struct" /\ f.ret.struct \in Structs
                       /\ TypeOf(f.ret) = Struct(f.ret.struct)
                    \/ f.ret.kind = "Struct" /\ f.ret.struct \notin Structs /\ TypeOf(f.ret) = Error
  BY <1>3, ResultTypes
<1>12. e.kind # "Void" /\ e.kind # "LValue" => IsCall(e) \/ CType[e] \in {Prim, Error}
  BY <1>4, LiteralType, OperationType, ExprAssumption DEF IsCall
<1>13. e.kind = "LValue" =>
         IF IsVariable(r) THEN CType[e] = TypeOf(r) ELSE CType[e] = Error
  BY <1>4, VariableType
<1>. HIDE DEF f, e, r, last
<1>14. CASE f.no_ret /\ e.kind = "Void"
  <2>1. Replaced(<<last>>)
    BY <1>1, <1>2, <1>5, <1>8, <1>9, <1>14 DEF Replaced
  <2>. QED
    BY <2>1 DEF Justified
<1>15. CASE f.no_ret /\ e.kind # "Void"
  BY <1>1, <1>2, <1>5, <1>15, Refused
<1>16. CASE ~f.no_ret /\ e.kind = "LValue"
  <2>1. ASSUME CType[e] # Error
        PROVE  Comparable(f, e) <=> CType[e] = TypeOf(f.ret)
    <3>1. IsVariable(r) /\ CType[e] = TypeOf(r)
      BY <1>13, <1>16, <2>1
    <3>2. r # Missing
      BY <3>1 DEF IsVariable, Missing
    <3>3. Matches(f, r) <=> IF r.kind = "Prim" THEN f.ret.kind = "Prim"
                            ELSE f.ret.kind = "Struct" /\ f.ret.struct = r.struct
      BY <1>3, <1>16, <3>1 DEF Matches, Ret, IsVariable, StructName
    <3>4. Comparable(f, e) <=> Matches(f, r)
      BY <1>10, <1>16, <3>2 DEF Comparable
    <3>. QED
      BY <1>11, <1>16, <3>1, <3>3, <3>4, TypesDiffer DEF IsVariable
  <2>2. Replaced(<<Compare(f, e), last>>)
    BY <1>1, <1>2, <1>5, <1>8, <1>9, <1>16, <2>1, CallsMean DEF Replaced
  <2>. QED
    BY <2>2 DEF Justified
<1>17. CASE ~f.no_ret /\ e.kind # "LValue" /\ f.ret.kind = "Prim"
  <2>1. TypeOf(f.ret) = Prim
    BY <1>11, <1>17
  <2>2. ~Unchecked(stmt) /\ Returns(last) => WellTyped(stmt)
    BY <1>5, <1>6, <1>9, <1>12, <1>17, <2>1
  <2>3. Replaced(<<last>>)
    BY <1>1, <1>2, <1>5, <1>8, <1>9, <1>17, <2>2 DEF Replaced
  <2>. QED
    BY <2>3 DEF Justified
<1>18. CASE ~f.no_ret /\ e.kind # "LValue" /\ f.ret.kind # "Prim"
  <2>1. ~PassesStruct(stmt) => ~WellTyped(stmt)
    BY <1>5, <1>7, <1>11, <1>12, <1>18, TypesDiffer
  <2>. QED
    BY <1>1, <1>2, <1>18, <2>1, Refused
<1>. QED
  BY <1>14, <1>15, <1>16, <1>17, <1>18

(* A hidden field is returned as what it hides.                            *)
LEMMA ReturnJustified ==
  ASSUME FiniteTrees, Traced, ReturnCheck
  PROVE  Justified
<1>1. CASE ~SidesVisible
  <2>. DEFINE f == Globals[stmt.func]
              e == stmt.expr
              last == Instr(e, "Return")
  <2>1. /\ Calls("Return")
        /\ \/ Becomes(<<last>>) \/ Becomes(<<Compare(f, e), last>>)
           \/ Stop("rejected")
    BY DEF ReturnCheck
  <2>2. (Returns(Head(todo)) <=> WellTyped(stmt)) /\ stmt.kind = "Return"
    BY <2>1, CallAtHead
  <2>3. Unchecked(stmt) /\ ~Returns(Head(todo))
    BY <1>1, <2>2, HiddenSide DEF SidesVisible
  <2>4. Arises(last) /\ Arises(Compare(f, e))
    BY <2>2, UsedExpressions, CallsMean DEF Traced
  <2>. HIDE DEF last, f, e
  <2>5. CASE Becomes(<<last>>)
    BY <2>3, <2>4, <2>5, GoesOn, Tuples
  <2>6. CASE Becomes(<<Compare(f, e), last>>)
    BY <2>3, <2>4, <2>6, GoesOn, Tuples
  <2>. QED
    BY <2>1, <2>3, <2>5, <2>6, Refused
<1>2. CASE SidesVisible
  BY <1>2, ReturnVisible
<1>. QED
  BY <1>1, <1>2

-----------------------------------------------------------------------------
AllReturn == \A c \in Members(todo) : Returns(c)

(* Under way, all that is left to do must return for the statement to be   *)
(* well typed, and does so if it is, but for what either side does not     *)
(* look at.                                                                *)
IInv ==
  /\ Traced
  /\ verdict = "accepted" => todo = <<>>
  /\ verdict \in {"checking", "accepted"} /\ ~Unchecked(stmt) /\ AllReturn => WellTyped(stmt)
  /\ WellTyped(stmt) /\ ~PassesStruct(stmt) =>
       verdict \in {"checking", "accepted"} /\ AllReturn
  /\ CrashesOnUndeclared

(* The calls a statement starts with return just if it is well typed.      *)
LEMMA InitIInv ==
  ASSUME FiniteTrees, Init
  PROVE  IInv
<1>. DEFINE e == stmt.expr
            k == stmt.kind
<1>1. stmt \in Stmt /\ todo = Start(stmt) /\ verdict = "checking"
  BY DEF Init
<1>2. k \in {"Print", "If", "While", "SuiteInstr", "Assign", "Return", "Reade", "Readc"}
  BY <1>1, StmtAssumption
<1>3. k \in {"Print", "If", "While", "SuiteInstr"} =>
        e \in Expr /\ e \in Used(stmt) /\ e.kind # "Void"
  BY <1>1, UsedExpressions
<1>. SUFFICES /\ IsSeq(todo) /\ \A c \in Members(todo) : Arises(c)
              /\ ~Unchecked(stmt) /\ AllReturn => WellTyped(stmt)
              /\ WellTyped(stmt) => AllReturn
  BY <1>1 DEF IInv, Traced, CrashesOnUndeclared
<1>4. CASE k \in {"Print", "If", "While"}
  <2>1. todo = <<IsPrim(e), Instr(e, k)>>
    BY <1>1, <1>4 DEF Start
  <2>2. WellTyped(stmt) <=> CType[e] = Prim
    BY <1>4 DEF WellTyped
  <2>3. ~Unchecked(stmt) => ~IsVoid(e)
    BY <1>4 DEF Unchecked
  <2>4. Evaluable(e, k) <=> CType[e] # Error
    BY <1>3, <1>4 DEF Evaluable
  <2>. HIDE DEF e, k
  <2>5. IsSeq(todo) /\ Members(todo) = {IsPrim(e), Instr(e, k)}
    BY <2>1, Tuples
  <2>6. CType[e] # Error /\ ~IsVoid(e) /\ Primitive(e) => CType[e] = Prim
    BY <1>3, <1>4, PrimitiveIsPrim
  <2>7. CType[e] = Prim => Primitive(e) /\ CType[e] # Error
    BY <1>3, <1>4, PrimIsPrimitive, TypesDiffer
  <2>. QED
    BY <1>3, <1>4, <2>2, <2>3, <2>4, <2>5, <2>6, <2>7, CallsMean DEF AllReturn
<1>5. CASE k = "SuiteInstr"
  <2>1. todo = <<Instr(e, "SuiteInstr")>>
    BY <1>1, <1>5 DEF Start
  <2>2. WellTyped(stmt) <=> CType[e] # Error
    BY <1>5 DEF WellTyped
  <2>3. ~Unchecked(stmt) => IsCall(e)
    BY <1>5 DEF Unchecked
  <2>. HIDE DEF e, k
  <2>4. IsSeq(todo) /\ Members(todo) = {Instr(e, "SuiteInstr")}
    BY <2>1, Tuples
  <2>. QED
    BY <1>3, <1>5, <2>2, <2>3, <2>4, CallsMean DEF AllReturn, Evaluable
<1>6. CASE k \in {"Assign", "Return", "Reade", "Readc"}
  <2>1. todo = <<<<k>>>>
    BY <1>1, <1>6 DEF Start
  <2>2. Arises(<<k>>) /\ (Returns(<<k>>) <=> WellTyped(stmt))
    BY <1>6 DEF Arises, Returns
  <2>3. IsSeq(todo) /\ Members(todo) = {<<k>>}
    BY <2>1, Tuples
  <2>. QED
    BY <2>2, <2>3 DEF AllReturn
<1>. QED
  BY <1>2, <1>4, <1>5, <1>6

(* Every step but the last is justified, and keeps the statement.          *)
LEMMA StepJustified ==
  ASSUME FiniteTrees, Traced, Next
  PROVE  \/ Accept
         \/ Justified /\ verdict = "checking" /\ todo # <<>> /\ UNCHANGED <<stmt, junk>>
<1>1. CASE CheckPrim \/ GetTableByName \/ FunctionCallCheck \/ CompareTypes \/ ReadInstr
  <2>1. Justified
    BY <1>1, CheckPrimJustified, GetTableJustified, CheckJustified, CompareJustified, ReadJustified
  <2>. QED
    BY <1>1, <2>1 DEF CheckPrim, GetTableByName, FunctionCallCheck, CompareTypes, ReadInstr, Calls
<1>2. CASE InstrLiteral \/ InstrBinop \/ InstrUnop \/ PlaceOnTop
  <2>1. Justified
    BY <1>2, LiteralJustified, BinopJustified, UnopJustified, PlaceJustified
  <2>. QED
    BY <1>2, <2>1 DEF InstrLiteral, InstrBinop, InstrUnop, PlaceOnTop, CallsInstr, Calls
<1>3. CASE FunctionCall \/ CallOther
  <2>1. Justified
    BY <1>3, FunctionCallJustified, CallOtherJustified
  <2>. QED
    BY <1>3, <2>1 DEF FunctionCall, CallOther, CallsInstr, Calls
<1>4. CASE AssignPrim \/ AssignStruct \/ CheckStructAssign \/ ReturnCheck
  <2>1. Justified
    BY <1>4, AssignPrimJustified, AssignStructJustified, StructAssignJustified, ReturnJustified
  <2>. QED
    BY <1>4, <2>1 DEF AssignPrim, AssignStruct, CheckStructAssign, ReturnCheck, Calls
<1>. QED
  BY <1>1, <1>2, <1>3, <1>4 DEF Next

(* What a call is about does not change with the calls to come.            *)
LEMMA SameMeaning ==
  ASSUME UNCHANGED <<stmt, junk>>
  PROVE  \A c : (Returns(c)' <=> Returns(c)) /\ (Arises(c)' <=> Arises(c))
BY DEF Returns, Arises, Turn, Primitive, Evaluable, AllFit, Fits, Comparable, Copyable,
       Matches, Ret, StructName, ArgumentFits, WellTyped

(* IInv is inductive.                                                      *)
LEMMA NextIInv ==
  ASSUME FiniteTrees, IInv, [Next]_vars
  PROVE  IInv'
<1>1. CASE Accept
  <2>1. /\ todo = <<>> /\ todo' = todo /\ stmt' = stmt /\ junk' = junk
        /\ verdict = "checking" /\ verdict' = "accepted"
    BY <1>1 DEF Accept
  <2>2. Members(todo) = {} /\ IsSeq(todo)
    BY <2>1, Tuples
  <2>3. WellTyped(stmt) \/ Unchecked(stmt)
    BY <2>1, <2>2 DEF IInv, AllReturn
  <2>4. Members(todo') = {} /\ IsSeq(todo')
    BY <2>1, <2>2
  <2>. QED
    BY <2>1, <2>3, <2>4 DEF IInv, Traced, AllReturn, CrashesOnUndeclared
<1>2. CASE Justified /\ verdict = "checking" /\ todo # <<>> /\ UNCHANGED <<stmt, junk>>
  <2>1. \A c : (Returns(c)' <=> Returns(c)) /\ (Arises(c)' <=> Arises(c))
    BY <1>2, SameMeaning
  <2>2. IsSeq(todo) /\ \A c \in Members(todo) : Arises(c)
    BY DEF IInv, Traced
  <2>3. IsSeq(Tail(todo)) /\ Members(todo) = {Head(todo)} \cup Members(Tail(todo))
    BY <1>2, <2>2, HeadAndTail
  <2>4. ASSUME NEW calls, Replaced(calls) PROVE IInv'
    <3>1. todo' = calls \o Tail(todo) /\ verdict' = verdict /\ IsSeq(calls)
      BY <2>4 DEF Replaced, Becomes
    <3>2. IsSeq(todo') /\ Members(todo') = Members(calls) \cup Members(Tail(todo))
      BY <2>3, <3>1, Concatenated
    <3>3. ~Unchecked(stmt) /\ AllReturn' => AllReturn
      BY <2>1, <2>3, <2>4, <3>2 DEF Replaced, AllReturn
    <3>4. WellTyped(stmt) /\ ~PassesStruct(stmt) /\ AllReturn => AllReturn'
      BY <2>1, <2>3, <2>4, <3>2 DEF Replaced, AllReturn
    <3>5. \A c \in Members(todo') : Arises(c)'
      BY <2>1, <2>2, <2>3, <2>4, <3>2 DEF Replaced
    <3>6. Traced'
      BY <1>2, <3>1, <3>2, <3>5 DEF IInv, Traced
    <3>7. Unchecked(stmt') = Unchecked(stmt) /\ WellTyped(stmt') = WellTyped(stmt)
          /\ PassesStruct(stmt') = PassesStruct(stmt)
      BY <1>2
    <3>. QED
      BY <1>2, <3>1, <3>3, <3>4, <3>6 DEF IInv, CrashesOnUndeclared
  <2>5. ASSUME NEW v, Ended(v) PROVE IInv'
    <3>1. /\ verdict' = v /\ todo' = <<>> /\ v \in {"rejected", "crashed"}
          /\ v = "crashed" => CallsUndeclared(stmt)
      BY <2>5 DEF Ended, Stop
    <3>2. IsSeq(todo') /\ Members(todo') = {}
      BY <3>1, Tuples
    <3>3. ~(WellTyped(stmt) /\ ~PassesStruct(stmt))
      BY <2>3, <2>5 DEF Ended, IInv, AllReturn
    <3>4. Traced'
      BY <1>2, <3>1, <3>2 DEF IInv, Traced
    <3>. QED
      BY <1>2, <3>1, <3>3, <3>4 DEF IInv, CrashesOnUndeclared
  <2>. QED
    BY <1>2, <2>4, <2>5 DEF Justified
<1>3. CASE UNCHANGED vars
  <2>1. stmt' = stmt /\ junk' = junk /\ todo' = todo /\ verdict' = verdict
    BY <1>3 DEF vars
  <2>2. \A c : (Returns(c)' <=> Returns(c)) /\ (Arises(c)' <=> Arises(c))
    BY <2>1, SameMeaning
  <2>3. (AllReturn' <=> AllReturn) /\ Traced'
    BY <2>1, <2>2 DEF AllReturn, Traced, IInv
  <2>. QED
    BY <2>1, <2>3 DEF IInv, CrashesOnUndeclared
<1>. QED
  BY <1>1, <1>2, <1>3, StepJustified DEF IInv

(* The calls that are left stand for the statement at every moment of the  *)
(* check, for every statement, every declaration and expressions of any    *)
(* finite depth.                                                           *)
THEOREM Invariance ==
  ASSUME FiniteTrees
  PROVE  Spec => []IInv
<1>1. Init => IInv
  BY InitIInv
<1>2. IInv /\ [Next]_vars => IInv'
  BY NextIInv
<1>. QED
  BY <1>1, <1>2, PTL DEF Spec

(* Whatever the checks of translation.c let through is typed as in C, but  *)
(* for what Unchecked lists.                                               *)
THEOREM WhatIsAcceptedIsTyped ==
  ASSUME FiniteTrees
  PROVE  Spec => []AcceptedTyped
<1>1. IInv => AcceptedTyped
  BY Tuples DEF IInv, AllReturn, AcceptedTyped
<1>. QED
  BY <1>1, Invariance, PTL

(* A well typed statement is refused only for a call whose struct is an    *)
(* argument or is returned.                                                *)
THEOREM WhatIsTypedIsAccepted ==
  ASSUME FiniteTrees
  PROVE  Spec => []TypedAccepted
<1>1. IInv => TypedAccepted
  BY DEF IInv, TypedAccepted
<1>. QED
  BY <1>1, Invariance, PTL

(* The compiler ends by itself only on a call of what is no function, or on*)
(* an argument that is not declared.                                       *)
THEOREM CrashesExplained ==
  ASSUME FiniteTrees
  PROVE  Spec => []CrashesOnUndeclared
<1>1. IInv => CrashesOnUndeclared
  BY DEF IInv
<1>. QED
  BY <1>1, Invariance, PTL
=============================================================================
