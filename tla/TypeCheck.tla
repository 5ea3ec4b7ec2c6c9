----------------------------- MODULE TypeCheck ------------------------------
(***************************************************************************)
(* The checks translation.c makes while it translates one statement: they  *)
(* are spread over the functions that emit its code, each of which stops   *)
(* the compilation (rejected) or leads to the next.  todo holds the calls  *)
(* that are left, in their order.                                          *)
(***************************************************************************)
EXTENDS Naturals, Sequences

CONSTANTS
  Locals, Globals,  \* the two tables: what each name is declared as
  Owner,            \* the names with a dot, a.b, and the variable a of each
  Structs,          \* the names of the struct tables
  Expr,             \* the expressions, with their operands
  Stmt              \* the statements: [kind, ...], see below

(* The type of a variable, field or parameter: get_table_by_name has found *)
(* its struct when it was declared.                                        *)
VarType ==
  [kind : {"Prim"}, type : {"int", "char"}] \cup [kind : {"Struct"}, struct : Structs]

(* The type of a function.  Nobody has looked up the struct it returns.    *)
IsFunction(d) ==
  /\ d.kind = "Function" /\ d.no_ret \in BOOLEAN /\ d.args \in Seq(VarType)
  /\ ~d.no_ret => d.ret \in VarType \/ d.ret.kind = "Struct"

(* A name has one declaration in a table.  add_typesvars puts a.b, for     *)
(* every field b, into the table it has put the struct variable a into,    *)
(* under a name of its own.                                                *)
ASSUME TablesAssumption ==
  /\ \A x \in DOMAIN Locals : Locals[x] \in VarType
  /\ \A x \in DOMAIN Globals :
       \/ Globals[x] \in VarType
       \/ Globals[x].kind = "DeclStruct" /\ x \in Structs
       \/ IsFunction(Globals[x]) /\ Globals[x].name = x /\ x \notin Structs
  /\ \A table \in {Locals, Globals} : \A x \in DOMAIN Owner \cap DOMAIN table :
       /\ table[x] \in VarType
       /\ Owner[x] \in DOMAIN table /\ table[Owner[x]].kind = "Struct"

Literal == {"IntLiteral", "CharLiteral"}

ASSUME ExprAssumption ==
  \A e \in Expr :
    \/ e.kind \in Literal \cup {"LValue"}
    \/ e.kind = "Binop" /\ e.left \in Expr /\ e.right \in Expr
    \/ e.kind = "Unop" /\ e.sub \in Expr
    \/ e.kind = "FunctionCall" /\ e.args \in Seq(Expr)

(* A return has the function it is in.                                     *)
ASSUME StmtAssumption ==
  \A s \in Stmt :
    \/ s.kind \in {"Print", "If", "While", "SuiteInstr", "Assign"} /\ s.expr \in Expr
    \/ /\ s.kind = "Return" /\ (s.expr.kind = "Void" \/ s.expr \in Expr)
       /\ s.func \in DOMAIN Globals /\ IsFunction(Globals[s.func])
    \/ s.kind \in {"Reade", "Readc"}

VARIABLES
  stmt,     \* the statement
  junk,     \* what to_tpc and to_tpc_ftype leave unwritten in a symbol
  todo,     \* the calls to come
  verdict   \* of the compiler

vars == <<stmt, junk, todo, verdict>>

Missing == [kind |-> "Missing"]

IsPrim(e) == <<"IsPrim", e>>
Instr(e, eff) == <<"Instr", e, eff>>
Compare(data, e) == <<"Compare", data, e>>
StructAssign(data, e) == <<"StructAssign", data, e>>
Table(name) == <<"Table", name>>
Check(call, n) == <<"Check", call, n>>

InTable(table, id) == IF id \in DOMAIN table THEN table[id] ELSE Missing

(* Mutant: the global table comes first.                                   *)
GetDataGlobal(id) ==
  IF id \in DOMAIN Globals THEN Globals[id] ELSE InTable(Locals, id)

(* get_data, and every place that looks in both tables itself: a.b is one  *)
(* name like any other.                                                    *)
GetData(id) ==
  IF id \in DOMAIN Locals THEN Locals[id] ELSE InTable(Globals, id)

Ret(f) == IF f.no_ret THEN junk ELSE f.ret

(* u.struct_name, which for a function is its own name in the union.       *)
StructName(d) ==
  CASE d.kind = "Struct" -> d.struct
    [] d.kind = "Function" -> d.name
    [] d.kind = "DeclStruct" -> junk.struct

-----------------------------------------------------------------------------
Start(s) ==
  CASE s.kind \in {"Print", "If", "While"} -> <<IsPrim(s.expr), Instr(s.expr, s.kind)>>
    [] s.kind = "SuiteInstr" -> <<Instr(s.expr, "SuiteInstr")>>
    [] OTHER -> <<<<s.kind>>>>

Init ==
  /\ stmt \in Stmt
  /\ junk \in [kind : {"Prim", "Struct"}, struct : Structs \cup {"?"}]
  /\ todo = Start(stmt)
  /\ verdict = "checking"

Calls(f) ==
  /\ verdict = "checking" /\ todo # <<>> /\ Head(todo)[1] = f
  /\ UNCHANGED <<stmt, junk>>

CallsInstr(kinds) == Calls("Instr") /\ Head(todo)[2].kind \in kinds

arg == Head(todo)[2]
eff == Head(todo)[3]

Becomes(calls) == todo' = calls \o Tail(todo) /\ UNCHANGED verdict

(* raise(SIGUSR1), an assert that fails or a NULL that is dereferenced.    *)
Stop(v) == verdict' = v /\ todo' = <<>>

PassIf(ok) == IF ok THEN Becomes(<<>>) ELSE Stop("rejected")

-----------------------------------------------------------------------------
(* is_prim and the error of its callers.                                   *)
CheckPrim ==
  /\ Calls("IsPrim")
  /\ PassIf(arg.kind \in {"LValue", "FunctionCall"} =>
              LET d == GetData(arg.id)
              IN  d.kind = "Prim" \/ (d.kind = "Function" /\ Ret(d).kind = "Prim"))

(* instr of an expression: one whose value is not used is not looked at.   *)

InstrLiteral == CallsInstr(Literal \cup {"Void"}) /\ Becomes(<<>>)

InstrBinop ==
  /\ CallsInstr({"Binop"})
  /\ Becomes(IF eff = "SuiteInstr" THEN <<>>
             ELSE <<IsPrim(arg.left), IsPrim(arg.right),
                    Instr(arg.left, eff), Instr(arg.right, eff)>>)

InstrUnop ==
  /\ CallsInstr({"Unop"})
  /\ Becomes(IF eff = "SuiteInstr" THEN <<>>
             ELSE <<IsPrim(arg.sub), Instr(arg.sub, eff)>>)

(* place_on_top: the bytes of a struct are counted in its table.           *)
PlaceOnTop ==
  /\ CallsInstr({"LValue"})
  /\ LET d == GetData(arg.id) IN
     CASE eff = "SuiteInstr" \/ d.kind = "Prim" -> Becomes(<<>>)
       [] eff # "SuiteInstr" /\ d = Missing -> Stop("rejected")
       [] OTHER -> Becomes(<<Table(StructName(d))>>)

GetTableByName == Calls("Table") /\ PassIf(arg \in Structs)

(* stack_param translates the last argument first.                         *)
StackParam(call) ==
  LET n == Len(call.args)
  IN  [i \in 1 .. n |-> Instr(call.args[n + 1 - i], "FunctionCall")]

(* functioncall_instr, the callee being a function.                        *)
FunctionCall ==
  /\ CallsInstr({"FunctionCall"})
  /\ LET f == InTable(Globals, arg.id) IN
     /\ f.kind = "Function"
     /\ Becomes(<<Check(arg, 1)>>
                \o (IF f.no_ret \/ f.ret.kind = "Prim" THEN <<>> ELSE <<Table(f.ret.struct)>>)
                \o StackParam(arg))

(* Another name: the assert fails, or argc and the types are read from     *)
(* what the union holds of something else.                                 *)
CallOther ==
  /\ CallsInstr({"FunctionCall"})
  /\ LET f == InTable(Globals, arg.id) IN
     /\ f.kind # "Function"
     /\ \/ Stop("crashed")
        \/ f # Missing /\ Stop("rejected")
        \/ f # Missing /\ Becomes(StackParam(arg))

(* Mutant: the arguments are looked for among the globals only.            *)
ArgumentDataGlobal(id) == InTable(Globals, id)

(* functioncall_check's own look-up.                                       *)
ArgumentData(id) == GetData(id)

(* n_type fits the parameter's type; all but a variable counts as a        *)
(* primitive.                                                              *)
ArgumentFits(a, type) ==
  LET d == IF a.kind = "LValue" THEN ArgumentData(a.id) ELSE [kind |-> "Prim"]
  IN  IF type.kind = "Prim" THEN d.kind = "Prim"
      ELSE d.kind # "Prim" /\ StructName(d) = type.struct

(* functioncall_check, the n-th turn of its loop or what comes after it.   *)
FunctionCallCheck ==
  /\ Calls("Check")
  /\ LET n == Head(todo)[3]
         args == arg.args
         types == Globals[arg.id].args
     IN  CASE n > Len(args) -> PassIf(Len(types) <= Len(args))
           [] n <= Len(args) /\ n > Len(types) -> Stop("rejected")
           [] OTHER ->
                IF args[n].kind = "LValue" /\ ArgumentData(args[n].id) = Missing
                THEN Stop("crashed")
                ELSE IF ArgumentFits(args[n], types[n])
                     THEN Becomes(<<Check(arg, n + 1)>>) ELSE Stop("rejected")

(* compare_types on what both sides are declared as.                       *)
Matches(l, r) ==
  /\ r.kind = "Function" => ~r.no_ret
  /\ CASE l.kind = "Prim" ->
            r.kind = "Prim" \/ (r.kind = "Function" /\ Ret(r).kind = "Prim")
       [] l.kind = "Function" ->
            IF r.kind = "Prim" THEN Ret(l).kind = "Prim"
            ELSE Ret(l).kind = "Struct" /\ Ret(l).struct = StructName(r)
       [] OTHER ->
            CASE r.kind = "Prim" -> FALSE
              [] r.kind = "Struct" -> StructName(l) = r.struct
              [] r.kind = "Function" ->
                   Ret(r).kind = "Struct" /\ StructName(l) = Ret(r).struct
              [] r.kind = "DeclStruct" -> TRUE

CompareTypes ==
  /\ Calls("Compare")
  /\ LET r == GetData(Head(todo)[3].id)
     IN  PassIf(r # Missing /\ Matches(arg, r))

(* assign_instr, the left side being a primitive: prim_assign.             *)
AssignPrim ==
  /\ Calls("Assign") /\ GetData(stmt.left).kind = "Prim"
  /\ LET e == stmt.expr IN
     Becomes(CASE e.kind \in Literal -> <<>>
               [] e.kind = "LValue" -> <<Compare(GetData(stmt.left), e)>>
               [] e.kind = "FunctionCall" ->
                    <<Compare(GetData(stmt.left), e), Instr(e, "Assign")>>
               [] OTHER -> <<Instr(e, "Assign")>>)

(* assign_instr, the left side being anything else.                        *)
AssignStruct ==
  /\ Calls("Assign") /\ GetData(stmt.left).kind # "Prim"
  /\ LET e == stmt.expr
         d == GetData(stmt.left)
     IN  IF d = Missing \/ (e.kind = "FunctionCall" /\ GetData(e.id) = Missing)
         THEN Stop("rejected")
         ELSE Becomes((IF e.kind = "FunctionCall" THEN <<Instr(e, "Assign")>> ELSE <<>>)
                      \o <<StructAssign(d, e)>>)

(* struct_assign, before its copy.                                         *)
CheckStructAssign ==
  /\ Calls("StructAssign")
  /\ LET e == Head(todo)[3]
     IN  IF e.kind \notin {"LValue", "FunctionCall"} THEN Stop("rejected")
         ELSE Becomes(<<Compare(arg, e), Table(StructName(arg))>>)

(* Mutant: a function that returns a struct is forgotten.                  *)
ReturnLiteralAny(f) == TRUE

(* return_check of anything but a variable.                                *)
ReturnLiteral(f) == f.ret.kind = "Prim"

ReturnCheck ==
  /\ Calls("Return")
  /\ LET f == Globals[stmt.func]
         e == stmt.expr
     IN  IF f.no_ret
         THEN IF e.kind = "Void" THEN Becomes(<<Instr(e, "Return")>>) ELSE Stop("rejected")
         ELSE IF e.kind = "LValue"
              THEN Becomes(<<Compare(f, e), Instr(e, "Return")>>)
              ELSE IF ReturnLiteral(f) THEN Becomes(<<Instr(e, "Return")>>)
                   ELSE Stop("rejected")

ReadInstr ==
  /\ \/ Calls("Reade") /\ PassIf(GetData(stmt.left) = [kind |-> "Prim", type |-> "int"])
     \/ Calls("Readc") /\ PassIf(GetData(stmt.left) = [kind |-> "Prim", type |-> "char"])

(* The statement's code is written.                                        *)
Accept ==
  /\ verdict = "checking" /\ todo = <<>>
  /\ verdict' = "accepted"
  /\ UNCHANGED <<stmt, junk, todo>>

Next ==
  \/ CheckPrim \/ InstrLiteral \/ InstrBinop \/ InstrUnop \/ PlaceOnTop
  \/ GetTableByName \/ FunctionCall \/ CallOther \/ FunctionCallCheck
  \/ CompareTypes \/ AssignPrim \/ AssignStruct \/ CheckStructAssign
  \/ ReturnCheck \/ ReadInstr \/ Accept

Spec == Init /\ [][Next]_vars

-----------------------------------------------------------------------------
(* The type C gives an expression.  char and int convert to each other;    *)
(* a struct that is not declared is no type of a result.                   *)
Prim == <<"prim">>
Void == <<"void">>
Error == <<"error">>
Struct(name) == <<"struct", name>>

(* What declares a name: of a.b, what declares a.                          *)
Declarator(id) == IF id \in DOMAIN Owner THEN Owner[id] ELSE id

(* What C means by a name: the innermost declaration, where a.b is a field *)
(* of the variable that a means there, if it has such a field.             *)
Denotes(id) ==
  IF Declarator(id) \in DOMAIN Locals THEN InTable(Locals, id) ELSE InTable(Globals, id)

(* A field of a global variable where a local of that name hides it.       *)
HiddenField(id) ==
  id \in DOMAIN Globals \ DOMAIN Locals /\ Declarator(id) \in DOMAIN Locals

TypeOf(t) ==
  CASE t.kind = "Prim" -> Prim
    [] t.kind # "Prim" /\ t.struct \in Structs -> Struct(t.struct)
    [] OTHER -> Error

(* The type of e, given those of its parts.                                *)
TypeRule(types, e) ==
  CASE e.kind \in Literal -> Prim
    [] e.kind = "LValue" ->
         LET d == Denotes(e.id)
         IN  IF d.kind \in {"Prim", "Struct"} THEN TypeOf(d) ELSE Error
    [] e.kind = "Binop" ->
         IF types[e.left] = Prim /\ types[e.right] = Prim THEN Prim ELSE Error
    [] e.kind = "Unop" -> IF types[e.sub] = Prim THEN Prim ELSE Error
    [] e.kind = "FunctionCall" ->
         LET f == Denotes(e.id) IN
         CASE f.kind # "Function" -> Error
           [] f.kind = "Function" /\ ~(/\ Len(e.args) = Len(f.args)
                                       /\ \A i \in DOMAIN e.args :
                                            types[e.args[i]] = TypeOf(f.args[i])) -> Error
           [] OTHER -> IF f.no_ret THEN Void ELSE TypeOf(f.ret)

CType[e \in Expr] == TypeRule(CType, e)

WellTyped(s) ==
  CASE s.kind \in {"Print", "If", "While"} -> CType[s.expr] = Prim
    [] s.kind = "SuiteInstr" -> CType[s.expr] # Error
    [] s.kind = "Assign" ->
         Denotes(s.left).kind \in {"Prim", "Struct"} /\ CType[s.expr] = TypeOf(Denotes(s.left))
    [] s.kind = "Return" ->
         IF Globals[s.func].no_ret THEN s.expr.kind = "Void"
         ELSE /\ s.expr.kind # "Void" /\ CType[s.expr] # Error
              /\ CType[s.expr] = TypeOf(Globals[s.func].ret)
    [] s.kind = "Reade" -> Denotes(s.left) = [kind |-> "Prim", type |-> "int"]
    [] s.kind = "Readc" -> Denotes(s.left) = [kind |-> "Prim", type |-> "char"]

(* The expressions an expression consists of, and all that are within it,  *)
(* itself included.                                                        *)
Parts(e) ==
  CASE e.kind = "Binop" -> {e.left, e.right}
    [] e.kind = "Unop" -> {e.sub}
    [] e.kind = "FunctionCall" -> {e.args[i] : i \in DOMAIN e.args}
    [] OTHER -> {}

WithinRule(within, e) == {e} \cup UNION {within[p] : p \in Parts(e)}

Within[e \in Expr] == WithinRule(Within, e)

Used(s) == IF s.kind \in {"Reade", "Readc"} \/ s.expr.kind = "Void" THEN {} ELSE Within[s.expr]
CallsOf(s) == {e \in Used(s) : e.kind = "FunctionCall"}
IsCall(e) == e.kind = "FunctionCall"
Operands(e) == IF IsCall(e) THEN {} ELSE Parts(e)
IsVoid(e) == IsCall(e) /\ Denotes(e.id).kind = "Function" /\ Denotes(e.id).no_ret

(* What the code does not look at: a value nobody uses; the result of a    *)
(* call that is returned or passed, which counts as an int; return; in a   *)
(* function with a result; the type of a void result, never written; the   *)
(* name of a struct type or function used as a variable, or the reverse;   *)
(* the a of a.b, which is the field of a global a whatever a local a is.   *)
Unchecked(s) ==
  \/ s.kind = "SuiteInstr" /\ ~IsCall(s.expr)
  \/ \E c \in CallsOf(s) : \E i \in DOMAIN c.args : IsCall(c.args[i])
  \/ s.kind = "Return" /\ (IsCall(s.expr) \/ s.expr.kind = "Void")
  \/ \E e \in Used(s) : \E o \in Operands(e) : IsVoid(o)
  \/ s.kind \in {"Print", "If", "While"} /\ IsVoid(s.expr)
  \/ \E e \in Used(s) : e.kind = "LValue" /\ Denotes(e.id).kind = "DeclStruct"
  \/ s.kind = "Assign" /\ Denotes(s.left).kind = "DeclStruct"
  \/ s.kind = "Assign" /\ s.expr.kind = "LValue" /\ Denotes(s.expr.id).kind = "Function"
  \/ \E c \in CallsOf(s) : Denotes(c.id).kind # "Function"
  \/ \E e \in Used(s) : e.kind = "LValue" /\ HiddenField(e.id)
  \/ s.kind \in {"Assign", "Reade", "Readc"} /\ HiddenField(s.left)

(* A call whose struct is an argument or is returned.                      *)
PassesStruct(s) ==
  \/ \E c \in CallsOf(s) : \E i \in DOMAIN c.args :
       IsCall(c.args[i]) /\ CType[c.args[i]][1] = "struct"
  \/ s.kind = "Return" /\ IsCall(s.expr) /\ CType[s.expr][1] = "struct"

(* A call of what is no function, or an argument that is not declared.     *)
CallsUndeclared(s) ==
  \E c \in CallsOf(s) :
    \/ InTable(Globals, c.id).kind # "Function"
    \/ \E i \in DOMAIN c.args : c.args[i].kind = "LValue" /\ Denotes(c.args[i].id) = Missing

-----------------------------------------------------------------------------
(* The checks of a dozen functions add up: what they let through is typed  *)
(* as in C, but for what Unchecked lists.                                  *)
AcceptedTyped == verdict = "accepted" /\ ~Unchecked(stmt) => WellTyped(stmt)

(* A well typed statement is never refused, except for a call whose struct *)
(* is an argument or is returned.                                          *)
TypedAccepted ==
  verdict \in {"rejected", "crashed"} /\ WellTyped(stmt) => PassesStruct(stmt)

(* The compiler ends with a diagnostic and not by itself, unless the name  *)
(* of a function, or of a variable passed to one, is not declared as such. *)
CrashesOnUndeclared == verdict = "crashed" => CallsUndeclared(stmt)
=============================================================================
