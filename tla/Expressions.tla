----------------------------- MODULE Expressions ----------------------------
(***************************************************************************)
(* The code translation.c writes for an expression, in the statements that *)
(* use one: if and while, the assignment of a primitive, and print.  todo  *)
(* is the code from here on: nodes of the tree that instr has yet to       *)
(* translate and instructions that Machine has yet to execute.             *)
(***************************************************************************)
EXTENDS Machine

CONSTANTS
  Expr,       \* the expressions programs use, with their operands
  Depth,      \* how deep each is nested
  Vars,       \* the variables: [x |-> [type, at]], at an operand of 8 cells
  Envs,       \* bound: the values the variables start with
  Garbage,    \* bound: what rax and unwritten cells may hold, 0 among them
  StackTop,   \* rsp before the statement
  StackLimit  \* the end of the stack

IntTypes == {"int", "char"}
Size(type) == IF type = "int" THEN 4 ELSE 1

(* The values of a type; a char is taken as unsigned.                      *)
ValuesOf(type) ==
  IF type = "int" THEN (IntMod \div 2) - IntMod .. (IntMod \div 2) - 1
  ELSE 0 .. Width(1) - 1

(* A local is addressed from rbp, 8 above rsp, a global by its name.       *)
Location(v) ==
  (IF Vars[v].at.base = "rbp" THEN StackTop + 8 ELSE SymbolAddress[Vars[v].at.base])
    + Vars[v].at.disp
Cells(v) == {Location(v) + k : k \in 0 .. Size(Vars[v].type) - 1}

ASSUME VarsAssumption ==
  \A v \in DOMAIN Vars :
    /\ Vars[v].type \in IntTypes
    /\ Vars[v].at \in [kind : {"mem"}, disp : Int, index : {"none"}, size : {8},
                       base : {"rbp"} \cup (DOMAIN SymbolAddress \ Registers)]
    /\ Cells(v) \subseteq Word \ (StackLimit .. StackTop - 1)
    /\ \A w \in DOMAIN Vars \ {v} : Cells(v) \cap Cells(w) = {}
ASSUME EnvsAssumption ==
  Envs \subseteq {env \in [DOMAIN Vars -> ValuesOf("int") \cup ValuesOf("char")] :
                   \A v \in DOMAIN Vars : env[v] \in ValuesOf(Vars[v].type)}
ASSUME GarbageAssumption == 0 \in Garbage /\ Garbage \subseteq Word

VARIABLES
  stmt,   \* the statement: [kind, expr, var], and the env it starts with
  todo,   \* its code from here on
  dirty   \* were more bytes of a char read than were written?

vars == <<reg, mem, flags, goto, last, stmt, todo, dirty>>

Arith == {"Plus", "Minus", "Prod", "Div", "Mod"}
Compars == {"==", "!=", ">", ">=", "<", "<="}
Gates == {"And", "Or"}
Binary == Arith \cup Compars \cup Gates
Unary == {"UnaryPlus", "UnaryMinus", "Not"}
Literal == {"IntLiteral", "CharLiteral"}

(* What instr finds in the tree.                                           *)
ASSUME ExprAssumption ==
  \A e \in Expr :
    \/ e.kind \in Literal /\ e.val \in ValuesOf("int")
    \/ e.kind = "LValue" /\ e.id \in DOMAIN Vars
    \/ e.kind = "FunctionCall" /\ e.type \in IntTypes /\ e.val \in ValuesOf(e.type)
    \/ e.kind \in Unary /\ e.sub \in Expr /\ Depth[e.sub] < Depth[e]
    \/ /\ e.kind \in Binary /\ {e.left, e.right} \subseteq Expr
       /\ Depth[e.left] < Depth[e] /\ Depth[e.right] < Depth[e]

(* An expression leaves a word on the stack for each level it is nested in. *)
ASSUME StackAssumption ==
  /\ StackLimit \in Nat /\ StackTop \in Nat /\ StackTop + 8 \in Word
  /\ \A e \in Expr : Depth[e] \in Nat /\ StackLimit + 8 * (Depth[e] + 1) <= StackTop
ASSUME FormatAssumption == {"fmtc", "fmtd"} \subseteq DOMAIN SymbolAddress

Node(e) == <<"NODE", e>>

(* Mutant: every variable is written as an int.                            *)
PlaceWide(v) == [Vars[v].at EXCEPT !.size = 4]

(* The operand of a variable, read or written through its own size.        *)
Place(v) == [Vars[v].at EXCEPT !.size = Size(Vars[v].type)]
Acc(type) == IF type = "int" THEN eax ELSE al

-----------------------------------------------------------------------------
(* The code of a statement.                                                *)

IfCode(s) == <<Node(s.expr)>>
             \o <<Pop(rax), Cmp(rax, Imm(0)), Jump("eq", "else")>>

(* prim_assign                                                             *)
AssignCode(s) ==
  LET to == Place(s.var)
      type == Vars[s.var].type
      e == s.expr
  IN  CASE e.kind \in Literal -> <<Mov(to, Imm(e.val))>>
        [] e.kind = "LValue" ->
             <<Mov(Acc(Vars[e.id].type), Place(e.id)), Mov(to, Acc(type))>>
        [] OTHER -> <<Node(e), Pop(rax), Mov(to, Acc(type))>>

(* fmtc for a char literal or variable; printf itself is left out.         *)
Format(e) ==
  IF e.kind = "CharLiteral" \/ (e.kind = "LValue" /\ Vars[e.id].type = "char")
  THEN "fmtc" ELSE "fmtd"

PrintCode(s) == <<Node(s.expr), Pop(rsi), Mov(rax, Imm(0)), Mov(rdi, Sym(Format(s.expr)))>>

StatementCode(s) ==
  CASE s.kind = "If" -> IfCode(s)
    [] s.kind = "Assign" -> AssignCode(s)
    [] s.kind = "Print" -> PrintCode(s)

Statements ==
  [kind : {"If", "Print"}, expr : Expr, var : {"none"}, env : Envs]
    \cup [kind : {"Assign"}, expr : Expr, var : DOMAIN Vars, env : Envs]

(* Memory where each variable holds its value.                             *)
Filled(env) ==
  LET cell(v, k) == <<Location(v) + k, (env[v] \div Width(k)) % Width(1)>>
      all == UNION {{cell(v, k) : k \in 0 .. Size(Vars[v].type) - 1} : v \in DOMAIN Vars}
      cells == {c \in all : c[2] # 0}
  IN  [a \in {c[1] : c \in cells} |-> (CHOOSE c \in cells : c[1] = a)[2]]

Init ==
  /\ stmt \in Statements
  /\ todo = StatementCode(stmt)
  /\ reg \in {[r \in Registers |-> CASE r = "rsp" -> StackTop
                                      [] r = "rbp" -> StackTop + 8
                                      [] r = "rax" -> g
                                      [] OTHER -> 0] : g \in Garbage}
  /\ mem = Filled(stmt.env)
  /\ flags = Unspecified /\ goto = Onward /\ last = <<"START">>
  /\ dirty = FALSE

-----------------------------------------------------------------------------
(* instr: a node is replaced by its code.                                  *)

Translates(kinds) ==
  /\ todo # <<>> /\ Head(todo)[1] = "NODE" /\ Head(todo)[2].kind \in kinds
  /\ UNCHANGED <<reg, mem, flags, goto, last, stmt, dirty>>

Becomes(code) == todo' = code \o Tail(todo)

node == Head(todo)[2]

LiteralInstr == Translates(Literal) /\ Becomes(<<Push(Imm(node.val))>>)

PlaceOnTop ==
  /\ Translates({"LValue"})
  /\ Becomes(<<Mov(Acc(Vars[node.id].type), Place(node.id)), Push(rax)>>)

(* Mutant: only one of the operands is removed.                            *)
BinopPopOne ==
  <<Node(node.left), Node(node.right), Mov(ebx, At("rsp", 0, 4)),
    Mov(eax, At("rsp", 8, 4)), Add(rsp, Imm(8))>>

(* The 4-byte moves clear the upper halves of rax and rbx.                 *)
BinopPop ==
  <<Node(node.left), Node(node.right), Mov(ebx, At("rsp", 0, 4)),
    Mov(eax, At("rsp", 8, 4)), Add(rsp, Imm(16))>>

IntOp ==
  CASE node.kind = "Plus" -> <<Add(rax, rbx), Push(rax)>>
    [] node.kind = "Minus" -> <<Sub(rax, rbx), Push(rax)>>
    [] node.kind = "Prod" -> <<Imul(rax, rbx), Push(rax)>>
    [] node.kind = "Div" -> <<Mov(rdx, Imm(0)), Idiv(rbx), Push(rax)>>
    [] node.kind = "Mod" -> <<Mov(rdx, Imm(0)), Idiv(rbx), Push(rdx)>>

IntBinop == Translates(Arith) /\ Becomes(BinopPop \o IntOp)

IntUnop ==
  /\ Translates({"UnaryPlus", "UnaryMinus"})
  /\ Becomes(<<Node(node.sub)>> \o
             IF node.kind = "UnaryPlus" THEN <<>>
             ELSE <<Pop(rax), Neg(rax), Push(rax)>>)

Condition ==
  CASE node.kind = "==" -> "eq"
    [] node.kind = "!=" -> "ne"
    [] node.kind = ">" -> "gt"
    [] node.kind = ">=" -> "ge"
    [] node.kind = "<" -> "lt"
    [] node.kind = "<=" -> "le"

BoolBinop ==
  /\ Translates(Compars)
  /\ Becomes(BinopPop \o <<Cmp(eax, ebx), Mov(rax, Imm(0)), Set(Condition, al), Push(rax)>>)

(* Mutant: the truth values of the operands are not normalised.            *)
GateOpBits ==
  IF node.kind = "And" THEN <<And(rax, rbx)>> ELSE <<Or(rax, rbx)>>

(* Mutant: the last flags are taken from an addition.                      *)
GateOpAdd ==
  IF node.kind = "And"
  THEN <<Cmp(rax, Imm(0)), Mov(rax, Imm(0)), Set("ne", al),
         Cmp(rbx, Imm(0)), Mov(rbx, Imm(0)), Set("ne", bl), And(rax, rbx)>>
  ELSE <<Add(rax, rbx)>>

GateOp ==
  IF node.kind = "And"
  THEN <<Cmp(rax, Imm(0)), Mov(rax, Imm(0)), Set("ne", al),
         Cmp(rbx, Imm(0)), Mov(rbx, Imm(0)), Set("ne", bl), And(rax, rbx)>>
  ELSE <<Or(rax, rbx)>>

BoolGate ==
  /\ Translates(Gates)
  /\ Becomes(BinopPop \o GateOp \o <<Mov(rax, Imm(0)), Set("ne", al), Push(rax)>>)

NotInstr ==
  /\ Translates({"Not"})
  /\ Becomes(<<Node(node.sub), Pop(rax), Cmp(rax, Imm(0)), Mov(rax, Imm(0)),
               Set("eq", al), Push(rax)>>)

(* return_size                                                             *)
ResultSlot(type) == 8

(* A call leaves its result in the slot it has reserved, of which          *)
(* stack_return writes as many cells as the type has (CallProtocol).       *)
FunctionCall ==
  /\ todo # <<>> /\ Head(todo)[1] = "NODE" /\ node.kind = "FunctionCall"
  /\ \E g, h \in Garbage :
       LET n == Size(node.type)
           top == reg["rsp"] - ResultSlot(node.type)
       IN  /\ mem' = Store(mem, top, 8, g - (g % Width(n)) + (node.val % Width(n)))
           /\ reg' = [reg EXCEPT !["rsp"] = top, !["rax"] = h]
           /\ dirty' = (dirty \/ (g % IntMod) \div Width(n) # 0)
  /\ flags' = Unspecified
  /\ todo' = Tail(todo)
  /\ UNCHANGED <<goto, last, stmt>>

Execute ==
  /\ todo # <<>> /\ Head(todo)[1] # "NODE" /\ ~Stopped
  /\ Evaluates(Head(todo))
  /\ last' = Head(todo)
  /\ todo' = Tail(todo)
  /\ dirty' = (dirty \/ (/\ Head(todo)[1] = "MOV" /\ Head(todo)[2] = al
                         /\ reg'["rax"] >= Width(1)))
  /\ UNCHANGED stmt

Next ==
  \/ LiteralInstr \/ PlaceOnTop \/ IntBinop \/ IntUnop
  \/ BoolBinop \/ BoolGate \/ NotInstr \/ FunctionCall
  \/ Execute

Spec == Init /\ [][Next]_vars

-----------------------------------------------------------------------------
(* What C says of an expression: its value; whether the code can be held   *)
(* to it (ok), which takes IDIV on operands that are not negative and ! on *)
(* an exact one; and whether the 8 bytes pushed are 0 when the int is      *)
(* (exact), which a sum of opposites, a product that overflows and the     *)
(* result of a call are not.                                               *)

Truth(b) == IF b THEN 1 ELSE 0
ToInt(v) == Signed(v % IntMod, 4)

BinaryValue(kind, a, b) ==
  CASE kind = "Plus" -> ToInt(a + b)
    [] kind = "Minus" -> ToInt(a - b)
    [] kind = "Prod" -> ToInt(a * b)
    [] kind = "Div" -> IF b > 0 THEN a \div b ELSE 0
    [] kind = "Mod" -> IF b > 0 THEN a % b ELSE 0
    [] kind = "==" -> Truth(a = b)
    [] kind = "!=" -> Truth(a # b)
    [] kind = ">" -> Truth(a > b)
    [] kind = ">=" -> Truth(a >= b)
    [] kind = "<" -> Truth(a < b)
    [] kind = "<=" -> Truth(a <= b)
    [] kind = "And" -> Truth(a # 0 /\ b # 0)
    [] kind = "Or" -> Truth(a # 0 \/ b # 0)

Out(val, ok, exact) == [val |-> val, ok |-> ok, exact |-> exact]

UnaryInC(kind, s) ==
  CASE kind = "UnaryPlus" -> s
    [] kind = "UnaryMinus" -> [s EXCEPT !.val = ToInt(-@)]
    [] kind = "Not" -> Out(Truth(s.val = 0), s.ok /\ s.exact, TRUE)

BinaryInC(kind, a, b) ==
  LET v == BinaryValue(kind, a.val, b.val)
  IN  Out(v, a.ok /\ b.ok /\ (kind \in {"Div", "Mod"} => a.val >= 0 /\ b.val > 0),
          kind \in {"Plus", "Prod"} /\ v = 0 => a.val = 0 \/ b.val = 0)

InCRule(inC, e, env) ==
  CASE e.kind \in Literal -> Out(e.val, TRUE, TRUE)
    [] e.kind = "LValue" -> Out(env[e.id], TRUE, TRUE)
    [] e.kind = "FunctionCall" -> Out(e.val, TRUE, FALSE)
    [] e.kind \in Unary -> UnaryInC(e.kind, inC[e.sub][env])
    [] e.kind \in Binary -> BinaryInC(e.kind, inC[e.left][env], inC[e.right][env])

InC[e \in Expr] == [env \in Envs |-> InCRule(InC, e, env)]

(* The statement is over.                                                  *)
Ends(kind) == todo = <<>> /\ stmt.kind = kind

-----------------------------------------------------------------------------
(* An expression takes what it needs from below rsp and gives back all but *)
(* its value: the locals and the temporaries of the expression around it   *)
(* are never written, and the statement ends where it began.               *)
StackKept ==
  /\ reg["rsp"] <= StackTop
  /\ todo = <<>> => reg["rsp"] = StackTop
  /\ todo # <<>> =>
       LET start == Filled(stmt.env) IN
       \A a \in DOMAIN mem \cup DOMAIN start :
         a >= StackTop => CellAt(mem, a) = CellAt(start, a)

(* if and while branch as in C when the condition is exact.                *)
BranchAsInC ==
  Ends("If") =>
    LET c == InC[stmt.expr][stmt.env]
    IN  c.ok /\ c.exact /\ ~dirty => (goto = To("else")) = (c.val = 0)

Variables(m) ==
  [v \in DOMAIN Vars |-> Load(m, Address(Vars[v].at), Size(Vars[v].type))]

(* An assignment stores C's value, cut to the variable's size, and changes *)
(* no other variable.                                                      *)
AssignAsInC(c) ==
  Variables(mem) = Variables(Filled([stmt.env EXCEPT ![stmt.var] = c.val]))

(* print hands C's value to printf: an int, of which %c takes the last     *)
(* byte.                                                                   *)
PrintAsInC(c) ==
  LET n == IF reg["rdi"] = SymbolAddress["fmtc"] THEN 1 ELSE 4
  IN  reg["rsi"] % Width(n) = c.val % Width(n)

(* A value that is assigned or printed is C's.                             *)
ValuesAsInC ==
  LET c == InC[stmt.expr][stmt.env] IN
  todo = <<>> /\ c.ok /\ ~dirty =>
    /\ stmt.kind = "Assign" => AssignAsInC(c)
    /\ stmt.kind = "Print" => PrintAsInC(c)

(* The code never depends on what x86-64 and ARM do differently: flags     *)
(* after an addition, IDIV of what is not an int, a trap but for a         *)
(* division by 0 that the expression contains.                             *)
NeverUnspecified ==
  /\ todo # <<>> =>
       LET i == Head(todo) IN
       /\ i[1] \in {"SET", "JUMP"} => Tests(i[2])
       /\ i[1] = "IDIV" => Divides(i[2])
  /\ goto = Trapped => dirty \/ ~InC[stmt.expr][stmt.env].ok

(* As in C, every condition decides the branch by its value.               *)
(* src/README.md:24: "The rest of the syntax is vastly equivalent to that  *)
(* of C."                                                                  *)
EveryBranchAsInC ==
  Ends("If") => (goto = To("else")) = (InC[stmt.expr][stmt.env].val = 0)
=============================================================================
