----------------------------- MODULE Assignments ----------------------------
(***************************************************************************)
(* The assignment of a struct (assign_instr and struct_assign) and its     *)
(* copy onto the stack (place_on_top), on the tables that create_table has *)
(* made: the loop copies one byte at a time, to and from the addresses it  *)
(* computes from the offsets in the tables.                                *)
(*                                                                         *)
(* An address is <<"rbp", a>>, a bytes from the frame pointer of the       *)
(* function that runs, or <<x, a>>, a bytes from the global x.  A byte of  *)
(* memory is the address where it was when the assignment began.           *)
(***************************************************************************)
EXTENDS SymbolsTable

CONSTANT
  Registers  \* the names the back end takes for registers (lookup_reg)

ASSUME RegisterAssumption == "rbp" \in Registers

VARIABLES
  fun,   \* the function the assignment is in
  copy,  \* the assignment: its sides, the size and the bytes copied so far
  mem    \* what was written

avars == <<tables, ftypes, current, where, status, decls, fun, copy, mem>>

NoCopy == [phase |-> "none"]

StackRbp(a) == <<"rbp", a>>

(* get_data: the symbol of a name, the function's own first.               *)
InFunction(f, k) == k \in DOMAIN tables[FuncTable(f)].syms
Known(f, k) == InFunction(f, k) \/ k \in DOMAIN tables[Global].syms
GetData(f, k) ==
  IF InFunction(f, k) THEN tables[FuncTable(f)].syms[k]
  ELSE tables[Global].syms[k]

(* A side of a copy: a variable of the function, a global, or the top of   *)
(* the stack, below the locals.                                            *)
Side(f, x) ==
  LET d == GetData(f, Var(x))
  IN  [kind |-> IF InFunction(f, Var(x)) THEN "local" ELSE "global",
       name |-> x, offset |-> d.offset]
Stack(f, size) ==
  [kind |-> "stack", name |-> f, offset |-> tables[FuncTable(f)].max_offset + size]

(* Where byte rax of the source is read, the last byte first.              *)
Source(side, size, rax) ==
  CASE side.kind = "local" ->
         StackRbp(IF side.offset >= 0 THEN -rax - 1 - side.offset
                  ELSE (size - 1) - side.offset - rax)
    [] side.kind = "global" -> <<side.name, (size - 1) - rax>>
    [] side.kind = "stack" -> StackRbp(-side.offset + (size - 1) - rax)

(* Mutant: the bytes are stored in the opposite order.                     *)
TargetReversed(side, size, rax) ==
  CASE side.kind = "local" ->
         StackRbp(IF side.offset >= 0 THEN -(size - rax) - side.offset
                  ELSE -rax - side.offset)
    [] side.kind = "global" -> <<side.name, (size - 1) - rax>>
    [] side.kind = "stack" -> StackRbp(-side.offset + (size - 1) - rax)

(* Mutant: a local is stored one byte too high.                            *)
TargetHigh(side, size, rax) ==
  CASE side.kind = "local" ->
         StackRbp(-rax - side.offset)
    [] side.kind = "global" -> <<side.name, (size - 1) - rax>>
    [] side.kind = "stack" -> StackRbp(-side.offset + (size - 1) - rax)

(* Where byte rax is stored.  A parameter's counts down from its first     *)
(* byte.                                                                   *)
Target(side, size, rax) ==
  CASE side.kind = "local" ->
         StackRbp(IF side.offset >= 0 THEN -rax - 1 - side.offset
                  ELSE -rax - side.offset)
    [] side.kind = "global" -> <<side.name, (size - 1) - rax>>
    [] side.kind = "stack" -> StackRbp(-side.offset + (size - 1) - rax)

Byte(m, a) == IF a \in DOMAIN m THEN m[a] ELSE a

IsStruct(f, x, s) ==
  Known(f, Var(x)) /\ GetData(f, Var(x)).kind = "struct"
                   /\ GetData(f, Var(x)).type = s

Begin(f, from, to, s) ==
  /\ fun' = f
  /\ copy' = [phase |-> "copy", from |-> from, to |-> to, type |-> s,
              size |-> StructSize(s), rax |-> 0]
  /\ UNCHANGED <<tables, ftypes, current, where, status, decls, mem>>

CanBegin(f) == status = "done" /\ copy = NoCopy /\ FuncTable(f) \in DOMAIN tables

(* x = y; compare_types has found the same struct type on both sides.      *)
AssignVariable(f, x, y, s) ==
  /\ CanBegin(f) /\ IsStruct(f, x, s) /\ IsStruct(f, y, s)
  /\ Begin(f, Side(f, y), Side(f, x), s)

(* x = g(); the result is on the top of the stack.                         *)
AssignResult(f, x, s) ==
  /\ CanBegin(f) /\ IsStruct(f, x, s)
  /\ Begin(f, Stack(f, StructSize(s)), Side(f, x), s)

(* y as an argument or a result: SUB rsp, size first.                      *)
PlaceOnTop(f, y, s) ==
  /\ CanBegin(f) /\ IsStruct(f, y, s)
  /\ Begin(f, Side(f, y), Stack(f, StructSize(s)), s)

(* CMP rax, max_offset - 1; JG.                                            *)
LastByte(size) == size - 1

CopyByte ==
  /\ copy.phase = "copy" /\ copy.rax <= LastByte(copy.size)
  /\ mem' = Bind(mem, Target(copy.to, copy.size, copy.rax),
                 Byte(mem, Source(copy.from, copy.size, copy.rax)))
  /\ copy' = [copy EXCEPT !.rax = @ + 1]
  /\ UNCHANGED <<tables, ftypes, current, where, status, decls, fun>>

EndCopy ==
  /\ copy.phase = "copy" /\ copy.rax > LastByte(copy.size)
  /\ copy' = [copy EXCEPT !.phase = "copied"]
  /\ UNCHANGED <<tables, ftypes, current, where, status, decls, fun, mem>>

AssignInit == Init /\ fun \in Fun /\ copy = NoCopy /\ mem = <<>>

AssignNext ==
  \/ Next /\ UNCHANGED <<fun, copy, mem>>
  \/ \E f \in Fun, s \in StructName, x, y \in Id : AssignVariable(f, x, y, s)
  \/ \E f \in Fun, s \in StructName, x \in Id :
        AssignResult(f, x, s) \/ PlaceOnTop(f, x, s)
  \/ CopyByte \/ EndCopy

AssignSpec == AssignInit /\ [][AssignNext]_avars

-----------------------------------------------------------------------------
(* Where the program finds byte k of a field (loc_prim_name,               *)
(* glob_prim_name), or of a struct on the top of the stack.                *)
FieldByte(side, f, k) ==
  LET key == Field(side.name, f) IN
  CASE side.kind = "local" ->
         StackRbp(Address(tables[FuncTable(fun)].syms[key]) + k)
    [] side.kind = "global" -> <<side.name, tables[Global].syms[key].offset + k>>
    [] side.kind = "stack" ->
         StackRbp(-side.offset + tables[StructTable(copy.type)].syms[<<f>>].offset + k)

(* A global whose name the back end takes for a register.                  *)
NamedLikeRegister(side) == side.kind = "global" /\ side.name \in Registers

(* The copies the code is held to: struct parameters come first and are    *)
(* not assigned to, no global is named like a register, and no table of    *)
(* the function or of its struct types started below 0 (README).           *)
Regular ==
  /\ StructFirst(fun)
  /\ copy.to.kind = "local" => copy.to.offset >= 0
  /\ ~NamedLikeRegister(copy.from) /\ ~NamedLikeRegister(copy.to)
  /\ FromZero(FuncTable(fun))
  /\ tables[StructTable(copy.type)].base >= 0

(* After x = y, x.f is what y.f was, for every field f, whatever the sides *)
(* are: the places create_table gave the fields and the order in which the *)
(* loop copies the bytes agree.                                            *)
CopyIsFieldwise ==
  copy.phase = "copied" /\ Regular =>
    \A k \in Fields(tables[StructTable(copy.type)]) :
      \A i \in 0 .. Size(tables[StructTable(copy.type)].syms[k].type) - 1 :
        Byte(mem, FieldByte(copy.to, k[1], i)) = FieldByte(copy.from, k[1], i)

(* Nothing but the target is written: no other variable, no parameter, no  *)
(* saved register, no byte of the source.                                  *)
OthersKept ==
  copy # NoCopy /\ Regular =>
    \A a \in DOMAIN mem :
      IF a[1] # "rbp" THEN copy.to.kind = "global" /\ a[1] = copy.to.name
      ELSE LET t == tables[FuncTable(fun)] IN
           /\ a[2] < 0
           /\ \A x \in Variables(t) :
                \/ copy.to.kind = "local" /\ x = Var(copy.to.name)
                \/ a[2] \notin Bytes(t.syms[x])
=============================================================================
