---------------------------- MODULE Instructions ----------------------------
(***************************************************************************)
(* The instructions translation.c writes with the macros of                *)
(* src/src/translation_utils.h, PUSH, MOV, CMP and the rest, before a back *)
(* end turns them into text; and the cells and words they work on.  A cell *)
(* stands for a byte, an int takes four cells and a register eight.        *)
(***************************************************************************)
EXTENDS Integers, Sequences, Functions

CONSTANTS
  CellValues,    \* how many values a cell has: 256, fewer where TLC computes
  SymbolAddress  \* the address the linker gives to each global symbol

(* How many values n cells have.                                           *)
Power[n \in 0 .. 8] == IF n = 0 THEN 1 ELSE CellValues * Power[n - 1]
Width(n) == Power[n]
IntMod == Width(4)
WordMod == Width(8)
Word == 0 .. WordMod - 1

ASSUME CellAssumption == CellValues \in Nat \ {0, 1}
ASSUME SymbolAssumption == \A s \in DOMAIN SymbolAddress : SymbolAddress[s] \in Word

Signed(v, n) == IF v < Width(n) \div 2 THEN v ELSE v - Width(n)

(* The last bit, and the others.                                           *)
CommonBits[a \in Nat] ==
  [b \in Nat |-> IF a = 0 THEN 0
                ELSE (a % 2) * (b % 2) + 2 * CommonBits[a \div 2][b \div 2]]
BitAnd(a, b) == CommonBits[a][b]

-----------------------------------------------------------------------------
(* Memory: the cells that are not 0.                                       *)

CellAt(m, a) == IF a \in DOMAIN m THEN m[a] ELSE 0

Load(m, a, n) ==
  SumFunction([k \in 0 .. n - 1 |-> CellAt(m, (a + k) % WordMod) * Width(k)])

Store(m, a, n, v) ==
  LET at == [k \in 0 .. n - 1 |-> (a + k) % WordMod]
      cells == {at[k] : k \in 0 .. n - 1}
      new(x) == (v \div Width(CHOOSE k \in 0 .. n - 1 : at[k] = x)) % Width(1)
      kept(x) == IF x \in cells THEN new(x) ELSE m[x]
  IN  [x \in {y \in DOMAIN m \cup cells : kept(y) # 0} |-> kept(x)]

-----------------------------------------------------------------------------
(* Operands and instructions.                                              *)

Registers == {"rax", "rbx", "rdx", "rdi", "rsi", "r9", "r15", "rbp", "rsp"}

Reg(r, n) == [kind |-> "reg", reg |-> r, size |-> n]
Imm(v) == [kind |-> "imm", imm |-> v]
Sym(s) == [kind |-> "sym", sym |-> s]

(* n cells at [base + disp] or [base + index]; base is a register or a     *)
(* symbol.                                                                 *)
At(base, disp, n) ==
  [kind |-> "mem", base |-> base, disp |-> disp, index |-> "none", size |-> n]
AtIndex(base, index, n) ==
  [kind |-> "mem", base |-> base, disp |-> 0, index |-> index, size |-> n]

rax == Reg("rax", 8)
eax == Reg("rax", 4)
al == Reg("rax", 1)
rbx == Reg("rbx", 8)
ebx == Reg("rbx", 4)
bl == Reg("rbx", 1)
rdx == Reg("rdx", 8)
rdi == Reg("rdi", 8)
edi == Reg("rdi", 4)
rsi == Reg("rsi", 8)
r9 == Reg("r9", 8)
r15 == Reg("r15", 8)
rbp == Reg("rbp", 8)
rsp == Reg("rsp", 8)
spl == Reg("rsp", 1)

Push(o) == <<"PUSH", o>>
Pop(r) == <<"POP", r>>
Mov(d, s) == <<"MOV", d, s>>
Lea(d, s) == <<"LEA", d, s>>
Add(d, s) == <<"ADD", d, s>>
Sub(d, s) == <<"SUB", d, s>>
Imul(d, s) == <<"IMUL", d, s>>
Idiv(s) == <<"IDIV", s>>
Neg(d) == <<"NEG", d>>
Cmp(a, b) == <<"CMP", a, b>>
Set(cc, r) == <<"SET", cc, r>>
Jump(cc, label) == <<"JUMP", cc, label>>
And(d, s) == <<"AND", d, s>>
Or(d, s) == <<"OR", d, s>>
Call(f, site) == <<"CALL", f, site>>  \* site: the address after the call
CallC(f) == <<"CALLC", f>>            \* printf or scanf
Ret == <<"RET">>
Exit == <<"SYSCALL">>

(* What the conditions of Set and Jump ask of the last comparison: whether *)
(* its left side was equal (z) or less (l).                                *)
Holds(cc, z, l) ==
  CASE cc = "always" -> TRUE
    [] cc = "eq" -> z
    [] cc = "ne" -> ~z
    [] cc = "gt" -> ~z /\ ~l
    [] cc = "lt" -> l
    [] cc = "le" -> z \/ l
    [] cc = "ge" -> ~l
=============================================================================
