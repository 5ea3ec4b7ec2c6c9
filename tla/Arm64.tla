------------------------------- MODULE Arm64 --------------------------------
(***************************************************************************)
(* The Darwin back end (src/src/arm64_emit.c): the ARM instructions it     *)
(* writes for each of translation.c's, and a machine that executes them.   *)
(* MachineSpec of Machine is what translation.c may rely on.               *)
(***************************************************************************)
EXTENDS Instructions, SequencesExt

CONSTANTS
  Code,      \* the instructions of the program
  Values,    \* the values the registers and the memory may start with
  MaxImm,    \* the largest immediate of add, sub and cmp: 4095
  MaxSteps   \* bound: the instructions of one run

ASSUME ValuesAssumption == Values \subseteq Word /\ Values # {}
ASSUME BoundAssumption == MaxImm \in Nat /\ MaxSteps \in Nat

VARIABLES
  x,       \* the ARM registers
  mem,     \* the memory, the reserved _tpc_stack_area included
  native,  \* what lies on the C runtime's stack below main's caller, top first
  z, l,    \* the flags
  known,   \* did the last instruction that sets flags on x86-64 set them?
  goto, last, steps

vars == <<x, mem, native, z, l, known, goto, last, steps>>

(* lookup_reg                                                              *)
XReg == [rax |-> "x9", rbx |-> "x10", rdx |-> "x11", rdi |-> "x0",
         rsi |-> "x1", r9 |-> "x12", r15 |-> "x13", rbp |-> "x29",
         rsp |-> "x19"]
X(o) == XReg[o.reg]

XRegs == {XReg[r] : r \in Registers} \cup {"x16", "x17", "x30"}

-----------------------------------------------------------------------------
(* The expansions.  A register may be a w one: the width, 4, is then the   *)
(* last component.                                                         *)

(* emit_mov_imm: movz, then a movk for every other chunk that is not 0.    *)
MovImm(d, v, n) ==
  LET value == v % Width(n)
      part(k) == (value \div Width(2 * k)) % Width(2)
      movk(k) == IF part(k) = 0 THEN <<>> ELSE <<<<"movk", d, part(k), k>>>>
  IN  <<<<"movz", d, part(0)>>>> \o movk(1)
      \o (IF n = 8 THEN movk(2) \o movk(3) ELSE <<>>)

(* emit_add_imm                                                            *)
AddImm(d, s, v) ==
  LET op == IF v < 0 THEN "sub" ELSE "add"
      delta == IF v < 0 THEN -v ELSE v
  IN  IF delta = 0 THEN (IF d = s THEN <<>> ELSE <<<<"mov", d, s, 8>>>>)
      ELSE IF delta <= MaxImm THEN <<<<op \o "i", d, s, delta>>>>
      ELSE MovImm("x17", delta, 8) \o <<<<op, d, s, "x17">>>>

(* load_addr: the address of a memory operand, in x16.                     *)
LoadAddr(o) ==
  (IF o.base \in Registers THEN AddImm("x16", XReg[o.base], o.disp)
   ELSE <<<<"adr", "x16", o.base>>>> \o AddImm("x16", "x16", o.disp))
  \o (IF o.index \in Registers
      THEN <<<<"add", "x16", "x16", XReg[o.index]>>>> ELSE <<>>)

ArmPush(o) ==
  <<<<"subi", "x19", "x19", 8>>>>
  \o (IF o.kind = "imm"
      THEN MovImm("x17", o.imm, 8) \o <<<<"str", "x17", "x19", 8>>>>
      ELSE <<<<"str", X(o), "x19", 8>>>>)

ArmPop(d) ==
  <<<<"ldr", X(d), "x19", 8>>>>
  \o (IF d.reg = "rsp" THEN <<>> ELSE <<<<"addi", "x19", "x19", 8>>>>)

ArmMov(d, s) ==
  CASE d.kind = "reg" /\ s.kind = "reg" -> <<<<"mov", X(d), X(s), d.size>>>>
    [] d.kind = "reg" /\ s.kind = "imm" ->
         MovImm(X(d), s.imm, IF d.size = 8 THEN 8 ELSE 4)
    [] d.kind = "reg" /\ s.kind = "sym" -> <<<<"adr", X(d), s.sym>>>>
    [] d.kind = "reg" /\ s.kind = "mem" ->
         LoadAddr(s) \o <<<<"ldr", X(d), "x16", s.size>>>>
    [] d.kind = "mem" /\ s.kind = "reg" ->
         LoadAddr(d) \o <<<<"str", X(s), "x16", d.size>>>>
    [] d.kind = "mem" /\ s.kind = "imm" ->
         LoadAddr(d) \o MovImm("x17", s.imm % Width(d.size), 4)
         \o <<<<"str", "x17", "x16", d.size>>>>

(* arith: flags are set by and alone, and orr has no form that sets them,  *)
(* though arm_or writes orrs.                                              *)
Arith(op, d, s) ==
  IF s.kind = "imm"
  THEN AddImm(X(d), X(d), IF op = "add" THEN s.imm ELSE -s.imm)
  ELSE <<<<op, X(d), X(d), X(s)>>>>

ArmAnd(d, s) ==
  IF d = spl
  THEN <<<<"andi", "x17", "x19", Width(1) - 1>>,
         <<"andi", "x17", "x17", s.imm>>,
         <<"andi", "x19", "x19", WordMod - Width(1)>>,
         <<"orr", "x19", "x19", "x17">>>>
  ELSE Arith("ands", d, s)

(* Mutant: the remainder is taken after rax has become the quotient.       *)
ArmIdivLate(s) ==
  <<<<"sdiv", "x17", "x9", X(s)>>, <<"mov", "x9", "x17", 8>>,
    <<"msub", "x11", "x17", X(s), "x9">>>>

ArmIdiv(s) ==
  <<<<"sdiv", "x17", "x9", X(s)>>, <<"msub", "x11", "x17", X(s), "x9">>,
    <<"mov", "x9", "x17", 8>>>>

(* An immediate is compared with the whole register.                       *)
ArmCmp(a, b) ==
  IF b.kind = "reg"
  THEN <<<<"cmp", X(a), X(b), IF a.size <= 4 /\ b.size <= 4 THEN 4 ELSE 8>>>>
  ELSE IF b.imm \in 0 .. MaxImm THEN <<<<"cmpi", X(a), b.imm>>>>
  ELSE MovImm("x17", b.imm, 8) \o <<<<"cmp", X(a), "x17", 8>>>>

(* Mutant: the variadic argument is left on the native stack.              *)
ArmCallCLeak(f) == <<<<"subi_sp">>, <<"str_sp", "x1">>, <<"bl", f>>>>

(* printf and scanf take their variadic argument from the native stack.    *)
ArmCallC(f) ==
  <<<<"subi_sp">>, <<"str_sp", "x1">>, <<"bl", f>>, <<"addi_sp">>>>

ArmCall(f, site) ==
  <<<<"subi", "x19", "x19", 8>>>> \o MovImm("x16", site, 8)
  \o <<<<"str", "x16", "x19", 8>>, <<"b", f>>>>

ArmRet ==
  <<<<"ldr", "x16", "x19", 8>>, <<"addi", "x19", "x19", 8>>, <<"br", "x16">>>>

ArmSyscall == <<<<"ldr_sp", "x19">>, <<"ldp_sp">>, <<"ret">>>>

Emit(i) ==
  CASE i[1] = "PUSH" -> ArmPush(i[2])
    [] i[1] = "POP" -> ArmPop(i[2])
    [] i[1] = "MOV" -> ArmMov(i[2], i[3])
    [] i[1] = "LEA" -> LoadAddr(i[3]) \o <<<<"mov", X(i[2]), "x16", 8>>>>
    [] i[1] = "ADD" -> Arith("add", i[2], i[3])
    [] i[1] = "SUB" -> Arith("sub", i[2], i[3])
    [] i[1] = "AND" -> ArmAnd(i[2], i[3])
    [] i[1] = "OR" -> Arith("orrs", i[2], i[3])
    [] i[1] = "IMUL" -> <<<<"mul", X(i[2]), X(i[2]), X(i[3])>>>>
    [] i[1] = "IDIV" -> ArmIdiv(i[2])
    [] i[1] = "NEG" -> <<<<"neg", X(i[2])>>>>
    [] i[1] = "CMP" -> ArmCmp(i[2], i[3])
    [] i[1] = "SET" -> <<<<"cset", X(i[3]), i[2]>>>>
    [] i[1] = "JUMP" -> <<<<"bcond", i[2], i[3]>>>>
    [] i[1] = "CALL" -> ArmCall(i[2], i[3])
    [] i[1] = "CALLC" -> ArmCallC(i[2])
    [] i[1] = "RET" -> ArmRet
    [] i[1] = "SYSCALL" -> ArmSyscall

-----------------------------------------------------------------------------
(* The ARM machine executes an expansion.  c is what a C function leaves   *)
(* in the registers it need not keep, and what scanf reads.                *)

Truncated(a, b) ==
  LET q == (IF a < 0 THEN -a ELSE a) \div (IF b < 0 THEN -b ELSE b)
  IN  IF (a < 0) = (b < 0) THEN q ELSE -q

Alu(op, a, b) ==
  CASE op \in {"add", "addi"} -> a + b
    [] op \in {"sub", "subi"} -> a - b
    [] op \in {"ands", "andi"} -> BitAnd(a, b)
    [] op = "orr" -> a + b - BitAnd(a, b)
    [] op = "mul" -> a * b
    [] op = "sdiv" -> IF b = 0 THEN 0 ELSE Truncated(Signed(a, 8), Signed(b, 8))

CallerSaved == XRegs \ {"x19", "x29"}

Compared(s, a, b, n) ==
  [s EXCEPT !.z = a % Width(n) = b % Width(n),
            !.l = Signed(a % Width(n), n) < Signed(b % Width(n), n)]

Exec(s, a, c) ==
  LET put(r, v) == [s EXCEPT !.x[r] = v % WordMod]
      op == a[1]
  IN
  CASE op \in {"add", "sub", "orr", "mul", "sdiv"} ->
         put(a[2], Alu(op, s.x[a[3]], s.x[a[4]]))
    [] op \in {"addi", "subi", "andi"} -> put(a[2], Alu(op, s.x[a[3]], a[4]))
    [] op = "ands" ->
         LET t == put(a[2], Alu(op, s.x[a[3]], s.x[a[4]]))
         IN  Compared(t, t.x[a[2]], 0, 8)
    [] op = "msub" -> put(a[2], s.x[a[5]] - ((s.x[a[3]] * s.x[a[4]]) % WordMod))
    [] op = "neg" -> put(a[2], -s.x[a[2]])
    [] op = "mov" -> put(a[2], s.x[a[3]] % Width(a[4]))
    [] op = "movz" -> put(a[2], a[3])
    [] op = "movk" ->
         LET old == (s.x[a[2]] \div Width(2 * a[4])) % Width(2)
         IN  put(a[2], s.x[a[2]] + (a[3] - old) * Width(2 * a[4]))
    [] op = "adr" -> put(a[2], SymbolAddress[a[3]])
    [] op = "ldr" -> put(a[2], Load(s.mem, s.x[a[3]], a[4]))
    [] op = "str" ->
         [s EXCEPT !.mem = Store(@, s.x[a[3]], a[4], s.x[a[2]] % Width(a[4]))]
    [] op = "cmp" -> Compared(s, s.x[a[2]], s.x[a[3]], a[4])
    [] op = "cmpi" -> Compared(s, s.x[a[2]], a[3], 8)
    [] op = "cset" -> put(a[2], IF Holds(a[3], s.z, s.l) THEN 1 ELSE 0)
    [] op = "bcond" ->
         IF Holds(a[2], s.z, s.l) THEN [s EXCEPT !.goto = <<"label", a[3]>>] ELSE s
    [] op = "b" -> [s EXCEPT !.goto = <<"label", a[2]>>]
    [] op = "br" -> [s EXCEPT !.goto = <<"address", s.x[a[2]]>>]
    [] op = "subi_sp" -> [s EXCEPT !.native = <<0, 0>> \o @]
    [] op = "str_sp" -> [s EXCEPT !.native[1] = s.x[a[2]]]
    [] op = "bl" ->
         [s EXCEPT !.x = [r \in XRegs |-> IF r \in CallerSaved THEN c ELSE @[r]],
                   !.mem = IF a[2] = "scanf"
                           THEN Store(@, s.native[1], 4, c % IntMod) ELSE @]
    [] op = "addi_sp" -> [s EXCEPT !.native = SubSeq(@, 3, Len(@))]
    [] op = "ldr_sp" -> put(a[2], s.native[3])
    [] op = "ldp_sp" ->
         [s EXCEPT !.x["x29"] = s.native[1], !.x["x30"] = s.native[2],
                   !.native = SubSeq(@, 5, Len(@))]
    [] op = "ret" -> [s EXCEPT !.goto = <<"exit", s.x["x0"] % IntMod>>]

(* What the C runtime expects to find again when main returns.             *)
Caller == [x29 |-> 1, x30 |-> 2, x19 |-> 3]

(* arm_main_enter has saved it; the program has done anything since.       *)
Init ==
  /\ \E a, b \in Values, d \in {0, 1} :
       /\ x = [r \in XRegs |->
                 CASE r = "x9" -> a [] r = "x10" -> b [] r = "x11" -> d
                   [] r = "x19" -> WordMod \div 2 + 7
                   [] r = "x29" -> WordMod \div 2 + 24
                   [] r = "x1" -> WordMod \div 2 + 28
                   [] OTHER -> 2]
       /\ mem = Store(Store(<<>>, WordMod \div 2 + 7, 8, b),
                      WordMod \div 2 + 16, 8, a)
  /\ native = <<Caller.x29, Caller.x30, Caller.x19, 0>>
  /\ z = FALSE /\ l = FALSE /\ known = FALSE
  /\ goto = <<"next">> /\ last = <<"START">> /\ steps = 0

(* The preconditions Machine puts on i.                                    *)
Allowed(i) ==
  /\ i[1] \in {"SET", "JUMP"} => i[2] = "always" \/ known
  /\ i[1] = "IDIV" => /\ x["x11"] = 0
                      /\ {x["x9"], x[X(i[2])]} \subseteq 0 .. WordMod \div 2 - 1

Run(i) ==
  /\ steps < MaxSteps /\ goto[1] # "exit" /\ Allowed(i)
  /\ \E c \in IF i[1] = "CALLC" THEN Values ELSE {0} :
       LET s == FoldLeft(LAMBDA t, a : Exec(t, a, c),
                         [x |-> x, mem |-> mem, native |-> native, z |-> z,
                          l |-> l, goto |-> <<"next">>], Emit(i))
       IN  /\ x' = s.x /\ mem' = s.mem /\ native' = s.native
           /\ z' = s.z /\ l' = s.l /\ goto' = s.goto
  /\ known' = CASE i[1] \in {"CMP", "OR"} -> TRUE
                [] i[1] = "AND" -> i[2].size = 8
                [] i[1] \in {"ADD", "SUB", "IMUL", "NEG", "IDIV", "CALLC"} -> FALSE
                [] OTHER -> known
  /\ last' = i
  /\ steps' = steps + 1

Next == \E i \in Code : Run(i)

Spec == Init /\ [][Next]_vars

-----------------------------------------------------------------------------
M == INSTANCE Machine WITH
       reg <- [r \in Registers |-> x[XReg[r]]],
       flags <- IF known THEN [known |-> TRUE, z |-> z, l |-> l]
                ELSE [known |-> FALSE]

(* Every expansion does what translation.c means by the instruction, with  *)
(* x16 and x17 as its only scratch registers, whatever came before.        *)
MeansTheSame == M!MachineSpec

(* Whatever the program and the C functions it calls do, main's frame is   *)
(* all that the native stack holds between two instructions, so that sp    *)
(* stays aligned to 16 bytes, and main returns to the C runtime with the   *)
(* registers and the stack it got.                                         *)
ExitRestores ==
  IF goto[1] = "exit" THEN native = <<>> /\ \A r \in DOMAIN Caller : x[r] = Caller[r]
  ELSE native = <<Caller.x29, Caller.x30, Caller.x19, 0>>
=============================================================================
