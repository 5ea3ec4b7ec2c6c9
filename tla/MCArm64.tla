------------------------------ MODULE MCArm64 -------------------------------
(* Model checking of Arm64 with cells of one bit: words of 256 values.     *)
EXTENDS Arm64

MCSymbols == [g |-> 40, fmtd |-> 60]

(* The instructions translation.c writes, with immediates and              *)
(* displacements of every size and sign; but for OR, of which arith writes *)
(* orrs, which no assembler takes.                                         *)
MCCode ==
  {Push(o) : o \in {rax, rdx, rbp, r15, r9, Imm(0), Imm(3), Imm(-3), Imm(77)}}
  \cup {Pop(o) : o \in {rax, rsi, rbp, rsp}}
  \cup {Mov(eax, s) : s \in {At("rbp", -4, 4), At("rbp", 16, 4)}}
  \cup {Mov(eax, At("rsp", 0, 4)), Mov(eax, At("rsp", 8, 4)), Mov(ebx, At("rsp", 0, 4)),
        Mov(edi, At("rsp", 0, 4)), Mov(al, At("rbp", -5, 1)), Mov(al, At("g", 3, 1)),
        Mov(bl, AtIndex("rsp", "rax", 1)), Mov(bl, AtIndex("g", "r9", 1)),
        Mov(bl, At("r9", 0, 1)), Mov(AtIndex("g", "r9", 1), bl),
        Mov(AtIndex("rbp", "r9", 1), bl), Mov(At("rsp", 7, 1), al),
        Mov(At("rsp", 4, 4), eax), Mov(At("g", 0, 4), eax), Mov(At("g", 5, 4), Imm(9)),
        Mov(At("rbp", -5, 1), Imm(3)), Mov(At("rbp", -4, 4), Imm(-2)),
        Mov(rax, Imm(0)), Mov(rdx, Imm(0)), Mov(r9, Imm(30)), Mov(r9, rbp), Mov(r9, rsp),
        Mov(r15, rsp), Mov(rbp, rsp), Mov(rsp, rbp), Mov(rdi, Sym("fmtd"))}
  \cup {Lea(rsi, At("rbp", -4, 8)), Lea(rsi, At("g", 0, 8)), Lea(rsi, At("g", 6, 8))}
  \cup {Add(rsp, Imm(v)) : v \in {0, 3, 16}} \cup {Add(rax, rbx), Add(rax, Imm(1))}
  \cup {Sub(rsp, Imm(v)) : v \in {3, 16}} \cup {Sub(rax, rbx), Sub(r9, rax), Sub(r9, Imm(-5))}
  \cup {Imul(rax, rbx), Idiv(rbx), Neg(rax), And(rax, rbx), And(spl, Imm(0))}
  \cup {Cmp(eax, ebx), Cmp(rax, Imm(0)), Cmp(rbx, Imm(0)), Cmp(rax, Imm(20))}
  \cup {Set(cc, al) : cc \in {"eq", "ne", "gt", "lt", "le", "ge"}} \cup {Set("ne", bl)}
  \cup {Jump("eq", "L"), Jump("gt", "L"), Jump("always", "L")}
  \cup {Call("f", 90), Ret, CallC("printf"), CallC("scanf"), Exit}
=============================================================================
