------------------------------ MODULE Machine ------------------------------
(***************************************************************************)
(* What translation.c may rely on: the meaning of its instructions as both *)
(* back ends give it.  The ELF one (src/src/elf64_emit.c) writes each as   *)
(* the x86-64 instruction of the same name; where the Darwin one           *)
(* (src/src/arm64_emit.c) means less or something else, this machine       *)
(* leaves the choice open.                                                 *)
(***************************************************************************)
EXTENDS Instructions

CONSTANT Code  \* the instructions of the program

VARIABLES
  reg,    \* the registers
  mem,    \* the memory
  flags,  \* what the last comparison left, or Unspecified
  goto,   \* where control goes next, see below
  last    \* the instruction executed last

machine == <<reg, mem, flags, goto, last>>

Unspecified == [known |-> FALSE]
Flags(z, l) == [known |-> TRUE, z |-> z, l |-> l]

(* Where control goes: to the instruction that follows, to a label or a    *)
(* function, to an address popped by RET, or nowhere.                      *)
Onward == <<"next">>
To(label) == <<"label", label>>
Back(address) == <<"address", address>>
Exited(code) == <<"exit", code>>
Trapped == <<"trap">>

Address(o) ==
  ((IF o.base \in Registers THEN reg[o.base] ELSE SymbolAddress[o.base])
    + o.disp + (IF o.index \in Registers THEN reg[o.index] ELSE 0)) % WordMod

Value(o) ==
  CASE o.kind = "reg" -> reg[o.reg] % Width(o.size)
    [] o.kind = "imm" -> o.imm % WordMod
    [] o.kind = "sym" -> SymbolAddress[o.sym]
    [] o.kind = "mem" -> Load(mem, Address(o), o.size)

(* Writing 4 cells of a register clears the others.  Writing one cell      *)
(* keeps the others on x86-64; ldrb and cset of ARM clear them.            *)
SetReg(o, v) ==
  \E upper \in IF o.size = 1 THEN {0, reg[o.reg] - (reg[o.reg] % Width(1))}
               ELSE {0} :
    reg' = [reg EXCEPT ![o.reg] = upper + v]

Falls == goto' = Onward

DoPush(o) ==
  LET top == (reg["rsp"] - 8) % WordMod
  IN  /\ mem' = Store(mem, top, 8, Value(o))
      /\ reg' = [reg EXCEPT !["rsp"] = top]
      /\ Falls /\ UNCHANGED flags

(* POP rsp takes the value for the new stack pointer.                      *)
DoPop(d) ==
  /\ reg' = [[reg EXCEPT !["rsp"] = (@ + 8) % WordMod]
               EXCEPT ![d.reg] = Load(mem, reg["rsp"], 8)]
  /\ Falls /\ UNCHANGED <<mem, flags>>

DoMov(d, s) ==
  /\ LET v == Value(s) % Width(d.size)
     IN  IF d.kind = "reg" THEN SetReg(d, v) /\ UNCHANGED mem
         ELSE mem' = Store(mem, Address(d), d.size, v) /\ UNCHANGED reg
  /\ Falls /\ UNCHANGED flags

DoLea(d, s) ==
  /\ reg' = [reg EXCEPT ![d.reg] = Address(s)]
  /\ Falls /\ UNCHANGED <<mem, flags>>

(* The ARM add, sub, mul and neg leave the flags alone.                    *)
Computes(d, v) ==
  /\ reg' = [reg EXCEPT ![d.reg] = v % WordMod]
  /\ flags' = Unspecified
  /\ Falls /\ UNCHANGED mem

(* Divides rdx:rax by s.  The ARM code takes rax alone, so rdx must be 0   *)
(* and neither may look negative.  x86-64 traps on a divisor 0; sdiv gives *)
(* quotient 0.                                                             *)
Divides(s) == reg["rdx"] = 0 /\ {reg["rax"], Value(s)} \subseteq 0 .. WordMod \div 2 - 1

DoIdiv(s) ==
  LET a == reg["rax"]
      b == Value(s)
      quotient == IF b = 0 THEN 0 ELSE a \div b
  IN  /\ Divides(s)
      /\ \/ /\ reg' = [reg EXCEPT !["rax"] = quotient,
                                  !["rdx"] = a - quotient * b]
            /\ Falls
         \/ b = 0 /\ goto' = Trapped /\ UNCHANGED reg
      /\ flags' = Unspecified
      /\ UNCHANGED mem

DoCmp(a, b) ==
  LET v == Value(a)
      w == Value(b) % Width(a.size)
  IN  /\ flags' = Flags(v = w, Signed(v, a.size) < Signed(w, a.size))
      /\ Falls /\ UNCHANGED <<reg, mem>>

(* AND rax, rbx and OR compare their result with 0; AND spl does not.      *)
DoAnd(d, s) ==
  LET v == BitAnd(Value(d), Value(s))
  IN  /\ reg' = [reg EXCEPT ![d.reg] = @ - (@ % Width(d.size)) + v]
      /\ flags' = IF d.size = 1 THEN Unspecified
                  ELSE Flags(v = 0, Signed(v, 8) < 0)
      /\ Falls /\ UNCHANGED mem

DoOr(d, s) ==
  LET v == Value(d) + Value(s) - BitAnd(Value(d), Value(s))
  IN  /\ reg' = [reg EXCEPT ![d.reg] = v]
      /\ flags' = Flags(v = 0, Signed(v, 8) < 0)
      /\ Falls /\ UNCHANGED mem

Tests(cc) == cc = "always" \/ flags.known

Met(cc) == cc = "always" \/ Holds(cc, flags.z, flags.l)

DoSet(cc, d) ==
  /\ Tests(cc)
  /\ SetReg(d, IF Met(cc) THEN 1 ELSE 0)
  /\ Falls /\ UNCHANGED <<mem, flags>>

DoJump(cc, label) ==
  /\ Tests(cc)
  /\ goto' = IF Met(cc) THEN To(label) ELSE Onward
  /\ UNCHANGED <<reg, mem, flags>>

DoCall(f, site) ==
  LET top == (reg["rsp"] - 8) % WordMod
  IN  /\ mem' = Store(mem, top, 8, site)
      /\ reg' = [reg EXCEPT !["rsp"] = top]
      /\ goto' = To(f) /\ UNCHANGED flags

DoRet ==
  /\ goto' = Back(Load(mem, reg["rsp"], 8))
  /\ reg' = [reg EXCEPT !["rsp"] = (@ + 8) % WordMod]
  /\ UNCHANGED <<mem, flags>>

(* A C function keeps rsp, rbp and what is from rsp up, but for what scanf *)
(* stores at rsi; the Darwin one also keeps what is below.                 *)
DoCallC(f) ==
  /\ \E n \in {1, 4} : \A a \in DOMAIN mem \cup DOMAIN mem' :
       \/ a < reg["rsp"]
       \/ f = "scanf" /\ (a - reg["rsi"]) % WordMod < n
       \/ CellAt(mem', a) = CellAt(mem, a)
  /\ reg' \in [Registers -> Word]
  /\ \A r \in {"rsp", "rbp"} : reg'[r] = reg[r]
  /\ flags' = Unspecified
  /\ Falls

(* exit(edi); no instruction follows.                                      *)
DoExit ==
  /\ goto' = Exited(reg["rdi"] % IntMod)
  /\ reg' \in [Registers -> Word]
  /\ UNCHANGED <<mem, flags>>

Stopped == goto[1] \in {"exit", "trap"}

(* The instructions of expressions.                                        *)
Evaluates(i) ==
  \/ i[1] = "PUSH" /\ DoPush(i[2])
  \/ i[1] = "POP" /\ DoPop(i[2])
  \/ i[1] = "MOV" /\ DoMov(i[2], i[3])
  \/ i[1] = "ADD" /\ Computes(i[2], Value(i[2]) + Value(i[3]))
  \/ i[1] = "SUB" /\ Computes(i[2], Value(i[2]) - Value(i[3]))
  \/ i[1] = "IMUL" /\ Computes(i[2], Value(i[2]) * Value(i[3]))
  \/ i[1] = "NEG" /\ Computes(i[2], -Value(i[2]))
  \/ i[1] = "IDIV" /\ DoIdiv(i[2])
  \/ i[1] = "CMP" /\ DoCmp(i[2], i[3])
  \/ i[1] = "SET" /\ DoSet(i[2], i[3])
  \/ i[1] = "JUMP" /\ DoJump(i[2], i[3])
  \/ i[1] = "AND" /\ DoAnd(i[2], i[3])
  \/ i[1] = "OR" /\ DoOr(i[2], i[3])

(* Those of calls, structs and input.                                      *)
Leaves(i) ==
  \/ i[1] = "LEA" /\ DoLea(i[2], i[3])
  \/ i[1] = "CALL" /\ DoCall(i[2], i[3])
  \/ i[1] = "CALLC" /\ DoCallC(i[2])
  \/ i[1] = "RET" /\ DoRet
  \/ i[1] = "SYSCALL" /\ DoExit

(* Any program of the instructions of Code, from any state.                *)
MachineInit ==
  /\ reg \in [Registers -> Word]
  /\ DOMAIN mem \subseteq Word
  /\ \A a \in DOMAIN mem : mem[a] \in 0 .. Width(1) - 1
  /\ flags = Unspecified
  /\ goto = Onward
  /\ last = <<"START">>

MachineNext ==
  ~Stopped /\ \E i \in Code : last' = i /\ (Evaluates(i) \/ Leaves(i))

MachineSpec == MachineInit /\ [][MachineNext]_machine
=============================================================================
