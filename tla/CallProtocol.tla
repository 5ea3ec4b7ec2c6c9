---------------------------- MODULE CallProtocol ----------------------------
(***************************************************************************)
(* The calls of a compiled program (src/src/translation.c): the machine    *)
(* code that functioncall_instr, stack_param, decl_fonct, stack_return and *)
(* return_instr emit, run on a stack of bytes.  One action per piece of    *)
(* emitted code between two points where control can go elsewhere.         *)
(*                                                                         *)
(* A byte of memory is a pair <<v, i>>: byte i of the value v.  The values *)
(* are what the program computes, the return addresses and the saved       *)
(* registers, so that a misplaced or clobbered byte is seen.               *)
(***************************************************************************)
EXTENDS Integers, Sequences, FiniteSets, Functions

CONSTANTS
  Fun,         \* the functions besides main
  Args,        \* Args[f]: the types of the parameters of f
  Ret,         \* Ret[f]: "int", "char", "struct" or "void"
  Framed,      \* the functions that declare local variables
  StructSize,  \* max_offset of the struct type's table
  Nesting,     \* may an argument be a call itself?
  VoidReturn,  \* may a void function say return; ?
  MaxCalls,    \* bound: the calls of one run
  MaxReads     \* bound: the reade and readc statements of one run

main == "main"
Prim == {"int", "char"}
Type == Prim \cup {"struct"}

ASSUME SizeAssumption == StructSize \in Nat \ {0}
ASSUME FunAssumption ==
  /\ main \notin Fun
  /\ Args \in [Fun -> Seq(Type)]
  /\ Ret \in [Fun -> Type \cup {"void"}]
  /\ Framed \subseteq Fun \cup {main}
ASSUME ProgramAssumption ==
  /\ Nesting \in BOOLEAN
  /\ VoidReturn \in BOOLEAN
  /\ MaxCalls \in Nat
  /\ MaxReads \in Nat

VARIABLES
  rsp, rbp, r15,  \* the registers the protocol uses
  mem,            \* the bytes written so far
  acts,           \* the activations, main's first
  calls, reads,   \* how many calls and reads were begun
  plain,          \* no call so far had one of the shapes of Irregular
  status          \* "run", "exit", or "wild": RET or POP took a wrong value

counts == <<calls, reads, plain>>
vars == <<rsp, rbp, r15, mem, acts, calls, reads, plain, status>>

-----------------------------------------------------------------------------
(* Values and memory.                                                      *)

Arg(c, i) == <<"arg", c, i>>     \* the i-th argument of call c
Result(c) == <<"result", c>>     \* what call c computes
Address(a) == <<"address", a>>   \* a saved rsp or rbp
Return(c) == <<"return", c>>     \* the address after call c

Unwritten == <<<<"unwritten">>, 0>>

Byte(m, a) == IF a \in DOMAIN m THEN m[a] ELSE Unwritten

Write(m, a, v, n) ==
  [x \in DOMAIN m \cup (a .. a + n - 1) |->
     IF x \in a .. a + n - 1 THEN <<v, x - a>> ELSE m[x]]

Copy(m, from, to, n) ==
  [x \in DOMAIN m \cup (to .. to + n - 1) |->
     IF x \in to .. to + n - 1 THEN Byte(m, from + (x - to)) ELSE m[x]]

(* The n bytes at a are those of v.                                        *)
Holds(m, a, v, n) == \A k \in 0 .. n - 1 : Byte(m, a + k) = <<v, k>>

(* The 8-byte values of a kind that are at a: one, or none.                *)
Words(m, a, kind) ==
  {v \in {Byte(m, a)[1]} : v[1] = kind /\ Holds(m, a, v, 8)}

Size(type) == CASE type = "int"    -> 4
                [] type = "char"   -> 1
                [] type = "struct" -> StructSize
                [] type = "void"   -> 0

Sizes(types) == [j \in DOMAIN types |-> Size(types[j])]
SizesBefore(types, i) == SumFunctionOnSet(Sizes(types), 1 .. i - 1)

(* args_size of f's table.                                                 *)
ArgsSize(f) == SizesBefore(Args[f], Len(Args[f]) + 1)

(* return_size: what the caller reserves for the result.                   *)
Slot(f) == CASE Ret[f] = "void"   -> 0
             [] Ret[f] = "struct" -> StructSize
             [] Ret[f] \in Prim   -> 8

(* A function with locals has one of each type; the address of each is     *)
(* relative to rbp (loc_prim_name, struct_assign).                         *)
LocalAt(type) == CASE type = "int"    -> -4
                   [] type = "char"   -> -5
                   [] type = "struct" -> -5 - StructSize

(* max_offset of f's table.                                                *)
Frame(f) == IF f \in Framed THEN 5 + StructSize ELSE 0

-----------------------------------------------------------------------------
(* Activations.  id, fn, ctx, phase, next and offset are where the code    *)
(* is; base, frame, args, result and locals are what it should find, for   *)
(* the invariants.                                                         *)

act == acts[Len(acts)]
caller == acts[Len(acts) - 1]

InPhase(p) == status = "run" /\ act.phase = p

(* Replaces the current activation.                                        *)
SetAct(a) == acts' = [acts EXCEPT ![Len(acts)] = a]

NoLocals == [type \in {} |-> Result(0)]

Activation(c, f, ctx, base) ==
  [id |-> c, fn |-> f, ctx |-> ctx, phase |-> "args",
   next |-> Len(Args[f]), offset |-> 0, base |-> base, frame |-> 0, drift |-> 0,
   args |-> [i \in 1 .. Len(Args[f]) |-> Arg(c, i)],
   result |-> Result(c), locals |-> NoLocals]

Main ==
  [id |-> 0, fn |-> main, ctx |-> "statement", phase |-> "body",
   next |-> 0, offset |-> 0, base |-> 0, frame |-> -8, drift |-> 0,
   args |-> <<>>, result |-> Result(0), locals |-> NoLocals]

(* main has pushed rbp and reserved its locals.                            *)
Init ==
  /\ mem = Write(<<>>, -8, Address(0), 8)
  /\ rbp = -8
  /\ rsp = -8 - Frame(main)
  /\ r15 = 0
  /\ acts = <<Main>>
  /\ calls = 0 /\ reads = 0 /\ plain = TRUE
  /\ status = "run"

Wild ==
  /\ status' = "wild"
  /\ UNCHANGED <<rsp, rbp, r15, mem, acts, counts>>

(* A statement may be a call or the assignment of its result; an argument  *)
(* that functioncall_check lets be a call is an int or a char.             *)
Calls(f, ctx) ==
  \/ ctx = "statement" /\ act.phase = "body"
  \/ ctx = "assign" /\ act.phase = "body"
     /\ Ret[f] # "void" /\ act.fn \in Framed
  \/ ctx = "argument" /\ act.phase = "args" /\ Nesting
     /\ act.next > 0 /\ Args[act.fn][act.next] \in Prim /\ Ret[f] \in Prim

(* The calls the code does not get right (README): a call among the        *)
(* arguments of another, and a struct argument before a primitive one.     *)
Irregular(f, ctx) ==
  \/ ctx = "argument"
  \/ \E i, j \in DOMAIN Args[f] :
       i < j /\ Args[f][i] = "struct" /\ Args[f][j] \in Prim

(* Mutant: no room is reserved for the result.                             *)
BeginCallNoSlot(f, ctx) ==
  /\ status = "run" /\ calls < MaxCalls /\ Calls(f, ctx)
  /\ r15' = rsp
  /\ calls' = calls + 1
  /\ plain' = (plain /\ ~Irregular(f, ctx))
  /\ acts' = Append(acts, Activation(calls + 1, f, ctx, rsp))
  /\ UNCHANGED <<rsp, rbp, mem, reads, status>>

(* functioncall_instr until its arguments: SUB rsp, MOV r15, rsp.          *)
BeginCall(f, ctx) ==
  /\ status = "run" /\ calls < MaxCalls /\ Calls(f, ctx)
  /\ rsp' = rsp - Slot(f)
  /\ r15' = rsp'
  /\ calls' = calls + 1
  /\ plain' = (plain /\ ~Irregular(f, ctx))
  /\ acts' = Append(acts, Activation(calls + 1, f, ctx, rsp'))
  /\ UNCHANGED <<rbp, mem, reads, status>>

(* stack_param's instr(self): the last argument is evaluated first.  A     *)
(* primitive is PUSHed, a struct copied onto the stack by struct_assign.   *)
EvalArgument ==
  /\ InPhase("args") /\ act.next > 0
  /\ LET v == act.args[act.next]
         n == IF Args[act.fn][act.next] \in Prim THEN 8 ELSE StructSize
     IN  /\ rsp' = rsp - n
         /\ mem' = Write(mem, rsp - n, v, n)
  /\ SetAct([act EXCEPT !.phase = "value"])
  /\ UNCHANGED <<rbp, r15, counts, status>>

(* Mutant: a char is placed as if it were an int.                          *)
PlaceArgumentWide ==
  /\ InPhase("value")
  /\ LET type == Args[act.fn][act.next]
         up == IF type = "struct" THEN 0 ELSE 4
     IN  /\ mem' = Copy(mem, rsp, rsp + act.offset + up,
                        IF up = 0 THEN 0 ELSE Size(type))
         /\ SetAct([act EXCEPT !.phase = "args", !.next = @ - 1,
                               !.offset = @ + up])
  /\ UNCHANGED <<rsp, rbp, r15, counts, status>>

(* Mutant: the room below an argument is counted as a whole slot.          *)
PlaceArgumentSlot ==
  /\ InPhase("value")
  /\ LET type == Args[act.fn][act.next]
         up == IF type = "struct" THEN 0 ELSE 8 - Size(type)
     IN  /\ mem' = Copy(mem, rsp, rsp + act.offset + up,
                        IF up = 0 THEN 0 ELSE Size(type))
         /\ SetAct([act EXCEPT !.phase = "args", !.next = @ - 1,
                               !.offset = @ + 8])
  /\ UNCHANGED <<rsp, rbp, r15, counts, status>>

(* The rest of stack_param: a primitive's bytes move up, next to the       *)
(* argument placed before; offset counts what is then unused below.        *)
PlaceArgument ==
  /\ InPhase("value")
  /\ LET type == Args[act.fn][act.next]
         up == IF type = "struct" THEN 0 ELSE 8 - Size(type)
     IN  /\ mem' = Copy(mem, rsp, rsp + act.offset + up,
                        IF up = 0 THEN 0 ELSE Size(type))
         /\ SetAct([act EXCEPT !.phase = "args", !.next = @ - 1,
                               !.offset = @ + up])
  /\ UNCHANGED <<rsp, rbp, r15, counts, status>>

(* Mutant: the callee does not save rbp.                                   *)
CallNoSave ==
  /\ InPhase("args") /\ act.next = 0
  /\ LET top == rsp + act.offset
         saved == Write(mem, top - 8, Address(r15), 8)
         called == Write(saved, top - 16, Return(act.id), 8)
     IN  /\ mem' = called
         /\ rbp' = top - 24
         /\ rsp' = top - 24 - Frame(act.fn)
         /\ SetAct([act EXCEPT !.phase = "body", !.frame = rbp'])
  /\ UNCHANGED <<r15, counts, status>>

(* Mutant: no room is reserved for the locals.                             *)
CallNoFrame ==
  /\ InPhase("args") /\ act.next = 0
  /\ LET top == rsp + act.offset
         saved == Write(mem, top - 8, Address(r15), 8)
         called == Write(saved, top - 16, Return(act.id), 8)
     IN  /\ mem' = Write(called, top - 24, Address(rbp), 8)
         /\ rbp' = top - 24
         /\ rsp' = top - 24
         /\ SetAct([act EXCEPT !.phase = "body", !.frame = rbp'])
  /\ UNCHANGED <<r15, counts, status>>

(* ADD rsp, offset; PUSH r15; CALL; and the callee's prologue: PUSH rbp,   *)
(* MOV rbp, rsp, SUB rsp, max_offset.                                      *)
Call ==
  /\ InPhase("args") /\ act.next = 0
  /\ LET top == rsp + act.offset
         saved == Write(mem, top - 8, Address(r15), 8)
         called == Write(saved, top - 16, Return(act.id), 8)
     IN  /\ mem' = Write(called, top - 24, Address(rbp), 8)
         /\ rbp' = top - 24
         /\ rsp' = top - 24 - Frame(act.fn)
         /\ SetAct([act EXCEPT !.phase = "body", !.frame = rbp'])
  /\ UNCHANGED <<r15, counts, status>>

-----------------------------------------------------------------------------
(* The epilogue MOV rsp, rbp; POP rbp; RET, from memory m.                 *)
Epilogue(m) ==
  LET saved == Words(m, rbp, "address")
  IN  IF saved # {} /\ Words(m, rbp + 8, "return") = {Return(act.id)}
      THEN /\ \E v \in saved : rbp' = v[2]
           /\ rsp' = rbp + 16
           /\ mem' = m
           /\ SetAct([act EXCEPT !.phase = "returned"])
           /\ UNCHANGED <<r15, counts, status>>
      ELSE Wild

(* Mutant: stack_return forgets the saved r15 above the return address.    *)
ReturnValueBelow ==
  /\ InPhase("body") /\ act.fn # main /\ Ret[act.fn] # "void"
  /\ LET n == Slot(act.fn)
         pushed == Write(mem, rsp - n, act.result, n)
     IN  Epilogue(Copy(pushed, rsp - n, rbp + 16 + ArgsSize(act.fn),
                       Size(Ret[act.fn])))

(* return e; in a function with a result: e is put on the stack,           *)
(* stack_return copies it above the arguments.                             *)
ReturnValue ==
  /\ InPhase("body") /\ act.fn # main /\ Ret[act.fn] # "void"
  /\ LET n == Slot(act.fn)
         pushed == Write(mem, rsp - n, act.result, n)
     IN  Epilogue(Copy(pushed, rsp - n, rbp + 24 + ArgsSize(act.fn),
                       Size(Ret[act.fn])))

(* The end of a void function's body: decl_fonct realigns, then RET.       *)
FallOff ==
  /\ InPhase("body") /\ act.fn # main /\ Ret[act.fn] = "void"
  /\ Epilogue(mem)

(* return; in a void function: return_instr emits RET alone.               *)
ReturnVoid ==
  /\ VoidReturn
  /\ InPhase("body") /\ act.fn # main /\ Ret[act.fn] = "void"
  /\ IF Words(mem, rsp, "return") = {Return(act.id)}
     THEN /\ rsp' = rsp + 8
          /\ SetAct([act EXCEPT !.phase = "returned"])
          /\ UNCHANGED <<rbp, r15, mem, status>>
     ELSE status' = "wild" /\ UNCHANGED <<rsp, rbp, r15, mem, acts>>
  /\ plain' = FALSE
  /\ UNCHANGED <<calls, reads>>

(* Back in the caller: POP rsp.                                            *)
PopRsp ==
  /\ InPhase("returned")
  /\ LET saved == Words(mem, rsp, "address")
     IN  IF saved = {} THEN Wild
         ELSE /\ \E v \in saved : rsp' = v[2]
              /\ SetAct([act EXCEPT !.phase = "result"])
              /\ UNCHANGED <<rbp, r15, mem, counts, status>>

EndCall(updated) == acts' = Append(SubSeq(acts, 1, Len(acts) - 2), updated)

(* Mutant: the result of a call statement stays on the stack.              *)
DiscardResultNot ==
  /\ InPhase("result") /\ act.ctx = "statement"
  /\ EndCall(caller)
  /\ UNCHANGED <<rsp, rbp, r15, mem, counts, status>>

(* A call statement: the result is dropped.                                *)
DiscardResult ==
  /\ InPhase("result") /\ act.ctx = "statement"
  /\ rsp' = rsp + Slot(act.fn)
  /\ EndCall(caller)
  /\ UNCHANGED <<rbp, r15, mem, counts, status>>

(* x = f(...): prim_assign pops rax and stores it, struct_assign copies    *)
(* from the stack and empties it.                                          *)
AssignResult ==
  LET type == Ret[act.fn] IN
  /\ InPhase("result") /\ act.ctx = "assign"
  /\ mem' = Copy(mem, rsp, rbp + LocalAt(type), Size(type))
  /\ rsp' = rsp + Slot(act.fn)
  /\ EndCall([caller EXCEPT !.locals =
       [t \in DOMAIN @ \cup {type} |-> IF t = type THEN act.result ELSE @[t]]])
  /\ UNCHANGED <<rbp, r15, counts, status>>

(* The result of a nested call is the value of the caller's argument.      *)
PassResult ==
  /\ InPhase("result") /\ act.ctx = "argument"
  /\ EndCall([caller EXCEPT !.phase = "value",
                            !.args[caller.next] = act.result])
  /\ UNCHANGED <<rsp, rbp, r15, mem, counts, status>>

(* The stack of main starts 8 bytes below a multiple of 16.                *)
Aligned(a) == a - ((a + 8) % 16)

Above(m, a) == [x \in {y \in DOMAIN m : y >= a} |-> m[x]]

(* reade and readc of a local: AND spl, 240; SUB rsp, 8; PUSH r9, the old  *)
(* rsp; scanf, which may use all that is below.  rsp is never restored.    *)
Read(type) ==
  /\ InPhase("body") /\ reads < MaxReads /\ act.fn \in Framed
  /\ LET v == <<"read", reads>>
         low == Aligned(rsp) - 16
         pushed == Above(Write(mem, low, Address(rsp), 8), low)
     IN  /\ rsp' = low
         /\ mem' = Write(pushed, rbp + LocalAt(type), v, Size(type))
         /\ SetAct([act EXCEPT !.drift = @ + (rsp - low),
               !.locals = [t \in DOMAIN @ \cup {type} |->
                             IF t = type THEN v ELSE @[t]]])
  /\ reads' = reads + 1
  /\ UNCHANGED <<rbp, r15, calls, plain, status>>

(* return in main: the exit system call.                                   *)
Exit ==
  /\ InPhase("body") /\ act.fn = main
  /\ status' = "exit"
  /\ UNCHANGED <<rsp, rbp, r15, mem, acts, counts>>

Next ==
  \/ \E f \in Fun, ctx \in {"statement", "assign", "argument"} :
        BeginCall(f, ctx)
  \/ EvalArgument \/ PlaceArgument \/ Call
  \/ ReturnValue \/ FallOff \/ ReturnVoid
  \/ PopRsp \/ DiscardResult \/ AssignResult \/ PassResult
  \/ \E type \in Prim : Read(type)
  \/ Exit

Spec == Init /\ [][Next]_vars

-----------------------------------------------------------------------------
(* The type invariant.                                                     *)
TypeOK ==
  /\ rsp \in Int /\ rbp \in Int /\ r15 \in Int
  /\ DOMAIN mem \subseteq Int
  /\ Len(acts) \in 1 .. MaxCalls + 1
  /\ acts[1].fn = main
  /\ \A n \in 2 .. Len(acts) :
        /\ acts[n].fn \in Fun
        /\ acts[n].phase \in {"args", "value", "body", "returned", "result"}
        /\ acts[n].next \in 0 .. Len(Args[acts[n].fn])
        /\ acts[n].offset \in 0 .. 7 * Len(Args[acts[n].fn])
  /\ \A n \in 1 .. Len(acts) - 1 : acts[n].phase \in {"body", "args"}
  /\ calls \in 0 .. MaxCalls /\ reads \in 0 .. MaxReads /\ plain \in BOOLEAN
  /\ status \in {"run", "exit", "wild"}

Entered == {n \in 2 .. Len(acts) : acts[n].phase = "body"}

(* Unless a call was irregular, every function that runs finds each of its *)
(* arguments where create_table placed the parameter, rbp + 24 + the sizes *)
(* of the ones before, for as long as it runs: neither the calls nor the   *)
(* reads it makes disturb them.                                            *)
ArgumentsAgree ==
  plain => \A n \in Entered :
    LET a == acts[n] IN
    \A i \in DOMAIN a.args :
      Holds(mem, a.frame + 24 + SizesBefore(Args[a.fn], i),
            a.args[i], Size(Args[a.fn][i]))

(* After POP rsp the result of a call is on the top of the stack, where    *)
(* prim_assign, struct_assign and stack_param read it, for every call.     *)
(* functioncall_instr's comment: MOV r15, rsp "saves the old rsp position  *)
(* before params stacking".                                                *)
NestedResultOnTop ==
  InPhase("result") => Holds(mem, rsp, act.result, Size(Ret[act.fn]))

(* The same, unless a call was irregular.                                  *)
ResultOnTop == plain => NestedResultOnTop

(* Unless a call was irregular, a call leaves the stack as it found it:    *)
(* after POP rsp, rsp is back where the arguments started, and between two *)
(* statements it is as far below the frame as the reads moved it.          *)
StackBalanced ==
  plain =>
    /\ InPhase("result") => rsp = act.base
    /\ InPhase("body") =>
         rbp = act.frame /\ rsp = act.frame - Frame(act.fn) - act.drift

(* Unless a call was irregular, a local variable keeps what was last       *)
(* assigned or read into it, through any calls and reads its function and  *)
(* the functions it calls make.                                            *)
LocalsKept ==
  plain => \A n \in {1} \cup Entered :
    LET a == acts[n] IN
    \A type \in DOMAIN a.locals :
      Holds(mem, a.frame + LocalAt(type), a.locals[type], Size(type))

(* What a function may write, its locals, its parameters and the place of  *)
(* its result, lies below the locals of all the functions that wait.       *)
FramesNested ==
  \A n \in Entered : \A m \in {1} \cup Entered :
    LET a == acts[n]
        w == acts[m]
    IN  m < n => a.frame + 24 + ArgsSize(a.fn) + Size(Ret[a.fn])
                   <= w.frame - Frame(w.fn)

(* Whatever the program, neither what a function pushes nor what it writes *)
(* ever lands on the locals of a function that runs or waits: a leak never *)
(* turns into an overlap.                                                  *)
StackClearOfLocals ==
  /\ InPhase("body") => rsp <= rbp - Frame(act.fn)
  /\ FramesNested

(* Unless a call was irregular, no RET and no POP rsp or rbp takes anything *)
(* but what was saved for it.                                              *)
NeverWild == plain => status # "wild"
=============================================================================
