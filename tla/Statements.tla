----------------------------- MODULE Statements -----------------------------
(***************************************************************************)
(* The statements of a function with a result: the code that suite_instr,  *)
(* instr, if_else_instr and while_instr (src/src/translation.c) emit for   *)
(* them, run one instruction at a time next to what the source says, and   *)
(* the verdict of check_control_flow (src/src/translation_utils.c).        *)
(*                                                                         *)
(* Expressions are left out: a condition is the next truth value of an     *)
(* oracle, and a simple statement or a return is known by its id, which    *)
(* the run records.                                                        *)
(***************************************************************************)
EXTENDS Integers, Sequences, FiniteSets, SequencesExt

CONSTANTS
  Tree,    \* the statements and lists of statements that programs consist of
  Bodies,  \* the bodies of functions, lists of statements
  Oracles  \* the truth values conditions take, one after the other

VARIABLES
  body,    \* the body compiled
  code,    \* the instructions emitted for it
  oracle,  \* the truth values left; a condition is false when none is
  pc,      \* the next instruction of the code
  trace,   \* the ids of the statements executed
  status,  \* "run", "return" or "end" (of the function)
  wanted   \* the trace of the source program

vars == <<body, code, oracle, pc, trace, status, wanted>>

(* The statements, and the lists firstChild and nextSibling link them in.  *)
(* An if has an else branch or not; a branch and the body of a while are   *)
(* statements, blocks mostly.                                              *)
Simple(id) == [kind |-> "simple", id |-> id]
Return(id) == [kind |-> "return", id |-> id]
Block(suite) == [kind |-> "block", suite |-> suite]
If(then) == [kind |-> "if", then |-> then]
IfElse(then, else) == [kind |-> "ifelse", then |-> then, else |-> else]
While(do) == [kind |-> "while", do |-> do]
None == [kind |-> "none"]
Suite(first, next) == [kind |-> "suite", first |-> first, next |-> next]

(* firstChild and the siblings after it.                                   *)
Children(t) ==
  CASE t.kind = "suite"  -> {t.first, t.next}
    [] t.kind = "block"  -> {t.suite}
    [] t.kind = "if"     -> {t.then}
    [] t.kind = "ifelse" -> {t.then, t.else}
    [] t.kind = "while"  -> {t.do}
    [] OTHER             -> {}

IsSuite(t) == t \in Tree /\ t.kind \in {"none", "suite"}
IsStatement(t) == t \in Tree /\ t.kind \notin {"none", "suite"}

ASSUME TreeAssumption ==
  \A t \in Tree :
    \/ t.kind \in {"none", "simple", "return"}
    \/ t.kind = "suite" /\ IsStatement(t.first) /\ IsSuite(t.next)
    \/ t.kind = "block" /\ IsSuite(t.suite)
    \/ t.kind = "if" /\ IsStatement(t.then)
    \/ t.kind = "ifelse" /\ IsStatement(t.then) /\ IsStatement(t.else)
    \/ t.kind = "while" /\ IsStatement(t.do)
ASSUME BodiesAssumption == \A b \in Bodies : IsSuite(b)
ASSUME OraclesAssumption == Oracles \subseteq Seq(BOOLEAN)

-----------------------------------------------------------------------------
(* The code emitted.  A piece of code has its instructions, the next value *)
(* of labelc, and what instr or suite_instr returns.  instr is a function  *)
(* of the tree and of labelc.                                              *)

Piece(instrs, labelc, returns) ==
  [code |-> instrs, labelc |-> labelc, returns |-> returns]

Do(id) == <<"do", id>>
Ret(id) == <<"ret", id>>
Test(label) == <<"test", label>>   \* POP rax; CMP rax, 0; JE label
Jmp(label) == <<"jmp", label>>
Label(label) == <<"label", label>>
End == <<"end">>                   \* decl_fonct's realignment and RET
Abort == <<"abort">>               \* assert(self) ends the compiler

(* A branch: suite_instr for a block, instr for any other statement.       *)
Branch(n) == IF n.kind = "block" THEN n.suite ELSE n

(* Mutant: the then branch goes on into the else branch.                   *)
IfElseNoJump(instr, n, labelc) ==
  LET l == labelc
      then == instr[Branch(n.then)][l + 1]
      else == instr[Branch(n.else)][then.labelc]
  IN  Piece(<<Test(<<"ELSE", l>>)>> \o then.code
              \o <<Label(<<"ELSE", l>>)>>
              \o else.code \o <<Label(<<"ENDIF", l>>)>>,
            else.labelc, FALSE)

(* Mutant: an if returns what its last branch returns.                     *)
IfElseReturns(instr, n, labelc) ==
  LET l == labelc
      then == instr[Branch(n.then)][l + 1]
      else == instr[Branch(n.else)][then.labelc]
  IN  Piece(<<Test(<<"ELSE", l>>)>> \o then.code
              \o <<Jmp(<<"ENDIF", l>>), Label(<<"ELSE", l>>)>>
              \o else.code \o <<Label(<<"ENDIF", l>>)>>,
            else.labelc, else.returns)

(* if_else_instr with an else branch.                                      *)
IfElseInstr(instr, n, labelc) ==
  LET l == labelc
      then == instr[Branch(n.then)][l + 1]
      else == instr[Branch(n.else)][then.labelc]
  IN  Piece(<<Test(<<"ELSE", l>>)>> \o then.code
              \o <<Jmp(<<"ENDIF", l>>), Label(<<"ELSE", l>>)>>
              \o else.code \o <<Label(<<"ENDIF", l>>)>>,
            else.labelc, FALSE)

(* if_else_instr without.                                                  *)
IfInstr(instr, n, labelc) ==
  LET l == labelc
      then == instr[Branch(n.then)][l + 1]
  IN  Piece(<<Test(<<"ENDIF", l>>)>> \o then.code \o <<Label(<<"ENDIF", l>>)>>,
            then.labelc, FALSE)

(* Mutant: the exit of the loop leads back to its test.                    *)
WhileInstrStuck(instr, n, labelc) ==
  LET l == labelc
      do == instr[Branch(n.do)][l + 1]
  IN  Piece(<<Label(<<"WHILE", l>>), Test(<<"WHILE", l>>)>> \o do.code
              \o <<Jmp(<<"WHILE", l>>), Label(<<"ENDWHILE", l>>)>>,
            do.labelc, FALSE)

(* Mutant: the label after the loop is missing.                            *)
WhileInstrNoLabel(instr, n, labelc) ==
  LET l == labelc
      do == instr[Branch(n.do)][l + 1]
  IN  Piece(<<Label(<<"WHILE", l>>), Test(<<"ENDWHILE", l>>)>> \o do.code
              \o <<Jmp(<<"WHILE", l>>)>>,
            do.labelc, FALSE)

(* while_instr.                                                            *)
WhileInstr(instr, n, labelc) ==
  LET l == labelc
      do == instr[Branch(n.do)][l + 1]
  IN  Piece(<<Label(<<"WHILE", l>>), Test(<<"ENDWHILE", l>>)>> \o do.code
              \o <<Jmp(<<"WHILE", l>>), Label(<<"ENDWHILE", l>>)>>,
            do.labelc, FALSE)

(* instr on a block: only its first statement, and assert(self) if none.   *)
BlockInstr(instr, n, labelc) ==
  IF n.suite.kind = "none" THEN Piece(<<Abort>>, labelc, FALSE)
  ELSE [instr[n.suite.first][labelc] EXCEPT !.returns = FALSE]

(* suite_instr: what the last statement returns.                           *)
SuiteInstr(instr, n, labelc) ==
  LET first == instr[n.first][labelc]
      rest == instr[n.next][first.labelc]
  IN  Piece(first.code \o rest.code, rest.labelc,
            IF n.next.kind = "none" THEN first.returns ELSE rest.returns)

InstrRule(instr, n, labelc) ==
  CASE n.kind = "none"   -> Piece(<<>>, labelc, FALSE)
    [] n.kind = "suite"  -> SuiteInstr(instr, n, labelc)
    [] n.kind = "simple" -> Piece(<<Do(n.id)>>, labelc, FALSE)
    [] n.kind = "return" -> Piece(<<Ret(n.id)>>, labelc, TRUE)
    [] n.kind = "block"  -> BlockInstr(instr, n, labelc)
    [] n.kind = "if"     -> IfInstr(instr, n, labelc)
    [] n.kind = "ifelse" -> IfElseInstr(instr, n, labelc)
    [] n.kind = "while"  -> WhileInstr(instr, n, labelc)

Instr[n \in Tree] == [labelc \in Nat |-> InstrRule(Instr, n, labelc)]

(* decl_fonct: the code of the body, and its end unless a return ends it.  *)
Code(suite) ==
  LET piece == Instr[suite][0]
  IN  IF piece.returns THEN piece.code ELSE Append(piece.code, End)

-----------------------------------------------------------------------------
(* What the source says: the trace of a statement or a list, whether it    *)
(* returned, and the truth values left.                                    *)

Truth(o) == o # <<>> /\ Head(o)
Rest(o) == IF o = <<>> THEN o ELSE Tail(o)

Nothing(o) == [trace |-> <<>>, done |-> FALSE, oracle |-> o]
Step(id, done, o) == [trace |-> <<id>>, done |-> done, oracle |-> o]

After(r, s) == [s EXCEPT !.trace = r.trace \o @]

(* A loop whose body does once[o], at most k times round: a condition is   *)
(* true at most once for each truth value left.                            *)
LoopRule(loop, once, k, o) ==
  IF k = 0 \/ ~Truth(o) THEN Nothing(Rest(o))
  ELSE LET r == once[Rest(o)]
       IN  IF r.done THEN r ELSE After(r, loop[k - 1][r.oracle])

Loop(once) ==
  LET loop[k \in Nat] == [o \in Seq(BOOLEAN) |-> LoopRule(loop, once, k, o)]
  IN  loop

RunRule(run, n, o) ==
  CASE n.kind = "none"   -> Nothing(o)
    [] n.kind = "suite"  ->
         LET r == run[n.first][o]
         IN  IF r.done THEN r ELSE After(r, run[n.next][r.oracle])
    [] n.kind = "simple" -> Step(n.id, FALSE, o)
    [] n.kind = "return" -> Step(n.id, TRUE, o)
    [] n.kind = "block"  -> run[n.suite][o]
    [] n.kind = "if"     -> IF Truth(o) THEN run[n.then][Rest(o)] ELSE Nothing(Rest(o))
    [] n.kind = "ifelse" -> run[IF Truth(o) THEN n.then ELSE n.else][Rest(o)]
    [] n.kind = "while"  -> Loop(run[n.do])[Len(o)][o]

Run[n \in Tree] == [o \in Seq(BOOLEAN) |-> RunRule(Run, n, o)]

(* Every path through it ends in a return.                                 *)
ReturnsRule(returns, n) ==
  \/ n.kind = "return"
  \/ n.kind = "suite" /\ (returns[n.first] \/ returns[n.next])
  \/ n.kind = "block" /\ returns[n.suite]
  \/ n.kind = "ifelse" /\ returns[n.then] /\ returns[n.else]

Returns[n \in Tree] == ReturnsRule(Returns, n)

-----------------------------------------------------------------------------
(* check_control_flow: its three globals, and what rec_check returns.  It  *)
(* is a function of the tree, the globals and off, the if-elses of the     *)
(* list that are behind.                                                   *)

Globals(scope, flow, has) ==
  [scope_level |-> scope, flow_count |-> flow, has_control_flow |-> has]

AllGlobals == [scope_level : Int, flow_count : Int, has_control_flow : BOOLEAN]

Checked(returns, g) == [returns |-> returns, g |-> g]

(* A return ends the suite being checked, off groups after its start.      *)
FoundReturn(g, off) ==
  Checked(TRUE, IF g.scope_level = 0 THEN [g EXCEPT !.flow_count = 0]
                ELSE [g EXCEPT !.flow_count = @ - off])

(* Mutant: reaching the end of the body is never noticed.                  *)
RunsOffNever(list, g) == FALSE

(* The last statement of the body, before any if with an else.             *)
RunsOff(list, g) ==
  g.scope_level = 0 /\ ~g.has_control_flow /\ list.next.kind = "none"

(* An if with an else: both branches, by check_ifelse.                     *)
CheckIfElse(check, n, g) ==
  LET then == check[n.then][<<Globals(g.scope_level + 1, g.flow_count + 1, TRUE), 0>>]
      else == check[n.else][<<then.g, 0>>]
      out == [else.g EXCEPT !.scope_level = @ - 1]
  IN  IF then.returns /\ else.returns
      THEN Checked(TRUE, [out EXCEPT !.flow_count = @ - 1])
      ELSE Checked(FALSE, out)

(* rec_check, from a place in a list on.                                   *)
RecCheck(check, list, g, off) ==
  LET n == list.first IN
  CASE n.kind = "ifelse" ->
         LET group == CheckIfElse(check, n, g)
         IN  IF group.returns THEN group ELSE check[list.next][<<group.g, off + 1>>]
    [] n.kind = "return" -> FoundReturn(g, off)
    [] n.kind = "block" ->
         LET inner == check[n.suite][<<g, 0>>]
         IN  IF inner.returns THEN FoundReturn(inner.g, off)
             ELSE check[list.next][<<inner.g, off>>]
    [] OTHER ->
         IF RunsOff(list, g) THEN Checked(FALSE, [g EXCEPT !.flow_count = -1])
         ELSE check[list.next][<<g, off>>]

(* A list, or a branch.  A branch that is an if is a list of its own, in   *)
(* which nothing follows.                                                  *)
CheckRule(check, n, g, off) ==
  CASE n.kind = "suite"  -> RecCheck(check, n, g, off)
    [] n.kind = "block"  -> check[n.suite][<<g, 0>>]
    [] n.kind = "return" -> Checked(TRUE, g)
    [] n.kind = "ifelse" -> CheckIfElse(check, n, g)
    [] OTHER             -> Checked(FALSE, g)

Check[n \in Tree] == [a \in AllGlobals \X Nat |-> CheckRule(Check, n, a[1], a[2])]

Accepted(suite) == Check[suite][<<Globals(0, 0, FALSE), 0>>].g.flow_count = 0

-----------------------------------------------------------------------------
(* The run of the code.                                                    *)

Init ==
  /\ body \in Bodies
  /\ code = Code(body)
  /\ ~Contains(code, Abort)
  /\ oracle \in Oracles
  /\ pc = 1
  /\ trace = <<>>
  /\ status = "run"
  /\ wanted = Run[body][oracle]

(* Control goes to a place of the label.                                   *)
Jump(label) == pc' \in {i \in DOMAIN code : code[i] = Label(label)}

Fetch(op) ==
  /\ status = "run"
  /\ pc \in DOMAIN code
  /\ code[pc][1] = op
  /\ UNCHANGED <<body, code, wanted>>

Operand == code[pc][2]

DoSimple ==
  /\ Fetch("do")
  /\ trace' = Append(trace, Operand)
  /\ pc' = pc + 1
  /\ UNCHANGED <<oracle, status>>

DoReturn ==
  /\ Fetch("ret")
  /\ trace' = Append(trace, Operand)
  /\ status' = "return"
  /\ UNCHANGED <<oracle, pc>>

DoTest ==
  /\ Fetch("test")
  /\ IF Truth(oracle) THEN pc' = pc + 1 ELSE Jump(Operand)
  /\ oracle' = Rest(oracle)
  /\ UNCHANGED <<trace, status>>

DoJump ==
  /\ Fetch("jmp")
  /\ Jump(Operand)
  /\ UNCHANGED <<oracle, trace, status>>

DoLabel ==
  /\ Fetch("label")
  /\ pc' = pc + 1
  /\ UNCHANGED <<oracle, trace, status>>

DoEnd ==
  /\ Fetch("end")
  /\ status' = "end"
  /\ UNCHANGED <<oracle, pc, trace>>

Next == DoSimple \/ DoReturn \/ DoTest \/ DoJump \/ DoLabel \/ DoEnd

Spec == Init /\ [][Next]_vars

(* The processor goes on.                                                  *)
FairSpec == Spec /\ WF_vars(Next)

-----------------------------------------------------------------------------
(* The code does what the source says, statement by statement, under every *)
(* outcome of the conditions, and stops where the source stops.            *)
RunsAsWritten ==
  /\ IsPrefix(trace, wanted.trace)
  /\ status \in {"return", "end"} => trace = wanted.trace
  /\ status = "return" => wanted.done
  /\ status = "end" => ~wanted.done

(* Control never runs past the end of a function into the next one: the    *)
(* code ends in a return or in decl_fonct's RET.                           *)
NeverThrough == status = "run" => pc \in DOMAIN code

(* Every jump has one label to go to: nested ifs and loops do not share    *)
(* labelc, and none leaves its label out.                                  *)
LabelsUnique ==
  /\ \A i, j \in DOMAIN code :
        code[i][1] = "label" /\ code[i] = code[j] => i = j
  /\ \A i \in DOMAIN code :
        code[i][1] \in {"test", "jmp"} => Contains(code, Label(code[i][2]))

(* The code stops: every loop is left once its condition is false.         *)
Stops == <>(status # "run")

(* A function that check_control_flow accepts returns a value: control     *)
(* does not reach the end of a non-void function.                          *)
AcceptedReturns == status = "end" => ~Accepted(body)

(* "control may reach end of non-void function": it may, when it says so.  *)
RejectedMayReachEnd == ~Accepted(body) => ~Returns[body]
=============================================================================
