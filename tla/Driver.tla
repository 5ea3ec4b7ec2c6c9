------------------------------- MODULE Driver -------------------------------
(***************************************************************************)
(* main (src/src/main.c), sig_handler and print_err: several tpcc          *)
(* processes that run in one directory.  One action per system call, or    *)
(* group of calls on files no other process knows of.                      *)
(*                                                                         *)
(* A name leads to an inode, which outlives the name for the process that  *)
(* has it open.  The names of the sources and of what the compiler makes   *)
(* are the same kind of thing: prog.asm may be given as a source, and prog *)
(* is the executable of prog.                                              *)
(*                                                                         *)
(* What a file holds is the set of the items whose bytes are in it: {i} is *)
(* the whole of i, a larger set a mixture that processes writing the same  *)
(* inode at their own positions leave, and {} holds no whole item: it is   *)
(* empty, or the beginning of a code.                                      *)
(***************************************************************************)
EXTENDS Integers, FiniteSets

CONSTANTS
  Proc,         \* the tpcc processes
  Source,       \* the names given as arguments, <<directory, stem, suffix>>
  Program,      \* the texts of programs
  Outcome,      \* Outcome[c]: what the compiler has to say of c
  Invocations,  \* [src, n, x, h]: the command lines processes are given
  Modes,        \* what the mode of a created _anonymous.tpc may allow
  ToolsFail,    \* may nasm or gcc fail?
  OutputFails   \* may the output file be impossible to create?

(* A name is split as main splits it: after the last "/", then at the      *)
(* first ".".  The current directory is ".".                               *)
Names == STRING \X STRING \X STRING
Stem(name) == name[2]

Anon == <<".", "_anonymous", ".tpc">>
Outcomes == {"valid", "warning", "syntax", "declaration", "body", "crash"}

ASSUME SourceAssumption ==
  /\ Source \subseteq Names
  /\ \A s \in Source : Stem(s) \notin {Stem(Anon), ""}
ASSUME ProgramAssumption == Outcome \in [Program -> Outcomes]
ASSUME InvocationAssumption ==
  Invocations \subseteq
    [src : Source \cup {Anon}, n : BOOLEAN, x : BOOLEAN, h : BOOLEAN]
ASSUME EnvironmentAssumption ==
  Modes \subseteq BOOLEAN /\ ToolsFail \in BOOLEAN /\ OutputFails \in BOOLEAN

VARIABLES
  fs,     \* the inode a name leads to, for the names that exist
  data,   \* the inodes: what they hold, and whether they can be opened
  procs   \* the processes

vars == <<fs, data, procs>>

AsmName(s) == <<".", Stem(s), ".asm">>
ObjectName(s) == <<".", Stem(s), ".o">>
ExeName(s) == <<".", Stem(s), "">>

Exists(name) == name \in DOMAIN fs

Inode(holds, mode) == [holds |-> holds, mode |-> mode]

Extend(f, k, v) == [x \in DOMAIN f \cup {k} |-> IF x = k THEN v ELSE f[x]]

(* open or fopen for writing: truncates the file, or creates it.           *)
Create(name, inode, mode) ==
  IF Exists(name)
  THEN /\ data' = [data EXCEPT ![fs[name]].holds = {}]
       /\ fs' = fs
  ELSE /\ data' = Extend(data, inode, Inode({}, mode))
       /\ fs' = Extend(fs, name, inode)

Removed(f, name) == [x \in DOMAIN f \ {name} |-> f[x]]

(* The items: the text of a program, its code, and what is made of a       *)
(* mixture.                                                                *)
Text(c) == <<"text", c>>
Code(c) == <<"code", c>>
Other == <<"other">>

(* What an inode may hold after i was written to it from its start: i, or  *)
(* i before a longer rest.                                                 *)
Overwritten(holds, i) == {{i}, holds \cup {i}}

(* What a translation of an input is.                                      *)
CodeOf(input) ==
  IF \E c \in Program : input = {Text(c)}
  THEN Code(CHOOSE c \in Program : input = {Text(c)})
  ELSE Other

NoInode == <<"none">>

(* The inode of a source that is there before any process starts.          *)
Given(s) == <<"given", s>>

(* The inode of a kind that process p creates, when it creates one.        *)
Own(p, kind) == <<"own", p, kind>>

(* The process p with the fields of r, at pc.                              *)
Go(p, pc) == procs' = [procs EXCEPT ![p].pc = pc]

Exited(p) == procs[p].pc = "exited"

ExitWith(p, code) ==
  procs' = [procs EXCEPT ![p].pc = "exited", ![p].code = code,
                         ![p].stdin = NoInode, ![p].output = NoInode]

Init ==
  \E present \in SUBSET Source : \E text \in [present -> Program] :
    /\ fs = [s \in present |-> Given(s)]
    /\ data = [i \in {Given(s) : s \in present} |->
                 Inode({Text(text[i[2]])}, TRUE)]
    /\ procs = [p \in Proc |->
         [pc |-> "start", inv |-> [src |-> Anon, n |-> FALSE, x |-> FALSE,
                                   h |-> FALSE],
          input |-> {}, stdin |-> NoInode, output |-> NoInode, text |-> {},
          outcome |-> "valid", code |-> -1, alone |-> TRUE]]

At(p, pc) == procs[p].pc = pc
Anonymous(p) == procs[p].inv.src = Anon

-----------------------------------------------------------------------------
Running(p) == ~At(p, "start") /\ ~Exited(p)

(* The processes that run and use the files of source s.                   *)
Rivals(p, s) == {q \in Proc \ {p} : Running(q)
                                     /\ Stem(procs[q].inv.src) = Stem(s)}

(* p starts as the record r; alone remembers, for the properties, which    *)
(* processes had their files to themselves from start to end.              *)
Begin(p, r) ==
  procs' = [q \in Proc |->
    IF q = p THEN [r EXCEPT !.alone = Rivals(p, r.inv.src) = {}]
    ELSE IF q \in Rivals(p, r.inv.src) THEN [procs[q] EXCEPT !.alone = FALSE]
    ELSE procs[q]]

(* -h and unknown options print the usage.                                 *)
StartHelp(p) ==
  /\ At(p, "start")
  /\ \E inv \in Invocations :
       /\ inv.h
       /\ procs' = [procs EXCEPT ![p].pc = "exited", ![p].code = 0,
                                 ![p].inv = inv]
  /\ UNCHANGED <<fs, data>>

(* No argument: the program comes from the standard input.                 *)
StartAnonymous(p) ==
  /\ At(p, "start")
  /\ \E inv \in Invocations, c \in Program :
       /\ ~inv.h /\ inv.src = Anon
       /\ Begin(p, [procs[p] EXCEPT !.pc = "create", !.inv = inv,
                                    !.input = {Text(c)}])
  /\ UNCHANGED <<fs, data>>

(* The argument names a source, or nothing: status 3.                      *)
StartFile(p) ==
  /\ At(p, "start")
  /\ \E inv \in Invocations :
       /\ ~inv.h /\ inv.src # Anon
       /\ IF Exists(inv.src)
          THEN Begin(p, [procs[p] EXCEPT !.pc = "open", !.inv = inv,
                                         !.input = data[fs[inv.src]].holds])
          ELSE procs' = [procs EXCEPT ![p].pc = "exited", ![p].code = 3,
                                      ![p].inv = inv]
  /\ UNCHANGED <<fs, data>>

(* open(O_CREAT | O_RDWR | O_TRUNC) of _anonymous.tpc, without a mode.     *)
CreateAnonymous(p) ==
  /\ At(p, "create")
  /\ IF Exists(Anon) /\ ~data[fs[Anon]].mode
     THEN Go(p, "open") /\ UNCHANGED <<fs, data>>
     ELSE /\ \E mode \in Modes : Create(Anon, Own(p, "source"), mode)
          /\ procs' = [procs EXCEPT ![p].pc = "copy",
                         ![p].stdin = IF Exists(Anon) THEN fs[Anon]
                                      ELSE Own(p, "source")]

(* read(STDIN) and write until the end of the input, then close.           *)
CopyInput(p) ==
  LET i == procs[p].stdin
  IN  /\ At(p, "copy")
      /\ \E text \in procs[p].input :
           \E holds \in Overwritten(data[i].holds, text) :
             data' = [data EXCEPT ![i].holds = holds]
      /\ Go(p, "open")
      /\ UNCHANGED fs

(* fopen(source_filename, "r") and dup2: stdin is the file.                *)
OpenSource(p) ==
  LET name == procs[p].inv.src
  IN  /\ At(p, "open")
      /\ IF Exists(name) /\ data[fs[name]].mode
         THEN procs' = [procs EXCEPT ![p].pc = "parse", ![p].stdin = fs[name]]
         ELSE ExitWith(p, 3)
      /\ UNCHANGED <<fs, data>>

(* What can be said of an input: a code is no program, a mixture may be    *)
(* anything.                                                               *)
OutcomesOf(input) ==
  IF \E c \in Program : input = {Text(c)}
  THEN {Outcome[c] : c \in {d \in Program : input = {Text(d)}}}
  ELSE IF input = {} \/ \E c \in Program : input = {Code(c)} THEN {"syntax"}
  ELSE Outcomes

(* Mutant: what yyparse returns is not looked at.                          *)
ParseIgnored(p) ==
  LET text == data[procs[p].stdin].holds
  IN  /\ At(p, "parse")
      /\ \E outcome \in OutcomesOf(text) :
           procs' = [procs EXCEPT ![p].pc = "table", ![p].text = text,
                                  ![p].outcome = outcome]
      /\ UNCHANGED <<fs, data>>

(* yyparse: a syntax error ends the process.                               *)
Parse(p) ==
  LET text == data[procs[p].stdin].holds
  IN  /\ At(p, "parse")
      /\ \E outcome \in OutcomesOf(text) :
           IF outcome = "syntax" THEN ExitWith(p, 1)
           ELSE procs' = [procs EXCEPT ![p].pc = "table", ![p].text = text,
                                       ![p].outcome = outcome]
      /\ UNCHANGED <<fs, data>>

(* print_err: opens the source by its name again, next_line asserts it.    *)
Report(p, next) ==
  IF Exists(procs[p].inv.src) THEN Go(p, next)
  ELSE ExitWith(p, 134)

(* create_table: a semantic error raises SIGUSR1.                          *)
CreateTable(p) ==
  /\ At(p, "table")
  /\ IF procs[p].outcome = "declaration" THEN Report(p, "raise2")
     ELSE Go(p, "output")
  /\ UNCHANGED <<fs, data>>

(* fopen(fname, "w"), or SIGUSR2.                                          *)
OpenOutput(p) ==
  LET name == AsmName(procs[p].inv.src)
  IN  /\ At(p, "output")
      /\ \/ /\ Create(name, Own(p, "asm"), TRUE)
            /\ procs' = [procs EXCEPT ![p].pc = "translate",
                           ![p].output = IF Exists(name) THEN fs[name]
                                         ELSE Own(p, "asm")]
         \/ /\ OutputFails
            /\ Go(p, "raise3")
            /\ UNCHANGED <<fs, data>>

(* The statuses the shell sees of an abort and of a segmentation fault.    *)
Crashes == {134, 139}

(* write_nasm: the code stays in stdio's buffer; a semantic error in a     *)
(* body raises SIGUSR1, a warning is reported and the translation goes on. *)
(* On a call or an argument nobody declared, and on an empty body, the     *)
(* compiler itself is aborted or reads NULL: no handler runs.              *)
Translate(p) ==
  /\ At(p, "translate")
  /\ CASE procs[p].outcome = "body"    -> Report(p, "raise2")
       [] procs[p].outcome = "warning" -> Report(p, "close")
       [] procs[p].outcome = "crash"   -> \E code \in Crashes : ExitWith(p, code)
       [] OTHER                        -> Go(p, "close")
  /\ UNCHANGED <<fs, data>>

(* Mutant: the executable is made before fclose has written the code.      *)
CloseOutputLate(p) ==
  /\ At(p, "close")
  /\ Go(p, IF procs[p].inv.x THEN "assemble" ELSE "no_output")
  /\ UNCHANGED <<fs, data>>

(* fclose(output) writes the code.                                         *)
CloseOutput(p) ==
  LET o == procs[p].output
  IN  /\ At(p, "close")
      /\ \E holds \in Overwritten(data[o].holds, CodeOf(procs[p].text)) :
           data' = [data EXCEPT ![o].holds = holds]
      /\ Go(p, IF procs[p].inv.x THEN "assemble" ELSE "no_output")
      /\ UNCHANGED fs

-----------------------------------------------------------------------------
(* -x: three system() calls whose status nobody reads.                     *)

(* A tool reads file from and creates file to, or fails.                   *)
Tool(from, to, inode) ==
  /\ Exists(from) /\ Cardinality(data[fs[from]].holds) = 1
  /\ data' = Extend(data, inode, Inode(data[fs[from]].holds, TRUE))
  /\ fs' = Extend(fs, to, inode)

ToolMayFail(from) ==
  IF Exists(from) /\ Cardinality(data[fs[from]].holds) = 1 THEN ToolsFail
  ELSE TRUE

(* nasm -f elf64: removes its output when it fails.                        *)
Assemble(p) ==
  LET s == procs[p].inv.src
  IN  /\ At(p, "assemble")
      /\ \/ Tool(AsmName(s), ObjectName(s), Own(p, "object"))
         \/ /\ ToolMayFail(AsmName(s))
            /\ fs' = Removed(fs, ObjectName(s))
            /\ UNCHANGED data
      /\ Go(p, "link")

(* gcc: leaves an earlier executable when it fails.                        *)
Link(p) ==
  LET s == procs[p].inv.src
  IN  /\ At(p, "link")
      /\ \/ Tool(ObjectName(s), ExeName(s), Own(p, "exe"))
         \/ ToolMayFail(ObjectName(s)) /\ UNCHANGED <<fs, data>>
      /\ Go(p, "rm_object")

RemoveObject(p) ==
  /\ At(p, "rm_object")
  /\ fs' = Removed(fs, ObjectName(procs[p].inv.src))
  /\ UNCHANGED data
  /\ Go(p, "no_output")

(* -n: the output is removed again.                                        *)
NoOutput(p) ==
  /\ At(p, "no_output")
  /\ fs' = IF procs[p].inv.n THEN Removed(fs, AsmName(procs[p].inv.src)) ELSE fs
  /\ Go(p, "end")
  /\ UNCHANGED data

(* Mutant: every source is taken for an anonymous one.                     *)
FinishRemoving(p) ==
  /\ At(p, "end")
  /\ fs' = Removed(fs, procs[p].inv.src)
  /\ ExitWith(p, 0)
  /\ UNCHANGED data

(* The anonymous source is removed, the program ends.                      *)
Finish(p) ==
  /\ At(p, "end")
  /\ fs' = IF Anonymous(p) THEN Removed(fs, Anon) ELSE fs
  /\ ExitWith(p, 0)
  /\ UNCHANGED data

-----------------------------------------------------------------------------
(* sig_handler: SIGUSR1 ends with status 2, SIGUSR2 with status 3.         *)

(* Mutant: the handler leaves the output.                                  *)
HandlerOutputNot(p) ==
  /\ \/ At(p, "raise2") /\ Go(p, "exit2")
     \/ At(p, "raise3") /\ Go(p, "exit3")
  /\ UNCHANGED <<fs, data>>

HandlerOutput(p) ==
  /\ \/ At(p, "raise2") /\ Go(p, "exit2")
     \/ At(p, "raise3") /\ Go(p, "exit3")
  /\ fs' = Removed(fs, AsmName(procs[p].inv.src))
  /\ UNCHANGED data

(* Mutant: the handler leaves the anonymous source.                        *)
HandlerExitOnly(p) ==
  /\ \/ At(p, "exit2") /\ ExitWith(p, 2)
     \/ At(p, "exit3") /\ ExitWith(p, 3)
  /\ UNCHANGED <<fs, data>>

HandlerExit(p) ==
  /\ \/ At(p, "exit2") /\ ExitWith(p, 2)
     \/ At(p, "exit3") /\ ExitWith(p, 3)
  /\ fs' = IF Anonymous(p) THEN Removed(fs, Anon) ELSE fs
  /\ UNCHANGED data

Step(p) ==
  \/ StartHelp(p) \/ StartAnonymous(p) \/ StartFile(p)
  \/ CreateAnonymous(p) \/ CopyInput(p) \/ OpenSource(p)
  \/ Parse(p) \/ CreateTable(p)
  \/ OpenOutput(p) \/ Translate(p) \/ CloseOutput(p)
  \/ Assemble(p) \/ Link(p) \/ RemoveObject(p)
  \/ NoOutput(p) \/ Finish(p)
  \/ HandlerOutput(p) \/ HandlerExit(p)

Next == \E p \in Proc : Step(p)

Spec == Init /\ [][Next]_vars

-----------------------------------------------------------------------------
Steps ==
  {"start", "create", "copy", "open", "parse", "table", "output",
   "translate", "close", "assemble", "link", "rm_object", "no_output", "end",
   "raise2", "raise3", "exit2", "exit3", "exited"}

(* p ends, after a run in which it had its files to itself.                *)
EndsAlone(p) == ~Exited(p) /\ Exited(p)' /\ procs'[p].alone /\ ~procs'[p].inv.h
Status(p) == procs'[p].code

(* A status of 0 means that the .asm file is the whole code of the program *)
(* that was given, or that there is none if -n asked so, whatever earlier  *)
(* runs left in the directory; and an executable made by this process is   *)
(* the program's, never that of a half-written or foreign .asm file.       *)
OutputIsOwn ==
  [][\A p \in Proc :
       EndsAlone(p) =>
         LET asm == AsmName(procs'[p].inv.src)
             exe == ExeName(procs'[p].inv.src)
         IN  /\ Status(p) = 0 =>
                  IF procs'[p].inv.n THEN asm \notin DOMAIN fs'
                  ELSE /\ asm \in DOMAIN fs'
                       /\ data'[fs'[asm]].holds = {CodeOf(procs'[p].input)}
             /\ exe \in DOMAIN fs' /\ fs'[exe] = Own(p, "exe") =>
                  data'[fs'[exe]].holds = {CodeOf(procs'[p].input)}]_vars

(* A process that reports a semantic error, or cannot open its output,     *)
(* leaves no .asm file behind: not the beginning that write_nasm produced  *)
(* nor the code of an earlier version of the program.                      *)
ErrorLeavesNoOutput ==
  [][\A p \in Proc :
       EndsAlone(p) /\ procs[p].pc \in {"exit2", "exit3"} =>
         AsmName(procs'[p].inv.src) \notin DOMAIN fs']_vars

(* The files p writes, links or removes as its output.                     *)
OutputNames(p) ==
  LET s == procs[p].inv.src
  IN  {AsmName(s)}
        \cup (IF procs[p].inv.x THEN {ObjectName(s), ExeName(s)} ELSE {})

(* A source is written, replaced or removed only while a process runs one  *)
(* of whose outputs has the very name of that source (prog given with -x,  *)
(* or prog.asm): any other source is only read, whatever runs and fails at *)
(* the same time.                                                          *)
SourcesKept ==
  [][\A s \in Source :
       Exists(s) /\ (\A p \in Proc : Running(p) => s \notin OutputNames(p)) =>
         /\ s \in DOMAIN fs'
         /\ fs'[s] = fs[s]
         /\ data'[fs[s]] = data[fs[s]]]_vars

(* Once every process has ended with a program compiled or a semantic      *)
(* error, the copy of the standard input is gone: also when several        *)
(* processes shared it.                                                    *)
AnonymousGone ==
  (\A p \in Proc : Exited(p) /\ procs[p].code \in {0, 2}) =>
    ~Exists(Anon)

(* How a process ends that has a verdict to give.                          *)
StatusesOf(outcome) ==
  CASE outcome \in {"valid", "warning"}    -> {0}
    [] outcome = "syntax"                  -> {1}
    [] outcome \in {"declaration", "body"} -> {2}
    [] outcome = "crash"                   -> Crashes

(* The status is the verdict on the program given, when no other process   *)
(* used the same files and the file system did not fail (status 3): 0, 1   *)
(* or 2, and a crash only on a program that crashes the compiler, never    *)
(* because its own files were gone.                                        *)
StatusIsVerdict ==
  [][\A p \in Proc :
       EndsAlone(p) /\ Status(p) # 3 =>
         \E outcome \in OutcomesOf(procs'[p].input) :
           Status(p) \in StatusesOf(outcome)]_vars
=============================================================================
