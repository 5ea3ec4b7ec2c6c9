# A verification project for tpcc

`tpcc` compiles TPC, a small C-like language, to x86-64 or, on Darwin, ARM
assembly (`src/src/`).
This directory holds TLA+ models of the compiler's own logic and of the code
it emits, TLC configurations that check them on small instances, and proofs
that TLAPS checks.  `PROJECT.json` lists the runs, what each definition
translates (`map`), mutants that show that each property can fail, findings,
hazards and theorems.

## 1. Inventory

| Component | State | Operations | Correct when |
|---|---|---|---|
| Hash table (`hashtable.c`) | slots, capacity, length | get, set (expands), iterator | it is a finite map; no probe runs forever |
| Symbols tables (`symbols-table.c`) | a table per scope, `max_offset`, `args_size`, function types | one per declaration, in program order | offsets of one scope never overlap and fit the frame; fields lie in their struct; redefinitions stop |
| Calls (`translation.c`: `functioncall_instr`, `stack_param`, `decl_fonct`, `stack_return`, `return_instr`) | at run time: `rsp`, `rbp`, `r15`, the stack | call, arguments, prologue, return, result | caller and callee agree on every byte; the stack is balanced |
| Statements (`suite_instr`, `instr`, `if_else_instr`, `while_instr`; `check_control_flow`) | `labelc`; `scope_level`, `flow_count`, `has_control_flow` | emit a statement; check a function | the code does what the source says; a function with a result returns one |
| Driver (`main.c`, `sem-err.c`) | files: source, `_anonymous.tpc`, `.asm`, `.o`, executable | options, copy of stdin, parse, translate, tools, signal handler | status and files agree; sources survive |
| Expressions (`instr` and the functions it calls for each node kind; `prim_assign`, `print_instr`) | at run time: `rax`, `rbx`, `rdx`, flags, 8-byte slots of the stack | one per node kind | the value is C's; the stack is kept; nothing depends on what the two back ends do differently |
| Struct assignments (`assign_instr`, `struct_assign`, `place_on_top`) | at run time: memory, `r9`, the counter `rax` | copy one byte, between any two places | a copy is field by field and writes nothing else |
| Type checks (`is_prim`, `compare_types`, `functioncall_check`, `return_check` and the checks in the functions that emit code) | the verdict; the two tables are read | one per function that checks | accepted means typed as in C, and the reverse |
| `print`, `reade`, `readc` (`print_instr`, `read_instr`) | at run time: `rsp`, the variable read | one statement each | stack and locals are kept |
| Back ends (`elf64_emit.c`, `arm64_emit.c`) | the output file; at run time: registers, memory, native stack | one per instruction | the ARM code means what the x86-64 code means |
| Lexer, parser, tree (`lexer.l`, `parser.y`, `abstract-tree.c`) | `lineno`, `charno`, `errline`, `rootProg` | tokens, reductions | positions of errors; the shape of trees |
| Symbol printing (`symbol.c`) | none | print | - |

Interactions: `main` calls `yyparse`, `create_table`, `write_nasm` in turn.
The tree is handed over in the global `rootProg`, the tables as a pointer.
`create_table` and `write_nasm` look identifiers up in the hash tables;
`write_nasm` turns the offsets that `create_table` stored into addresses.
Both report errors through `print_err` and `raise(SIGUSR1)`: the handler in
`main.c` removes files and ends the process.  Processes meet in the file
system only.  `translation.c` calls the back end through the macros of
`translation_utils.h`, one call per instruction.

The compiler is sequential, so what is hard is not threads.  It is: one
quantity computed in two places (offsets and addresses, `args_size` in caller
and callee), long sequences of legal calls (expansion, nested statements,
nested calls), values read without having been written (`init_table`, the
upper bytes of `rax`), limits (`MAX_ARGS`, probes at the end of the array,
12-bit immediates), checks spread over many functions, two back ends that must
agree, and several processes on shared file names.  `PROJECT.json` lists these
hazards at their lines.

## 2. Modules

| Module | Models | Checked by |
|---|---|---|
| `SymbolMap` | abstract specification of `hashtable.h`: a finite map whose calls may fail for lack of memory | as `ImplementsMap` |
| `HashTable` | `hashtable.c`, one action per probe, insertion, moved entry | `MCHashTable` |
| `HashTableProofs` | the invariants of `HashTable`, and that it implements `SymbolMap`, proved | `tlapm` |
| `SymbolsTable` | `create_table`, one action per declared name | `MCSymbolsTable` |
| `RecursionTheorems` | sums over finite sets, and functions defined by recursion over a well-founded relation: lemmas | `tlapm` |
| `SymbolsTableProofs` | the layout of `SymbolsTable`, and what an assignment of `Assignments` writes, proved | `tlapm` |
| `Assignments` | assignments and copies of structs on the tables of `SymbolsTable`, byte by byte | `MCAssignments` |
| `CallProtocol` | calls and reads of compiled programs on a stack of bytes | `MCCallProtocol` |
| `CallProtocolProofs` | the invariants of `CallProtocol`, proved | `tlapm` |
| `Statements` | code of structured statements, and `check_control_flow` | `MCStatements` |
| `StatementsProofs` | that the code does what the source says and that `check_control_flow` is sound, proved | `tlapm` |
| `TypeCheck` | the type checks of one statement, one action per function that checks | `MCTypeCheck` |
| `TypeCheckProofs` | what the checks accept, refuse and crash on, proved | `tlapm` |
| `Instructions` | the instructions `translation.c` writes, their operands, and words in memory | - |
| `Machine` | abstract specification of the instructions: what `translation.c` may rely on | as `MeansTheSame`, and in `Expressions` |
| `Arm64` | `arm64_emit.c`: the ARM code of each instruction, executed | `MCArm64` |
| `Expressions` | the code of expressions and of the statements that use one, executed by `Machine` | `MCExpressions` |
| `ExpressionsProofs` | that the code of any expression computes what C says and keeps the stack, proved | `tlapm` |
| `Driver` | `main`, `sig_handler`, `print_err`, several processes | `MCDriver` |
| `DriverProofs` | the properties of `Driver` for any number of processes, proved | `tlapm` |

How they are composed: `HashTable` implements `SymbolMap`, and `SymbolsTable`
relies on that map.  `Assignments` runs on the tables that `SymbolsTable` has
built, in the same behaviour.  `Expressions` puts instructions on the machine
of `Machine`; `Arm64` implements `Machine`, so what holds of the expressions
holds on both processors.  A call is one step of `Expressions`, whose effect is
what `CallProtocol` shows of its steps.

Every action is commented with the code it stands for.  Definitions that
begin with "Mutant" in their comment are wrong on purpose and used only by the
`mutants` of `PROJECT.json`.

**HashTable.**  `table` is the array in use, `new` the one `hashtable_expand`
fills, `pc` and `index` the place in the code.  Hash values are a constant
function, so every pattern of collisions can be chosen.  `malloc` may fail
wherever the code looks at its result.  `SizeModulus` is the width of
`size_t`, so that the overflow test of the expansion is reached.

**SymbolsTable.**  `tables` maps a table's name to its symbols, `max_offset`
and `args_size`; `where` says which list of declarations is being walked.
`malloc` leaves `max_offset` and `args_size` as it finds them, so a fresh table
holds any pair of `HeapInts`, of either sign: this is what the compiled compiler
can do.  `base` remembers the `max_offset` a table's names were laid out from,
and is read by properties only: `FromZero` holds of a table when neither it nor
the table of a struct type that it uses started below 0, and the properties on
places are stated for those.  (With a negative start a local has the offset of a
parameter.)  The module relies on `HashTable` implementing a map and uses a function.
`Address`, `Image` translate offsets as `loc_prim_name`, `struct_assign` do.

**Assignments.**  An address is a distance from `rbp` or from a global; a byte
is the place where it was before the copy, so that a byte in the wrong place is
seen.  `Source` and `Target` are the three ways each in which `struct_assign`
and `place_on_top` compute an address; `FieldByte` is where the rest of the
compiler (`loc_prim_name`, `glob_prim_name`) looks for a field.  Properties
compare the two.  They are stated for assignments that are `Regular`: no struct
parameter is the target, none follows another parameter, neither side is a
global named like a register (`Registers`: the back ends would address the
register), and no table involved started below 0.

**CallProtocol.**  A byte of memory is `<<v, i>>`, byte `i` of value `v`;
values are arguments, results, saved registers and return addresses, so a byte
in the wrong place or overwritten is seen without any arithmetic on contents.
`acts` is the stack of activations; its fields `base`, `frame`, `args`,
`result`, `locals`, `drift` are what the code ought to find and are read by
invariants only.  `Read` is `reade` and `readc`: it aligns `rsp`, pushes the old
value, calls `scanf`, which may change all bytes below `rsp`, and never pops.
`plain` turns false at the first call the code gets wrong (`Irregular`: a call
among the arguments, a struct before a primitive) or `return;` in a void
function; most properties are claimed while it is true, `StackClearOfLocals`
always.  RET or POP of anything but the saved value makes the status `wild`:
what the machine does next is not defined.  Recursion is included: any
function may call any function but `main`.

**Statements.**  Trees are records, lists are linked by `first` and `next` as
siblings are; `Tree` holds all that programs consist of.  `Instr` gives for a
tree and a value of `labelc` the list of instructions, the next `labelc` and
what the C function returns; one definition for each function, tied together by
a recursive function over `Tree`.  The run of the code is
compared with a direct reading of the source (`Run`).  Conditions are taken
from an oracle and are false when it is exhausted.  `Check` threads the three
globals of `translation_utils.c` through the recursion in the same way.

**TypeCheck.**  `todo` is the list of C functions that are still to be called
for the statement, in their order; each action takes the first, and stops,
returns or puts the calls it makes in its place.  What `to_tpc` and
`to_tpc_ftype` leave unwritten in a symbol is `junk`.  `CType` is the type C
gives an expression, by its own rules on declarations and not by the compiler's:
`TypeRule` from the types of the parts.  Tables are looked up by whole names, of
which `a.b` is one (`GetData`, after `get_data`).  In C its `a` is looked up
first and `b` is one of that variable's fields (`Denotes`; `Owner` gives the `a`
of each such name).  The two differ where a local `a` without a field `b` hides
a global struct variable `a` that has one (`HiddenField`).  Declared variables, fields and
parameters have a type that exists (`TablesAssumption`), as `create_table` has
looked it up; nobody looks up the struct that a function returns, so its call
may have no type in C.
`Unchecked` lists what the checks do not look at (below); each of its disjuncts
is needed.

**Instructions, Machine, Arm64.**  An instruction is a tuple of its name and its
operands.  A cell of memory has `CellValues` values, where the processors have
256; nothing in the code depends on their number, nor on its being a power of 2.
`Machine` gives each instruction the meaning both back ends must give it, and is
nondeterministic where they differ: the upper bytes after a byte is written to a
register, a division by 0, what a C function leaves in registers and memory.
Flags after an addition are `Unspecified`, as ARM's `add` does not set them.
`Divides` is the precondition of IDIV, `rdx` 0 and neither operand negative.
In `Arm64`, `Emit` is the expansion of `arm64_emit.c` and `Exec` one ARM
instruction; a step executes one whole expansion.  `native` is the C stack, on
which `printf` and `scanf` run.

**Expressions.**  `todo` is the code of the statement: nodes that `instr` has
still to translate and instructions still to execute.  Translation and execution
alternate; as an expression has no loop, this is the order of the code.
`InC` is C's answer, computed from the tree on integers.  Its `ok` and `exact`
say what the code can be held to: a division of an operand that is not negative
by a positive one, and for conditions a value that is 0 in 8 bytes when it is 0
in 4.  `dirty` remembers that more bytes of a char were read than were written.
A char has the values that MOV al and the clearing of the upper cells give it,
those of an unsigned char.  `Depth` is how deep an expression is nested; the
stack has a word for each level (`StackAssumption`), and variables lie outside
the part of it that expressions use, in cells of their own (`VarsAssumption`),
as `create_table` places them.

**Driver.**  `fs` maps names to inodes, `data` inodes to what they hold; a name
can be removed while a process has the inode open.  Names are triples of
directory, stem and suffix, split where `main` splits them; those of the outputs
are made from the stem of the argument, in the current directory, and are names
like any other: `prog` given with `-x` is the executable to be, `x.asm` is the
output.  The contents of a file written by several processes is the set of texts
and codes that are in it.  A program may be one on which the compiler itself is
aborted or reads NULL (`"crash"`; `TypeCheck` says which statements do this, but for `{}`):
the process ends at once with 134 or 139 and no handler runs.  `-h` and unknown
options end at once.  `alone` remembers, for the properties only, if a process
shared its files with another that ran at the same time on a source of the same
stem; its outputs may be its own source.  `SourceAssumption` leaves out arguments
whose stem is `_anonymous` or empty, and paths are taken to be normalised.
`Tool` makes a new inode, where `nasm` truncates an earlier object: only a
process that is not `alone` could see the difference, by reading that object.

## 3. Runs

| Run | Shows | Bounds, and why they suffice |
|---|---|---|
| `hashtable` | implements `SymbolMap`, calls return, `IInv` holds | capacity 2, 4 keys, 2 values, `SizeModulus` 16: two expansions, wrap-around, full collision and failed expansion all occur |
| `layout_frames` | disjoint variables, locals in the frame, fields in their struct, parameters that tile from `rbp + 24` | one struct of up to 2 fields, 3 parameters or locals: char and int, every order, two structs and a primitive between; zeroed heap blocks and left-overs of either sign |
| `assignments` | copies are field by field and write nothing else; a redefinition always stops | a struct type of up to 2 fields, a global, a function with 2 parameters or locals whose names may hide or repeat others: every pair of places (local, parameter, global, top of the stack) that the code copies between; zeroed blocks only, the theorems speak of every block |
| `calls` | arguments, results, locals, saved registers, `rsp`; no overlap whatever the program | 3 calls and 2 reads, in one another's bodies, arguments or in sequence; 4 functions: int, char, struct, void results, mixed parameters |
| `statements` | code as written, labels, it stops, ends in RET, accepted bodies return | 2 statements, branches of up to 2, and two levels of nesting; 3 truth values let a loop run three times |
| `type_check` | accepted statements are typed as in C, typed ones accepted, crashes only on names that are not declared | every kind of statement; expressions of two levels; locals, globals, two structs, functions of each kind, one with an undeclared result, locals that hide a global and a function, undeclared names, fields of visible and of hidden struct variables |
| `expressions` | the code computes what C says, keeps the stack, and relies on nothing the processors do differently | each operator on 5 x 4 leaves, and on results of other operators; 6 environments; registers and unwritten memory with two contents |
| `back_ends` | `Arm64` implements `Machine`; `main` returns with its caller's registers | all instructions that `translation.c` writes but OR (its `orrs` does not assemble), any two in a row (`MaxSteps`): what one expansion leaves in `x16`, `x17` or the flags is found by the next |
| `driver` | status and files, sources kept, nothing left behind, also when outputs are sources | 2 processes, the standard input with `-x`, the sources `a` with `-n` and `a.asm` with `-x`, whose outputs overwrite both, 4 kinds of program, failing tools and files; a syntax error is met when `a.asm` is compiled a second time, a warning in the mixture of two inputs; the theorems speak of every set of names and programs |

In `expressions` and `back_ends` `CellValues` is 2: an int has 4 bits, a register
8.  The code treats widths only as "4 cells of 8", and small widths reach every
carry, sign and overflow.  `MaxImm` is 10 for the 4095 of ARM's `add`, with
displacements on both sides of it.

`ParamsTile` is stated, for `args_size`, up to the value that `malloc` left there
and for structs whose table was made on a zeroed block; what those left-overs do
is said below.  `statements` leaves out
blocks that are statements of their own and empty bodies, which the code gets
wrong (below).  Deadlock is not checked where a program ends: all models but
`HashTable`, which serves calls forever.

Fairness: `HashTable` and `Statements` assume weak fairness of their next-state
action.  Both are sequential code that the processor goes on executing; no
choice between actions is made fair.  The other modules have safety
properties only.

### Findings

Runs that expect a violation; each is a finding in `PROJECT.json`:

* `nested_call`: a call among the arguments overwrites `r15`, and the caller
  reads the inner result for the outer one.
* `rejected`: `check_control_flow` rejects bodies that return on every path.
* `char_condition`: `if (c)` with a char `c` depends on the upper bytes of `rax`,
  which MOV al leaves as they were and of which all eight are compared.  A
  comparison such as `c == 'b'` reads four of them.

Other deviations, which the models contain (the definition named shows the
code's behaviour) and no run counts as an expected violation:

* Memory.  `symbols-table.c:95`: `init_table` never writes `max_offset` and
  `args_size`.  On a heap block that is not zeroed `args_size` is not "the byte
  size of the function args" (`symbols-table.h:26`), and a function writes its
  result that far from where its caller reads it (`FreshTables`; `ParamsTile`
  holds up to that number).  With a negative number left in `max_offset` the
  locals of a function without parameters, or the fields of a struct, start on
  the other side of `rbp` (`FreshTables`, `BeginVoidFunction`; `FromZero` keeps
  the properties to the other tables).  `symbols-table.c:238`: a struct parameter
  that is not the first has its fields in the bytes of those before it
  (`FieldOffset`, `StructFirst`).  `symbols-table.c:335`:
  `MAX_ARGS + 1` parameters are accepted (`DeclareParam`).
* Calls.  `translation.c:882`: a struct argument before primitive ones is cut by
  the realignment of `rsp` (`Irregular`).  `translation.c:186`: `return;` in a
  void function does not restore `rsp` and `rbp` before RET (`ReturnVoid`).
  `translation.c:436`: `rsp` stays lower after each `reade` or `readc` (`Read`).
* Structs.  `translation.c:755`: the assignment to a struct parameter is stored
  below its first byte (`Target`).
* Values.  `translation.c:230`: a negative dividend is taken for a large
  positive one (`Divides`, `IntOp`).  `translation.c:340`: conditions compare 8
  bytes, of which a sum of opposites, an overflowing product and the result of
  a call fill 4 (`InC`, `FunctionCall`).  `translation.c:299`: `&&` and `||`
  evaluate both operands (`BoolGate`).
* Types.  Accepted though C does not (`Unchecked`): the operands of an expression
  whose value is not used; a struct result of a call as an int argument or
  returned from an int function is taken for an int; `return;` in a function with
  a result; a void call as an operand or a condition, whose type is what the
  symbol held; struct type names used as variables, variables as functions,
  functions as variables; `a.b` where a local `a` of another type hides a global
  struct variable `a` with a field `b`, which is read or written
  (`translation.c:30`, `symbols-table.c:234`, `HiddenField`).  A struct result as a struct argument, or returned
  directly, is rejected (`TypedAccepted`).  `translation.c:921` and `977`: the
  compiler crashes on an undeclared argument or on a call of what is no function.
  It also does on `{}` as a statement (`translation.c:1043`), which makes no type
  check and is no statement of `TypeCheck`; `Driver` has it among the programs
  that crash the compiler.
* Statements.  `translation.c:1049`: of a block that is a statement of its own
  only the first statement is compiled (`BlockInstr`).
  `translation_utils.c:69`: an empty body, or one that ends in a block without a
  return, is accepted (`RecCheck`).
* ARM.  `arm64_emit.c:431`: `orrs` does not exist, so a program with `||` does
  not assemble.  `arm64_emit.c:126`: a global named like a register is taken for
  the register, as `nasm` takes it too.
* Driver.  `main.c:97`: two processes that read the standard input share
  `_anonymous.tpc` (`CopyInput`; the properties are stated for one that is `alone`).  `main.c:150`: with `-n` the `.asm` file is created and
  removed at the end, where `src/README.md:44` says it is not created
  (`OpenOutput`, `NoOutput`).  `main.c:141`: status 0 with `-x` though `nasm` or
  `gcc` failed (`Assemble`, `Link`).  `sem-err.c:29`: `print_err` asserts when
  another process has removed `_anonymous.tpc` (`Report`).  `main.c:126` and `142`:
  nobody compares the names of the outputs with that of the source; `tpcc x.asm`
  truncates its source, and removes it on an error or with `-n`, `tpcc -x prog`
  replaces `prog` by its executable, and `prog.o` is overwritten and removed
  (`AsmName`, `ExeName`, `ObjectName`; `SourcesKept` excepts the sources that are
  an output of a running process).  `translation.c:921`, `978`, `1043`: a crash of
  the compiler leaves a half-written `.asm` file and `_anonymous.tpc`
  (`Translate`).

## 4. Proofs

Each theorem holds for every value of the constants that the named assumptions
of its modules allow: TLC evaluates those on every run.

| Module | Theorem | States | For every |
|---|---|---|---|
| `HashTableProofs` | `TypeCorrect`, `WellFormed`, `NeverOverloaded` | `TypeOK`, `TableWellFormed`, `LoadBounded` | key set, hash function, initial capacity, width of `size_t` |
| | `Refinement` | `ImplementsMap` | the same |
| `SymbolsTableProofs` | `TypeCorrect`, `EveryNameKept` | `TypeOK`, `NoSilentRedefinition` | set of names, number of declarations, content of fresh heap blocks |
| | `Disjoint`, `InsideFrame`, `InsideImage`, `Tile` | `VariablesDisjoint`, `LocalsInFrame`, `FieldsInImage`, `ParamsTile` | the same; each property says itself which tables it speaks of (`FromZero`) |
| | `FieldsCopied`, `NothingElseWritten` | `CopyIsFieldwise`, `OthersKept` | declarations, content of fresh heap blocks and assignment (`Regular`, in the property) |
| `CallProtocolProofs` | `ClearOfLocals` | `StackClearOfLocals` | program: functions, types, frames, number and nesting of calls and reads |
| | `TypeCorrect`, `ArgumentsFound`, `ResultFound`, `LocalsSafe`, `Balanced`, `NeverGoesWild` | `TypeOK`, `ArgumentsAgree`, `ResultOnTop`, `LocalsKept`, `StackBalanced`, `NeverWild` | the same |
| `TypeCheckProofs` | `Invariance`, `WhatIsAcceptedIsTyped`, `WhatIsTypedIsAccepted`, `CrashesExplained` | `IInv`, `AcceptedTyped`, `TypedAccepted`, `CrashesOnUndeclared` | declarations, statement, expressions of any depth, given `FiniteTrees` |
| `StatementsProofs` | `LabelsHold`, `NeverThroughHolds` | `LabelsUnique`, `NeverThrough` | body of any length and depth, outcomes of its conditions, given `FiniteTrees` |
| | `RunsAsWrittenHolds` | `RunsAsWritten` | the same, given `NoBlockStatements` |
| | `AcceptedReturnsHolds`, `AcceptedAlwaysReturns` | `AcceptedReturns`; soundness of `check_control_flow` | the same, given `NoEmptyBodies` |
| `ExpressionsProofs` | `StackKeptHolds`, `BranchAsInCHolds`, `ValuesAsInCHolds`, `NeverUnspecifiedHolds` | `StackKept`, `BranchAsInC`, `ValuesAsInC`, `NeverUnspecified` | expression of any depth, statement that uses it, variables and their values, number of values of a cell, place of the stack, content of registers |
| `DriverProofs` | `SourcesSafe`, `CopyGone`, `ErrorsLeaveNothing`, `VerdictIsStatus`, `OutputSound` | `SourcesKept`, `AnonymousGone`, `ErrorLeavesNoOutput`, `StatusIsVerdict`, `OutputIsOwn` | number of processes, names of sources, invocations, outcomes, failures |

**HashTable.**  `TableWellFormed` alone is not inductive: while a probe is under
way one must know that no slot between the home of the key and `index` is free
or holds the key, and while the table is rehashed, that the new array holds
exactly the entries before the position reached.  `IInv` adds these for each
`pc`; TLC checks it in `hashtable` too.  The refinement uses `IInv`: `Lookup`
finds the only slot of a key, so that a probe that ends at a free slot has shown
that the key is not bound, and moving an entry to the new array changes no
binding.  The iterator needs the correspondence of the slots behind it with the
keys that the map has handed out.

**RecursionTheorems.**  Sizes and counts are sums, which the community modules
define by recursion; `Instr`, `Run`, `Check`, `CType` and `InC` are recursive functions
over trees.  `RecursiveFunction` shows that what is defined by recursion over a
well-founded relation exists and satisfies its rule, by joining the partial
solutions and choosing a minimal place where they would end.  The induction
rules of the library take an operator; induction is put here as the choice of a
minimal counterexample (`WFMin`, `MinimalSubset`, `LeastNatural`).

**SymbolsTable.**  The inductive invariant is `Typed /\ Placed`.  `Typed` holds
without hypothesis.  `Placed` says that the tables whose declarations are
closed do not change any more and have a size (`KnownStructs`); that locals and
parameters each start at or past the end of those declared before them, which
makes two of them disjoint without comparing every pair again (`Layout`); that
the fields of a struct variable are where the struct's table puts them
(`FieldsPlaced`); and that the offset of parameter `i` is the sum of the sizes
before it (`ArgsPlaced`).  `NoSilentRedefinition` counts: `Counted` relates the
number of declarations walked to the number of symbols, table by table.

`Placed` speaks only of the tables that are in order (`Orderly`, what `FromZero`
says): with a negative left-over the locals of a function without parameters
start among the saved registers, and nothing in the code excludes one
(`hashtable.c:132` frees blocks that `symbols-table.c:95` may get).  That a table
is in order is decided while it grows: it can only stop being so
(`OrderlyBefore`), so what the invariant says of the tables that are in order now
was true of them before.  Nothing is supposed of `malloc`.

**Assignments.**  `CopyInv` says what a copy has written so far: the bytes that
its counter has passed, each at the place of the target that the same byte of
the source has in the source (`Place`), and nothing else.  That `struct_assign`
reaches those places is arithmetic on the sides; that a field lies at the same
distance in both, that the target lies inside its own variable, and that no
other variable does, come from `FieldsInImage`, `LocalsInFrame` and
`VariablesDisjoint`.  One more fact on the tables is needed, the converse of
`FieldsPlaced`: every field of the struct has a symbol next to the variable
(`Complete`), or else a field could be copied that the rest of the compiler never
finds.  `Regular` excludes globals named like a register, as `rbp` is
(`RegisterAssumption`), or a byte of that global would be one of the frame.

**CallProtocol.**  The invariant has three parts.  `Typed`: the activations are
records of their types.  `Stacked`, for every program: frames are nested, each
one below the floor of those that wait for it (`Nested`, `Current`); what a
running function saved is where its epilogue looks (`Saved`, `FramesLinked`);
and the bytes of a return address are in memory only where its call pushed them
(`ReturnsUnique`).  The last is needed because `return;` in a void function
executes RET with `rsp` at the end of its locals: what is found there must be
shown not to be its return address, or `rsp` would leave the frame with the
status still `run`.  `Exact`, while `plain`: every argument, result and local is
where the other side expects it, and `rsp`, `r15` have the values the code
counts on.  `StackClearOfLocals` follows from `Stacked`, the others from
`Exact`.  Each action has a lemma of its own.  Reads and writes of bytes that
belong to nobody are `Quiet`, and what is at or above the floor of an activation
is kept by them.

**TypeCheck.**  The three properties speak of the verdict, and nothing about
the verdict is inductive while calls are left.  `IInv` therefore gives every
call a meaning, the condition under which it returns (`Returns`): `is_prim` if
the expression is a primitive, `instr` if it has a type in C, the n-th turn of
`functioncall_check` if the arguments from the n-th on fit.  While nothing has
stopped the compiler and the statement is not `Unchecked`, the statement is typed
if all calls that are left return; and if it is typed and `PassesStruct` does
not hold, they all do.  `Arises` says that every call is about an expression
within the statement, so that an exception found in a part is one of the whole.
Each action is then `Justified`: the calls it puts in the place of one return
just if that one does, or it stops where a typed statement does not lead.  The
two directions fail for different reasons, so both sets of exceptions are
needed.  A name that denotes something is looked up as what it denotes, except
a hidden field, which denotes nothing and is `Unchecked` (`Declared`): each action
is first taken without one (the lemmas that end in `Visible`).

`FiniteTrees` says that the relation of part to whole is well founded: bison
builds finite trees.  `CType` and `Within` are recursive functions, and that they
satisfy their rules follows from `RecursiveFunction`.
`ExprAssumption` and `StmtAssumption` are the shapes of the grammar,
`TablesAssumption` what `create_table` has looked up and stored.  The number of
parameters is not bounded.

**Statements.**  `InstrOwnsLabels`: the code of a tree compiled with `labelc` = l
has labels numbered from l to below the `labelc` it leaves, each in one place, and
jumps to labels of its own; `LabelsUnique` is this for a body.  `NeverThrough`
needs that a piece of code for which `suite_instr` returns 1 ends in a RET
(`BodyEnds`), and that every jump stays inside.

`RunsAsWritten` is a compiler correctness theorem.  A meaning of a place of the
code is a function from the truth values left to an outcome: what the run from
there on adds to the trace, and whether it returns.  `Holds` says what each
instruction asks of the meanings of the place before it, of the one after it
and of its label.  `EveryTranslated`, by induction on the tree: however the
meaning after a statement is given, the places of its code have meanings that
agree and the first one is what the source says (`Run`) followed by it.  A loop
has the meaning of enough rounds, one for each truth value left, and one more
changes nothing (`LoopStable`).  The invariant `Follows` is then that the trace so
far, followed by the meaning of the place reached, is the trace wanted.

`AcceptedReturns` needs the soundness of `check_control_flow` besides.  `Sound`
says when `rec_check` tells the truth inside a branch, where it counts what it
has left open in `flow_count`, and `SoundBody` the same at the level of the body,
where `flow_count` 0 is only reached by a return on every path: a group that
does not return leaves it one too high for good, which is also why bodies are
rejected that do return (section 3).

`FiniteTrees`: bison builds finite trees.  `NoBlockStatements` leaves out blocks
between other statements, of which only the first statement is compiled, and
`NoEmptyBodies` bodies without statements, which are accepted: the theorems would be false
there, as section 3 says.

**Expressions.**  The proof follows the code, item by item, through states of the
machine.  `Step(env, A, x, B)`: the item `x`, a node or an instruction, may be
executed in each of the states `A` and leads to states of `B`; `Chain` says the
same of a sequence of items.  What a node does is its contract `Yields`: one
word more on the stack, which stands for the value C gives it (`Stands`), `rbp`
and everything from the old `rsp` up as before, provided that there is room for
its depth (`Fits`).  For each kind of node a lemma shows that the code `instr`
writes for it is a chain with the same contract, given that of its operands;
for each kind of statement, that its code ends in a state C allows (`Finals`).
The inductive invariant `Good` says that what is left of the code is a chain from
the present state to such an end.  To replace a node by its code keeps it, to
execute an instruction goes one step along the chain.  No induction on the
expression is needed there: a contract is assumed of the operands, and their code
is in turn replaced.  The invariants are then read off `Good`, as `Chain` contains
the conditions under which IDIV, SETcc and Jcc may be executed.

`Stands` is where the arithmetic is: the four lower cells of the word are those of
the value, and it is 0 in all eight exactly if the value is 0, when `exact`.  That
ADD, SUB, IMUL, NEG, IDIV, AND, OR and the comparisons keep it is shown for any
number of values of a cell of at least 2.  That `InC` satisfies its rule follows
from `RecursiveFunction` along `Depth`.  A state of which nothing is claimed, as a
char was read too wide or a division has no value in C, is `loose`: there, too,
the stack is kept.

**Driver.**  `Linked` and `Opened` say that an inode is reached by, and opened
for, one name only: the source it was given as, or the output a process made it
for (`OneName`).  What a step changes is then told by names alone (`StepEffect`):
it removes, writes or makes a file of a kind the process owns, so a source whose
name is not among them keeps its inode and its bytes, `SourcesKept`.  `CopyOwned`
says that as long as the copy of the standard input exists some process still
owes its removal, or failed.  `AloneKept`, for a process that is `alone`: what it
was given, has parsed, found out and written is still so (`RivalsKnown` excludes
that another writes to its files unseen), until it writes over it itself.

Only model-checked, and why:

* `Arm64` implements `Machine`, `ExitRestores`: the expansions are executed by
  `FoldLeft` over sequences of instructions, whose laws need induction over data.
* Liveness of `HashTable` and `Statements`.

## 5. Not modelled

* Lexer: flex generates it, and its counters reach the texts of messages only.
* Grammar actions, and the printing of trees and symbols: the shapes of the trees
  are the inputs of `Statements`, `Expressions`, `TypeCheck`; the rest is output.
* The text of operands and its parsing in `arm64_emit.c`; section headers and the
  reservation of globals.
* The conversions of `printf` and `scanf`, which are the C library's.
* Lengths of names and of the character buffers (`main.c:74`, `sem-err.c:26`).
* Warnings: they change neither the code nor the status.

## 6. Plan

Done, in this order: `SymbolMap`, `HashTable`, `HashTableProofs`,
`SymbolsTable`, `CallProtocol`, `Driver`, `Statements`, `Instructions`,
`Machine`, `Arm64`, `Expressions`, `Assignments`, `TypeCheck`; then the proofs:
`RecursionTheorems`, `SymbolsTableProofs`, `DriverProofs`,
`CallProtocolProofs`, `TypeCheckProofs`, `StatementsProofs`, `ExpressionsProofs`.

What is left would need the model changed first: `Arm64` with the program
counter of its expansions as a variable, so that a step is one instruction and
an invariant can be stated in the middle of one.
