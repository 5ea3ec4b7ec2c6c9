---------------------------- MODULE SymbolsTable ----------------------------
(***************************************************************************)
(* create_table (src/src/symbols-table.c): the walk over the declarations  *)
(* of a program that gives every symbol its type and its offset.  One      *)
(* action per declared name.  A table's hash table is the finite map that  *)
(* HashTable.tla implements; the addresses are those translation.c derives *)
(* from the offsets.                                                       *)
(***************************************************************************)
EXTENDS Integers, Sequences, FiniteSets, Functions

CONSTANTS
  Id,          \* identifiers
  StructName,  \* the identifiers programs use for struct types
  Fun,         \* the identifiers programs use for functions
  HeapInts,    \* the pairs of ints that a fresh malloc block may hold
  MaxArgs,     \* MAX_ARGS (20)
  Returns,     \* bound: the return types programs use
  MaxNames     \* bound: the names a program declares, by kind of list

ASSUME NamesAssumption == StructName \subseteq Id /\ Fun \subseteq Id
ASSUME HeapAssumption == HeapInts \subseteq Int \X Int /\ HeapInts # {}
ASSUME LimitAssumption == MaxArgs \in Nat
ASSUME BoundAssumption ==
  MaxNames \in [{"types", "struct", "frame", "functions"} -> Nat]
ASSUME ReturnsAssumption ==
  Returns \subseteq {"int", "char", "void"} \cup StructName

VARIABLES
  tables,   \* the global table and its children, by table name
  ftypes,   \* the TPCType of each function: its argument and return types
  current,  \* the name of the table being filled
  where,    \* the kind of declaration list being walked
  status,   \* "run", "sem_err" (SIGUSR1 was raised) or "done"
  decls     \* how many names were declared, by kind of list

vars == <<tables, ftypes, current, where, status, decls>>

Prim == {"int", "char"}

Global == <<"global">>
StructTable(s) == <<"struct", s>>
FuncTable(f) == <<"func", f>>

(* The keys of a table: x, and x.f for a field f of a struct variable x.   *)
Var(x) == <<x>>
Field(x, f) == <<x, f>>

Size(type) == IF type = "int" THEN 4 ELSE 1

(* create_data                                                             *)
Data(kind, type, offset) == [kind |-> kind, type |-> type, offset |-> offset]

(* init_table: malloc leaves max_offset and args_size as it finds them.    *)
(* base remembers, for the properties, the max_offset from which the names *)
(* of a table, but for parameters, are laid out.                           *)
FreshTables ==
  {[syms |-> <<>>, max_offset |-> h[1], args_size |-> h[2], base |-> h[1]] :
     h \in HeapInts}

(* hashtable_set of a key that is not bound.                               *)
Bind(syms, k, data) ==
  [x \in DOMAIN syms \cup {k} |-> IF x = k THEN data ELSE syms[x]]

Fields(st) == DOMAIN st.syms

FieldBytes(st) == SumFunction([k \in Fields(st) |-> Size(st.syms[k].type)])

Init ==
  /\ \E t \in FreshTables : tables = [n \in {Global} |-> t]
  /\ ftypes = <<>>
  /\ current = Global
  /\ where = "types"
  /\ status = "run"
  /\ decls = [list \in DOMAIN MaxNames |-> 0]

-----------------------------------------------------------------------------
(* Mutant: the offset is taken after max_offset has grown.                 *)
WithPrimAfter(t, type, x, param) ==
  LET offset == IF param THEN -t.max_offset - 16
                ELSE t.max_offset + Size(type)
  IN  [syms |-> Bind(t.syms, Var(x), Data("prim", type, offset)),
       max_offset |-> t.max_offset + Size(type),
       args_size |-> IF param THEN t.args_size + Size(type) ELSE t.args_size,
       base |-> t.base]

(* add_typesvars, for one name of a declaration of a primitive type.       *)
WithPrim(t, type, x, param) ==
  LET offset == IF param THEN -t.max_offset - 16 ELSE t.max_offset
  IN  [syms |-> Bind(t.syms, Var(x), Data("prim", type, offset)),
       max_offset |-> t.max_offset + Size(type),
       args_size |-> IF param THEN t.args_size + Size(type) ELSE t.args_size,
       base |-> t.base]

(* Mutant: a local's field is placed without its own size.                 *)
FieldOffsetNoSize(t, st, k, scope) ==
  LET d == st.syms[k]
  IN  CASE scope = "types"  -> d.offset
        [] scope = "params" -> -d.offset - 24
        [] scope = "locals" -> (st.max_offset - d.offset) + t.max_offset

(* The offset of a struct variable's field in the scope of the variable.   *)
FieldOffset(t, st, k, scope) ==
  LET d == st.syms[k]
  IN  CASE scope = "types"  -> d.offset
        [] scope = "params" -> -d.offset - 24
        [] scope = "locals" ->
             (st.max_offset - d.offset - Size(d.type)) + t.max_offset

(* Mutant: the fields are added, the variable itself is not.               *)
WithStructNoSelf(t, s, st, x, scope) ==
  LET fields == {Field(x, k[1]) : k \in Fields(st)}
      field(k) == Data("prim", st.syms[<<k[2]>>].type,
                       FieldOffset(t, st, <<k[2]>>, scope))
  IN  [syms |-> [k \in DOMAIN t.syms \cup fields |->
                   IF k \in fields THEN field(k) ELSE t.syms[k]],
       max_offset |-> t.max_offset + st.max_offset,
       args_size |-> t.args_size + FieldBytes(st),
       base |-> t.base]

(* Mutant: the struct's bytes are not added to max_offset.                 *)
WithStructNoAdvance(t, s, st, x, scope) ==
  LET fields == {Field(x, k[1]) : k \in Fields(st)}
      field(k) == Data("prim", st.syms[<<k[2]>>].type,
                       FieldOffset(t, st, <<k[2]>>, scope))
  IN  [t EXCEPT !.syms =
         [k \in DOMAIN t.syms \cup {Var(x)} \cup fields |->
            IF k = Var(x) THEN Data("struct", s, t.max_offset)
            ELSE IF k \in fields THEN field(k) ELSE t.syms[k]]]

(* add_typesvars, for one name of a declaration of a struct type.          *)
WithStruct(t, s, st, x, scope) ==
  LET param == scope = "params"
      fields == {Field(x, k[1]) : k \in Fields(st)}
      self == Data("struct", s,
                   IF param THEN -t.max_offset - 16 ELSE t.max_offset)
      field(k) == Data("prim", st.syms[<<k[2]>>].type,
                       FieldOffset(t, st, <<k[2]>>, scope))
  IN  [syms |-> [k \in DOMAIN t.syms \cup {Var(x)} \cup fields |->
                   IF k = Var(x) THEN self
                   ELSE IF k \in fields THEN field(k) ELSE t.syms[k]],
       max_offset |-> t.max_offset + st.max_offset,
       args_size |-> IF param THEN t.args_size + FieldBytes(st)
                     ELSE t.args_size,
       base |-> t.base]

(* Another name, within the bound.                                         *)
Declares(list) ==
  /\ status = "run"
  /\ decls[list] < MaxNames[list]
  /\ decls' = [decls EXCEPT ![list] = @ + 1]

List == IF where \in {"params", "locals"} THEN "frame" ELSE where

(* print_err and raise(SIGUSR1): the handler exits with status 2.          *)
SemErr ==
  /\ status' = "sem_err"
  /\ UNCHANGED <<tables, ftypes, current, where>>

(* Mutant: add_symbol does not look for an earlier declaration.            *)
DefinedNever(x) == FALSE

Defined(x) == Var(x) \in DOMAIN tables[current].syms

DeclarePrim(type, x) ==
  /\ where \in {"types", "struct", "locals"}
  /\ Declares(List)
  /\ IF Defined(x) THEN SemErr
     ELSE /\ tables' = [tables EXCEPT ![current] = WithPrim(@, type, x, FALSE)]
          /\ UNCHANGED <<ftypes, current, where, status>>

(* get_table_by_name raises when there is no such struct.                  *)
DeclareStructVar(s, x) ==
  /\ where \in {"types", "locals"}
  /\ Declares(List)
  /\ IF Defined(x) \/ StructTable(s) \notin DOMAIN tables THEN SemErr
     ELSE /\ tables' = [tables EXCEPT ![current] =
                          WithStruct(@, s, tables[StructTable(s)], x, where)]
          /\ UNCHANGED <<ftypes, current, where, status>>

-----------------------------------------------------------------------------
(* add_declstruct: the struct's name is a symbol of the global table, its  *)
(* fields are those of a table of its own.                                 *)
BeginStruct(s) ==
  /\ Declares("types")
  /\ where = "types"
  /\ IF Defined(s) THEN SemErr
     ELSE /\ \E t \in FreshTables :
               tables' = Bind([tables EXCEPT ![Global].syms =
                                 Bind(@, Var(s), Data("declstruct", s, 0))],
                              StructTable(s), t)
          /\ current' = StructTable(s)
          /\ where' = "struct"
          /\ UNCHANGED <<ftypes, status>>

(* The grammar asks for one field at least.                                *)
EndStruct ==
  /\ status = "run"
  /\ where = "struct"
  /\ Fields(tables[current]) # {}
  /\ current' = Global
  /\ where' = "types"
  /\ UNCHANGED <<tables, ftypes, status, decls>>

-----------------------------------------------------------------------------
(* add_declfoncts: the child table, to_tpc_ftype, then the function symbol *)
(* in the global table, then the locals.                                   *)

(* add_symbol of the function once its type is known.                      *)
WithFunction(ts, f) ==
  [ts EXCEPT ![Global].syms = Bind(@, Var(f), Data("func", f, 0))]

(* Mutant: DEFAULT_ARGS_OFFSET is forgotten.                               *)
BeginFunctionAtZero(f, ret) ==
  /\ Declares("functions")
  /\ where \in {"types", "functions"}
  /\ \E t \in FreshTables :
       tables' = Bind(tables, FuncTable(f),
                      [t EXCEPT !.max_offset = 0, !.base = 0])
  /\ ftypes' = Bind(ftypes, f, [ret |-> ret, args |-> <<>>])
  /\ current' = FuncTable(f)
  /\ where' = "params"
  /\ UNCHANGED status

BeginFunction(f, ret) ==
  /\ Declares("functions")
  /\ where \in {"types", "functions"}
  /\ \E t \in FreshTables :
       tables' = Bind(tables, FuncTable(f),
                      [t EXCEPT !.max_offset = 8, !.base = 0])
  /\ ftypes' = Bind(ftypes, f, [ret |-> ret, args |-> <<>>])
  /\ current' = FuncTable(f)
  /\ where' = "params"
  /\ UNCHANGED status

(* (void): to_tpc_ftype returns before it sets max_offset.                 *)
BeginVoidFunction(f, ret) ==
  /\ Declares("functions")
  /\ where \in {"types", "functions"}
  /\ IF Var(f) \in DOMAIN tables[Global].syms THEN SemErr
     ELSE /\ \E t \in FreshTables :
               tables' = WithFunction(Bind(tables, FuncTable(f), t), f)
          /\ ftypes' = Bind(ftypes, f, [ret |-> ret, args |-> <<>>])
          /\ current' = FuncTable(f)
          /\ where' = "locals"
          /\ UNCHANGED status

(* One parameter.  The limit is checked with >, before argc++.             *)
DeclareParam(type, x) ==
  LET f == current[2]
      args == ftypes[f].args
      t == tables[current]
  IN  /\ Declares("frame")
      /\ where = "params"
      /\ IF \/ Len(args) > MaxArgs
            \/ Defined(x)
            \/ type \notin Prim /\ StructTable(type) \notin DOMAIN tables
         THEN SemErr
         ELSE /\ ftypes' = [ftypes EXCEPT ![f].args =
                              Append(@, [type |-> type, id |-> x])]
              /\ tables' = [tables EXCEPT ![current] =
                   IF type \in Prim THEN WithPrim(t, type, x, TRUE)
                   ELSE WithStruct(t, type, tables[StructTable(type)], x, where)]
              /\ UNCHANGED <<current, where, status>>

EndParams ==
  LET f == current[2]
  IN  /\ status = "run"
      /\ where = "params"
      /\ Len(ftypes[f].args) > 0
      /\ IF Var(f) \in DOMAIN tables[Global].syms THEN SemErr
         ELSE /\ tables' = WithFunction(
                             [tables EXCEPT ![current].max_offset = 0], f)
              /\ where' = "locals"
              /\ UNCHANGED <<ftypes, current, status>>
      /\ UNCHANGED decls

EndFunction ==
  /\ status = "run"
  /\ where = "locals"
  /\ current' = Global
  /\ where' = "functions"
  /\ UNCHANGED <<tables, ftypes, status, decls>>

(* The end of create_table: a program has one function at least.           *)
Finish ==
  /\ status = "run"
  /\ where = "functions"
  /\ status' = "done"
  /\ UNCHANGED <<tables, ftypes, current, where, decls>>

Next ==
  \/ \E type \in Prim, x \in Id : DeclarePrim(type, x)
  \/ \E s \in StructName, x \in Id : DeclareStructVar(s, x)
  \/ \E s \in StructName : BeginStruct(s)
  \/ EndStruct
  \/ \E f \in Fun, ret \in Returns :
        BeginFunction(f, ret) \/ BeginVoidFunction(f, ret)
  \/ \E type \in Prim \cup StructName, x \in Id : DeclareParam(type, x)
  \/ EndParams \/ EndFunction \/ Finish

Spec == Init /\ [][Next]_vars

-----------------------------------------------------------------------------
(* Where translation.c finds a variable, relative to rbp.                  *)

(* loc_prim_name: the address of a primitive variable's first byte.        *)
Address(d) == IF d.offset >= 0 THEN -(d.offset + Size(d.type)) ELSE -d.offset

(* struct_assign: the address of a struct variable's first byte.           *)
Image(d, size) == IF d.offset >= 0 THEN -(d.offset + size) ELSE -d.offset

StructSize(s) == tables[StructTable(s)].max_offset

Extent(d) == IF d.kind = "struct" THEN StructSize(d.type) ELSE Size(d.type)

FirstByte(d) ==
  IF d.kind = "struct" THEN Image(d, StructSize(d.type)) ELSE Address(d)

Bytes(d) == FirstByte(d) .. FirstByte(d) + Extent(d) - 1

Functions == {n \in DOMAIN tables : n[1] = "func"}

Variables(t) == {k \in DOMAIN t.syms : Len(k) = 1}

(* A parameter list whose only struct, if any, comes first.                *)
StructFirst(f) ==
  \A i \in 2 .. Len(ftypes[f].args) : ftypes[f].args[i].type \in Prim

PrimData == [kind : {"prim"}, type : Prim, offset : Int]
NamedData == [kind : {"struct", "declstruct", "func"}, type : Id, offset : Int]

(* The type invariant.                                                     *)
TypeOK ==
  /\ Global \in DOMAIN tables
  /\ \A n \in DOMAIN tables :
        /\ n \in {Global} \cup {StructTable(s) : s \in StructName}
                         \cup {FuncTable(f) : f \in Fun}
        /\ tables[n].max_offset \in Int /\ tables[n].args_size \in Int
        /\ tables[n].base \in Int
        /\ \A k \in DOMAIN tables[n].syms :
              /\ Len(k) \in {1, 2} /\ \A i \in 1 .. Len(k) : k[i] \in Id
              /\ tables[n].syms[k] \in PrimData \cup NamedData
              /\ Len(k) = 2 => /\ Var(k[1]) \in DOMAIN tables[n].syms
                               /\ tables[n].syms[Var(k[1])].kind = "struct"
  /\ DOMAIN ftypes \subseteq Fun
  /\ current \in DOMAIN tables
  /\ where \in {"types", "struct", "params", "locals", "functions"}
  /\ status \in {"run", "sem_err", "done"}
  /\ DOMAIN decls = DOMAIN MaxNames
  /\ \A list \in DOMAIN decls : decls[list] \in 0 .. MaxNames[list]

(* The struct types of the variables of a table.                           *)
Used(t) == {t.syms[k].type : k \in {v \in Variables(t) :
                                      t.syms[v].kind = "struct"}}

(* Neither the table of function n, where its locals start from what       *)
(* malloc left, nor that of a struct type it uses started below 0: the     *)
(* sign of an offset tells locals from parameters.                         *)
FromZero(n) ==
  /\ n # Global => tables[n].base >= 0
  /\ \A s \in Used(tables[n]) : tables[StructTable(s)].base >= 0

(* Two variables of a function never share a byte of the stack: writing    *)
(* one (loc_prim_name, struct_assign) leaves the others alone.             *)
VariablesDisjoint ==
  \A n \in Functions :
    LET t == tables[n] IN
    FromZero(n) =>
      \A j, k \in Variables(t) :
        j # k => Bytes(t.syms[j]) \cap Bytes(t.syms[k]) = {}

(* The locals of a function stay within the max_offset bytes below rbp     *)
(* that its prologue (decl_vars) reserves, and its parameters above the    *)
(* saved rbp, the return address and the saved r15.                        *)
LocalsInFrame ==
  \A n \in Functions :
    LET t == tables[n] IN
    FromZero(n) =>
      \A k \in Variables(t) :
        LET d == t.syms[k] IN
        IF d.offset < 0 THEN FirstByte(d) >= 24
        ELSE Bytes(d) \subseteq -t.max_offset .. -1

(* Where the field of key k is, from the first byte of its variable.       *)
FieldPlace(n, k) ==
  LET t == tables[n]
      x == t.syms[Var(k[1])]
  IN  IF n = Global THEN t.syms[k].offset
      ELSE Address(t.syms[k]) - Image(x, StructSize(x.type))

FieldInImage(n, k) ==
  LET t  == tables[n]
      st == tables[StructTable(t.syms[Var(k[1])].type)]
      at == FieldPlace(n, k)
  IN  /\ at = st.syms[Var(k[2])].offset
      /\ at >= 0 /\ at + Size(t.syms[k].type) <= st.max_offset

FieldKeys(t) == {k \in DOMAIN t.syms : Len(k) = 2}

(* A field x.f lies in the bytes of x at the place f has in every variable *)
(* of the struct type, so that a copy of the bytes (struct_assign) is a    *)
(* copy of the fields, between locals, globals and a first parameter.      *)
FieldsInImage ==
  \A n \in DOMAIN tables : \A k \in FieldKeys(tables[n]) :
    FromZero(n) /\ (n = Global \/ StructFirst(n[2])) => FieldInImage(n, k)

(* The bytes the arguments before the i-th one take.                       *)
ArgExtent(a) == IF a.type \in Prim THEN Size(a.type) ELSE StructSize(a.type)

ArgsBefore(args, i) ==
  SumFunction([j \in 1 .. i - 1 |-> ArgExtent(args[j])])

(* The struct tables made on a block that malloc returned zeroed.          *)
Zeroed(s) == FieldBytes(tables[StructTable(s)]) = StructSize(s)

(* The parameters lie side by side from rbp + 24, in the order of the      *)
(* list.  When every struct among them was laid out on a zeroed block,     *)
(* args_size is what they take, so that stack_return writes the result     *)
(* right above them, but for the value malloc left in args_size.           *)
ParamsTile ==
  \A f \in DOMAIN ftypes :
    LET t == tables[FuncTable(f)]
        args == ftypes[f].args
        zeroed == \A i \in DOMAIN args :
                     args[i].type \in Prim \/ Zeroed(args[i].type)
    IN  FromZero(FuncTable(f)) =>
        /\ \A i \in DOMAIN args :
             FirstByte(t.syms[Var(args[i].id)]) = 24 + ArgsBefore(args, i)
        /\ zeroed => \E h \in HeapInts :
             t.args_size = h[2] + ArgsBefore(args, Len(args) + 1)

(* Every name a compiled program declares has a symbol of its own: a       *)
(* second declaration in the same scope stops the compilation (add_symbol) *)
(* instead of replacing the first.                                         *)
NoSilentRedefinition ==
  status = "done" =>
    SumFunction(decls) =
      SumFunction([n \in DOMAIN tables |-> Cardinality(Variables(tables[n]))])
=============================================================================
