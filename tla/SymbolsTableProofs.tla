------------------------- MODULE SymbolsTableProofs -------------------------
(***************************************************************************)
(* Proofs about SymbolsTable, for every set of identifiers, every bound on *)
(* the programs and every content of fresh malloc blocks; and, from what   *)
(* they say of the tables, about Assignments: whatever the declarations,   *)
(* the copy of a struct writes the bytes of its target and no other, and   *)
(* copies fields to fields.                                                *)
(***************************************************************************)
EXTENDS Assignments, RecursionTheorems

-----------------------------------------------------------------------------
(* The inductive invariant, by parts.  The first: the control of the walk. *)

TableNames == {Global} \cup {StructTable(s) : s \in StructName}
                       \cup {FuncTable(f) : f \in Fun}

Arg == [type : Prim \cup StructName, id : Id]

Walk ==
  /\ Global \in DOMAIN tables /\ current \in DOMAIN tables
  /\ tables = [n \in DOMAIN tables |-> tables[n]]
  /\ DOMAIN tables \subseteq TableNames /\ IsFiniteSet(DOMAIN tables)
  /\ where \in {"types", "struct", "params", "locals", "functions"}
  /\ status \in {"run", "sem_err", "done"}
  /\ decls \in [DOMAIN MaxNames -> Nat]
  /\ \A list \in DOMAIN MaxNames : decls[list] <= MaxNames[list]
  /\ where \in {"types", "functions"} => current = Global
  /\ where = "struct" => \E s \in StructName : current = StructTable(s)
  /\ where \in {"params", "locals"} => \E f \in Fun : current = FuncTable(f)
  /\ where \in {"types", "struct"} => \A f \in Fun : FuncTable(f) \notin DOMAIN tables

(* The types of the functions are those of the function tables.            *)
FunctionTypes ==
  /\ DOMAIN ftypes \subseteq Fun
  /\ ftypes = [f \in DOMAIN ftypes |-> ftypes[f]]
  /\ \A f \in Fun : FuncTable(f) \in DOMAIN tables <=> f \in DOMAIN ftypes
  /\ \A f \in DOMAIN ftypes :
        /\ ftypes[f] = [ret |-> ftypes[f].ret, args |-> ftypes[f].args]
        /\ ftypes[f].args \in Seq(Arg)

SymKeys == {Var(x) : x \in Id} \cup {Field(x, f) : x \in Id, f \in Id}

TableTyped(t) ==
  /\ t = [syms |-> t.syms, max_offset |-> t.max_offset,
          args_size |-> t.args_size, base |-> t.base]
  /\ t.max_offset \in Int /\ t.args_size \in Int /\ t.base \in Int
  /\ t.syms = [k \in DOMAIN t.syms |-> t.syms[k]]
  /\ DOMAIN t.syms \subseteq SymKeys /\ IsFiniteSet(DOMAIN t.syms)
  /\ \A k \in DOMAIN t.syms : t.syms[k] \in PrimData \cup NamedData
  /\ \A x, f \in Id :
        Field(x, f) \in DOMAIN t.syms =>
          Var(x) \in DOMAIN t.syms /\ t.syms[Var(x)].kind = "struct"

(* A struct has plain fields only.                                         *)
PlainFields(st) ==
  \A k \in DOMAIN st.syms : (\E f \in Id : k = Var(f)) /\ st.syms[k] \in PrimData

TablesTyped ==
  /\ \A n \in DOMAIN tables : TableTyped(tables[n])
  /\ \A s \in StructName :
        StructTable(s) \in DOMAIN tables => PlainFields(tables[StructTable(s)])

Typed == Walk /\ FunctionTypes /\ TablesTyped

-----------------------------------------------------------------------------
(* Lemmas about the operators.                                             *)

(* The kinds of names and of keys never collide.                           *)
LEMMA KeysApart ==
  ASSUME NEW x, NEW y, NEW f, NEW g
  PROVE  /\ Var(x) = Var(y) <=> x = y
         /\ Field(x, f) = Field(y, g) <=> x = y /\ f = g
         /\ Var(x) # Field(y, f)
         /\ Var(x)[1] = x /\ Field(x, f)[1] = x /\ Field(x, f)[2] = f
         /\ Len(Var(x)) = 1 /\ Len(Field(x, f)) = 2
BY DEF Var, Field

(* The names of the tables never collide.                                  *)
LEMMA NamesApart ==
  ASSUME NEW s, NEW r
  PROVE  /\ StructTable(s) = StructTable(r) <=> s = r
         /\ FuncTable(s) = FuncTable(r) <=> s = r
         /\ StructTable(s) # FuncTable(r)
         /\ Global # StructTable(s) /\ Global # FuncTable(s)
         /\ StructTable(s)[2] = s /\ FuncTable(s)[2] = s
         /\ Global[1] # "func" /\ StructTable(s)[1] # "func"
         /\ FuncTable(s)[1] = "func"
BY DEF StructTable, FuncTable, Global

(* Bind changes one key and adds it when it is new.                        *)
LEMMA BindEffect ==
  ASSUME NEW syms, NEW k, NEW data
  PROVE  /\ DOMAIN Bind(syms, k, data) = DOMAIN syms \cup {k}
         /\ Bind(syms, k, data)[k] = data
         /\ \A x \in DOMAIN syms : x # k => Bind(syms, k, data)[x] = syms[x]
         /\ Bind(syms, k, data) = [x \in DOMAIN Bind(syms, k, data) |-> Bind(syms, k, data)[x]]
BY DEF Bind

(* EXCEPT on the record of a table.                                        *)
IsTable(t) ==
  t = [syms |-> t.syms, max_offset |-> t.max_offset,
       args_size |-> t.args_size, base |-> t.base]

LEMMA SetOffset ==
  ASSUME NEW t, IsTable(t), NEW a
  PROVE  LET u == [t EXCEPT !.max_offset = a] IN
         /\ IsTable(u) /\ u.syms = t.syms /\ u.max_offset = a
         /\ u.args_size = t.args_size /\ u.base = t.base
<1>. DEFINE u == [t EXCEPT !.max_offset = a]
<1>1. DOMAIN t = {"syms", "max_offset", "args_size", "base"}
  BY DEF IsTable
<1>2. /\ DOMAIN u = DOMAIN t
      /\ u = [x \in DOMAIN u |-> u[x]]
      /\ u.max_offset = a
      /\ \A x \in DOMAIN t \ {"max_offset"} : u[x] = t[x]
  BY <1>1
<1>. HIDE DEF u
<1>3. u = [syms |-> u.syms, max_offset |-> u.max_offset,
           args_size |-> u.args_size, base |-> u.base]
  BY <1>1, <1>2
<1>. QED
  BY <1>1, <1>2, <1>3 DEF u, IsTable

LEMMA SetBase ==
  ASSUME NEW t, IsTable(t), NEW a
  PROVE  LET u == [t EXCEPT !.base = a] IN
         /\ IsTable(u) /\ u.syms = t.syms /\ u.max_offset = t.max_offset
         /\ u.args_size = t.args_size /\ u.base = a
BY DEF IsTable

(* The table of a function with parameters before the first of them.       *)
FunTable(t) == [t EXCEPT !.max_offset = 8, !.base = 0]

LEMMA FunTableEffect ==
  ASSUME NEW t, IsTable(t)
  PROVE  /\ IsTable(FunTable(t)) /\ FunTable(t).syms = t.syms
         /\ FunTable(t).max_offset = 8
         /\ FunTable(t).args_size = t.args_size /\ FunTable(t).base = 0
<1>. DEFINE u == [t EXCEPT !.max_offset = 8]
            v == [u EXCEPT !.base = 0]
<1>1. FunTable(t) = v
  BY Zenon DEF FunTable
<1>2. /\ IsTable(u) /\ u.syms = t.syms /\ u.max_offset = 8
      /\ u.args_size = t.args_size
  BY SetOffset
<1>. HIDE DEF u
<1>3. /\ IsTable(v) /\ v.syms = u.syms /\ v.max_offset = u.max_offset
      /\ v.args_size = u.args_size /\ v.base = 0
  BY <1>2, SetBase
<1>. HIDE DEF v
<1>. QED
  BY <1>1, <1>2, <1>3

(* A fresh table is empty.                                                 *)
LEMMA FreshEffect ==
  ASSUME NEW t \in FreshTables
  PROVE  /\ TableTyped(t) /\ PlainFields(t)
         /\ DOMAIN t.syms = {}
         /\ \E h \in HeapInts : t.max_offset = h[1] /\ t.args_size = h[2]
         /\ t.base = t.max_offset
<1>1. PICK h \in HeapInts :
        t = [syms |-> <<>>, max_offset |-> h[1], args_size |-> h[2],
             base |-> h[1]]
  BY DEF FreshTables
<1>2. h[1] \in Int /\ h[2] \in Int
  BY HeapAssumption
<1>3. DOMAIN t.syms = {} /\ IsFiniteSet(DOMAIN t.syms)
  BY <1>1, FS_EmptySet
<1>. QED
  BY <1>1, <1>2, <1>3 DEF TableTyped, PlainFields

(* The bytes of the fields of a struct are a number.                       *)
LEMMA FieldBytesInt ==
  ASSUME NEW st, TableTyped(st)
  PROVE  FieldBytes(st) \in Int
<1>. DEFINE sizes == [k \in Fields(st) |-> Size(st.syms[k].type)]
<1>1. DOMAIN sizes = Fields(st) /\ IsFiniteSet(Fields(st))
  BY DEF TableTyped, Fields
<1>2. \A k \in Fields(st) : sizes[k] \in Int
  BY DEF Size
<1>3. SumFunctionOnSet(sizes, Fields(st)) \in Int
  <2>. HIDE DEF sizes
  <2>. QED
    BY <1>1, <1>2, SumInt
<1>. QED
  BY <1>1, <1>3 DEF FieldBytes, SumFunction

(* What add_typesvars does to a table for a name of a primitive type.      *)
LEMMA WithPrimEffect ==
  ASSUME NEW t, TableTyped(t), NEW type \in Prim, NEW x \in Id,
         NEW param \in BOOLEAN, Var(x) \notin DOMAIN t.syms
  PROVE  LET u == WithPrim(t, type, x, param) IN
         /\ TableTyped(u)
         /\ PlainFields(t) => PlainFields(u)
         /\ DOMAIN u.syms = DOMAIN t.syms \cup {Var(x)}
         /\ u.syms[Var(x)] =
              Data("prim", type, IF param THEN -t.max_offset - 16
                                 ELSE t.max_offset)
         /\ \A k \in DOMAIN t.syms : k # Var(x) /\ u.syms[k] = t.syms[k]
         /\ u.max_offset = t.max_offset + Size(type)
         /\ u.args_size = IF param THEN t.args_size + Size(type)
                          ELSE t.args_size
         /\ u.base = t.base
<1>. DEFINE u == WithPrim(t, type, x, param)
            data == Data("prim", type, IF param THEN -t.max_offset - 16
                                       ELSE t.max_offset)
<1>1. t.max_offset \in Int /\ t.args_size \in Int
  BY DEF TableTyped
<1>2. /\ u = [syms |-> u.syms, max_offset |-> u.max_offset,
              args_size |-> u.args_size, base |-> u.base]
      /\ u.syms = Bind(t.syms, Var(x), data)
      /\ u.max_offset = t.max_offset + Size(type)
      /\ u.args_size = IF param THEN t.args_size + Size(type) ELSE t.args_size
      /\ u.base = t.base
  BY DEF WithPrim
<1>3. /\ DOMAIN u.syms = DOMAIN t.syms \cup {Var(x)}
      /\ u.syms[Var(x)] = data
      /\ \A k \in DOMAIN t.syms : k # Var(x) /\ u.syms[k] = t.syms[k]
      /\ u.syms = [k \in DOMAIN u.syms |-> u.syms[k]]
  <2>. HIDE DEF u, data
  <2>. QED
    BY <1>2 DEF Bind
<1>4. data \in PrimData /\ data.kind = "prim"
  BY <1>1 DEF Data, PrimData
<1>5. u.max_offset \in Int /\ u.args_size \in Int
  BY <1>1, <1>2 DEF Size
<1>6. IsFiniteSet(DOMAIN u.syms) /\ DOMAIN u.syms \subseteq SymKeys
  <2>. HIDE DEF u
  <2>1. IsFiniteSet(DOMAIN u.syms)
    BY <1>3, FS_AddElement DEF TableTyped
  <2>. QED
    BY <2>1, <1>3 DEF TableTyped, SymKeys
<1>. HIDE DEF u, data
<1>7. \A k \in DOMAIN u.syms : u.syms[k] \in PrimData \cup NamedData
  BY <1>3, <1>4 DEF TableTyped
<1>8. ASSUME NEW y \in Id, NEW f \in Id, Field(y, f) \in DOMAIN u.syms
      PROVE  Var(y) \in DOMAIN u.syms /\ u.syms[Var(y)].kind = "struct"
  <2>1. Field(y, f) \in DOMAIN t.syms
    BY <1>3, <1>8, KeysApart
  <2>2. Var(y) \in DOMAIN t.syms /\ t.syms[Var(y)].kind = "struct"
    BY <2>1 DEF TableTyped
  <2>. QED
    BY <2>2, <1>3
<1>9. TableTyped(u)
  BY <1>2, <1>3, <1>5, <1>6, <1>7, <1>8 DEF TableTyped
<1>10. ASSUME PlainFields(t) PROVE PlainFields(u)
  BY <1>10, <1>3, <1>4 DEF PlainFields
<1>. QED
  BY <1>2, <1>3, <1>9, <1>10 DEF u, data

(* What it does for a name of a struct type: the variable and a key for    *)
(* each field of the struct.                                               *)
LEMMA WithStructEffect ==
  ASSUME NEW t, TableTyped(t), NEW st, TableTyped(st), PlainFields(st),
         NEW s \in StructName, NEW x \in Id,
         NEW scope \in {"types", "params", "locals"},
         Var(x) \notin DOMAIN t.syms
  PROVE  LET u == WithStruct(t, s, st, x, scope) IN
         /\ TableTyped(u)
         /\ \A k \in DOMAIN u.syms :
              \/ k \in DOMAIN t.syms
              \/ k = Var(x)
              \/ \E f \in Id : k = Field(x, f) /\ Var(f) \in DOMAIN st.syms
         /\ Var(x) \in DOMAIN u.syms
         /\ u.syms[Var(x)] =
              Data("struct", s, IF scope = "params" THEN -t.max_offset - 16
                                ELSE t.max_offset)
         /\ \A f \in Id :
              Var(f) \in DOMAIN st.syms =>
                /\ Field(x, f) \in DOMAIN u.syms
                /\ u.syms[Field(x, f)] =
                     Data("prim", st.syms[Var(f)].type,
                          FieldOffset(t, st, Var(f), scope))
         /\ \A k \in DOMAIN t.syms : k \in DOMAIN u.syms /\ u.syms[k] = t.syms[k]
         /\ \A f \in Id : Field(x, f) \notin DOMAIN t.syms
         /\ u.max_offset = t.max_offset + st.max_offset
         /\ u.args_size = IF scope = "params"
                          THEN t.args_size + FieldBytes(st)
                          ELSE t.args_size
         /\ u.base = t.base
<1>. DEFINE u == WithStruct(t, s, st, x, scope)
            fields == {Field(x, k[1]) : k \in Fields(st)}
            self == Data("struct", s, IF scope = "params"
                                      THEN -t.max_offset - 16
                                      ELSE t.max_offset)
            field(k) == Data("prim", st.syms[<<k[2]>>].type,
                             FieldOffset(t, st, <<k[2]>>, scope))
<1>1. /\ u = [syms |-> u.syms, max_offset |-> u.max_offset,
              args_size |-> u.args_size, base |-> u.base]
      /\ u.syms = [k \in DOMAIN t.syms \cup {Var(x)} \cup fields |->
                     IF k = Var(x) THEN self
                     ELSE IF k \in fields THEN field(k) ELSE t.syms[k]]
      /\ u.max_offset = t.max_offset + st.max_offset
      /\ u.args_size = IF scope = "params" THEN t.args_size + FieldBytes(st)
                       ELSE t.args_size
      /\ u.base = t.base
  BY DEF WithStruct
<1>2. u.max_offset \in Int /\ u.args_size \in Int
  BY <1>1, FieldBytesInt DEF TableTyped
<1>3. fields = {Field(x, f) : f \in {g \in Id : Var(g) \in DOMAIN st.syms}}
  <2>1. ASSUME NEW k \in Fields(st)
        PROVE  \E f \in Id : k = Var(f) /\ k[1] = f
    BY <2>1, KeysApart DEF Fields, PlainFields
  <2>2. ASSUME NEW f \in Id, Var(f) \in DOMAIN st.syms
        PROVE  Var(f) \in Fields(st) /\ Var(f)[1] = f
    BY <2>2, KeysApart DEF Fields
  <2>. QED
    BY <2>1, <2>2 DEF Fields
<1>4. \A f \in Id : Field(x, f) \notin DOMAIN t.syms
  BY DEF TableTyped
<1>5. IsFiniteSet(fields)
  <2>. DEFINE key == [k \in Fields(st) |-> Field(x, k[1])]
  <2>1. key \in Surjection(Fields(st), fields)
    BY DEF Surjection
  <2>2. IsFiniteSet(Fields(st))
    BY DEF TableTyped, Fields
  <2>. HIDE DEF key, fields
  <2>. QED
    BY <2>1, <2>2, FS_Surjection
<1>6. /\ DOMAIN u.syms = DOMAIN t.syms \cup {Var(x)} \cup fields
      /\ u.syms = [k \in DOMAIN u.syms |-> u.syms[k]]
      /\ u.syms[Var(x)] = self
      /\ \A k \in fields : k # Var(x) => u.syms[k] = field(k)
      /\ \A k \in DOMAIN t.syms :
            k # Var(x) /\ k \notin fields => u.syms[k] = t.syms[k]
  <2>. HIDE DEF u, fields, self, field
  <2>. QED
    BY <1>1
<1>7. IsFiniteSet(DOMAIN u.syms)
  <2>. DEFINE old == DOMAIN t.syms \cup {Var(x)}
  <2>1. IsFiniteSet(old)
    BY FS_AddElement DEF TableTyped
  <2>. HIDE DEF fields, old
  <2>2. IsFiniteSet(old \cup fields)
    BY <2>1, <1>5, FS_Union
  <2>. HIDE DEF u
  <2>. QED
    BY <2>2, <1>6 DEF old
<1>8. self \in NamedData /\ self.kind = "struct"
  BY NamesAssumption DEF Data, NamedData, TableTyped
<1>9. ASSUME NEW f \in Id, Var(f) \in DOMAIN st.syms
      PROVE  /\ Field(x, f) \in DOMAIN u.syms
             /\ u.syms[Field(x, f)] =
                  Data("prim", st.syms[Var(f)].type,
                       FieldOffset(t, st, Var(f), scope))
             /\ u.syms[Field(x, f)] \in PrimData
  <2>1. Field(x, f) \in fields /\ Field(x, f) # Var(x)
    BY <1>3, <1>9, KeysApart
  <2>2. <<Field(x, f)[2]>> = Var(f)
    BY DEF Field, Var
  <2>3. field(Field(x, f)) = Data("prim", st.syms[Var(f)].type,
                                  FieldOffset(t, st, Var(f), scope))
    BY <2>2
  <2>4. st.syms[Var(f)].type \in Prim /\ st.syms[Var(f)].offset \in Int
    BY <1>9 DEF PlainFields, PrimData
  <2>5. FieldOffset(t, st, Var(f), scope) \in Int
    BY <2>4 DEF FieldOffset, TableTyped, Size
  <2>6. Data("prim", st.syms[Var(f)].type,
             FieldOffset(t, st, Var(f), scope)) \in PrimData
    BY <2>4, <2>5 DEF Data, PrimData
  <2>. HIDE DEF u, fields, field
  <2>. QED
    BY <2>1, <2>3, <2>6, <1>6
<1>. HIDE DEF u, self, field
<1>10. \A k \in DOMAIN t.syms : k \in DOMAIN u.syms /\ u.syms[k] = t.syms[k]
  BY <1>3, <1>4, <1>6
<1>11. \A k \in DOMAIN u.syms :
         \/ k \in DOMAIN t.syms
         \/ k = Var(x)
         \/ \E f \in Id : k = Field(x, f) /\ Var(f) \in DOMAIN st.syms
  BY <1>3, <1>6
<1>. HIDE DEF fields
<1>12. \A k \in DOMAIN u.syms : u.syms[k] \in PrimData \cup NamedData
  BY <1>6, <1>8, <1>9, <1>10, <1>11 DEF TableTyped
<1>13. DOMAIN u.syms \subseteq SymKeys
  BY <1>11 DEF TableTyped, SymKeys
<1>14. ASSUME NEW y \in Id, NEW f \in Id, Field(y, f) \in DOMAIN u.syms
       PROVE  Var(y) \in DOMAIN u.syms /\ u.syms[Var(y)].kind = "struct"
  <2>1. CASE y = x
    BY <2>1, <1>6, <1>8
  <2>2. CASE y # x
    <3>1. Field(y, f) \in DOMAIN t.syms
      BY <2>2, <1>11, <1>14, KeysApart
    <3>2. Var(y) \in DOMAIN t.syms /\ t.syms[Var(y)].kind = "struct"
      BY <3>1 DEF TableTyped
    <3>. QED
      BY <3>2, <1>10
  <2>. QED
    BY <2>1, <2>2
<1>15. TableTyped(u)
  BY <1>1, <1>2, <1>6, <1>7, <1>12, <1>13, <1>14 DEF TableTyped
<1>. QED
  BY <1>1, <1>4, <1>6, <1>9, <1>10, <1>11, <1>15 DEF u, self

-----------------------------------------------------------------------------
(* Every action preserves the types.                                       *)

(* A declaration counts within its bound.                                  *)
LEMMA DeclaresEffect ==
  ASSUME Walk, NEW list \in DOMAIN MaxNames, Declares(list)
  PROVE  /\ status = "run"
         /\ decls' \in [DOMAIN MaxNames -> Nat]
         /\ \A l \in DOMAIN MaxNames : decls'[l] <= MaxNames[l]
         /\ decls'[list] = decls[list] + 1
         /\ \A l \in DOMAIN MaxNames : l # list => decls'[l] = decls[l]
<1>1. /\ decls \in [DOMAIN MaxNames -> Nat]
      /\ \A l \in DOMAIN MaxNames : decls[l] <= MaxNames[l]
      /\ status = "run" /\ decls[list] < MaxNames[list]
      /\ decls' = [decls EXCEPT ![list] = @ + 1]
  BY DEF Walk, Declares
<1>2. \A l \in DOMAIN MaxNames : MaxNames[l] \in Nat
  BY BoundAssumption
<1>3. /\ decls' \in [DOMAIN MaxNames -> Nat]
      /\ decls'[list] = decls[list] + 1
      /\ \A l \in DOMAIN MaxNames : l # list => decls'[l] = decls[l]
  BY <1>1
<1>4. \A l \in DOMAIN MaxNames : decls'[l] <= MaxNames[l]
  BY <1>1, <1>2, <1>3
<1>. QED
  BY <1>1, <1>3, <1>4

(* The list that is being read has a bound.                                *)
LEMMA ListKnown ==
  ASSUME Walk
  PROVE  /\ {"types", "struct", "frame", "functions"} = DOMAIN MaxNames
         /\ List \in DOMAIN MaxNames
BY BoundAssumption DEF Walk, List

(* A rejected program changes nothing but the verdict and the counts.      *)
LEMMA SemErrTyped ==
  ASSUME Typed, SemErr, decls' \in [DOMAIN MaxNames -> Nat],
         \A list \in DOMAIN MaxNames : decls'[list] <= MaxNames[list]
  PROVE  Typed'
BY DEF Typed, Walk, FunctionTypes, TablesTyped, SemErr

(* The table being filled is replaced by one with more symbols.            *)
LEMMA UpdateTyped ==
  ASSUME Typed, NEW u, TableTyped(u),
         \A s \in StructName : current = StructTable(s) => PlainFields(u),
         tables' = [tables EXCEPT ![current] = u]
  PROVE  /\ TablesTyped'
         /\ DOMAIN tables' = DOMAIN tables
         /\ tables'[current] = u
         /\ \A n \in DOMAIN tables : n # current => tables'[n] = tables[n]
         /\ tables' = [n \in DOMAIN tables' |-> tables'[n]]
<1>1. current \in DOMAIN tables
  BY DEF Typed, Walk
<1>2. /\ DOMAIN tables' = DOMAIN tables
      /\ tables'[current] = u
      /\ \A n \in DOMAIN tables : n # current => tables'[n] = tables[n]
      /\ tables' = [n \in DOMAIN tables' |-> tables'[n]]
  BY <1>1
<1>3. \A n \in DOMAIN tables' : TableTyped(tables'[n])
  BY <1>2 DEF Typed, TablesTyped
<1>4. \A s \in StructName :
        StructTable(s) \in DOMAIN tables' => PlainFields(tables'[StructTable(s)])
  BY <1>2 DEF Typed, TablesTyped
<1>. QED
  BY <1>2, <1>3, <1>4 DEF TablesTyped

(* Declaring a primitive name keeps the types of the tables.               *)
LEMMA DeclarePrimTyped ==
  ASSUME Typed, NEW type \in Prim, NEW x \in Id, DeclarePrim(type, x)
  PROVE  Typed'
<1>1. /\ decls' \in [DOMAIN MaxNames -> Nat]
      /\ \A l \in DOMAIN MaxNames : decls'[l] <= MaxNames[l]
  BY DeclaresEffect, ListKnown DEF Typed, DeclarePrim
<1>2. CASE Defined(x)
  BY <1>1, <1>2, SemErrTyped DEF DeclarePrim
<1>3. CASE ~ Defined(x)
  <2>. DEFINE t == tables[current]
              u == WithPrim(t, type, x, FALSE)
  <2>1. tables' = [tables EXCEPT ![current] = u]
        /\ UNCHANGED <<ftypes, current, where, status>>
    BY <1>3 DEF DeclarePrim
  <2>2. TableTyped(t) /\ Var(x) \notin DOMAIN t.syms
    BY <1>3 DEF Typed, Walk, TablesTyped, Defined
  <2>3. TableTyped(u) /\ (PlainFields(t) => PlainFields(u))
    <3>. HIDE DEF t
    <3>. QED
      BY <2>2, WithPrimEffect
  <2>4. \A s \in StructName : current = StructTable(s) => PlainFields(u)
    BY <2>3 DEF Typed, Walk, TablesTyped
  <2>5. TablesTyped' /\ DOMAIN tables' = DOMAIN tables
        /\ tables' = [n \in DOMAIN tables' |-> tables'[n]]
    <3>. HIDE DEF u
    <3>. QED
      BY <2>1, <2>3, <2>4, UpdateTyped
  <2>. QED
    BY <1>1, <2>1, <2>5 DEF Typed, Walk, FunctionTypes
<1>. QED
  BY <1>2, <1>3

(* Declaring a struct variable keeps the types of the tables.              *)
LEMMA DeclareStructVarTyped ==
  ASSUME Typed, NEW s \in StructName, NEW x \in Id, DeclareStructVar(s, x)
  PROVE  Typed'
<1>1. /\ decls' \in [DOMAIN MaxNames -> Nat]
      /\ \A l \in DOMAIN MaxNames : decls'[l] <= MaxNames[l]
  BY DeclaresEffect, ListKnown DEF Typed, DeclareStructVar
<1>. DEFINE fails == Defined(x) \/ StructTable(s) \notin DOMAIN tables
<1>2. CASE fails
  BY <1>1, <1>2, SemErrTyped DEF DeclareStructVar
<1>3. CASE ~ fails
  <2>. DEFINE t == tables[current]
              st == tables[StructTable(s)]
              u == WithStruct(t, s, st, x, where)
  <2>1. tables' = [tables EXCEPT ![current] = u]
        /\ UNCHANGED <<ftypes, current, where, status>>
        /\ where \in {"types", "params", "locals"} /\ where # "struct"
    BY <1>3 DEF DeclareStructVar
  <2>2. /\ TableTyped(t) /\ Var(x) \notin DOMAIN t.syms
        /\ TableTyped(st) /\ PlainFields(st)
    BY <1>3 DEF Typed, Walk, TablesTyped, Defined
  <2>3. TableTyped(u)
    <3>. HIDE DEF t, st
    <3>. QED
      BY <2>1, <2>2, WithStructEffect
  <2>4. \A r \in StructName : current # StructTable(r)
    BY <2>1, NamesApart DEF Typed, Walk
  <2>5. TablesTyped' /\ DOMAIN tables' = DOMAIN tables
        /\ tables' = [n \in DOMAIN tables' |-> tables'[n]]
    <3>. HIDE DEF u
    <3>. QED
      BY <2>1, <2>3, <2>4, UpdateTyped
  <2>. QED
    BY <1>1, <2>1, <2>5 DEF Typed, Walk, FunctionTypes
<1>. QED
  BY <1>2, <1>3

(* A new table, perhaps in place of one of the same name.                  *)
LEMMA NewTableTyped ==
  ASSUME Typed, NEW n \in TableNames, NEW u, TableTyped(u), PlainFields(u),
         NEW ts, ts = Bind(tables, n, u)
  PROVE  /\ DOMAIN ts = DOMAIN tables \cup {n}
         /\ ts = [m \in DOMAIN ts |-> ts[m]]
         /\ DOMAIN ts \subseteq TableNames /\ IsFiniteSet(DOMAIN ts)
         /\ ts[n] = u
         /\ \A m \in DOMAIN tables : m # n => ts[m] = tables[m]
         /\ \A m \in DOMAIN ts : TableTyped(ts[m])
         /\ \A s \in StructName :
               StructTable(s) \in DOMAIN ts => PlainFields(ts[StructTable(s)])
<1>1. /\ DOMAIN ts = DOMAIN tables \cup {n}
      /\ ts = [m \in DOMAIN ts |-> ts[m]]
      /\ ts[n] = u
      /\ \A m \in DOMAIN tables : m # n => ts[m] = tables[m]
  BY DEF Bind
<1>2. DOMAIN ts \subseteq TableNames /\ IsFiniteSet(DOMAIN ts)
  BY <1>1, FS_AddElement DEF Typed, Walk
<1>3. \A m \in DOMAIN ts : TableTyped(ts[m])
  BY <1>1 DEF Typed, TablesTyped
<1>4. \A s \in StructName :
        StructTable(s) \in DOMAIN ts => PlainFields(ts[StructTable(s)])
  BY <1>1 DEF Typed, TablesTyped
<1>. QED
  BY <1>1, <1>2, <1>3, <1>4

(* A name bound in the global table.                                       *)
LEMMA NamedTyped ==
  ASSUME NEW t, TableTyped(t), NEW x \in Id, NEW data \in NamedData,
         Var(x) \notin DOMAIN t.syms
  PROVE  LET u == [t EXCEPT !.syms = Bind(@, Var(x), data)] IN
         /\ TableTyped(u)
         /\ DOMAIN u.syms = DOMAIN t.syms \cup {Var(x)}
         /\ u.syms[Var(x)] = data
         /\ \A k \in DOMAIN t.syms : k # Var(x) /\ u.syms[k] = t.syms[k]
         /\ u.max_offset = t.max_offset /\ u.args_size = t.args_size
         /\ u.base = t.base
<1>. DEFINE u == [t EXCEPT !.syms = Bind(@, Var(x), data)]
<1>1. /\ u = [syms |-> u.syms, max_offset |-> u.max_offset,
              args_size |-> u.args_size, base |-> u.base]
      /\ u.syms = Bind(t.syms, Var(x), data)
      /\ u.max_offset = t.max_offset /\ u.args_size = t.args_size
      /\ u.base = t.base
  BY DEF TableTyped
<1>2. /\ DOMAIN u.syms = DOMAIN t.syms \cup {Var(x)}
      /\ u.syms[Var(x)] = data
      /\ \A k \in DOMAIN t.syms : k # Var(x) /\ u.syms[k] = t.syms[k]
      /\ u.syms = [k \in DOMAIN u.syms |-> u.syms[k]]
  BY <1>1 DEF Bind
<1>. HIDE DEF u
<1>3. IsFiniteSet(DOMAIN u.syms) /\ DOMAIN u.syms \subseteq SymKeys
  BY <1>2, FS_AddElement DEF TableTyped, SymKeys
<1>4. \A k \in DOMAIN u.syms : u.syms[k] \in PrimData \cup NamedData
  BY <1>2 DEF TableTyped
<1>5. ASSUME NEW y \in Id, NEW f \in Id, Field(y, f) \in DOMAIN u.syms
      PROVE  Var(y) \in DOMAIN u.syms /\ u.syms[Var(y)].kind = "struct"
  <2>1. Field(y, f) \in DOMAIN t.syms
    BY <1>2, <1>5, KeysApart
  <2>2. Var(y) \in DOMAIN t.syms /\ t.syms[Var(y)].kind = "struct"
    BY <2>1 DEF TableTyped
  <2>. QED
    BY <2>2, <1>2
<1>6. u.max_offset \in Int /\ u.args_size \in Int
  BY <1>1 DEF TableTyped
<1>. QED
  BY <1>1, <1>2, <1>3, <1>4, <1>5, <1>6 DEF TableTyped, u

(* Opening a struct type keeps the types of the tables.                    *)
LEMMA BeginStructTyped ==
  ASSUME Typed, NEW s \in StructName, BeginStruct(s)
  PROVE  Typed'
<1>1. /\ decls' \in [DOMAIN MaxNames -> Nat]
      /\ \A l \in DOMAIN MaxNames : decls'[l] <= MaxNames[l]
      /\ where = "types" /\ current = Global
  BY DeclaresEffect, ListKnown DEF Typed, Walk, BeginStruct
<1>2. CASE Defined(s)
  BY <1>1, <1>2, SemErrTyped DEF BeginStruct
<1>3. CASE ~ Defined(s)
  <2>. DEFINE g == [tables[Global] EXCEPT
                      !.syms = Bind(@, Var(s), Data("declstruct", s, 0))]
              ts == [tables EXCEPT ![Global] = g]
  <2>1. PICK t \in FreshTables : tables' = Bind(ts, StructTable(s), t)
    BY <1>3 DEF BeginStruct
  <2>2. /\ current' = StructTable(s) /\ where' = "struct"
        /\ UNCHANGED <<ftypes, status>>
    BY <1>3 DEF BeginStruct
  <2>3. Data("declstruct", s, 0) \in NamedData /\ s \in Id
    BY NamesAssumption DEF Data, NamedData
  <2>4. TableTyped(tables[Global]) /\ Var(s) \notin DOMAIN tables[Global].syms
    BY <1>1, <1>3 DEF Typed, Walk, TablesTyped, Defined
  <2>5. TableTyped(g)
    BY <2>3, <2>4, NamedTyped
  <2>6. TableTyped(t) /\ PlainFields(t)
    BY FreshEffect
  <2>. HIDE DEF g
  <2>7. /\ DOMAIN tables' = DOMAIN tables \cup {StructTable(s)}
        /\ tables' = [m \in DOMAIN tables' |-> tables'[m]]
        /\ tables'[StructTable(s)] = t
        /\ tables'[Global] = g
        /\ \A m \in DOMAIN tables :
              m \notin {StructTable(s), Global} => tables'[m] = tables[m]
    BY <2>1, NamesApart DEF Bind, Typed, Walk
  <2>8. IsFiniteSet(DOMAIN tables') /\ DOMAIN tables' \subseteq TableNames
    BY <2>7, FS_AddElement DEF Typed, Walk, TableNames
  <2>9. TablesTyped'
    <3>1. \A m \in DOMAIN tables' : TableTyped(tables'[m])
      BY <2>5, <2>6, <2>7 DEF Typed, TablesTyped
    <3>2. \A r \in StructName : StructTable(r) \in DOMAIN tables'
             => PlainFields(tables'[StructTable(r)])
      BY <2>6, <2>7, NamesApart DEF Typed, TablesTyped
    <3>. QED
      BY <3>1, <3>2 DEF TablesTyped
  <2>10. \A f \in Fun : FuncTable(f) \in DOMAIN tables'
                          <=> FuncTable(f) \in DOMAIN tables
    BY <2>7, NamesApart
  <2>11. Walk'
    BY <1>1, <2>2, <2>7, <2>8, <2>10 DEF Typed, Walk
  <2>12. FunctionTypes'
    BY <2>2, <2>10 DEF Typed, FunctionTypes
  <2>. QED
    BY <2>9, <2>11, <2>12 DEF Typed
<1>. QED
  BY <1>2, <1>3

(* Closing a struct type keeps the types of the tables.                    *)
LEMMA EndStructTyped ==
  ASSUME Typed, EndStruct
  PROVE  Typed'
BY DEF Typed, Walk, FunctionTypes, TablesTyped, EndStruct

(* A function's type, before its parameters are known.                     *)
LEMMA NewFunctionType ==
  ASSUME Typed, NEW f \in Fun, NEW ret,
         ftypes' = Bind(ftypes, f, [ret |-> ret, args |-> <<>>]),
         DOMAIN tables' = DOMAIN tables \cup {FuncTable(f)}
  PROVE  FunctionTypes'
<1>1. /\ DOMAIN ftypes' = DOMAIN ftypes \cup {f}
      /\ ftypes' = [g \in DOMAIN ftypes' |-> ftypes'[g]]
      /\ ftypes'[f] = [ret |-> ret, args |-> <<>>]
      /\ \A g \in DOMAIN ftypes : g # f => ftypes'[g] = ftypes[g]
  BY DEF Bind
<1>2. \A g \in Fun : FuncTable(g) \in DOMAIN tables' <=> g \in DOMAIN ftypes'
  BY <1>1, NamesApart DEF Typed, FunctionTypes
<1>3. ASSUME NEW g \in DOMAIN ftypes'
      PROVE  /\ ftypes'[g] = [ret |-> ftypes'[g].ret, args |-> ftypes'[g].args]
             /\ ftypes'[g].args \in Seq(Arg)
  <2>1. CASE g = f
    <3>1. ftypes'[g] = [ret |-> ret, args |-> <<>>]
      BY <1>1, <2>1
    <3>2. ftypes'[g] = [ret |-> ftypes'[g].ret, args |-> ftypes'[g].args]
      BY <3>1
    <3>3. ftypes'[g].args = <<>>
      BY <3>1
    <3>4. <<>> \in Seq(Arg)
      OBVIOUS
    <3>. QED
      BY <3>2, <3>3, <3>4, Zenon
  <2>2. CASE g # f
    BY <1>1, <2>2 DEF Typed, FunctionTypes
  <2>. QED
    BY <2>1, <2>2
<1>. QED
  BY <1>1, <1>2, <1>3 DEF Typed, FunctionTypes

(* The head of a function keeps the types of the tables.                   *)
LEMMA BeginFunctionTyped ==
  ASSUME Typed, NEW f \in Fun, NEW ret \in Returns, BeginFunction(f, ret)
  PROVE  Typed'
<1>1. /\ decls' \in [DOMAIN MaxNames -> Nat]
      /\ \A l \in DOMAIN MaxNames : decls'[l] <= MaxNames[l]
  BY DeclaresEffect, ListKnown DEF Typed, BeginFunction
<1>2. PICK t \in FreshTables :
        tables' = Bind(tables, FuncTable(f),
                       FunTable(t))
  BY DEF BeginFunction, FunTable
<1>. DEFINE u == FunTable(t)
<1>3. TableTyped(u) /\ PlainFields(u)
  <2>1. TableTyped(t) /\ PlainFields(t)
    BY FreshEffect
  <2>2. /\ IsTable(u) /\ u.syms = t.syms /\ u.max_offset = 8
        /\ u.args_size = t.args_size /\ u.base = 0
    <3>1. IsTable(t)
      BY <2>1 DEF TableTyped, IsTable
    <3>. QED
      BY <3>1, FunTableEffect
  <2>. HIDE DEF u
  <2>. QED
    BY <2>1, <2>2 DEF TableTyped, PlainFields, IsTable
<1>4. FuncTable(f) \in TableNames
  BY DEF TableNames
<1>5. /\ DOMAIN tables' = DOMAIN tables \cup {FuncTable(f)}
      /\ tables' = [m \in DOMAIN tables' |-> tables'[m]]
      /\ DOMAIN tables' \subseteq TableNames /\ IsFiniteSet(DOMAIN tables')
      /\ TablesTyped'
  <2>1. tables' = Bind(tables, FuncTable(f), u)
    BY <1>2
  <2>. HIDE DEF u
  <2>. QED
    BY <2>1, <1>3, <1>4, NewTableTyped DEF TablesTyped
<1>6. /\ current' = FuncTable(f) /\ where' = "params"
      /\ ftypes' = Bind(ftypes, f, [ret |-> ret, args |-> <<>>])
      /\ UNCHANGED status
  BY DEF BeginFunction
<1>7. FunctionTypes'
  BY <1>5, <1>6, NewFunctionType
<1>8. Walk'
  BY <1>1, <1>5, <1>6 DEF Typed, Walk
<1>. QED
  BY <1>5, <1>7, <1>8 DEF Typed

(* A function's symbol in the global table.                                *)
LEMMA WithFunctionTyped ==
  ASSUME NEW ts, NEW f \in Fun, Global \in DOMAIN ts,
         TableTyped(ts[Global]), Var(f) \notin DOMAIN ts[Global].syms,
         ts = [n \in DOMAIN ts |-> ts[n]],
         NEW us, us = WithFunction(ts, f)
  PROVE  /\ DOMAIN us = DOMAIN ts
         /\ us = [n \in DOMAIN us |-> us[n]]
         /\ \A n \in DOMAIN ts : n # Global => us[n] = ts[n]
         /\ TableTyped(us[Global])
         /\ DOMAIN us[Global].syms = DOMAIN ts[Global].syms \cup {Var(f)}
         /\ us[Global].syms[Var(f)] = Data("func", f, 0)
         /\ \A k \in DOMAIN ts[Global].syms :
               k # Var(f) /\ us[Global].syms[k] = ts[Global].syms[k]
         /\ us[Global].max_offset = ts[Global].max_offset
         /\ us[Global].base = ts[Global].base
<1>. DEFINE old == ts[Global]
            g == [old EXCEPT !.syms = Bind(@, Var(f), Data("func", f, 0))]
<1>1. us = [ts EXCEPT ![Global] = g]
  BY DEF WithFunction
<1>2. Data("func", f, 0) \in NamedData /\ f \in Id
  BY NamesAssumption DEF Data, NamedData
<1>3. /\ TableTyped(g)
      /\ DOMAIN g.syms = DOMAIN old.syms \cup {Var(f)}
      /\ g.syms[Var(f)] = Data("func", f, 0)
      /\ \A k \in DOMAIN old.syms : k # Var(f) /\ g.syms[k] = old.syms[k]
      /\ g.max_offset = old.max_offset /\ g.base = old.base
  <2>1. TableTyped(old) /\ Var(f) \notin DOMAIN old.syms
    OBVIOUS
  <2>. DEFINE data == Data("func", f, 0)
  <2>2. g = [old EXCEPT !.syms = Bind(@, Var(f), data)]
    OBVIOUS
  <2>. HIDE DEF old, g, data
  <2>3. f \in Id /\ data \in NamedData
    BY <1>2 DEF data
  <2>4. /\ TableTyped(g)
        /\ DOMAIN g.syms = DOMAIN old.syms \cup {Var(f)}
        /\ g.syms[Var(f)] = data
        /\ \A k \in DOMAIN old.syms : k # Var(f) /\ g.syms[k] = old.syms[k]
        /\ g.max_offset = old.max_offset /\ g.base = old.base
    BY <2>1, <2>2, <2>3, NamedTyped, SMTT(30)
  <2>. QED
    BY <2>4 DEF data
<1>. HIDE DEF g
<1>. QED
  BY <1>1, <1>3

(* The head of a void function keeps the types of the tables.              *)
LEMMA BeginVoidFunctionTyped ==
  ASSUME Typed, NEW f \in Fun, NEW ret \in Returns, BeginVoidFunction(f, ret)
  PROVE  Typed'
<1>1. /\ decls' \in [DOMAIN MaxNames -> Nat]
      /\ \A l \in DOMAIN MaxNames : decls'[l] <= MaxNames[l]
  BY DeclaresEffect, ListKnown DEF Typed, BeginVoidFunction
<1>2. CASE Var(f) \in DOMAIN tables[Global].syms
  BY <1>1, <1>2, SemErrTyped DEF BeginVoidFunction
<1>3. CASE Var(f) \notin DOMAIN tables[Global].syms
  <2>1. PICK t \in FreshTables :
          tables' = WithFunction(Bind(tables, FuncTable(f), t), f)
    BY <1>3 DEF BeginVoidFunction
  <2>. DEFINE ts == Bind(tables, FuncTable(f), t)
  <2>2. TableTyped(t) /\ PlainFields(t) /\ FuncTable(f) \in TableNames
    BY FreshEffect DEF TableNames
  <2>3. /\ DOMAIN ts = DOMAIN tables \cup {FuncTable(f)}
        /\ ts = [m \in DOMAIN ts |-> ts[m]]
        /\ DOMAIN ts \subseteq TableNames /\ IsFiniteSet(DOMAIN ts)
        /\ ts[Global] = tables[Global]
        /\ \A m \in DOMAIN ts : TableTyped(ts[m])
        /\ \A s \in StructName :
              StructTable(s) \in DOMAIN ts => PlainFields(ts[StructTable(s)])
    <3>1. Global \in DOMAIN tables /\ Global # FuncTable(f)
      BY NamesApart DEF Typed, Walk
    <3>. QED
      BY <2>2, <3>1, NewTableTyped
  <2>4. Global \in DOMAIN ts
    BY <2>3 DEF Typed, Walk
  <2>. HIDE DEF ts
  <2>5. /\ DOMAIN tables' = DOMAIN ts
        /\ tables' = [n \in DOMAIN tables' |-> tables'[n]]
        /\ \A n \in DOMAIN ts : n # Global => tables'[n] = ts[n]
        /\ TableTyped(tables'[Global])
    <3>1. tables' = WithFunction(ts, f)
      BY <2>1 DEF ts
    <3>. QED
      BY <1>3, <2>3, <2>4, <3>1, WithFunctionTyped
  <2>6. TablesTyped'
    BY <2>3, <2>5, NamesApart DEF TablesTyped
  <2>7. /\ current' = FuncTable(f) /\ where' = "locals"
        /\ ftypes' = Bind(ftypes, f, [ret |-> ret, args |-> <<>>])
        /\ UNCHANGED status
    BY <1>3 DEF BeginVoidFunction
  <2>8. FunctionTypes'
    BY <2>3, <2>5, <2>7, NewFunctionType
  <2>9. Walk'
    BY <1>1, <2>3, <2>4, <2>5, <2>7 DEF Typed, Walk
  <2>. QED
    BY <2>6, <2>8, <2>9 DEF Typed
<1>. QED
  BY <1>2, <1>3

(* One more argument in the type of the function being declared.           *)
LEMMA MoreArgs ==
  ASSUME FunctionTypes, NEW f \in DOMAIN ftypes, NEW a \in Arg,
         ftypes' = [ftypes EXCEPT ![f].args = Append(@, a)],
         DOMAIN tables' = DOMAIN tables
  PROVE  /\ FunctionTypes'
         /\ DOMAIN ftypes' = DOMAIN ftypes
         /\ ftypes'[f].args = Append(ftypes[f].args, a)
         /\ \A g \in DOMAIN ftypes : g # f => ftypes'[g] = ftypes[g]
<1>. DEFINE old == ftypes[f]
            new == [old EXCEPT !.args = Append(@, a)]
<1>1. /\ old = [ret |-> old.ret, args |-> old.args]
      /\ old.args \in Seq(Arg)
  BY DEF FunctionTypes
<1>2. /\ DOMAIN ftypes' = DOMAIN ftypes
      /\ ftypes'[f] = new
      /\ \A g \in DOMAIN ftypes : g # f => ftypes'[g] = ftypes[g]
      /\ ftypes' = [g \in DOMAIN ftypes' |-> ftypes'[g]]
  BY DEF FunctionTypes
<1>3. /\ new = [ret |-> new.ret, args |-> new.args]
      /\ new.args = Append(old.args, a)
  <2>. DEFINE more == Append(old.args, a)
  <2>1. new = [old EXCEPT !.args = more]
    OBVIOUS
  <2>2. old = [ret |-> old.ret, args |-> old.args]
    BY <1>1
  <2>. HIDE DEF old, more, new
  <2>3. new = [ret |-> new.ret, args |-> new.args] /\ new.args = more
    BY <2>1, <2>2
  <2>. QED
    BY <2>3 DEF more
<1>4. new.args \in Seq(Arg)
  BY <1>1, <1>3
<1>. HIDE DEF new
<1>5. FunctionTypes'
  BY <1>2, <1>3, <1>4 DEF FunctionTypes
<1>. QED
  BY <1>2, <1>3, <1>5

(* Declaring a parameter keeps the types of the tables.                    *)
LEMMA DeclareParamTyped ==
  ASSUME Typed, NEW type \in Prim \cup StructName, NEW x \in Id,
         DeclareParam(type, x)
  PROVE  Typed'
<1>1. /\ decls' \in [DOMAIN MaxNames -> Nat]
      /\ \A l \in DOMAIN MaxNames : decls'[l] <= MaxNames[l]
      /\ where = "params"
  BY DeclaresEffect, ListKnown DEF Typed, DeclareParam
<1>2. PICK f \in Fun : current = FuncTable(f)
  BY <1>1 DEF Typed, Walk
<1>3. f = current[2] /\ f \in DOMAIN ftypes
  BY <1>2, NamesApart DEF Typed, Walk, FunctionTypes
<1>. DEFINE fails == \/ Len(ftypes[f].args) > MaxArgs
                     \/ Defined(x)
                     \/ type \notin Prim /\ StructTable(type) \notin DOMAIN tables
<1>4. CASE fails
  BY <1>1, <1>3, <1>4, SemErrTyped DEF DeclareParam
<1>5. CASE ~ fails
  <2>. DEFINE t == tables[current]
              u == IF type \in Prim THEN WithPrim(t, type, x, TRUE)
                   ELSE WithStruct(t, type, tables[StructTable(type)], x, where)
  <2>1. /\ tables' = [tables EXCEPT ![current] = u]
        /\ ftypes' = [ftypes EXCEPT ![f].args = Append(@, [type |-> type, id |-> x])]
        /\ UNCHANGED <<current, where, status>>
    BY <1>3, <1>5 DEF DeclareParam
  <2>2. TableTyped(t) /\ Var(x) \notin DOMAIN t.syms
    BY <1>5 DEF Typed, Walk, TablesTyped, Defined
  <2>4. ASSUME type \notin Prim PROVE TableTyped(u)
    <3>. DEFINE st == tables[StructTable(type)]
    <3>1. type \in StructName /\ TableTyped(st) /\ PlainFields(st)
      BY <2>4, <1>5 DEF Typed, TablesTyped
    <3>. HIDE DEF t, st
    <3>2. TableTyped(WithStruct(t, type, st, x, where))
      BY <1>1, <2>2, <3>1, WithStructEffect
    <3>. QED
      BY <2>4, <3>2 DEF st
  <2>5. TableTyped(u)
    <3>1. CASE type \in Prim
      <4>. HIDE DEF t
      <4>1. TableTyped(WithPrim(t, type, x, TRUE))
        BY <2>2, <3>1, WithPrimEffect
      <4>. QED
        BY <3>1, <4>1
    <3>. QED
      BY <2>4, <3>1
  <2>6. \A r \in StructName : current # StructTable(r)
    BY <1>2, NamesApart
  <2>7. TablesTyped' /\ DOMAIN tables' = DOMAIN tables
        /\ tables' = [n \in DOMAIN tables' |-> tables'[n]]
    <3>. HIDE DEF u
    <3>. QED
      BY <2>1, <2>5, <2>6, UpdateTyped
  <2>8. FunctionTypes'
    <3>1. [type |-> type, id |-> x] \in Arg
      BY DEF Arg
    <3>. QED
      BY <1>3, <2>1, <2>7, <3>1, MoreArgs DEF Typed
  <2>. QED
    BY <1>1, <2>1, <2>7, <2>8 DEF Typed, Walk
<1>. QED
  BY <1>4, <1>5

(* The end of a parameter list keeps the types of the tables.              *)
LEMMA EndParamsTyped ==
  ASSUME Typed, EndParams
  PROVE  Typed'
<1>1. status = "run" /\ where = "params" /\ UNCHANGED decls
  BY DEF EndParams
<1>2. PICK f \in Fun : current = FuncTable(f)
  BY <1>1 DEF Typed, Walk
<1>3. f = current[2] /\ Global # current /\ current \in DOMAIN tables
      /\ Global \in DOMAIN tables
  BY <1>2, NamesApart DEF Typed, Walk
<1>4. CASE Var(f) \in DOMAIN tables[Global].syms
  <2>1. SemErr
    BY <1>3, <1>4 DEF EndParams
  <2>. QED
    BY <1>1, <2>1, SemErrTyped DEF Typed, Walk
<1>5. CASE Var(f) \notin DOMAIN tables[Global].syms
  <2>. DEFINE t == tables[current]
              u == [t EXCEPT !.max_offset = 0]
              ts == [tables EXCEPT ![current] = u]
  <2>1. /\ tables' = WithFunction(ts, f)
        /\ where' = "locals"
        /\ UNCHANGED <<ftypes, current, status>>
    BY <1>3, <1>5 DEF EndParams
  <2>2. TableTyped(t)
    BY <1>3 DEF Typed, TablesTyped
  <2>3. TableTyped(u)
    <3>. HIDE DEF t
    <3>. QED
      BY <2>2 DEF TableTyped
  <2>. HIDE DEF u
  <2>4. /\ DOMAIN ts = DOMAIN tables
        /\ ts[current] = u /\ ts[Global] = tables[Global]
        /\ \A n \in DOMAIN tables : n # current => ts[n] = tables[n]
        /\ ts = [n \in DOMAIN ts |-> ts[n]]
    BY <1>3
  <2>5. TableTyped(tables[Global])
    BY <1>3 DEF Typed, TablesTyped
  <2>. HIDE DEF ts
  <2>6. /\ DOMAIN tables' = DOMAIN ts
        /\ tables' = [n \in DOMAIN tables' |-> tables'[n]]
        /\ \A n \in DOMAIN ts : n # Global => tables'[n] = ts[n]
        /\ TableTyped(tables'[Global])
    BY <1>3, <1>5, <2>1, <2>4, <2>5, WithFunctionTyped
  <2>7. TablesTyped'
    <3>1. \A n \in DOMAIN tables' : TableTyped(tables'[n])
      BY <2>3, <2>4, <2>6 DEF Typed, TablesTyped
    <3>2. \A s \in StructName : StructTable(s) \in DOMAIN tables'
             => PlainFields(tables'[StructTable(s)])
      BY <1>2, <2>4, <2>6, NamesApart DEF Typed, TablesTyped
    <3>. QED
      BY <3>1, <3>2 DEF TablesTyped
  <2>8. Walk' /\ FunctionTypes'
    BY <1>1, <1>2, <2>1, <2>4, <2>6 DEF Typed, Walk, FunctionTypes
  <2>. QED
    BY <2>7, <2>8 DEF Typed
<1>. QED
  BY <1>4, <1>5

(* Leaving a table keeps the types of the tables.                          *)
LEMMA EndTyped ==
  ASSUME Typed, EndFunction \/ Finish
  PROVE  Typed'
BY DEF Typed, Walk, FunctionTypes, TablesTyped, EndFunction, Finish

(* The empty global table has the types of the invariant.                  *)
LEMMA InitTyped ==
  ASSUME Init
  PROVE  Typed
<1>1. PICK t \in FreshTables : tables = [n \in {Global} |-> t]
  BY DEF Init
<1>2. TableTyped(t) /\ PlainFields(t)
  BY FreshEffect
<1>3. Walk
  <2>1. IsFiniteSet({Global})
    BY FS_Singleton
  <2>2. decls \in [DOMAIN MaxNames -> Nat]
        /\ \A list \in DOMAIN MaxNames : decls[list] <= MaxNames[list]
    BY BoundAssumption DEF Init
  <2>3. \A f \in Fun : FuncTable(f) # Global
    BY NamesApart
  <2>. QED
    BY <1>1, <2>1, <2>2, <2>3 DEF Init, Walk, TableNames
<1>4. FunctionTypes
  BY <1>1, NamesApart DEF Init, FunctionTypes
<1>5. TablesTyped
  BY <1>1, <1>2 DEF TablesTyped
<1>. QED
  BY <1>3, <1>4, <1>5 DEF Typed

(* Every action keeps the types of the tables.                             *)
LEMMA NextTyped ==
  ASSUME Typed, [Next]_vars
  PROVE  Typed'
<1>1. CASE UNCHANGED vars
  BY <1>1 DEF vars, Typed, Walk, FunctionTypes, TablesTyped
<1>2. ASSUME NEW type \in Prim, NEW x \in Id, DeclarePrim(type, x)
      PROVE  Typed'
  BY <1>2, DeclarePrimTyped
<1>3. ASSUME NEW s \in StructName, NEW x \in Id, DeclareStructVar(s, x)
      PROVE  Typed'
  BY <1>3, DeclareStructVarTyped
<1>4. ASSUME NEW s \in StructName, BeginStruct(s)
      PROVE  Typed'
  BY <1>4, BeginStructTyped
<1>5. CASE EndStruct
  BY <1>5, EndStructTyped
<1>6. ASSUME NEW f \in Fun, NEW ret \in Returns,
             BeginFunction(f, ret) \/ BeginVoidFunction(f, ret)
      PROVE  Typed'
  BY <1>6, BeginFunctionTyped, BeginVoidFunctionTyped
<1>7. ASSUME NEW type \in Prim \cup StructName, NEW x \in Id,
             DeclareParam(type, x)
      PROVE  Typed'
  BY <1>7, DeclareParamTyped
<1>8. CASE EndParams
  BY <1>8, EndParamsTyped
<1>9. CASE EndFunction \/ Finish
  BY <1>9, EndTyped
<1>. QED
  BY <1>1, <1>2, <1>3, <1>4, <1>5, <1>6, <1>7, <1>8, <1>9 DEF Next

(* The first part of the invariant implies the type invariant of the       *)
(* runs.                                                                   *)
LEMMA TypedImpliesTypeOK ==
  ASSUME Typed
  PROVE  TypeOK
<1>1. ASSUME NEW n \in DOMAIN tables
      PROVE  /\ n \in TableNames
             /\ tables[n].max_offset \in Int /\ tables[n].args_size \in Int
             /\ tables[n].base \in Int
  BY DEF Typed, Walk, TablesTyped, TableTyped
<1>2. ASSUME NEW n \in DOMAIN tables, NEW k \in DOMAIN tables[n].syms
      PROVE  /\ Len(k) \in {1, 2} /\ \A i \in 1 .. Len(k) : k[i] \in Id
             /\ tables[n].syms[k] \in PrimData \cup NamedData
             /\ Len(k) = 2 => /\ Var(k[1]) \in DOMAIN tables[n].syms
                              /\ tables[n].syms[Var(k[1])].kind = "struct"
  <2>. DEFINE t == tables[n]
  <2>1. TableTyped(t) /\ k \in DOMAIN t.syms
    BY <1>2 DEF Typed, TablesTyped
  <2>. HIDE DEF t
  <2>2. k \in SymKeys /\ t.syms[k] \in PrimData \cup NamedData
    BY <2>1 DEF TableTyped
  <2>3. CASE \E x \in Id : k = Var(x)
    BY <2>3, <2>2 DEF Var, t
  <2>4. CASE \E x, f \in Id : k = Field(x, f)
    <3>1. PICK x \in Id, f \in Id : k = Field(x, f)
      BY <2>4
    <3>2. Var(x) \in DOMAIN t.syms /\ t.syms[Var(x)].kind = "struct"
      BY <2>1, <3>1 DEF TableTyped
    <3>3. Len(k) = 2 /\ k[1] = x /\ \A i \in 1 .. Len(k) : k[i] \in Id
      BY <3>1 DEF Field
    <3>. QED
      BY <2>2, <3>2, <3>3 DEF t
  <2>. QED
    BY <2>2, <2>3, <2>4 DEF SymKeys
<1>3. /\ Global \in DOMAIN tables /\ DOMAIN ftypes \subseteq Fun
      /\ current \in DOMAIN tables
      /\ where \in {"types", "struct", "params", "locals", "functions"}
      /\ status \in {"run", "sem_err", "done"}
  BY DEF Typed, Walk, FunctionTypes
<1>4. /\ DOMAIN decls = DOMAIN MaxNames
      /\ \A list \in DOMAIN decls : decls[list] \in 0 .. MaxNames[list]
  BY BoundAssumption DEF Typed, Walk
<1>. QED
  BY <1>1, <1>2, <1>3, <1>4 DEF TypeOK, TableNames

(* The tables, the data of their symbols and the state of the walk keep    *)
(* their types, whatever the blocks malloc returns contain.                *)
THEOREM TypeCorrect == Spec => []TypeOK
<1>1. Init => Typed
  BY InitTyped
<1>2. Typed /\ [Next]_vars => Typed'
  BY NextTyped
<1>3. Typed => TypeOK
  BY TypedImpliesTypeOK
<1>. QED
  BY <1>1, <1>2, <1>3, PTL DEF Spec

-----------------------------------------------------------------------------
(* The second part of the inductive invariant: where the symbols are.      *)

(* The struct types whose fields are all declared.                         *)
ClosedStructs ==
  {s \in StructName : StructTable(s) \in DOMAIN tables /\ StructTable(s) # current}

InParams(f) == where = "params" /\ current = FuncTable(f)

ExtentIn(ts, d) ==
  IF d.kind = "struct" THEN ts[StructTable(d.type)].max_offset ELSE Size(d.type)

LowIn(ts, d) ==
  IF d.offset >= 0 THEN -(d.offset + ExtentIn(ts, d)) ELSE -d.offset

(* The type of a struct variable is one of S.                              *)
KnownVars(t, S) ==
  \A x \in Id : Var(x) \in DOMAIN t.syms /\ t.syms[Var(x)].kind = "struct"
                  => t.syms[Var(x)].type \in S

KnownStructs ==
  /\ \A n \in DOMAIN tables : KnownVars(tables[n], ClosedStructs)
  /\ \A s \in StructName : StructTable(s) \in DOMAIN tables
                             => Var(s) \in DOMAIN tables[Global].syms

(* The struct types whose tables did not start below 0.                    *)
CleanIn(ts) == {s \in StructName : ts[StructTable(s)].base >= 0}

(* What FromZero says of the table t of name n: malloc's left-over, taken  *)
(* as the first offset, is not negative, in t and in the struct types of   *)
(* its variables.  Without it a local of a (void) function may get the     *)
(* offset of a parameter.                                                  *)
Orderly(ts, n, t) ==
  /\ n # Global => t.base >= 0
  /\ KnownVars(t, CleanIn(ts))

(* The fields of a struct lie within its max_offset bytes, when its table  *)
(* did not start below 0.                                                  *)
StructOK(st) ==
  st.base >= 0 =>
    /\ st.max_offset >= 0
    /\ \A k \in DOMAIN st.syms :
          /\ st.syms[k].offset >= 0
          /\ st.syms[k].offset + Size(st.syms[k].type) <= st.max_offset

(* Locals are below rbp, within max_offset, parameters from rbp + 24 on.   *)
InFrame(ts, t, d) ==
  IF d.offset < 0 THEN -d.offset >= 24
  ELSE d.offset + ExtentIn(ts, d) <= t.max_offset

Apart(ts, d, e) ==
  \/ LowIn(ts, d) + ExtentIn(ts, d) <= LowIn(ts, e)
  \/ LowIn(ts, e) + ExtentIn(ts, e) <= LowIn(ts, d)

FrameOK(ts, t) ==
  /\ t.max_offset >= 0
  /\ \A x \in Id : Var(x) \in DOMAIN t.syms => InFrame(ts, t, t.syms[Var(x)])
  /\ \A x, y \in Id :
        x # y /\ Var(x) \in DOMAIN t.syms /\ Var(y) \in DOMAIN t.syms
          => Apart(ts, t.syms[Var(x)], t.syms[Var(y)])

(* While the parameters are declared there are no locals, and the next     *)
(* parameter goes right above the last one.                                *)
ParamsOK(ts, t) ==
  /\ t.max_offset >= 8
  /\ \A x \in Id : Var(x) \in DOMAIN t.syms =>
        LET d == t.syms[Var(x)] IN
        d.offset < 0 /\ -d.offset + ExtentIn(ts, d) <= t.max_offset + 16

Layout ==
  /\ \A s \in StructName :
        StructTable(s) \in DOMAIN tables => StructOK(tables[StructTable(s)])
  /\ \A f \in Fun :
       LET n == FuncTable(f) IN
       n \in DOMAIN tables /\ Orderly(tables, n, tables[n]) =>
         /\ FrameOK(tables, tables[n])
         /\ InParams(f) => ParamsOK(tables, tables[n])

(* The offset add_typesvars gave the field at e of the struct type st, for *)
(* a variable at offset.                                                   *)
PlacedField(n, st, e, offset) ==
  IF n = Global THEN e.offset
  ELSE IF offset < 0 THEN -e.offset - 24
  ELSE st.max_offset - e.offset - Size(e.type) + offset

FieldsOK(ts, n, t) ==
  \A x, f \in Id : Field(x, f) \in DOMAIN t.syms =>
    LET d == t.syms[Var(x)]
        st == ts[StructTable(d.type)]
    IN  /\ Var(f) \in DOMAIN st.syms
        /\ t.syms[Field(x, f)] =
             Data("prim", st.syms[Var(f)].type,
                  PlacedField(n, st, st.syms[Var(f)], d.offset))

FieldsPlaced ==
  \A n \in DOMAIN tables :
    n = Global \/ Orderly(tables, n, tables[n]) => FieldsOK(tables, n, tables[n])

(* What the arguments of a function take, up to the i-th.                  *)
ExtentOf(ts, a) ==
  IF a.type \in Prim THEN Size(a.type) ELSE ts[StructTable(a.type)].max_offset

ArgSizes(ts, args, i) == [j \in 1 .. i - 1 |-> ExtentOf(ts, args[j])]

Before(ts, args, i) == SumFunctionOnSet(ArgSizes(ts, args, i), 1 .. i - 1)

All(ts, args) == Before(ts, args, Len(args) + 1)

PlainArg(ts, a) ==
  \/ a.type \in Prim
  \/ FieldBytes(ts[StructTable(a.type)]) = ts[StructTable(a.type)].max_offset

(* The parameters are the symbols with negative offsets, in the order of   *)
(* the function's type, and args_size is what they take.                   *)
ArgsOK(ts, t, args) ==
  /\ \A i \in 1 .. Len(args) :
        /\ Var(args[i].id) \in DOMAIN t.syms
        /\ t.syms[Var(args[i].id)] =
             Data(IF args[i].type \in Prim THEN "prim" ELSE "struct",
                  args[i].type, -(24 + Before(ts, args, i)))
  /\ \A x \in Id : Var(x) \in DOMAIN t.syms /\ t.syms[Var(x)].offset < 0
                     => \E i \in 1 .. Len(args) : args[i].id = x
  /\ (\A i \in 1 .. Len(args) : PlainArg(ts, args[i]))
       => \E h \in HeapInts : t.args_size = h[2] + All(ts, args)

ArgsPlaced ==
  \A f \in DOMAIN ftypes :
    LET t == tables[FuncTable(f)]
        args == ftypes[f].args
    IN  Orderly(tables, FuncTable(f), t) =>
          /\ ArgsOK(tables, t, args)
          /\ InParams(f) => t.max_offset = 8 + All(tables, args)

Placed == KnownStructs /\ Layout /\ FieldsPlaced /\ ArgsPlaced

IInv == Typed /\ Placed

-----------------------------------------------------------------------------
(* Lemmas about tables that grow.                                          *)

(* The table u is t with the variable x, and perhaps its fields.           *)
Grown(t, u, x) ==
  /\ Var(x) \notin DOMAIN t.syms /\ Var(x) \in DOMAIN u.syms
  /\ \A y \in Id \ {x} : Var(y) \in DOMAIN u.syms => Var(y) \in DOMAIN t.syms
  /\ \A k \in DOMAIN t.syms : k \in DOMAIN u.syms /\ u.syms[k] = t.syms[k]

(* A primitive variable adds one name and no field.                        *)
LEMMA WithPrimGrown ==
  ASSUME NEW t, TableTyped(t), NEW type \in Prim, NEW x \in Id,
         NEW param \in BOOLEAN, Var(x) \notin DOMAIN t.syms
  PROVE  LET u == WithPrim(t, type, x, param) IN
         /\ Grown(t, u, x)
         /\ \A y, f \in Id : Field(y, f) \in DOMAIN u.syms
                                => Field(y, f) \in DOMAIN t.syms /\ y # x
<1>. DEFINE u == WithPrim(t, type, x, param)
<1>1. /\ DOMAIN u.syms = DOMAIN t.syms \cup {Var(x)}
      /\ \A k \in DOMAIN t.syms : k # Var(x) /\ u.syms[k] = t.syms[k]
  BY WithPrimEffect
<1>. HIDE DEF u
<1>2. Grown(t, u, x)
  BY <1>1, KeysApart DEF Grown
<1>3. ASSUME NEW y \in Id, NEW f \in Id, Field(y, f) \in DOMAIN u.syms
      PROVE  Field(y, f) \in DOMAIN t.syms /\ y # x
  BY <1>1, <1>3, KeysApart DEF TableTyped
<1>. QED
  BY <1>2, <1>3 DEF u

(* A struct variable adds one name, and the fields of its own type.        *)
LEMMA WithStructGrown ==
  ASSUME NEW t, TableTyped(t), NEW st, TableTyped(st), PlainFields(st),
         NEW s \in StructName, NEW x \in Id,
         NEW scope \in {"types", "params", "locals"},
         Var(x) \notin DOMAIN t.syms
  PROVE  LET u == WithStruct(t, s, st, x, scope) IN
         /\ Grown(t, u, x)
         /\ \A y, f \in Id : Field(y, f) \in DOMAIN u.syms
              => \/ y # x /\ Field(y, f) \in DOMAIN t.syms
                 \/ y = x /\ Var(f) \in DOMAIN st.syms
<1>. DEFINE u == WithStruct(t, s, st, x, scope)
<1>1. /\ \A k \in DOMAIN u.syms :
           \/ k \in DOMAIN t.syms
           \/ k = Var(x)
           \/ \E f \in Id : k = Field(x, f) /\ Var(f) \in DOMAIN st.syms
      /\ Var(x) \in DOMAIN u.syms
      /\ \A k \in DOMAIN t.syms : k \in DOMAIN u.syms /\ u.syms[k] = t.syms[k]
      /\ \A f \in Id : Field(x, f) \notin DOMAIN t.syms
  BY WithStructEffect
<1>. HIDE DEF u
<1>2. Grown(t, u, x)
  BY <1>1, KeysApart DEF Grown
<1>3. ASSUME NEW y \in Id, NEW f \in Id, Field(y, f) \in DOMAIN u.syms
      PROVE  \/ y # x /\ Field(y, f) \in DOMAIN t.syms
             \/ y = x /\ Var(f) \in DOMAIN st.syms
  BY <1>1, <1>3, KeysApart
<1>. QED
  BY <1>2, <1>3 DEF u

(* What the variables of a table take is known and not negative.           *)
Sized(ts, t) ==
  \A x \in Id : Var(x) \in DOMAIN t.syms =>
    t.syms[Var(x)].offset \in Int /\ ExtentIn(ts, t.syms[Var(x)]) \in Nat

(* Variables of known struct types have a size.                            *)
LEMMA KnownSized ==
  ASSUME NEW ts, NEW S, \A s \in S : ts[StructTable(s)].max_offset \in Nat,
         NEW t, TableTyped(t), KnownVars(t, S)
  PROVE  Sized(ts, t)
<1>1. ASSUME NEW x \in Id, Var(x) \in DOMAIN t.syms
      PROVE  t.syms[Var(x)].offset \in Int
  BY <1>1 DEF TableTyped, PrimData, NamedData
<1>2. ASSUME NEW x \in Id, Var(x) \in DOMAIN t.syms
      PROVE  ExtentIn(ts, t.syms[Var(x)]) \in Nat
  BY <1>2 DEF ExtentIn, KnownVars, Size
<1>. QED
  BY <1>1, <1>2 DEF Sized

(* Tables that change elsewhere leave a frame where it is.                 *)
LEMMA SameExtents ==
  ASSUME NEW ts, NEW us, NEW S,
         \A s \in S : us[StructTable(s)] = ts[StructTable(s)],
         NEW t, KnownVars(t, S)
  PROVE  /\ \A x \in Id : Var(x) \in DOMAIN t.syms =>
              /\ ExtentIn(us, t.syms[Var(x)]) = ExtentIn(ts, t.syms[Var(x)])
              /\ LowIn(us, t.syms[Var(x)]) = LowIn(ts, t.syms[Var(x)])
         /\ FrameOK(ts, t) => FrameOK(us, t)
         /\ ParamsOK(ts, t) => ParamsOK(us, t)
<1>1. \A x \in Id : Var(x) \in DOMAIN t.syms =>
         ExtentIn(us, t.syms[Var(x)]) = ExtentIn(ts, t.syms[Var(x)])
  BY DEF KnownVars, ExtentIn
<1>2. \A x \in Id : Var(x) \in DOMAIN t.syms =>
         LowIn(us, t.syms[Var(x)]) = LowIn(ts, t.syms[Var(x)])
  BY <1>1 DEF LowIn
<1>3. FrameOK(ts, t) => FrameOK(us, t)
  BY <1>1, <1>2 DEF FrameOK, InFrame, Apart
<1>4. ParamsOK(ts, t) => ParamsOK(us, t)
  BY <1>1 DEF ParamsOK
<1>. QED
  BY <1>1, <1>2, <1>3, <1>4

(* The fields stay in place when the struct types used keep their tables.  *)
LEMMA SameFields ==
  ASSUME NEW ts, NEW us, NEW S, NEW n,
         \A s \in S : us[StructTable(s)] = ts[StructTable(s)],
         NEW t, TableTyped(t), KnownVars(t, S), FieldsOK(ts, n, t)
  PROVE  FieldsOK(us, n, t)
<1>1. ASSUME NEW x \in Id, NEW f \in Id, Field(x, f) \in DOMAIN t.syms
      PROVE  us[StructTable(t.syms[Var(x)].type)]
               = ts[StructTable(t.syms[Var(x)].type)]
  BY <1>1 DEF TableTyped, KnownVars
<1>. QED
  BY <1>1 DEF FieldsOK

(* A table that ends up orderly was orderly while it had fewer variables.  *)
LEMMA OrderlyBefore ==
  ASSUME NEW ts, NEW us, NEW S,
         \A s \in S : us[StructTable(s)] = ts[StructTable(s)],
         NEW n, NEW t, KnownVars(t, S), NEW u, u.base = t.base,
         \A k \in DOMAIN t.syms : k \in DOMAIN u.syms /\ u.syms[k] = t.syms[k],
         Orderly(us, n, u)
  PROVE  Orderly(ts, n, t)
<1>1. ASSUME NEW x \in Id, Var(x) \in DOMAIN t.syms,
             t.syms[Var(x)].kind = "struct"
      PROVE  t.syms[Var(x)].type \in CleanIn(ts)
  <2>1. /\ t.syms[Var(x)].type \in S
        /\ t.syms[Var(x)].type \in CleanIn(us)
    BY <1>1 DEF KnownVars, Orderly
  <2>. QED
    BY <2>1 DEF CleanIn
<1>. QED
  BY <1>1 DEF Orderly, KnownVars

(* A local goes right below the last one.                                  *)
LEMMA LocalAdded ==
  ASSUME NEW ts, NEW t, FrameOK(ts, t), Sized(ts, t), t.max_offset \in Int,
         NEW u, NEW x \in Id, Grown(t, u, x),
         u.syms[Var(x)].offset = t.max_offset,
         ExtentIn(ts, u.syms[Var(x)]) \in Nat,
         u.max_offset = t.max_offset + ExtentIn(ts, u.syms[Var(x)])
  PROVE  FrameOK(ts, u)
<1>. DEFINE d == u.syms[Var(x)]
            e(y) == t.syms[Var(y)]
<1>1. /\ LowIn(ts, d) = -(t.max_offset + ExtentIn(ts, d))
      /\ t.max_offset >= 0 /\ u.max_offset >= t.max_offset
  BY DEF FrameOK, LowIn
<1>2. ASSUME NEW y \in Id, Var(y) \in DOMAIN u.syms
      PROVE  InFrame(ts, u, u.syms[Var(y)])
  <2>1. CASE y = x
    BY <1>1, <2>1 DEF InFrame
  <2>2. CASE y # x
    <3>1. Var(y) \in DOMAIN t.syms /\ u.syms[Var(y)] = e(y)
      BY <1>2, <2>2 DEF Grown
    <3>2. InFrame(ts, t, e(y)) /\ e(y).offset \in Int /\ ExtentIn(ts, e(y)) \in Nat
      BY <3>1 DEF FrameOK, Sized
    <3>. HIDE DEF e
    <3>. QED
      BY <1>1, <3>1, <3>2 DEF InFrame
  <2>. QED
    BY <2>1, <2>2
<1>3. ASSUME NEW y \in Id, Var(y) \in DOMAIN t.syms
      PROVE  LowIn(ts, d) + ExtentIn(ts, d) <= LowIn(ts, e(y))
  <2>1. InFrame(ts, t, e(y)) /\ e(y).offset \in Int /\ ExtentIn(ts, e(y)) \in Nat
    BY <1>3 DEF FrameOK, Sized
  <2>. HIDE DEF d, e
  <2>. QED
    BY <1>1, <2>1 DEF InFrame, LowIn, d
<1>4. ASSUME NEW y \in Id, NEW z \in Id, y # z,
             Var(y) \in DOMAIN u.syms, Var(z) \in DOMAIN u.syms
      PROVE  Apart(ts, u.syms[Var(y)], u.syms[Var(z)])
  <2>1. CASE y # x /\ z # x
    BY <1>4, <2>1 DEF Grown, FrameOK
  <2>2. CASE y = x
    BY <1>3, <1>4, <2>2 DEF Grown, Apart
  <2>3. CASE z = x
    BY <1>3, <1>4, <2>3 DEF Grown, Apart
  <2>. QED
    BY <2>1, <2>2, <2>3
<1>. QED
  BY <1>1, <1>2, <1>4 DEF FrameOK

(* A parameter goes right above the last one.                              *)
LEMMA ParamAdded ==
  ASSUME NEW ts, NEW t, FrameOK(ts, t), ParamsOK(ts, t), Sized(ts, t),
         t.max_offset \in Int,
         NEW u, NEW x \in Id, Grown(t, u, x),
         u.syms[Var(x)].offset = -t.max_offset - 16,
         ExtentIn(ts, u.syms[Var(x)]) \in Nat,
         u.max_offset = t.max_offset + ExtentIn(ts, u.syms[Var(x)])
  PROVE  FrameOK(ts, u) /\ ParamsOK(ts, u)
<1>. DEFINE d == u.syms[Var(x)]
            e(y) == t.syms[Var(y)]
<1>1. /\ LowIn(ts, d) = t.max_offset + 16 /\ d.offset < 0
      /\ t.max_offset >= 8 /\ u.max_offset >= t.max_offset
  BY DEF ParamsOK, LowIn
<1>2. ASSUME NEW y \in Id, Var(y) \in DOMAIN t.syms
      PROVE  /\ e(y).offset \in Int /\ ExtentIn(ts, e(y)) \in Nat
             /\ e(y).offset < 0 /\ -e(y).offset >= 24
             /\ -e(y).offset + ExtentIn(ts, e(y)) <= t.max_offset + 16
             /\ LowIn(ts, e(y)) = -e(y).offset
  <2>1. /\ InFrame(ts, t, e(y)) /\ e(y).offset \in Int
        /\ ExtentIn(ts, e(y)) \in Nat /\ e(y).offset < 0
        /\ -e(y).offset + ExtentIn(ts, e(y)) <= t.max_offset + 16
    BY <1>2 DEF FrameOK, ParamsOK, Sized
  <2>. HIDE DEF e
  <2>. QED
    BY <2>1 DEF InFrame, LowIn
<1>3. ASSUME NEW y \in Id, Var(y) \in DOMAIN u.syms
      PROVE  /\ InFrame(ts, u, u.syms[Var(y)])
             /\ u.syms[Var(y)].offset < 0
             /\ -u.syms[Var(y)].offset + ExtentIn(ts, u.syms[Var(y)])
                  <= u.max_offset + 16
  <2>1. CASE y = x
    BY <1>1, <2>1 DEF InFrame
  <2>2. CASE y # x
    <3>1. Var(y) \in DOMAIN t.syms /\ u.syms[Var(y)] = e(y)
      BY <1>3, <2>2 DEF Grown
    <3>. HIDE DEF e
    <3>. QED
      BY <1>1, <1>2, <3>1 DEF InFrame
  <2>. QED
    BY <2>1, <2>2
<1>4. ASSUME NEW y \in Id, Var(y) \in DOMAIN t.syms
      PROVE  LowIn(ts, e(y)) + ExtentIn(ts, e(y)) <= LowIn(ts, d)
  <2>. HIDE DEF d, e
  <2>. QED
    BY <1>1, <1>2, <1>4
<1>5. ASSUME NEW y \in Id, NEW z \in Id, y # z,
             Var(y) \in DOMAIN u.syms, Var(z) \in DOMAIN u.syms
      PROVE  Apart(ts, u.syms[Var(y)], u.syms[Var(z)])
  <2>1. CASE y # x /\ z # x
    BY <1>5, <2>1 DEF Grown, FrameOK
  <2>2. CASE y = x
    BY <1>4, <1>5, <2>2 DEF Grown, Apart
  <2>3. CASE z = x
    BY <1>4, <1>5, <2>3 DEF Grown, Apart
  <2>. QED
    BY <2>1, <2>2, <2>3
<1>. QED
  BY <1>1, <1>3, <1>5 DEF FrameOK, ParamsOK

(* A primitive variable has no field, and moves none.                      *)
LEMMA PrimFields ==
  ASSUME NEW ts, NEW n, NEW t, TableTyped(t), FieldsOK(ts, n, t),
         NEW u, NEW x \in Id, Grown(t, u, x),
         \A y, f \in Id : Field(y, f) \in DOMAIN u.syms
                            => Field(y, f) \in DOMAIN t.syms
  PROVE  FieldsOK(ts, n, u)
<1>1. ASSUME NEW y \in Id, NEW f \in Id, Field(y, f) \in DOMAIN u.syms
      PROVE  /\ Field(y, f) \in DOMAIN t.syms
             /\ u.syms[Field(y, f)] = t.syms[Field(y, f)]
             /\ u.syms[Var(y)] = t.syms[Var(y)]
  BY <1>1 DEF Grown, TableTyped
<1>. QED
  BY <1>1 DEF FieldsOK

(* The fields of a struct variable go where PlacedField says.              *)
LEMMA StructFields ==
  ASSUME NEW ts, NEW n, NEW t, TableTyped(t), FieldsOK(ts, n, t),
         NEW s \in StructName, NEW x \in Id,
         NEW scope \in {"types", "params", "locals"},
         TableTyped(ts[StructTable(s)]), PlainFields(ts[StructTable(s)]),
         Var(x) \notin DOMAIN t.syms,
         n = Global <=> scope = "types",
         scope = "params" => t.max_offset >= 0,
         scope = "locals" => t.max_offset >= 0
  PROVE  FieldsOK(ts, n, WithStruct(t, s, ts[StructTable(s)], x, scope))
<1>. DEFINE st == ts[StructTable(s)]
            u == WithStruct(t, s, st, x, scope)
            at == IF scope = "params" THEN -t.max_offset - 16 ELSE t.max_offset
<1>1. /\ Grown(t, u, x)
      /\ \A y, f \in Id : Field(y, f) \in DOMAIN u.syms
           => \/ y # x /\ Field(y, f) \in DOMAIN t.syms
              \/ y = x /\ Var(f) \in DOMAIN st.syms
  <2>. HIDE DEF st
  <2>. QED
    BY WithStructGrown DEF st
<1>2. /\ u.syms[Var(x)] = Data("struct", s, at)
      /\ \A f \in Id :
           Var(f) \in DOMAIN st.syms =>
             u.syms[Field(x, f)] = Data("prim", st.syms[Var(f)].type,
                                        FieldOffset(t, st, Var(f), scope))
  <2>. HIDE DEF st
  <2>. QED
    BY WithStructEffect DEF st
<1>. HIDE DEF u
<1>3. ASSUME NEW f \in Id, Var(f) \in DOMAIN st.syms
      PROVE  FieldOffset(t, st, Var(f), scope)
               = PlacedField(n, st, st.syms[Var(f)], at)
  <2>1. /\ st.syms[Var(f)].offset \in Int /\ st.max_offset \in Int
        /\ t.max_offset \in Int /\ Size(st.syms[Var(f)].type) \in Int
    BY <1>3 DEF PlainFields, PrimData, TableTyped, Size
  <2>. HIDE DEF st
  <2>2. CASE scope = "types"
    BY <2>2 DEF FieldOffset, PlacedField
  <2>3. CASE scope = "params"
    BY <2>1, <2>3 DEF FieldOffset, PlacedField
  <2>4. CASE scope = "locals"
    BY <2>1, <2>4 DEF FieldOffset, PlacedField
  <2>. QED
    BY <2>2, <2>3, <2>4
<1>4. ASSUME NEW y \in Id, NEW f \in Id, Field(y, f) \in DOMAIN u.syms
      PROVE  LET d == u.syms[Var(y)]
                 r == ts[StructTable(d.type)]
             IN  /\ Var(f) \in DOMAIN r.syms
                 /\ u.syms[Field(y, f)] =
                      Data("prim", r.syms[Var(f)].type,
                           PlacedField(n, r, r.syms[Var(f)], d.offset))
  <2>1. CASE y = x
    <3>1. Var(f) \in DOMAIN st.syms
      BY <1>1, <1>4, <2>1
    <3>2. u.syms[Var(y)].type = s /\ u.syms[Var(y)].offset = at
      BY <1>2, <2>1 DEF Data
    <3>. HIDE DEF at
    <3>. QED
      BY <1>2, <1>3, <2>1, <3>1, <3>2
  <2>2. CASE y # x
    <3>1. Field(y, f) \in DOMAIN t.syms /\ Var(y) \in DOMAIN t.syms
      BY <1>1, <1>4, <2>2 DEF TableTyped
    <3>2. /\ u.syms[Field(y, f)] = t.syms[Field(y, f)]
          /\ u.syms[Var(y)] = t.syms[Var(y)]
      BY <1>1, <3>1 DEF Grown
    <3>. QED
      BY <3>1, <3>2 DEF FieldsOK
  <2>. QED
    BY <2>1, <2>2
<1>5. FieldsOK(ts, n, u)
  BY <1>4 DEF FieldsOK
<1>. QED
  BY <1>5 DEF u

-----------------------------------------------------------------------------
(* Lemmas about what the arguments take.                                   *)

(* Every argument has a size, which is a natural number.                   *)
KnownArgs(args, S) == \A i \in 1 .. Len(args) : args[i].type \in Prim \cup S

(* The arguments of a function have the types of its parameters, which     *)
(* are known.                                                              *)
LEMMA ArgsKnown ==
  ASSUME NEW ts, NEW t, NEW args \in Seq(Arg), ArgsOK(ts, t, args),
         NEW S, KnownVars(t, S)
  PROVE  KnownArgs(args, S)
<1>1. ASSUME NEW i \in 1 .. Len(args), args[i].type \notin Prim
      PROVE  args[i].type \in S
  <2>1. /\ Var(args[i].id) \in DOMAIN t.syms
        /\ t.syms[Var(args[i].id)].kind = "struct"
        /\ t.syms[Var(args[i].id)].type = args[i].type
    <3>1. /\ Var(args[i].id) \in DOMAIN t.syms
          /\ t.syms[Var(args[i].id)] =
               Data("struct", args[i].type, -(24 + Before(ts, args, i)))
      BY <1>1 DEF ArgsOK
    <3>. QED
      BY <3>1 DEF Data
  <2>2. args[i].id \in Id
    <3>1. args[i] \in Arg
      OBVIOUS
    <3>. QED
      BY <3>1 DEF Arg
  <2>. QED
    BY <2>1, <2>2 DEF KnownVars
<1>. QED
  BY <1>1 DEF KnownArgs

(* An argument of a known type takes a natural number of bytes.            *)
LEMMA ExtentOfNat ==
  ASSUME NEW ts, NEW S, \A s \in S : ts[StructTable(s)].max_offset \in Nat,
         NEW args, KnownArgs(args, S)
  PROVE  \A i \in 1 .. Len(args) : ExtentOf(ts, args[i]) \in Nat
BY DEF KnownArgs, ExtentOf, Size

(* Nothing comes before the first argument.                                *)
LEMMA BeforeFirst ==
  ASSUME NEW ts, NEW args
  PROVE  Before(ts, args, 1) = 0
<1>1. 1 .. 1 - 1 = {}
  OBVIOUS
<1>. QED
  BY <1>1, SumEmpty DEF Before

(* What comes before the i-th argument is a natural number.                *)
LEMMA BeforeNat ==
  ASSUME NEW ts, NEW args, NEW i \in Nat,
         \A j \in 1 .. i - 1 : ExtentOf(ts, args[j]) \in Nat
  PROVE  Before(ts, args, i) \in Nat
<1>1. IsFiniteSet(1 .. i - 1)
  BY FS_Interval
<1>2. \A j \in 1 .. i - 1 : ArgSizes(ts, args, i)[j] \in Nat
  BY DEF ArgSizes
<1>. QED
  BY <1>1, <1>2, SumNat DEF Before

(* What the first i - 1 arguments take depends on nothing else.            *)
LEMMA BeforeSame ==
  ASSUME NEW ts, NEW us, NEW args, NEW more, NEW i \in Nat,
         \A j \in 1 .. i - 1 : ExtentOf(us, more[j]) = ExtentOf(ts, args[j])
  PROVE  Before(us, more, i) = Before(ts, args, i)
<1>1. ArgSizes(us, more, i) = ArgSizes(ts, args, i)
  BY DEF ArgSizes
<1>. QED
  BY <1>1 DEF Before

(* One more argument adds what it takes.                                   *)
LEMMA BeforeNext ==
  ASSUME NEW ts, NEW args, NEW i \in Nat \ {0},
         \A j \in 1 .. i : ExtentOf(ts, args[j]) \in Nat
  PROVE  Before(ts, args, i + 1) = Before(ts, args, i) + ExtentOf(ts, args[i])
<1>. DEFINE sizes == ArgSizes(ts, args, i + 1)
            less == ArgSizes(ts, args, i)
            old == 1 .. i - 1
<1>1. IsFiniteSet(old)
  BY FS_Interval
<1>2. 1 .. (i + 1) - 1 = old \cup {i} /\ i \notin old
  OBVIOUS
<1>3. /\ \A j \in old : less[j] = sizes[j]
      /\ \A j \in old \cup {i} : sizes[j] \in Int
      /\ sizes[i] = ExtentOf(ts, args[i])
  BY DEF ArgSizes
<1>4. /\ Before(ts, args, i) = SumFunctionOnSet(less, old)
      /\ Before(ts, args, i + 1) = SumFunctionOnSet(sizes, old \cup {i})
  BY <1>2 DEF Before
<1>. HIDE DEF sizes, less, old
<1>5. SumFunctionOnSet(less, old) = SumFunctionOnSet(sizes, old)
  BY <1>1, <1>3, SumSame
<1>6. SumFunctionOnSet(sizes, old \cup {i})
        = SumFunctionOnSet(sizes, old) + sizes[i]
  BY <1>1, <1>2, <1>3, SumAdd
<1>. QED
  BY <1>3, <1>4, <1>5, <1>6

(* Tables that change elsewhere leave the parameters where they are.       *)
LEMMA SameArgs ==
  ASSUME NEW ts, NEW us, NEW S,
         \A s \in S : us[StructTable(s)] = ts[StructTable(s)],
         NEW t, NEW args \in Seq(Arg), KnownArgs(args, S)
  PROVE  /\ ArgsOK(ts, t, args) => ArgsOK(us, t, args)
         /\ All(us, args) = All(ts, args)
<1>1. /\ Len(args) \in Nat
      /\ \A i \in 1 .. Len(args) :
            /\ ExtentOf(us, args[i]) = ExtentOf(ts, args[i])
            /\ PlainArg(us, args[i]) <=> PlainArg(ts, args[i])
  BY DEF KnownArgs, ExtentOf, PlainArg
<1>2. \A i \in 1 .. Len(args) + 1 : Before(us, args, i) = Before(ts, args, i)
  <2>1. ASSUME NEW i \in 1 .. Len(args) + 1
        PROVE  Before(us, args, i) = Before(ts, args, i)
    <3>1. \A j \in 1 .. i - 1 : ExtentOf(us, args[j]) = ExtentOf(ts, args[j])
      BY <1>1
    <3>. QED
      BY <3>1, BeforeSame
  <2>. QED
    BY <2>1
<1>3. All(us, args) = All(ts, args)
  BY <1>1, <1>2 DEF All
<1>4. ASSUME ArgsOK(ts, t, args) PROVE ArgsOK(us, t, args)
  <2>1. \A i \in 1 .. Len(args) : Before(us, args, i) = Before(ts, args, i)
    BY <1>1, <1>2
  <2>. QED
    BY <1>1, <1>3, <1>4, <2>1 DEF ArgsOK
<1>. QED
  BY <1>3, <1>4

(* A local is not a parameter.                                             *)
LEMMA LocalArgs ==
  ASSUME NEW ts, NEW t, NEW args \in Seq(Arg), ArgsOK(ts, t, args),
         NEW u, NEW x \in Id, Grown(t, u, x),
         u.syms[Var(x)].offset \in Nat, u.args_size = t.args_size
  PROVE  ArgsOK(ts, u, args)
<1>1. \A i \in 1 .. Len(args) :
         /\ Var(args[i].id) \in DOMAIN u.syms
         /\ u.syms[Var(args[i].id)] = t.syms[Var(args[i].id)]
  BY DEF ArgsOK, Grown
<1>2. ASSUME NEW y \in Id, Var(y) \in DOMAIN u.syms, u.syms[Var(y)].offset < 0
      PROVE  Var(y) \in DOMAIN t.syms /\ t.syms[Var(y)].offset < 0
  <2>1. y # x
    BY <1>2
  <2>. QED
    BY <1>2, <2>1 DEF Grown
<1>. QED
  BY <1>1, <1>2 DEF ArgsOK

(* The table u is t with the parameter a after the others.                 *)
NextParam(ts, t, a, u) ==
  /\ Grown(t, u, a.id)
  /\ u.syms[Var(a.id)] = Data(IF a.type \in Prim THEN "prim" ELSE "struct",
                              a.type, -t.max_offset - 16)
  /\ u.max_offset = t.max_offset + ExtentOf(ts, a)
  /\ PlainArg(ts, a) => u.args_size = t.args_size + ExtentOf(ts, a)

(* A parameter is the last one.                                            *)
LEMMA ParamArgs ==
  ASSUME NEW ts, NEW S, \A s \in S : ts[StructTable(s)].max_offset \in Nat,
         NEW t, NEW args \in Seq(Arg), KnownArgs(args, S), ArgsOK(ts, t, args),
         t.max_offset = 8 + All(ts, args),
         NEW a \in Arg, a.type \in Prim \cup S,
         NEW u, NextParam(ts, t, a, u)
  PROVE  /\ ArgsOK(ts, u, Append(args, a))
         /\ u.max_offset = 8 + All(ts, Append(args, a))
<1>. USE DEF NextParam
<1>. DEFINE more == Append(args, a)
            n == Len(args)
<1>1. /\ n \in Nat /\ more \in Seq(Arg) /\ Len(more) = n + 1
      /\ more[n + 1] = a /\ \A i \in 1 .. n : more[i] = args[i]
  OBVIOUS
<1>. HIDE DEF more, n
<1>2. /\ \A i \in 1 .. n : ExtentOf(ts, args[i]) \in Nat
      /\ \A i \in 1 .. n + 1 : ExtentOf(ts, more[i]) \in Nat
  <2>1. KnownArgs(more, S)
    BY <1>1 DEF KnownArgs, n
  <2>. QED
    BY <1>1, <2>1, ExtentOfNat DEF n
<1>3. \A i \in 1 .. n + 1 : Before(ts, more, i) = Before(ts, args, i)
  <2>1. ASSUME NEW i \in 1 .. n + 1
        PROVE  Before(ts, more, i) = Before(ts, args, i)
    <3>1. i \in Nat /\ \A j \in 1 .. i - 1 : ExtentOf(ts, more[j]) = ExtentOf(ts, args[j])
      BY <1>1
    <3>. QED
      BY <3>1, BeforeSame
  <2>. QED
    BY <2>1
<1>4. All(ts, args) = Before(ts, args, n + 1) /\ All(ts, args) \in Nat
  <2>1. n + 1 \in Nat /\ \A j \in 1 .. (n + 1) - 1 : ExtentOf(ts, args[j]) \in Nat
    BY <1>1, <1>2
  <2>. QED
    BY <1>1, <2>1, BeforeNat DEF All, n
<1>5. All(ts, more) = All(ts, args) + ExtentOf(ts, a)
  <2>1. n + 1 \in Nat \ {0}
    BY <1>1
  <2>2. Before(ts, more, n + 1 + 1) = Before(ts, more, n + 1) + ExtentOf(ts, a)
    BY <1>1, <1>2, <2>1, BeforeNext, SMTT(30)
  <2>3. Before(ts, more, n + 1) = Before(ts, args, n + 1)
    BY <1>1, <1>3
  <2>. QED
    BY <1>1, <1>4, <2>2, <2>3 DEF All
<1>6. ASSUME NEW i \in 1 .. Len(more)
      PROVE  /\ Var(more[i].id) \in DOMAIN u.syms
             /\ u.syms[Var(more[i].id)] =
                  Data(IF more[i].type \in Prim THEN "prim" ELSE "struct",
                       more[i].type, -(24 + Before(ts, more, i)))
  <2>1. CASE i = n + 1
    <3>1. Before(ts, more, i) = All(ts, args)
      BY <1>1, <1>3, <1>4, <2>1
    <3>2. -t.max_offset - 16 = -(24 + All(ts, args))
      BY <1>4
    <3>. QED
      BY <1>1, <2>1, <3>1, <3>2 DEF Grown
  <2>2. CASE i # n + 1
    <3>1. i \in 1 .. n /\ more[i] = args[i] /\ Before(ts, more, i) = Before(ts, args, i)
      BY <1>1, <1>3, <2>2
    <3>. QED
      BY <3>1 DEF ArgsOK, Grown, n
  <2>. QED
    BY <2>1, <2>2
<1>7. ASSUME NEW y \in Id, Var(y) \in DOMAIN u.syms, u.syms[Var(y)].offset < 0
      PROVE  \E i \in 1 .. Len(more) : more[i].id = y
  <2>1. CASE y = a.id
    BY <1>1, <2>1
  <2>2. CASE y # a.id
    <3>1. Var(y) \in DOMAIN t.syms /\ t.syms[Var(y)].offset < 0
      BY <1>7, <2>2 DEF Grown
    <3>2. PICK i \in 1 .. n : args[i].id = y
      BY <3>1 DEF ArgsOK, n
    <3>. QED
      BY <1>1, <3>2
  <2>. QED
    BY <2>1, <2>2
<1>8. ASSUME \A i \in 1 .. Len(more) : PlainArg(ts, more[i])
      PROVE  \E h \in HeapInts : u.args_size = h[2] + All(ts, more)
  <2>1. PlainArg(ts, a) /\ \A i \in 1 .. n : PlainArg(ts, args[i])
    BY <1>1, <1>8
  <2>2. PICK h \in HeapInts : t.args_size = h[2] + All(ts, args)
    BY <2>1 DEF ArgsOK, n
  <2>3. ExtentOf(ts, a) \in Nat /\ h[2] \in Int
    BY <1>1, <1>2, HeapAssumption
  <2>4. u.args_size = h[2] + All(ts, more)
    BY <1>4, <1>5, <2>1, <2>2, <2>3
  <2>. QED
    BY <2>4
<1>9. u.max_offset = 8 + All(ts, more)
  <2>1. ExtentOf(ts, a) \in Nat
    BY <1>1, <1>2
  <2>. QED
    BY <1>4, <1>5, <2>1
<1>10. ArgsOK(ts, u, more)
  BY <1>6, <1>7, <1>8 DEF ArgsOK
<1>. QED
  BY <1>9, <1>10 DEF more

-----------------------------------------------------------------------------
(* Every action preserves the layout.                                      *)

(* A struct type whose fields are all declared is in order.                *)
LEMMA ClosedStructsOK ==
  ASSUME Typed, Placed, NEW s \in ClosedStructs
  PROVE  /\ s \in StructName
         /\ TableTyped(tables[StructTable(s)])
         /\ PlainFields(tables[StructTable(s)])
         /\ StructOK(tables[StructTable(s)])
         /\ tables[StructTable(s)].max_offset \in Int
         /\ s \in CleanIn(tables) => tables[StructTable(s)].max_offset \in Nat
<1>1. s \in StructName /\ StructTable(s) \in DOMAIN tables
  BY DEF ClosedStructs
<1>2. /\ TableTyped(tables[StructTable(s)])
      /\ PlainFields(tables[StructTable(s)])
      /\ StructOK(tables[StructTable(s)])
  BY <1>1 DEF Typed, TablesTyped, Placed, Layout
<1>. QED
  BY <1>1, <1>2 DEF TableTyped, StructOK, CleanIn

(* The struct types an orderly table uses.                                 *)
CleanStructs == ClosedStructs \cap CleanIn(tables)

(* What the variables of an orderly table take is not negative.            *)
LEMMA OrderlySized ==
  ASSUME Typed, Placed, NEW n, NEW t, TableTyped(t),
         KnownVars(t, ClosedStructs), Orderly(tables, n, t)
  PROVE  /\ KnownVars(t, CleanStructs) /\ Sized(tables, t)
         /\ \A s \in CleanStructs : tables[StructTable(s)].max_offset \in Nat
<1>1. KnownVars(t, CleanStructs)
  BY DEF KnownVars, Orderly, CleanStructs
<1>2. \A s \in CleanStructs : tables[StructTable(s)].max_offset \in Nat
  BY ClosedStructsOK DEF CleanStructs
<1>. QED
  BY <1>1, <1>2, KnownSized

(* A table that a step does not touch stays in order, when the step leaves *)
(* the declared struct types alone.                                        *)
LEMMA Untouched ==
  ASSUME Typed, Placed, NEW us, NEW S, ClosedStructs \subseteq S,
         \A s \in ClosedStructs : us[StructTable(s)] = tables[StructTable(s)],
         NEW n \in DOMAIN tables
  PROVE  /\ KnownVars(tables[n], S)
         /\ n = Global \/ Orderly(us, n, tables[n]) => FieldsOK(us, n, tables[n])
         /\ \A f \in Fun : n = FuncTable(f) /\ Orderly(us, n, tables[n]) =>
              /\ FrameOK(us, tables[n])
              /\ ArgsOK(us, tables[n], ftypes[f].args)
              /\ All(us, ftypes[f].args) = All(tables, ftypes[f].args)
              /\ InParams(f) => /\ ParamsOK(us, tables[n])
                                /\ tables[n].max_offset = 8 + All(us, ftypes[f].args)
<1>. DEFINE t == tables[n]
<1>1. /\ KnownVars(t, ClosedStructs) /\ TableTyped(t)
      /\ n = Global \/ Orderly(tables, n, t) => FieldsOK(tables, n, t)
  BY DEF Typed, TablesTyped, Placed, KnownStructs, FieldsPlaced
<1>2. KnownVars(t, S)
  BY <1>1 DEF KnownVars
<1>3. Orderly(us, n, t) => Orderly(tables, n, t)
  <2>. HIDE DEF t
  <2>. QED
    BY <1>1, OrderlyBefore
<1>4. n = Global \/ Orderly(us, n, t) => FieldsOK(us, n, t)
  <2>. HIDE DEF t
  <2>. QED
    BY <1>1, <1>3, SameFields
<1>5. ASSUME NEW f \in Fun, n = FuncTable(f), Orderly(us, n, t)
      PROVE  /\ FrameOK(us, t)
             /\ ArgsOK(us, t, ftypes[f].args)
             /\ All(us, ftypes[f].args) = All(tables, ftypes[f].args)
             /\ InParams(f) => /\ ParamsOK(us, t)
                               /\ t.max_offset = 8 + All(us, ftypes[f].args)
  <2>. DEFINE args == ftypes[f].args
  <2>1. f \in DOMAIN ftypes /\ args \in Seq(Arg)
    BY <1>5 DEF Typed, FunctionTypes
  <2>2. /\ FrameOK(tables, t)
        /\ InParams(f) => ParamsOK(tables, t)
        /\ ArgsOK(tables, t, args)
        /\ InParams(f) => t.max_offset = 8 + All(tables, args)
    BY <1>3, <1>5, <2>1 DEF Placed, Layout, ArgsPlaced
  <2>. HIDE DEF t, args
  <2>3. FrameOK(us, t) /\ (ParamsOK(tables, t) => ParamsOK(us, t))
    BY <1>1, <2>2, SameExtents
  <2>4. KnownArgs(args, ClosedStructs)
    BY <1>1, <2>1, <2>2, ArgsKnown
  <2>5. ArgsOK(us, t, args) /\ All(us, args) = All(tables, args)
    BY <2>1, <2>2, <2>4, SameArgs
  <2>. QED
    BY <2>2, <2>3, <2>5 DEF args
<1>. QED
  BY <1>2, <1>4, <1>5 DEF t

(* A variable that is not a parameter.                                     *)
LEMMA LocalPlaced ==
  ASSUME Typed, Placed, where \in {"types", "struct", "locals"},
         NEW x \in Id, NEW u, TableTyped(u), Grown(tables[current], u, x),
         u.syms[Var(x)].kind = "struct" => u.syms[Var(x)].type \in ClosedStructs,
         u.syms[Var(x)].offset = tables[current].max_offset,
         u.max_offset = tables[current].max_offset
                          + ExtentIn(tables, u.syms[Var(x)]),
         u.args_size = tables[current].args_size,
         u.base = tables[current].base,
         where = "struct" => StructOK(u),
         current = Global \/ Orderly(tables, current, u)
           => FieldsOK(tables, current, u),
         tables' = [tables EXCEPT ![current] = u],
         UNCHANGED <<ftypes, current, where>>
  PROVE  Placed'
<1>. DEFINE t == tables[current]
            d == u.syms[Var(x)]
<1>1. /\ current \in DOMAIN tables /\ Global \in DOMAIN tables
      /\ DOMAIN tables' = DOMAIN tables
      /\ tables'[current] = u
      /\ \A n \in DOMAIN tables : n # current => tables'[n] = tables[n]
  BY DEF Typed, Walk
<1>2. /\ ClosedStructs' = ClosedStructs
      /\ \A s \in ClosedStructs : tables'[StructTable(s)] = tables[StructTable(s)]
  BY <1>1 DEF ClosedStructs
<1>3. /\ TableTyped(t) /\ KnownVars(t, ClosedStructs)
      /\ t.max_offset \in Int
  BY <1>1 DEF Typed, TablesTyped, TableTyped, Placed, KnownStructs
<1>4. KnownVars(u, ClosedStructs)
  BY <1>3 DEF KnownVars, Grown
<1>5. KnownStructs'
  <2>1. \A n \in DOMAIN tables' : KnownVars(tables'[n], ClosedStructs)
    BY <1>1, <1>4 DEF Placed, KnownStructs
  <2>2. ASSUME NEW s \in StructName, StructTable(s) \in DOMAIN tables'
        PROVE  Var(s) \in DOMAIN tables'[Global].syms
    <3>1. Var(s) \in DOMAIN tables[Global].syms
      BY <1>1, <2>2 DEF Placed, KnownStructs
    <3>. QED
      BY <1>1, <3>1 DEF Grown
  <2>. QED
    BY <1>2, <2>1, <2>2 DEF KnownStructs
<1>6. /\ Orderly(tables', current, u) => Orderly(tables, current, u)
      /\ Orderly(tables', current, u) => Orderly(tables, current, t)
  <2>1. Orderly(tables', current, u) => Orderly(tables, current, u)
    BY <1>2, <1>4, OrderlyBefore
  <2>2. \A k \in DOMAIN t.syms : k \in DOMAIN u.syms /\ u.syms[k] = t.syms[k]
    BY DEF Grown
  <2>3. u.base = t.base
    OBVIOUS
  <2>. HIDE DEF t
  <2>4. Orderly(tables', current, u) => Orderly(tables, current, t)
    BY <1>2, <1>3, <2>2, <2>3, OrderlyBefore
  <2>. QED
    BY <2>1, <2>4
<1>7. ASSUME NEW s \in StructName, StructTable(s) \in DOMAIN tables'
      PROVE  StructOK(tables'[StructTable(s)])
  <2>1. CASE StructTable(s) = current
    <3>1. where = "struct"
      BY <2>1, NamesApart DEF Typed, Walk
    <3>. QED
      BY <1>1, <2>1, <3>1
  <2>2. CASE StructTable(s) # current
    BY <1>1, <1>7, <2>2 DEF Placed, Layout
  <2>. QED
    BY <2>1, <2>2
<1>8. ASSUME NEW n \in DOMAIN tables, n # current
      PROVE  /\ tables'[n] = tables[n]
             /\ n = Global \/ Orderly(tables', n, tables'[n])
                  => FieldsOK(tables', n, tables'[n])
             /\ \A f \in Fun : n = FuncTable(f) /\ Orderly(tables', n, tables'[n]) =>
                  /\ FrameOK(tables', tables'[n])
                  /\ ArgsOK(tables', tables'[n], ftypes[f].args)
  <2>1. tables'[n] = tables[n]
    BY <1>1, <1>8
  <2>2. /\ n = Global \/ Orderly(tables', n, tables[n])
             => FieldsOK(tables', n, tables[n])
        /\ \A f \in Fun : n = FuncTable(f) /\ Orderly(tables', n, tables[n]) =>
              /\ FrameOK(tables', tables[n])
              /\ ArgsOK(tables', tables[n], ftypes[f].args)
    BY <1>2, Untouched
  <2>. QED
    BY <2>1, <2>2
<1>9. current = Global \/ Orderly(tables', current, u)
        => FieldsOK(tables', current, u)
  BY <1>2, <1>4, <1>6, SameFields
<1>10. ASSUME NEW f \in Fun, current = FuncTable(f), Orderly(tables', current, u)
       PROVE  FrameOK(tables', u) /\ ArgsOK(tables', u, ftypes[f].args)
  <2>. DEFINE args == ftypes[f].args
  <2>1. f \in DOMAIN ftypes /\ args \in Seq(Arg)
    BY <1>1, <1>10 DEF Typed, FunctionTypes
  <2>2. FrameOK(tables, t) /\ ArgsOK(tables, t, args)
    BY <1>1, <1>6, <1>10, <2>1 DEF Placed, Layout, ArgsPlaced
  <2>3. Sized(tables, t) /\ Sized(tables, u)
    <3>. HIDE DEF t
    <3>. QED
      BY <1>3, <1>4, <1>6, <1>10, OrderlySized
  <2>4. ExtentIn(tables, d) \in Nat
    BY <2>3 DEF Sized, Grown
  <2>5. FrameOK(tables, u)
    <3>. HIDE DEF t
    <3>. QED
      BY <1>3, <2>2, <2>3, <2>4, LocalAdded DEF t
  <2>6. d.offset \in Nat
    BY <1>3, <2>2 DEF FrameOK
  <2>7. ArgsOK(tables, u, args)
    <3>. HIDE DEF t, args
    <3>. QED
      BY <2>1, <2>2, <2>6, LocalArgs DEF t
  <2>8. KnownArgs(args, ClosedStructs)
    <3>. HIDE DEF args
    <3>. QED
      BY <1>4, <2>1, <2>7, ArgsKnown
  <2>9. FrameOK(tables', u)
    BY <1>2, <1>4, <2>5, SameExtents
  <2>10. ArgsOK(tables', u, args)
    <3>. HIDE DEF args
    <3>. QED
      BY <1>2, <2>1, <2>7, <2>8, SameArgs
  <2>. QED
    BY <2>9, <2>10
<1>11. \A f \in Fun : ~ InParams(f)'
  BY DEF InParams
<1>12. Layout'
  <2>1. ASSUME NEW f \in Fun, FuncTable(f) \in DOMAIN tables',
               Orderly(tables', FuncTable(f), tables'[FuncTable(f)])
        PROVE  FrameOK(tables', tables'[FuncTable(f)])
    BY <1>1, <1>8, <1>10, <2>1
  <2>. QED
    BY <1>7, <1>11, <2>1 DEF Layout
<1>13. FieldsPlaced'
  BY <1>1, <1>8, <1>9 DEF FieldsPlaced
<1>14. ArgsPlaced'
  <2>1. ASSUME NEW f \in DOMAIN ftypes,
               Orderly(tables', FuncTable(f), tables'[FuncTable(f)])
        PROVE  ArgsOK(tables', tables'[FuncTable(f)], ftypes'[f].args)
    <3>1. f \in Fun /\ FuncTable(f) \in DOMAIN tables
      BY DEF Typed, FunctionTypes
    <3>. QED
      BY <1>1, <1>8, <1>10, <2>1, <3>1
  <2>2. DOMAIN ftypes \subseteq Fun
    BY DEF Typed, FunctionTypes
  <2>. QED
    BY <1>11, <2>1, <2>2 DEF ArgsPlaced
<1>. QED
  BY <1>5, <1>12, <1>13, <1>14 DEF Placed

(* Declaring a primitive name keeps the layout of the tables.              *)
LEMMA DeclarePrimPlaced ==
  ASSUME Typed, Placed, NEW type \in Prim, NEW x \in Id, DeclarePrim(type, x),
         ~ Defined(x)
  PROVE  Placed'
<1>. DEFINE t == tables[current]
            u == WithPrim(t, type, x, FALSE)
<1>1. /\ tables' = [tables EXCEPT ![current] = u]
      /\ UNCHANGED <<ftypes, current, where>>
      /\ where \in {"types", "struct", "locals"}
  BY DEF DeclarePrim
<1>2. /\ TableTyped(t) /\ Var(x) \notin DOMAIN t.syms
      /\ KnownVars(t, ClosedStructs)
      /\ current = Global \/ Orderly(tables, current, t)
           => FieldsOK(tables, current, t)
  BY DEF Typed, Walk, TablesTyped, Defined, Placed, FieldsPlaced, KnownStructs
<1>3. /\ Grown(t, u, x)
      /\ \A y, f \in Id : Field(y, f) \in DOMAIN u.syms
                            => Field(y, f) \in DOMAIN t.syms
      /\ TableTyped(u) /\ (PlainFields(t) => PlainFields(u))
      /\ u.syms[Var(x)] = Data("prim", type, t.max_offset)
      /\ u.max_offset = t.max_offset + Size(type)
      /\ u.args_size = t.args_size /\ u.base = t.base
      /\ DOMAIN u.syms = DOMAIN t.syms \cup {Var(x)}
      /\ \A k \in DOMAIN t.syms : u.syms[k] = t.syms[k]
  <2>. HIDE DEF t
  <2>1. FALSE \in BOOLEAN
    OBVIOUS
  <2>2. /\ Grown(t, u, x)
        /\ \A y, f \in Id : Field(y, f) \in DOMAIN u.syms
                              => Field(y, f) \in DOMAIN t.syms
    BY <1>2, <2>1, WithPrimGrown
  <2>3. TableTyped(u) /\ (PlainFields(t) => PlainFields(u))
    BY <1>2, <2>1, WithPrimEffect
  <2>4. /\ DOMAIN u.syms = DOMAIN t.syms \cup {Var(x)}
        /\ \A k \in DOMAIN t.syms : u.syms[k] = t.syms[k]
    BY <1>2 DEF WithPrim, Bind
  <2>5. /\ u.syms[Var(x)] = Data("prim", type, t.max_offset)
        /\ u.max_offset = t.max_offset + Size(type)
        /\ u.args_size = t.args_size /\ u.base = t.base
    BY DEF WithPrim, Bind
  <2>. QED
    BY <2>2, <2>3, <2>4, <2>5
<1>. HIDE DEF u
<1>4. /\ u.syms[Var(x)].kind = "prim"
      /\ u.syms[Var(x)].type = type
      /\ u.syms[Var(x)].offset = t.max_offset
      /\ ExtentIn(tables, u.syms[Var(x)]) = Size(type)
  BY <1>3 DEF Data, ExtentIn
<1>5. ASSUME current = Global \/ Orderly(tables, current, u)
      PROVE  FieldsOK(tables, current, u)
  <2>. HIDE DEF t
  <2>1. \A k \in DOMAIN t.syms : k \in DOMAIN u.syms /\ u.syms[k] = t.syms[k]
    BY <1>3
  <2>2. Orderly(tables, current, u) => Orderly(tables, current, t)
    BY <1>2, <1>3, <2>1, OrderlyBefore
  <2>. QED
    BY <1>2, <1>3, <1>5, <2>2, PrimFields
<1>6. ASSUME where = "struct" PROVE StructOK(u)
  <2>1. PICK s \in StructName : current = StructTable(s)
    BY <1>6 DEF Typed, Walk
  <2>2. StructOK(t)
    BY <2>1 DEF Typed, Walk, Placed, Layout
  <2>3. /\ t.max_offset \in Int /\ Size(type) \in Nat
        /\ t.base >= 0 => t.max_offset \in Nat
    BY <1>2, <2>2 DEF TableTyped, StructOK, Size
  <2>4. \A k \in DOMAIN t.syms : t.syms[k].offset \in Int /\ Size(t.syms[k].type) \in Int
    BY <1>2 DEF TableTyped, PrimData, NamedData, Size
  <2>. HIDE DEF t
  <2>. QED
    BY <1>3, <1>4, <2>2, <2>3, <2>4 DEF StructOK
<1>. QED
  BY <1>1, <1>3, <1>4, <1>5, <1>6, LocalPlaced DEF t

(* Declaring a struct variable keeps the layout of the tables.             *)
LEMMA DeclareStructVarPlaced ==
  ASSUME Typed, Placed, NEW s \in StructName, NEW x \in Id,
         DeclareStructVar(s, x),
         ~ Defined(x), StructTable(s) \in DOMAIN tables
  PROVE  Placed'
<1>. DEFINE t == tables[current]
            st == tables[StructTable(s)]
            u == WithStruct(t, s, st, x, where)
<1>1. /\ tables' = [tables EXCEPT ![current] = u]
      /\ UNCHANGED <<ftypes, current, where>>
      /\ where \in {"types", "locals"}
  BY DEF DeclareStructVar
<1>2. /\ TableTyped(t) /\ Var(x) \notin DOMAIN t.syms
      /\ KnownVars(t, ClosedStructs)
      /\ current = Global \/ Orderly(tables, current, t)
           => FieldsOK(tables, current, t)
  BY DEF Typed, Walk, TablesTyped, Defined, Placed, FieldsPlaced, KnownStructs
<1>3. s \in ClosedStructs
  BY <1>1, NamesApart DEF ClosedStructs, Typed, Walk
<1>4. TableTyped(st) /\ PlainFields(st) /\ st.max_offset \in Int
  BY <1>3, ClosedStructsOK
<1>5. /\ Grown(t, u, x) /\ TableTyped(u)
      /\ u.syms[Var(x)] = Data("struct", s, t.max_offset)
      /\ u.max_offset = t.max_offset + st.max_offset
      /\ u.args_size = t.args_size /\ u.base = t.base
  <2>. HIDE DEF t, st
  <2>. QED
    BY <1>1, <1>2, <1>4, WithStructGrown, WithStructEffect
<1>6. ASSUME current = Global \/ Orderly(tables, current, u)
      PROVE  FieldsOK(tables, current, u)
  <2>1. current = Global <=> where = "types"
    BY <1>1, NamesApart DEF Typed, Walk
  <2>2. Orderly(tables, current, u) => Orderly(tables, current, t)
    <3>1. \A k \in DOMAIN t.syms : k \in DOMAIN u.syms /\ u.syms[k] = t.syms[k]
      BY <1>5 DEF Grown
    <3>. HIDE DEF t, u
    <3>. QED
      BY <1>2, <1>5, <3>1, OrderlyBefore
  <2>3. FieldsOK(tables, current, t)
    BY <1>2, <1>6, <2>2
  <2>4. where = "locals" => t.max_offset >= 0
    <3>1. ASSUME where = "locals" PROVE t.max_offset >= 0
      <4>1. PICK f \in Fun : current = FuncTable(f)
        BY <3>1 DEF Typed, Walk
      <4>2. current # Global /\ current \in DOMAIN tables
        BY <4>1, NamesApart DEF Typed, Walk
      <4>. QED
        BY <1>6, <2>2, <4>1, <4>2 DEF Placed, Layout, FrameOK
    <3>. QED
      BY <3>1
  <2>. HIDE DEF t
  <2>. QED
    BY <1>1, <1>2, <1>4, <2>1, <2>3, <2>4, StructFields
<1>. HIDE DEF u
<1>7. /\ u.syms[Var(x)].kind = "struct"
      /\ u.syms[Var(x)].type = s
      /\ u.syms[Var(x)].offset = t.max_offset
      /\ ExtentIn(tables, u.syms[Var(x)]) = st.max_offset
  BY <1>5 DEF Data, ExtentIn
<1>. QED
  BY <1>1, <1>3, <1>5, <1>6, <1>7, LocalPlaced DEF t

(* A parameter.                                                            *)
LEMMA ParamPlaced ==
  ASSUME Typed, Placed, NEW f \in Fun, InParams(f),
         NEW a \in Arg, a.type \in Prim \cup ClosedStructs,
         NEW u, TableTyped(u), Grown(tables[current], u, a.id),
         u.syms[Var(a.id)] = Data(IF a.type \in Prim THEN "prim" ELSE "struct",
                                  a.type, -tables[current].max_offset - 16),
         u.max_offset = tables[current].max_offset + ExtentOf(tables, a),
         PlainArg(tables, a) =>
           u.args_size = tables[current].args_size + ExtentOf(tables, a),
         u.base = tables[current].base,
         Orderly(tables, current, u) => FieldsOK(tables, current, u),
         tables' = [tables EXCEPT ![current] = u],
         ftypes' = [ftypes EXCEPT ![f].args = Append(@, a)],
         UNCHANGED <<current, where>>
  PROVE  Placed'
<1>. DEFINE t == tables[current]
            d == u.syms[Var(a.id)]
            x == a.id
            args == ftypes[f].args
            more == Append(args, a)
<1>1. /\ current \in DOMAIN tables /\ Global \in DOMAIN tables
      /\ current = FuncTable(f) /\ current # Global
      /\ DOMAIN tables' = DOMAIN tables
      /\ tables'[current] = u
      /\ \A n \in DOMAIN tables : n # current => tables'[n] = tables[n]
      /\ \A s \in StructName : StructTable(s) # current
  BY NamesApart, SMTT(30) DEF Typed, Walk, InParams
<1>2. /\ ClosedStructs' = ClosedStructs
      /\ \A s \in ClosedStructs : tables'[StructTable(s)] = tables[StructTable(s)]
  BY <1>1 DEF ClosedStructs
<1>3. /\ TableTyped(t) /\ KnownVars(t, ClosedStructs)
  BY <1>1 DEF Typed, TablesTyped, Placed, KnownStructs
<1>4. /\ f \in DOMAIN ftypes /\ args \in Seq(Arg)
      /\ DOMAIN ftypes' = DOMAIN ftypes
      /\ ftypes'[f].args = more
      /\ \A g \in DOMAIN ftypes : g # f => ftypes'[g] = ftypes[g]
  <2>1. f \in DOMAIN ftypes /\ args \in Seq(Arg)
    BY <1>1 DEF Typed, FunctionTypes
  <2>. QED
    BY <1>1, <2>1, MoreArgs DEF Typed
<1>5. a.type \notin Prim => d.kind = "struct"
  BY DEF Data
<1>6. /\ d.kind = "struct" => d.type \in ClosedStructs
      /\ d.offset = -t.max_offset - 16
      /\ ExtentIn(tables, d) = ExtentOf(tables, a)
  BY DEF Data, ExtentIn, ExtentOf
<1>7. x \in Id
  BY DEF Arg
<1>8. KnownVars(u, ClosedStructs)
  BY <1>3, <1>6, <1>7 DEF KnownVars, Grown
<1>9. KnownStructs'
  <2>1. \A n \in DOMAIN tables' : KnownVars(tables'[n], ClosedStructs)
    BY <1>1, <1>8 DEF Placed, KnownStructs
  <2>2. ASSUME NEW s \in StructName, StructTable(s) \in DOMAIN tables'
        PROVE  Var(s) \in DOMAIN tables'[Global].syms
    BY <1>1, <2>2 DEF Placed, KnownStructs
  <2>. QED
    BY <1>2, <2>1, <2>2 DEF KnownStructs
<1>10. /\ Orderly(tables', current, u) => Orderly(tables, current, u)
       /\ Orderly(tables', current, u) => Orderly(tables, current, t)
  <2>1. Orderly(tables', current, u) => Orderly(tables, current, u)
    BY <1>2, <1>8, OrderlyBefore
  <2>2. \A k \in DOMAIN t.syms : k \in DOMAIN u.syms /\ u.syms[k] = t.syms[k]
    BY DEF Grown
  <2>3. u.base = t.base
    OBVIOUS
  <2>. HIDE DEF t
  <2>4. Orderly(tables', current, u) => Orderly(tables, current, t)
    BY <1>2, <1>3, <2>2, <2>3, OrderlyBefore
  <2>. QED
    BY <2>1, <2>4
<1>11. ASSUME Orderly(tables', current, u)
       PROVE  /\ FrameOK(tables, t) /\ ParamsOK(tables, t) /\ Sized(tables, t)
              /\ ArgsOK(tables, t, args) /\ KnownArgs(args, CleanStructs)
              /\ t.max_offset = 8 + All(tables, args)
              /\ a.type \in Prim \cup CleanStructs
              /\ \A s \in CleanStructs : tables[StructTable(s)].max_offset \in Nat
              /\ FieldsOK(tables, current, u)
  <2>1. /\ FrameOK(tables, t) /\ ParamsOK(tables, t)
        /\ ArgsOK(tables, t, args)
        /\ t.max_offset = 8 + All(tables, args)
    BY <1>1, <1>4, <1>10, <1>11 DEF Placed, Layout, ArgsPlaced
  <2>2. /\ Sized(tables, t) /\ KnownVars(t, CleanStructs)
        /\ \A s \in CleanStructs : tables[StructTable(s)].max_offset \in Nat
    <3>. HIDE DEF t
    <3>. QED
      BY <1>3, <1>10, <1>11, OrderlySized
  <2>3. KnownArgs(args, CleanStructs)
    <3>. HIDE DEF t, args
    <3>. QED
      BY <1>4, <2>1, <2>2, ArgsKnown
  <2>4. a.type \in Prim \cup CleanStructs
    <3>1. KnownVars(u, CleanStructs)
      BY <1>8, <1>10, <1>11, OrderlySized
    <3>2. CASE a.type \notin Prim
      <4>1. /\ Var(x) \in DOMAIN u.syms /\ u.syms[Var(x)].kind = "struct"
            /\ u.syms[Var(x)].type = a.type
        BY <1>5, <3>2 DEF Grown, Data
      <4>. QED
        BY <1>7, <3>1, <4>1 DEF KnownVars
    <3>. QED
      BY <3>2
  <2>. QED
    BY <1>10, <1>11, <2>1, <2>2, <2>3, <2>4
<1>12. ASSUME Orderly(tables', current, u)
       PROVE  FrameOK(tables, u) /\ ParamsOK(tables, u)
  <2>1. t.max_offset \in Int
    BY <1>3 DEF TableTyped
  <2>2. ExtentIn(tables, d) \in Nat
    BY <1>6, <1>11, <1>12 DEF ExtentOf, Size
  <2>3. Grown(t, u, x)
    OBVIOUS
  <2>4. u.max_offset = t.max_offset + ExtentIn(tables, d)
    BY <1>6
  <2>5. FrameOK(tables, t) /\ ParamsOK(tables, t) /\ Sized(tables, t)
    BY <1>11, <1>12
  <2>. HIDE DEF t, x
  <2>. QED
    BY <1>6, <1>7, <2>1, <2>2, <2>3, <2>4, <2>5, ParamAdded DEF x
<1>13. ASSUME Orderly(tables', current, u)
       PROVE  ArgsOK(tables, u, more) /\ u.max_offset = 8 + All(tables, more)
  <2>1. a.type \in Prim \cup CleanStructs /\ a \in Arg
    BY <1>11, <1>13
  <2>2. NextParam(tables, t, a, u)
    BY DEF NextParam
  <2>. HIDE DEF t, args
  <2>3. \A s \in CleanStructs : tables[StructTable(s)].max_offset \in Nat
    BY <1>11, <1>13
  <2>4. /\ args \in Seq(Arg) /\ KnownArgs(args, CleanStructs)
        /\ ArgsOK(tables, t, args) /\ t.max_offset = 8 + All(tables, args)
    BY <1>4, <1>11, <1>13
  <2>5. /\ ArgsOK(tables, u, Append(args, a))
        /\ u.max_offset = 8 + All(tables, Append(args, a))
    BY <2>1, <2>2, <2>3, <2>4, ParamArgs
  <2>. QED
    BY <2>5
<1>14. ASSUME Orderly(tables', current, u)
       PROVE  /\ FrameOK(tables', u) /\ ParamsOK(tables', u)
              /\ FieldsOK(tables', current, u)
              /\ ArgsOK(tables', u, more) /\ u.max_offset = 8 + All(tables', more)
  <2>1. /\ FrameOK(tables', u) /\ ParamsOK(tables', u)
        /\ FieldsOK(tables', current, u)
    <3>1. /\ FrameOK(tables, u) /\ ParamsOK(tables, u)
          /\ FieldsOK(tables, current, u)
      BY <1>11, <1>12, <1>14
    <3>. QED
      BY <1>2, <1>8, <3>1, SameExtents, SameFields
  <2>2. more \in Seq(Arg) /\ ArgsOK(tables, u, more)
        /\ u.max_offset = 8 + All(tables, more)
    BY <1>4, <1>13, <1>14
  <2>. HIDE DEF more
  <2>3. KnownArgs(more, ClosedStructs)
    BY <1>8, <2>2, ArgsKnown
  <2>4. /\ ArgsOK(tables, u, more) => ArgsOK(tables', u, more)
        /\ All(tables', more) = All(tables, more)
    BY <1>2, <2>2, <2>3, SameArgs
  <2>. QED
    BY <2>1, <2>2, <2>4
<1>15. ASSUME NEW n \in DOMAIN tables, n # current
       PROVE  /\ tables'[n] = tables[n]
              /\ n = Global \/ Orderly(tables', n, tables'[n])
                   => FieldsOK(tables', n, tables'[n])
              /\ \A g \in Fun : n = FuncTable(g) /\ Orderly(tables', n, tables'[n]) =>
                   /\ FrameOK(tables', tables'[n])
                   /\ ArgsOK(tables', tables'[n], ftypes[g].args)
  <2>1. tables'[n] = tables[n]
    BY <1>1, <1>15
  <2>2. /\ n = Global \/ Orderly(tables', n, tables[n])
             => FieldsOK(tables', n, tables[n])
        /\ \A g \in Fun : n = FuncTable(g) /\ Orderly(tables', n, tables[n]) =>
              /\ FrameOK(tables', tables[n])
              /\ ArgsOK(tables', tables[n], ftypes[g].args)
    BY <1>2, Untouched
  <2>. QED
    BY <2>1, <2>2
<1>16. \A g \in Fun : InParams(g)' <=> g = f
  BY <1>1, NamesApart DEF InParams
<1>17. Layout'
  <2>1. ASSUME NEW s \in StructName, StructTable(s) \in DOMAIN tables'
        PROVE  StructOK(tables'[StructTable(s)])
    BY <1>1, <2>1 DEF Placed, Layout
  <2>2. ASSUME NEW g \in Fun, FuncTable(g) \in DOMAIN tables',
               Orderly(tables', FuncTable(g), tables'[FuncTable(g)])
        PROVE  /\ FrameOK(tables', tables'[FuncTable(g)])
               /\ InParams(g)' => ParamsOK(tables', tables'[FuncTable(g)])
    BY <1>1, <1>14, <1>15, <1>16, <2>2
  <2>. QED
    BY <2>1, <2>2 DEF Layout
<1>18. FieldsPlaced'
  BY <1>1, <1>14, <1>15 DEF FieldsPlaced
<1>19. ArgsPlaced'
  <2>1. ASSUME NEW g \in DOMAIN ftypes',
               Orderly(tables', FuncTable(g), tables'[FuncTable(g)])
        PROVE  /\ ArgsOK(tables', tables'[FuncTable(g)], ftypes'[g].args)
               /\ InParams(g)' => tables'[FuncTable(g)].max_offset
                                    = 8 + All(tables', ftypes'[g].args)
    <3>1. g \in Fun /\ FuncTable(g) \in DOMAIN tables /\ g \in DOMAIN ftypes
      BY <1>4 DEF Typed, FunctionTypes
    <3>2. CASE g = f
      BY <1>1, <1>4, <1>14, <2>1, <3>2
    <3>3. CASE g # f
      <4>1. FuncTable(g) # current /\ ftypes'[g] = ftypes[g] /\ ~ InParams(g)'
        BY <1>1, <1>4, <1>16, <3>1, <3>3, NamesApart, ZenonT(40)
      <4>2. ArgsOK(tables', tables'[FuncTable(g)], ftypes[g].args)
        BY <1>15, <2>1, <3>1, <4>1
      <4>. QED
        BY <4>1, <4>2
    <3>. QED
      BY <3>2, <3>3
  <2>. QED
    BY <2>1 DEF ArgsPlaced
<1>. QED
  BY <1>9, <1>17, <1>18, <1>19 DEF Placed

(* Declaring a parameter keeps the layout of the tables.                   *)
LEMMA DeclareParamPlaced ==
  ASSUME Typed, Placed, NEW type \in Prim \cup StructName, NEW x \in Id,
         DeclareParam(type, x), status' = "run"
  PROVE  Placed'
<1>1. where = "params"
  BY DEF DeclareParam
<1>2. PICK f \in Fun : current = FuncTable(f)
  BY <1>1 DEF Typed, Walk
<1>3. f = current[2] /\ InParams(f) /\ current # Global
  BY <1>1, <1>2, NamesApart DEF InParams
<1>. DEFINE t == tables[current]
            a == [type |-> type, id |-> x]
            st == tables[StructTable(type)]
            u == IF type \in Prim THEN WithPrim(t, type, x, TRUE)
                 ELSE WithStruct(t, type, st, x, where)
<1>4. /\ ~ Defined(x)
      /\ type \in Prim \/ StructTable(type) \in DOMAIN tables
      /\ tables' = [tables EXCEPT ![current] = u]
      /\ ftypes' = [ftypes EXCEPT ![f].args = Append(@, a)]
      /\ UNCHANGED <<current, where>>
  BY <1>3 DEF DeclareParam, SemErr
<1>5. /\ TableTyped(t) /\ Var(x) \notin DOMAIN t.syms
      /\ KnownVars(t, ClosedStructs)
      /\ Orderly(tables, current, t) => FieldsOK(tables, current, t)
  BY <1>4 DEF Typed, Walk, TablesTyped, Defined, Placed, FieldsPlaced, KnownStructs
<1>6. a \in Arg /\ a.id = x /\ a.type = type
  BY DEF Arg
<1>7. CASE type \in Prim
  <2>. DEFINE w == WithPrim(t, type, x, TRUE)
  <2>1. /\ Grown(t, w, x) /\ TableTyped(w)
        /\ w.syms[Var(x)] = Data("prim", type, -t.max_offset - 16)
        /\ w.max_offset = t.max_offset + Size(type)
        /\ w.args_size = t.args_size + Size(type) /\ w.base = t.base
        /\ \A y, g \in Id : Field(y, g) \in DOMAIN w.syms
                              => Field(y, g) \in DOMAIN t.syms
    <3>. HIDE DEF t
    <3>1. TRUE \in BOOLEAN
      OBVIOUS
    <3>2. /\ Grown(t, w, x)
          /\ \A y, g \in Id : Field(y, g) \in DOMAIN w.syms
                                => Field(y, g) \in DOMAIN t.syms
      BY <1>5, <1>7, <3>1, WithPrimGrown
    <3>3. TableTyped(w)
      BY <1>5, <1>7, <3>1, WithPrimEffect
    <3>4. /\ w.syms[Var(x)] = Data("prim", type, -t.max_offset - 16)
          /\ w.max_offset = t.max_offset + Size(type)
          /\ w.args_size = t.args_size + Size(type) /\ w.base = t.base
      BY DEF WithPrim, Bind
    <3>. QED
      BY <3>2, <3>3, <3>4
  <2>2. u = w
    BY <1>7
  <2>. HIDE DEF w, u
  <2>3. ASSUME Orderly(tables, current, w) PROVE FieldsOK(tables, current, w)
    <3>. HIDE DEF t
    <3>1. \A k \in DOMAIN t.syms : k \in DOMAIN w.syms /\ w.syms[k] = t.syms[k]
      BY <2>1 DEF Grown
    <3>2. Orderly(tables, current, t)
      BY <1>5, <2>1, <2>3, <3>1, OrderlyBefore
    <3>. QED
      BY <1>5, <2>1, <3>2, PrimFields
  <2>4. ExtentOf(tables, a) = Size(type)
    BY <1>6, <1>7 DEF ExtentOf
  <2>5. /\ Grown(tables[current], u, a.id)
        /\ u.syms[Var(a.id)] = Data(IF a.type \in Prim THEN "prim" ELSE "struct",
                                    a.type, -tables[current].max_offset - 16)
        /\ u.max_offset = tables[current].max_offset + ExtentOf(tables, a)
        /\ u.args_size = tables[current].args_size + ExtentOf(tables, a)
        /\ u.base = tables[current].base /\ TableTyped(u)
        /\ Orderly(tables, current, u) => FieldsOK(tables, current, u)
    BY <1>6, <1>7, <2>1, <2>2, <2>3, <2>4
  <2>. HIDE DEF t, a
  <2>. QED
    BY <1>3, <1>4, <1>6, <1>7, <2>5, ParamPlaced
<1>8. CASE type \notin Prim
  <2>. DEFINE w == WithStruct(t, type, st, x, "params")
  <2>1. type \in StructName /\ type \in ClosedStructs
    BY <1>2, <1>4, <1>8, NamesApart DEF ClosedStructs
  <2>2. TableTyped(st) /\ PlainFields(st) /\ st.max_offset \in Int
    BY <2>1, ClosedStructsOK
  <2>3. /\ Grown(t, w, x) /\ TableTyped(w)
        /\ w.syms[Var(x)] = Data("struct", type, -t.max_offset - 16)
        /\ w.max_offset = t.max_offset + st.max_offset
        /\ w.args_size = t.args_size + FieldBytes(st) /\ w.base = t.base
    <3>. HIDE DEF t, st
    <3>. QED
      BY <1>5, <2>1, <2>2, WithStructGrown, WithStructEffect
  <2>4. u = w
    BY <1>1, <1>8
  <2>5. ASSUME Orderly(tables, current, w) PROVE FieldsOK(tables, current, w)
    <3>1. Orderly(tables, current, t)
      <4>1. \A k \in DOMAIN t.syms : k \in DOMAIN w.syms /\ w.syms[k] = t.syms[k]
        BY <2>3 DEF Grown
      <4>. HIDE DEF t, w
      <4>. QED
        BY <1>5, <2>3, <2>5, <4>1, OrderlyBefore
    <3>2. t.max_offset >= 0 /\ t.max_offset \in Int
      BY <1>2, <1>3, <1>5, <3>1 DEF Typed, Walk, TableTyped, Placed, Layout, ParamsOK
    <3>. HIDE DEF t
    <3>. QED
      BY <1>3, <1>5, <2>1, <2>2, <3>1, <3>2, StructFields
  <2>. HIDE DEF w, u
  <2>6. /\ ExtentOf(tables, a) = st.max_offset
        /\ PlainArg(tables, a) => FieldBytes(st) = st.max_offset
    BY <1>6, <1>8 DEF ExtentOf, PlainArg
  <2>7. /\ Grown(tables[current], u, a.id)
        /\ u.syms[Var(a.id)] = Data(IF a.type \in Prim THEN "prim" ELSE "struct",
                                    a.type, -tables[current].max_offset - 16)
        /\ u.max_offset = tables[current].max_offset + ExtentOf(tables, a)
        /\ PlainArg(tables, a) =>
             u.args_size = tables[current].args_size + ExtentOf(tables, a)
        /\ u.base = tables[current].base /\ TableTyped(u)
        /\ Orderly(tables, current, u) => FieldsOK(tables, current, u)
    BY <1>6, <1>8, <2>3, <2>4, <2>5, <2>6
  <2>. HIDE DEF t, a, st
  <2>. QED
    BY <1>3, <1>4, <1>6, <2>1, <2>7, ParamPlaced
<1>. QED
  BY <1>7, <1>8

(* Steps that leave the tables alone: they close the struct types, and     *)
(* leave a parameter list.                                                 *)
LEMMA SameTables ==
  ASSUME Typed, Placed, UNCHANGED <<tables, ftypes>>,
         ClosedStructs \subseteq ClosedStructs',
         \A f \in Fun : InParams(f)' => InParams(f)
  PROVE  Placed'
<1>1. KnownStructs'
  BY DEF Placed, KnownStructs, KnownVars
<1>2. Layout'
  BY DEF Placed, Layout
<1>3. FieldsPlaced'
  BY DEF Placed, FieldsPlaced
<1>4. ArgsPlaced'
  <2>1. ASSUME NEW f \in DOMAIN ftypes', InParams(f)'
        PROVE  InParams(f)
    BY <2>1 DEF Typed, FunctionTypes
  <2>. QED
    BY <2>1 DEF Placed, ArgsPlaced
<1>. QED
  BY <1>1, <1>2, <1>3, <1>4 DEF Placed

(* A rejected declaration keeps the layout of the tables.                  *)
LEMMA SemErrPlaced ==
  ASSUME Typed, Placed, SemErr
  PROVE  Placed'
BY SameTables DEF SemErr, ClosedStructs, InParams

(* Leaving a table keeps the layout of the tables.                         *)
LEMMA EndPlaced ==
  ASSUME Typed, Placed, EndStruct \/ EndFunction \/ Finish
  PROVE  Placed'
<1>1. /\ UNCHANGED <<tables, ftypes>>
      /\ current' = Global \/ UNCHANGED current
      /\ where' # "params"
  BY DEF EndStruct, EndFunction, Finish
<1>2. ClosedStructs \subseteq ClosedStructs'
  BY <1>1, NamesApart DEF ClosedStructs
<1>. QED
  BY <1>1, <1>2, SameTables DEF InParams

(* A table without symbols.                                                *)
LEMMA EmptyPlaced ==
  ASSUME NEW ts, NEW n, NEW t, DOMAIN t.syms = {}, NEW S
  PROVE  /\ KnownVars(t, S) /\ FieldsOK(ts, n, t)
         /\ t.max_offset >= 0 => FrameOK(ts, t)
         /\ (t.base >= 0 => t.max_offset >= 0) => StructOK(t)
         /\ t.max_offset >= 8 => ParamsOK(ts, t)
         /\ All(ts, <<>>) = 0
         /\ (\E h \in HeapInts : t.args_size = h[2]) => ArgsOK(ts, t, <<>>)
<1>1. KnownVars(t, S) /\ FieldsOK(ts, n, t)
  BY DEF KnownVars, FieldsOK
<1>2. /\ t.max_offset >= 0 => FrameOK(ts, t)
      /\ (t.base >= 0 => t.max_offset >= 0) => StructOK(t)
      /\ t.max_offset >= 8 => ParamsOK(ts, t)
  BY DEF FrameOK, StructOK, ParamsOK
<1>3. All(ts, <<>>) = 0
  BY BeforeFirst DEF All
<1>4. ASSUME NEW h \in HeapInts, t.args_size = h[2]
      PROVE  ArgsOK(ts, t, <<>>)
  <2>1. h[2] \in Int
    BY HeapAssumption
  <2>2. t.args_size = h[2] + All(ts, <<>>)
    BY <1>3, <1>4, <2>1
  <2>3. 1 .. Len(<<>>) = {}
    OBVIOUS
  <2>. QED
    BY <2>2, <2>3 DEF ArgsOK
<1>. QED
  BY <1>1, <1>2, <1>3, <1>4

(* A step that names a struct or a function in the global table, or makes  *)
(* or finishes the table of name n, and leaves the other tables alone.     *)
GlobalKept ==
  /\ \A k \in DOMAIN tables[Global].syms : k \in DOMAIN tables'[Global].syms
  /\ KnownVars(tables'[Global], ClosedStructs)
  /\ FieldsOK(tables, Global, tables'[Global])

TableMade(n) ==
  /\ KnownVars(tables'[n], ClosedStructs)
  /\ Orderly(tables', n, tables'[n]) => FieldsOK(tables', n, tables'[n])
  /\ \A s \in StructName : n = StructTable(s) =>
       StructOK(tables'[n]) /\ Var(s) \in DOMAIN tables'[Global].syms
  /\ \A f \in Fun : n = FuncTable(f) /\ Orderly(tables', n, tables'[n]) =>
       /\ FrameOK(tables', tables'[n])
       /\ ArgsOK(tables', tables'[n], ftypes'[f].args)
       /\ InParams(f)' => /\ ParamsOK(tables', tables'[n])
                          /\ tables'[n].max_offset
                               = 8 + All(tables', ftypes'[f].args)

(* A step that makes or finishes one table keeps the layout of the         *)
(* tables.                                                                 *)
LEMMA NewPlaced ==
  ASSUME Typed, Typed', Placed, NEW n \in DOMAIN tables', n # Global,
         DOMAIN tables' = DOMAIN tables \cup {n},
         \A m \in DOMAIN tables : m \notin {n, Global} => tables'[m] = tables[m],
         ClosedStructs \subseteq ClosedStructs',
         \A s \in ClosedStructs : StructTable(s) # n,
         GlobalKept, TableMade(n),
         \A f \in Fun : FuncTable(f) # n => ~ InParams(f)',
         \A f \in DOMAIN ftypes : FuncTable(f) # n => ftypes'[f] = ftypes[f]
  PROVE  Placed'
<1>1. \A s \in ClosedStructs : tables'[StructTable(s)] = tables[StructTable(s)]
  BY NamesApart DEF ClosedStructs
<1>2. TableTyped(tables'[Global])
  BY DEF Typed, TablesTyped, Walk
<1>3. ASSUME NEW m \in DOMAIN tables', m # n, m # Global
      PROVE  /\ m \in DOMAIN tables /\ tables'[m] = tables[m]
             /\ KnownVars(tables'[m], ClosedStructs)
             /\ Orderly(tables', m, tables'[m])
                  => FieldsOK(tables', m, tables'[m])
             /\ \A f \in Fun : m = FuncTable(f) /\ Orderly(tables', m, tables'[m]) =>
                  /\ FrameOK(tables', tables'[m])
                  /\ ArgsOK(tables', tables'[m], ftypes[f].args)
  <2>1. m \in DOMAIN tables /\ tables'[m] = tables[m]
    BY <1>3
  <2>2. /\ KnownVars(tables[m], ClosedStructs)
        /\ Orderly(tables', m, tables[m]) => FieldsOK(tables', m, tables[m])
        /\ \A f \in Fun : m = FuncTable(f) /\ Orderly(tables', m, tables[m]) =>
             /\ FrameOK(tables', tables[m])
             /\ ArgsOK(tables', tables[m], ftypes[f].args)
    BY <1>1, <2>1, Untouched
  <2>. QED
    BY <2>1, <2>2
<1>4. FieldsOK(tables', Global, tables'[Global])
  BY <1>1, <1>2, SameFields DEF GlobalKept
<1>5. \A m \in DOMAIN tables' : KnownVars(tables'[m], ClosedStructs)
  BY <1>3 DEF GlobalKept, TableMade
<1>6. KnownStructs'
  <2>1. \A m \in DOMAIN tables' : KnownVars(tables'[m], ClosedStructs')
    BY <1>5 DEF KnownVars
  <2>2. ASSUME NEW s \in StructName, StructTable(s) \in DOMAIN tables'
        PROVE  Var(s) \in DOMAIN tables'[Global].syms
    <3>1. CASE n = StructTable(s)
      BY <3>1 DEF TableMade
    <3>2. CASE n # StructTable(s)
      BY <2>2, <3>2 DEF Placed, KnownStructs, GlobalKept
    <3>. QED
      BY <3>1, <3>2
  <2>. QED
    BY <2>1, <2>2 DEF KnownStructs
<1>7. Layout'
  <2>1. ASSUME NEW s \in StructName, StructTable(s) \in DOMAIN tables'
        PROVE  StructOK(tables'[StructTable(s)])
    <3>1. CASE n = StructTable(s)
      BY <3>1 DEF TableMade
    <3>2. CASE n # StructTable(s)
      BY <1>3, <2>1, <3>2, NamesApart DEF Placed, Layout
    <3>. QED
      BY <3>1, <3>2
  <2>2. ASSUME NEW f \in Fun, FuncTable(f) \in DOMAIN tables',
               Orderly(tables', FuncTable(f), tables'[FuncTable(f)])
        PROVE  /\ FrameOK(tables', tables'[FuncTable(f)])
               /\ InParams(f)' => ParamsOK(tables', tables'[FuncTable(f)])
    BY <1>3, <2>2, NamesApart DEF TableMade
  <2>. QED
    BY <2>1, <2>2 DEF Layout
<1>8. FieldsPlaced'
  <2>1. ASSUME NEW m \in DOMAIN tables',
               m = Global \/ Orderly(tables', m, tables'[m])
        PROVE  FieldsOK(tables', m, tables'[m])
    BY <1>3, <1>4, <2>1 DEF TableMade
  <2>. QED
    BY <2>1 DEF FieldsPlaced
<1>9. ArgsPlaced'
  <2>1. ASSUME NEW f \in DOMAIN ftypes',
               Orderly(tables', FuncTable(f), tables'[FuncTable(f)])
        PROVE  /\ ArgsOK(tables', tables'[FuncTable(f)], ftypes'[f].args)
               /\ InParams(f)' => tables'[FuncTable(f)].max_offset
                                    = 8 + All(tables', ftypes'[f].args)
    <3>1. f \in Fun /\ FuncTable(f) \in DOMAIN tables'
      BY DEF Typed, FunctionTypes
    <3>2. CASE n = FuncTable(f)
      BY <2>1, <3>1, <3>2 DEF TableMade
    <3>3. CASE n # FuncTable(f)
      <4>1. f \in DOMAIN ftypes
        BY <3>1, <3>3 DEF Typed, FunctionTypes
      <4>2. ArgsOK(tables', tables'[FuncTable(f)], ftypes[f].args)
        BY <1>3, <2>1, <3>1, <3>3, NamesApart
      <4>. QED
        BY <3>1, <3>3, <4>1, <4>2
    <3>. QED
      BY <3>2, <3>3
  <2>. QED
    BY <2>1 DEF ArgsPlaced
<1>. QED
  BY <1>6, <1>7, <1>8, <1>9 DEF Placed

(* A global table with one name more, which is not a variable.             *)
LEMMA NamePlaced ==
  ASSUME Typed, Placed, NEW g, NEW x \in Id, NEW data, data.kind # "struct",
         Var(x) \notin DOMAIN tables[Global].syms,
         DOMAIN g.syms = DOMAIN tables[Global].syms \cup {Var(x)},
         g.syms[Var(x)] = data,
         \A k \in DOMAIN tables[Global].syms : g.syms[k] = tables[Global].syms[k]
  PROVE  /\ \A k \in DOMAIN tables[Global].syms : k \in DOMAIN g.syms
         /\ KnownVars(g, ClosedStructs)
         /\ FieldsOK(tables, Global, g)
<1>. DEFINE t == tables[Global]
<1>1. /\ TableTyped(t) /\ FieldsOK(tables, Global, t)
      /\ KnownVars(t, ClosedStructs)
  BY DEF Typed, Walk, TablesTyped, Placed, FieldsPlaced, KnownStructs
<1>2. Grown(t, g, x)
  BY KeysApart DEF Grown
<1>3. \A y, f \in Id : Field(y, f) \in DOMAIN g.syms
                          => Field(y, f) \in DOMAIN t.syms
  BY KeysApart
<1>4. KnownVars(g, ClosedStructs)
  BY <1>1, <1>2 DEF KnownVars, Grown
<1>. HIDE DEF t
<1>5. FieldsOK(tables, Global, g)
  BY <1>1, <1>2, <1>3, PrimFields
<1>. QED
  BY <1>4, <1>5, <1>2 DEF Grown, t

(* Opening a struct type keeps the layout of the tables.                   *)
LEMMA BeginStructPlaced ==
  ASSUME Typed, Typed', Placed, NEW s \in StructName,
         BeginStruct(s)
  PROVE  Placed'
<1>1. where = "types" /\ current = Global
  BY DEF Typed, Walk, BeginStruct
<1>2. CASE Defined(s)
  BY <1>2, SemErrPlaced DEF BeginStruct
<1>3. CASE ~ Defined(s)
  <2>. DEFINE old == tables[Global]
              data == Data("declstruct", s, 0)
              g == [old EXCEPT !.syms = Bind(@, Var(s), data)]
              n == StructTable(s)
  <2>1. PICK t \in FreshTables :
          tables' = Bind([tables EXCEPT ![Global] = g], n, t)
    BY <1>3 DEF BeginStruct
  <2>2. /\ current' = n /\ where' = "struct" /\ UNCHANGED <<ftypes, status>>
    BY <1>3 DEF BeginStruct
  <2>3. /\ s \in Id /\ data \in NamedData /\ data.kind # "struct"
    BY NamesAssumption DEF Data, NamedData
  <2>4. TableTyped(old) /\ Var(s) \notin DOMAIN old.syms
    BY <1>1, <1>3 DEF Typed, Walk, TablesTyped, Defined
  <2>5. n \notin DOMAIN tables
    BY <2>4 DEF Placed, KnownStructs
  <2>6. /\ DOMAIN g.syms = DOMAIN old.syms \cup {Var(s)}
        /\ g.syms[Var(s)] = data
        /\ \A k \in DOMAIN old.syms : g.syms[k] = old.syms[k]
    <3>1. g = [old EXCEPT !.syms = Bind(@, Var(s), data)]
      OBVIOUS
    <3>. HIDE DEF old, data, g
    <3>2. g.syms = Bind(old.syms, Var(s), data)
      BY <2>4, <3>1 DEF TableTyped
    <3>. QED
      BY <2>4, <3>2 DEF Bind
  <2>. HIDE DEF g, data
  <2>7. /\ DOMAIN tables' = DOMAIN tables \cup {n}
        /\ n # Global /\ n \in DOMAIN tables'
        /\ tables'[n] = t /\ tables'[Global] = g
        /\ \A m \in DOMAIN tables : m \notin {n, Global} => tables'[m] = tables[m]
    BY <2>1, NamesApart DEF Bind, Typed, Walk
  <2>8. GlobalKept
    BY <2>3, <2>4, <2>6, <2>7, NamePlaced DEF GlobalKept
  <2>9. t.base = t.max_offset /\ DOMAIN t.syms = {}
    BY FreshEffect
  <2>10. TableMade(n)
    <3>1. /\ KnownVars(t, ClosedStructs) /\ FieldsOK(tables', n, t)
          /\ StructOK(t)
      BY <2>9, EmptyPlaced
    <3>2. \A r \in StructName : n = StructTable(r) => r = s
      BY NamesApart
    <3>3. \A f \in Fun : n # FuncTable(f)
      BY NamesApart
    <3>. QED
      BY <2>6, <2>7, <3>1, <3>2, <3>3 DEF TableMade
  <2>11. /\ ClosedStructs \subseteq ClosedStructs'
         /\ \A r \in ClosedStructs : StructTable(r) # n
    BY <2>2, <2>5, <2>7 DEF ClosedStructs
  <2>12. \A f \in Fun : ~ InParams(f)'
    BY <2>2 DEF InParams
  <2>. QED
    BY <2>2, <2>7, <2>8, <2>10, <2>11, <2>12, NewPlaced
<1>. QED
  BY <1>2, <1>3

(* The head of a function keeps the layout of the tables.                  *)
LEMMA BeginFunctionPlaced ==
  ASSUME Typed, Typed', Placed, NEW f \in Fun, NEW ret \in Returns,
         BeginFunction(f, ret)
  PROVE  Placed'
<1>. DEFINE n == FuncTable(f)
<1>1. PICK t \in FreshTables :
        tables' = Bind(tables, n, FunTable(t))
  BY DEF BeginFunction, FunTable
<1>2. /\ current' = n /\ where' = "params" /\ where \in {"types", "functions"}
      /\ ftypes' = Bind(ftypes, f, [ret |-> ret, args |-> <<>>])
  BY DEF BeginFunction
<1>. DEFINE u == FunTable(t)
<1>3. /\ DOMAIN u.syms = {} /\ u.max_offset = 8
      /\ \E h \in HeapInts : u.args_size = h[2]
  <2>1. /\ TableTyped(t) /\ DOMAIN t.syms = {}
        /\ \E h \in HeapInts : t.args_size = h[2]
    BY FreshEffect
  <2>2. u.syms = t.syms /\ u.max_offset = 8 /\ u.args_size = t.args_size
    <3>1. IsTable(t)
      BY <2>1 DEF TableTyped, IsTable
    <3>. QED
      BY <3>1, FunTableEffect
  <2>. QED
    BY <2>1, <2>2
<1>4. ftypes'[f].args = <<>> /\ \A g \in DOMAIN ftypes : g # f => ftypes'[g] = ftypes[g]
  BY <1>2 DEF Bind
<1>. HIDE DEF u
<1>5. /\ DOMAIN tables' = DOMAIN tables \cup {n}
      /\ n # Global /\ n \in DOMAIN tables'
      /\ tables'[n] = u /\ tables'[Global] = tables[Global]
      /\ \A m \in DOMAIN tables : m \notin {n, Global} => tables'[m] = tables[m]
  BY <1>1, NamesApart DEF Bind, Typed, Walk, u
<1>6. GlobalKept
  BY <1>5 DEF GlobalKept, Typed, Walk, Placed, KnownStructs, FieldsPlaced
<1>7. TableMade(n)
  <2>. u.max_offset >= 0 /\ u.max_offset >= 8
    BY <1>3
  <2>1. /\ KnownVars(u, ClosedStructs) /\ FieldsOK(tables', n, u)
        /\ FrameOK(tables', u) /\ ParamsOK(tables', u)
        /\ All(tables', <<>>) = 0 /\ ArgsOK(tables', u, <<>>)
    BY <1>3, EmptyPlaced
  <2>2. \A s \in StructName : n # StructTable(s)
    BY NamesApart
  <2>3. \A g \in Fun : n = FuncTable(g) => g = f
    BY NamesApart
  <2>4. u.max_offset = 8 + All(tables', <<>>)
    BY <1>3, <2>1
  <2>. QED
    BY <1>4, <1>5, <2>1, <2>2, <2>3, <2>4 DEF TableMade
<1>8. /\ ClosedStructs \subseteq ClosedStructs'
      /\ \A s \in ClosedStructs : StructTable(s) # n
  BY <1>2, <1>5, NamesApart DEF ClosedStructs
<1>9. \A g \in Fun : FuncTable(g) # n => ~ InParams(g)'
  BY <1>2 DEF InParams
<1>10. \A g \in DOMAIN ftypes : FuncTable(g) # n => ftypes'[g] = ftypes[g]
  BY <1>4
<1>. QED
  BY <1>5, <1>6, <1>7, <1>8, <1>9, <1>10, NewPlaced

(* The head of a void function keeps the layout of the tables.             *)
LEMMA BeginVoidFunctionPlaced ==
  ASSUME Typed, Typed', Placed,
         NEW f \in Fun, NEW ret \in Returns, BeginVoidFunction(f, ret)
  PROVE  Placed'
<1>. DEFINE n == FuncTable(f)
            old == tables[Global]
<1>1. CASE Var(f) \in DOMAIN old.syms
  BY <1>1, SemErrPlaced DEF BeginVoidFunction
<1>2. CASE Var(f) \notin DOMAIN old.syms
  <2>1. PICK t \in FreshTables :
          tables' = WithFunction(Bind(tables, n, t), f)
    BY <1>2 DEF BeginVoidFunction
  <2>2. /\ current' = n /\ where' = "locals"
        /\ ftypes' = Bind(ftypes, f, [ret |-> ret, args |-> <<>>])
    BY <1>2 DEF BeginVoidFunction
  <2>. DEFINE ts == Bind(tables, n, t)
              g == tables'[Global]
  <2>3. /\ DOMAIN ts = DOMAIN tables \cup {n}
        /\ n # Global /\ Global \in DOMAIN ts
        /\ ts[n] = t /\ ts[Global] = old
        /\ \A m \in DOMAIN tables : m \notin {n, Global} => ts[m] = tables[m]
        /\ ts = [m \in DOMAIN ts |-> ts[m]]
    BY NamesApart DEF Bind, Typed, Walk
  <2>4. TableTyped(old)
    BY DEF Typed, Walk, TablesTyped
  <2>5. tables' = WithFunction(ts, f)
    BY <2>1
  <2>. HIDE DEF ts, old
  <2>6. /\ DOMAIN tables' = DOMAIN ts
        /\ \A m \in DOMAIN ts : m # Global => tables'[m] = ts[m]
        /\ DOMAIN g.syms = DOMAIN old.syms \cup {Var(f)}
        /\ g.syms[Var(f)] = Data("func", f, 0)
        /\ \A k \in DOMAIN old.syms : g.syms[k] = old.syms[k]
    BY <1>2, <2>3, <2>4, <2>5, WithFunctionTyped
  <2>7. GlobalKept
    <3>1. Data("func", f, 0).kind # "struct" /\ f \in Id
      BY NamesAssumption DEF Data
    <3>. HIDE DEF g
    <3>2. /\ \A k \in DOMAIN old.syms : k \in DOMAIN g.syms
          /\ KnownVars(g, ClosedStructs)
          /\ FieldsOK(tables, Global, g)
      BY <1>2, <2>6, <3>1, NamePlaced DEF old
    <3>. QED
      BY <3>2 DEF GlobalKept, g, old
  <2>8. /\ DOMAIN t.syms = {} /\ t.base = t.max_offset
        /\ \E h \in HeapInts : t.args_size = h[2]
    BY FreshEffect
  <2>9. tables'[n] = t
    BY <2>3, <2>6
  <2>10. /\ ftypes'[f].args = <<>>
         /\ \A h \in DOMAIN ftypes : h # f => ftypes'[h] = ftypes[h]
    BY <2>2 DEF Bind
  <2>11. \A h \in Fun : ~ InParams(h)'
    BY <2>2 DEF InParams
  <2>12. TableMade(n)
    <3>1. /\ KnownVars(t, ClosedStructs) /\ FieldsOK(tables', n, t)
          /\ Orderly(tables', n, t) => FrameOK(tables', t)
          /\ ArgsOK(tables', t, <<>>)
      BY <2>3, <2>8, EmptyPlaced DEF Orderly
    <3>2. \A s \in StructName : n # StructTable(s)
      BY NamesApart
    <3>3. \A h \in Fun : n = FuncTable(h) => h = f
      BY NamesApart
    <3>. QED
      BY <2>9, <2>10, <2>11, <3>1, <3>2, <3>3 DEF TableMade
  <2>13. /\ ClosedStructs \subseteq ClosedStructs'
         /\ \A s \in ClosedStructs : StructTable(s) # n
    BY <2>2, <2>3, <2>6, NamesApart DEF ClosedStructs
  <2>14. /\ DOMAIN tables' = DOMAIN tables \cup {n} /\ n \in DOMAIN tables'
         /\ \A m \in DOMAIN tables : m \notin {n, Global} => tables'[m] = tables[m]
    BY <2>3, <2>6
  <2>15. \A h \in DOMAIN ftypes : FuncTable(h) # n => ftypes'[h] = ftypes[h]
    BY <2>10
  <2>. QED
    BY <2>3, <2>7, <2>11, <2>12, <2>13, <2>14, <2>15, NewPlaced
<1>. QED
  BY <1>1, <1>2

(* The end of a parameter list: the locals start again from rbp.           *)
LEMMA EndParamsPlaced ==
  ASSUME Typed, Typed', Placed, EndParams
  PROVE  Placed'
<1>1. where = "params"
  BY DEF EndParams
<1>2. PICK f \in Fun : current = FuncTable(f)
  BY <1>1 DEF Typed, Walk
<1>. DEFINE n == current
            old == tables[Global]
            t == tables[n]
            v == [t EXCEPT !.max_offset = 0]
            args == ftypes[f].args
<1>3. /\ f = current[2] /\ n # Global /\ InParams(f)
      /\ n \in DOMAIN tables /\ Global \in DOMAIN tables /\ f \in DOMAIN ftypes
  BY <1>1, <1>2, NamesApart DEF Typed, Walk, FunctionTypes, InParams
<1>4. CASE Var(f) \in DOMAIN old.syms
  <2>1. SemErr
    BY <1>3, <1>4 DEF EndParams
  <2>. QED
    BY <2>1, SemErrPlaced
<1>5. CASE Var(f) \notin DOMAIN old.syms
  <2>. DEFINE ts == [tables EXCEPT ![n] = v]
              g == tables'[Global]
  <2>1. /\ tables' = WithFunction(ts, f)
        /\ where' = "locals" /\ UNCHANGED <<ftypes, current, status>>
    BY <1>3, <1>5 DEF EndParams
  <2>2. TableTyped(old) /\ TableTyped(t)
    BY <1>3 DEF Typed, TablesTyped
  <2>3. /\ v.syms = t.syms /\ v.args_size = t.args_size /\ v.max_offset = 0
        /\ v.base = t.base
    <3>. HIDE DEF t
    <3>. QED
      BY <2>2 DEF TableTyped
  <2>. HIDE DEF v
  <2>4. /\ DOMAIN ts = DOMAIN tables /\ Global \in DOMAIN ts
        /\ ts[n] = v /\ ts[Global] = old
        /\ \A m \in DOMAIN tables : m # n => ts[m] = tables[m]
        /\ ts = [m \in DOMAIN ts |-> ts[m]]
    BY <1>3
  <2>. HIDE DEF ts, old
  <2>5. /\ DOMAIN tables' = DOMAIN ts
        /\ \A m \in DOMAIN ts : m # Global => tables'[m] = ts[m]
        /\ DOMAIN g.syms = DOMAIN old.syms \cup {Var(f)}
        /\ g.syms[Var(f)] = Data("func", f, 0)
        /\ \A k \in DOMAIN old.syms : g.syms[k] = old.syms[k]
    BY <1>5, <2>1, <2>2, <2>4, WithFunctionTyped
  <2>6. GlobalKept
    <3>1. Data("func", f, 0).kind # "struct" /\ f \in Id
      BY NamesAssumption DEF Data
    <3>. HIDE DEF g
    <3>2. /\ \A k \in DOMAIN old.syms : k \in DOMAIN g.syms
          /\ KnownVars(g, ClosedStructs)
          /\ FieldsOK(tables, Global, g)
      BY <1>5, <2>5, <3>1, NamePlaced DEF old
    <3>. QED
      BY <3>2 DEF GlobalKept, g, old
  <2>7. /\ DOMAIN tables' = DOMAIN tables \cup {n} /\ n \in DOMAIN tables'
        /\ tables'[n] = v
        /\ \A m \in DOMAIN tables : m \notin {n, Global} => tables'[m] = tables[m]
    BY <1>3, <2>4, <2>5
  <2>8. /\ ClosedStructs' = ClosedStructs
        /\ \A s \in ClosedStructs : StructTable(s) # n /\ StructTable(s) # Global
    BY <1>2, <2>1, <2>7, NamesApart DEF ClosedStructs
  <2>9. \A s \in ClosedStructs : tables'[StructTable(s)] = tables[StructTable(s)]
    BY <2>7, <2>8 DEF ClosedStructs
  <2>10. /\ KnownVars(t, ClosedStructs)
         /\ Orderly(tables', n, t) =>
              /\ FieldsOK(tables', n, t) /\ FrameOK(tables', t)
              /\ ArgsOK(tables', t, args) /\ ParamsOK(tables', t)
    BY <1>2, <1>3, <2>9, Untouched
  <2>. HIDE DEF t, args
  <2>11. /\ KnownVars(v, ClosedStructs)
         /\ Orderly(tables', n, v) => Orderly(tables', n, t)
    BY <2>3, <2>10 DEF KnownVars, Orderly
  <2>12. ASSUME Orderly(tables', n, v)
         PROVE  FieldsOK(tables', n, v) /\ ArgsOK(tables', v, args)
    BY <2>3, <2>10, <2>11, <2>12 DEF FieldsOK, ArgsOK
  <2>13. ASSUME Orderly(tables', n, v) PROVE FrameOK(tables', v)
    BY <2>3, <2>10, <2>11, <2>13 DEF FrameOK, ParamsOK, InFrame
  <2>14. \A h \in Fun : ~ InParams(h)'
    BY <2>1 DEF InParams
  <2>15. TableMade(n)
    <3>1. \A s \in StructName : n # StructTable(s)
      BY <1>2, NamesApart
    <3>2. \A h \in Fun : n = FuncTable(h) => h = f
      BY <1>2, NamesApart
    <3>3. ftypes'[f].args = args
      BY <2>1 DEF args
    <3>. QED
      BY <2>7, <2>11, <2>12, <2>13, <2>14, <3>1, <3>2, <3>3 DEF TableMade
  <2>. QED
    BY <1>3, <2>1, <2>6, <2>7, <2>8, <2>14, <2>15, NewPlaced
<1>. QED
  BY <1>4, <1>5

(* The empty global table has the layout of the invariant.                 *)
LEMMA InitPlaced ==
  ASSUME Init
  PROVE  Placed
<1>1. PICK t \in FreshTables : tables = [n \in {Global} |-> t]
  BY DEF Init
<1>2. /\ where = "types" /\ ftypes = <<>>
      /\ DOMAIN tables = {Global} /\ tables[Global] = t
  BY <1>1 DEF Init
<1>3. DOMAIN t.syms = {}
  BY FreshEffect
<1>4. KnownVars(t, ClosedStructs) /\ FieldsOK(tables, Global, t)
  BY <1>3, EmptyPlaced
<1>5. KnownStructs
  BY <1>2, <1>4, NamesApart DEF KnownStructs
<1>6. Layout
  BY <1>2, NamesApart DEF Layout
<1>7. FieldsPlaced
  BY <1>2, <1>4 DEF FieldsPlaced
<1>8. ArgsPlaced
  BY <1>2 DEF ArgsPlaced
<1>. QED
  BY <1>5, <1>6, <1>7, <1>8 DEF Placed

(* Every action keeps the layout of the tables.                            *)
LEMMA NextPlaced ==
  ASSUME Typed, Typed', Placed, [Next]_vars
  PROVE  Placed'
<1>1. CASE UNCHANGED vars
  BY <1>1, SameTables DEF vars, ClosedStructs, InParams
<1>2. ASSUME NEW type \in Prim, NEW x \in Id, DeclarePrim(type, x)
      PROVE  Placed'
  <2>1. CASE Defined(x)
    BY <1>2, <2>1, SemErrPlaced DEF DeclarePrim
  <2>2. CASE ~ Defined(x)
    BY <1>2, <2>2, DeclarePrimPlaced
  <2>. QED
    BY <2>1, <2>2
<1>3. ASSUME NEW s \in StructName, NEW x \in Id, DeclareStructVar(s, x)
      PROVE  Placed'
  <2>1. CASE Defined(x) \/ StructTable(s) \notin DOMAIN tables
    BY <1>3, <2>1, SemErrPlaced DEF DeclareStructVar
  <2>2. CASE ~ Defined(x) /\ StructTable(s) \in DOMAIN tables
    BY <1>3, <2>2, DeclareStructVarPlaced
  <2>. QED
    BY <2>1, <2>2
<1>4. ASSUME NEW s \in StructName, BeginStruct(s)
      PROVE  Placed'
  BY <1>4, BeginStructPlaced
<1>5. CASE EndStruct \/ EndFunction \/ Finish
  BY <1>5, EndPlaced
<1>6. ASSUME NEW f \in Fun, NEW ret \in Returns,
             BeginFunction(f, ret) \/ BeginVoidFunction(f, ret)
      PROVE  Placed'
  BY <1>6, BeginFunctionPlaced, BeginVoidFunctionPlaced
<1>7. ASSUME NEW type \in Prim \cup StructName, NEW x \in Id,
             DeclareParam(type, x)
      PROVE  Placed'
  <2>1. CASE SemErr
    BY <2>1, SemErrPlaced
  <2>2. CASE ~ SemErr
    <3>1. status = "run"
      BY <1>7 DEF DeclareParam, Declares
    <3>2. status' = "run"
      BY <1>7, <2>2, <3>1 DEF DeclareParam
    <3>. QED
      BY <1>7, <3>2, DeclareParamPlaced
  <2>. QED
    BY <2>1, <2>2
<1>8. CASE EndParams
  BY <1>8, EndParamsPlaced
<1>. QED
  BY <1>1, <1>2, <1>3, <1>4, <1>5, <1>6, <1>7, <1>8 DEF Next

(* The inductive invariant.                                                *)
THEOREM Invariance == Spec => []IInv
<1>1. Init => IInv
  BY InitTyped, InitPlaced DEF IInv
<1>2. IInv /\ [Next]_vars => IInv'
  <2>. SUFFICES ASSUME IInv, [Next]_vars PROVE IInv'
    OBVIOUS
  <2>1. Typed'
    BY NextTyped DEF IInv
  <2>. QED
    BY <2>1, NextPlaced DEF IInv
<1>. QED
  BY <1>1, <1>2, PTL DEF Spec

-----------------------------------------------------------------------------
(* What the layout means for the addresses that translation.c derives.     *)

(* The addresses that the properties speak of are those of the invariant.  *)
LEMMA AddressesAgree ==
  ASSUME NEW d
  PROVE  Extent(d) = ExtentIn(tables, d) /\ FirstByte(d) = LowIn(tables, d)
BY DEF Extent, ExtentIn, FirstByte, LowIn, Image, Address, StructSize

(* A function's table is that of a function with a type.                   *)
LEMMA FunctionTable ==
  ASSUME Typed, NEW n \in Functions
  PROVE  \E f \in Fun : n = FuncTable(f) /\ f \in DOMAIN ftypes
<1>1. n \in DOMAIN tables /\ n[1] = "func" /\ n \in TableNames
  BY DEF Functions, Typed, Walk
<1>2. \E f \in Fun : n = FuncTable(f)
  BY <1>1, NamesApart DEF TableNames
<1>. QED
  BY <1>1, <1>2 DEF Typed, FunctionTypes

(* A variable is a name of the table.                                      *)
LEMMA VariableKeys ==
  ASSUME NEW t, TableTyped(t), NEW k \in Variables(t)
  PROVE  \E x \in Id : k = Var(x) /\ Var(x) \in DOMAIN t.syms
<1>1. k \in SymKeys /\ k \in DOMAIN t.syms /\ Len(k) = 1
  BY DEF Variables, TableTyped
<1>2. \A x, f \in Id : Len(Field(x, f)) = 2
  BY DEF Field
<1>. QED
  BY <1>1, <1>2 DEF SymKeys

(* A table that FromZero accepts is an orderly one.                        *)
LEMMA FromZeroOrderly ==
  ASSUME IInv, NEW n \in DOMAIN tables, FromZero(n)
  PROVE  /\ Orderly(tables, n, tables[n])
         /\ \A x \in Id :
              /\ Var(x) \in DOMAIN tables[n].syms
              /\ tables[n].syms[Var(x)].kind = "struct"
              => tables[StructTable(tables[n].syms[Var(x)].type)].base >= 0
<1>. DEFINE t == tables[n]
<1>1. KnownVars(t, ClosedStructs)
  BY DEF IInv, Placed, KnownStructs
<1>2. ASSUME NEW x \in Id, Var(x) \in DOMAIN t.syms,
             t.syms[Var(x)].kind = "struct"
      PROVE  /\ t.syms[Var(x)].type \in StructName
             /\ tables[StructTable(t.syms[Var(x)].type)].base >= 0
  <2>1. t.syms[Var(x)].type \in StructName
    BY <1>1, <1>2 DEF KnownVars, ClosedStructs
  <2>2. Var(x) \in Variables(t)
    BY <1>2, KeysApart DEF Variables
  <2>3. t.syms[Var(x)].type \in Used(t)
    BY <1>2, <2>2 DEF Used
  <2>. QED
    BY <2>1, <2>3 DEF FromZero
<1>3. KnownVars(t, CleanIn(tables))
  BY <1>2 DEF KnownVars, CleanIn
<1>. QED
  BY <1>2, <1>3 DEF Orderly, FromZero

(* A variable of a function, and what is known of it.                      *)
LEMMA FunctionVariables ==
  ASSUME IInv, NEW n \in Functions, FromZero(n)
  PROVE  LET t == tables[n] IN
         /\ FrameOK(tables, t) /\ Sized(tables, t) /\ t.max_offset \in Int
         /\ \A k \in Variables(t) : \E x \in Id : k = Var(x) /\ Var(x) \in DOMAIN t.syms
<1>. DEFINE t == tables[n]
<1>1. PICK f \in Fun : n = FuncTable(f)
  BY FunctionTable DEF IInv
<1>2. n \in DOMAIN tables
  BY DEF Functions
<1>3. /\ TableTyped(t) /\ FrameOK(tables, t) /\ KnownVars(t, ClosedStructs)
      /\ Orderly(tables, n, t)
  BY <1>1, <1>2, FromZeroOrderly
     DEF IInv, Typed, TablesTyped, Placed, Layout, KnownStructs
<1>. HIDE DEF t
<1>5. Sized(tables, t)
  BY <1>3, OrderlySized DEF IInv
<1>6. t.max_offset \in Int
  BY <1>3 DEF TableTyped
<1>7. \A k \in Variables(t) : \E x \in Id : k = Var(x) /\ Var(x) \in DOMAIN t.syms
  BY <1>3, VariableKeys
<1>. QED
  BY <1>3, <1>5, <1>6, <1>7 DEF t

(* Locals below, parameters above, each past the one before: no overlap.   *)
LEMMA DisjointFromInvariant ==
  ASSUME IInv
  PROVE  VariablesDisjoint
<1>. SUFFICES ASSUME NEW n \in Functions, FromZero(n),
                     NEW j \in Variables(tables[n]), NEW k \in Variables(tables[n]), j # k
              PROVE  Bytes(tables[n].syms[j]) \cap Bytes(tables[n].syms[k]) = {}
  BY DEF VariablesDisjoint
<1>. DEFINE t == tables[n]
            d == t.syms[j]
            e == t.syms[k]
<1>1. /\ FrameOK(tables, t) /\ Sized(tables, t)
      /\ \E x \in Id : j = Var(x) /\ Var(x) \in DOMAIN t.syms
      /\ \E y \in Id : k = Var(y) /\ Var(y) \in DOMAIN t.syms
  BY FunctionVariables
<1>2. PICK x \in Id, y \in Id :
        /\ j = Var(x) /\ Var(x) \in DOMAIN t.syms
        /\ k = Var(y) /\ Var(y) \in DOMAIN t.syms
  BY <1>1
<1>3. /\ Apart(tables, d, e)
      /\ d.offset \in Int /\ ExtentIn(tables, d) \in Nat
      /\ e.offset \in Int /\ ExtentIn(tables, e) \in Nat
  <2>. HIDE DEF t
  <2>. QED
    BY <1>1, <1>2 DEF FrameOK, Sized
<1>4. LowIn(tables, d) \in Int /\ LowIn(tables, e) \in Int
  BY <1>3 DEF LowIn
<1>. HIDE DEF d, e
<1>5. /\ Bytes(d) = LowIn(tables, d) .. LowIn(tables, d) + ExtentIn(tables, d) - 1
      /\ Bytes(e) = LowIn(tables, e) .. LowIn(tables, e) + ExtentIn(tables, e) - 1
  BY AddressesAgree DEF Bytes
<1>6. Bytes(d) \cap Bytes(e) = {}
  BY <1>3, <1>4, <1>5 DEF Apart
<1>. QED
  BY <1>6 DEF d, e

(* The layout keeps the locals in the frame and the parameters above it.   *)
LEMMA InFrameFromInvariant ==
  ASSUME IInv
  PROVE  LocalsInFrame
<1>. SUFFICES ASSUME NEW n \in Functions, FromZero(n),
                     NEW k \in Variables(tables[n])
              PROVE  LET d == tables[n].syms[k] IN
                     IF d.offset < 0 THEN FirstByte(d) >= 24
                     ELSE Bytes(d) \subseteq -tables[n].max_offset .. -1
  BY DEF LocalsInFrame
<1>. DEFINE t == tables[n]
            d == t.syms[k]
<1>1. /\ FrameOK(tables, t) /\ Sized(tables, t) /\ t.max_offset \in Int
      /\ \E x \in Id : k = Var(x) /\ Var(x) \in DOMAIN t.syms
  BY FunctionVariables
<1>2. /\ InFrame(tables, t, d)
      /\ d.offset \in Int /\ ExtentIn(tables, d) \in Nat
  <2>. HIDE DEF t
  <2>. QED
    BY <1>1 DEF FrameOK, Sized
<1>. HIDE DEF d
<1>3. /\ FirstByte(d) = LowIn(tables, d)
      /\ Bytes(d) = LowIn(tables, d) .. LowIn(tables, d) + ExtentIn(tables, d) - 1
  BY AddressesAgree DEF Bytes
<1>4. CASE d.offset < 0
  BY <1>2, <1>3, <1>4 DEF InFrame, LowIn, d
<1>5. CASE d.offset >= 0
  <2>. DEFINE max == t.max_offset
              e == ExtentIn(tables, d)
              o == d.offset
  <2>1. /\ o + e <= max /\ max \in Int /\ e \in Nat /\ o \in Int /\ o >= 0
        /\ LowIn(tables, d) = -(o + e)
    BY <1>1, <1>2, <1>5 DEF InFrame, LowIn
  <2>2. Bytes(d) = -(o + e) .. -(o + e) + e - 1
    BY <1>3, <2>1
  <2>. HIDE DEF max, e, o
  <2>3. Bytes(d) \subseteq -max .. -1
    BY <2>1, <2>2
  <2>4. ~ (d.offset < 0)
    BY <1>2, <1>5
  <2>. QED
    BY <2>3, <2>4 DEF d, max
<1>. QED
  BY <1>2, <1>4, <1>5

(* The arguments of a function, as the theorems speak of them.             *)
LEMMA ArgsBeforeIs ==
  ASSUME NEW args, NEW i
  PROVE  ArgsBefore(args, i) = Before(tables, args, i)
BY DEF ArgsBefore, Before, ArgSizes, ArgExtent, ExtentOf, StructSize, SumFunction

(* The arguments of the properties are those the invariant places.         *)
LEMMA ArgumentsPlaced ==
  ASSUME IInv, NEW f \in DOMAIN ftypes,
         Orderly(tables, FuncTable(f), tables[FuncTable(f)])
  PROVE  LET t == tables[FuncTable(f)]
             args == ftypes[f].args
         IN  /\ ArgsOK(tables, t, args) /\ Len(args) \in Nat
             /\ DOMAIN args = 1 .. Len(args)
             /\ \A i \in 1 .. Len(args) + 1 : Before(tables, args, i) \in Nat
<1>. DEFINE t == tables[FuncTable(f)]
            args == ftypes[f].args
<1>1. /\ f \in Fun /\ FuncTable(f) \in DOMAIN tables
      /\ args \in Seq(Arg) /\ ArgsOK(tables, t, args)
      /\ KnownVars(t, ClosedStructs) /\ TableTyped(t)
  BY DEF IInv, Typed, FunctionTypes, TablesTyped, Placed, KnownStructs, ArgsPlaced
<1>2. /\ KnownVars(t, CleanStructs)
      /\ \A s \in CleanStructs : tables[StructTable(s)].max_offset \in Nat
  <2>. HIDE DEF t
  <2>. QED
    BY <1>1, OrderlySized DEF IInv, t
<1>. HIDE DEF t, args
<1>3. KnownArgs(args, CleanStructs)
  BY <1>1, <1>2, ArgsKnown
<1>4. Len(args) \in Nat /\ DOMAIN args = 1 .. Len(args)
  BY <1>1
<1>5. \A i \in 1 .. Len(args) : ExtentOf(tables, args[i]) \in Nat
  BY <1>2, <1>3, ExtentOfNat
<1>6. ASSUME NEW i \in 1 .. Len(args) + 1
      PROVE  Before(tables, args, i) \in Nat
  <2>1. i \in Nat /\ \A j \in 1 .. i - 1 : ExtentOf(tables, args[j]) \in Nat
    BY <1>4, <1>5
  <2>. QED
    BY <2>1, BeforeNat
<1>. QED
  BY <1>1, <1>4, <1>6 DEF t, args

(* Parameters placed one past the other are side by side.                  *)
LEMMA TileFromInvariant ==
  ASSUME IInv
  PROVE  ParamsTile
<1>. SUFFICES
       ASSUME NEW f \in DOMAIN ftypes, FromZero(FuncTable(f))
       PROVE  LET t == tables[FuncTable(f)]
                  args == ftypes[f].args
                  zeroed == \A i \in DOMAIN args :
                               args[i].type \in Prim \/ Zeroed(args[i].type)
              IN  /\ \A i \in DOMAIN args :
                       FirstByte(t.syms[Var(args[i].id)])
                         = 24 + ArgsBefore(args, i)
                  /\ zeroed => \E h \in HeapInts :
                       t.args_size = h[2] + ArgsBefore(args, Len(args) + 1)
  BY DEF ParamsTile
<1>. DEFINE t == tables[FuncTable(f)]
            args == ftypes[f].args
<1>1. /\ ArgsOK(tables, t, args) /\ Len(args) \in Nat
      /\ DOMAIN args = 1 .. Len(args)
      /\ \A i \in 1 .. Len(args) + 1 : Before(tables, args, i) \in Nat
  <2>1. FuncTable(f) \in DOMAIN tables
    BY DEF IInv, Typed, FunctionTypes
  <2>. QED
    BY <2>1, FromZeroOrderly, ArgumentsPlaced
<1>2. (\A i \in DOMAIN args : args[i].type \in Prim \/ Zeroed(args[i].type))
        => \A i \in 1 .. Len(args) : PlainArg(tables, args[i])
  BY <1>1 DEF PlainArg, Zeroed, StructSize
<1>. HIDE DEF t, args
<1>3. (\A i \in DOMAIN args : args[i].type \in Prim \/ Zeroed(args[i].type))
        => \E h \in HeapInts :
             t.args_size = h[2] + ArgsBefore(args, Len(args) + 1)
  BY <1>1, <1>2, ArgsBeforeIs DEF ArgsOK, All
<1>4. ASSUME NEW i \in DOMAIN args
      PROVE  FirstByte(t.syms[Var(args[i].id)]) = 24 + ArgsBefore(args, i)
  <2>. DEFINE d == t.syms[Var(args[i].id)]
              before == Before(tables, args, i)
  <2>1. d.offset = -(24 + before) /\ before \in Nat
    <3>1. i \in 1 .. Len(args) /\ i \in 1 .. Len(args) + 1
      BY <1>1, <1>4
    <3>2. d = Data(IF args[i].type \in Prim THEN "prim" ELSE "struct",
                   args[i].type, -(24 + before))
      BY <1>1, <3>1 DEF ArgsOK
    <3>3. before \in Nat
      BY <1>1, <3>1
    <3>. HIDE DEF d, before
    <3>. QED
      BY <3>2, <3>3 DEF Data
  <2>. HIDE DEF d, before
  <2>2. LowIn(tables, d) = 24 + before
    BY <2>1 DEF LowIn
  <2>. QED
    BY <2>2, AddressesAgree, ArgsBeforeIs DEF d, before
<1>. QED
  BY <1>3, <1>4 DEF t, args

(* A field's key is that of a variable and a field.                        *)
LEMMA FieldKeysAre ==
  ASSUME NEW t, TableTyped(t), NEW k \in FieldKeys(t)
  PROVE  \E x, f \in Id : k = Field(x, f) /\ Field(x, f) \in DOMAIN t.syms
<1>1. k \in SymKeys /\ k \in DOMAIN t.syms /\ Len(k) = 2
  BY DEF FieldKeys, TableTyped
<1>2. \A x \in Id : Len(Var(x)) = 1
  BY DEF Var
<1>. QED
  BY <1>1, <1>2 DEF SymKeys

(* A struct parameter of a list that StructFirst accepts lies at rbp + 24. *)
LEMMA FirstParam ==
  ASSUME IInv, NEW f \in DOMAIN ftypes, StructFirst(f), NEW x \in Id,
         Orderly(tables, FuncTable(f), tables[FuncTable(f)]),
         Var(x) \in DOMAIN tables[FuncTable(f)].syms,
         tables[FuncTable(f)].syms[Var(x)].kind = "struct",
         tables[FuncTable(f)].syms[Var(x)].offset < 0
  PROVE  tables[FuncTable(f)].syms[Var(x)].offset = -24
<1>. DEFINE t == tables[FuncTable(f)]
            args == ftypes[f].args
<1>1. ArgsOK(tables, t, args) /\ Len(args) \in Nat
  BY ArgumentsPlaced
<1>2. PICK i \in 1 .. Len(args) : args[i].id = x
  BY <1>1 DEF ArgsOK
<1>3. t.syms[Var(x)] =
        Data(IF args[i].type \in Prim THEN "prim" ELSE "struct",
             args[i].type, -(24 + Before(tables, args, i)))
  BY <1>1, <1>2 DEF ArgsOK
<1>4. args[i].type \notin Prim
  BY <1>3 DEF Data
<1>5. i = 1
  BY <1>1, <1>2, <1>4 DEF StructFirst
<1>6. Before(tables, args, i) = 0
  BY <1>5, BeforeFirst
<1>. HIDE DEF t, args
<1>7. t.syms[Var(x)].offset = -24
  BY <1>3, <1>6 DEF Data
<1>. QED
  BY <1>7 DEF t

(* A field placed as in the struct's table is in the image of that table.  *)
LEMMA ImageFromInvariant ==
  ASSUME IInv, NEW n \in DOMAIN tables, NEW k \in FieldKeys(tables[n]),
         n = Global \/ (Orderly(tables, n, tables[n]) /\ StructFirst(n[2])),
         tables[StructTable(tables[n].syms[Var(k[1])].type)].base >= 0
  PROVE  FieldInImage(n, k)
<1>. DEFINE t == tables[n]
<1>1. /\ TableTyped(t) /\ FieldsOK(tables, n, t) /\ KnownVars(t, ClosedStructs)
  BY DEF IInv, Typed, TablesTyped, Placed, FieldsPlaced, KnownStructs
<1>2. PICK x \in Id, f \in Id : k = Field(x, f) /\ Field(x, f) \in DOMAIN t.syms
  <2>. HIDE DEF t
  <2>. QED
    BY <1>1, FieldKeysAre DEF t
<1>3. k[1] = x /\ k[2] = f
  BY <1>2, KeysApart
<1>. DEFINE d == t.syms[Var(x)]
            s == d.type
            st == tables[StructTable(s)]
            e == st.syms[Var(f)]
<1>4. Var(x) \in DOMAIN t.syms /\ d.kind = "struct" /\ d.offset \in Int
  <2>1. Var(x) \in DOMAIN t.syms /\ d.kind = "struct"
    BY <1>1, <1>2 DEF TableTyped
  <2>2. d \in PrimData \cup NamedData
    BY <1>1, <2>1 DEF TableTyped
  <2>. QED
    BY <2>1, <2>2 DEF PrimData, NamedData
<1>5. s \in ClosedStructs
  BY <1>1, <1>4 DEF KnownVars
<1>6. /\ TableTyped(st) /\ PlainFields(st) /\ StructOK(st)
      /\ st.base >= 0 /\ st.max_offset \in Nat
  <2>1. st.base >= 0 /\ s \in CleanIn(tables)
    BY <1>3, <1>5 DEF CleanIn, ClosedStructs
  <2>. QED
    BY <1>5, <2>1, ClosedStructsOK DEF IInv
<1>7. /\ Var(f) \in DOMAIN st.syms
      /\ t.syms[k] = Data("prim", e.type, PlacedField(n, st, e, d.offset))
  BY <1>1, <1>2 DEF FieldsOK
<1>8. /\ e.offset \in Int /\ e.type \in Prim /\ Size(e.type) \in Nat
      /\ e.offset >= 0 /\ e.offset + Size(e.type) <= st.max_offset
  BY <1>6, <1>7 DEF PlainFields, PrimData, StructOK, Size
<1>9. /\ t.syms[k].type = e.type
      /\ t.syms[k].offset = PlacedField(n, st, e, d.offset)
  BY <1>7 DEF Data
<1>10. FieldPlace(n, k) = e.offset
  <2>1. CASE n = Global
    BY <1>9, <2>1 DEF FieldPlace, PlacedField
  <2>2. CASE n # Global
    <3>1. PICK g \in Fun : n = FuncTable(g)
      <4>1. ASSUME NEW r \in StructName, n = StructTable(r)
            PROVE  FALSE
        <5>1. PlainFields(t)
          BY <4>1 DEF IInv, Typed, TablesTyped
        <5>. QED
          BY <1>2, <5>1, KeysApart DEF PlainFields
      <4>. QED
        BY <2>2, <4>1 DEF IInv, Typed, Walk, TableNames
    <3>2. g \in DOMAIN ftypes /\ StructFirst(g)
      <4>1. g = n[2] /\ StructFirst(n[2])
        BY <2>2, <3>1, NamesApart
      <4>2. g \in DOMAIN ftypes
        BY <3>1 DEF IInv, Typed, FunctionTypes
      <4>. QED
        BY <4>1, <4>2
    <3>3. d.offset < 0 => d.offset = -24
      BY <1>4, <2>2, <3>1, <3>2, FirstParam
    <3>4. FieldPlace(n, k) = Address(t.syms[k]) - Image(d, st.max_offset)
      BY <1>3, <2>2 DEF FieldPlace, StructSize
    <3>. HIDE DEF d, e, st, t
    <3>5. CASE d.offset < 0
      <4>1. t.syms[k].offset = -e.offset - 24
        BY <1>9, <2>2, <3>5 DEF PlacedField
      <4>. QED
        BY <1>4, <1>8, <1>9, <3>3, <3>4, <3>5, <4>1 DEF Address, Image
    <3>6. CASE d.offset >= 0
      <4>1. t.syms[k].offset = st.max_offset - e.offset - Size(e.type) + d.offset
        BY <1>4, <1>9, <2>2, <3>6 DEF PlacedField
      <4>. QED
        BY <1>4, <1>6, <1>8, <1>9, <3>4, <3>6, <4>1 DEF Address, Image
    <3>. QED
      BY <1>4, <3>5, <3>6
  <2>. QED
    BY <2>1, <2>2
<1>. QED
  BY <1>3, <1>8, <1>9, <1>10 DEF FieldInImage

(* The fields of a variable of the globals or of a function.               *)
LEMMA ImagesFromInvariant ==
  ASSUME IInv
  PROVE  FieldsInImage
<1>. SUFFICES ASSUME NEW n \in DOMAIN tables, NEW k \in FieldKeys(tables[n]),
                     FromZero(n), n = Global \/ StructFirst(n[2])
              PROVE  FieldInImage(n, k)
  BY DEF FieldsInImage
<1>1. TableTyped(tables[n])
  BY DEF IInv, Typed, TablesTyped
<1>2. PICK x \in Id, f \in Id :
        k = Field(x, f) /\ Field(x, f) \in DOMAIN tables[n].syms
  BY <1>1, FieldKeysAre
<1>3. /\ k[1] = x /\ Var(x) \in DOMAIN tables[n].syms
      /\ tables[n].syms[Var(x)].kind = "struct"
  BY <1>1, <1>2, KeysApart DEF TableTyped
<1>4. tables[StructTable(tables[n].syms[Var(k[1])].type)].base >= 0
  BY <1>3, FromZeroOrderly
<1>5. n = Global \/ (Orderly(tables, n, tables[n]) /\ StructFirst(n[2]))
  BY FromZeroOrderly
<1>. QED
  BY <1>4, <1>5, ImageFromInvariant, Zenon

-----------------------------------------------------------------------------
(* The theorems.  Nothing is supposed of malloc: each property says itself *)
(* of which tables it speaks (FromZero).                                   *)

(* No two variables of a function share a byte of the stack, whatever the  *)
(* declarations and their order, when neither its table nor that of a      *)
(* struct it uses started below 0.                                         *)
THEOREM Disjoint == Spec => []VariablesDisjoint
<1>1. IInv => VariablesDisjoint
  BY DisjointFromInvariant
<1>. QED
  BY <1>1, Invariance, PTL

(* The locals of such a function stay within the bytes the prologue        *)
(* reserves below rbp, the parameters above the saved registers.           *)
THEOREM InsideFrame == Spec => []LocalsInFrame
<1>1. IInv => LocalsInFrame
  BY InFrameFromInvariant
<1>. QED
  BY <1>1, Invariance, PTL

(* The fields of a struct variable lie in its bytes at the places of the   *)
(* struct's table, so that struct_assign copies fields to fields.          *)
THEOREM InsideImage == Spec => []FieldsInImage
<1>1. IInv => FieldsInImage
  BY ImagesFromInvariant
<1>. QED
  BY <1>1, Invariance, PTL

(* The parameters lie side by side from rbp + 24 in the order in which     *)
(* they are declared, for every number of them, and args_size is their     *)
(* sum but for what malloc left there.                                     *)
THEOREM Tile == Spec => []ParamsTile
<1>1. IInv => ParamsTile
  BY TileFromInvariant
<1>. QED
  BY <1>1, Invariance, PTL

-----------------------------------------------------------------------------
(* Every declared name keeps a symbol of its own: the invariant counts     *)
(* names and symbols.                                                      *)

Count(ts) == SumFunction([n \in DOMAIN ts |-> Cardinality(Variables(ts[n]))])

(* A struct's or a function's table has its name among the globals, but    *)
(* for the function whose parameters are being declared.                   *)
Named ==
  /\ \A s \in StructName : StructTable(s) \in DOMAIN tables
                             => Var(s) \in DOMAIN tables[Global].syms
  /\ \A f \in Fun : FuncTable(f) \in DOMAIN tables /\ ~ InParams(f)
                      => Var(f) \in DOMAIN tables[Global].syms

(* That function has no symbol yet; if its name is taken it will be        *)
(* rejected.                                                               *)
Counted ==
  /\ status = "done" => where # "params"
  /\ status # "sem_err" =>
       IF where # "params" THEN SumFunction(decls) = Count(tables)
       ELSE \/ Var(current[2]) \in DOMAIN tables[Global].syms
            \/ SumFunction(decls) = Count(tables) + 1

CInv == Typed /\ Named /\ Counted

TablesKnown(ts) ==
  IsFiniteSet(DOMAIN ts) /\ \A n \in DOMAIN ts : TableTyped(ts[n])

(* A table has finitely many variables.                                    *)
LEMMA VariablesFinite ==
  ASSUME NEW t, TableTyped(t)
  PROVE  IsFiniteSet(Variables(t)) /\ Cardinality(Variables(t)) \in Nat
<1>1. IsFiniteSet(DOMAIN t.syms) /\ Variables(t) \subseteq DOMAIN t.syms
  BY DEF TableTyped, Variables
<1>2. IsFiniteSet(Variables(t))
  BY <1>1, FS_Subset
<1>. QED
  BY <1>2, FS_CardinalityType

(* A new name is one variable more.                                        *)
LEMMA VariablesGrown ==
  ASSUME NEW t, TableTyped(t), NEW u, TableTyped(u), NEW x \in Id,
         Grown(t, u, x)
  PROVE  Cardinality(Variables(u)) = Cardinality(Variables(t)) + 1
<1>1. Variables(u) = Variables(t) \cup {Var(x)} /\ Var(x) \notin Variables(t)
  <2>1. ASSUME NEW k \in Variables(u) PROVE k \in Variables(t) \cup {Var(x)}
    <3>1. PICK y \in Id : k = Var(y) /\ Var(y) \in DOMAIN u.syms
      BY VariableKeys
    <3>. QED
      BY <3>1 DEF Grown, Variables
  <2>2. Var(x) \in Variables(u) /\ Var(x) \notin Variables(t)
    BY KeysApart DEF Grown, Variables
  <2>3. ASSUME NEW k \in Variables(t) PROVE k \in Variables(u)
    BY DEF Grown, Variables
  <2>. QED
    BY <2>1, <2>2, <2>3
<1>. DEFINE old == Variables(t)
<1>2. IsFiniteSet(old)
  BY VariablesFinite
<1>. HIDE DEF old
<1>3. Cardinality(old \cup {Var(x)})
        = IF Var(x) \in old THEN Cardinality(old) ELSE Cardinality(old) + 1
  BY <1>2, FS_AddElement
<1>. QED
  BY <1>1, <1>3 DEF old

(* One table grows by a name.                                              *)
LEMMA CountGrown ==
  ASSUME NEW ts, TablesKnown(ts), NEW us, TablesKnown(us),
         DOMAIN us = DOMAIN ts, NEW n \in DOMAIN ts,
         NEW x \in Id, Grown(ts[n], us[n], x),
         \A m \in DOMAIN ts : m # n => us[m] = ts[m]
  PROVE  Count(us) = Count(ts) + 1 /\ Count(ts) \in Int
<1>. DEFINE S == DOMAIN ts
            old == [m \in DOMAIN ts |-> Cardinality(Variables(ts[m]))]
            new == [m \in DOMAIN us |-> Cardinality(Variables(us[m]))]
<1>1. IsFiniteSet(S) /\ \A m \in S : TableTyped(ts[m]) /\ TableTyped(us[m])
  BY DEF TablesKnown
<1>2. /\ \A m \in S : old[m] \in Int /\ new[m] \in Int
      /\ \A m \in S \ {n} : new[m] = old[m]
      /\ new[n] = old[n] + 1
  BY <1>1, VariablesFinite, VariablesGrown
<1>3. /\ Count(ts) = SumFunctionOnSet(old, S)
      /\ Count(us) = SumFunctionOnSet(new, S)
  BY DEF Count, SumFunction
<1>4. n \in S
  OBVIOUS
<1>. HIDE DEF old, new, S
<1>5. SumFunctionOnSet(new, S) = SumFunctionOnSet(old, S) + (new[n] - old[n])
  BY <1>1, <1>2, <1>4, SumChange
<1>6. SumFunctionOnSet(old, S) \in Int
  BY <1>1, <1>2, SumInt
<1>. QED
  BY <1>2, <1>3, <1>4, <1>5, <1>6

(* A new table has no name.                                                *)
LEMMA CountNew ==
  ASSUME NEW ts, TablesKnown(ts), NEW us, NEW n, n \notin DOMAIN ts,
         DOMAIN us = DOMAIN ts \cup {n}, DOMAIN us[n].syms = {},
         \A m \in DOMAIN ts : Variables(us[m]) = Variables(ts[m])
  PROVE  Count(us) = Count(ts)
<1>. DEFINE S == DOMAIN ts
            old == [m \in DOMAIN ts |-> Cardinality(Variables(ts[m]))]
            new == [m \in DOMAIN us |-> Cardinality(Variables(us[m]))]
<1>1. IsFiniteSet(S) /\ n \notin S
  BY DEF TablesKnown
<1>2. Variables(us[n]) = {}
  BY DEF Variables
<1>3. /\ \A m \in S \cup {n} : new[m] \in Int
      /\ \A m \in S : new[m] = old[m] /\ old[m] \in Int
      /\ new[n] = 0
  <2>1. \A m \in S : new[m] = old[m] /\ old[m] \in Int
    BY VariablesFinite DEF TablesKnown
  <2>2. new[n] = 0
    BY <1>2, FS_EmptySet
  <2>. QED
    BY <2>1, <2>2
<1>4. /\ Count(ts) = SumFunctionOnSet(old, S)
      /\ Count(us) = SumFunctionOnSet(new, S \cup {n})
  BY DEF Count, SumFunction
<1>. HIDE DEF old, new, S
<1>5. SumFunctionOnSet(new, S \cup {n}) = SumFunctionOnSet(new, S) + new[n]
  BY <1>1, <1>3, SumAdd
<1>6. SumFunctionOnSet(new, S) = SumFunctionOnSet(old, S)
  BY <1>1, <1>3, SumSame
<1>7. SumFunctionOnSet(old, S) \in Int
  BY <1>1, <1>3, SumInt
<1>. QED
  BY <1>3, <1>4, <1>5, <1>6, <1>7

(* The same tables, but for their sizes.                                   *)
LEMMA CountSame ==
  ASSUME NEW ts, NEW us, DOMAIN us = DOMAIN ts,
         \A m \in DOMAIN ts : Variables(us[m]) = Variables(ts[m])
  PROVE  Count(us) = Count(ts)
<1>1. [m \in DOMAIN us |-> Cardinality(Variables(us[m]))]
        = [m \in DOMAIN ts |-> Cardinality(Variables(ts[m]))]
  OBVIOUS
<1>. QED
  BY <1>1 DEF Count

(* A declaration counts one more in the sum of the lists.                  *)
LEMMA DeclaredMore ==
  ASSUME Walk, NEW list \in DOMAIN MaxNames, Declares(list)
  PROVE  /\ SumFunction(decls') = SumFunction(decls) + 1
         /\ SumFunction(decls) \in Int
<1>. DEFINE S == DOMAIN MaxNames
<1>1. /\ DOMAIN decls = S /\ DOMAIN decls' = S
      /\ \A l \in S : decls[l] \in Int /\ decls'[l] \in Int
      /\ decls'[list] = decls[list] + 1
      /\ \A l \in S \ {list} : decls'[l] = decls[l]
  BY DeclaresEffect DEF Walk
<1>2. IsFiniteSet(S)
  <2>1. S = (({"types"} \cup {"struct"}) \cup {"frame"}) \cup {"functions"}
    BY ListKnown
  <2>2. IsFiniteSet({"types"} \cup {"struct"})
    BY FS_Singleton, FS_AddElement
  <2>3. IsFiniteSet(({"types"} \cup {"struct"}) \cup {"frame"})
    BY <2>2, FS_AddElement
  <2>4. IsFiniteSet((({"types"} \cup {"struct"}) \cup {"frame"}) \cup {"functions"})
    BY <2>3, FS_AddElement
  <2>. QED
    BY <2>1, <2>4
<1>3. /\ SumFunction(decls) = SumFunctionOnSet(decls, S)
      /\ SumFunction(decls') = SumFunctionOnSet(decls', S)
  BY <1>1 DEF SumFunction
<1>4. list \in S
  OBVIOUS
<1>. HIDE DEF S
<1>5. SumFunctionOnSet(decls', S)
        = SumFunctionOnSet(decls, S) + (decls'[list] - decls[list])
  BY <1>1, <1>2, <1>4, SumChange
<1>6. SumFunctionOnSet(decls, S) \in Int
  BY <1>1, <1>2, SumInt
<1>. QED
  BY <1>1, <1>3, <1>4, <1>5, <1>6

(* A rejected declaration keeps the count of the names.                    *)
LEMMA SemErrCounted ==
  ASSUME CInv, SemErr
  PROVE  Named' /\ Counted'
BY DEF CInv, SemErr, Named, Counted, InParams

(* A name declared in the table being filled.                              *)
LEMMA NameCounted ==
  ASSUME CInv, Typed', status = "run", NEW u, NEW x \in Id,
         Grown(tables[current], u, x),
         tables' = [tables EXCEPT ![current] = u],
         UNCHANGED <<current, where, status>>,
         SumFunction(decls) \in Int, SumFunction(decls') = SumFunction(decls) + 1
  PROVE  Named' /\ Counted'
<1>1. /\ current \in DOMAIN tables /\ Global \in DOMAIN tables
      /\ DOMAIN tables' = DOMAIN tables /\ tables'[current] = u
      /\ \A m \in DOMAIN tables : m # current => tables'[m] = tables[m]
  BY DEF CInv, Typed, Walk
<1>2. TablesKnown(tables) /\ TablesKnown(tables')
  BY <1>1 DEF CInv, Typed, Walk, TablesTyped, TablesKnown
<1>3. Count(tables') = Count(tables) + 1 /\ Count(tables) \in Int
  BY <1>1, <1>2, CountGrown
<1>4. \A k \in DOMAIN tables[Global].syms : k \in DOMAIN tables'[Global].syms
  BY <1>1 DEF Grown
<1>5. Named'
  BY <1>1, <1>4 DEF CInv, Named, InParams
<1>6. Counted'
  BY <1>3, <1>4 DEF CInv, Counted
<1>. QED
  BY <1>5, <1>6

(* Declaring a primitive name keeps the count of the names.                *)
LEMMA DeclarePrimCounted ==
  ASSUME CInv, Typed', NEW type \in Prim, NEW x \in Id, DeclarePrim(type, x)
  PROVE  Named' /\ Counted'
<1>1. CASE Defined(x)
  BY <1>1, SemErrCounted DEF DeclarePrim
<1>2. CASE ~ Defined(x)
  <2>. DEFINE t == tables[current]
              u == WithPrim(t, type, x, FALSE)
  <2>1. /\ tables' = [tables EXCEPT ![current] = u] /\ status = "run"
        /\ UNCHANGED <<current, where, status>>
    BY <1>2 DEF DeclarePrim, Declares
  <2>2. TableTyped(t) /\ Var(x) \notin DOMAIN t.syms
    BY <1>2 DEF CInv, Typed, Walk, TablesTyped, Defined
  <2>3. Grown(t, u, x)
    <3>1. FALSE \in BOOLEAN
      OBVIOUS
    <3>. HIDE DEF t
    <3>. QED
      BY <2>2, <3>1, WithPrimGrown
  <2>4. SumFunction(decls) \in Int /\ SumFunction(decls') = SumFunction(decls) + 1
    BY DeclaredMore, ListKnown DEF CInv, Typed, DeclarePrim
  <2>. HIDE DEF u
  <2>. QED
    BY <2>1, <2>3, <2>4, NameCounted
<1>. QED
  BY <1>1, <1>2

(* Declaring a struct variable keeps the count of the names.               *)
LEMMA DeclareStructVarCounted ==
  ASSUME CInv, Typed', NEW s \in StructName, NEW x \in Id, DeclareStructVar(s, x)
  PROVE  Named' /\ Counted'
<1>1. CASE Defined(x) \/ StructTable(s) \notin DOMAIN tables
  BY <1>1, SemErrCounted DEF DeclareStructVar
<1>2. CASE ~ Defined(x) /\ StructTable(s) \in DOMAIN tables
  <2>. DEFINE t == tables[current]
              st == tables[StructTable(s)]
              u == WithStruct(t, s, st, x, where)
  <2>1. /\ tables' = [tables EXCEPT ![current] = u] /\ status = "run"
        /\ UNCHANGED <<current, where, status>> /\ where \in {"types", "locals"}
    BY <1>2 DEF DeclareStructVar, Declares
  <2>2. /\ TableTyped(t) /\ Var(x) \notin DOMAIN t.syms
        /\ TableTyped(st) /\ PlainFields(st)
    BY <1>2 DEF CInv, Typed, Walk, TablesTyped, Defined
  <2>3. Grown(t, u, x)
    <3>. HIDE DEF t, st
    <3>. QED
      BY <2>1, <2>2, WithStructGrown
  <2>4. SumFunction(decls) \in Int /\ SumFunction(decls') = SumFunction(decls) + 1
    BY DeclaredMore, ListKnown DEF CInv, Typed, DeclareStructVar
  <2>. HIDE DEF u
  <2>. QED
    BY <2>1, <2>3, <2>4, NameCounted
<1>. QED
  BY <1>1, <1>2

(* Declaring a parameter keeps the count of the names.                     *)
LEMMA DeclareParamCounted ==
  ASSUME CInv, Typed', NEW type \in Prim \cup StructName, NEW x \in Id,
         DeclareParam(type, x)
  PROVE  Named' /\ Counted'
<1>1. CASE SemErr
  BY <1>1, SemErrCounted
<1>2. CASE ~ SemErr
  <2>. DEFINE t == tables[current]
              st == tables[StructTable(type)]
              u == IF type \in Prim THEN WithPrim(t, type, x, TRUE)
                   ELSE WithStruct(t, type, st, x, where)
  <2>1. /\ ~ Defined(x) /\ status = "run" /\ where = "params"
        /\ type \in Prim \/ StructTable(type) \in DOMAIN tables
        /\ tables' = [tables EXCEPT ![current] = u]
        /\ UNCHANGED <<current, where, status>>
    BY <1>2 DEF DeclareParam, Declares
  <2>2. TableTyped(t) /\ Var(x) \notin DOMAIN t.syms
    BY <2>1 DEF CInv, Typed, Walk, TablesTyped, Defined
  <2>3. Grown(t, u, x)
    <3>1. CASE type \in Prim
      <4>1. TRUE \in BOOLEAN
        OBVIOUS
      <4>. HIDE DEF t
      <4>2. Grown(t, WithPrim(t, type, x, TRUE), x)
        BY <2>2, <3>1, <4>1, WithPrimGrown
      <4>. QED
        BY <3>1, <4>2
    <3>2. CASE type \notin Prim
      <4>1. type \in StructName /\ TableTyped(st) /\ PlainFields(st)
        BY <2>1, <3>2 DEF CInv, Typed, TablesTyped
      <4>. HIDE DEF t, st
      <4>2. Grown(t, WithStruct(t, type, st, x, where), x)
        BY <2>1, <2>2, <4>1, WithStructGrown
      <4>. QED
        BY <3>2, <4>2
    <3>. QED
      BY <3>1, <3>2
  <2>4. SumFunction(decls) \in Int /\ SumFunction(decls') = SumFunction(decls) + 1
    BY DeclaredMore, ListKnown DEF CInv, Typed, DeclareParam
  <2>. HIDE DEF u
  <2>. QED
    BY <2>1, <2>3, <2>4, NameCounted
<1>. QED
  BY <1>1, <1>2

(* A name bound in the global table.                                       *)
WithName(t, x, data) == [t EXCEPT !.syms = Bind(@, Var(x), data)]

(* A struct's or a function's name is a new name of the global table.      *)
LEMMA WithNameGrown ==
  ASSUME NEW t, TableTyped(t), NEW x \in Id, NEW data \in NamedData,
         Var(x) \notin DOMAIN t.syms
  PROVE  TableTyped(WithName(t, x, data)) /\ Grown(t, WithName(t, x, data), x)
<1>. DEFINE u == WithName(t, x, data)
<1>1. u = [t EXCEPT !.syms = Bind(@, Var(x), data)]
  BY DEF WithName
<1>2. /\ TableTyped(u)
      /\ DOMAIN u.syms = DOMAIN t.syms \cup {Var(x)}
      /\ u.syms[Var(x)] = data
      /\ \A k \in DOMAIN t.syms : k # Var(x) /\ u.syms[k] = t.syms[k]
      /\ u.max_offset = t.max_offset
  <2>. HIDE DEF u
  <2>. QED
    BY <1>1, NamedTyped
<1>. HIDE DEF u
<1>3. Grown(t, u, x)
  BY <1>2, KeysApart DEF Grown
<1>. QED
  BY <1>2, <1>3 DEF u

(* Opening a struct type keeps the count of the names.                     *)
LEMMA BeginStructCounted ==
  ASSUME CInv, Typed', NEW s \in StructName, BeginStruct(s)
  PROVE  Named' /\ Counted'
<1>1. where = "types" /\ current = Global /\ status = "run"
  BY DEF CInv, Typed, Walk, BeginStruct, Declares
<1>2. CASE Defined(s)
  BY <1>2, SemErrCounted DEF BeginStruct
<1>3. CASE ~ Defined(s)
  <2>. DEFINE old == tables[Global]
              data == Data("declstruct", s, 0)
              g == WithName(old, s, data)
              ts == [tables EXCEPT ![Global] = g]
              n == StructTable(s)
  <2>1. PICK t \in FreshTables : tables' = Bind(ts, n, t)
    BY <1>3 DEF BeginStruct, WithName
  <2>2. current' = n /\ where' = "struct" /\ UNCHANGED status
    BY <1>3 DEF BeginStruct
  <2>3. s \in Id /\ data \in NamedData
    BY NamesAssumption DEF Data, NamedData
  <2>4. TableTyped(old) /\ Var(s) \notin DOMAIN old.syms
    BY <1>1, <1>3 DEF CInv, Typed, Walk, TablesTyped, Defined
  <2>5. n \notin DOMAIN tables
    BY <2>4 DEF CInv, Named
  <2>6. TableTyped(g) /\ Grown(old, g, s)
    <3>. HIDE DEF old, data
    <3>. QED
      BY <2>3, <2>4, WithNameGrown
  <2>. HIDE DEF g, data
  <2>7. /\ Global \in DOMAIN tables /\ DOMAIN ts = DOMAIN tables
        /\ ts[Global] = g
        /\ \A m \in DOMAIN tables : m # Global => ts[m] = tables[m]
    BY DEF CInv, Typed, Walk
  <2>8. TablesKnown(tables) /\ TablesKnown(ts)
    BY <2>6, <2>7 DEF CInv, Typed, Walk, TablesTyped, TablesKnown
  <2>. HIDE DEF ts
  <2>9. Count(ts) = Count(tables) + 1 /\ Count(tables) \in Int
    BY <2>3, <2>6, <2>7, <2>8, CountGrown
  <2>10. /\ DOMAIN tables' = DOMAIN ts \cup {n}
         /\ tables'[n] = t /\ n \notin DOMAIN ts
         /\ \A m \in DOMAIN ts : tables'[m] = ts[m]
    BY <2>1, <2>5, <2>7 DEF Bind
  <2>11. Count(tables') = Count(ts)
    BY <2>8, <2>10, FreshEffect, CountNew
  <2>12. SumFunction(decls) \in Int /\ SumFunction(decls') = SumFunction(decls) + 1
    BY DeclaredMore, ListKnown DEF CInv, Typed, BeginStruct
  <2>13. Named'
    <3>1. /\ Var(s) \in DOMAIN tables'[Global].syms
          /\ \A k \in DOMAIN old.syms : k \in DOMAIN tables'[Global].syms
      BY <2>6, <2>7, <2>10 DEF Grown
    <3>2. \A f \in Fun : ~ InParams(f) /\ ~ InParams(f)'
      BY <1>1, <2>2 DEF InParams
    <3>. QED
      BY <2>7, <2>10, <3>1, <3>2, NamesApart DEF CInv, Named
  <2>14. Counted'
    BY <1>1, <2>2, <2>9, <2>11, <2>12 DEF CInv, Counted
  <2>. QED
    BY <2>13, <2>14
<1>. QED
  BY <1>2, <1>3

(* The head of a function keeps the count of the names.                    *)
LEMMA BeginFunctionCounted ==
  ASSUME CInv, Typed', NEW f \in Fun, NEW ret \in Returns, BeginFunction(f, ret)
  PROVE  Named' /\ Counted'
<1>. DEFINE n == FuncTable(f)
<1>1. PICK t \in FreshTables :
        tables' = Bind(tables, n, FunTable(t))
  BY DEF BeginFunction, FunTable
<1>2. /\ current' = n /\ where' = "params" /\ where \in {"types", "functions"}
      /\ status = "run" /\ UNCHANGED status
  BY DEF BeginFunction, Declares
<1>. DEFINE u == FunTable(t)
<1>3. DOMAIN u.syms = {}
  <2>1. TableTyped(t) /\ DOMAIN t.syms = {}
    BY FreshEffect
  <2>2. IsTable(t)
    BY <2>1 DEF TableTyped, IsTable
  <2>. QED
    BY <2>1, <2>2, FunTableEffect
<1>. HIDE DEF u
<1>4. /\ DOMAIN tables' = DOMAIN tables \cup {n}
      /\ n # Global /\ Global \in DOMAIN tables
      /\ tables'[n] = u
      /\ \A m \in DOMAIN tables : m # n => tables'[m] = tables[m]
  BY <1>1, NamesApart DEF Bind, CInv, Typed, Walk, u
<1>5. SumFunction(decls) \in Int /\ SumFunction(decls') = SumFunction(decls) + 1
  BY DeclaredMore, ListKnown DEF CInv, Typed, BeginFunction
<1>6. \A g \in Fun : ~ InParams(g) /\ (InParams(g)' <=> g = f)
  BY <1>2, NamesApart DEF InParams
<1>7. Named'
  <2>1. tables'[Global] = tables[Global]
    BY <1>4
  <2>2. \A g \in Fun : FuncTable(g) = n => g = f
    BY NamesApart
  <2>3. \A s \in StructName : StructTable(s) # n
    BY NamesApart
  <2>. QED
    BY <1>4, <1>6, <2>1, <2>2, <2>3 DEF CInv, Named
<1>8. current'[2] = f
  BY <1>2, NamesApart
<1>9. CASE n \in DOMAIN tables
  <2>1. Var(f) \in DOMAIN tables'[Global].syms
    BY <1>4, <1>6, <1>9 DEF CInv, Named
  <2>. QED
    BY <1>2, <1>7, <1>8, <2>1 DEF Counted
<1>10. CASE n \notin DOMAIN tables
  <2>1. TablesKnown(tables)
    BY DEF CInv, Typed, Walk, TablesTyped, TablesKnown
  <2>2. \A m \in DOMAIN tables : tables'[m] = tables[m]
    BY <1>4, <1>10
  <2>3. Count(tables') = Count(tables)
    BY <1>3, <1>4, <1>10, <2>1, <2>2, CountNew
  <2>4. SumFunction(decls') = Count(tables') + 1
    BY <1>2, <1>5, <2>3 DEF CInv, Counted
  <2>. QED
    BY <1>2, <1>7, <2>4 DEF Counted
<1>. QED
  BY <1>9, <1>10

(* The function's symbol in the global table.                              *)
LEMMA FunctionCounted ==
  ASSUME NEW ts, TablesKnown(ts), NEW f \in Fun, Global \in DOMAIN ts,
         Var(f) \notin DOMAIN ts[Global].syms, ts = [n \in DOMAIN ts |-> ts[n]],
         NEW us, us = WithFunction(ts, f)
  PROVE  /\ Count(us) = Count(ts) + 1 /\ Count(ts) \in Int
         /\ DOMAIN us = DOMAIN ts
         /\ Var(f) \in DOMAIN us[Global].syms
         /\ \A k \in DOMAIN ts[Global].syms : k \in DOMAIN us[Global].syms
<1>1. TableTyped(ts[Global])
  BY DEF TablesKnown
<1>2. /\ DOMAIN us = DOMAIN ts
      /\ \A n \in DOMAIN ts : n # Global => us[n] = ts[n]
      /\ TableTyped(us[Global])
      /\ DOMAIN us[Global].syms = DOMAIN ts[Global].syms \cup {Var(f)}
      /\ \A k \in DOMAIN ts[Global].syms :
            k # Var(f) /\ us[Global].syms[k] = ts[Global].syms[k]
  BY <1>1, WithFunctionTyped
<1>3. Grown(ts[Global], us[Global], f)
  BY <1>2, KeysApart DEF Grown
<1>4. TablesKnown(us) /\ f \in Id
  BY <1>2, NamesAssumption DEF TablesKnown
<1>5. Count(us) = Count(ts) + 1 /\ Count(ts) \in Int
  BY <1>2, <1>3, <1>4, CountGrown
<1>. QED
  BY <1>2, <1>5

(* The head of a void function keeps the count of the names.               *)
LEMMA BeginVoidFunctionCounted ==
  ASSUME CInv, Typed', NEW f \in Fun, NEW ret \in Returns,
         BeginVoidFunction(f, ret)
  PROVE  Named' /\ Counted'
<1>. DEFINE n == FuncTable(f)
<1>1. CASE Var(f) \in DOMAIN tables[Global].syms
  BY <1>1, SemErrCounted DEF BeginVoidFunction
<1>2. CASE Var(f) \notin DOMAIN tables[Global].syms
  <2>1. PICK t \in FreshTables :
          tables' = WithFunction(Bind(tables, n, t), f)
    BY <1>2 DEF BeginVoidFunction
  <2>2. /\ current' = n /\ where' = "locals" /\ where \in {"types", "functions"}
        /\ status = "run" /\ UNCHANGED status
    BY <1>2 DEF BeginVoidFunction, Declares
  <2>3. /\ n # Global /\ n \notin DOMAIN tables /\ Global \in DOMAIN tables
    BY <1>2, <2>2, NamesApart DEF CInv, Typed, Walk, Named, InParams
  <2>. DEFINE us == Bind(tables, n, t)
  <2>4. /\ DOMAIN us = DOMAIN tables \cup {n} /\ us[n] = t
        /\ \A m \in DOMAIN tables : us[m] = tables[m]
        /\ us = [m \in DOMAIN us |-> us[m]]
        /\ tables' = WithFunction(us, f)
    BY <2>1, <2>3 DEF Bind
  <2>. HIDE DEF us
  <2>5. DOMAIN t.syms = {} /\ TableTyped(t)
    BY FreshEffect
  <2>6. TablesKnown(tables) /\ TablesKnown(us)
    <3>1. TablesKnown(tables)
      BY DEF CInv, Typed, Walk, TablesTyped, TablesKnown
    <3>. QED
      BY <2>4, <2>5, <3>1, FS_AddElement DEF TablesKnown
  <2>7. Count(us) = Count(tables)
    <3>1. \A m \in DOMAIN tables : Variables(us[m]) = Variables(tables[m])
      BY <2>4
    <3>. QED
      BY <2>3, <2>4, <2>5, <2>6, <3>1, CountNew
  <2>8. /\ Count(tables') = Count(us) + 1 /\ Count(us) \in Int
        /\ DOMAIN tables' = DOMAIN us
        /\ Var(f) \in DOMAIN tables'[Global].syms
        /\ \A k \in DOMAIN us[Global].syms : k \in DOMAIN tables'[Global].syms
    <3>1. Global \in DOMAIN us /\ Var(f) \notin DOMAIN us[Global].syms
      BY <1>2, <2>3, <2>4
    <3>. QED
      BY <2>4, <2>6, <3>1, FunctionCounted
  <2>9. SumFunction(decls) \in Int /\ SumFunction(decls') = SumFunction(decls) + 1
    BY DeclaredMore, ListKnown DEF CInv, Typed, BeginVoidFunction
  <2>10. Counted'
    BY <2>2, <2>7, <2>8, <2>9 DEF CInv, Counted
  <2>11. Named'
    <3>1. \A g \in Fun : ~ InParams(g) /\ ~ InParams(g)'
      BY <2>2 DEF InParams
    <3>2. \A g \in Fun : FuncTable(g) = n => g = f
      BY NamesApart
    <3>3. \A s \in StructName : StructTable(s) # n
      BY NamesApart
    <3>4. \A k \in DOMAIN tables[Global].syms : k \in DOMAIN tables'[Global].syms
      BY <2>3, <2>4, <2>8
    <3>. QED
      BY <2>4, <2>8, <3>1, <3>2, <3>3, <3>4 DEF CInv, Named
  <2>. QED
    BY <2>10, <2>11
<1>. QED
  BY <1>1, <1>2

(* The end of a parameter list keeps the count of the names.               *)
LEMMA EndParamsCounted ==
  ASSUME CInv, Typed', EndParams
  PROVE  Named' /\ Counted'
<1>1. where = "params" /\ status = "run" /\ UNCHANGED decls
  BY DEF EndParams
<1>2. PICK f \in Fun : current = FuncTable(f)
  BY <1>1 DEF CInv, Typed, Walk
<1>. DEFINE n == current
            t == tables[n]
            v == [t EXCEPT !.max_offset = 0]
<1>3. /\ f = current[2] /\ n # Global
      /\ n \in DOMAIN tables /\ Global \in DOMAIN tables
  BY <1>2, NamesApart DEF CInv, Typed, Walk
<1>4. CASE Var(f) \in DOMAIN tables[Global].syms
  <2>1. SemErr
    BY <1>3, <1>4 DEF EndParams
  <2>. QED
    BY <2>1, SemErrCounted
<1>5. CASE Var(f) \notin DOMAIN tables[Global].syms
  <2>. DEFINE us == [tables EXCEPT ![n] = v]
  <2>1. /\ tables' = WithFunction(us, f)
        /\ where' = "locals" /\ UNCHANGED <<current, status>>
    BY <1>3, <1>5 DEF EndParams
  <2>2. TableTyped(t)
    BY <1>3 DEF CInv, Typed, TablesTyped
  <2>3. TableTyped(v) /\ Variables(v) = Variables(t)
    <3>. HIDE DEF t
    <3>. QED
      BY <2>2 DEF TableTyped, Variables
  <2>. HIDE DEF v
  <2>4. /\ DOMAIN us = DOMAIN tables /\ us[n] = v
        /\ \A m \in DOMAIN tables : m # n => us[m] = tables[m]
        /\ us = [m \in DOMAIN us |-> us[m]]
    BY <1>3
  <2>. HIDE DEF us
  <2>5. TablesKnown(us)
    BY <2>3, <2>4 DEF CInv, Typed, Walk, TablesTyped, TablesKnown
  <2>6. Count(us) = Count(tables)
    <3>1. \A m \in DOMAIN tables : Variables(us[m]) = Variables(tables[m])
      BY <2>3, <2>4
    <3>. QED
      BY <2>4, <3>1, CountSame
  <2>7. /\ Count(tables') = Count(us) + 1 /\ Count(us) \in Int
        /\ DOMAIN tables' = DOMAIN us
        /\ Var(f) \in DOMAIN tables'[Global].syms
        /\ \A k \in DOMAIN us[Global].syms : k \in DOMAIN tables'[Global].syms
    <3>1. Global \in DOMAIN us /\ us[Global] = tables[Global]
      BY <1>3, <2>4
    <3>. QED
      BY <1>5, <2>1, <2>4, <2>5, <3>1, FunctionCounted
  <2>8. Counted'
    <3>1. SumFunction(decls) = Count(tables) + 1
      BY <1>1, <1>3, <1>5 DEF CInv, Counted
    <3>. QED
      BY <1>1, <2>1, <2>6, <2>7, <3>1 DEF Counted
  <2>9. Named'
    <3>1. \A g \in Fun : ~ InParams(g)' /\ (InParams(g) => g = f)
      BY <1>2, <2>1, NamesApart DEF InParams
    <3>2. \A k \in DOMAIN tables[Global].syms : k \in DOMAIN tables'[Global].syms
      BY <1>3, <2>4, <2>7
    <3>. QED
      BY <2>4, <2>7, <3>1, <3>2 DEF CInv, Named
  <2>. QED
    BY <2>8, <2>9
<1>. QED
  BY <1>4, <1>5

(* The steps that declare nothing.                                         *)
LEMMA EndCounted ==
  ASSUME CInv, EndStruct \/ EndFunction \/ Finish \/ UNCHANGED vars
  PROVE  Named' /\ Counted'
<1>1. CASE EndStruct
  BY <1>1 DEF EndStruct, CInv, Named, Counted, InParams
<1>2. CASE EndFunction
  BY <1>2 DEF EndFunction, CInv, Named, Counted, InParams
<1>3. CASE Finish
  BY <1>3 DEF Finish, CInv, Named, Counted, InParams
<1>4. CASE UNCHANGED vars
  BY <1>4 DEF vars, CInv, Named, Counted, InParams
<1>. QED
  BY <1>1, <1>2, <1>3, <1>4

(* The empty global table has the count of the invariant.                  *)
LEMMA InitCounted ==
  ASSUME Init
  PROVE  Named /\ Counted
<1>1. PICK t \in FreshTables : tables = [n \in {Global} |-> t]
  BY DEF Init
<1>2. /\ where = "types" /\ DOMAIN tables = {Global} /\ tables[Global] = t
      /\ DOMAIN decls = DOMAIN MaxNames /\ \A l \in DOMAIN decls : decls[l] = 0
  BY <1>1 DEF Init
<1>3. Named
  BY <1>2, NamesApart DEF Named
<1>4. Count(tables) = 0
  <2>. DEFINE new == [n \in DOMAIN tables |-> Cardinality(Variables(tables[n]))]
  <2>1. Variables(t) = {}
    BY FreshEffect DEF Variables
  <2>2. new[Global] = 0 /\ DOMAIN new = {} \cup {Global}
    BY <1>2, <2>1, FS_EmptySet
  <2>3. Count(tables) = SumFunctionOnSet(new, {} \cup {Global})
    BY <2>2 DEF Count, SumFunction
  <2>. HIDE DEF new
  <2>4. SumFunctionOnSet(new, {} \cup {Global})
          = SumFunctionOnSet(new, {}) + new[Global]
    BY <2>2, FS_EmptySet, SumAdd
  <2>. QED
    BY <2>2, <2>3, <2>4, SumEmpty
<1>5. SumFunction(decls) = 0
  <2>. DEFINE S == DOMAIN decls
  <2>1. S = (({"types"} \cup {"struct"}) \cup {"frame"}) \cup {"functions"}
    BY <1>2, BoundAssumption
  <2>2. \A l \in S : decls[l] = 0
    BY <1>2
  <2>3. SumFunction(decls) = SumFunctionOnSet(decls, S)
    BY DEF SumFunction
  <2>. HIDE DEF S
  <2>4. IsFiniteSet({}) /\ SumFunctionOnSet(decls, {}) = 0
    BY FS_EmptySet, SumEmpty
  <2>5. ASSUME NEW T, IsFiniteSet(T), SumFunctionOnSet(decls, T) = 0, NEW l,
               l \notin T, T \cup {l} \subseteq S
        PROVE  IsFiniteSet(T \cup {l}) /\ SumFunctionOnSet(decls, T \cup {l}) = 0
    <3>1. IsFiniteSet(T \cup {l})
      BY <2>5, FS_AddElement
    <3>2. \A y \in T \cup {l} : decls[y] \in Int
      BY <2>2, <2>5
    <3>3. SumFunctionOnSet(decls, T \cup {l})
            = SumFunctionOnSet(decls, T) + decls[l]
      BY <2>5, <3>2, SumAdd
    <3>4. decls[l] = 0
      BY <2>2, <2>5
    <3>. QED
      BY <2>5, <3>1, <3>3, <3>4
  <2>6. {} \cup {"types"} \subseteq S /\ "types" \notin {}
    BY <2>1
  <2>7. /\ IsFiniteSet({} \cup {"types"})
        /\ SumFunctionOnSet(decls, {} \cup {"types"}) = 0
    BY <2>4, <2>5, <2>6
  <2>. DEFINE one == {} \cup {"types"}
              two == one \cup {"struct"}
              three == two \cup {"frame"}
              four == three \cup {"functions"}
  <2>8. /\ two \subseteq S /\ three \subseteq S /\ four = S
        /\ "struct" \notin one /\ "frame" \notin two /\ "functions" \notin three
    BY <2>1
  <2>. HIDE DEF one
  <2>9. IsFiniteSet(two) /\ SumFunctionOnSet(decls, two) = 0
    BY <2>5, <2>7, <2>8 DEF one
  <2>. HIDE DEF two
  <2>10. IsFiniteSet(three) /\ SumFunctionOnSet(decls, three) = 0
    BY <2>5, <2>8, <2>9
  <2>. HIDE DEF three
  <2>11. SumFunctionOnSet(decls, four) = 0
    BY <2>5, <2>8, <2>10
  <2>. QED
    BY <2>3, <2>8, <2>11
<1>6. Counted
  BY <1>2, <1>4, <1>5 DEF Counted
<1>. QED
  BY <1>3, <1>6

(* Every action keeps the count of the names.                              *)
LEMMA NextCounted ==
  ASSUME CInv, [Next]_vars
  PROVE  CInv'
<1>1. Typed'
  BY NextTyped DEF CInv
<1>2. Named' /\ Counted'
  <2>1. ASSUME NEW type \in Prim, NEW x \in Id, DeclarePrim(type, x)
        PROVE  Named' /\ Counted'
    BY <1>1, <2>1, DeclarePrimCounted
  <2>2. ASSUME NEW s \in StructName, NEW x \in Id, DeclareStructVar(s, x)
        PROVE  Named' /\ Counted'
    BY <1>1, <2>2, DeclareStructVarCounted
  <2>3. ASSUME NEW s \in StructName, BeginStruct(s)
        PROVE  Named' /\ Counted'
    BY <1>1, <2>3, BeginStructCounted
  <2>4. ASSUME NEW f \in Fun, NEW ret \in Returns,
               BeginFunction(f, ret) \/ BeginVoidFunction(f, ret)
        PROVE  Named' /\ Counted'
    BY <1>1, <2>4, BeginFunctionCounted, BeginVoidFunctionCounted
  <2>5. ASSUME NEW type \in Prim \cup StructName, NEW x \in Id,
               DeclareParam(type, x)
        PROVE  Named' /\ Counted'
    BY <1>1, <2>5, DeclareParamCounted
  <2>6. CASE EndParams
    BY <1>1, <2>6, EndParamsCounted
  <2>7. CASE EndStruct \/ EndFunction \/ Finish \/ UNCHANGED vars
    BY <2>7, EndCounted
  <2>. QED
    BY <2>1, <2>2, <2>3, <2>4, <2>5, <2>6, <2>7 DEF Next
<1>. QED
  BY <1>1, <1>2 DEF CInv

(* Every name of a program that create_table accepts has a symbol of its   *)
(* own: a second declaration in the same scope is never silently taken,    *)
(* whatever malloc returns.                                                *)
THEOREM EveryNameKept == Spec => []NoSilentRedefinition
<1>1. Init => CInv
  BY InitTyped, InitCounted DEF CInv
<1>2. CInv /\ [Next]_vars => CInv'
  BY NextCounted
<1>3. CInv => NoSilentRedefinition
  <2>. SUFFICES ASSUME CInv, status = "done"
                PROVE  SumFunction(decls) = Count(tables)
    BY DEF NoSilentRedefinition, Count
  <2>1. where # "params"
    BY DEF CInv, Counted
  <2>. QED
    BY <2>1 DEF CInv, Counted
<1>. QED
  BY <1>1, <1>2, <1>3, PTL DEF Spec

-----------------------------------------------------------------------------
(* Assignments.                                                            *)

(* Every field of its type has a symbol, for every struct variable: the    *)
(* converse of FieldsOK, which places the symbols that are there.          *)

FieldsThere(ts, t) ==
  \A x \in Id : Var(x) \in DOMAIN t.syms /\ t.syms[Var(x)].kind = "struct" =>
    \A f \in Id : Var(f) \in DOMAIN ts[StructTable(t.syms[Var(x)].type)].syms
                    => Field(x, f) \in DOMAIN t.syms

Complete == \A n \in DOMAIN tables : FieldsThere(tables, tables[n])

(* No struct variable of u is new, and no symbol of t is lost.             *)
NoNewStruct(t, u) ==
  /\ DOMAIN t.syms \subseteq DOMAIN u.syms
  /\ \A x \in Id : Var(x) \in DOMAIN u.syms /\ u.syms[Var(x)].kind = "struct"
       => Var(x) \in DOMAIN t.syms /\ t.syms[Var(x)] = u.syms[Var(x)]

(* A step leaves the declared struct types alone, and every table as it    *)
(* was, empty, without a new struct variable, or with all its fields.      *)
TableKept(n) ==
  \/ DOMAIN tables'[n].syms = {}
  \/ n \in DOMAIN tables /\ NoNewStruct(tables[n], tables'[n])
  \/ KnownVars(tables'[n], ClosedStructs) /\ FieldsThere(tables, tables'[n])

StructsKept ==
  \A s \in ClosedStructs : tables'[StructTable(s)] = tables[StructTable(s)]

(* Such a step keeps the tables complete.                                  *)
LEMMA CompleteKept ==
  ASSUME Placed, Complete, StructsKept, \A n \in DOMAIN tables' : TableKept(n)
  PROVE  Complete'
<1>. SUFFICES ASSUME NEW n \in DOMAIN tables', NEW x \in Id,
                     Var(x) \in DOMAIN tables'[n].syms,
                     tables'[n].syms[Var(x)].kind = "struct",
                     NEW f \in Id,
                     Var(f) \in DOMAIN tables'[StructTable(tables'[n].syms[Var(x)].type)].syms
              PROVE  Field(x, f) \in DOMAIN tables'[n].syms
  BY DEF Complete, FieldsThere
<1>. DEFINE u == tables'[n]
            s == u.syms[Var(x)].type
<1>1. DOMAIN u.syms # {}
  OBVIOUS
<1>2. CASE n \in DOMAIN tables /\ NoNewStruct(tables[n], tables'[n])
  <2>. DEFINE t == tables[n]
  <2>1. /\ Var(x) \in DOMAIN t.syms /\ t.syms[Var(x)] = u.syms[Var(x)]
        /\ DOMAIN t.syms \subseteq DOMAIN u.syms
    BY <1>2 DEF NoNewStruct
  <2>2. KnownVars(t, ClosedStructs) /\ FieldsThere(tables, t)
    BY <1>2 DEF Placed, KnownStructs, Complete
  <2>3. s \in ClosedStructs
    BY <2>1, <2>2 DEF KnownVars
  <2>4. Var(f) \in DOMAIN tables[StructTable(s)].syms
    BY <2>3 DEF StructsKept
  <2>. HIDE DEF t
  <2>5. Field(x, f) \in DOMAIN t.syms
    BY <2>1, <2>2, <2>4 DEF FieldsThere
  <2>. QED
    BY <2>1, <2>5
<1>3. CASE KnownVars(u, ClosedStructs) /\ FieldsThere(tables, u)
  <2>1. s \in ClosedStructs
    BY <1>3 DEF KnownVars
  <2>2. Var(f) \in DOMAIN tables[StructTable(s)].syms
    BY <2>1 DEF StructsKept
  <2>. QED
    BY <1>3, <2>2 DEF FieldsThere
<1>. QED
  BY <1>1, <1>2, <1>3 DEF TableKept

(* Tables that do not change are as complete as they were.                 *)
LEMMA SameComplete ==
  ASSUME Complete, UNCHANGED tables
  PROVE  Complete'
BY DEF Complete, FieldsThere

(* The table being filled is replaced by a complete one.                   *)
LEMMA UpdateComplete ==
  ASSUME Typed, Placed, Complete, NEW u, tables' = [tables EXCEPT ![current] = u],
         \/ NoNewStruct(tables[current], u)
         \/ KnownVars(u, ClosedStructs) /\ FieldsThere(tables, u)
  PROVE  Complete'
<1>1. /\ current \in DOMAIN tables /\ DOMAIN tables' = DOMAIN tables
      /\ tables'[current] = u
      /\ \A n \in DOMAIN tables : n # current => tables'[n] = tables[n]
  BY DEF Typed, Walk
<1>2. StructsKept
  BY <1>1 DEF StructsKept, ClosedStructs
<1>3. ASSUME NEW n \in DOMAIN tables'
      PROVE  TableKept(n)
  BY <1>1, <1>3 DEF TableKept, NoNewStruct
<1>. QED
  BY <1>2, <1>3, CompleteKept

(* A primitive variable is not a struct variable.                          *)
LEMMA PrimNoNewStruct ==
  ASSUME NEW t, TableTyped(t), NEW type \in Prim, NEW x \in Id,
         NEW param \in BOOLEAN, Var(x) \notin DOMAIN t.syms
  PROVE  NoNewStruct(t, WithPrim(t, type, x, param))
<1>. DEFINE u == WithPrim(t, type, x, param)
            offset == IF param THEN -t.max_offset - 16 ELSE t.max_offset
<1>1. /\ DOMAIN u.syms = DOMAIN t.syms \cup {Var(x)}
      /\ u.syms[Var(x)] = Data("prim", type, offset)
      /\ \A k \in DOMAIN t.syms : k # Var(x) /\ u.syms[k] = t.syms[k]
  BY WithPrimEffect
<1>2. u.syms[Var(x)].kind # "struct"
  BY <1>1 DEF Data
<1>. HIDE DEF u
<1>3. NoNewStruct(t, u)
  BY <1>1, <1>2 DEF NoNewStruct
<1>. QED
  BY <1>3 DEF u

(* A struct variable comes with all the fields of its type.                *)
LEMMA StructFieldsThere ==
  ASSUME Typed, Placed, NEW t, TableTyped(t), KnownVars(t, ClosedStructs),
         FieldsThere(tables, t), NEW s \in ClosedStructs, NEW x \in Id,
         NEW scope \in {"types", "params", "locals"},
         Var(x) \notin DOMAIN t.syms
  PROVE  LET u == WithStruct(t, s, tables[StructTable(s)], x, scope) IN
         KnownVars(u, ClosedStructs) /\ FieldsThere(tables, u)
<1>. DEFINE st == tables[StructTable(s)]
            u == WithStruct(t, s, st, x, scope)
            offset == IF scope = "params" THEN -t.max_offset - 16 ELSE t.max_offset
<1>1. TableTyped(st) /\ PlainFields(st) /\ s \in StructName
  BY ClosedStructsOK
<1>2. /\ Grown(t, u, x)
      /\ u.syms[Var(x)] = Data("struct", s, offset)
      /\ \A f \in Id : Var(f) \in DOMAIN st.syms => Field(x, f) \in DOMAIN u.syms
  <2>. HIDE DEF st
  <2>. QED
    BY <1>1, WithStructGrown, WithStructEffect
<1>3. u.syms[Var(x)].type = s
  BY <1>2 DEF Data
<1>. HIDE DEF u
<1>4. KnownVars(u, ClosedStructs)
  BY <1>2, <1>3 DEF KnownVars, Grown
<1>5. FieldsThere(tables, u)
  BY <1>2, <1>3 DEF FieldsThere, Grown
<1>. QED
  BY <1>4, <1>5 DEF u

(* Declaring a variable keeps the tables complete.                         *)
LEMMA DeclareComplete ==
  ASSUME Typed, Placed, Complete,
         \/ \E type \in Prim, x \in Id : DeclarePrim(type, x)
         \/ \E s \in StructName, x \in Id : DeclareStructVar(s, x)
         \/ \E type \in Prim \cup StructName, x \in Id : DeclareParam(type, x)
  PROVE  Complete'
<1>. DEFINE t == tables[current]
<1>1. /\ TableTyped(t) /\ KnownVars(t, ClosedStructs) /\ FieldsThere(tables, t)
  BY DEF Typed, Walk, TablesTyped, Placed, KnownStructs, Complete
<1>2. CASE UNCHANGED tables
  BY <1>2, SameComplete
<1>3. ASSUME NEW type \in Prim, NEW x \in Id, NEW param \in BOOLEAN,
             ~ Defined(x),
             tables' = [tables EXCEPT ![current] = WithPrim(t, type, x, param)]
      PROVE  Complete'
  <2>1. Var(x) \notin DOMAIN t.syms
    BY <1>3 DEF Defined
  <2>. HIDE DEF t
  <2>2. NoNewStruct(t, WithPrim(t, type, x, param))
    BY <1>1, <2>1, PrimNoNewStruct
  <2>. QED
    BY <1>3, <2>2, UpdateComplete DEF t
<1>4. ASSUME NEW s \in StructName, NEW x \in Id,
             where \in {"types", "params", "locals"},
             ~ Defined(x), StructTable(s) \in DOMAIN tables,
             tables' = [tables EXCEPT ![current] =
                          WithStruct(t, s, tables[StructTable(s)], x, where)]
      PROVE  Complete'
  <2>1. Var(x) \notin DOMAIN t.syms
    BY <1>4 DEF Defined
  <2>2. s \in ClosedStructs
    BY <1>4, NamesApart DEF ClosedStructs, Typed, Walk
  <2>. DEFINE u == WithStruct(t, s, tables[StructTable(s)], x, where)
  <2>3. KnownVars(u, ClosedStructs) /\ FieldsThere(tables, u)
    <3>. HIDE DEF t
    <3>. QED
      BY <1>1, <1>4, <2>1, <2>2, StructFieldsThere
  <2>4. tables' = [tables EXCEPT ![current] = u]
    BY <1>4
  <2>. HIDE DEF u
  <2>. QED
    BY <2>3, <2>4, UpdateComplete
<1>5. ASSUME NEW type \in Prim, NEW x \in Id, DeclarePrim(type, x)
      PROVE  Complete'
  <2>1. \/ UNCHANGED tables
        \/ /\ ~ Defined(x)
           /\ tables' = [tables EXCEPT ![current] = WithPrim(t, type, x, FALSE)]
    BY <1>5 DEF DeclarePrim, SemErr
  <2>. QED
    BY <1>2, <1>3, <2>1
<1>6. ASSUME NEW s \in StructName, NEW x \in Id, DeclareStructVar(s, x)
      PROVE  Complete'
  <2>1. \/ UNCHANGED tables
        \/ /\ where \in {"types", "locals"}
           /\ ~ Defined(x) /\ StructTable(s) \in DOMAIN tables
           /\ tables' = [tables EXCEPT ![current] =
                           WithStruct(t, s, tables[StructTable(s)], x, where)]
    BY <1>6 DEF DeclareStructVar, SemErr
  <2>. QED
    BY <1>2, <1>4, <2>1
<1>7. ASSUME NEW type \in Prim \cup StructName, NEW x \in Id, DeclareParam(type, x)
      PROVE  Complete'
  <2>1. \/ UNCHANGED tables
        \/ /\ type \in Prim /\ ~ Defined(x)
           /\ tables' = [tables EXCEPT ![current] = WithPrim(t, type, x, TRUE)]
        \/ /\ type \in StructName /\ where = "params"
           /\ ~ Defined(x) /\ StructTable(type) \in DOMAIN tables
           /\ tables' = [tables EXCEPT ![current] =
                           WithStruct(t, type, tables[StructTable(type)], x, where)]
    BY <1>7 DEF DeclareParam, SemErr
  <2>. QED
    BY <1>2, <1>3, <1>4, <2>1
<1>. QED
  BY <1>5, <1>6, <1>7

(* A name of a function or a struct type is not a struct variable.         *)
LEMMA NameNoNewStruct ==
  ASSUME NEW t, NEW u, NEW x, NEW data, data.kind # "struct",
         DOMAIN u.syms = DOMAIN t.syms \cup {Var(x)}, u.syms[Var(x)] = data,
         \A k \in DOMAIN t.syms : u.syms[k] = t.syms[k]
  PROVE  NoNewStruct(t, u)
BY DEF NoNewStruct

(* Opening a struct type keeps the tables complete.                        *)
LEMMA BeginStructComplete ==
  ASSUME Typed, Placed, Complete, NEW s \in StructName, BeginStruct(s)
  PROVE  Complete'
<1>. DEFINE old == tables[Global]
            data == Data("declstruct", s, 0)
            g == [old EXCEPT !.syms = Bind(@, Var(s), data)]
            n == StructTable(s)
<1>1. where = "types" /\ current = Global
  BY DEF Typed, Walk, BeginStruct
<1>2. CASE Defined(s)
  BY <1>2, SameComplete DEF BeginStruct, SemErr
<1>3. CASE ~ Defined(s)
  <2>1. PICK t \in FreshTables :
          tables' = Bind([tables EXCEPT ![Global] = g], n, t)
    BY <1>3 DEF BeginStruct
  <2>2. TableTyped(old) /\ Var(s) \notin DOMAIN old.syms
    BY <1>1, <1>3 DEF Typed, Walk, TablesTyped, Defined
  <2>3. n \notin DOMAIN tables
    BY <2>2 DEF Placed, KnownStructs
  <2>4. s \in Id /\ data \in NamedData /\ data.kind # "struct"
    BY NamesAssumption DEF Data, NamedData
  <2>5. g = [old EXCEPT !.syms = Bind(@, Var(s), data)]
    OBVIOUS
  <2>. HIDE DEF g, data, old
  <2>6. /\ TableTyped(g)
        /\ DOMAIN g.syms = DOMAIN old.syms \cup {Var(s)}
        /\ g.syms[Var(s)] = data
        /\ \A k \in DOMAIN old.syms : k # Var(s) /\ g.syms[k] = old.syms[k]
        /\ g.max_offset = old.max_offset
    BY <2>2, <2>4, <2>5, NamedTyped
  <2>7. NoNewStruct(old, g)
    BY <2>4, <2>6, NameNoNewStruct
  <2>8. /\ DOMAIN tables' = DOMAIN tables \cup {n}
        /\ tables'[n] = t /\ tables'[Global] = g
        /\ \A m \in DOMAIN tables : m \notin {n, Global} => tables'[m] = tables[m]
    BY <2>1, NamesApart DEF Bind, Typed, Walk
  <2>9. DOMAIN t.syms = {}
    BY FreshEffect
  <2>10. StructsKept
    BY <2>3, <2>8, NamesApart DEF StructsKept, ClosedStructs
  <2>11. ASSUME NEW m \in DOMAIN tables'
         PROVE  TableKept(m)
    BY <2>7, <2>8, <2>9, <2>11 DEF TableKept, NoNewStruct, old, Typed, Walk
  <2>. QED
    BY <2>10, <2>11, CompleteKept
<1>. QED
  BY <1>2, <1>3

(* The function f is named in the global table, and its own table has no   *)
(* new struct variable.                                                    *)
LEMMA FunctionComplete ==
  ASSUME Typed, Placed, Complete, NEW f \in Fun, NEW u,
         \/ DOMAIN u.syms = {}
         \/ FuncTable(f) \in DOMAIN tables /\ NoNewStruct(tables[FuncTable(f)], u),
         NEW ts,
         ts = [n \in DOMAIN ts |-> ts[n]],
         DOMAIN ts = DOMAIN tables \cup {FuncTable(f)}, ts[FuncTable(f)] = u,
         \A n \in DOMAIN tables : n # FuncTable(f) => ts[n] = tables[n],
         \/ tables' = ts
         \/ /\ Var(f) \notin DOMAIN tables[Global].syms
            /\ tables' = WithFunction(ts, f)
  PROVE  Complete'
<1>. DEFINE n == FuncTable(f)
            old == tables[Global]
            g == tables'[Global]
<1>1. /\ n # Global /\ Global \in DOMAIN tables /\ Global \in DOMAIN ts
      /\ ts[Global] = old
      /\ TableTyped(old)
  BY NamesApart DEF Typed, Walk, TablesTyped
<1>2. /\ DOMAIN tables' = DOMAIN ts
      /\ \A m \in DOMAIN ts : m # Global => tables'[m] = ts[m]
      /\ NoNewStruct(old, g)
  <2>1. CASE tables' = ts
    BY <1>1, <2>1 DEF NoNewStruct
  <2>2. CASE /\ Var(f) \notin DOMAIN tables[Global].syms
             /\ tables' = WithFunction(ts, f)
    <3>. HIDE DEF old
    <3>1. Var(f) \notin DOMAIN old.syms
      BY <2>2 DEF old
    <3>2. /\ DOMAIN tables' = DOMAIN ts
          /\ \A m \in DOMAIN ts : m # Global => tables'[m] = ts[m]
          /\ DOMAIN g.syms = DOMAIN old.syms \cup {Var(f)}
          /\ g.syms[Var(f)] = Data("func", f, 0)
          /\ \A k \in DOMAIN old.syms : g.syms[k] = old.syms[k]
      BY <1>1, <2>2, <3>1, WithFunctionTyped
    <3>3. Data("func", f, 0).kind # "struct"
      BY DEF Data
    <3>. HIDE DEF g
    <3>4. NoNewStruct(old, g)
      BY <3>2, <3>3, NameNoNewStruct
    <3>. QED
      BY <3>2, <3>4
  <2>. QED
    BY <2>1, <2>2
<1>3. StructsKept
  BY <1>1, <1>2, NamesApart DEF StructsKept, ClosedStructs
<1>4. ASSUME NEW m \in DOMAIN tables'
      PROVE  TableKept(m)
  <2>1. CASE m = Global
    BY <1>1, <1>2, <2>1 DEF TableKept
  <2>2. CASE m = n
    BY <1>1, <1>2, <2>2 DEF TableKept
  <2>3. CASE m # Global /\ m # n
    <3>1. m \in DOMAIN tables /\ tables'[m] = tables[m]
      BY <1>2, <1>4, <2>3
    <3>. QED
      BY <3>1 DEF TableKept, NoNewStruct
  <2>. QED
    BY <2>1, <2>2, <2>3
<1>. QED
  BY <1>3, <1>4, CompleteKept

(* The head of a function keeps the tables complete.                       *)
LEMMA BeginComplete ==
  ASSUME Typed, Placed, Complete, NEW f \in Fun, NEW ret \in Returns,
         BeginFunction(f, ret) \/ BeginVoidFunction(f, ret)
  PROVE  Complete'
<1>. DEFINE n == FuncTable(f)
<1>1. ASSUME NEW u, DOMAIN u.syms = {},
             \/ tables' = Bind(tables, n, u)
             \/ /\ Var(f) \notin DOMAIN tables[Global].syms
                /\ tables' = WithFunction(Bind(tables, n, u), f)
      PROVE  Complete'
  <2>. DEFINE ts == Bind(tables, n, u)
  <2>1. /\ DOMAIN ts = DOMAIN tables \cup {n} /\ ts[n] = u
        /\ \A m \in DOMAIN tables : m # n => ts[m] = tables[m]
        /\ ts = [m \in DOMAIN ts |-> ts[m]]
    BY DEF Bind
  <2>2. \/ tables' = ts
        \/ /\ Var(f) \notin DOMAIN tables[Global].syms
           /\ tables' = WithFunction(ts, f)
    BY <1>1
  <2>. HIDE DEF ts
  <2>. QED
    BY <1>1, <2>1, <2>2, FunctionComplete
<1>2. CASE BeginFunction(f, ret)
  <2>1. PICK t \in FreshTables :
          tables' = Bind(tables, n, FunTable(t))
    BY <1>2 DEF BeginFunction, FunTable
  <2>. DEFINE u == FunTable(t)
  <2>2. DOMAIN u.syms = {}
    <3>1. TableTyped(t) /\ DOMAIN t.syms = {}
      BY FreshEffect
    <3>2. IsTable(t)
      BY <3>1 DEF TableTyped, IsTable
    <3>. QED
      BY <3>1, <3>2, FunTableEffect
  <2>3. tables' = Bind(tables, n, u)
    BY <2>1
  <2>. HIDE DEF u
  <2>. QED
    BY <1>1, <2>2, <2>3
<1>3. CASE BeginVoidFunction(f, ret)
  <2>1. CASE UNCHANGED tables
    BY <2>1, SameComplete
  <2>2. CASE ~ UNCHANGED tables
    <3>1. /\ Var(f) \notin DOMAIN tables[Global].syms
          /\ \E t \in FreshTables : tables' = WithFunction(Bind(tables, n, t), f)
      BY <1>3, <2>2 DEF BeginVoidFunction, SemErr
    <3>2. PICK t \in FreshTables : tables' = WithFunction(Bind(tables, n, t), f)
      BY <3>1
    <3>3. DOMAIN t.syms = {}
      BY FreshEffect
    <3>. QED
      BY <1>1, <3>1, <3>2, <3>3
  <2>. QED
    BY <2>1, <2>2
<1>. QED
  BY <1>2, <1>3

(* The end of a parameter list keeps the tables complete.                  *)
LEMMA EndParamsComplete ==
  ASSUME Typed, Placed, Complete, EndParams
  PROVE  Complete'
<1>1. CASE UNCHANGED tables
  BY <1>1, SameComplete
<1>2. CASE ~ UNCHANGED tables
  <2>1. PICK f \in Fun : current = FuncTable(f)
    BY DEF EndParams, Typed, Walk
  <2>. DEFINE t == tables[current]
              v == [t EXCEPT !.max_offset = 0]
              ts == [tables EXCEPT ![current] = v]
  <2>2. f = current[2]
    BY <2>1, NamesApart
  <2>3. /\ Var(f) \notin DOMAIN tables[Global].syms
        /\ tables' = WithFunction(ts, f)
    BY <1>2, <2>2 DEF EndParams, SemErr
  <2>4. current \in DOMAIN tables /\ TableTyped(t)
    BY DEF Typed, Walk, TablesTyped
  <2>5. v.syms = t.syms
    <3>. HIDE DEF t
    <3>. QED
      BY <2>4 DEF TableTyped
  <2>. HIDE DEF v
  <2>6. NoNewStruct(t, v)
    BY <2>5 DEF NoNewStruct
  <2>7. /\ DOMAIN ts = DOMAIN tables \cup {current} /\ ts[current] = v
        /\ \A m \in DOMAIN tables : m # current => ts[m] = tables[m]
        /\ ts = [m \in DOMAIN ts |-> ts[m]]
    BY <2>4
  <2>. HIDE DEF ts
  <2>. QED
    BY <2>1, <2>3, <2>4, <2>6, <2>7, FunctionComplete
<1>. QED
  BY <1>1, <1>2

(* Every action keeps the tables complete.                                 *)
LEMMA NextComplete ==
  ASSUME Typed, Placed, Complete, [Next]_vars
  PROVE  Complete'
<1>1. CASE \/ \E type \in Prim, x \in Id : DeclarePrim(type, x)
           \/ \E s \in StructName, x \in Id : DeclareStructVar(s, x)
           \/ \E type \in Prim \cup StructName, x \in Id : DeclareParam(type, x)
  BY <1>1, DeclareComplete
<1>2. ASSUME NEW s \in StructName, BeginStruct(s)
      PROVE  Complete'
  BY <1>2, BeginStructComplete
<1>3. ASSUME NEW f \in Fun, NEW ret \in Returns,
             BeginFunction(f, ret) \/ BeginVoidFunction(f, ret)
      PROVE  Complete'
  BY <1>3, BeginComplete
<1>4. CASE EndParams
  BY <1>4, EndParamsComplete
<1>5. CASE EndStruct \/ EndFunction \/ Finish \/ UNCHANGED vars
  BY <1>5, SameComplete DEF EndStruct, EndFunction, Finish, vars
<1>. QED
  BY <1>1, <1>2, <1>3, <1>4, <1>5 DEF Next

(* The empty global table is complete.                                     *)
LEMMA InitComplete ==
  ASSUME Init
  PROVE  Complete
BY FreshEffect DEF Init, Complete, FieldsThere

-----------------------------------------------------------------------------
(* The invariant of the copy.                                              *)

Frame == tables[FuncTable(fun)]

(* Where byte j of a side is.                                              *)
Low(side, size) ==
  CASE side.kind = "local" ->
         IF side.offset >= 0 THEN -(side.offset + size) ELSE -side.offset
    [] side.kind = "global" -> 0
    [] side.kind = "stack" -> -side.offset

Place(side, size, j) ==
  <<IF side.kind = "global" THEN side.name ELSE "rbp", Low(side, size) + j>>

VariableOf(side, t, s) ==
  /\ side.name \in Id /\ Var(side.name) \in DOMAIN t.syms
  /\ t.syms[Var(side.name)] = Data("struct", s, side.offset)
  /\ side.offset \in Int

SideOK(side, s, size) ==
  \/ side.kind = "local" /\ VariableOf(side, Frame, s)
  \/ side.kind = "global" /\ VariableOf(side, tables[Global], s)
  \/ side.kind = "stack" /\ side.offset = Frame.max_offset + size

CopyTyped ==
  /\ copy.phase \in {"copy", "copied"}
  /\ copy = [phase |-> copy.phase, from |-> copy.from, to |-> copy.to,
             type |-> copy.type, size |-> copy.size, rax |-> copy.rax]
  /\ fun \in Fun /\ FuncTable(fun) \in DOMAIN tables /\ status = "done"
  /\ copy.type \in ClosedStructs /\ copy.size = StructSize(copy.type)
  /\ copy.rax \in Nat
  /\ copy.size >= 0 => copy.rax <= copy.size
  /\ copy.phase = "copied" => copy.rax >= copy.size
  /\ SideOK(copy.from, copy.type, copy.size)
  /\ SideOK(copy.to, copy.type, copy.size)
  /\ copy.from.kind # "stack" \/ copy.to.kind # "stack"

(* The bytes copied so far, from the last one down.                        *)
Copied == copy.size - copy.rax .. copy.size - 1

BytesCopied ==
  /\ DOMAIN mem = {Place(copy.to, copy.size, j) : j \in Copied}
  /\ \A j \in Copied :
       mem[Place(copy.to, copy.size, j)] = Place(copy.from, copy.size, j)

CopyInv ==
  \/ copy = NoCopy /\ mem = <<>>
  \/ CopyTyped /\ (Regular => BytesCopied)

(* A size, and the sides of a copy, are numbers.                           *)
LEMMA CopySizes ==
  ASSUME IInv, CopyTyped
  PROVE  /\ copy.size \in Int /\ copy.rax \in Int
         /\ Frame.max_offset \in Int
         /\ FuncTable(fun) \in Functions
         /\ copy.from.kind \in {"local", "global", "stack"}
         /\ copy.to.kind \in {"local", "global", "stack"}
         /\ copy.from.kind # "global" => copy.from.offset \in Int
         /\ copy.to.kind # "global" => copy.to.offset \in Int
         /\ Low(copy.from, copy.size) \in Int
         /\ Low(copy.to, copy.size) \in Int
<1>1. copy.size \in Int
  BY ClosedStructsOK DEF IInv, CopyTyped, StructSize
<1>2. copy.rax \in Int
  BY DEF CopyTyped
<1>3. FuncTable(fun) \in Functions
  BY NamesApart DEF CopyTyped, Functions
<1>4. Frame.max_offset \in Int
  BY DEF CopyTyped, Frame, IInv, Typed, TablesTyped, TableTyped
<1>5. ASSUME NEW side, SideOK(side, copy.type, copy.size)
      PROVE  /\ side.kind \in {"local", "global", "stack"}
             /\ side.kind # "global" => side.offset \in Int
             /\ Low(side, copy.size) \in Int
  BY <1>1, <1>4, <1>5 DEF SideOK, VariableOf, Low
<1>6. SideOK(copy.from, copy.type, copy.size) /\ SideOK(copy.to, copy.type, copy.size)
  BY DEF CopyTyped
<1>. QED
  BY <1>1, <1>2, <1>3, <1>4, <1>5, <1>6

(* The sizes of a regular copy are not negative.                           *)
LEMMA RegularSizes ==
  ASSUME IInv, CopyTyped, Regular
  PROVE  /\ copy.size \in Nat /\ copy.rax \in 0 .. copy.size
         /\ Frame.max_offset \in Nat
         /\ FromZero(FuncTable(fun))
<1>1. copy.type \in ClosedStructs /\ copy.type \in CleanIn(tables)
  BY DEF CopyTyped, Regular, ClosedStructs, CleanIn
<1>2. copy.size \in Nat
  BY <1>1, ClosedStructsOK DEF IInv, CopyTyped, StructSize
<1>3. FromZero(FuncTable(fun)) /\ FuncTable(fun) \in Functions
  BY CopySizes DEF Regular
<1>4. Frame.max_offset \in Int /\ FrameOK(tables, Frame)
  BY <1>3, FunctionVariables DEF Frame
<1>. QED
  BY <1>2, <1>3, <1>4 DEF FrameOK, CopyTyped

(* Whether a copy is regular does not change while it lasts.               *)
LEMMA RegularKept ==
  ASSUME UNCHANGED <<tables, ftypes, fun>>, copy'.from = copy.from,
         copy'.to = copy.to, copy'.type = copy.type
  PROVE  Regular' = Regular
<1>1. FromZero(FuncTable(fun))' = FromZero(FuncTable(fun))
  BY DEF FromZero, Used, Variables
<1>2. StructFirst(fun)' = StructFirst(fun)
  BY DEF StructFirst
<1>. QED
  BY <1>1, <1>2 DEF Regular, NamedLikeRegister

(* Where the loop reads and writes, as places of the two sides.            *)
LEMMA LoopPlaces ==
  ASSUME IInv, CopyTyped
  PROVE  /\ Source(copy.from, copy.size, copy.rax)
              = Place(copy.from, copy.size, copy.size - 1 - copy.rax)
         /\ Regular => Target(copy.to, copy.size, copy.rax)
                         = Place(copy.to, copy.size, copy.size - 1 - copy.rax)
<1>1. ASSUME NEW side, NEW size \in Int, NEW rax \in Int,
             side.kind \in {"local", "global", "stack"},
             side.kind # "global" => side.offset \in Int
      PROVE  /\ Source(side, size, rax) = Place(side, size, size - 1 - rax)
             /\ (side.kind = "local" => side.offset >= 0) =>
                  Target(side, size, rax) = Place(side, size, size - 1 - rax)
  <2>1. CASE side.kind = "local"
    BY <1>1, <2>1 DEF Source, Target, Place, Low, StackRbp
  <2>2. CASE side.kind = "global"
    BY <1>1, <2>2 DEF Source, Target, Place, Low
  <2>3. CASE side.kind = "stack"
    BY <1>1, <2>3 DEF Source, Target, Place, Low, StackRbp
  <2>. QED
    BY <1>1, <2>1, <2>2, <2>3
<1>2. copy.size \in Int /\ copy.rax \in Int
  BY CopySizes
<1>. QED
  BY <1>1, <1>2, CopySizes DEF Regular

(* A struct variable's bytes, as the properties of the layout have them.   *)
LEMMA LocalBytes ==
  ASSUME IInv, CopyTyped, Regular, NEW side, side.kind = "local",
         VariableOf(side, Frame, copy.type)
  PROVE  /\ Var(side.name) \in Variables(Frame)
         /\ Bytes(Frame.syms[Var(side.name)])
              = Low(side, copy.size) .. Low(side, copy.size) + copy.size - 1
         /\ side.offset >= 0 => Bytes(Frame.syms[Var(side.name)])
                                  \subseteq -Frame.max_offset .. -1
         /\ side.offset < 0 => Low(side, copy.size) >= 24
<1>. DEFINE d == Frame.syms[Var(side.name)]
<1>1. Var(side.name) \in Variables(Frame)
  BY KeysApart DEF VariableOf, Variables
<1>2. /\ d.kind = "struct" /\ d.type = copy.type /\ d.offset = side.offset
      /\ side.offset \in Int
  BY DEF VariableOf, Data
<1>3. copy.size = StructSize(copy.type) /\ copy.size \in Nat
  BY RegularSizes DEF CopyTyped
<1>4. /\ LocalsInFrame /\ FuncTable(fun) \in Functions
      /\ FromZero(FuncTable(fun))
  BY InFrameFromInvariant, CopySizes, RegularSizes
<1>5. IF d.offset < 0 THEN FirstByte(d) >= 24
      ELSE Bytes(d) \subseteq -Frame.max_offset .. -1
  BY <1>1, <1>4 DEF LocalsInFrame, Frame
<1>. HIDE DEF d
<1>6. Extent(d) = copy.size /\ FirstByte(d) = Low(side, copy.size)
  BY <1>2, <1>3 DEF Extent, FirstByte, Low, Image
<1>. QED
  BY <1>1, <1>2, <1>5, <1>6 DEF Bytes, d

(* No byte of the source is where another byte of the target is.           *)
LEMMA PlacesApart ==
  ASSUME IInv, CopyTyped, Regular,
         NEW j \in 0 .. copy.size - 1, NEW k \in 0 .. copy.size - 1, j # k
  PROVE  /\ Place(copy.from, copy.size, j) # Place(copy.to, copy.size, k)
         /\ Place(copy.to, copy.size, j) # Place(copy.to, copy.size, k)
<1>. DEFINE from == copy.from
            to == copy.to
            size == copy.size
            a == Low(from, size)
            b == Low(to, size)
<1>1. /\ size \in Nat /\ a \in Int /\ b \in Int /\ Frame.max_offset \in Nat
      /\ from.kind \in {"local", "global", "stack"}
      /\ to.kind \in {"local", "global", "stack"}
  BY CopySizes, RegularSizes
<1>2. j \in Int /\ k \in Int /\ 0 <= j /\ j < size /\ 0 <= k /\ k < size
  BY <1>1
<1>3. /\ SideOK(from, copy.type, size) /\ SideOK(to, copy.type, size)
      /\ from.kind # "stack" \/ to.kind # "stack"
  BY DEF CopyTyped
<1>. HIDE DEF size, a, b
<1>4. Place(to, size, j) # Place(to, size, k)
  BY <1>1, <1>2 DEF Place, b
<1>5. CASE from.kind = "global" /\ to.kind = "global"
  <2>1. a = 0 /\ b = 0
    BY <1>5 DEF Low, a, b
  <2>. QED
    BY <1>2, <1>4, <1>5, <2>1 DEF Place, a, b, size
<1>6. CASE from.kind = "global" /\ to.kind # "global"
  <2>1. from.name # "rbp"
    BY <1>6, RegisterAssumption DEF Regular, NamedLikeRegister
  <2>. QED
    BY <1>4, <1>6, <2>1 DEF Place, size
<1>7. CASE from.kind # "global" /\ to.kind = "global"
  <2>1. to.name # "rbp"
    BY <1>7, RegisterAssumption DEF Regular, NamedLikeRegister
  <2>. QED
    BY <1>4, <1>7, <2>1 DEF Place, size
<1>8. CASE from.kind # "global" /\ to.kind # "global"
  <2>. SUFFICES a + j # b + k
    BY <1>4, <1>8 DEF Place, a, b, size
  <2>1. CASE from.kind = "local" /\ to.kind = "local"
    <3>. DEFINE d == Frame.syms[Var(from.name)]
                e == Frame.syms[Var(to.name)]
    <3>1. VariableOf(from, Frame, copy.type) /\ VariableOf(to, Frame, copy.type)
      BY <1>3, <2>1 DEF SideOK
    <3>2. /\ Var(from.name) \in Variables(Frame) /\ Var(to.name) \in Variables(Frame)
          /\ Bytes(d) = a .. a + size - 1
          /\ Bytes(e) = b .. b + size - 1
      BY <2>1, <3>1, LocalBytes DEF a, b, size
    <3>3. CASE from.name = to.name
      <4>1. from.offset = to.offset
        BY <3>1, <3>3 DEF VariableOf, Data
      <4>2. a = b
        BY <2>1, <4>1 DEF Low, a, b
      <4>. QED
        BY <1>1, <1>2, <4>2
    <3>4. CASE from.name # to.name
      <4>1. Var(from.name) # Var(to.name)
        BY <3>4, KeysApart
      <4>2. /\ VariablesDisjoint /\ FuncTable(fun) \in Functions
            /\ FromZero(FuncTable(fun))
        BY DisjointFromInvariant, CopySizes, RegularSizes
      <4>3. Bytes(d) \cap Bytes(e) = {}
        BY <3>2, <4>1, <4>2 DEF VariablesDisjoint, Frame
      <4>. HIDE DEF d, e
      <4>4. a + j \in Bytes(d) /\ b + k \in Bytes(e)
        BY <1>1, <1>2, <3>2
      <4>. QED
        BY <4>3, <4>4
    <3>. QED
      BY <3>3, <3>4
  <2>2. CASE from.kind = "stack" /\ to.kind = "local"
    <3>1. a = -(Frame.max_offset + size)
      BY <1>3, <2>2 DEF SideOK, Low, a
    <3>2. VariableOf(to, Frame, copy.type)
      BY <1>3, <2>2 DEF SideOK
    <3>3. to.offset \in Int
      BY <3>2 DEF VariableOf
    <3>4. CASE to.offset >= 0
      <4>1. b .. b + size - 1 \subseteq -Frame.max_offset .. -1
        BY <2>2, <3>2, <3>4, LocalBytes DEF b, size
      <4>2. b + k \in b .. b + size - 1
        BY <1>1, <1>2
      <4>3. b + k >= -Frame.max_offset
        BY <1>1, <4>1, <4>2
      <4>. QED
        BY <1>1, <1>2, <3>1, <4>3
    <3>5. CASE to.offset < 0
      <4>1. b >= 24
        BY <2>2, <3>2, <3>5, LocalBytes DEF b, size
      <4>. QED
        BY <1>1, <1>2, <3>1, <4>1
    <3>. QED
      BY <3>3, <3>4, <3>5
  <2>3. CASE from.kind = "local" /\ to.kind = "stack"
    <3>1. b = -(Frame.max_offset + size)
      BY <1>3, <2>3 DEF SideOK, Low, b
    <3>2. VariableOf(from, Frame, copy.type)
      BY <1>3, <2>3 DEF SideOK
    <3>3. from.offset \in Int
      BY <3>2 DEF VariableOf
    <3>4. CASE from.offset >= 0
      <4>1. a .. a + size - 1 \subseteq -Frame.max_offset .. -1
        BY <2>3, <3>2, <3>4, LocalBytes DEF a, size
      <4>2. a + j \in a .. a + size - 1
        BY <1>1, <1>2
      <4>3. a + j >= -Frame.max_offset
        BY <1>1, <4>1, <4>2
      <4>. QED
        BY <1>1, <1>2, <3>1, <4>3
    <3>5. CASE from.offset < 0
      <4>1. a >= 24
        BY <2>3, <3>2, <3>5, LocalBytes DEF a, size
      <4>. QED
        BY <1>1, <1>2, <3>1, <4>1
    <3>. QED
      BY <3>3, <3>4, <3>5
  <2>. QED
    BY <1>1, <1>3, <1>8, <2>1, <2>2, <2>3
<1>. QED
  BY <1>1, <1>5, <1>6, <1>7, <1>8

(* A struct variable that get_data finds is a side of a copy.              *)
LEMMA SideFound ==
  ASSUME IInv, NEW f \in Fun, FuncTable(f) \in DOMAIN tables, NEW x \in Id,
         NEW s, IsStruct(f, x, s)
  PROVE  /\ s \in ClosedStructs
         /\ \/ /\ Side(f, x).kind = "local"
               /\ VariableOf(Side(f, x), tables[FuncTable(f)], s)
            \/ /\ Side(f, x).kind = "global"
               /\ VariableOf(Side(f, x), tables[Global], s)
<1>1. ASSUME NEW n \in DOMAIN tables, NEW side, side.name = x,
             Var(x) \in DOMAIN tables[n].syms,
             tables[n].syms[Var(x)].kind = "struct",
             tables[n].syms[Var(x)].type = s,
             side.offset = tables[n].syms[Var(x)].offset
      PROVE  s \in ClosedStructs /\ VariableOf(side, tables[n], s)
  <2>. DEFINE d == tables[n].syms[Var(x)]
  <2>1. KnownVars(tables[n], ClosedStructs) /\ TableTyped(tables[n])
    BY DEF IInv, Typed, TablesTyped, Placed, KnownStructs
  <2>2. s \in ClosedStructs
    BY <1>1, <2>1 DEF KnownVars
  <2>3. d \in PrimData \cup NamedData
    BY <1>1, <2>1 DEF TableTyped
  <2>4. d = Data("struct", s, d.offset) /\ d.offset \in Int
    <3>1. d.kind = "struct" /\ d.type = s
      BY <1>1
    <3>. HIDE DEF d
    <3>. QED
      BY <2>3, <3>1 DEF PrimData, NamedData, Data
  <2>. QED
    BY <1>1, <2>2, <2>4 DEF VariableOf
<1>2. /\ Side(f, x).name = x
      /\ Side(f, x).offset = GetData(f, Var(x)).offset
      /\ Side(f, x).kind = IF InFunction(f, Var(x)) THEN "local" ELSE "global"
  BY DEF Side
<1>3. Global \in DOMAIN tables
  BY DEF IInv, Typed, Walk
<1>4. CASE InFunction(f, Var(x))
  BY <1>1, <1>2, <1>4 DEF IsStruct, GetData, InFunction
<1>5. CASE ~ InFunction(f, Var(x))
  BY <1>1, <1>2, <1>3, <1>5 DEF IsStruct, Known, GetData, InFunction
<1>. QED
  BY <1>4, <1>5

(* Nothing is copied before the tables are complete.                       *)
LEMMA NextRuns ==
  ASSUME Next
  PROVE  status = "run"
BY DEF Next, Declares, DeclarePrim, DeclareStructVar, BeginStruct, EndStruct,
       BeginFunction, BeginVoidFunction, DeclareParam, EndParams, EndFunction,
       Finish

(* The copy begins with no byte copied.                                    *)
LEMMA BeginCopy ==
  ASSUME IInv, CopyInv, NEW f \in Fun, CanBegin(f), NEW s \in ClosedStructs,
         NEW from, NEW to, Begin(f, from, to, s),
         LET t == tables[FuncTable(f)]
         IN  \A side \in {from, to} :
               \/ side.kind = "local" /\ VariableOf(side, t, s)
               \/ side.kind = "global" /\ VariableOf(side, tables[Global], s)
               \/ side.kind = "stack" /\ side.offset = t.max_offset + StructSize(s),
         from.kind # "stack" \/ to.kind # "stack"
  PROVE  CopyInv'
<1>1. /\ copy = NoCopy /\ status = "done" /\ FuncTable(f) \in DOMAIN tables
      /\ fun' = f /\ UNCHANGED <<tables, ftypes, current, where, status, decls, mem>>
      /\ copy' = [phase |-> "copy", from |-> from, to |-> to, type |-> s,
                  size |-> StructSize(s), rax |-> 0]
  BY DEF CanBegin, Begin
<1>2. mem = <<>>
  BY <1>1 DEF CopyInv, CopyTyped, NoCopy
<1>3. StructSize(s) \in Int
  BY ClosedStructsOK DEF IInv, StructSize
<1>4. /\ copy'.phase = "copy" /\ copy'.from = from /\ copy'.to = to
      /\ copy'.type = s /\ copy'.size = StructSize(s) /\ copy'.rax = 0
  BY <1>1
<1>5. /\ ClosedStructs' = ClosedStructs /\ Frame' = tables[FuncTable(f)]
      /\ StructSize(s)' = StructSize(s)
  BY <1>1 DEF ClosedStructs, Frame, StructSize
<1>6. \A side \in {from, to} : SideOK(side, s, StructSize(s))'
  BY <1>1, <1>5 DEF SideOK, VariableOf
<1>7. CopyTyped'
  BY <1>1, <1>3, <1>4, <1>5, <1>6 DEF CopyTyped
<1>8. BytesCopied'
  <2>1. Copied' = {}
    BY <1>3, <1>4 DEF Copied
  <2>2. DOMAIN mem' = {}
    BY <1>1, <1>2
  <2>. QED
    BY <2>1, <2>2 DEF BytesCopied
<1>. QED
  BY <1>7, <1>8 DEF CopyInv

(* One byte more is copied.                                                *)
LEMMA CopyByteKept ==
  ASSUME IInv, CopyInv, CopyByte
  PROVE  CopyInv'
<1>1. /\ copy.phase = "copy" /\ copy.rax <= copy.size - 1
      /\ mem' = Bind(mem, Target(copy.to, copy.size, copy.rax),
                     Byte(mem, Source(copy.from, copy.size, copy.rax)))
      /\ copy' = [copy EXCEPT !.rax = @ + 1]
      /\ UNCHANGED <<tables, ftypes, current, where, status, decls, fun>>
  BY DEF CopyByte, LastByte
<1>2. CopyTyped /\ (Regular => BytesCopied)
  BY <1>1 DEF CopyInv, NoCopy
<1>3. copy.size \in Int /\ copy.rax \in Nat
  BY <1>2, CopySizes DEF CopyTyped
<1>4. /\ copy' = [phase |-> copy'.phase, from |-> copy'.from, to |-> copy'.to,
                  type |-> copy'.type, size |-> copy'.size, rax |-> copy'.rax]
      /\ copy'.phase = "copy" /\ copy'.from = copy.from /\ copy'.to = copy.to
      /\ copy'.type = copy.type /\ copy'.size = copy.size
      /\ copy'.rax = copy.rax + 1
  BY <1>1, <1>2 DEF CopyTyped
<1>5. CopyTyped'
  <2>1. /\ ClosedStructs' = ClosedStructs /\ Frame' = Frame
        /\ StructSize(copy.type)' = StructSize(copy.type)
    BY <1>1, <1>4 DEF ClosedStructs, Frame, StructSize
  <2>2. \A side \in {copy.from, copy.to} :
          SideOK(side, copy.type, copy.size) => SideOK(side, copy.type, copy.size)'
    BY <1>1, <1>4, <2>1 DEF SideOK, VariableOf
  <2>3. copy'.rax \in Nat /\ copy'.rax <= copy'.size
    BY <1>1, <1>3, <1>4
  <2>. QED
    BY <1>1, <1>2, <1>4, <2>1, <2>2, <2>3 DEF CopyTyped
<1>6. ASSUME Regular' PROVE BytesCopied'
  <2>. DEFINE size == copy.size
              i == size - 1 - copy.rax
              to(j) == Place(copy.to, size, j)
              from(j) == Place(copy.from, size, j)
  <2>1. Regular
    BY <1>1, <1>4, <1>6, RegularKept
  <2>2. /\ DOMAIN mem = {to(j) : j \in Copied}
        /\ \A j \in Copied : mem[to(j)] = from(j)
    BY <1>2, <2>1 DEF BytesCopied
  <2>3. /\ i \in 0 .. size - 1 /\ i \notin Copied
        /\ Copied' = Copied \cup {i} /\ Copied' \subseteq 0 .. size - 1
    BY <1>1, <1>2, <1>3, <1>4, <2>1, RegularSizes DEF Copied
  <2>4. mem' = Bind(mem, to(i), Byte(mem, from(i)))
    BY <1>1, <1>2, <2>1, LoopPlaces
  <2>5. \A j \in Copied : from(i) # to(j) /\ to(i) # to(j)
    BY <1>2, <2>1, <2>3, PlacesApart
  <2>6. Byte(mem, from(i)) = from(i)
    BY <2>2, <2>5 DEF Byte
  <2>7. /\ \A j : Place(copy.to, copy.size, j)' = to(j)
        /\ \A j : Place(copy.from, copy.size, j)' = from(j)
    BY <1>4 DEF Place, Low
  <2>. HIDE DEF to, from, i
  <2>8. DOMAIN mem' = {to(j) : j \in Copied'}
    BY <2>2, <2>3, <2>4 DEF Bind
  <2>9. \A j \in Copied' : mem'[to(j)] = from(j)
    BY <2>2, <2>3, <2>4, <2>5, <2>6 DEF Bind
  <2>. QED
    BY <2>7, <2>8, <2>9 DEF BytesCopied
<1>. QED
  BY <1>5, <1>6 DEF CopyInv

(* The end of the loop finds every byte copied.                            *)
LEMMA EndCopyKept ==
  ASSUME IInv, CopyInv, EndCopy
  PROVE  CopyInv'
<1>1. /\ copy.phase = "copy" /\ copy.rax > copy.size - 1
      /\ copy' = [copy EXCEPT !.phase = "copied"]
      /\ UNCHANGED <<tables, ftypes, current, where, status, decls, fun, mem>>
  BY DEF EndCopy, LastByte
<1>2. CopyTyped /\ (Regular => BytesCopied)
  BY <1>1 DEF CopyInv, NoCopy
<1>3. copy.size \in Int /\ copy.rax \in Nat
  BY <1>2, CopySizes DEF CopyTyped
<1>4. /\ copy' = [phase |-> copy'.phase, from |-> copy'.from, to |-> copy'.to,
                  type |-> copy'.type, size |-> copy'.size, rax |-> copy'.rax]
      /\ copy'.phase = "copied" /\ copy'.from = copy.from /\ copy'.to = copy.to
      /\ copy'.type = copy.type /\ copy'.size = copy.size
      /\ copy'.rax = copy.rax
  BY <1>1, <1>2 DEF CopyTyped
<1>5. CopyTyped'
  <2>1. /\ ClosedStructs' = ClosedStructs /\ Frame' = Frame
        /\ StructSize(copy.type)' = StructSize(copy.type)
    BY <1>1, <1>4 DEF ClosedStructs, Frame, StructSize
  <2>2. \A side \in {copy.from, copy.to} :
          SideOK(side, copy.type, copy.size) => SideOK(side, copy.type, copy.size)'
    BY <1>1, <1>4, <2>1 DEF SideOK, VariableOf
  <2>3. copy.rax >= copy.size
    BY <1>1, <1>3
  <2>. QED
    BY <1>1, <1>2, <1>4, <2>1, <2>2, <2>3 DEF CopyTyped
<1>6. ASSUME Regular' PROVE BytesCopied'
  <2>1. Regular
    BY <1>1, <1>4, <1>6, RegularKept
  <2>2. \A j : /\ Place(copy.to, copy.size, j)' = Place(copy.to, copy.size, j)
               /\ Place(copy.from, copy.size, j)' = Place(copy.from, copy.size, j)
    BY <1>4 DEF Place, Low
  <2>3. Copied' = Copied
    BY <1>4 DEF Copied
  <2>. QED
    BY <1>1, <1>2, <2>1, <2>2, <2>3 DEF BytesCopied
<1>. QED
  BY <1>5, <1>6 DEF CopyInv

(* Every step keeps the invariant of the copy.                             *)
LEMMA CopyKept ==
  ASSUME IInv, CopyInv, [AssignNext]_avars
  PROVE  CopyInv'
<1>1. CASE UNCHANGED avars
  <2>1. UNCHANGED <<tables, ftypes, current, status, fun, copy, mem>>
    BY <1>1 DEF avars
  <2>2. ClosedStructs' = ClosedStructs /\ Frame' = Frame
    BY <2>1 DEF ClosedStructs, Frame
  <2>3. CopyTyped => CopyTyped'
    BY <2>1, <2>2 DEF CopyTyped, SideOK, VariableOf, StructSize
  <2>4. Regular' = Regular
    BY <2>1, RegularKept
  <2>5. BytesCopied => BytesCopied'
    BY <2>1 DEF BytesCopied, Copied, Place, Low
  <2>. QED
    BY <2>1, <2>3, <2>4, <2>5 DEF CopyInv
<1>2. CASE Next /\ UNCHANGED <<fun, copy, mem>>
  BY <1>2, NextRuns DEF CopyInv, CopyTyped
<1>3. ASSUME NEW f \in Fun, NEW s \in StructName, NEW x \in Id, NEW y \in Id,
             AssignVariable(f, x, y, s)
      PROVE  CopyInv'
  <2>1. /\ CanBegin(f) /\ IsStruct(f, x, s) /\ IsStruct(f, y, s)
        /\ Begin(f, Side(f, y), Side(f, x), s)
        /\ FuncTable(f) \in DOMAIN tables
    BY <1>3 DEF AssignVariable, CanBegin
  <2>. DEFINE from == Side(f, y)
              to == Side(f, x)
  <2>2. /\ s \in ClosedStructs
        /\ \A side \in {from, to} :
             \/ side.kind = "local" /\ VariableOf(side, tables[FuncTable(f)], s)
             \/ side.kind = "global" /\ VariableOf(side, tables[Global], s)
    BY <2>1, SideFound
  <2>3. from.kind # "stack" \/ to.kind # "stack"
    BY <2>2
  <2>. HIDE DEF from, to
  <2>4. Begin(f, from, to, s)
    BY <2>1 DEF from, to
  <2>. QED
    BY <2>1, <2>2, <2>3, <2>4, BeginCopy
<1>4. ASSUME NEW f \in Fun, NEW s \in StructName, NEW x \in Id,
             AssignResult(f, x, s) \/ PlaceOnTop(f, x, s)
      PROVE  CopyInv'
  <2>. DEFINE var == Side(f, x)
              top == Stack(f, StructSize(s))
  <2>1. /\ CanBegin(f) /\ IsStruct(f, x, s)
        /\ Begin(f, top, var, s) \/ Begin(f, var, top, s)
        /\ FuncTable(f) \in DOMAIN tables
    BY <1>4 DEF AssignResult, PlaceOnTop, CanBegin
  <2>2. /\ s \in ClosedStructs
        /\ \/ var.kind = "local" /\ VariableOf(var, tables[FuncTable(f)], s)
           \/ var.kind = "global" /\ VariableOf(var, tables[Global], s)
    BY <2>1, SideFound
  <2>3. /\ top.kind = "stack"
        /\ top.offset = tables[FuncTable(f)].max_offset + StructSize(s)
    BY DEF Stack
  <2>4. var.kind # "stack"
    BY <2>2
  <2>. HIDE DEF var, top
  <2>5. \A side \in {var, top} :
          \/ side.kind = "local" /\ VariableOf(side, tables[FuncTable(f)], s)
          \/ side.kind = "global" /\ VariableOf(side, tables[Global], s)
          \/ /\ side.kind = "stack"
             /\ side.offset = tables[FuncTable(f)].max_offset + StructSize(s)
    BY <2>2, <2>3
  <2>6. CASE Begin(f, top, var, s)
    BY <2>1, <2>2, <2>4, <2>5, <2>6, BeginCopy
  <2>7. CASE Begin(f, var, top, s)
    BY <2>1, <2>2, <2>4, <2>5, <2>7, BeginCopy
  <2>. QED
    BY <2>1, <2>6, <2>7
<1>5. CASE CopyByte
  BY <1>5, CopyByteKept
<1>6. CASE EndCopy
  BY <1>6, EndCopyKept
<1>. QED
  BY <1>1, <1>2, <1>3, <1>4, <1>5, <1>6 DEF AssignNext

(* The assignments leave the tables as create_table made them: a run with  *)
(* assignments is a run of the walk over the declarations.                 *)
LEMMA TablesKept == AssignSpec => Spec
<1>1. AssignInit => Init
  BY DEF AssignInit
<1>2. [AssignNext]_avars => [Next]_vars
  <2>1. ASSUME NEW f, NEW from, NEW to, NEW s, Begin(f, from, to, s)
        PROVE  UNCHANGED vars
    BY <2>1 DEF Begin, vars
  <2>2. ASSUME NEW f, NEW s, NEW x, NEW y,
               \/ AssignVariable(f, x, y, s)
               \/ AssignResult(f, x, s) \/ PlaceOnTop(f, x, s)
        PROVE  UNCHANGED vars
    BY <2>1, <2>2 DEF AssignVariable, AssignResult, PlaceOnTop
  <2>3. CopyByte \/ EndCopy \/ UNCHANGED avars => UNCHANGED vars
    BY DEF CopyByte, EndCopy, avars, vars
  <2>. QED
    BY <2>2, <2>3 DEF AssignNext
<1>. QED
  BY <1>1, <1>2, PTL DEF AssignSpec, Spec

(* The tables stay complete.                                               *)
THEOREM Completeness == Spec => []Complete
<1>1. Init => Complete
  BY InitComplete
<1>2. IInv /\ Complete /\ [Next]_vars => Complete'
  BY NextComplete DEF IInv
<1>. QED
  BY <1>1, <1>2, Invariance, PTL DEF Spec

(* The inductive invariant of the copy.                                    *)
THEOREM CopyInvariance == AssignSpec => [](IInv /\ Complete /\ CopyInv)
<1>1. AssignInit => CopyInv
  BY DEF AssignInit, CopyInv
<1>2. IInv /\ CopyInv /\ [AssignNext]_avars => CopyInv'
  BY CopyKept
<1>3. AssignSpec => [](IInv /\ Complete)
  BY TablesKept, Invariance, Completeness, PTL
<1>. QED
  BY <1>1, <1>2, <1>3, PTL DEF AssignSpec

-----------------------------------------------------------------------------
(* What the invariant means for the program.                               *)

(* The bytes written are those of the target.                              *)
LEMMA OthersFromInvariant ==
  ASSUME IInv, CopyInv
  PROVE  OthersKept
<1>. SUFFICES ASSUME copy # NoCopy, Regular, NEW a \in DOMAIN mem
              PROVE  IF a[1] # "rbp" THEN copy.to.kind = "global" /\ a[1] = copy.to.name
                     ELSE /\ a[2] < 0
                          /\ \A x \in Variables(Frame) :
                               \/ copy.to.kind = "local" /\ x = Var(copy.to.name)
                               \/ a[2] \notin Bytes(Frame.syms[x])
  BY DEF OthersKept, Frame
<1>. DEFINE to == copy.to
            size == copy.size
            low == Low(to, size)
            t == Frame
<1>1. CopyTyped /\ BytesCopied
  BY DEF CopyInv
<1>2. PICK j \in Copied : a = Place(to, size, j)
  BY <1>1 DEF BytesCopied
<1>3. /\ size \in Nat /\ low \in Int /\ t.max_offset \in Nat
      /\ to.kind \in {"local", "global", "stack"}
      /\ FuncTable(fun) \in Functions /\ FromZero(FuncTable(fun))
      /\ copy.rax \in 0 .. size
  BY <1>1, CopySizes, RegularSizes
<1>4. j \in Int /\ 0 <= j /\ j < size
  BY <1>1, <1>3 DEF Copied, CopyTyped
<1>5. SideOK(to, copy.type, size)
  BY <1>1 DEF CopyTyped
<1>6. VariablesDisjoint /\ LocalsInFrame
  BY DisjointFromInvariant, InFrameFromInvariant
<1>7. /\ a[1] = IF to.kind = "global" THEN to.name ELSE "rbp"
      /\ a[2] = low + j
  BY <1>2 DEF Place
<1>. HIDE DEF size, low, t
<1>8. CASE to.kind = "global"
  <2>1. to.name # "rbp"
    BY <1>8, RegisterAssumption DEF Regular, NamedLikeRegister
  <2>. QED
    BY <1>7, <1>8, <2>1
<1>9. CASE to.kind = "local"
  <2>1. VariableOf(to, t, copy.type) /\ to.offset >= 0
    BY <1>5, <1>9 DEF SideOK, Regular, t
  <2>2. /\ Var(to.name) \in Variables(t)
        /\ Bytes(t.syms[Var(to.name)]) = low .. low + size - 1
        /\ Bytes(t.syms[Var(to.name)]) \subseteq -t.max_offset .. -1
    BY <1>1, <1>9, <2>1, LocalBytes DEF t, low, size
  <2>3. a[2] \in Bytes(t.syms[Var(to.name)])
    BY <1>3, <1>4, <1>7, <2>2
  <2>4. a[2] < 0
    BY <1>3, <2>2, <2>3
  <2>5. ASSUME NEW x \in Variables(t), x # Var(to.name)
        PROVE  a[2] \notin Bytes(t.syms[x])
    <3>1. Bytes(t.syms[Var(to.name)]) \cap Bytes(t.syms[x]) = {}
      BY <1>3, <1>6, <2>2, <2>5 DEF VariablesDisjoint, t, Frame
    <3>. QED
      BY <2>3, <3>1
  <2>. QED
    BY <1>7, <1>9, <2>4, <2>5 DEF t
<1>10. CASE to.kind = "stack"
  <2>1. low = -(t.max_offset + size)
    BY <1>5, <1>10 DEF SideOK, Low, low, t, size
  <2>2. a[2] < -t.max_offset /\ a[2] \in Int
    BY <1>3, <1>4, <1>7, <2>1
  <2>3. ASSUME NEW x \in Variables(t)
        PROVE  a[2] \notin Bytes(t.syms[x])
    <3>. DEFINE d == t.syms[x]
    <3>1. IF d.offset < 0 THEN FirstByte(d) >= 24
          ELSE Bytes(d) \subseteq -t.max_offset .. -1
      BY <1>3, <1>6, <2>3 DEF LocalsInFrame, t, Frame
    <3>2. FirstByte(d) \in Int /\ Extent(d) \in Int
      <4>1. /\ Sized(tables, t)
            /\ \E y \in Id : x = Var(y) /\ Var(y) \in DOMAIN t.syms
        BY <1>3, FunctionVariables DEF t, Frame
      <4>2. d.offset \in Int /\ ExtentIn(tables, d) \in Nat
        BY <4>1 DEF Sized
      <4>. QED
        BY <4>2, AddressesAgree DEF LowIn
    <3>. HIDE DEF d
    <3>3. CASE d.offset < 0
      BY <1>3, <2>2, <3>1, <3>2, <3>3 DEF Bytes, d
    <3>4. CASE ~ (d.offset < 0)
      BY <1>3, <2>2, <3>1, <3>4 DEF d
    <3>. QED
      BY <3>3, <3>4
  <2>4. a[2] < 0
    BY <1>3, <2>2
  <2>. QED
    BY <1>7, <1>10, <2>3, <2>4 DEF t
<1>. QED
  BY <1>3, <1>8, <1>9, <1>10

(* The program finds byte i of a field where the struct's table has it.    *)
LEMMA FieldPlaces ==
  ASSUME IInv, Complete, CopyTyped, Regular, NEW side,
         SideOK(side, copy.type, copy.size), NEW f \in Id,
         Var(f) \in DOMAIN tables[StructTable(copy.type)].syms, NEW i \in Int
  PROVE  FieldByte(side, f, i)
           = Place(side, copy.size,
                   tables[StructTable(copy.type)].syms[Var(f)].offset + i)
<1>. DEFINE st == tables[StructTable(copy.type)]
            e == st.syms[Var(f)]
            size == copy.size
<1>1. /\ size \in Nat /\ size = StructSize(copy.type) /\ size = st.max_offset
      /\ FuncTable(fun) \in DOMAIN tables /\ Global \in DOMAIN tables
  BY RegularSizes DEF CopyTyped, StructSize, IInv, Typed, Walk
<1>2. e.offset \in Int
  BY ClosedStructsOK DEF IInv, CopyTyped, PlainFields, PrimData
<1>3. ASSUME NEW n \in DOMAIN tables, VariableOf(side, tables[n], copy.type),
             n = Global \/ (Orderly(tables, n, tables[n]) /\ StructFirst(n[2]))
      PROVE  /\ FieldPlace(n, Field(side.name, f)) = e.offset
             /\ Field(side.name, f) \in DOMAIN tables[n].syms
             /\ tables[n].syms[Field(side.name, f)].offset \in Int
             /\ tables[n].syms[Var(side.name)].type = copy.type
             /\ tables[n].syms[Var(side.name)].offset = side.offset
             /\ side.offset \in Int
  <2>. DEFINE t == tables[n]
              x == side.name
              k == Field(x, f)
  <2>1. /\ x \in Id /\ Var(x) \in DOMAIN t.syms /\ t.syms[Var(x)].kind = "struct"
        /\ t.syms[Var(x)].type = copy.type /\ t.syms[Var(x)].offset = side.offset
        /\ side.offset \in Int
    BY <1>3 DEF VariableOf, Data
  <2>2. FieldsThere(tables, t)
    BY DEF Complete
  <2>3. k \in DOMAIN t.syms
    BY <2>1, <2>2 DEF FieldsThere
  <2>4. k[1] = x /\ k[2] = f /\ Len(k) = 2
    BY KeysApart
  <2>5. FieldInImage(n, k)
    <3>1. k \in FieldKeys(tables[n])
      BY <2>3, <2>4 DEF FieldKeys
    <3>2. tables[StructTable(tables[n].syms[Var(k[1])].type)].base >= 0
      BY <2>1, <2>4 DEF Regular
    <3>. HIDE DEF k, t
    <3>. QED
      BY <1>3, <3>1, <3>2, ImageFromInvariant
  <2>6. FieldPlace(n, k) = e.offset
    BY <2>1, <2>4, <2>5 DEF FieldInImage
  <2>7. t.syms[k].offset \in Int
    BY <2>3 DEF IInv, Typed, TablesTyped, TableTyped, PrimData, NamedData
  <2>. QED
    BY <2>1, <2>3, <2>6, <2>7
<1>4. CASE side.kind = "local"
  <2>. DEFINE n == FuncTable(fun)
              d == tables[n].syms[Field(side.name, f)]
  <2>1. VariableOf(side, tables[n], copy.type)
    BY <1>4 DEF SideOK, Frame
  <2>2. /\ StructFirst(n[2]) /\ n # Global
        /\ Orderly(tables, n, tables[n])
    BY <1>1, NamesApart, FromZeroOrderly DEF Regular
  <2>3. /\ FieldPlace(n, Field(side.name, f)) = e.offset
        /\ d.offset \in Int
        /\ tables[n].syms[Var(side.name)].type = copy.type
        /\ tables[n].syms[Var(side.name)].offset = side.offset
        /\ side.offset \in Int
    BY <1>1, <1>3, <2>1, <2>2
  <2>4. Address(d) - Low(side, size) = e.offset
    <3>. DEFINE v == tables[n].syms[Var(side.name)]
    <3>1. Field(side.name, f)[1] = side.name
      BY KeysApart
    <3>2. FieldPlace(n, Field(side.name, f)) = Address(d) - Image(v, StructSize(v.type))
      BY <2>2, <3>1 DEF FieldPlace
    <3>3. v.type = copy.type /\ v.offset = side.offset /\ StructSize(copy.type) = size
      BY <1>1, <2>3
    <3>. HIDE DEF v, size
    <3>4. Image(v, StructSize(v.type)) = Low(side, size)
      BY <1>4, <3>3 DEF Image, Low
    <3>. HIDE DEF d, e, n
    <3>. QED
      BY <2>3, <3>2, <3>4
  <2>5. Address(d) \in Int /\ Low(side, size) \in Int
    BY <1>1, <1>4, <2>3 DEF Address, Size, Low
  <2>6. FieldByte(side, f, i) = <<"rbp", Address(d) + i>>
    BY <1>4 DEF FieldByte, StackRbp
  <2>7. Place(side, size, e.offset + i) = <<"rbp", Low(side, size) + (e.offset + i)>>
    BY <1>4 DEF Place
  <2>. HIDE DEF n, d, size
  <2>8. Address(d) + i = Low(side, size) + (e.offset + i)
    BY <1>2, <2>4, <2>5
  <2>. QED
    BY <2>6, <2>7, <2>8 DEF size
<1>5. CASE side.kind = "global"
  <2>1. VariableOf(side, tables[Global], copy.type)
    BY <1>5 DEF SideOK
  <2>2. tables[Global].syms[Field(side.name, f)].offset = e.offset
    <3>1. FieldPlace(Global, Field(side.name, f)) = e.offset
      BY <1>1, <1>3, <2>1
    <3>. QED
      BY <3>1 DEF FieldPlace
  <2>3. FieldByte(side, f, i) = <<side.name, e.offset + i>>
    BY <1>5, <2>2 DEF FieldByte
  <2>4. Place(side, size, e.offset + i) = <<side.name, 0 + (e.offset + i)>>
    BY <1>5 DEF Place, Low
  <2>. QED
    BY <1>2, <2>3, <2>4
<1>6. CASE side.kind = "stack"
  <2>1. side.offset \in Int
    BY <1>1, <1>6, CopySizes DEF SideOK
  <2>2. FieldByte(side, f, i) = <<"rbp", -side.offset + e.offset + i>>
    BY <1>6 DEF FieldByte, StackRbp, Var
  <2>3. Place(side, size, e.offset + i) = <<"rbp", -side.offset + (e.offset + i)>>
    BY <1>6 DEF Place, Low
  <2>. QED
    BY <1>2, <2>1, <2>2, <2>3
<1>. QED
  BY <1>4, <1>5, <1>6 DEF SideOK

(* When every byte is copied, every field is.                              *)
LEMMA FieldwiseFromInvariant ==
  ASSUME IInv, Complete, CopyInv
  PROVE  CopyIsFieldwise
<1>. DEFINE st == tables[StructTable(copy.type)]
<1>. SUFFICES ASSUME copy.phase = "copied", Regular, NEW k \in Fields(st),
                     NEW i \in 0 .. Size(st.syms[k].type) - 1
              PROVE  Byte(mem, FieldByte(copy.to, k[1], i))
                       = FieldByte(copy.from, k[1], i)
  BY DEF CopyIsFieldwise
<1>1. CopyTyped /\ BytesCopied
  BY DEF CopyInv, NoCopy
<1>2. /\ PlainFields(st) /\ StructOK(st) /\ st.base >= 0
      /\ copy.size = st.max_offset /\ st.max_offset \in Nat
      /\ copy.rax \in 0 .. copy.size
  BY <1>1, ClosedStructsOK, RegularSizes
     DEF IInv, CopyTyped, StructSize, Regular
<1>3. PICK f \in Id : k = Var(f)
  BY <1>2 DEF PlainFields, Fields
<1>4. k[1] = f /\ Var(f) \in DOMAIN st.syms
  BY <1>3, KeysApart DEF Fields
<1>. DEFINE e == st.syms[Var(f)]
            j == e.offset + i
<1>5. /\ e.offset \in Int /\ e.offset >= 0 /\ Size(e.type) \in Nat
      /\ e.offset + Size(e.type) <= st.max_offset
  BY <1>2, <1>4 DEF PlainFields, PrimData, StructOK, Size
<1>6. i \in Int /\ j \in 0 .. copy.size - 1
  BY <1>2, <1>3, <1>5
<1>7. /\ FieldByte(copy.to, f, i) = Place(copy.to, copy.size, j)
      /\ FieldByte(copy.from, f, i) = Place(copy.from, copy.size, j)
  BY <1>1, <1>4, <1>6, FieldPlaces DEF CopyTyped
<1>8. Copied = 0 .. copy.size - 1
  BY <1>1, <1>2 DEF Copied, CopyTyped
<1>. HIDE DEF j
<1>9. Byte(mem, Place(copy.to, copy.size, j)) = Place(copy.from, copy.size, j)
  BY <1>1, <1>6, <1>8 DEF Byte, BytesCopied
<1>. QED
  BY <1>4, <1>7, <1>9

(* A regular copy writes no variable but its target, no parameter, no      *)
(* saved register and no byte of the caller, whatever the declarations.    *)
THEOREM NothingElseWritten == AssignSpec => []OthersKept
<1>1. IInv /\ CopyInv => OthersKept
  BY OthersFromInvariant
<1>. QED
  BY <1>1, CopyInvariance, PTL

(* After a regular copy of a struct every field of the target is what the  *)
(* field of the source was.                                                *)
THEOREM FieldsCopied == AssignSpec => []CopyIsFieldwise
<1>1. IInv /\ Complete /\ CopyInv => CopyIsFieldwise
  BY FieldwiseFromInvariant
<1>. QED
  BY <1>1, CopyInvariance, PTL
=============================================================================
